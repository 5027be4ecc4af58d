----------------------------- MODULE UdpSource ------------------------------
(***************************************************************************)
(* Reception through a socket: a sender (the device, or a program with     *)
(* HrzrUdpTransmitter), the network, the receive buffer of the socket,     *)
(* UdpSource, and the threads that call IqClient::GetSamples.              *)
(*                                                                         *)
(* getSamples receives number_of_samples / SAMPLES_PER_PACKET + 1          *)
(* datagrams, whatever they are, and parses those that are whole and of    *)
(* type DATA to the places of the caller's array that belong to the        *)
(* datagram's index in the call.  It parses `buf' from its first byte, and *)
(* `buf', a member of the object, begins with the header.                  *)
(*                                                                         *)
(* Nothing keeps two threads from calling getSamples of one UdpSource at   *)
(* once, as IqClientTest.GetSamplesOnTwoStreams does with a DpdkSource;    *)
(* num_stream is ignored, `buf' is shared.  `overlapped' records that one  *)
(* thread has received into `buf' what another had not yet parsed.         *)
(***************************************************************************)
EXTENDS HrzrCodec, Sequences, FiniteSets

CONSTANTS
  Caller,            \* threads that call GetSamples
  SamplesPerPacket,  \* SAMPLES_PER_PACKET: 366 samples, a word of 4 bytes each
  HeaderWords,       \* the HRZR header in such words: 2
  Request,           \* values of number_of_samples
  Size,              \* lengths of datagrams, in words
  Control,           \* control nibbles of the device's packets
  Start,             \* <<sender, number>>: who sends, from which number on
  QueueCap,          \* datagrams the socket's receive buffer takes
  MaxSent            \* bound on the datagrams sent

Sender == {"device", "transmitter"}

ASSUME UdpAssumption ==
  /\ SamplesPerPacket \in Nat \ {0} /\ HeaderWords \in Nat \ {0}
  /\ Request \subseteq Nat /\ Size \subseteq Nat \ {0}
  /\ Control \subseteq Nibble /\ Start \subseteq Sender \X SequenceNumber
  /\ QueueCap \in Nat /\ MaxSent \in Nat

VARIABLES
  alive,       \* the process has not exited
  norm,        \* IqClient::norm
  source,      \* the live UdpSource: the norm of its parser, or None
  sockets,     \* sockets of the process that are bound to SERVER:PORT
  sender,      \* who sends
  number,      \* the sender's next sequence number
  sent,        \* datagrams sent so far, lost ones included
  queue,       \* the socket's receive buffer, oldest datagram first
  buf,         \* UdpSource::buf: <<datagram, word of it>> for each word
  header,      \* the word its header begins with
  pc,          \* where a caller is: "recv" and "parse" are inside a call
  want,        \* number_of_samples of the call
  packet_idx,  \* datagrams received by the call
  total,       \* total_samples_received
  samples,     \* the caller's array, the places the call has written to
  delivered,   \* the datagram parsed last; 0 before the first
  overlapped   \* a thread has received while another had yet to parse

socketVars == <<alive, norm, source, sockets>>
senderVars == <<sender, number, sent>>
callVars == <<pc, want, packet_idx, total, samples>>
vars == <<socketVars, senderVars, queue, buf, header, callVars, delivered,
          overlapped>>

PacketWords == HeaderWords + SamplesPerPacket     \* PACKET_SIZE

(* Norms by which samples can be divided or not.  `source' is the norm its *)
(* parser was made with, or None if there is no live UdpSource.            *)
Norm == {"zero", "nonzero"}
None == "none"

Nothing == [p \in {} |-> <<>>]

Init ==
  /\ alive = TRUE /\ norm = "nonzero" /\ source = None /\ sockets = 0
  /\ \E s \in Start : sender = s[1] /\ number = s[2]
  /\ sent = 0
  /\ queue = <<>>
  /\ buf = [w \in 0 .. PacketWords - 1 |-> <<0, w>>] /\ header = 0
  /\ pc = [c \in Caller |-> "ready"]
  /\ want = [c \in Caller |-> 0] /\ packet_idx = [c \in Caller |-> 0]
  /\ total = [c \in Caller |-> 0] /\ samples = [c \in Caller |-> Nothing]
  /\ delivered = 0 /\ overlapped = FALSE

InCall(c) == pc[c] \in {"recv", "parse"}

-----------------------------------------------------------------------------
(* The sender and the network                                              *)

(* A sequence number wraps after twelve bits.  HrzrUdpTransmitter takes    *)
(* the next one whatever send returned.                                    *)
NextNumber(n) == IF n + 1 = 4096 THEN 0 ELSE n + 1

(* The word a packet with control nibble c begins with.                    *)
FirstWord(c) ==
  IF sender = "device" THEN DeviceWord(c, number) ELSE TransmitterWord(number)

(* A datagram is sent; it is lost on the way, or for want of a bound       *)
(* socket or of room in its buffer, or it is queued.  `packet.samples' of  *)
(* the transmitter takes no more than SAMPLES_PER_PACKET samples.          *)
Send(c, size) ==
  /\ alive /\ sent < MaxSent
  /\ sender = "transmitter" => c = 0 /\ size <= PacketWords
  /\ sent' = sent + 1
  /\ number' = NextNumber(number)
  /\ \/ UNCHANGED queue
     \/ /\ sockets > 0 /\ Len(queue) < QueueCap
        /\ queue' = Append(queue, [n |-> sent + 1, word |-> FirstWord(c),
                                   size |-> size])
  /\ UNCHANGED <<socketVars, sender, buf, header, callVars, delivered,
                 overlapped>>

-----------------------------------------------------------------------------
(* IqClient and the socket                                                 *)

SetNorm(f) ==
  /\ alive
  /\ norm' = f
  /\ UNCHANGED <<alive, source, sockets, senderVars, queue, buf, header,
                 callVars, delivered, overlapped>>

(* A mistake to detect: bind's result is not looked at.                    *)
BindIgnored == sockets \in Nat

(* bind fails if the address is in use, and may fail for other reasons.    *)
BindSucceeds == sockets = 0

(* A mistake to detect: any norm is taken.                                 *)
AnyNorm(f) == f \in Norm

(* The constructor of HrzrParser throws InvalidValueError if this fails.   *)
ValidNorm(f) == f # "zero"

(* SetupUdpSource.  The parser is made first: if it throws, sample_source  *)
(* and the process go on as they were.                                     *)
SetupUdpSource ==
  /\ alive /\ ValidNorm(norm) /\ BindSucceeds
  /\ source' = norm
  /\ sockets' = sockets + 1
  /\ UNCHANGED <<alive, norm, senderVars, queue, buf, header, callVars,
                 delivered, overlapped>>

(* socket or bind has failed: die calls exit.                              *)
SetupDies ==
  /\ alive /\ ValidNorm(norm)
  /\ alive' = FALSE
  /\ UNCHANGED <<norm, source, sockets, senderVars, queue, buf, header,
                 callVars, delivered, overlapped>>

(* TeardownUdpSource deletes the source, whose disconnect does not close   *)
(* the socket.  No call may be in progress.                                *)
TeardownUdpSource ==
  /\ alive /\ source # None /\ \A c \in Caller : ~InCall(c)
  /\ source' = None
  /\ UNCHANGED <<alive, norm, sockets, senderVars, queue, buf, header,
                 callVars, delivered, overlapped>>

-----------------------------------------------------------------------------
(* UdpSource::getSamples                                                   *)

PacketsToDequeue(n) == n \div SamplesPerPacket + 1

Call(c, n) ==
  /\ alive /\ source # None /\ ~InCall(c)
  /\ pc' = [pc EXCEPT ![c] = "recv"]
  /\ want' = [want EXCEPT ![c] = n]
  /\ packet_idx' = [packet_idx EXCEPT ![c] = 0]
  /\ total' = [total EXCEPT ![c] = 0]
  /\ samples' = [samples EXCEPT ![c] = Nothing]
  /\ UNCHANGED <<socketVars, senderVars, queue, buf, header, delivered,
                 overlapped>>

(* c is in the loop and has datagrams to receive.                          *)
InLoop(c) ==
  alive /\ pc[c] = "recv" /\ packet_idx[c] < PacketsToDequeue(want[c])

(* A mistake to detect: short datagrams are parsed too.                    *)
AnySize(size) == size \in Nat

(* recv returns PACKET_SIZE for whole packets and for longer datagrams,    *)
(* the rest of which is lost.                                              *)
IsWhole(size) == size >= PacketWords

(* A mistake to detect: recv waits until the socket has all that the call  *)
(* asks for.                                                               *)
DatagramsForAll(c) ==
  Len(queue) + packet_idx[c] >= PacketsToDequeue(want[c]) /\ queue # <<>>

(* recv blocks until there is a datagram.                                  *)
Readable(c) == c \in Caller /\ queue # <<>>

(* A mistake to detect: the newest datagram is received first.             *)
TakeNewest(q) == [datagram |-> q[Len(q)], rest |-> SubSeq(q, 1, Len(q) - 1)]

(* What recv takes from the socket, and what it leaves.                    *)
Take(q) == [datagram |-> Head(q), rest |-> Tail(q)]

(* recv: the datagram's words replace those at the beginning of buf.  One  *)
(* that is not whole is skipped, and its index with it.                    *)
Receive(c) ==
  /\ InLoop(c) /\ Readable(c)
  /\ LET d == Take(queue).datagram
     IN  /\ buf' = [w \in DOMAIN buf |-> IF w < d.size THEN <<d.n, w>> ELSE buf[w]]
         /\ header' = d.word
         /\ IF IsWhole(d.size)
              THEN pc' = [pc EXCEPT ![c] = "parse"] /\ UNCHANGED packet_idx
              ELSE UNCHANGED pc /\ packet_idx' = [packet_idx EXCEPT ![c] = @ + 1]
  /\ queue' = Take(queue).rest
  /\ overlapped' = (overlapped \/ \E d \in Caller \ {c} : pc[d] = "parse")
  /\ UNCHANGED <<socketVars, senderVars, want, total, samples, delivered>>

(* recv returns -1: die calls exit.                                        *)
ReceiveDies(c) ==
  /\ InLoop(c)
  /\ alive' = FALSE
  /\ UNCHANGED <<norm, source, sockets, senderVars, queue, buf, header,
                 callVars, delivered, overlapped>>

(* A mistake to detect: packets overlap by one sample.                     *)
PlaceOverlapping(idx, i) == idx * (SamplesPerPacket - 1) + i

(* Where parsePayloadSamples puts sample i of the packet at index idx.     *)
Place(idx, i) == idx * SamplesPerPacket + i

PlacesOf(idx) == {Place(idx, i) : i \in 0 .. SamplesPerPacket - 1}

(* parsePayloadSamples takes sample i from word i of what it is given.     *)
Parse(c) ==
  /\ alive /\ pc[c] = "parse" /\ GetControlFromHeader(header) = "DATA"
  /\ pc' = [pc EXCEPT ![c] = "recv"]
  /\ packet_idx' = [packet_idx EXCEPT ![c] = @ + 1]
  /\ total' = [total EXCEPT ![c] = @ + SamplesPerPacket]
  /\ samples' = [samples EXCEPT ![c] =
        [p \in DOMAIN @ \cup PlacesOf(packet_idx[c]) |->
           IF p \in PlacesOf(packet_idx[c])
             THEN buf[p - Place(packet_idx[c], 0)] ELSE @[p]]]
  /\ delivered' = buf[0][1]
  /\ UNCHANGED <<socketVars, senderVars, queue, buf, header, want, overlapped>>

(* A mistake to detect: a packet that is not parsed is counted.            *)
IgnoreCounted(c) ==
  /\ alive /\ pc[c] = "parse" /\ GetControlFromHeader(header) \notin {"DATA", Unmatched}
  /\ pc' = [pc EXCEPT ![c] = "recv"]
  /\ packet_idx' = [packet_idx EXCEPT ![c] = @ + 1]
  /\ total' = [total EXCEPT ![c] = @ + SamplesPerPacket]
  /\ UNCHANGED <<socketVars, senderVars, queue, buf, header, want, samples,
                 delivered, overlapped>>

(* A packet of another type, the end of a burst too, leaves a hole.        *)
Ignore(c) ==
  /\ alive /\ pc[c] = "parse" /\ GetControlFromHeader(header) \notin {"DATA", Unmatched}
  /\ pc' = [pc EXCEPT ![c] = "recv"]
  /\ packet_idx' = [packet_idx EXCEPT ![c] = @ + 1]
  /\ UNCHANGED <<socketVars, senderVars, queue, buf, header, want, total,
                 samples, delivered, overlapped>>

(* InvalidHrzrHeader leaves getSamples; what has been counted is lost.     *)
Throw(c) ==
  /\ alive /\ pc[c] = "parse" /\ GetControlFromHeader(header) = Unmatched
  /\ pc' = [pc EXCEPT ![c] = "threw"]
  /\ UNCHANGED <<socketVars, senderVars, queue, buf, header, want, packet_idx,
                 total, samples, delivered, overlapped>>

Return(c) ==
  /\ alive /\ pc[c] = "recv" /\ ~InLoop(c)
  /\ pc' = [pc EXCEPT ![c] = "returned"]
  /\ UNCHANGED <<socketVars, senderVars, queue, buf, header, want, packet_idx,
                 total, samples, delivered, overlapped>>

-----------------------------------------------------------------------------
(* A call in progress goes on.                                             *)
GetSamples(c) == Receive(c) \/ Parse(c) \/ Ignore(c) \/ Throw(c) \/ Return(c)

Next ==
  \/ \E c \in Control, size \in Size : Send(c, size)
  \/ \E f \in Norm : SetNorm(f)
  \/ SetupUdpSource \/ SetupDies \/ TeardownUdpSource
  \/ \E c \in Caller :
       \/ \E n \in Request : Call(c, n)
       \/ GetSamples(c)
       \/ ReceiveDies(c)

Spec == Init /\ [][Next]_vars

(* The operating system runs every thread and recv returns once there is a *)
(* datagram.  Nobody need send, call, set up or tear down.                 *)
FairSpec == Spec /\ \A c \in Caller : WF_vars(GetSamples(c))

-----------------------------------------------------------------------------
Datagram == [n : Nat \ {0}, word : Word, size : Size]

(* Every variable has its type; the process never has two sockets on the   *)
(* address, however often a source is set up and torn down.                *)
TypeOK ==
  /\ alive \in BOOLEAN /\ norm \in Norm /\ source \in Norm \cup {None}
  /\ sockets \in {0, 1}
  /\ sender \in Sender /\ number \in SequenceNumber /\ sent \in Nat
  /\ queue \in Seq(Datagram) /\ Len(queue) <= QueueCap
  /\ buf \in [0 .. PacketWords - 1 -> Nat \X Nat] /\ header \in Word
  /\ pc \in [Caller -> {"ready", "recv", "parse", "returned", "threw"}]
  /\ want \in [Caller -> Nat]
  /\ packet_idx \in [Caller -> Nat]
  /\ total \in [Caller -> Nat]
  /\ samples = [c \in Caller |-> samples[c]]
  /\ \A c \in Caller : samples[c] \in [DOMAIN samples[c] -> Nat \X Nat]
  /\ delivered \in Nat /\ overlapped \in BOOLEAN

(* The count that getSamples returns is the number of samples it has       *)
(* stored, whatever came between the DATA packets (README.md:118).         *)
CountIsPlaces ==
  \A c \in Caller : total[c] = Cardinality(DOMAIN samples[c])

(* If all that a call received were DATA packets, the samples are where a  *)
(* caller looks for them, at the beginning of its array.                   *)
PrefixIfAllData ==
  \A c \in Caller :
    total[c] = packet_idx[c] * SamplesPerPacket =>
      DOMAIN samples[c] = 0 .. total[c] - 1

(* The samples in an array are in the order in which they were sent: those *)
(* of a packet together, each packet behind all of the one before.         *)
ArraysInOrder ==
  \A c \in Caller : \A p, q \in DOMAIN samples[c] :
    p < q => \/ /\ samples[c][p][1] < samples[c][q][1]
                /\ p < q - samples[c][q][2]
             \/ /\ samples[c][p][1] = samples[c][q][1]
                /\ samples[c][q][2] - samples[c][p][2] = q - p

(* As long as no thread received while another had yet to parse, the       *)
(* arrays are in order, no packet twice and none torn.                     *)
OrderInArray == ~overlapped => ArraysInOrder

(* Whatever packet the device sends next is read with the number and the   *)
(* type it was sent with, also after the number has wrapped.               *)
NextHeaderReadable ==
  sender = "device" => \A c \in Nibble : HeaderReadBack(c, number)

(* No sample is divided by zero, whatever norm is set once the source has  *)
(* been set up.                                                            *)
DivisorValid == source # "zero"

(* A call waits only for want of datagrams: one that is in the socket ends *)
(* the wait of a call, or is taken by another call.                        *)
BlocksOnlyOnEmptySocket ==
  \A c \in Caller :
    InCall(c) /\ queue # <<>> ~> ~InCall(c) \/ queue = <<>> \/ ~alive

(* A UdpSource is a SampleSource until threads get into each other's way.  *)
Source == INSTANCE SampleSource
            WITH arrived <- sent, delivered <- delivered, void <- overlapped
SourceSpec == Source!Spec

(* What README.md:118 says, that GetSamples retrieves "a maximum of        *)
(* `number_of_samples` items into `samples`", and what the arrays of       *)
(* README.md:121 and iqClientTest.cc:39 have room for: a call writes to no *)
(* place at or beyond number_of_samples.                                   *)
AtMostRequested ==
  \A c \in Caller : \A p \in DOMAIN samples[c] : p < want[c]
=============================================================================
