--------------------------- MODULE UdpSourceProofs --------------------------
(* Theorems about UdpSource: any number of callers, packets of any size,   *)
(* any traffic.                                                            *)
EXTENDS UdpSource, HrzrCodecProofs, FiniteSetTheorems, TLAPS

(* Where the loop of a call stands and what it has written so far: places  *)
(* of the packets up to packet_idx, as many as it has counted.             *)
Stored ==
  \A c \in Caller :
    /\ packet_idx[c] <= PacketsToDequeue(want[c])
    /\ pc[c] = "parse" => packet_idx[c] < PacketsToDequeue(want[c])
    /\ DOMAIN samples[c] \subseteq 0 .. packet_idx[c] * SamplesPerPacket - 1
    /\ IsFiniteSet(DOMAIN samples[c])
    /\ total[c] = Cardinality(DOMAIN samples[c])

(* While threads have not got into each other's way: datagrams are queued  *)
(* in order, what is stored is older than they are, and what one thread    *)
(* has received and not yet parsed is whole and lies between.              *)
InOrder ==
  /\ delivered <= sent
  /\ \A i \in DOMAIN queue : delivered < queue[i].n /\ queue[i].n <= sent
  /\ \A i, j \in DOMAIN queue : i < j => queue[i].n < queue[j].n
  /\ \A c \in Caller : \A p \in DOMAIN samples[c] : samples[c][p][1] <= delivered
  /\ \A c, d \in Caller : pc[c] = "parse" /\ pc[d] = "parse" => c = d
  /\ \A c \in Caller : pc[c] = "parse" =>
       /\ \A w \in 0 .. PacketWords - 1 : buf[w] = <<buf[0][1], w>>
       /\ delivered < buf[0][1] /\ buf[0][1] <= sent
       /\ \A i \in DOMAIN queue : buf[0][1] < queue[i].n
  /\ ArraysInOrder

IInv ==
  /\ TypeOK /\ DivisorValid /\ Stored
  /\ ~overlapped => InOrder

-----------------------------------------------------------------------------
(* The words the senders put at the beginning of a packet.                 *)
LEMMA FirstWordIsWord ==
  ASSUME NEW c \in Nibble, number \in SequenceNumber
  PROVE  FirstWord(c) \in Word
<1>1. TransmitterWord(number) \in Word
  BY DEF TransmitterWord, SequenceNumber, Word
<1>2. 16 * c + number \div 256 \in Byte /\ number % 256 \in Byte
  BY SMT DEF Nibble, SequenceNumber, Byte
<1>3. DeviceWord(c, number) \in Word
  BY <1>2, Bytes DEF DeviceWord
<1> QED
  BY <1>1, <1>3 DEF FirstWord

LEMMA Next12 ==
  ASSUME NEW n \in SequenceNumber
  PROVE  NextNumber(n) \in SequenceNumber
  BY DEF NextNumber, SequenceNumber

(* The places of packet k lie after those of the packets before it.        *)
LEMMA PlacesLemma ==
  ASSUME NEW k \in Nat, UdpAssumption
  PROVE  /\ k * SamplesPerPacket \in Nat
         /\ (k + 1) * SamplesPerPacket = k * SamplesPerPacket + SamplesPerPacket
         /\ Place(k, 0) = k * SamplesPerPacket
         /\ PlacesOf(k) = k * SamplesPerPacket .. (k + 1) * SamplesPerPacket - 1
<1> DEFINE S == SamplesPerPacket
           b == k * S
<1>1. S \in Nat \ {0}
  BY DEF UdpAssumption
<1>2. b \in Nat /\ (k + 1) * S = b + S
  BY <1>1
<1>3. Place(k, 0) = b
  BY <1>2 DEF Place
<1>4. PlacesOf(k) = {b + i : i \in 0 .. S - 1}
  BY DEF PlacesOf, Place
<1> HIDE DEF b
<1>5. {b + i : i \in 0 .. S - 1} = b .. b + S - 1
  <2>1. ASSUME NEW p \in b .. b + S - 1
        PROVE  p \in {b + i : i \in 0 .. S - 1}
    <3>1. p - b \in 0 .. S - 1 /\ p = b + (p - b)
      BY <1>1, <1>2, <2>1
    <3> QED
      BY <3>1
  <2>2. ASSUME NEW i \in 0 .. S - 1
        PROVE  b + i \in b .. b + S - 1
    BY <1>1, <1>2, <2>2
  <2> QED
    BY <2>1, <2>2
<1> QED
  BY <1>2, <1>3, <1>4, <1>5 DEF b

(* The index of a datagram of the call is below what was asked for.        *)
LEMMA WithinRequest ==
  ASSUME NEW n \in Nat, NEW k \in Nat, UdpAssumption, k <= PacketsToDequeue(n)
  PROVE  k * SamplesPerPacket <= n + SamplesPerPacket
<1> DEFINE S == SamplesPerPacket
           q == n \div S
<1>1. S \in Nat \ {0}
  BY DEF UdpAssumption
<1>2. q \in Nat /\ S * q <= n
  BY <1>1, SMT
<1>3. k <= q + 1
  BY DEF PacketsToDequeue
<1> HIDE DEF q
<1>4. k * S <= (q + 1) * S
  BY <1>1, <1>2, <1>3, SMT
<1>5. (q + 1) * S = S * q + S
  BY <1>1, <1>2, SMT
<1> QED
  BY <1>1, <1>2, <1>4, <1>5, SMT

(* What is queued is numbered.                                             *)
LEMMA QueueNumbers ==
  ASSUME queue \in Seq(Datagram)
  PROVE  \A i \in DOMAIN queue : i \in 1 .. Len(queue) /\ queue[i].n \in Nat
<1> SUFFICES ASSUME NEW i \in DOMAIN queue
             PROVE  i \in 1 .. Len(queue) /\ queue[i].n \in Nat
  OBVIOUS
<1>1. i \in 1 .. Len(queue) /\ queue[i] \in Datagram
  OBVIOUS
<1> QED
  BY <1>1 DEF Datagram

-----------------------------------------------------------------------------
(* The inductive invariant: initial states.                                *)
LEMMA InitIInv == Init => IInv
<1> SUFFICES ASSUME Init
             PROVE  IInv
  OBVIOUS
<1> USE UdpAssumption DEF Init
<1>1. Nothing \in [DOMAIN Nothing -> Nat \X Nat] /\ DOMAIN Nothing = {}
  BY DEF Nothing
<1>2. TypeOK
  <2>1. sender \in Sender /\ number \in SequenceNumber
    BY DEF UdpAssumption
  <2>2. buf \in [0 .. PacketWords - 1 -> Nat \X Nat] /\ header \in Word
    BY DEF Word
  <2>3. queue \in Seq(Datagram) /\ Len(queue) <= QueueCap
    BY DEF UdpAssumption
  <2> QED
    BY <1>1, <2>1, <2>2, <2>3 DEF TypeOK, Norm, None
<1>3. Stored
  <2> SUFFICES ASSUME NEW c \in Caller
               PROVE  /\ 0 <= PacketsToDequeue(0)
                      /\ {} \subseteq 0 .. 0 * SamplesPerPacket - 1
                      /\ IsFiniteSet({}) /\ Cardinality({}) = 0
    BY <1>1 DEF Stored
  <2>1. 0 \div SamplesPerPacket >= 0
    BY SMT DEF UdpAssumption
  <2> QED
    BY <2>1, FS_EmptySet DEF PacketsToDequeue
<1>4. InOrder
  BY <1>1 DEF InOrder, ArraysInOrder
<1> QED
  BY <1>2, <1>3, <1>4 DEF IInv, DivisorValid, None

(* Actions of the sender and of IqClient leave calls and buf alone.        *)
LEMMA SendStep ==
  ASSUME IInv, NEW c \in Control, NEW size \in Size, Send(c, size)
  PROVE  IInv'
<1> USE UdpAssumption DEF IInv
<1> DEFINE d == [n |-> sent + 1, word |-> FirstWord(c), size |-> size]
<1>1. UNCHANGED <<socketVars, sender, buf, header, callVars, delivered, overlapped>>
      /\ sent' = sent + 1 /\ number' = NextNumber(number)
  BY DEF Send
<1>2. \/ UNCHANGED queue
      \/ Len(queue) < QueueCap /\ queue' = Append(queue, d)
  BY DEF Send
<1>3. d \in Datagram
  <2>1. FirstWord(c) \in Word
    BY FirstWordIsWord DEF TypeOK, UdpAssumption
  <2> QED
    BY <2>1 DEF Datagram, TypeOK
<1>4. TypeOK'
  <2>1. queue' \in Seq(Datagram) /\ Len(queue') <= QueueCap
    <3>1. queue \in Seq(Datagram) /\ Len(queue) <= QueueCap
      BY DEF TypeOK
    <3>2. CASE UNCHANGED queue
      BY <3>1, <3>2
    <3>3. CASE Len(queue) < QueueCap /\ queue' = Append(queue, d)
      <4> HIDE DEF d
      <4>1. queue' \in Seq(Datagram) /\ Len(queue') = Len(queue) + 1
        BY <1>3, <3>1, <3>3
      <4> QED
        BY <3>1, <3>3, <4>1 DEF UdpAssumption
    <3> QED
      BY <1>2, <3>2, <3>3
  <2>2. number' \in SequenceNumber
    BY <1>1, Next12 DEF TypeOK
  <2> QED
    BY <1>1, <2>1, <2>2 DEF TypeOK, socketVars, callVars
<1>5. Stored' /\ DivisorValid'
  BY <1>1 DEF Stored, DivisorValid, socketVars, callVars
<1>6. ASSUME ~overlapped
      PROVE  InOrder'
  <2> USE <1>6
  <2>1. queue \in Seq(Datagram) /\ sent \in Nat /\ delivered \in Nat
    BY DEF TypeOK
  <2>2. \A i \in DOMAIN queue' :
          \/ i \in DOMAIN queue /\ queue'[i] = queue[i]
          \/ i = Len(queue) + 1 /\ i \notin DOMAIN queue /\ queue'[i].n = sent + 1
    <3>1. CASE UNCHANGED queue
      BY <3>1
    <3>2. CASE queue' = Append(queue, d)
      BY <2>1, <3>2
    <3> QED
      BY <1>2, <3>1, <3>2
  <2>3. \A i \in DOMAIN queue : i \in 1 .. Len(queue) /\ queue[i].n \in Nat
    BY <2>1, QueueNumbers
  <2>4. \A i \in DOMAIN queue' : delivered < queue'[i].n /\ queue'[i].n <= sent + 1
    BY <2>1, <2>2, <2>3 DEF InOrder
  <2>5. ASSUME NEW i \in DOMAIN queue', NEW j \in DOMAIN queue', i < j
        PROVE  queue'[i].n < queue'[j].n
    <3>1. Len(queue) \in Nat
      BY <2>1
    <3>2. CASE j \in DOMAIN queue /\ queue'[j] = queue[j]
      <4>1. i \in DOMAIN queue /\ queue'[i] = queue[i]
        BY <2>2, <2>3, <2>5, <3>1, <3>2
      <4> QED
        BY <2>5, <3>2, <4>1 DEF InOrder
    <3>3. CASE j = Len(queue) + 1 /\ queue'[j].n = sent + 1
      <4>1. i \in DOMAIN queue /\ queue'[i] = queue[i]
        BY <2>2, <2>5, <3>1, <3>3
      <4> QED
        BY <2>1, <2>3, <3>3, <4>1 DEF InOrder
    <3> QED
      BY <2>2, <3>2, <3>3
  <2>6. buf[0][1] \in Nat
    BY SMT DEF TypeOK, PacketWords, UdpAssumption
  <2>7. ASSUME NEW b \in Caller, pc[b] = "parse"
        PROVE  /\ buf[0][1] <= sent + 1
               /\ \A i \in DOMAIN queue' : buf[0][1] < queue'[i].n
    <3>1. buf[0][1] <= sent /\ \A i \in DOMAIN queue : buf[0][1] < queue[i].n
      BY <2>7 DEF InOrder
    <3> QED
      BY <2>1, <2>2, <2>6, <3>1
  <2>8. ArraysInOrder'
    BY <1>1 DEF InOrder, ArraysInOrder, callVars
  <2> QED
    BY <1>1, <2>1, <2>4, <2>5, <2>7, <2>8 DEF InOrder, callVars
<1> QED
  BY <1>1, <1>4, <1>5, <1>6

(* Steps that change no more than what IqClient and the process are.       *)
LEMMA QuietStep ==
  ASSUME IInv, alive' \in BOOLEAN, norm' \in Norm, sockets' \in {0, 1},
         source' \in Norm \cup {None}, source' # "zero",
         UNCHANGED <<senderVars, queue, buf, header, callVars, delivered, overlapped>>
  PROVE  IInv'
<1> USE DEF IInv, senderVars, callVars
<1>1. TypeOK'
  BY DEF TypeOK
<1>2. Stored'
  BY DEF Stored
<1>3. ~overlapped => InOrder'
  BY DEF InOrder, ArraysInOrder
<1> QED
  BY <1>1, <1>2, <1>3 DEF DivisorValid

LEMMA QuietActions ==
  ASSUME IInv,
         \/ \E f \in Norm : SetNorm(f)
         \/ SetupUdpSource \/ SetupDies \/ TeardownUdpSource
         \/ \E c \in Caller : ReceiveDies(c)
  PROVE  IInv'
<1> USE DEF IInv, TypeOK, DivisorValid, socketVars
<1>1. CASE \E f \in Norm : SetNorm(f)
  BY <1>1, QuietStep DEF SetNorm
<1>2. CASE SetupUdpSource
  BY <1>2, QuietStep DEF SetupUdpSource, ValidNorm, BindSucceeds
<1>3. CASE SetupDies
  BY <1>3, QuietStep DEF SetupDies
<1>4. CASE TeardownUdpSource
  BY <1>4, QuietStep DEF TeardownUdpSource, None
<1>5. CASE \E c \in Caller : ReceiveDies(c)
  BY <1>5, QuietStep DEF ReceiveDies
<1> QED
  BY <1>1, <1>2, <1>3, <1>4, <1>5

(* A call begins with an empty array.                                      *)
LEMMA CallStep ==
  ASSUME IInv, NEW c \in Caller, NEW n \in Request, Call(c, n)
  PROVE  IInv'
<1> USE UdpAssumption DEF IInv
<1>1. Nothing \in [DOMAIN Nothing -> Nat \X Nat] /\ DOMAIN Nothing = {}
  BY DEF Nothing
<1>2. n \in Nat
  BY DEF UdpAssumption
<1>3. UNCHANGED <<socketVars, senderVars, queue, buf, header, delivered, overlapped>>
  BY DEF Call
<1>4. /\ pc' = [pc EXCEPT ![c] = "recv"] /\ want' = [want EXCEPT ![c] = n]
      /\ packet_idx' = [packet_idx EXCEPT ![c] = 0]
      /\ total' = [total EXCEPT ![c] = 0]
      /\ samples' = [samples EXCEPT ![c] = Nothing]
  BY DEF Call
<1>9. samples' = [b \in Caller |-> IF b = c THEN Nothing ELSE samples[b]]
  BY <1>4 DEF TypeOK
<1>10. pc' = [b \in Caller |-> IF b = c THEN "recv" ELSE pc[b]]
  BY <1>4 DEF TypeOK
<1>5. TypeOK'
  BY <1>1, <1>2, <1>3, <1>4, <1>9 DEF TypeOK, socketVars, senderVars
<1>6. Stored'
  <2>1. 0 <= PacketsToDequeue(n)
    <3>1. n \div SamplesPerPacket \in Nat
      BY <1>2, SMT DEF UdpAssumption
    <3> QED
      BY <3>1 DEF PacketsToDequeue
  <2>2. IsFiniteSet({}) /\ Cardinality({}) = 0
    BY FS_EmptySet
  <2> SUFFICES ASSUME NEW b \in Caller
               PROVE  /\ packet_idx[b]' <= PacketsToDequeue(want'[b])
                      /\ pc'[b] = "parse" => packet_idx'[b] < PacketsToDequeue(want'[b])
                      /\ DOMAIN samples'[b] \subseteq 0 .. packet_idx'[b] * SamplesPerPacket - 1
                      /\ IsFiniteSet(DOMAIN samples'[b])
                      /\ total'[b] = Cardinality(DOMAIN samples'[b])
    BY DEF Stored
  <2>3. CASE b = c
    BY <1>1, <1>4, <1>9, <2>1, <2>2, <2>3 DEF TypeOK
  <2>4. CASE b # c
    BY <1>4, <2>4 DEF TypeOK, Stored
  <2> QED
    BY <2>3, <2>4
<1>7. DivisorValid'
  BY <1>3 DEF DivisorValid, socketVars
<1>8. ASSUME ~overlapped
      PROVE  InOrder'
  <2> USE <1>8
  <2>1. \A b \in Caller : \/ b # c /\ samples'[b] = samples[b] /\ pc'[b] = pc[b]
                          \/ b = c /\ DOMAIN samples'[b] = {} /\ pc'[b] = "recv"
    BY <1>1, <1>9, <1>10
  <2>2. ArraysInOrder'
    BY <1>3, <2>1 DEF InOrder, ArraysInOrder
  <2> QED
    BY <1>3, <2>1, <2>2 DEF InOrder, senderVars
<1> QED
  BY <1>3, <1>5, <1>6, <1>7, <1>8

(* A datagram is received: if it is whole, buf holds nothing but it.       *)
LEMMA ReceiveStep ==
  ASSUME IInv, NEW c \in Caller, Receive(c)
  PROVE  IInv'
<1> USE UdpAssumption DEF IInv
<1> DEFINE d == Head(queue)
<1>1. /\ pc[c] = "recv" /\ packet_idx[c] < PacketsToDequeue(want[c]) /\ queue # <<>>
      /\ buf' = [w \in DOMAIN buf |-> IF w < d.size THEN <<d.n, w>> ELSE buf[w]]
      /\ header' = d.word /\ queue' = Tail(queue)
      /\ \/ d.size >= PacketWords /\ pc' = [pc EXCEPT ![c] = "parse"] /\ UNCHANGED packet_idx
         \/ UNCHANGED pc /\ packet_idx' = [packet_idx EXCEPT ![c] = packet_idx[c] + 1]
      /\ overlapped' = (overlapped \/ \E b \in Caller \ {c} : pc[b] = "parse")
      /\ UNCHANGED <<socketVars, senderVars, want, total, samples, delivered>>
  BY DEF Receive, InLoop, Readable, Take, IsWhole
<1>2. queue \in Seq(Datagram) /\ d \in Datagram /\ queue' \in Seq(Datagram)
      /\ Len(queue') = Len(queue) - 1 /\ Len(queue) \in Nat
  <2>1. queue \in Seq(Datagram) /\ queue # <<>>
    <3>1. queue \in Seq(Datagram)
      BY DEF TypeOK
    <3> QED
      BY <1>1, <3>1
  <2>2. Head(queue) \in Datagram /\ Tail(queue) \in Seq(Datagram)
        /\ Len(Tail(queue)) = Len(queue) - 1 /\ Len(queue) \in Nat
    BY <2>1
  <2> QED
    BY <1>1, <2>1, <2>2
<1>3. d.n \in Nat /\ d.word \in Word /\ d.size \in Nat
  BY <1>2 DEF Datagram, UdpAssumption
<1>4. \A i \in DOMAIN queue' : /\ i \in 1 .. Len(queue) - 1 /\ i + 1 \in DOMAIN queue
                              /\ queue'[i] = queue[i + 1]
  BY <1>1, <1>2
<1>5. 1 \in DOMAIN queue /\ d = queue[1]
  BY <1>1, <1>2
<1>6. TypeOK'
  <2>1. buf' \in [0 .. PacketWords - 1 -> Nat \X Nat] /\ header' \in Word
    <3>1. buf \in [0 .. PacketWords - 1 -> Nat \X Nat]
      BY DEF TypeOK
    <3>2. 0 .. PacketWords - 1 \subseteq Nat
      OBVIOUS
    <3> HIDE DEF d
    <3> QED
      BY <1>1, <1>3, <3>1, <3>2
  <2>2. packet_idx' \in [Caller -> Nat]
    <3>1. packet_idx \in [Caller -> Nat]
      BY DEF TypeOK
    <3>2. CASE UNCHANGED packet_idx
      BY <3>1, <3>2
    <3>3. CASE packet_idx' = [packet_idx EXCEPT ![c] = packet_idx[c] + 1]
      BY <3>1, <3>3
    <3> QED
      BY <1>1, <3>2, <3>3
  <2>3. pc' \in [Caller -> {"ready", "recv", "parse", "returned", "threw"}]
    BY <1>1 DEF TypeOK
  <2>4. Len(queue') <= QueueCap
    BY <1>2 DEF TypeOK, UdpAssumption
  <2>5. overlapped' \in BOOLEAN
    BY <1>1 DEF TypeOK
  <2> QED
    BY <1>1, <1>2, <2>1, <2>2, <2>3, <2>4, <2>5 DEF TypeOK, socketVars, senderVars
<1>7. Stored'
  <2> SUFFICES ASSUME NEW b \in Caller
               PROVE  /\ packet_idx'[b] <= PacketsToDequeue(want[b])
                      /\ pc'[b] = "parse" => packet_idx'[b] < PacketsToDequeue(want[b])
                      /\ DOMAIN samples[b] \subseteq 0 .. packet_idx'[b] * SamplesPerPacket - 1
                      /\ IsFiniteSet(DOMAIN samples[b])
                      /\ total[b] = Cardinality(DOMAIN samples[b])
    BY <1>1 DEF Stored
  <2>1. packet_idx[b] \in Nat /\ want[b] \in Nat
    BY DEF TypeOK
  <2>2. PacketsToDequeue(want[b]) \in Nat
    BY <2>1, SMT DEF PacketsToDequeue, UdpAssumption
  <2>3. /\ packet_idx'[b] = packet_idx[b] \/ (b = c /\ packet_idx'[b] = packet_idx[b] + 1)
        /\ pc'[b] = pc[b] \/ (b = c /\ packet_idx'[b] = packet_idx[b])
        /\ b = c => packet_idx'[b] = packet_idx[b] \/ pc'[b] = "recv"
    BY <1>1 DEF TypeOK
  <2>4. /\ packet_idx'[b] <= PacketsToDequeue(want[b])
        /\ pc'[b] = "parse" => packet_idx'[b] < PacketsToDequeue(want[b])
    BY <1>1, <2>1, <2>2, <2>3 DEF Stored
  <2>5. 0 .. packet_idx[b] * SamplesPerPacket - 1
          \subseteq 0 .. packet_idx'[b] * SamplesPerPacket - 1
    <3>1. /\ packet_idx[b] * SamplesPerPacket \in Nat
          /\ (packet_idx[b] + 1) * SamplesPerPacket
               = packet_idx[b] * SamplesPerPacket + SamplesPerPacket
      BY <2>1, PlacesLemma
    <3> DEFINE x == packet_idx[b] * SamplesPerPacket
               y == packet_idx'[b] * SamplesPerPacket
    <3>2. y = x \/ y = x + SamplesPerPacket
      BY <2>3, <3>1
    <3>3. x \in Nat /\ SamplesPerPacket \in Nat
      BY <3>1 DEF UdpAssumption
    <3> HIDE DEF x, y
    <3>4. 0 .. x - 1 \subseteq 0 .. y - 1
      BY <3>2, <3>3
    <3> QED
      BY <3>4 DEF x, y
  <2> QED
    BY <2>4, <2>5 DEF Stored
<1>8. DivisorValid'
  BY <1>1 DEF DivisorValid, socketVars
<1>9. ASSUME ~overlapped'
      PROVE  InOrder'
  <2>1. ~overlapped /\ InOrder /\ \A b \in Caller \ {c} : pc[b] # "parse"
    BY <1>1, <1>9
  <2>2. \A i \in DOMAIN queue' : delivered < queue'[i].n /\ queue'[i].n <= sent
    BY <1>4, <2>1 DEF InOrder
  <2>3. \A i, j \in DOMAIN queue' : i < j => queue'[i].n < queue'[j].n
    <3> SUFFICES ASSUME NEW i \in DOMAIN queue', NEW j \in DOMAIN queue', i < j
                 PROVE  queue'[i].n < queue'[j].n
      OBVIOUS
    <3>1. i + 1 < j + 1
      BY <1>2, <1>4
    <3> QED
      BY <1>4, <2>1, <3>1 DEF InOrder
  <2>4. \A b \in Caller : pc'[b] = "parse" => b = c /\ d.size >= PacketWords
    BY <1>1, <2>1 DEF TypeOK
  <2>5. ASSUME d.size >= PacketWords
        PROVE  \A w \in 0 .. PacketWords - 1 : buf'[w] = <<d.n, w>>
    <3>1. PacketWords \in Nat /\ DOMAIN buf = 0 .. PacketWords - 1
      BY DEF PacketWords, UdpAssumption, TypeOK
    <3> HIDE DEF d
    <3> QED
      BY <1>1, <1>3, <2>5, <3>1
  <2>6. ASSUME d.size >= PacketWords
        PROVE  /\ \A w \in 0 .. PacketWords - 1 : buf'[w] = <<buf'[0][1], w>>
               /\ buf'[0][1] = d.n
    <3>1. 0 \in 0 .. PacketWords - 1
      BY SMT DEF PacketWords, UdpAssumption
    <3>2. buf'[0] = <<d.n, 0>>
      BY <2>5, <2>6, <3>1
    <3> QED
      BY <2>5, <2>6, <3>2
  <2>7. /\ delivered < d.n /\ d.n <= sent
        /\ \A i \in DOMAIN queue' : d.n < queue'[i].n
    <3>1. delivered < d.n /\ d.n <= sent
      BY <1>5, <2>1 DEF InOrder
    <3>2. ASSUME NEW i \in DOMAIN queue'
          PROVE  d.n < queue'[i].n
      <4>1. 1 < i + 1
        BY <1>2, <1>4
      <4> QED
        BY <1>4, <1>5, <2>1, <4>1 DEF InOrder
    <3> QED
      BY <3>1, <3>2
  <2>8. ArraysInOrder'
    BY <1>1, <2>1 DEF InOrder, ArraysInOrder
  <2>9. UNCHANGED <<sent, delivered, samples>>
    BY <1>1 DEF senderVars
  <2>10. delivered <= sent /\ \A b \in Caller : \A p \in DOMAIN samples[b] :
           samples[b][p][1] <= delivered
    BY <2>1 DEF InOrder
  <2> HIDE DEF d
  <2> QED
    BY <2>2, <2>3, <2>4, <2>6, <2>7, <2>8, <2>9, <2>10 DEF InOrder
<1> QED
  BY <1>6, <1>7, <1>8, <1>9

(* A caller's array before and after the parsing of a packet.              *)
LEMMA ArrayAfterParse ==
  ASSUME IInv, NEW c \in Caller, Parse(c),
         NEW b, b = packet_idx[c] * SamplesPerPacket
  PROVE  /\ b \in Nat /\ SamplesPerPacket \in Nat \ {0}
         /\ DOMAIN samples[c] \subseteq 0 .. b - 1
         /\ samples' = [a \in Caller |-> IF a = c THEN samples'[c] ELSE samples[a]]
         /\ DOMAIN samples'[c] = DOMAIN samples[c] \cup (b .. b + SamplesPerPacket - 1)
         /\ \A p \in b .. b + SamplesPerPacket - 1 : samples'[c][p] = buf[p - b]
         /\ \A p \in DOMAIN samples[c] : samples'[c][p] = samples[c][p]
<1> USE UdpAssumption DEF IInv
<1> DEFINE k == packet_idx[c]
           block == b .. b + SamplesPerPacket - 1
           array == [p \in DOMAIN samples[c] \cup block |->
                       IF p \in block THEN buf[p - b] ELSE samples[c][p]]
<1>1. k \in Nat
  BY DEF TypeOK
<1>2. /\ b \in Nat /\ SamplesPerPacket \in Nat \ {0}
      /\ Place(k, 0) = b /\ PlacesOf(k) = block
  <2>1. /\ b \in Nat /\ Place(k, 0) = b /\ (k + 1) * SamplesPerPacket = b + SamplesPerPacket
        /\ PlacesOf(k) = b .. (k + 1) * SamplesPerPacket - 1
    BY <1>1, PlacesLemma
  <2>2. PlacesOf(k) = block
    BY <2>1
  <2> QED
    BY <2>1, <2>2 DEF UdpAssumption
<1>3. DOMAIN samples[c] \subseteq 0 .. b - 1
  BY DEF Stored
<1>4. samples' = [samples EXCEPT ![c] = array]
  BY <1>2 DEF Parse
<1>5. samples = [a \in Caller |-> samples[a]]
  BY DEF TypeOK
<1> HIDE DEF array
<1>6. samples' = [a \in Caller |-> IF a = c THEN array ELSE samples[a]]
  BY <1>4, <1>5
<1>7. samples'[c] = array
  BY <1>6
<1> HIDE DEF block
<1>8. /\ DOMAIN array = DOMAIN samples[c] \cup block
      /\ \A p \in block : array[p] = buf[p - b]
      /\ \A p \in DOMAIN samples[c] : p \notin block => array[p] = samples[c][p]
  BY DEF array
<1>9. \A p \in DOMAIN samples[c] : p \notin block
  BY <1>2, <1>3 DEF block
<1> QED
  BY <1>2, <1>3, <1>6, <1>7, <1>8, <1>9 DEF block

(* As many places as samples counted.                                      *)
LEMMA CountAfterParse ==
  ASSUME NEW b \in Nat, NEW n \in Nat \ {0}, NEW D, D \subseteq 0 .. b - 1,
         IsFiniteSet(D)
  PROVE  /\ IsFiniteSet(D \cup (b .. b + n - 1))
         /\ Cardinality(D \cup (b .. b + n - 1)) = Cardinality(D) + n
         /\ D \cup (b .. b + n - 1) \subseteq 0 .. b + n - 1
<1>1. IsFiniteSet(b .. b + n - 1) /\ Cardinality(b .. b + n - 1) = n
  <2>1. b \in Int /\ b + n - 1 \in Int /\ ~(b > b + n - 1) /\ b + n - 1 - b + 1 = n
    OBVIOUS
  <2> DEFINE e == b + n - 1
  <2> HIDE DEF e
  <2>2. IsFiniteSet(b .. e) /\ Cardinality(b .. e) = IF b > e THEN 0 ELSE e - b + 1
    BY <2>1, FS_Interval DEF e
  <2> QED
    BY <2>1, <2>2 DEF e
<1>2. D \cap (b .. b + n - 1) = {}
  OBVIOUS
<1>3. Cardinality({}) = 0 /\ Cardinality(D) \in Nat
  BY FS_EmptySet, FS_CardinalityType
<1>4. /\ IsFiniteSet(D \cup (b .. b + n - 1))
      /\ Cardinality(D \cup (b .. b + n - 1)) = Cardinality(D) + n - 0
  <2> DEFINE E == b .. b + n - 1
  <2>1. IsFiniteSet(E) /\ Cardinality(E) = n /\ D \cap E = {}
    BY <1>1, <1>2
  <2> HIDE DEF E
  <2>2. /\ IsFiniteSet(D \cup E)
        /\ Cardinality(D \cup E)
             = Cardinality(D) + Cardinality(E) - Cardinality(D \cap E)
    BY <2>1, FS_Union
  <2>3. Cardinality(D \cup E) = Cardinality(D) + n - 0
    BY <1>3, <2>1, <2>2
  <2> QED
    BY <2>2, <2>3 DEF E
<1>5. D \cup (b .. b + n - 1) \subseteq 0 .. b + n - 1
  OBVIOUS
<1> QED
  BY <1>3, <1>4, <1>5

LEMMA ParseStep ==
  ASSUME IInv, NEW c \in Caller, Parse(c)
  PROVE  IInv'
<1> USE UdpAssumption DEF IInv
<1> DEFINE b == packet_idx[c] * SamplesPerPacket
           block == b .. b + SamplesPerPacket - 1
<1>1. /\ pc[c] = "parse" /\ pc' = [pc EXCEPT ![c] = "recv"]
      /\ packet_idx' = [packet_idx EXCEPT ![c] = packet_idx[c] + 1]
      /\ total' = [total EXCEPT ![c] = total[c] + SamplesPerPacket]
      /\ delivered' = buf[0][1]
      /\ UNCHANGED <<socketVars, senderVars, queue, buf, header, want, overlapped>>
  BY DEF Parse
<1>2. /\ b \in Nat /\ SamplesPerPacket \in Nat \ {0}
      /\ DOMAIN samples[c] \subseteq 0 .. b - 1
      /\ samples' = [a \in Caller |-> IF a = c THEN samples'[c] ELSE samples[a]]
      /\ DOMAIN samples'[c] = DOMAIN samples[c] \cup block
      /\ \A p \in block : samples'[c][p] = buf[p - b]
      /\ \A p \in DOMAIN samples[c] : samples'[c][p] = samples[c][p]
  BY ArrayAfterParse
<1>3. /\ packet_idx \in [Caller -> Nat] /\ total \in [Caller -> Nat]
      /\ pc \in [Caller -> {"ready", "recv", "parse", "returned", "threw"}]
      /\ buf \in [0 .. PacketWords - 1 -> Nat \X Nat]
      /\ want \in [Caller -> Nat]
  BY DEF TypeOK
<1>4. (packet_idx[c] + 1) * SamplesPerPacket = b + SamplesPerPacket
  BY <1>3, PlacesLemma
<1>5. \A p \in block : p - b \in 0 .. SamplesPerPacket - 1 /\ p - b \in 0 .. PacketWords - 1
  <2> HIDE DEF b
  <2> QED
    BY <1>2 DEF PacketWords, UdpAssumption
<1> HIDE DEF b, block
<1>6. TypeOK'
  <2>1. /\ packet_idx' \in [Caller -> Nat] /\ total' \in [Caller -> Nat]
        /\ pc' \in [Caller -> {"ready", "recv", "parse", "returned", "threw"}]
    BY <1>1, <1>2, <1>3
  <2>2. delivered' \in Nat
    <3>1. 0 \in 0 .. PacketWords - 1
      BY DEF PacketWords, UdpAssumption
    <3> QED
      BY <1>1, <1>3, <3>1
  <2>3. samples' = [a \in Caller |-> samples'[a]]
    BY <1>2
  <2>4. ASSUME NEW a \in Caller
        PROVE  samples'[a] \in [DOMAIN samples'[a] -> Nat \X Nat]
    <3>1. samples[a] \in [DOMAIN samples[a] -> Nat \X Nat]
      BY DEF TypeOK
    <3>2. CASE a # c
      BY <1>2, <3>1, <3>2
    <3>3. CASE a = c
      <4>1. samples'[c] = [p \in DOMAIN samples'[c] |-> samples'[c][p]]
        BY DEF Parse, TypeOK
      <4>2. \A p \in DOMAIN samples'[c] : samples'[c][p] \in Nat \X Nat
        BY <1>2, <1>3, <1>5, <3>1, <3>3
      <4> QED
        BY <3>3, <4>1, <4>2
    <3> QED
      BY <3>2, <3>3
  <2> QED
    BY <1>1, <2>1, <2>2, <2>3, <2>4 DEF TypeOK, socketVars, senderVars
<1>7. Stored'
  <2> SUFFICES ASSUME NEW a \in Caller
               PROVE  /\ packet_idx'[a] <= PacketsToDequeue(want[a])
                      /\ pc'[a] = "parse" => packet_idx'[a] < PacketsToDequeue(want[a])
                      /\ DOMAIN samples'[a] \subseteq 0 .. packet_idx'[a] * SamplesPerPacket - 1
                      /\ IsFiniteSet(DOMAIN samples'[a])
                      /\ total'[a] = Cardinality(DOMAIN samples'[a])
    BY <1>1 DEF Stored
  <2>1. CASE a # c
    BY <1>1, <1>2, <1>3, <2>1 DEF Stored
  <2>2. CASE a = c
    <3>0. want[c] \in Nat
      BY <1>3
    <3>1. PacketsToDequeue(want[c]) \in Nat
      BY <3>0, SMT DEF PacketsToDequeue, UdpAssumption
    <3>2. packet_idx'[c] = packet_idx[c] + 1 /\ pc'[c] = "recv"
          /\ packet_idx'[c] <= PacketsToDequeue(want[c])
      BY <1>1, <1>3, <3>1 DEF Stored
    <3>3. IsFiniteSet(DOMAIN samples[c]) /\ total[c] = Cardinality(DOMAIN samples[c])
      BY DEF Stored
    <3>4. /\ IsFiniteSet(DOMAIN samples'[c])
          /\ Cardinality(DOMAIN samples'[c]) = total[c] + SamplesPerPacket
          /\ DOMAIN samples'[c] \subseteq 0 .. b + SamplesPerPacket - 1
      BY <1>2, <3>3, CountAfterParse DEF block
    <3>5. total'[c] = total[c] + SamplesPerPacket
      BY <1>1, <1>3
    <3>6. packet_idx'[c] * SamplesPerPacket = b + SamplesPerPacket
      BY <1>4, <3>2
    <3>7. DOMAIN samples'[c] \subseteq 0 .. packet_idx'[c] * SamplesPerPacket - 1
      <4> DEFINE x == packet_idx'[c] * SamplesPerPacket
      <4>1. x = b + SamplesPerPacket
        BY <3>6
      <4> HIDE DEF x
      <4>2. x - 1 = b + SamplesPerPacket - 1
        BY <1>2, <4>1
      <4>3. DOMAIN samples'[c] \subseteq 0 .. x - 1
        BY <3>4, <4>2
      <4> QED
        BY <4>3 DEF x
    <3>8. pc'[c] # "parse" /\ total'[c] = Cardinality(DOMAIN samples'[c])
      BY <3>2, <3>4, <3>5
    <3> QED
      BY <2>2, <3>2, <3>4, <3>7, <3>8
  <2> QED
    BY <2>1, <2>2
<1>8. DivisorValid'
  BY <1>1 DEF DivisorValid, socketVars
<1>9. ASSUME ~overlapped
      PROVE  InOrder'
  <2> DEFINE n == buf[0][1]
  <2>1. /\ \A w \in 0 .. PacketWords - 1 : buf[w] = <<n, w>>
        /\ delivered < n /\ n <= sent /\ \A i \in DOMAIN queue : n < queue[i].n
    BY <1>1, <1>9 DEF InOrder
  <2>2. n \in Nat /\ delivered \in Nat
    <3>1. 0 \in 0 .. PacketWords - 1
      BY DEF PacketWords, UdpAssumption
    <3> QED
      BY <1>3, <3>1 DEF TypeOK
  <2>3. \A a \in Caller : pc'[a] # "parse"
    BY <1>1, <1>3, <1>9 DEF InOrder
  <2>4. ASSUME NEW a \in Caller, NEW p \in DOMAIN samples[a]
        PROVE  samples[a][p][1] \in Nat /\ samples[a][p][1] < n
    <3>1. samples[a][p] \in Nat \X Nat
      BY DEF TypeOK
    <3>2. samples[a][p][1] <= delivered
      BY <1>9 DEF InOrder
    <3> QED
      BY <2>1, <2>2, <3>1, <3>2
  <2>5. \A p \in block : samples'[c][p] = <<n, p - b>>
    BY <1>2, <1>5, <2>1
  <2> HIDE DEF n
  <2>6. \A a \in Caller : \A p \in DOMAIN samples'[a] : samples'[a][p][1] <= n
    <3> SUFFICES ASSUME NEW a \in Caller, NEW p \in DOMAIN samples'[a]
                 PROVE  samples'[a][p][1] <= n
      OBVIOUS
    <3>1. CASE p \in DOMAIN samples[a] /\ samples'[a][p] = samples[a][p]
      BY <2>2, <2>4, <3>1
    <3>2. CASE a = c /\ p \in block
      BY <2>2, <2>5, <3>2
    <3> QED
      BY <1>2, <3>1, <3>2
  <2>7. ArraysInOrder'
    <3> SUFFICES ASSUME NEW a \in Caller, NEW p \in DOMAIN samples'[a],
                        NEW q \in DOMAIN samples'[a], p < q
                 PROVE  \/ /\ samples'[a][p][1] < samples'[a][q][1]
                           /\ p < q - samples'[a][q][2]
                        \/ /\ samples'[a][p][1] = samples'[a][q][1]
                           /\ samples'[a][q][2] - samples'[a][p][2] = q - p
      BY DEF ArraysInOrder
    <3>1. CASE a # c
      <4>1. samples'[a] = samples[a]
        BY <1>2, <3>1
      <4> QED
        BY <1>9, <4>1 DEF InOrder, ArraysInOrder
    <3>2. CASE a = c /\ p \in DOMAIN samples[c] /\ q \in DOMAIN samples[c]
      <4>1. samples'[a][p] = samples[a][p] /\ samples'[a][q] = samples[a][q]
        BY <1>2, <3>2
      <4> QED
        BY <1>9, <3>2, <4>1 DEF InOrder, ArraysInOrder
    <3>3. CASE a = c /\ p \in DOMAIN samples[c] /\ q \in block
      <4>1. samples'[a][q] = <<n, q - b>> /\ samples'[a][p][1] < n
        BY <1>2, <2>4, <2>5, <3>3
      <4>2. p \in 0 .. b - 1 /\ b \in Nat /\ q \in Int
        BY <1>2, <3>3 DEF block
      <4>3. p < q - (q - b)
        BY <4>2
      <4> QED
        BY <4>1, <4>3
    <3>4. CASE a = c /\ p \in block /\ q \in DOMAIN samples[c]
      <4>1. q \in 0 .. b - 1 /\ p \in b .. b + SamplesPerPacket - 1
        BY <1>2, <3>4 DEF block
      <4> QED
        BY <1>2, <4>1
    <3>5. CASE a = c /\ p \in block /\ q \in block
      <4>1. samples'[a][p] = <<n, p - b>> /\ samples'[a][q] = <<n, q - b>>
        BY <2>5, <3>5
      <4>2. p \in Int /\ q \in Int
        BY <1>2, <3>5 DEF block
      <4>3. (q - b) - (p - b) = q - p
        BY <1>2, <4>2
      <4> QED
        BY <4>1, <4>3
    <3> QED
      BY <1>2, <3>1, <3>2, <3>3, <3>4, <3>5
  <2>8. delivered' = n /\ UNCHANGED <<sent, queue>>
    BY <1>1 DEF n, senderVars
  <2>9. \A i, j \in DOMAIN queue : i < j => queue[i].n < queue[j].n
    BY <1>9 DEF InOrder
  <2>10. \A i \in DOMAIN queue : queue[i].n <= sent
    BY <1>9 DEF InOrder
  <2> QED
    BY <2>1, <2>3, <2>6, <2>7, <2>8, <2>9, <2>10 DEF InOrder
<1> QED
  BY <1>1, <1>6, <1>7, <1>8, <1>9

(* Steps of a call that store nothing.                                     *)
LEMMA SkipStep ==
  ASSUME IInv, NEW c \in Caller, Ignore(c) \/ Throw(c) \/ Return(c)
  PROVE  IInv'
<1> USE UdpAssumption DEF IInv
<1>1. /\ UNCHANGED <<socketVars, senderVars, queue, buf, header, want, total,
                     samples, delivered, overlapped>>
      /\ \/ UNCHANGED packet_idx
         \/ /\ pc[c] = "parse"
            /\ packet_idx' = [packet_idx EXCEPT ![c] = packet_idx[c] + 1]
      /\ \E s \in {"recv", "returned", "threw"} : pc' = [pc EXCEPT ![c] = s]
  BY DEF Ignore, Throw, Return
<1>2. /\ packet_idx \in [Caller -> Nat] /\ want \in [Caller -> Nat]
      /\ pc \in [Caller -> {"ready", "recv", "parse", "returned", "threw"}]
  BY DEF TypeOK
<1>3. \A b \in Caller :
        /\ pc'[b] = "parse" => pc[b] = "parse" /\ b # c
        /\ packet_idx'[b] = packet_idx[b] \/ (b = c /\ pc[b] = "parse"
                                               /\ packet_idx'[b] = packet_idx[b] + 1)
        /\ b # c => packet_idx'[b] = packet_idx[b]
  BY <1>1, <1>2
<1>4. TypeOK'
  <2>1. pc' \in [Caller -> {"ready", "recv", "parse", "returned", "threw"}]
    BY <1>1, <1>2
  <2>2. packet_idx' \in [Caller -> Nat]
    <3>1. CASE UNCHANGED packet_idx
      BY <1>2, <3>1
    <3>2. CASE packet_idx' = [packet_idx EXCEPT ![c] = packet_idx[c] + 1]
      BY <1>2, <3>2
    <3> QED
      BY <1>1, <3>1, <3>2
  <2> QED
    BY <1>1, <2>1, <2>2 DEF TypeOK, socketVars, senderVars
<1>5. Stored'
  <2> SUFFICES ASSUME NEW b \in Caller
               PROVE  /\ packet_idx'[b] <= PacketsToDequeue(want[b])
                      /\ pc'[b] = "parse" => packet_idx'[b] < PacketsToDequeue(want[b])
                      /\ DOMAIN samples[b] \subseteq 0 .. packet_idx'[b] * SamplesPerPacket - 1
                      /\ IsFiniteSet(DOMAIN samples[b])
                      /\ total[b] = Cardinality(DOMAIN samples[b])
    BY <1>1 DEF Stored
  <2>1. packet_idx[b] \in Nat /\ want[b] \in Nat
    BY <1>2
  <2>2. PacketsToDequeue(want[b]) \in Nat
    BY <2>1, SMT DEF PacketsToDequeue, UdpAssumption
  <2>3. CASE packet_idx'[b] = packet_idx[b]
    BY <1>3, <2>3 DEF Stored
  <2>4. CASE b = c /\ pc[b] = "parse" /\ packet_idx'[b] = packet_idx[b] + 1
    <3> DEFINE x == packet_idx[b] * SamplesPerPacket
    <3>1. x \in Nat /\ packet_idx'[b] * SamplesPerPacket = x + SamplesPerPacket
      BY <2>1, <2>4, PlacesLemma
    <3>2. DOMAIN samples[b] \subseteq 0 .. x - 1
      BY DEF Stored
    <3>3. packet_idx'[b] <= PacketsToDequeue(want[b]) /\ pc'[b] # "parse"
      BY <1>3, <2>1, <2>2, <2>4 DEF Stored
    <3> HIDE DEF x
    <3>4. DOMAIN samples[b] \subseteq 0 .. x + SamplesPerPacket - 1
      BY <3>1, <3>2 DEF UdpAssumption
    <3>5. DOMAIN samples[b] \subseteq 0 .. packet_idx'[b] * SamplesPerPacket - 1
      BY <3>1, <3>4
    <3> QED
      BY <3>3, <3>5 DEF Stored
  <2> QED
    BY <1>3, <2>3, <2>4
<1>6. DivisorValid'
  BY <1>1 DEF DivisorValid, socketVars
<1>7. ASSUME ~overlapped
      PROVE  InOrder'
  <2>1. ArraysInOrder'
    BY <1>1, <1>7 DEF InOrder, ArraysInOrder
  <2>2. UNCHANGED <<sent, delivered, queue, buf, samples>>
    BY <1>1 DEF senderVars
  <2> QED
    BY <1>3, <1>7, <2>1, <2>2 DEF InOrder
<1> QED
  BY <1>1, <1>4, <1>5, <1>6, <1>7

LEMMA NextIInv == IInv /\ [Next]_vars => IInv'
<1> SUFFICES ASSUME IInv, [Next]_vars
             PROVE  IInv'
  OBVIOUS
<1>1. CASE UNCHANGED vars
  <2>1. TypeOK' /\ Stored' /\ DivisorValid'
    BY <1>1 DEF IInv, TypeOK, Stored, DivisorValid, vars, socketVars, senderVars, callVars
  <2>2. ~overlapped => InOrder'
    BY <1>1 DEF IInv, InOrder, ArraysInOrder, vars, senderVars, callVars
  <2>3. UNCHANGED overlapped
    BY <1>1 DEF vars
  <2> QED
    BY <2>1, <2>2, <2>3 DEF IInv
<1>2. CASE Next
  <2>1. CASE \E c \in Control, size \in Size : Send(c, size)
    BY <2>1, SendStep
  <2>2. CASE \/ \E f \in Norm : SetNorm(f)
             \/ SetupUdpSource \/ SetupDies \/ TeardownUdpSource
             \/ \E c \in Caller : ReceiveDies(c)
    BY <2>2, QuietActions
  <2>3. CASE \E c \in Caller : \/ \E n \in Request : Call(c, n)
                               \/ GetSamples(c)
    BY <2>3, CallStep, ReceiveStep, ParseStep, SkipStep DEF GetSamples
  <2> QED
    BY <1>2, <2>1, <2>2, <2>3 DEF Next
<1> QED
  BY <1>1, <1>2

LEMMA Inductive == Spec => []IInv
<1> QED
  BY InitIInv, NextIInv, PTL DEF Spec

-----------------------------------------------------------------------------
(* Every variable keeps its type, and the process has no more than one     *)
(* socket bound to the address, however often a source is set up.          *)
THEOREM UdpTyping == Spec => []TypeOK
<1>1. IInv => TypeOK
  BY DEF IInv
<1> QED
  BY Inductive, <1>1, PTL

(* getSamples returns the number of samples it has stored, though it skips *)
(* datagrams and the caller's array has holes where it did.                *)
THEOREM UdpCount == Spec => []CountIsPlaces
<1>1. IInv => CountIsPlaces
  BY DEF IInv, Stored, CountIsPlaces
<1> QED
  BY Inductive, <1>1, PTL

(* How far a call writes beyond number_of_samples, where README.md:118 has *)
(* it write nothing: less than a packet.  No larger array is ever needed.  *)
WithinOnePacket ==
  \A c \in Caller : \A p \in DOMAIN samples[c] :
    p \in Nat /\ p < want[c] + SamplesPerPacket

(* An array with room for a packet more than number_of_samples suffices    *)
(* (the loop of udpSource.cc:71-74).                                       *)
THEOREM UdpRoom == Spec => []WithinOnePacket
<1>1. IInv => WithinOnePacket
  <2> SUFFICES ASSUME IInv, NEW c \in Caller, NEW p \in DOMAIN samples[c]
               PROVE  p \in Nat /\ p < want[c] + SamplesPerPacket
    BY DEF WithinOnePacket
  <2> DEFINE x == packet_idx[c] * SamplesPerPacket
  <2>1. packet_idx[c] \in Nat /\ want[c] \in Nat /\ SamplesPerPacket \in Nat
    BY UdpAssumption DEF IInv, TypeOK, UdpAssumption
  <2>2. p \in 0 .. x - 1 /\ packet_idx[c] <= PacketsToDequeue(want[c])
    BY DEF IInv, Stored
  <2>3. x \in Nat /\ x <= want[c] + SamplesPerPacket
    BY <2>1, <2>2, UdpAssumption, PlacesLemma, WithinRequest
  <2> HIDE DEF x
  <2> QED
    BY <2>1, <2>2, <2>3
<1> QED
  BY Inductive, <1>1, PTL

(* Without foreign packets the samples begin at the array's first place    *)
(* and leave no hole.                                                      *)
THEOREM UdpPrefix == Spec => []PrefixIfAllData
<1>1. IInv => PrefixIfAllData
  <2> SUFFICES ASSUME IInv, NEW c \in Caller,
                      total[c] = packet_idx[c] * SamplesPerPacket
               PROVE  DOMAIN samples[c] = 0 .. total[c] - 1
    BY DEF PrefixIfAllData
  <2> DEFINE D == DOMAIN samples[c]
             t == total[c]
  <2>1. t \in Nat /\ D \subseteq 0 .. t - 1 /\ Cardinality(D) = t
    BY DEF IInv, TypeOK, Stored
  <2> HIDE DEF D, t
  <2>2. IsFiniteSet(0 .. t - 1) /\ Cardinality(0 .. t - 1) = t
    <3>1. 0 \in Int /\ t - 1 \in Int /\ (0 > t - 1 => t = 0) /\ t - 1 - 0 + 1 = t
      BY <2>1
    <3> DEFINE e == t - 1
    <3> HIDE DEF e
    <3>2. IsFiniteSet(0 .. e) /\ Cardinality(0 .. e) = IF 0 > e THEN 0 ELSE e - 0 + 1
      BY <3>1, FS_Interval DEF e
    <3> QED
      BY <3>1, <3>2 DEF e
  <2>3. D = 0 .. t - 1
    BY <2>1, <2>2, FS_Subset
  <2> QED
    BY <2>3 DEF D, t
<1> QED
  BY Inductive, <1>1, PTL

(* A call all of whose datagrams were DATA packets does write              *)
(* beyond what was asked for when it returns, whatever was: the place      *)
(* number_of_samples itself is always written (udpSource.cc:71 takes       *)
(* number_of_samples / SAMPLES_PER_PACKET + 1 packets), so that an array   *)
(* as README.md:121 makes it is too short for every such call.             *)
FullCallOverruns ==
  \A c \in Caller :
    pc[c] = "returned" /\ total[c] = packet_idx[c] * SamplesPerPacket
      => want[c] \in DOMAIN samples[c]

(* A call has returned when its loop has come to the end.                  *)
LoopEnded ==
  \A c \in Caller :
    pc[c] = "returned" => packet_idx[c] >= PacketsToDequeue(want[c])

LEMMA LoopEndedAlways == Spec => []LoopEnded
<1>1. Init => LoopEnded
  BY DEF Init, LoopEnded
<1>2. ASSUME IInv, LoopEnded, [Next]_vars PROVE LoopEnded'
  <2> SUFFICES ASSUME NEW c \in Caller, pc'[c] = "returned"
               PROVE  packet_idx'[c] >= PacketsToDequeue(want'[c])
    BY DEF LoopEnded
  <2>0. /\ pc = [d \in Caller |-> pc[d]] /\ want = [d \in Caller |-> want[d]]
        /\ packet_idx = [d \in Caller |-> packet_idx[d]]
        /\ packet_idx[c] \in Nat /\ want[c] \in Nat
    BY <1>2 DEF IInv, TypeOK
  <2>1. CASE UNCHANGED <<pc, want, packet_idx>>
    BY <1>2, <2>1 DEF LoopEnded
  <2>2. ASSUME NEW d \in Caller, NEW n \in Request, Call(d, n)
        PROVE  packet_idx'[c] >= PacketsToDequeue(want'[c])
    <3>1. c # d
      BY <2>0, <2>2 DEF Call
    <3> QED
      BY <1>2, <2>0, <2>2, <3>1 DEF Call, LoopEnded
  <2>3. ASSUME NEW d \in Caller, Receive(d) \/ Parse(d) \/ Ignore(d) \/ Throw(d)
        PROVE  packet_idx'[c] >= PacketsToDequeue(want'[c])
    <3>1. c # d
      BY <2>0, <2>3 DEF Receive, InLoop, Parse, Ignore, Throw
    <3> QED
      BY <1>2, <2>0, <2>3, <3>1
      DEF Receive, Parse, Ignore, Throw, LoopEnded, callVars
  <2>4. ASSUME NEW d \in Caller, Return(d)
        PROVE  packet_idx'[c] >= PacketsToDequeue(want'[c])
    <3>1. CASE c # d
      BY <1>2, <2>0, <2>4, <3>1 DEF Return, LoopEnded
    <3>2. CASE c = d
      <4>1. PacketsToDequeue(want[c]) \in Int
        BY <2>0, UdpAssumption, SMT DEF PacketsToDequeue, UdpAssumption
      <4>2. ~(packet_idx[c] < PacketsToDequeue(want[c]))
        BY <2>4, <3>2 DEF Return, InLoop
      <4> QED
        BY <2>0, <2>4, <3>2, <4>1, <4>2 DEF Return
    <3> QED
      BY <3>1, <3>2
  <2> QED
    BY <1>2, <2>1, <2>2, <2>3, <2>4
    DEF Next, GetSamples, Send, SetNorm, SetupUdpSource, SetupDies,
        TeardownUdpSource, ReceiveDies, callVars, vars
<1> QED
  BY Inductive, <1>1, <1>2, PTL DEF Spec

THEOREM UdpOverrun == Spec => []FullCallOverruns
<1>1. ASSUME IInv, PrefixIfAllData, LoopEnded, NEW c \in Caller,
             pc[c] = "returned", total[c] = packet_idx[c] * SamplesPerPacket
      PROVE  want[c] \in DOMAIN samples[c]
  <2> DEFINE S == SamplesPerPacket
             n == want[c]
             k == packet_idx[c]
             q == n \div S
  <2>1. S \in Nat \ {0} /\ n \in Nat /\ k \in Nat
    BY <1>1, UdpAssumption DEF UdpAssumption, IInv, TypeOK
  <2>2. k >= q + 1
    BY <1>1 DEF LoopEnded, PacketsToDequeue
  <2>3. DOMAIN samples[c] = 0 .. k * S - 1
    BY <1>1 DEF PrefixIfAllData
  <2> HIDE DEF S, n, k
  <2>4. q \in Nat /\ n < (q + 1) * S
    BY <2>1, SMT
  <2> HIDE DEF q
  <2>5. (q + 1) * S <= k * S /\ k * S \in Nat /\ (q + 1) * S \in Nat
    BY <2>1, <2>2, <2>4, SMT
  <2>6. n \in 0 .. k * S - 1
    BY <2>1, <2>4, <2>5
  <2> QED
    BY <2>3, <2>6 DEF n
<1>2. IInv /\ PrefixIfAllData /\ LoopEnded => FullCallOverruns
  BY <1>1 DEF FullCallOverruns
<1> QED
  BY Inductive, UdpPrefix, LoopEndedAlways, <1>2, PTL

(* As long as no thread has received into buf while another had yet to     *)
(* parse it, the samples of an array are in the order they were sent in.   *)
THEOREM UdpOrder == Spec => []OrderInArray
<1>1. IInv => OrderInArray
  BY DEF IInv, InOrder, OrderInArray
<1> QED
  BY Inductive, <1>1, PTL

(* No sample is divided by zero.                                           *)
THEOREM UdpDivisor == Spec => []DivisorValid
<1>1. IInv => DivisorValid
  BY DEF IInv
<1> QED
  BY Inductive, <1>1, PTL

(* The header of the device's next packet is read as it was meant.         *)
THEOREM UdpHeaders == Spec => []NextHeaderReadable
<1>1. IInv => NextHeaderReadable
  BY DeviceHeaders DEF IInv, TypeOK, NextHeaderReadable
<1> QED
  BY Inductive, <1>1, PTL

-----------------------------------------------------------------------------
(* Every step of UdpSource is a step of SampleSource or none.              *)
LEMMA UdpSourceStep ==
  ASSUME IInv, IInv', [Next]_vars
  PROVE  [Source!Next]_(Source!vars)
<1> USE DEF Source!vars, Source!Next
<1>1. overlapped \in BOOLEAN /\ overlapped' \in BOOLEAN
  BY DEF IInv, TypeOK
<1>2. CASE overlapped'
  BY <1>1, <1>2 DEF Source!Void
<1>3. ASSUME ~overlapped', NEW c \in Control, NEW size \in Size, Send(c, size)
      PROVE  Source!Receive
  <2>1. sent' = sent + 1 /\ UNCHANGED <<delivered, overlapped>>
    BY <1>3 DEF Send
  <2> QED
    BY <1>1, <1>3, <2>1 DEF Source!Receive
<1>4. ASSUME ~overlapped', NEW c \in Caller, Parse(c)
      PROVE  Source!Deliver
  <2>1. delivered' = buf[0][1] /\ UNCHANGED <<sent, overlapped>> /\ pc[c] = "parse"
    BY <1>4 DEF Parse, senderVars
  <2>2. delivered' \in Nat /\ sent \in Nat /\ delivered \in Nat
    BY DEF IInv, TypeOK
  <2>3. ~overlapped /\ delivered < delivered' /\ delivered' <= sent
    BY <1>1, <1>4, <2>1 DEF IInv, InOrder
  <2>4. delivered' \in delivered + 1 .. sent
    BY <2>2, <2>3
  <2> QED
    BY <2>1, <2>3, <2>4 DEF Source!Deliver
<1>5. CASE /\ ~overlapped'
           /\ \/ \E f \in Norm : SetNorm(f)
              \/ SetupUdpSource \/ SetupDies \/ TeardownUdpSource
              \/ \E c \in Caller : \/ \E n \in Request : Call(c, n)
                                  \/ Ignore(c) \/ Throw(c) \/ Return(c)
                                  \/ Receive(c) \/ ReceiveDies(c)
  <2>1. UNCHANGED <<sent, delivered>>
    BY <1>5 DEF SetNorm, SetupUdpSource, SetupDies, TeardownUdpSource, Call, Ignore,
                Throw, Return, Receive, ReceiveDies, senderVars
  <2>2. overlapped => overlapped'
    BY <1>5 DEF SetNorm, SetupUdpSource, SetupDies, TeardownUdpSource, Call, Ignore,
                Throw, Return, Receive, ReceiveDies
  <2> QED
    BY <1>1, <1>5, <2>1, <2>2
<1>6. CASE UNCHANGED vars
  BY <1>6 DEF vars, senderVars
<1> QED
  BY <1>1, <1>2, <1>3, <1>4, <1>5, <1>6 DEF Next, GetSamples

(* A UdpSource implements SampleSource, as DpdkStream does.                *)
THEOREM UdpImplementsSource == Spec => SourceSpec
<1>1. Init => Source!Init
  BY DEF Init, Source!Init
<1>2. IInv /\ IInv' /\ [Next]_vars => [Source!Next]_(Source!vars)
  BY UdpSourceStep
<1> QED
  BY Inductive, <1>1, <1>2, PTL DEF Spec, SourceSpec, Source!Spec

-----------------------------------------------------------------------------
(* What an array holds whatever the threads do to each other.              *)

(* Every sample stands where its word of a packet belongs, and the rest of *)
(* its packet with it: place i of a packet holds word i of a datagram, so  *)
(* each packet begins with its header (udpSource.cc:96) and the last words *)
(* of the payload are nowhere.  Unless threads have got into each other's  *)
(* way, all words of a packet are of one datagram.                         *)
WholePackets ==
  \A c \in Caller : \A p \in DOMAIN samples[c] :
    \E k \in 0 .. packet_idx[c] - 1, i \in 0 .. SamplesPerPacket - 1 :
      /\ p = Place(k, i) /\ samples[c][p][2] = i
      /\ \A j \in 0 .. SamplesPerPacket - 1 :
           /\ Place(k, j) \in DOMAIN samples[c]
           /\ ~overlapped => samples[c][Place(k, j)][1] = samples[c][p][1]

(* recv writes word w of a datagram to word w of buf.                      *)
BufWords == \A w \in 0 .. PacketWords - 1 : buf[w][2] = w

LEMMA BufWordsKept ==
  ASSUME IInv, BufWords, [Next]_vars PROVE BufWords'
<1>1. ASSUME NEW c \in Caller, Receive(c) PROVE BufWords'
  <2>1. PICK n, size : buf' = [w \in DOMAIN buf |-> IF w < size THEN <<n, w>> ELSE buf[w]]
    BY <1>1 DEF Receive
  <2>2. DOMAIN buf = 0 .. PacketWords - 1
    BY DEF IInv, TypeOK
  <2> QED
    BY <2>1, <2>2 DEF BufWords
<1>2. CASE UNCHANGED buf
  BY <1>2 DEF BufWords
<1> QED
  BY <1>1, <1>2
  DEF Next, GetSamples, Send, SetNorm, SetupUdpSource, SetupDies,
      TeardownUdpSource, Call, Parse, Ignore, Throw, Return, ReceiveDies, vars

LEMMA WholeAfterParse ==
  ASSUME IInv, WholePackets, BufWords, NEW c \in Caller, Parse(c)
  PROVE  WholePackets'
<1> USE UdpAssumption DEF IInv
<1> DEFINE k == packet_idx[c]
           b == k * SamplesPerPacket
           block == b .. b + SamplesPerPacket - 1
<1>1. /\ b \in Nat /\ SamplesPerPacket \in Nat \ {0} /\ k \in Nat
      /\ samples' = [a \in Caller |-> IF a = c THEN samples'[c] ELSE samples[a]]
      /\ DOMAIN samples'[c] = DOMAIN samples[c] \cup block
      /\ \A p \in block : samples'[c][p] = buf[p - b]
      /\ \A p \in DOMAIN samples[c] : samples'[c][p] = samples[c][p]
  BY ArrayAfterParse DEF TypeOK
<1>2. /\ overlapped' = overlapped /\ pc[c] = "parse"
      /\ packet_idx' = [packet_idx EXCEPT ![c] = k + 1]
      /\ packet_idx \in [Caller -> Nat]
  BY DEF Parse, TypeOK
<1>3. \A i \in 0 .. SamplesPerPacket - 1 : Place(k, i) = b + i
  BY DEF Place
<1> HIDE DEF b, k
<1>4. \A i \in 0 .. SamplesPerPacket - 1 : /\ b + i \in block /\ b + i - b = i
                                           /\ i \in 0 .. PacketWords - 1
  BY <1>1 DEF PacketWords, UdpAssumption
<1>5. \A i \in 0 .. SamplesPerPacket - 1 : samples'[c][Place(k, i)] = buf[i]
  BY <1>1, <1>3, <1>4
<1> SUFFICES ASSUME NEW a \in Caller, NEW p \in DOMAIN samples'[a]
             PROVE  \E n \in 0 .. packet_idx'[a] - 1, i \in 0 .. SamplesPerPacket - 1 :
                      /\ p = Place(n, i) /\ samples'[a][p][2] = i
                      /\ \A j \in 0 .. SamplesPerPacket - 1 :
                           /\ Place(n, j) \in DOMAIN samples'[a]
                           /\ ~overlapped' =>
                                samples'[a][Place(n, j)][1] = samples'[a][p][1]
  BY DEF WholePackets, Place
<1>6. CASE p \in DOMAIN samples[a]
  <2>1. PICK n \in 0 .. packet_idx[a] - 1, i \in 0 .. SamplesPerPacket - 1 :
          /\ p = Place(n, i) /\ samples[a][p][2] = i
          /\ \A j \in 0 .. SamplesPerPacket - 1 :
               /\ Place(n, j) \in DOMAIN samples[a]
               /\ ~overlapped => samples[a][Place(n, j)][1] = samples[a][p][1]
    BY <1>6 DEF WholePackets
  <2>2. /\ DOMAIN samples[a] \subseteq DOMAIN samples'[a]
        /\ \A q \in DOMAIN samples[a] : samples'[a][q] = samples[a][q]
    BY <1>1
  <2>3. n \in 0 .. packet_idx'[a] - 1
    <3>1. packet_idx[a] \in Nat /\ packet_idx'[a] \in Nat
          /\ packet_idx[a] <= packet_idx'[a]
      BY <1>1, <1>2 DEF k
    <3> QED
      BY <3>1
  <2>4. p = Place(n, i) /\ samples'[a][p][2] = i
    BY <1>6, <2>1, <2>2
  <2>5. ASSUME NEW j \in 0 .. SamplesPerPacket - 1
        PROVE  /\ Place(n, j) \in DOMAIN samples'[a]
               /\ ~overlapped' => samples'[a][Place(n, j)][1] = samples'[a][p][1]
    BY <1>2, <1>6, <2>1, <2>2
  <2> QED
    BY <2>3, <2>4, <2>5
<1>7. CASE a = c /\ p \in block
  <2>1. PICK i \in 0 .. SamplesPerPacket - 1 : p = b + i
    <3>1. p - b \in 0 .. SamplesPerPacket - 1 /\ p = b + (p - b)
      BY <1>1, <1>7
    <3> QED
      BY <3>1
  <2>2. p = Place(k, i) /\ samples'[c][p] = buf[i] /\ buf[i][2] = i
    BY <1>3, <1>4, <1>5, <2>1 DEF BufWords
  <2>3. k \in 0 .. packet_idx'[c] - 1
    BY <1>1, <1>2
  <2>4. ASSUME NEW j \in 0 .. SamplesPerPacket - 1
        PROVE  /\ Place(k, j) \in DOMAIN samples'[c]
               /\ ~overlapped' => samples'[c][Place(k, j)][1] = samples'[c][p][1]
    <3>1. Place(k, j) \in block /\ samples'[c][Place(k, j)] = buf[j]
      BY <1>3, <1>4, <1>5
    <3>2. ~overlapped => buf[j][1] = buf[i][1]
      <4>1. ASSUME ~overlapped, NEW w \in 0 .. PacketWords - 1
            PROVE  buf[w] = <<buf[0][1], w>>
        BY <1>2, <4>1 DEF InOrder
      <4>2. ASSUME ~overlapped, NEW w \in 0 .. PacketWords - 1
            PROVE  buf[w][1] = buf[0][1]
        BY <4>1, <4>2
      <4> QED
        BY <1>4, <4>2
    <3> QED
      BY <1>1, <1>2, <2>2, <3>1, <3>2
  <2> QED
    BY <1>7, <2>2, <2>3, <2>4
<1> QED
  BY <1>1, <1>6, <1>7

(* An array that a step leaves alone stays made of whole packets.          *)
LEMMA WholeIfLeftAlone ==
  ASSUME IInv, IInv', WholePackets, overlapped => overlapped',
         NEW a \in Caller, samples'[a] = samples[a],
         packet_idx'[a] \in {packet_idx[a], packet_idx[a] + 1},
         NEW p \in DOMAIN samples'[a]
  PROVE  \E k \in 0 .. packet_idx'[a] - 1, i \in 0 .. SamplesPerPacket - 1 :
           /\ p = Place(k, i) /\ samples'[a][p][2] = i
           /\ \A j \in 0 .. SamplesPerPacket - 1 :
                /\ Place(k, j) \in DOMAIN samples'[a]
                /\ ~overlapped' => samples'[a][Place(k, j)][1] = samples'[a][p][1]
<1>1. PICK k \in 0 .. packet_idx[a] - 1, i \in 0 .. SamplesPerPacket - 1 :
        /\ p = Place(k, i) /\ samples[a][p][2] = i
        /\ \A j \in 0 .. SamplesPerPacket - 1 :
             /\ Place(k, j) \in DOMAIN samples[a]
             /\ ~overlapped => samples[a][Place(k, j)][1] = samples[a][p][1]
  BY DEF WholePackets
<1>2. k \in 0 .. packet_idx'[a] - 1
  <2>1. packet_idx[a] \in Nat
    BY DEF IInv, TypeOK
  <2> QED
    BY <2>1
<1>3. overlapped \in BOOLEAN /\ overlapped' \in BOOLEAN
  BY DEF IInv, TypeOK
<1>4. ASSUME NEW j \in 0 .. SamplesPerPacket - 1
      PROVE  /\ Place(k, j) \in DOMAIN samples'[a]
             /\ ~overlapped' => samples'[a][Place(k, j)][1] = samples'[a][p][1]
  BY <1>1, <1>3
<1> QED
  BY <1>1, <1>2, <1>4

LEMMA WholeKept ==
  ASSUME IInv, IInv', WholePackets, BufWords, [Next]_vars PROVE WholePackets'
<1>1. ASSUME NEW c \in Caller, NEW n \in Request, Call(c, n) PROVE WholePackets'
  <2>1. UNCHANGED overlapped
    BY <1>1 DEF Call
  <2>2. /\ samples'[c] = Nothing
        /\ \A a \in Caller \ {c} : samples'[a] = samples[a] /\ packet_idx'[a] = packet_idx[a]
    <3>1. packet_idx \in [Caller -> Nat] /\ samples = [a \in Caller |-> samples[a]]
      BY DEF IInv, TypeOK
    <3> QED
      BY <1>1, <3>1 DEF Call
  <2>3. DOMAIN samples'[c] = {}
    BY <2>2 DEF Nothing
  <2>4. ASSUME NEW a \in Caller, NEW p \in DOMAIN samples'[a]
        PROVE  a # c
    BY <2>3, <2>4
  <2> QED
    BY <2>1, <2>2, <2>4, WholeIfLeftAlone DEF WholePackets, Place
<1>2. ASSUME UNCHANGED samples, overlapped => overlapped',
             \A a \in Caller : packet_idx'[a] \in {packet_idx[a], packet_idx[a] + 1}
      PROVE  WholePackets'
  BY <1>2, WholeIfLeftAlone DEF WholePackets, Place
<1>3. ASSUME NEW c \in Caller, Receive(c) \/ Ignore(c) PROVE WholePackets'
  <2>1. UNCHANGED samples
    BY <1>3 DEF Receive, Ignore
  <2>2. overlapped => overlapped'
    BY <1>3 DEF Receive, Ignore
  <2>3. /\ packet_idx \in [Caller -> Nat]
        /\ \/ packet_idx' = packet_idx
           \/ packet_idx' = [packet_idx EXCEPT ![c] = @ + 1]
    BY <1>3 DEF Receive, Ignore, IInv, TypeOK
  <2>4. \A a \in Caller : packet_idx'[a] \in {packet_idx[a], packet_idx[a] + 1}
    BY <2>3
  <2> QED
    BY <1>2, <2>1, <2>2, <2>4
<1>4. CASE UNCHANGED <<samples, packet_idx, overlapped>>
  <2>1. UNCHANGED <<samples, packet_idx>> /\ (overlapped => overlapped')
    BY <1>4
  <2>2. \A a \in Caller : packet_idx'[a] \in {packet_idx[a], packet_idx[a] + 1}
    BY <2>1
  <2> QED
    BY <1>2, <2>1, <2>2
<1> QED
  BY <1>1, <1>3, <1>4, WholeAfterParse
  DEF Next, GetSamples, Send, SetNorm, SetupUdpSource, SetupDies,
      TeardownUdpSource, Throw, Return, ReceiveDies, vars, callVars

(* An array is made of whole packets, each from its header on, with any    *)
(* number of threads in getSamples at once.                                *)
THEOREM UdpWholePackets == Spec => []WholePackets
<1>1. Init => WholePackets /\ BufWords
  BY UdpAssumption DEF Init, WholePackets, BufWords, Nothing
<1>2. IInv /\ IInv' /\ WholePackets /\ BufWords /\ [Next]_vars
        => (WholePackets /\ BufWords)'
  BY WholeKept, BufWordsKept
<1> QED
  BY Inductive, <1>1, <1>2, PTL DEF Spec

(* Two packets of a call share no place.                                   *)
LEMMA PlacesApart ==
  ASSUME UdpAssumption, NEW k \in Nat, NEW n \in Nat,
         NEW i \in 0 .. SamplesPerPacket - 1, Place(k, 0) = Place(n, i)
  PROVE  i = 0
<1> DEFINE S == SamplesPerPacket
<1>1. S \in Nat \ {0} /\ k * S \in Nat /\ n * S \in Nat
  BY DEF UdpAssumption
<1>2. k * S = n * S + i
  BY <1>1 DEF Place
<1>3. CASE k <= n
  <2>1. k * S <= n * S
    BY <1>1, <1>3, SMT
  <2> QED
    BY <1>1, <1>2, <2>1
<1>4. CASE k > n
  <2>1. (n + 1) * S = n * S + S /\ (n + 1) * S <= k * S
    BY <1>1, <1>4, SMT
  <2> QED
    BY <1>1, <1>2, <2>1
<1> QED
  BY <1>3, <1>4

(* Behind every sample of an array, in it and at the distance of the       *)
(* sample's word, is the first word of a header, of the same datagram      *)
(* unless threads have got into each other's way; and no sample is a word  *)
(* beyond the first SAMPLES_PER_PACKET.  So the header of every packet is  *)
(* delivered as samples and the end of its payload is not, by any call     *)
(* (udpSource.cc:96, against definitions.h:11).                            *)
HeaderIsStored ==
  \A c \in Caller : \A p \in DOMAIN samples[c] :
    /\ samples[c][p][2] < SamplesPerPacket
    /\ \E q \in DOMAIN samples[c] :
         /\ p = q + samples[c][p][2] /\ samples[c][q][2] = 0
         /\ ~overlapped => samples[c][q][1] = samples[c][p][1]

THEOREM UdpHeaderIsStored == Spec => []HeaderIsStored
<1>1. ASSUME IInv, WholePackets, NEW c \in Caller, NEW p \in DOMAIN samples[c]
      PROVE  /\ samples[c][p][2] < SamplesPerPacket
             /\ \E q \in DOMAIN samples[c] :
                  /\ p = q + samples[c][p][2] /\ samples[c][q][2] = 0
                  /\ ~overlapped => samples[c][q][1] = samples[c][p][1]
  <2>0. SamplesPerPacket \in Nat \ {0} /\ packet_idx[c] \in Nat
    BY <1>1, UdpAssumption DEF UdpAssumption, IInv, TypeOK
  <2>1. PICK k \in 0 .. packet_idx[c] - 1, i \in 0 .. SamplesPerPacket - 1 :
          /\ p = Place(k, i) /\ samples[c][p][2] = i
          /\ \A j \in 0 .. SamplesPerPacket - 1 :
               /\ Place(k, j) \in DOMAIN samples[c]
               /\ ~overlapped => samples[c][Place(k, j)][1] = samples[c][p][1]
    BY <1>1 DEF WholePackets
  <2> DEFINE q == Place(k, 0)
  <2>2. 0 \in 0 .. SamplesPerPacket - 1 /\ k \in Nat
    BY <2>0
  <2>3. q \in DOMAIN samples[c] /\ (~overlapped => samples[c][q][1] = samples[c][p][1])
    BY <2>1, <2>2
  <2>4. p = q + i
    <3>1. k * SamplesPerPacket \in Nat
      BY <2>0, <2>2
    <3> QED
      BY <2>0, <2>1, <3>1 DEF Place
  <2>5. samples[c][q][2] = 0
    <3> HIDE DEF q
    <3>1. PICK n \in 0 .. packet_idx[c] - 1, j \in 0 .. SamplesPerPacket - 1 :
            q = Place(n, j) /\ samples[c][q][2] = j
      BY <1>1, <2>3 DEF WholePackets
    <3>2. n \in Nat
      BY <2>0
    <3>3. j = 0
      BY <2>2, <3>1, <3>2, PlacesApart, UdpAssumption DEF q
    <3> QED
      BY <3>1, <3>3
  <2>6. samples[c][p][2] < SamplesPerPacket
    BY <2>0, <2>1
  <2> HIDE DEF q
  <2> QED
    BY <2>1, <2>3, <2>4, <2>5, <2>6
<1>2. IInv /\ WholePackets => HeaderIsStored
  BY <1>1 DEF HeaderIsStored
<1> QED
  BY Inductive, UdpWholePackets, <1>2, PTL

(* What a call has stored stays as it is for the rest of the call: later   *)
(* datagrams have places of their own (udpSource.cc:96), and no other      *)
(* thread writes to the caller's array, though all receive into one buffer.*)
THEOREM UdpStoredStays ==
  Spec => [][\A c \in Caller :
               InCall(c) => \A p \in DOMAIN samples[c] :
                              /\ p \in DOMAIN samples'[c]
                              /\ samples'[c][p] = samples[c][p]]_vars
<1>1. ASSUME IInv, Next, NEW c \in Caller, InCall(c), NEW p \in DOMAIN samples[c]
      PROVE  p \in DOMAIN samples'[c] /\ samples'[c][p] = samples[c][p]
  <2>0. samples = [a \in Caller |-> samples[a]]
    BY <1>1 DEF IInv, TypeOK
  <2>1. ASSUME NEW d \in Caller, NEW n \in Request, Call(d, n)
        PROVE  samples'[c] = samples[c]
    <3>1. c # d
      BY <1>1, <2>1 DEF Call
    <3> QED
      BY <2>0, <2>1, <3>1 DEF Call
  <2>2. ASSUME NEW d \in Caller, Parse(d)
        PROVE  p \in DOMAIN samples'[c] /\ samples'[c][p] = samples[c][p]
    <3>1. CASE c # d
      BY <2>0, <2>2, <3>1 DEF Parse
    <3>2. CASE c = d
      BY <1>1, <2>2, <3>2, ArrayAfterParse, UdpAssumption DEF IInv
    <3> QED
      BY <3>1, <3>2
  <2>3. CASE UNCHANGED samples
    BY <2>3
  <2> QED
    BY <1>1, <2>1, <2>2, <2>3
    DEF Next, GetSamples, Send, SetNorm, SetupUdpSource, SetupDies,
        TeardownUdpSource, Receive, Ignore, Throw, Return, ReceiveDies, callVars
<1>2. IInv /\ [Next]_vars =>
        [\A c \in Caller :
           InCall(c) => \A p \in DOMAIN samples[c] :
                          /\ p \in DOMAIN samples'[c]
                          /\ samples'[c][p] = samples[c][p]]_vars
  BY <1>1
<1> QED
  BY Inductive, <1>2, PTL DEF Spec

(* With one thread that calls getSamples, an array is in order, no packet  *)
(* in it twice and none torn, whatever is lost, short, long or of another  *)
(* type.                                                                   *)
THEOREM UdpOneCaller ==
  ASSUME \A c, d \in Caller : c = d
  PROVE  Spec => []ArraysInOrder
<1>1. Init => ~overlapped
  BY DEF Init
<1>2. ASSUME ~overlapped, [Next]_vars PROVE ~overlapped'
  <2>1. ASSUME NEW c \in Caller, Receive(c) PROVE ~overlapped'
    <3>1. Caller \ {c} = {}
      OBVIOUS
    <3>2. overlapped' = (overlapped \/ \E d \in Caller \ {c} : pc[d] = "parse")
      BY <2>1 DEF Receive
    <3> QED
      BY <1>2, <3>1, <3>2
  <2>2. CASE UNCHANGED overlapped
    BY <1>2, <2>2
  <2> QED
    BY <1>2, <2>1, <2>2
    DEF Next, GetSamples, Send, SetNorm, SetupUdpSource, SetupDies, Parse, Call,
        TeardownUdpSource, Ignore, Throw, Return, ReceiveDies, vars
<1>3. OrderInArray /\ ~overlapped => ArraysInOrder
  BY DEF OrderInArray
<1> QED
  BY <1>1, <1>2, <1>3, UdpOrder, PTL DEF Spec
====================================================================
