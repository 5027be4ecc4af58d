----------------------------- MODULE DpdkStream -----------------------------
(***************************************************************************)
(* One stream of DpdkSource: the receive path of one Ethernet port from    *)
(* the arrival of a frame to the caller of getSamples.                     *)
(*                                                                         *)
(* Two threads poll the same receive queue of the port.                    *)
(*   "rx"   the worker lcore, in RXThread: it polls bursts of up to 32     *)
(*          packets, puts those that carry samples on the software ring    *)
(*          streams[i].ring and frees the others;                          *)
(*   "app"  the thread that calls getSamples: it polls the port as well    *)
(*          (not the ring), converts every packet it gets to samples and   *)
(*          frees it.                                                      *)
(* Nothing takes packets off the ring.  The state kept here is where each  *)
(* packet buffer (mbuf) of the stream's pool is; the packet counters and   *)
(* the life of the DpdkSource object are modelled apart.                   *)
(*                                                                         *)
(* rte_eth_rx_burst takes no lock, so a poll is two steps: PollBegin reads *)
(* the descriptors that hold packets, PollEnd takes these and posts fresh  *)
(* buffers.  `overlapped' records that both threads were inside the port   *)
(* at once; two polls that overlap may hand out the same mbuf.             *)
(***************************************************************************)
EXTENDS Naturals, Sequences, FiniteSets

CONSTANTS
  Mbufs,        \* the packet buffers of the stream's mempool (4096)
  RingCap,      \* usable slots of the ring: RING_SIZE - 1
  RxBurst,      \* packets one poll of RXThread asks for (32)
  AppBurst,     \* packets_to_dequeue of one getSamples call
  Traffic,      \* kinds of packet that reach the port
  MaxArrivals   \* bound on the packets that arrive

(* The packet types of HrzrHeaderParser.                                   *)
PacketType == {"DATA", "DATA_END_OF_BURST", "FLOW_CONTROL", "COMMAND",
               "COMMAND_RESPONSE", "COMMAND_RESPONSE_ERROR", "METADATA"}

(* What a packet is to RXThread: a frame that fails the protocol, port or  *)
(* length test, a HRZR packet of some type, or one whose control bits name *)
(* no type.                                                                *)
Kind == PacketType \cup {"FOREIGN", "UNMATCHED"}

ASSUME ConstantsAssumption ==
  /\ RingCap \in Nat
  /\ RxBurst \in Nat \ {0}
  /\ AppBurst \in Nat \ {0}
  /\ Traffic \subseteq Kind
  /\ MaxArrivals \in Nat

Thread == {"rx", "app"}

VARIABLES
  free,       \* mbufs in the mempool
  armed,      \* mbufs posted to the NIC, waiting for a packet
  filled,     \* mbufs in the receive queue that hold a packet
  kind,       \* kind of the packet last written into an mbuf
  stamp,      \* arrival number of the packet last written into an mbuf
  arrived,    \* packets arrived so far
  view,       \* packets a poll in progress has seen
  hold,       \* mbufs a poll returned that the thread has not dealt with
  ring,       \* the software ring, oldest first
  leaked,     \* mbufs no structure refers to any more
  delivered,  \* arrival number of the packet getSamples parsed last
  pc,         \* "top": outside a poll, "poll": inside one, "done": returned
  quit,       \* DpdkSource::quit
  crashed,    \* an exception left RXThread: std::terminate
  overlapped  \* two threads were inside the port at once

vars == <<free, armed, filled, kind, stamp, arrived, view, hold, ring, leaked,
          delivered, pc, quit, crashed, overlapped>>

-----------------------------------------------------------------------------
Init ==
  \* the queue has as many descriptors as the pool has mbufs: starting the
  \* port posts them all
  /\ free = {} /\ armed = Mbufs /\ filled = {}
  /\ kind = [m \in Mbufs |-> "FOREIGN"] /\ stamp = [m \in Mbufs |-> 0]
  /\ arrived = 0
  /\ view = [t \in Thread |-> {}] /\ hold = [t \in Thread |-> {}]
  /\ ring = <<>> /\ leaked = {}
  /\ delivered = 0
  /\ pc = [t \in Thread |-> "top"]
  /\ quit = FALSE /\ crashed = FALSE /\ overlapped = FALSE

(* The NIC writes a packet into a posted buffer.  With none posted it      *)
(* drops the packet, which changes nothing here.                           *)
Arrive ==
  /\ ~crashed /\ arrived < MaxArrivals
  /\ arrived' = arrived + 1
  /\ \E m \in armed, k \in Traffic :
       /\ armed' = armed \ {m}
       /\ filled' = filled \cup {m}
       /\ kind' = [kind EXCEPT ![m] = k]
       /\ stamp' = [stamp EXCEPT ![m] = arrived + 1]
  /\ UNCHANGED <<free, view, hold, ring, leaked, delivered, pc, quit, crashed,
                 overlapped>>

-----------------------------------------------------------------------------
(* rte_eth_rx_burst, called by thread t.                                   *)

Burst(t) == IF t = "rx" THEN RxBurst ELSE AppBurst

(* A mistake to detect: a poll that picks any n packets.                   *)
OldestAnyOrder(S, n) ==
  /\ S \subseteq filled
  /\ Cardinality(S) <= n
  /\ S = filled \/ Cardinality(S) = n

(* S is what a poll for at most n packets finds: the n oldest ones.        *)
Oldest(S, n) ==
  /\ S \subseteq filled
  /\ Cardinality(S) <= n
  /\ S = filled \/ Cardinality(S) = n
  /\ \A a \in S, b \in filled \ S : stamp[a] < stamp[b]

(* A mistake to detect: quit is never looked at.                           *)
MayPollAfterQuit(t) == t \in Thread

(* RXThread leaves its loop once it reads quit at the top; getSamples may  *)
(* be called whatever quit is.                                             *)
MayPoll(t) == t = "rx" => ~quit

PollBegin(t) ==
  /\ ~crashed
  /\ pc[t] = "top" /\ hold[t] = {} /\ MayPoll(t)
  /\ pc' = [pc EXCEPT ![t] = "poll"]
  /\ \E S \in SUBSET filled :
       /\ Oldest(S, Burst(t))
       /\ view' = [view EXCEPT ![t] = S]
  /\ overlapped' = (overlapped \/ \E u \in Thread \ {t} : pc[u] = "poll")
  /\ UNCHANGED <<free, armed, filled, kind, stamp, arrived, hold, ring, leaked,
                 delivered, quit, crashed>>

(* The polling thread owns what it saw; the driver posts every free mbuf   *)
(* unless the port has been closed meanwhile.                              *)
PollEnd(t) ==
  /\ ~crashed
  /\ pc[t] = "poll"
  /\ pc' = [pc EXCEPT ![t] = "top"]
  /\ hold' = [hold EXCEPT ![t] = view[t]]
  /\ view' = [view EXCEPT ![t] = {}]
  /\ filled' = filled \ view[t]
  /\ IF pc["rx"] = "done"
       THEN UNCHANGED <<free, armed>>
       ELSE free' = {} /\ armed' = armed \cup free
  /\ UNCHANGED <<kind, stamp, arrived, ring, leaked, delivered, quit, crashed,
                 overlapped>>

-----------------------------------------------------------------------------
(* RXThread: the packets of a burst, in order.                             *)

(* m is the packet of t's burst whose turn it is.                          *)
Current(t, m) ==
  /\ m \in hold[t]
  /\ \A b \in hold[t] : stamp[m] <= stamp[b]

(* A mistake to detect: metadata packets pass the test as well.            *)
IsValidPacketTypeOrMeta(k) == k \in {"DATA", "DATA_END_OF_BURST", "METADATA"}

(* isValidPacketType                                                       *)
IsValidPacketType(k) == k \in {"DATA", "DATA_END_OF_BURST"}

(* A mistake to detect: the ring refuses its last usable slot.             *)
RingHasRoomButOne == Len(ring) + 1 < RingCap

(* A mistake to detect: the ring takes RING_SIZE packets.                  *)
RingHasRoomPlusOne == Len(ring) <= RingCap

(* rte_ring_enqueue succeeds: RING_SIZE - 1 slots of the ring are usable.  *)
RingHasRoom == Len(ring) < RingCap

Handle(t, m) ==
  /\ ~crashed /\ Current(t, m)
  /\ hold' = [hold EXCEPT ![t] = @ \ {m}]
  /\ UNCHANGED <<armed, filled, kind, stamp, arrived, view, pc, quit, crashed,
                 overlapped>>

(* A mistake to detect: the packet on the ring is freed as well.           *)
RxEnqueueAndFree(m) ==
  /\ Handle("rx", m)
  /\ IsValidPacketType(kind[m]) /\ RingHasRoom
  /\ ring' = Append(ring, m)
  /\ free' = free \cup {m}
  /\ UNCHANGED <<leaked, delivered>>

(* A packet that carries samples goes to the tail of the ring.             *)
RxEnqueue(m) ==
  /\ Handle("rx", m)
  /\ IsValidPacketType(kind[m]) /\ RingHasRoom
  /\ ring' = Append(ring, m)
  /\ UNCHANGED <<free, leaked, delivered>>

(* A mistake to detect: RXThread waits for room that nobody makes.         *)
RxEnqueueWaits(m) ==
  /\ Handle("rx", m)
  /\ RingHasRoom
  /\ leaked' = leaked \cup {m}
  /\ UNCHANGED <<free, ring, delivered>>

(* rte_ring_enqueue on a full ring returns -ENOBUFS, which RXThread does   *)
(* not look at: the packet is neither on the ring nor freed.               *)
RxEnqueueFails(m) ==
  /\ Handle("rx", m)
  /\ IsValidPacketType(kind[m]) /\ ~RingHasRoom
  /\ leaked' = leaked \cup {m}
  /\ UNCHANGED <<free, ring, delivered>>

(* Every other packet is freed.                                            *)
RxDiscard(m) ==
  /\ Handle("rx", m)
  /\ kind[m] # "UNMATCHED" /\ ~IsValidPacketType(kind[m])
  /\ free' = free \cup {m}
  /\ UNCHANGED <<ring, leaked, delivered>>

(* getControlFromHeader throws InvalidHrzrHeader and no frame of the       *)
(* worker thread catches it.                                               *)
RxThrow(m) ==
  /\ ~crashed /\ Current("rx", m)
  /\ kind[m] = "UNMATCHED"
  /\ crashed' = TRUE
  /\ UNCHANGED <<free, armed, filled, kind, stamp, arrived, view, hold, ring,
                 leaked, delivered, pc, quit, overlapped>>

(* A mistake to detect: closing the port also empties the ring's packets   *)
(* into the pool.                                                          *)
RxCloseFreesRing ==
  /\ ~crashed
  /\ pc["rx"] = "top" /\ hold["rx"] = {} /\ quit
  /\ pc' = [pc EXCEPT !["rx"] = "done"]
  /\ free' = free \cup armed \cup filled \cup {ring[i] : i \in DOMAIN ring}
  /\ armed' = {} /\ filled' = {} /\ ring' = <<>>
  /\ overlapped' = (overlapped \/ pc["app"] = "poll")
  /\ UNCHANGED <<kind, stamp, arrived, view, hold, leaked, delivered, quit,
                 crashed>>

(* After the loop: flow_flush, dev_stop, dev_close.  Closing the port      *)
(* returns the mbufs of its queue to the pool; the ring keeps its own.     *)
RxClose ==
  /\ ~crashed
  /\ pc["rx"] = "top" /\ hold["rx"] = {} /\ quit
  /\ pc' = [pc EXCEPT !["rx"] = "done"]
  /\ free' = free \cup armed \cup filled
  /\ armed' = {} /\ filled' = {}
  /\ overlapped' = (overlapped \/ pc["app"] = "poll")
  /\ UNCHANGED <<kind, stamp, arrived, view, hold, ring, leaked, delivered,
                 quit, crashed>>

-----------------------------------------------------------------------------
(* getSamples: one packet of the burst is parsed, whatever its kind, and   *)
(* its buffer freed.                                                       *)
AppParse(m) ==
  /\ Handle("app", m)
  /\ delivered' = stamp[m]
  /\ free' = free \cup {m}
  /\ UNCHANGED <<ring, leaked>>

(* stopRXThread, called by the destructor.                                 *)
Quit ==
  /\ ~crashed /\ ~quit
  /\ quit' = TRUE
  /\ UNCHANGED <<free, armed, filled, kind, stamp, arrived, view, hold, ring,
                 leaked, delivered, pc, crashed, overlapped>>

-----------------------------------------------------------------------------
RxThread ==
  \/ PollBegin("rx")
  \/ PollEnd("rx")
  \/ \E m \in Mbufs : \/ RxEnqueue(m)
                      \/ RxEnqueueFails(m)
                      \/ RxDiscard(m)
                      \/ RxThrow(m)
  \/ RxClose

(* A call of getSamples, once begun, goes on to its return.                *)
AppInCall == PollEnd("app") \/ \E m \in Mbufs : AppParse(m)

Next == Arrive \/ RxThread \/ PollBegin("app") \/ AppInCall \/ Quit

Spec == Init /\ [][Next]_vars

(* The operating system runs both threads.  Nothing obliges the device to  *)
(* send, the application to call getSamples, or anybody to quit.           *)
FairSpec == Spec /\ WF_vars(RxThread) /\ WF_vars(AppInCall)

-----------------------------------------------------------------------------
InRing == {ring[i] : i \in DOMAIN ring}

(* Every variable has its type; the ring never holds more than its         *)
(* RING_SIZE - 1 slots take.                                               *)
TypeOK ==
  /\ free \subseteq Mbufs /\ armed \subseteq Mbufs /\ filled \subseteq Mbufs
  /\ kind \in [Mbufs -> Kind] /\ stamp \in [Mbufs -> Nat]
  /\ arrived \in Nat /\ delivered \in Nat
  /\ view \in [Thread -> SUBSET Mbufs] /\ hold \in [Thread -> SUBSET Mbufs]
  /\ ring \in Seq(Mbufs) /\ Len(ring) <= RingCap
  /\ leaked \subseteq Mbufs
  /\ pc \in [Thread -> {"top", "poll", "done"}]
  /\ quit \in BOOLEAN /\ crashed \in BOOLEAN /\ overlapped \in BOOLEAN

(* As long as no two threads were inside the port at once, every packet    *)
(* buffer of the pool is in exactly one place: no path through RXThread,   *)
(* getSamples and the closing of the port frees a buffer twice, frees one  *)
(* that is still referred to, or loses one otherwise than by `leaked'.     *)
ExclusiveOwnership ==
  ~overlapped =>
    /\ Mbufs = free \cup armed \cup filled \cup hold["rx"] \cup hold["app"]
                 \cup InRing \cup leaked
    /\ free \cap (armed \cup filled) = {} /\ armed \cap filled = {}
    /\ (free \cup armed \cup filled) \cap (hold["rx"] \cup hold["app"]) = {}
    /\ hold["rx"] \cap hold["app"] = {}
    /\ (InRing \cup leaked) \cap (free \cup armed \cup filled) = {}
    /\ (InRing \cup leaked) \cap (hold["rx"] \cup hold["app"]) = {}
    /\ InRing \cap leaked = {}
    /\ \A i, j \in DOMAIN ring : ring[i] = ring[j] => i = j

(* What waits on the ring is what RXThread put there: packets that carry   *)
(* samples, in the order of their arrival.  A buffer on the ring is never  *)
(* handed back to the NIC and written again.                               *)
RingIntact ==
  ~overlapped =>
    /\ \A i \in DOMAIN ring : kind[ring[i]] \in {"DATA", "DATA_END_OF_BURST"}
    /\ \A i, j \in DOMAIN ring : i < j => stamp[ring[i]] < stamp[ring[j]]

(* RXThread loses track of a buffer only once the ring is full, and then   *)
(* the ring stays full: it ignores the result of rte_ring_enqueue.         *)
LeakOnlyWhenFull == leaked # {} => Len(ring) = RingCap

(* getSamples parses every packet it polled, once, and packets in the      *)
(* order they arrived, although the other thread takes some of them away.  *)
DeliveredInOrder ==
  [][\A m \in hold["app"] \ hold'["app"] :
       ~overlapped => /\ delivered < stamp[m] /\ stamp[m] <= arrived
                      /\ delivered' = stamp[m]]_vars

(* Where the polls stand while they have not overlapped: what a poll saw   *)
(* is still in the receive queue and older than all else there.            *)
PollState ==
  /\ ~(pc["rx"] = "poll" /\ pc["app"] = "poll")
  /\ \A t \in Thread :
       /\ pc[t] # "poll" => view[t] = {}
       /\ pc[t] = "poll" => hold[t] = {}
       /\ view[t] \subseteq filled
       /\ \A a \in view[t], b \in filled \ view[t] : stamp[a] < stamp[b]

(* The packets on their way to a thread keep the order of their arrival.   *)
ArrivalOrder ==
  /\ delivered <= arrived /\ \A m \in Mbufs : stamp[m] <= arrived
  /\ \A a, b \in filled : stamp[a] = stamp[b] => a = b
  /\ \A t \in Thread :
       /\ \A a, b \in hold[t] : stamp[a] = stamp[b] => a = b
       /\ \A a \in hold[t], b \in filled : stamp[a] < stamp[b]
  /\ \A m \in hold["app"] \cup filled : delivered < stamp[m]
  /\ \A i \in DOMAIN ring, m \in hold["rx"] \cup filled :
       stamp[ring[i]] < stamp[m]

(* The inductive invariant: the safety properties above and, as long as    *)
(* the port was never polled by two threads at once, what carries a packet *)
(* in order from the queue through a poll to its thread.                   *)
IInv ==
  /\ TypeOK /\ LeakOnlyWhenFull /\ ExclusiveOwnership /\ RingIntact
  /\ ~overlapped => PollState /\ ArrivalOrder

(* Every buffer is on the ring or lost.                                    *)
Starved == Mbufs = InRing \cup leaked

(* Once every buffer is on the ring or lost, that is final: no packet is   *)
(* received or parsed any more, even after RXThread has closed the port.   *)
StarvationIsFinal ==
  [][Starved /\ ~overlapped =>
       Starved' /\ UNCHANGED <<stamp, delivered>>]_vars

(* A thread that got a burst deals with all of it.                         *)
BurstHandled == \A t \in Thread : hold[t] # {} ~> (crashed \/ hold[t] = {})

(* RXThread notices quit and closes the port.                              *)
QuitStopsRxThread == quit ~> (crashed \/ pc["rx"] = "done")

(* The promise of ILinuxSource to the caller of getSamples: the stream is   *)
(* a SampleSource until two threads poll its port at once.                 *)
Source == INSTANCE SampleSource
            WITH arrived <- arrived, delivered <- delivered, void <- overlapped
SourceSpec == Source!Spec

(* What README.md:126 says: calling getSamples in an endless loop keeps    *)
(* the samples coming, so once it has got some, the port must not run out  *)
(* of buffers for good while nobody quits.                                 *)
NeverStarved == delivered > 0 /\ ~quit => ~Starved

(* What README.md:118 and 126 need: while nobody tears the source down, a  *)
(* buffer getSamples still has to convert has not been given back to the   *)
(* pool or to the NIC.                                                     *)
PolledBufferStays ==
  ~quit => hold["app"] \cap (free \cup armed \cup filled) = {}
=============================================================================
