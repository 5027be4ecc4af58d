-------------------------- MODULE DpdkStreamProofs --------------------------
(***************************************************************************)
(* Proofs about DpdkStream for every pool, ring, burst size and traffic.   *)
(* IInv is inductive: one lemma per action shows that the action keeps it, *)
(* with one step per conjunct.  The theorems at the end follow from it.    *)
(***************************************************************************)
EXTENDS DpdkStream, FiniteSetTheorems, TLAPS

USE DEF Thread

LEMMA InitIInv == Init => IInv
<1> SUFFICES ASSUME Init PROVE IInv
  OBVIOUS
<1> USE DEF Init
<1>0. kind \in [Mbufs -> Kind] /\ ring \in Seq(Mbufs) /\ Len(ring) = 0
  BY DEF Kind
<1>1. TypeOK
  <2>1. /\ view \in [Thread -> SUBSET Mbufs] /\ hold \in [Thread -> SUBSET Mbufs]
        /\ pc \in [Thread -> {"top", "poll", "done"}]
    OBVIOUS
  <2>2. Len(ring) <= RingCap
    BY <1>0, ConstantsAssumption
  <2>3. stamp \in [Mbufs -> Nat] /\ arrived \in Nat /\ delivered \in Nat
    OBVIOUS
  <2> QED
    BY <1>0, <2>1, <2>2, <2>3 DEF TypeOK
<1>2. InRing = {}
  BY DEF InRing
<1>3. LeakOnlyWhenFull
  BY DEF LeakOnlyWhenFull
<1>4. ExclusiveOwnership
  BY <1>2 DEF ExclusiveOwnership
<1>5. RingIntact
  BY DEF RingIntact
<1>6. PollState /\ ArrivalOrder
  BY DEF PollState, ArrivalOrder
<1> QED
  BY <1>1, <1>3, <1>4, <1>5, <1>6 DEF IInv

(* The driver writes only into buffers posted to it, and those are nobody  *)
(* else's.                                                                 *)
LEMMA ArriveStep == ASSUME IInv, Arrive PROVE IInv'
<1> USE DEF IInv, Arrive
<1>1. TypeOK'
  BY ConstantsAssumption DEF TypeOK
<1>2. LeakOnlyWhenFull'
  BY DEF LeakOnlyWhenFull
<1>3. InRing' = InRing
  BY DEF InRing
<1>4. PICK m \in armed, k \in Traffic :
        /\ armed' = armed \ {m}
        /\ filled' = filled \cup {m}
        /\ kind' = [kind EXCEPT ![m] = k]
        /\ stamp' = [stamp EXCEPT ![m] = arrived + 1]
  OBVIOUS
<1>5. ExclusiveOwnership'
  BY <1>3, <1>4 DEF ExclusiveOwnership, TypeOK
<1>6. RingIntact'
  BY <1>4 DEF RingIntact, ExclusiveOwnership, InRing, TypeOK
<1>7. ASSUME ~overlapped' PROVE PollState'
  BY <1>4, <1>7 DEF PollState, ArrivalOrder, ExclusiveOwnership, TypeOK
<1>8. ASSUME ~overlapped' PROVE ArrivalOrder'
  BY <1>4, <1>8 DEF ArrivalOrder, ExclusiveOwnership, InRing, TypeOK
<1> QED
  BY <1>1, <1>2, <1>5, <1>6, <1>7, <1>8

LEMMA PollBeginStep == ASSUME IInv, NEW t \in Thread, PollBegin(t) PROVE IInv'
<1> USE DEF IInv, PollBegin
<1>1. TypeOK'
  BY DEF TypeOK, Oldest
<1>2. LeakOnlyWhenFull'
  BY DEF LeakOnlyWhenFull
<1>3. InRing' = InRing
  BY DEF InRing
<1>4. ExclusiveOwnership'
  BY <1>3 DEF ExclusiveOwnership
<1>5. RingIntact'
  BY DEF RingIntact
<1>6. ASSUME ~overlapped' PROVE PollState'
  BY <1>6 DEF PollState, Oldest, TypeOK
<1>7. ASSUME ~overlapped' PROVE ArrivalOrder'
  BY <1>7 DEF ArrivalOrder
<1> QED
  BY <1>1, <1>2, <1>4, <1>5, <1>6, <1>7

(* The other thread is not inside the port, so what this one saw is still  *)
(* the head of the queue.                                                  *)
LEMMA PollEndStep == ASSUME IInv, NEW t \in Thread, PollEnd(t) PROVE IInv'
<1> USE DEF IInv, PollEnd
<1>1. TypeOK'
  BY DEF TypeOK
<1>2. LeakOnlyWhenFull'
  BY DEF LeakOnlyWhenFull
<1>3. InRing' = InRing
  BY DEF InRing
<1>4. ASSUME ~overlapped'
      PROVE /\ hold[t] = {} /\ view[t] \subseteq filled
            /\ \A u \in Thread \ {t} : hold'[u] = hold[u]
            /\ hold'[t] = view[t]
  BY <1>4 DEF PollState, TypeOK
<1>5. ExclusiveOwnership'
  BY <1>3, <1>4 DEF ExclusiveOwnership, TypeOK
<1>6. RingIntact'
  BY DEF RingIntact
<1>7. ASSUME ~overlapped' PROVE PollState'
  BY <1>4, <1>7 DEF PollState, TypeOK
<1>8. ASSUME ~overlapped' PROVE ArrivalOrder'
  BY <1>4, <1>8 DEF PollState, ArrivalOrder, TypeOK
<1> QED
  BY <1>1, <1>2, <1>5, <1>6, <1>7, <1>8

(* Facts about the ring's elements when a packet is put at its tail.       *)
LEMMA RingAppend ==
  ASSUME ring \in Seq(Mbufs), NEW m \in Mbufs, ring' = Append(ring, m)
  PROVE  /\ ring' \in Seq(Mbufs) /\ Len(ring') = Len(ring) + 1
         /\ DOMAIN ring' = DOMAIN ring \cup {Len(ring) + 1}
         /\ \A i \in DOMAIN ring : ring'[i] = ring[i] /\ i < Len(ring) + 1
         /\ ring'[Len(ring) + 1] = m
         /\ InRing' = InRing \cup {m}
<1>1. /\ ring' \in Seq(Mbufs) /\ Len(ring') = Len(ring) + 1
      /\ DOMAIN ring' = DOMAIN ring \cup {Len(ring) + 1}
      /\ \A i \in DOMAIN ring : ring'[i] = ring[i] /\ i < Len(ring) + 1
      /\ ring'[Len(ring) + 1] = m
  OBVIOUS
<1> QED
  BY <1>1 DEF InRing

LEMMA RxEnqueueStep == ASSUME IInv, NEW m \in Mbufs, RxEnqueue(m) PROVE IInv'
<1> USE DEF IInv, RxEnqueue, Handle, Current
<1>0. ring \in Seq(Mbufs)
  BY DEF TypeOK
<1>1. /\ ring' \in Seq(Mbufs) /\ Len(ring') = Len(ring) + 1
      /\ DOMAIN ring' = DOMAIN ring \cup {Len(ring) + 1}
      /\ \A i \in DOMAIN ring : ring'[i] = ring[i] /\ i < Len(ring) + 1
      /\ ring'[Len(ring) + 1] = m
      /\ InRing' = InRing \cup {m}
  BY <1>0, RingAppend
<1>2. TypeOK'
  BY <1>1, ConstantsAssumption DEF TypeOK, RingHasRoom
<1>3. LeakOnlyWhenFull'
  BY ConstantsAssumption DEF LeakOnlyWhenFull, RingHasRoom
<1>4. ASSUME ~overlapped' PROVE m \notin InRing
  BY <1>4 DEF ExclusiveOwnership
<1>5. ExclusiveOwnership'
  <2> SUFFICES ASSUME ~overlapped' PROVE ExclusiveOwnership'
    BY DEF ExclusiveOwnership
  <2>1. \A i, j \in DOMAIN ring' : ring'[i] = ring'[j] => i = j
    BY <1>1, <1>4 DEF ExclusiveOwnership, InRing
  <2>2. hold'["rx"] = hold["rx"] \ {m} /\ hold'["app"] = hold["app"]
    BY DEF TypeOK
  <2> QED
    BY <1>1, <2>1, <2>2 DEF ExclusiveOwnership
<1>6. RingIntact'
  BY <1>1 DEF RingIntact, ArrivalOrder, IsValidPacketType, TypeOK
<1>7. ASSUME ~overlapped' PROVE PollState'
  BY <1>7 DEF PollState, TypeOK
<1>8. ASSUME ~overlapped' PROVE ArrivalOrder'
  BY <1>1, <1>8 DEF ArrivalOrder, TypeOK
<1> QED
  BY <1>2, <1>3, <1>5, <1>6, <1>7, <1>8

LEMMA RxEnqueueFailsStep ==
  ASSUME IInv, NEW m \in Mbufs, RxEnqueueFails(m) PROVE IInv'
<1> USE DEF IInv, RxEnqueueFails, Handle, Current
<1>1. TypeOK'
  BY DEF TypeOK
<1>2. LeakOnlyWhenFull'
  BY ConstantsAssumption DEF LeakOnlyWhenFull, RingHasRoom, TypeOK
<1>3. InRing' = InRing
  BY DEF InRing
<1>4. ExclusiveOwnership'
  BY <1>3 DEF ExclusiveOwnership, TypeOK
<1>5. RingIntact'
  BY DEF RingIntact
<1>6. ASSUME ~overlapped' PROVE PollState' /\ ArrivalOrder'
  BY <1>6 DEF PollState, ArrivalOrder, TypeOK
<1> QED
  BY <1>1, <1>2, <1>4, <1>5, <1>6

LEMMA RxDiscardStep == ASSUME IInv, NEW m \in Mbufs, RxDiscard(m) PROVE IInv'
<1> USE DEF IInv, RxDiscard, Handle, Current
<1>1. TypeOK'
  BY DEF TypeOK
<1>2. LeakOnlyWhenFull'
  BY DEF LeakOnlyWhenFull
<1>3. InRing' = InRing
  BY DEF InRing
<1>4. ExclusiveOwnership'
  BY <1>3 DEF ExclusiveOwnership, TypeOK
<1>5. RingIntact'
  BY DEF RingIntact
<1>6. ASSUME ~overlapped' PROVE PollState' /\ ArrivalOrder'
  BY <1>6 DEF PollState, ArrivalOrder, TypeOK
<1> QED
  BY <1>1, <1>2, <1>4, <1>5, <1>6

LEMMA RxThrowStep == ASSUME IInv, NEW m \in Mbufs, RxThrow(m) PROVE IInv'
BY DEF IInv, RxThrow, TypeOK, LeakOnlyWhenFull, ExclusiveOwnership, InRing,
       RingIntact, PollState, ArrivalOrder

(* Closing the port takes the queue's buffers; no poll is in progress.     *)
LEMMA RxCloseStep == ASSUME IInv, RxClose PROVE IInv'
<1> USE DEF IInv, RxClose
<1>1. TypeOK'
  BY DEF TypeOK
<1>2. LeakOnlyWhenFull'
  BY DEF LeakOnlyWhenFull
<1>3. InRing' = InRing
  BY DEF InRing
<1>4. ExclusiveOwnership'
  BY <1>3 DEF ExclusiveOwnership
<1>5. RingIntact'
  BY DEF RingIntact
<1>6. ASSUME ~overlapped' PROVE PollState'
  BY <1>6 DEF PollState, TypeOK
<1>7. ASSUME ~overlapped' PROVE ArrivalOrder'
  BY <1>7 DEF ArrivalOrder
<1> QED
  BY <1>1, <1>2, <1>4, <1>5, <1>6, <1>7

LEMMA AppParseStep == ASSUME IInv, NEW m \in Mbufs, AppParse(m) PROVE IInv'
<1> USE DEF IInv, AppParse, Handle, Current
<1>1. TypeOK'
  BY DEF TypeOK
<1>2. LeakOnlyWhenFull'
  BY DEF LeakOnlyWhenFull
<1>3. InRing' = InRing
  BY DEF InRing
<1>4. ExclusiveOwnership'
  BY <1>3 DEF ExclusiveOwnership, TypeOK
<1>5. RingIntact'
  BY DEF RingIntact
<1>6. ASSUME ~overlapped' PROVE PollState'
  BY <1>6 DEF PollState, TypeOK
<1>7. ASSUME ~overlapped' PROVE ArrivalOrder'
  BY <1>7 DEF ArrivalOrder, TypeOK
<1> QED
  BY <1>1, <1>2, <1>4, <1>5, <1>6, <1>7

LEMMA StutterOrQuitStep ==
  ASSUME IInv, Quit \/ UNCHANGED vars PROVE IInv'
<1> USE DEF IInv, Quit, vars
<1>1. TypeOK'
  BY DEF TypeOK
<1>2. InRing' = InRing
  BY DEF InRing
<1>3. LeakOnlyWhenFull' /\ ExclusiveOwnership' /\ RingIntact'
  BY <1>2 DEF LeakOnlyWhenFull, ExclusiveOwnership, RingIntact
<1>4. ASSUME ~overlapped' PROVE PollState' /\ ArrivalOrder'
  BY <1>4 DEF PollState, ArrivalOrder
<1> QED
  BY <1>1, <1>3, <1>4

LEMMA NextStep == IInv /\ [Next]_vars => IInv'
<1> SUFFICES ASSUME IInv, [Next]_vars PROVE IInv'
  OBVIOUS
<1>1. CASE Arrive
  BY <1>1, ArriveStep
<1>2. ASSUME NEW t \in Thread, PollBegin(t) PROVE IInv'
  BY <1>2, PollBeginStep
<1>3. ASSUME NEW t \in Thread, PollEnd(t) PROVE IInv'
  BY <1>3, PollEndStep
<1>4. ASSUME NEW m \in Mbufs, RxEnqueue(m) PROVE IInv'
  BY <1>4, RxEnqueueStep
<1>5. ASSUME NEW m \in Mbufs, RxEnqueueFails(m) PROVE IInv'
  BY <1>5, RxEnqueueFailsStep
<1>6. ASSUME NEW m \in Mbufs, RxDiscard(m) PROVE IInv'
  BY <1>6, RxDiscardStep
<1>7. ASSUME NEW m \in Mbufs, RxThrow(m) PROVE IInv'
  BY <1>7, RxThrowStep
<1>8. CASE RxClose
  BY <1>8, RxCloseStep
<1>9. ASSUME NEW m \in Mbufs, AppParse(m) PROVE IInv'
  BY <1>9, AppParseStep
<1>10. CASE Quit \/ UNCHANGED vars
  BY <1>10, StutterOrQuitStep
<1> QED
  BY <1>1, <1>2, <1>3, <1>4, <1>5, <1>6, <1>7, <1>8, <1>9, <1>10
     DEF Next, RxThread, AppInCall

-----------------------------------------------------------------------------
THEOREM Invariance == Spec => []IInv
<1>1. Init => IInv
  BY InitIInv
<1>2. IInv /\ [Next]_vars => IInv'
  BY NextStep
<1> QED
  BY <1>1, <1>2, PTL DEF Spec

(* Every variable keeps its type, and the ring its bound.                  *)
THEOREM Typing == Spec => []TypeOK
<1>1. IInv => TypeOK
  BY DEF IInv
<1> QED
  BY <1>1, Invariance, PTL

(* A packet buffer is in exactly one place, whatever RXThread, getSamples  *)
(* and the closing of the port do, as long as no two polls overlap.        *)
THEOREM Ownership == Spec => []ExclusiveOwnership
<1>1. IInv => ExclusiveOwnership
  BY DEF IInv
<1> QED
  BY <1>1, Invariance, PTL

(* The ring holds sample packets in the order of their arrival.            *)
THEOREM RingIntegrity == Spec => []RingIntact
<1>1. IInv => RingIntact
  BY DEF IInv
<1> QED
  BY <1>1, Invariance, PTL

(* A buffer is lost only on a full ring.                                   *)
THEOREM LeakBound == Spec => []LeakOnlyWhenFull
<1>1. IInv => LeakOnlyWhenFull
  BY DEF IInv
<1> QED
  BY <1>1, Invariance, PTL

-----------------------------------------------------------------------------
(* Only AppParse takes a packet out of the hands of getSamples, and only   *)
(* it moves `delivered'.                                                   *)
LEMMA OnlyParseDelivers ==
  ASSUME IInv, Next, ~overlapped, NEW m \in hold["app"], m \notin hold'["app"]
  PROVE  AppParse(m)
<1> USE DEF IInv, TypeOK
<1>1. CASE Arrive
  BY <1>1 DEF Arrive
<1>2. ASSUME NEW t \in Thread, PollBegin(t) PROVE FALSE
  BY <1>2 DEF PollBegin
<1>3. ASSUME NEW t \in Thread, PollEnd(t) PROVE FALSE
  BY <1>3 DEF PollEnd, PollState
<1>4. ASSUME NEW b \in Mbufs,
             RxEnqueue(b) \/ RxEnqueueFails(b) \/ RxDiscard(b) \/ RxThrow(b)
      PROVE  FALSE
  BY <1>4 DEF RxEnqueue, RxEnqueueFails, RxDiscard, RxThrow, Handle
<1>5. CASE RxClose \/ Quit
  BY <1>5 DEF RxClose, Quit
<1>6. ASSUME NEW b \in Mbufs, AppParse(b) PROVE b = m
  BY <1>6 DEF AppParse, Handle
<1> QED
  BY <1>1, <1>2, <1>3, <1>4, <1>5, <1>6 DEF Next, RxThread, AppInCall

(* getSamples parses a packet at most once and in the order of arrival.    *)
THEOREM DeliveryOrder == Spec => DeliveredInOrder
<1>1. ASSUME IInv, Next, ~overlapped,
             NEW m \in hold["app"], m \notin hold'["app"]
      PROVE  /\ delivered < stamp[m] /\ stamp[m] <= arrived
             /\ delivered' = stamp[m]
  <2>1. AppParse(m)
    BY <1>1, OnlyParseDelivers
  <2> QED
    BY <1>1, <2>1 DEF IInv, TypeOK, ArrivalOrder, AppParse
<1>2. IInv /\ [Next]_vars =>
        [\A m \in hold["app"] \ hold'["app"] :
           ~overlapped => /\ delivered < stamp[m] /\ stamp[m] <= arrived
                          /\ delivered' = stamp[m]]_vars
  BY <1>1
<1> QED
  BY <1>2, Invariance, PTL DEF Spec, DeliveredInOrder

(* With every buffer on the ring or lost, nothing is received or parsed    *)
(* any more.                                                               *)
THEOREM StarvationTheorem == Spec => StarvationIsFinal
<1>1. ASSUME IInv, Next, ~overlapped, Starved
      PROVE  Starved' /\ UNCHANGED <<stamp, delivered>>
  <2>1. armed = {} /\ hold["rx"] = {} /\ hold["app"] = {}
    BY <1>1 DEF IInv, ExclusiveOwnership, Starved, TypeOK
  <2>2. ~Arrive
    BY <2>1 DEF Arrive
  <2>3. \A m \in Mbufs : /\ ~RxEnqueue(m) /\ ~RxEnqueueFails(m)
                         /\ ~RxDiscard(m) /\ ~AppParse(m)
    BY <2>1 DEF RxEnqueue, RxEnqueueFails, RxDiscard, AppParse, Handle, Current
  <2>4. UNCHANGED <<ring, leaked, stamp, delivered>>
    BY <1>1, <2>2, <2>3 DEF Next, RxThread, AppInCall, PollBegin, PollEnd,
                            RxThrow, RxClose, Quit
  <2> QED
    BY <1>1, <2>4 DEF Starved, InRing
<1>2. IInv /\ [Next]_vars =>
        [Starved /\ ~overlapped =>
           Starved' /\ UNCHANGED <<stamp, delivered>>]_vars
  BY <1>1
<1> QED
  BY <1>2, Invariance, PTL DEF Spec, StarvationIsFinal

-----------------------------------------------------------------------------
(* Refinement: a step of DpdkStream before or at which polls overlap is a  *)
(* step of SampleSource or leaves its variables alone, and so is any step  *)
(* after that, when the promise is void.                                   *)
LEMMA SourceStep ==
  ASSUME IInv, Next
  PROVE  [Source!Next]_(Source!vars)
<1> USE DEF Source!Next, Source!Receive, Source!Deliver, Source!Void, Source!vars
<1>1. overlapped \in BOOLEAN
  BY DEF IInv, TypeOK
<1>2. CASE Arrive
  <2>1. arrived' = arrived + 1 /\ UNCHANGED <<delivered, overlapped>>
    BY <1>2 DEF Arrive
  <2> QED
    BY <1>1, <2>1
<1>3. ASSUME NEW m \in Mbufs, AppParse(m)
      PROVE  [Source!Next]_(Source!vars)
  <2>1. UNCHANGED <<arrived, overlapped>> /\ delivered' = stamp[m]
    BY <1>3 DEF AppParse, Handle
  <2>2. CASE overlapped
    BY <2>1, <2>2
  <2>3. CASE ~overlapped
    <3>1. stamp[m] \in delivered + 1 .. arrived
      BY <1>3, <2>3 DEF IInv, TypeOK, ArrivalOrder, AppParse, Handle, Current
    <3> QED
      BY <2>1, <2>3, <3>1
  <2> QED
    BY <2>2, <2>3
<1>4. CASE ~Arrive /\ \A m \in Mbufs : ~AppParse(m)
  <2>1. UNCHANGED <<arrived, delivered>>
    BY <1>4 DEF Next, RxThread, AppInCall, PollBegin, PollEnd, RxEnqueue,
                RxEnqueueFails, RxDiscard, RxThrow, RxClose, Quit, Handle
  <2>2. overlapped => overlapped'
    BY <1>4 DEF Next, RxThread, AppInCall, PollBegin, PollEnd, RxEnqueue,
                RxEnqueueFails, RxDiscard, RxThrow, RxClose, Quit, Handle
  <2>3. overlapped' \in BOOLEAN
    BY NextStep DEF IInv, TypeOK
  <2> QED
    BY <1>1, <2>1, <2>2, <2>3
<1> QED
  BY <1>2, <1>3, <1>4

(* One stream of DpdkSource implements SampleSource.                       *)
THEOREM ImplementsSource == Spec => SourceSpec
<1>1. Init => Source!Init
  BY DEF Init, Source!Init
<1>2. IInv /\ [Next]_vars => [Source!Next]_(Source!vars)
  BY SourceStep DEF vars, Source!vars
<1> QED
  BY <1>1, <1>2, Invariance, PTL DEF Spec, SourceSpec, Source!Spec
-----------------------------------------------------------------------------
(* What RXThread does to the pool.                                         *)

(* A buffer that has gone to the ring or been lost never comes back, and   *)
(* the ring only grows, at its tail; each packet with samples that         *)
(* RXThread deals with takes one more buffer from the pool that way        *)
(* (rte_ring_enqueue, dpdkSource.cc:390, and nobody dequeues).              *)
Drains ==
  /\ InRing \cup leaked \subseteq InRing' \cup leaked'
  /\ \A i \in DOMAIN ring : i \in DOMAIN ring' /\ ring'[i] = ring[i]
  /\ \A m \in hold["rx"] \ hold'["rx"] :
       ~overlapped /\ IsValidPacketType(kind[m]) =>
         m \notin InRing \cup leaked /\ m \in InRing' \cup leaked'

LEMMA DrainStep == ASSUME IInv, Next PROVE Drains
<1> USE DEF IInv
<1>1. ASSUME NEW m \in Mbufs, RxEnqueue(m) PROVE Drains
  <2>1. /\ DOMAIN ring' = DOMAIN ring \cup {Len(ring) + 1}
        /\ \A i \in DOMAIN ring : ring'[i] = ring[i]
        /\ InRing' = InRing \cup {m} /\ leaked' = leaked
    BY <1>1, RingAppend DEF RxEnqueue, TypeOK
  <2>2. m \in hold["rx"] /\ hold'["rx"] = hold["rx"] \ {m}
    BY <1>1 DEF RxEnqueue, Handle, Current, TypeOK
  <2>3. ASSUME ~overlapped PROVE m \notin InRing \cup leaked
    BY <2>2, <2>3 DEF ExclusiveOwnership
  <2> QED
    BY <2>1, <2>2, <2>3 DEF Drains
<1>2. ASSUME NEW m \in Mbufs, RxEnqueueFails(m) PROVE Drains
  <2>1. ring' = ring /\ InRing' = InRing /\ leaked' = leaked \cup {m}
    BY <1>2 DEF RxEnqueueFails, InRing
  <2>2. m \in hold["rx"] /\ hold'["rx"] = hold["rx"] \ {m}
    BY <1>2 DEF RxEnqueueFails, Handle, Current, TypeOK
  <2>3. ASSUME ~overlapped PROVE m \notin InRing \cup leaked
    BY <2>2, <2>3 DEF ExclusiveOwnership
  <2> QED
    BY <2>1, <2>2, <2>3 DEF Drains
<1>3. ASSUME NEW m \in Mbufs, RxDiscard(m) PROVE Drains
  <2>1. ring' = ring /\ InRing' = InRing /\ leaked' = leaked
    BY <1>3 DEF RxDiscard, InRing
  <2>2. hold'["rx"] = hold["rx"] \ {m} /\ ~IsValidPacketType(kind[m])
    BY <1>3 DEF RxDiscard, Handle, TypeOK
  <2> QED
    BY <2>1, <2>2 DEF Drains
<1>4. ASSUME UNCHANGED <<ring, leaked>>, ~overlapped => hold["rx"] \subseteq hold'["rx"]
      PROVE  Drains
  BY <1>4 DEF Drains, InRing
<1>5. ASSUME NEW t \in Thread, PollEnd(t) PROVE Drains
  <2>1. ASSUME ~overlapped PROVE hold["rx"] \subseteq hold'["rx"]
    BY <1>5, <2>1 DEF PollEnd, PollState, TypeOK
  <2> QED
    BY <1>4, <1>5, <2>1 DEF PollEnd
<1>6. ASSUME NEW m \in Mbufs, AppParse(m) PROVE Drains
  BY <1>4, <1>6 DEF AppParse, Handle, TypeOK
<1>7. CASE \/ Arrive \/ RxClose \/ Quit
           \/ \E t \in Thread : PollBegin(t)
           \/ \E m \in Mbufs : RxThrow(m)
  BY <1>4, <1>7 DEF Arrive, RxClose, Quit, PollBegin, RxThrow
<1> QED
  BY <1>1, <1>2, <1>3, <1>5, <1>6, <1>7 DEF Next, RxThread, AppInCall

THEOREM DrainIsPermanent == Spec => [][Drains]_vars
<1>1. IInv /\ [Next]_vars => [Drains]_vars
  BY DrainStep
<1> QED
  BY <1>1, Invariance, PTL DEF Spec

(* The condition under which what README.md:118 and 126 need holds: no two *)
(* threads inside the port at once.  It is what the run dpdk_stream_race   *)
(* shows the code does not ensure.                                         *)
THEOREM PolledStaysAlone == Spec => [](~overlapped => PolledBufferStays)
<1>1. IInv => (~overlapped => PolledBufferStays)
  BY DEF IInv, ExclusiveOwnership, PolledBufferStays
<1> QED
  BY <1>1, Invariance, PTL

-----------------------------------------------------------------------------
(* How long the pool lasts.                                                *)

(* Buffers that hold a packet, or have not been given back after one.      *)
Busy == filled \cup hold["rx"] \cup hold["app"] \cup InRing \cup leaked

(* No more buffers are in use than packets have arrived.                   *)
BusyCounted == ~overlapped => Cardinality(Busy) <= arrived

LEMMA BusyStep ==
  ASSUME IsFiniteSet(Mbufs), IInv, IInv', Next, BusyCounted
  PROVE  BusyCounted'
<1> SUFFICES ASSUME ~overlapped'
             PROVE  Cardinality(Busy') <= arrived'
  BY DEF BusyCounted
<1> USE DEF IInv
<1>0. /\ Busy \subseteq Mbufs /\ Busy' \subseteq Mbufs
      /\ arrived \in Nat /\ overlapped \in BOOLEAN
  BY DEF Busy, TypeOK, InRing
<1>1. IsFiniteSet(Busy) /\ IsFiniteSet(Busy')
  BY <1>0, FS_Subset
<1>2. Cardinality(Busy) \in Nat /\ Cardinality(Busy') \in Nat
  BY <1>1, FS_CardinalityType
<1>3. ~overlapped
  BY <1>0 DEF Next, RxThread, AppInCall, Arrive, PollBegin, PollEnd, RxEnqueue,
     RxEnqueueFails, RxDiscard, RxThrow, RxClose, Quit, AppParse, Handle
<1>4. ASSUME Busy' \subseteq Busy, arrived' = arrived
      PROVE  Cardinality(Busy') <= arrived'
  <2>1. Cardinality(Busy') <= Cardinality(Busy)
    BY <1>1, <1>4, FS_Subset
  <2> QED
    BY <1>0, <1>2, <1>3, <1>4, <2>1 DEF BusyCounted
<1>5. CASE Arrive
  <2>1. PICK m \in armed : filled' = filled \cup {m}
    BY <1>5 DEF Arrive
  <2>2. InRing' = InRing /\ UNCHANGED <<hold, leaked>> /\ arrived' = arrived + 1
    BY <1>5 DEF Arrive, InRing
  <2>3. Busy' = Busy \cup {m}
    BY <2>1, <2>2 DEF Busy
  <2>4. Cardinality(Busy') <= Cardinality(Busy) + 1
    BY <1>1, <1>2, <2>3, FS_AddElement
  <2> QED
    BY <1>0, <1>2, <1>3, <2>2, <2>4 DEF BusyCounted
<1>6. ASSUME NEW t \in Thread, PollEnd(t) PROVE Cardinality(Busy') <= arrived'
  <2>1. InRing' = InRing /\ UNCHANGED <<leaked, arrived>>
    BY <1>6 DEF PollEnd, InRing
  <2>2. /\ view[t] \subseteq filled /\ filled' \subseteq filled
        /\ hold'[t] = view[t] /\ \A u \in Thread \ {t} : hold'[u] = hold[u]
    BY <1>3, <1>6 DEF PollEnd, PollState, TypeOK
  <2>3. Busy' \subseteq Busy
    BY <2>1, <2>2 DEF Busy
  <2> QED
    BY <1>4, <2>1, <2>3
<1>7. ASSUME NEW m \in Mbufs, RxEnqueue(m) PROVE Cardinality(Busy') <= arrived'
  <2>1. /\ InRing' = InRing \cup {m} /\ UNCHANGED <<filled, leaked, arrived>>
        /\ m \in hold["rx"] /\ hold'["rx"] = hold["rx"] \ {m}
        /\ hold'["app"] = hold["app"]
    BY <1>7, RingAppend DEF RxEnqueue, Handle, Current, TypeOK
  <2>2. Busy' \subseteq Busy
    BY <2>1 DEF Busy
  <2> QED
    BY <1>4, <2>1, <2>2
<1>8. ASSUME NEW m \in Mbufs, RxEnqueueFails(m) PROVE Cardinality(Busy') <= arrived'
  <2>1. /\ InRing' = InRing /\ UNCHANGED <<filled, arrived>>
        /\ leaked' = leaked \cup {m}
        /\ m \in hold["rx"] /\ hold'["rx"] = hold["rx"] \ {m}
        /\ hold'["app"] = hold["app"]
    BY <1>8 DEF RxEnqueueFails, Handle, Current, TypeOK, InRing
  <2>2. Busy' \subseteq Busy
    BY <2>1 DEF Busy
  <2> QED
    BY <1>4, <2>1, <2>2
<1>9. ASSUME NEW m \in Mbufs, RxDiscard(m) \/ AppParse(m)
      PROVE  Cardinality(Busy') <= arrived'
  <2>1. /\ InRing' = InRing /\ UNCHANGED <<filled, leaked, arrived>>
        /\ hold'["rx"] \subseteq hold["rx"] /\ hold'["app"] \subseteq hold["app"]
    BY <1>9 DEF RxDiscard, AppParse, Handle, TypeOK, InRing
  <2>2. Busy' \subseteq Busy
    BY <2>1 DEF Busy
  <2> QED
    BY <1>4, <2>1, <2>2
<1>10. CASE \/ RxClose \/ Quit
            \/ \E t \in Thread : PollBegin(t)
            \/ \E m \in Mbufs : RxThrow(m)
  <2>1. /\ InRing' = InRing /\ UNCHANGED <<hold, leaked, arrived>>
        /\ filled' \subseteq filled
    BY <1>10 DEF RxClose, Quit, PollBegin, RxThrow, InRing
  <2>2. Busy' \subseteq Busy
    BY <2>1 DEF Busy
  <2> QED
    BY <1>4, <2>1, <2>2
<1> QED
  BY <1>5, <1>6, <1>7, <1>8, <1>9, <1>10 DEF Next, RxThread, AppInCall

LEMMA BusyInvariant == ASSUME IsFiniteSet(Mbufs) PROVE Spec => []BusyCounted
<1>1. Init => BusyCounted
  <2>1. Init => Busy = {} /\ arrived = 0
    BY DEF Init, Busy, InRing
  <2> QED
    BY <2>1, FS_EmptySet DEF BusyCounted
<1>2. IInv /\ IInv' /\ BusyCounted /\ [Next]_vars => BusyCounted'
  BY BusyStep DEF BusyCounted, Busy, InRing, vars
<1> QED
  BY <1>1, <1>2, Invariance, PTL DEF Spec

(* The loop of README.md:126 cannot run dry before as many packets have    *)
(* arrived as the pool has buffers (4096), in whatever order RXThread and  *)
(* getSamples take them.  The run dpdk_stream_starved shows that it does   *)
(* run dry then.                                                           *)
THEOREM PoolLasts ==
  ASSUME IsFiniteSet(Mbufs)
  PROVE  Spec => [](~overlapped /\ arrived < Cardinality(Mbufs) => NeverStarved)
<1>1. ASSUME IInv, BusyCounted, ~overlapped, arrived < Cardinality(Mbufs), Starved
      PROVE  FALSE
  <2>1. Busy = Mbufs
    BY <1>1 DEF IInv, TypeOK, Starved, Busy, InRing
  <2>2. Cardinality(Mbufs) \in Nat /\ arrived \in Nat
    BY <1>1, FS_CardinalityType DEF IInv, TypeOK
  <2> QED
    BY <1>1, <2>1, <2>2 DEF BusyCounted
<1>2. IInv /\ BusyCounted =>
        (~overlapped /\ arrived < Cardinality(Mbufs) => NeverStarved)
  BY <1>1 DEF NeverStarved
<1> QED
  BY <1>2, BusyInvariant, Invariance, PTL

-----------------------------------------------------------------------------
(* What the traffic decides.                                               *)

(* A buffer holds what arrived, or what it held from the beginning.        *)
KindsArrived == \A m \in Mbufs : kind[m] \in Traffic \cup {"FOREIGN"}

LEMMA KindsInvariant == Spec => []KindsArrived
<1>1. Init => KindsArrived
  BY DEF Init, KindsArrived
<1>2. ASSUME IInv, KindsArrived, [Next]_vars PROVE KindsArrived'
  <2>1. CASE Arrive
    BY <1>2, <2>1 DEF Arrive, KindsArrived, IInv, TypeOK
  <2>2. CASE UNCHANGED kind
    BY <1>2, <2>2 DEF KindsArrived
  <2> QED
    BY <1>2, <2>1, <2>2
    DEF Next, RxThread, AppInCall, PollBegin, PollEnd, RxEnqueue, Handle,
        RxEnqueueFails, RxDiscard, RxThrow, RxClose, Quit, AppParse, vars
<1> QED
  BY <1>1, <1>2, Invariance, PTL DEF Spec

(* Without packets that carry samples the pool keeps all its buffers,      *)
(* whether polls overlap or not: metadata and foreign frames are freed.    *)
THEOREM NoSamplesNoDrain ==
  ASSUME Traffic \cap {"DATA", "DATA_END_OF_BURST"} = {}
  PROVE  Spec => [](ring = <<>> /\ leaked = {})
<1>1. Init => ring = <<>> /\ leaked = {}
  BY DEF Init
<1>2. ASSUME KindsArrived, NEW m \in Mbufs PROVE ~IsValidPacketType(kind[m])
  BY <1>2 DEF KindsArrived, IsValidPacketType
<1>3. ASSUME KindsArrived, [Next]_vars PROVE UNCHANGED <<ring, leaked>>
  BY <1>2, <1>3
  DEF Next, RxThread, AppInCall, Arrive, PollBegin, PollEnd, RxEnqueue,
      RxEnqueueFails, RxDiscard, RxThrow, RxClose, Quit, AppParse, vars
<1>4. /\ ring = <<>> /\ leaked = {} /\ KindsArrived /\ [Next]_vars
      => (ring = <<>> /\ leaked = {})'
  BY <1>3
<1> QED
  BY <1>1, <1>4, KindsInvariant, PTL DEF Spec

(* RXThread dies of nothing but a header whose control bits name no type   *)
(* (getControlFromHeader throws in a thread that catches nothing).         *)
THEOREM WellFormedNoCrash ==
  ASSUME "UNMATCHED" \notin Traffic
  PROVE  Spec => []~crashed
<1>1. Init => ~crashed
  BY DEF Init
<1>2. ASSUME KindsArrived, ~crashed, [Next]_vars PROVE ~crashed'
  <2>1. \A m \in Mbufs : ~RxThrow(m)
    BY <1>2 DEF RxThrow, KindsArrived
  <2> QED
    BY <1>2, <2>1
    DEF Next, RxThread, AppInCall, Arrive, PollBegin, PollEnd, RxEnqueue, Handle,
        RxEnqueueFails, RxDiscard, RxClose, Quit, AppParse, vars
<1> QED
  BY <1>1, <1>2, KindsInvariant, PTL DEF Spec
=============================================================================
