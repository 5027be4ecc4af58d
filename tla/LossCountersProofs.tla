------------------------- MODULE LossCountersProofs -------------------------
(***************************************************************************)
(* Proofs about LossCounters for every set of streams and every modulus of *)
(* the sequence numbers.                                                   *)
(***************************************************************************)
EXTENDS LossCounters, TLAPS

LEMMA SuccType == \A n \in Seq12 : Succ(n) \in Seq12
BY CountersAssumption DEF Succ, Seq12

LEMMA DeltaType ==
  ASSUME TypeOK, NEW s \in Streams PROVE Delta(s) \in Nat
BY CountersAssumption DEF TypeOK, Delta, Abs, Seq12

LEMMA InitTyped == Init => TypeOK
<1> SUFFICES ASSUME Init PROVE TypeOK
  OBVIOUS
<1> USE DEF Init
<1>1. 0 \in Seq12
  BY CountersAssumption DEF Seq12
<1>2. next \in [Streams -> Seq12] /\ seq \in [Streams -> Seq12]
      /\ prev_seq \in [Streams -> Seq12]
  BY <1>1
<1>3. missing \in [Streams -> Nat] /\ skipped \in [Streams -> Nat]
      /\ reg \in [Streams -> Nat]
  OBVIOUS
<1> QED
  BY <1>2, <1>3 DEF TypeOK

(* One step per action.                                                    *)
LEMMA NextTyped == TypeOK /\ [Next]_vars => TypeOK'
<1> SUFFICES ASSUME TypeOK, [Next]_vars PROVE TypeOK'
  OBVIOUS
<1>1. ASSUME NEW s \in Streams, Drop(s) PROVE TypeOK'
  BY <1>1, SuccType DEF TypeOK, Drop, numbers, counters
<1>2. ASSUME NEW s \in Streams, Receive(s) PROVE TypeOK'
  BY <1>2, SuccType DEF TypeOK, Receive, TakeFrame, counters
<1>3. ASSUME NEW s \in Streams, ReceiveForeign(s) PROVE TypeOK'
  BY <1>3 DEF TypeOK, ReceiveForeign, TakeFrame, sender, counters
<1>4. ASSUME NEW s \in Streams, Count(s) PROVE TypeOK'
  BY <1>4 DEF TypeOK, Count, Goto, sender, numbers
<1>5. ASSUME NEW s \in Streams, ReadLost(s) \/ ReadTotal(s) \/ PrintRate(s)
      PROVE  TypeOK'
  BY <1>5 DEF TypeOK, ReadLost, ReadTotal, PrintRate, Goto, sender, numbers,
              counters
<1>6. ASSUME NEW s \in Streams, AddLost(s) PROVE TypeOK'
  BY <1>6, DeltaType DEF TypeOK, AddLost, Goto, sender, numbers
<1>7. ASSUME NEW s \in Streams, AddTotal(s) PROVE TypeOK'
  BY <1>7, DeltaType DEF TypeOK, AddTotal, Goto, sender, numbers
<1>8. CASE UNCHANGED vars
  BY <1>8 DEF TypeOK, vars, sender, numbers, counters
<1> QED
  BY <1>1, <1>2, <1>3, <1>4, <1>5, <1>6, <1>7, <1>8 DEF Next

(* Sequence numbers stay below the wrap and counters are numbers.          *)
THEOREM CountersTyping == Spec => []TypeOK
BY InitTyped, NextTyped, PTL DEF Spec

-----------------------------------------------------------------------------
(* Without a loss the number the sender uses next follows the one the      *)
(* worker saw last, or neither has begun.                                  *)
Follows(n, m) == n = Succ(m) \/ (n = 0 /\ m = 0)

InStep ==
  ~foreign =>
    \A s \in Streams :
      /\ missing[s] = 0 => Follows(next[s], seq[s])
      /\ pc[s] # "poll" /\ skipped[s] = 0 => Follows(seq[s], prev_seq[s])

LEMMA NextInStep == TypeOK /\ InStep /\ [Next]_vars => InStep'
<1> SUFFICES ASSUME TypeOK, InStep, [Next]_vars PROVE InStep'
  OBVIOUS
<1>1. ASSUME NEW s \in Streams, Drop(s) PROVE InStep'
  BY <1>1 DEF TypeOK, InStep, Drop, numbers
<1>2. ASSUME NEW s \in Streams, Receive(s) PROVE InStep'
  BY <1>2 DEF TypeOK, InStep, Receive, TakeFrame, Follows
<1>3. ASSUME NEW s \in Streams, ReceiveForeign(s) PROVE InStep'
  BY <1>3 DEF InStep, ReceiveForeign
<1>4. ASSUME NEW s \in Streams, NEW from, NEW to, from # "poll",
             Goto(s, from, to)
      PROVE  InStep'
  BY <1>4 DEF TypeOK, InStep, Goto, sender, numbers
<1>5. CASE UNCHANGED vars
  BY <1>5 DEF InStep, vars, sender, numbers
<1>6. ASSUME NEW s \in Streams,
             Count(s) \/ ReadLost(s) \/ AddLost(s) \/ ReadTotal(s)
             \/ AddTotal(s) \/ PrintRate(s)
      PROVE  InStep'
  BY <1>4, <1>6 DEF Count, ReadLost, AddLost, ReadTotal, AddTotal, PrintRate
<1> QED
  BY <1>1, <1>2, <1>3, <1>5, <1>6 DEF Next

(* The worker raises no false alarm: a gap it sees is a loss.              *)
THEOREM NoFalseAlarm == Spec => []GapsAreReal
<1>1. Init => InStep
  BY DEF Init, InStep, Follows
<1>2. TypeOK /\ InStep => GapsAreReal
  BY CountersAssumption
     DEF TypeOK, InStep, GapsAreReal, Gap, Follows, Succ, Seq12
<1> QED
  BY <1>1, <1>2, NextInStep, CountersTyping, PTL DEF Spec

-----------------------------------------------------------------------------
(* Short of a whole turn of the numbers, what is missing after number m is *)
(* the distance to number n, with at most one wrap between them.           *)
Apart(m, k, n) ==
  m > 0 /\ k < SeqMod - 1 => n = m + 1 + k \/ n = m + 1 + k - SeqMod

Distances ==
  ~foreign =>
    \A s \in Streams :
      /\ Apart(seq[s], missing[s], next[s])
      /\ pc[s] = "count" => Apart(prev_seq[s], skipped[s], seq[s])

LEMMA NextDistances == TypeOK /\ TypeOK' /\ Distances /\ [Next]_vars => Distances'
<1> SUFFICES ASSUME TypeOK, TypeOK', Distances, [Next]_vars
             PROVE  Distances'
  OBVIOUS
<1> USE CountersAssumption
<1>1. ASSUME NEW s \in Streams, Drop(s)
      PROVE  Distances'
  <2>1. ASSUME Apart(seq[s], missing[s], next[s])
        PROVE  Apart(seq[s], missing[s] + 1, Succ(next[s]))
    <3>1. /\ seq[s] \in 0 .. SeqMod - 1 /\ next[s] \in 0 .. SeqMod - 1
          /\ missing[s] \in Nat
      BY DEF TypeOK, Seq12
    <3> QED
      BY <2>1, <3>1 DEF Apart, Succ
  <2>2. \A u \in Streams :
          /\ u = s => missing'[u] = missing[u] + 1 /\ next'[u] = Succ(next[u])
          /\ u # s => missing'[u] = missing[u] /\ next'[u] = next[u]
    BY <1>1 DEF Drop, TypeOK
  <2>3. UNCHANGED <<seq, prev_seq, skipped, pc, foreign>>
    BY <1>1 DEF Drop, numbers
  <2> QED
    BY <2>1, <2>2, <2>3 DEF Distances
<1>2. ASSUME NEW s \in Streams, Receive(s)
      PROVE  Distances'
  <2>1. Apart(next[s], 0, Succ(next[s]))
    BY DEF Apart, Succ, TypeOK, Seq12
  <2>2. \A u \in Streams :
          /\ u = s => /\ missing'[u] = 0 /\ next'[u] = Succ(next[u])
                      /\ seq'[u] = next[u] /\ prev_seq'[u] = seq[u]
                      /\ skipped'[u] = missing[u]
          /\ u # s => /\ missing'[u] = missing[u] /\ next'[u] = next[u]
                      /\ seq'[u] = seq[u] /\ prev_seq'[u] = prev_seq[u]
                      /\ skipped'[u] = skipped[u] /\ pc'[u] = pc[u]
    BY <1>2 DEF Receive, TakeFrame, TypeOK
  <2>3. UNCHANGED foreign
    BY <1>2 DEF Receive
  <2> QED
    BY <2>1, <2>2, <2>3 DEF Distances
<1>3. ASSUME NEW s \in Streams, ReceiveForeign(s)
      PROVE  Distances'
  BY <1>3 DEF ReceiveForeign, Distances
<1>4. ASSUME NEW s \in Streams,
             \/ Count(s) \/ ReadLost(s) \/ AddLost(s) \/ ReadTotal(s) \/ AddTotal(s)
             \/ PrintRate(s)
      PROVE  Distances'
  <2>1. UNCHANGED <<sender, numbers, foreign>>
    BY <1>4 DEF Count, ReadLost, AddLost, ReadTotal, AddTotal, PrintRate, Goto
  <2>2. \A u \in Streams : pc'[u] = "count" => pc[u] = "count"
    BY <1>4 DEF Count, ReadLost, AddLost, ReadTotal, AddTotal, PrintRate, Goto, TypeOK
  <2> QED
    BY <2>1, <2>2 DEF Distances, sender, numbers
<1>5. CASE UNCHANGED vars
  BY <1>5 DEF Distances, vars, sender, numbers
<1> QED
  BY <1>1, <1>2, <1>3, <1>4, <1>5 DEF Next

LEMMA DistancesInvariant == Spec => [](TypeOK /\ Distances)
<1>1. Init => Distances
  <2> SUFFICES ASSUME Init, NEW s \in Streams
               PROVE  /\ Apart(seq[s], missing[s], next[s])
                      /\ pc[s] # "count"
    BY DEF Distances
  <2>1. seq[s] = 0 /\ pc[s] = "poll"
    BY DEF Init
  <2> QED
    BY <2>1 DEF Apart
<1> QED
  BY <1>1, InitTyped, NextTyped, NextDistances, PTL DEF Spec

(* A loss that does not touch the wrap is noticed, and one more than what  *)
(* was lost is added to the counters.                                      *)
THEOREM LossIsSeen == Spec => []InnerLossIsSeen
<1>1. TypeOK /\ Distances => InnerLossIsSeen
  <2> SUFFICES ASSUME TypeOK, Distances, ~foreign, NEW s \in Streams,
                      pc[s] = "count", 0 < skipped[s], skipped[s] < SeqMod - 1,
                      0 < prev_seq[s], prev_seq[s] < seq[s]
               PROVE  Gap(s) /\ Delta(s) = skipped[s] + 1
    BY DEF InnerLossIsSeen
  <2>1. /\ seq[s] \in 0 .. SeqMod - 1 /\ prev_seq[s] \in 0 .. SeqMod - 1
        /\ skipped[s] \in Nat /\ SeqMod \in Nat
    BY CountersAssumption DEF TypeOK, Seq12
  <2>2. seq[s] = prev_seq[s] + 1 + skipped[s]
    BY <2>1 DEF Distances, Apart
  <2> QED
    BY <2>1, <2>2 DEF Gap, Delta, Abs
<1> QED
  BY <1>1, DistancesInvariant, PTL

-----------------------------------------------------------------------------
(* What a worker read from a counter is covered by what was added to it.   *)
Covered ==
  /\ OnlyLosesUpdates
  /\ \A s \in Streams :
       /\ pc[s] \in {"count", "addTotal"} => reg[s] <= added
       /\ pc[s] = "addLost" => reg[s] <= addedLost

LEMMA NextCovered == TypeOK /\ Covered /\ [Next]_vars => Covered'
<1> SUFFICES ASSUME TypeOK, Covered, [Next]_vars PROVE Covered'
  OBVIOUS
<1> USE DEF TypeOK, Covered, OnlyLosesUpdates
<1>1. ASSUME NEW s \in Streams, Drop(s) PROVE Covered'
  BY <1>1 DEF Drop, counters
<1>2. ASSUME NEW s \in Streams, Receive(s) \/ ReceiveForeign(s) PROVE Covered'
  BY <1>2 DEF Receive, ReceiveForeign, TakeFrame, counters
<1>3. ASSUME NEW s \in Streams, Count(s) PROVE Covered'
  BY <1>3 DEF Count, Goto
<1>4. ASSUME NEW s \in Streams, ReadLost(s) \/ ReadTotal(s) \/ PrintRate(s)
      PROVE  Covered'
  BY <1>4 DEF ReadLost, ReadTotal, PrintRate, Goto, counters
<1>5. ASSUME NEW s \in Streams, AddLost(s) PROVE Covered'
  BY <1>5, DeltaType DEF AddLost, Goto
<1>6. ASSUME NEW s \in Streams, AddTotal(s) PROVE Covered'
  BY <1>6, DeltaType DEF AddTotal, Goto
<1>7. CASE UNCHANGED vars
  BY <1>7 DEF vars, counters
<1> QED
  BY <1>1, <1>2, <1>3, <1>4, <1>5, <1>6, <1>7 DEF Next

(* Workers that add to the shared counters at once lose additions; they    *)
(* never invent any.                                                       *)
THEOREM SharedCounters == Spec => []OnlyLosesUpdates
<1>1. Init => Covered
  BY DEF Init, Covered, OnlyLosesUpdates
<1>2. Covered => OnlyLosesUpdates
  BY DEF Covered
<1> QED
  BY <1>1, <1>2, NextCovered, CountersTyping, PTL DEF Spec

-----------------------------------------------------------------------------
(* As long as no two workers were adding at once, at most one is at work,  *)
(* and its place in the loop says where the counters stand.                *)
Ledger ==
  ~overlapped =>
    /\ \A s, u \in Streams : pc[s] # "poll" /\ pc[u] # "poll" => s = u
    /\ Idle => total_packets = received + total_packets_lost
    /\ \A s \in Streams :
         /\ pc[s] \in {"readLost", "addLost", "print"} =>
              total_packets = received + total_packets_lost
         /\ pc[s] = "count" => total_packets + 1 = received + total_packets_lost
         /\ pc[s] \in {"readTotal", "addTotal"} =>
              total_packets + Delta(s) = received + total_packets_lost
         /\ pc[s] \in {"count", "addTotal"} => reg[s] = total_packets
         /\ pc[s] = "addLost" => reg[s] = total_packets_lost

(* While a is at work alone, Ledger is about a.                            *)
LEMMA AtWork ==
  ASSUME TypeOK, Ledger, NEW a \in Streams, NEW from, NEW to, Goto(a, from, to),
         from # "poll", ~overlapped
  PROVE  /\ ~overlapped'
         /\ \A u \in Streams \ {a} : pc[u] = "poll" /\ pc'[u] = "poll"
         /\ pc[a] = from /\ pc'[a] = to
         /\ Idle' <=> to = "poll"
         /\ Delta(a)' = Delta(a)
BY DEF TypeOK, Ledger, Goto, Idle, Delta, numbers

LEMMA NextLedger == TypeOK /\ Ledger /\ [Next]_vars => Ledger'
<1> SUFFICES ASSUME TypeOK, Ledger, [Next]_vars, ~overlapped' PROVE Ledger'
  BY DEF Ledger
<1>0. ~overlapped
  BY DEF TypeOK, Next, Drop, Receive, ReceiveForeign, TakeFrame, Count, ReadLost,
         AddLost, ReadTotal, AddTotal, PrintRate, Goto, vars
<1>1. ASSUME NEW a \in Streams, Drop(a) PROVE Ledger'
  BY <1>0, <1>1 DEF Ledger, Idle, Drop, counters, numbers, Delta
<1>2. ASSUME NEW a \in Streams, Receive(a) \/ ReceiveForeign(a) PROVE Ledger'
  <2>1. PICK q : TakeFrame(a, q)
    BY <1>2 DEF Receive, ReceiveForeign
  <2>2. \A u \in Streams \ {a} : pc[u] = "poll" /\ pc'[u] = "poll"
    BY <2>1 DEF TakeFrame, TypeOK
  <2>3. Idle /\ pc'[a] = "count" /\ reg'[a] = total_packets
    BY <2>1, <2>2 DEF TakeFrame, TypeOK, Idle
  <2>4. received' = received + 1 /\ UNCHANGED <<total_packets, total_packets_lost>>
    BY <2>1 DEF TakeFrame, counters
  <2> QED
    BY <1>0, <2>2, <2>3, <2>4 DEF TypeOK, Ledger, Idle
<1>3. ASSUME NEW a \in Streams, Count(a) PROVE Ledger'
  BY <1>0, <1>3, AtWork DEF TypeOK, Ledger, Count, Goto
<1>4. ASSUME NEW a \in Streams, ReadLost(a) PROVE Ledger'
  BY <1>0, <1>4, AtWork DEF TypeOK, Ledger, ReadLost, Goto, counters
<1>5. ASSUME NEW a \in Streams, AddLost(a) PROVE Ledger'
  <2>1. Goto(a, "addLost", "readTotal")
    BY <1>5 DEF AddLost
  <2>2. /\ ~overlapped' /\ pc'[a] = "readTotal" /\ ~Idle'
        /\ \A u \in Streams \ {a} : pc'[u] = "poll"
        /\ Delta(a)' = Delta(a)
    BY <1>0, <2>1, AtWork
  <2>3. total_packets' + Delta(a) = received' + total_packets_lost'
    BY <1>0, <1>5, DeltaType DEF TypeOK, Ledger, AddLost, Goto
  <2> QED
    BY <2>2, <2>3 DEF Ledger
<1>6. ASSUME NEW a \in Streams, ReadTotal(a) PROVE Ledger'
  <2>1. Goto(a, "readTotal", "addTotal")
    BY <1>6 DEF ReadTotal
  <2>2. /\ ~overlapped' /\ pc'[a] = "addTotal" /\ ~Idle'
        /\ \A u \in Streams \ {a} : pc'[u] = "poll"
        /\ Delta(a)' = Delta(a)
    BY <1>0, <2>1, AtWork
  <2>3. total_packets' + Delta(a) = received' + total_packets_lost'
    BY <1>0, <1>6 DEF TypeOK, Ledger, ReadTotal, Goto, counters
  <2>4. reg'[a] = total_packets'
    BY <1>6 DEF TypeOK, ReadTotal, counters
  <2> QED
    BY <2>2, <2>3, <2>4 DEF Ledger
<1>7. ASSUME NEW a \in Streams, AddTotal(a) PROVE Ledger'
  BY <1>0, <1>7, AtWork, DeltaType DEF TypeOK, Ledger, AddTotal, Goto
<1>8. ASSUME NEW a \in Streams, PrintRate(a) PROVE Ledger'
  BY <1>0, <1>8, AtWork DEF TypeOK, Ledger, PrintRate, Goto, counters
<1>9. CASE UNCHANGED vars
  BY <1>9 DEF Ledger, Idle, vars, counters, numbers, Delta
<1> QED
  BY <1>1, <1>2, <1>3, <1>4, <1>5, <1>6, <1>7, <1>8, <1>9 DEF Next

(* As long as no two workers add at once, the total is what was received   *)
(* and what was taken for lost, and the rate printed is at most 1.         *)
THEOREM UndisturbedCounters == Spec => [](TotalIsSum /\ RateAtMostOne)
<1>1. Init => Ledger
  BY DEF Init, Ledger
<1>2. TypeOK /\ Ledger => TotalIsSum /\ RateAtMostOne
  BY DEF TypeOK, Ledger, TotalIsSum, RateAtMostOne
<1> QED
  BY <1>1, <1>2, NextLedger, CountersTyping, PTL DEF Spec

(* The rate of loss that a worker prints is at most 1.                     *)
THEOREM RatePrinted == Spec => []RateAtMostOne
BY UndisturbedCounters, PTL

-----------------------------------------------------------------------------
(* What becomes of a loss that crosses or touches the wrap.                *)

(* The gap test passes over a loss only when the packet before it had the  *)
(* last number or the packet after it has number 0.                        *)
MissedOnlyAtWrap ==
  ~foreign =>
    \A s \in Streams :
      /\ pc[s] = "count" /\ 0 < skipped[s] /\ skipped[s] < SeqMod - 1
      /\ 0 < prev_seq[s] /\ ~Gap(s)
      => prev_seq[s] = SeqMod - 1 \/ seq[s] = 0

(* A loss with the wrap inside is seen, but what is added to the counters  *)
(* for it is what the numbers are short of a whole turn.                   *)
WrapIsMiscounted ==
  ~foreign =>
    \A s \in Streams :
      /\ pc[s] = "count" /\ 0 < skipped[s] /\ skipped[s] < SeqMod - 1
      /\ 0 < seq[s] /\ seq[s] < prev_seq[s] /\ prev_seq[s] < SeqMod - 1
      => Gap(s) /\ Delta(s) = SeqMod - (skipped[s] + 1)

(* The gap test at the wrap (dpdkSource.cc:369-371), for every modulus.    *)
THEOREM LossAtWrap == Spec => [](MissedOnlyAtWrap /\ WrapIsMiscounted)
<1>1. ASSUME TypeOK, Distances, ~foreign, NEW s \in Streams, pc[s] = "count",
             0 < skipped[s], skipped[s] < SeqMod - 1, 0 < prev_seq[s]
      PROVE  /\ ~Gap(s) => prev_seq[s] = SeqMod - 1 \/ seq[s] = 0
             /\ (0 < seq[s] /\ seq[s] < prev_seq[s] /\ prev_seq[s] < SeqMod - 1)
                  => Gap(s) /\ Delta(s) = SeqMod - (skipped[s] + 1)
  <2>1. /\ seq[s] \in 0 .. SeqMod - 1 /\ prev_seq[s] \in 0 .. SeqMod - 1
        /\ skipped[s] \in Nat
    BY <1>1 DEF TypeOK, Seq12
  <2>2. \/ seq[s] = prev_seq[s] + 1 + skipped[s]
        \/ seq[s] = prev_seq[s] + 1 + skipped[s] - SeqMod
    BY <1>1 DEF Distances, Apart
  <2> QED
    BY <1>1, <2>1, <2>2, CountersAssumption DEF Gap, Delta, Abs
<1>2. TypeOK /\ Distances => MissedOnlyAtWrap
  BY <1>1 DEF MissedOnlyAtWrap
<1>3. TypeOK /\ Distances => WrapIsMiscounted
  <2>1. ASSUME TypeOK, NEW s \in Streams, 0 < seq[s], seq[s] < prev_seq[s]
        PROVE  0 < prev_seq[s]
    BY <2>1, CountersAssumption DEF TypeOK, Seq12
  <2> QED
    BY <1>1, <2>1 DEF WrapIsMiscounted
<1> QED
  BY <1>2, <1>3, DistancesInvariant, PTL

-----------------------------------------------------------------------------
(* A network that loses nothing and carries nothing foreign: the counter   *)
(* of lost packets stays 0, however many workers share it.                 *)
Lossless ==
  /\ ~foreign /\ total_packets_lost = 0
  /\ \A s \in Streams :
       missing[s] = 0 /\ skipped[s] = 0 /\ pc[s] \in {"poll", "count"}

NothingReported == total_packets_lost = 0

THEOREM NoLossNoReport ==
  ASSUME MaxMissing = 0, Foreign = FALSE PROVE Spec => []NothingReported
<1>1. Init => Lossless
  BY DEF Init, Lossless
<1>2. TypeOK /\ GapsAreReal /\ Lossless /\ [Next]_vars => Lossless'
  <2> SUFFICES ASSUME TypeOK, GapsAreReal, Lossless, [Next]_vars PROVE Lossless'
    OBVIOUS
  <2>1. ASSUME NEW s \in Streams, Drop(s) PROVE FALSE
    BY <2>1 DEF Drop, Lossless
  <2>2. ASSUME NEW s \in Streams, Receive(s) PROVE Lossless'
    BY <2>2 DEF Receive, TakeFrame, Lossless, TypeOK, counters
  <2>3. ASSUME NEW s \in Streams, ReceiveForeign(s) PROVE FALSE
    BY <2>3 DEF ReceiveForeign
  <2>4. ASSUME NEW s \in Streams, Count(s) PROVE Lossless'
    <3>1. ~Gap(s)
      BY <2>4 DEF Count, Goto, GapsAreReal, Lossless, TypeOK
    <3> QED
      BY <2>4, <3>1 DEF Count, Goto, Lossless, TypeOK, sender
  <2>5. ASSUME NEW s \in Streams,
               ReadLost(s) \/ AddLost(s) \/ ReadTotal(s) \/ AddTotal(s) \/ PrintRate(s)
        PROVE  FALSE
    BY <2>5 DEF ReadLost, AddLost, ReadTotal, AddTotal, PrintRate, Goto, Lossless
  <2>6. CASE UNCHANGED vars
    BY <2>6 DEF Lossless, vars, sender, counters
  <2> QED
    BY <2>1, <2>2, <2>3, <2>4, <2>5, <2>6 DEF Next
<1>3. Lossless => NothingReported
  BY DEF Lossless, NothingReported
<1> QED
  BY <1>1, <1>2, <1>3, CountersTyping, NoFalseAlarm, PTL DEF Spec

-----------------------------------------------------------------------------
(* As long as no two workers were adding at once no addition is lost.      *)
NoUpdateLost ==
  ~overlapped => total_packets = added /\ total_packets_lost = addedLost

LEMMA NextNoUpdateLost ==
  TypeOK /\ Ledger /\ NoUpdateLost /\ [Next]_vars => NoUpdateLost'
<1> SUFFICES ASSUME TypeOK, Ledger, NoUpdateLost, [Next]_vars, ~overlapped'
             PROVE  (total_packets = added /\ total_packets_lost = addedLost)'
  BY DEF NoUpdateLost
<1>0. /\ ~overlapped
      /\ total_packets = added /\ total_packets_lost = addedLost
  BY DEF TypeOK, NoUpdateLost, Next, Drop, Receive, ReceiveForeign, TakeFrame,
         Count, ReadLost, AddLost, ReadTotal, AddTotal, PrintRate, Goto, vars
<1>1. CASE UNCHANGED counters
  BY <1>0, <1>1 DEF counters
<1>2. ASSUME NEW s \in Streams, Count(s)
      PROVE  (total_packets = added /\ total_packets_lost = addedLost)'
  BY <1>0, <1>2 DEF Count, Goto, Ledger
<1>3. ASSUME NEW s \in Streams, AddLost(s)
      PROVE  (total_packets = added /\ total_packets_lost = addedLost)'
  BY <1>0, <1>3 DEF AddLost, Goto, Ledger
<1>4. ASSUME NEW s \in Streams, AddTotal(s)
      PROVE  (total_packets = added /\ total_packets_lost = addedLost)'
  BY <1>0, <1>4 DEF AddTotal, Goto, Ledger
<1> QED
  BY <1>1, <1>2, <1>3, <1>4
  DEF Next, Drop, Receive, ReceiveForeign, TakeFrame, ReadLost, ReadTotal,
      PrintRate, vars

(* The counters hold what was added to them until two workers race.        *)
THEOREM NoneLostAlone == Spec => []NoUpdateLost
<1>1. Init => Ledger /\ NoUpdateLost
  BY DEF Init, Ledger, NoUpdateLost
<1> QED
  BY <1>1, NextLedger, NextNoUpdateLost, CountersTyping, PTL DEF Spec

(* A DpdkSource with one stream has one worker, which nobody races: its    *)
(* counters are right without an "unless".                                 *)
CountersRight ==
  /\ Idle => total_packets = received + total_packets_lost
  /\ \A s \in Streams : pc[s] = "print" => total_packets_lost <= total_packets
  /\ total_packets = added /\ total_packets_lost = addedLost

THEOREM OneStreamCounts ==
  ASSUME \A s, u \in Streams : s = u PROVE Spec => []CountersRight
<1>1. Init => ~overlapped
  BY DEF Init
<1>2. ~overlapped /\ [Next]_vars => ~overlapped'
  BY DEF Next, Drop, Receive, ReceiveForeign, TakeFrame, Count, ReadLost,
         AddLost, ReadTotal, AddTotal, PrintRate, Goto, vars
<1>3. ~overlapped /\ TotalIsSum /\ RateAtMostOne /\ NoUpdateLost => CountersRight
  BY DEF TotalIsSum, RateAtMostOne, NoUpdateLost, CountersRight
<1> QED
  BY <1>1, <1>2, <1>3, UndisturbedCounters, NoneLostAlone, PTL DEF Spec
====================================================================
