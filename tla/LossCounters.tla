---------------------------- MODULE LossCounters ----------------------------
(***************************************************************************)
(* The packet counters of DpdkSource.  The worker of each stream compares  *)
(* the sequence number of every frame it polls with the one before, and    *)
(* adds what seems to be missing to total_packets and total_packets_lost.  *)
(* Both counters are plain fields shared by the workers of all streams, so *)
(* an addition is a read and a write with other workers in between.        *)
(*                                                                         *)
(* The sender numbers the packets of a stream as HrzrUdpTransmitter does.  *)
(* Between it and the worker packets may be dropped, never reordered.      *)
(***************************************************************************)
EXTENDS Integers

CONSTANTS
  Streams,     \* streams, one worker each
  SeqMod,      \* sequence numbers before the wrap (4096)
  Foreign,     \* whether frames of other senders reach the port
  MaxPackets,  \* bound on the frames received
  MaxMissing   \* bound on the packets dropped in a row

ASSUME CountersAssumption ==
  /\ SeqMod \in Nat /\ SeqMod > 2
  /\ Foreign \in BOOLEAN
  /\ MaxPackets \in Nat /\ MaxMissing \in Nat

VARIABLES
  next,                \* sequence number of the packet the sender sends next
  missing,             \* packets dropped since the last one received
  skipped,             \* packets dropped just before the last one received
  seq, prev_seq,       \* the worker's local variables
  pc,                  \* the worker's place in the handling of a frame
  reg,                 \* the counter value the worker has read
  total_packets,
  total_packets_lost,
  received,            \* frames received, by all workers
  foreign,             \* a frame of another sender was received
  added, addedLost,    \* the sums of all that was added to each counter
  overlapped           \* two workers were adding at once

sender   == <<next, missing, skipped>>
numbers  == <<seq, prev_seq>>
counters == <<total_packets, total_packets_lost, added, addedLost>>
vars     == <<sender, numbers, pc, reg, counters, received, foreign, overlapped>>

Seq12 == 0 .. SeqMod - 1

Abs(i) == IF i < 0 THEN -i ELSE i

(* A mistake to detect: the number after the last is SeqMod, not 0.        *)
SuccNoWrap(n) == n + 1

(* sendPacket: current_sequence_number is incremented and wraps.           *)
Succ(n) == IF n + 1 = SeqMod THEN 0 ELSE n + 1

Init ==
  /\ next = [s \in Streams |-> 0]
  /\ missing = [s \in Streams |-> 0] /\ skipped = [s \in Streams |-> 0]
  /\ seq = [s \in Streams |-> 0] /\ prev_seq = [s \in Streams |-> 0]
  /\ pc = [s \in Streams |-> "poll"] /\ reg = [s \in Streams |-> 0]
  /\ total_packets = 0 /\ total_packets_lost = 0
  /\ received = 0 /\ foreign = FALSE
  /\ added = 0 /\ addedLost = 0 /\ overlapped = FALSE

-----------------------------------------------------------------------------
(* The network loses the packet the sender sends.                          *)
Drop(s) ==
  /\ missing[s] < MaxMissing
  /\ next' = [next EXCEPT ![s] = Succ(@)]
  /\ missing' = [missing EXCEPT ![s] = @ + 1]
  /\ UNCHANGED <<skipped, numbers, pc, reg, counters, received, foreign,
                 overlapped>>

(* The worker takes a frame with sequence number q and reads total_packets. *)
TakeFrame(s, q) ==
  /\ pc[s] = "poll" /\ received < MaxPackets
  /\ prev_seq' = [prev_seq EXCEPT ![s] = seq[s]]
  /\ seq' = [seq EXCEPT ![s] = q]
  /\ reg' = [reg EXCEPT ![s] = total_packets]
  /\ pc' = [pc EXCEPT ![s] = "count"]
  /\ received' = received + 1
  /\ overlapped' = (overlapped \/ \E u \in Streams \ {s} : pc[u] # "poll")
  /\ UNCHANGED counters

Receive(s) ==
  /\ TakeFrame(s, next[s])
  /\ next' = [next EXCEPT ![s] = Succ(@)]
  /\ skipped' = [skipped EXCEPT ![s] = missing[s]]
  /\ missing' = [missing EXCEPT ![s] = 0]
  /\ UNCHANGED foreign

(* A frame that is not of the stream is counted before it is filtered out; *)
(* any number may stand where a HRZR packet has its sequence number.       *)
ReceiveForeign(s) ==
  /\ Foreign
  /\ \E q \in Seq12 : TakeFrame(s, q)
  /\ foreign' = TRUE
  /\ UNCHANGED sender

-----------------------------------------------------------------------------
(* Mistakes to detect: no exception for number 0, with which the stream    *)
(* starts; a test that wants two packets missing.                          *)
GapAtZero(s) == seq[s] # prev_seq[s] + 1 /\ prev_seq[s] # SeqMod - 1
GapOfTwo(s) == seq[s] > prev_seq[s] + 2 /\ prev_seq[s] # SeqMod - 1

(* The test for a gap before the current frame.                            *)
Gap(s) ==
  /\ seq[s] # prev_seq[s] + 1
  /\ prev_seq[s] # SeqMod - 1
  /\ seq[s] # 0

Delta(s) == Abs(seq[s] - prev_seq[s])

(* A step of the worker's additions, which touches the counters only.      *)
Goto(s, from, to) ==
  /\ pc[s] = from /\ pc' = [pc EXCEPT ![s] = to]
  /\ UNCHANGED <<sender, numbers, received, foreign, overlapped>>

(* total_packets++ is written back.                                        *)
Count(s) ==
  /\ Goto(s, "count", IF Gap(s) THEN "readLost" ELSE "poll")
  /\ total_packets' = reg[s] + 1 /\ added' = added + 1
  /\ UNCHANGED <<reg, total_packets_lost, addedLost>>

(* A mistake to detect: the other counter is read.                         *)
ReadLostWrong(s) ==
  /\ Goto(s, "readLost", "addLost")
  /\ reg' = [reg EXCEPT ![s] = total_packets]
  /\ UNCHANGED counters

(* total_packets_lost += ...                                               *)
ReadLost(s) ==
  /\ Goto(s, "readLost", "addLost")
  /\ reg' = [reg EXCEPT ![s] = total_packets_lost]
  /\ UNCHANGED counters

AddLost(s) ==
  /\ Goto(s, "addLost", "readTotal")
  /\ total_packets_lost' = reg[s] + Delta(s) /\ addedLost' = addedLost + Delta(s)
  /\ UNCHANGED <<reg, total_packets, added>>

(* total_packets += ...                                                    *)
ReadTotal(s) ==
  /\ Goto(s, "readTotal", "addTotal")
  /\ reg' = [reg EXCEPT ![s] = total_packets]
  /\ UNCHANGED counters

(* Mistakes to detect: what is missing is not added to the total; it is    *)
(* added without the one that total_packets++ added before.                *)
AddTotalForgotten(s) == Goto(s, "addTotal", "print") /\ UNCHANGED <<reg, counters>>
AddTotalLess(s) ==
  /\ Goto(s, "addTotal", "print")
  /\ total_packets' = reg[s] + Delta(s) - 1 /\ added' = added + Delta(s) - 1
  /\ UNCHANGED <<reg, total_packets_lost, addedLost>>

AddTotal(s) ==
  /\ Goto(s, "addTotal", "print")
  /\ total_packets' = reg[s] + Delta(s) /\ added' = added + Delta(s)
  /\ UNCHANGED <<reg, total_packets_lost, addedLost>>

(* The loss rate, total_packets_lost / total_packets, is printed.          *)
PrintRate(s) == Goto(s, "print", "poll") /\ UNCHANGED <<reg, counters>>

Next ==
  \E s \in Streams :
    \/ Drop(s) \/ Receive(s) \/ ReceiveForeign(s)
    \/ Count(s) \/ ReadLost(s) \/ AddLost(s) \/ ReadTotal(s) \/ AddTotal(s)
    \/ PrintRate(s)

Spec == Init /\ [][Next]_vars

-----------------------------------------------------------------------------
Idle == \A s \in Streams : pc[s] = "poll"

(* Every variable has its type; sequence numbers stay below the wrap.      *)
TypeOK ==
  /\ next \in [Streams -> Seq12]
  /\ missing \in [Streams -> Nat] /\ skipped \in [Streams -> Nat]
  /\ seq \in [Streams -> Seq12] /\ prev_seq \in [Streams -> Seq12]
  /\ pc \in [Streams -> {"poll", "count", "readLost", "addLost", "readTotal",
                         "addTotal", "print"}]
  /\ reg \in [Streams -> Nat]
  /\ total_packets \in Nat /\ total_packets_lost \in Nat
  /\ received \in Nat /\ foreign \in BOOLEAN
  /\ added \in Nat /\ addedLost \in Nat /\ overlapped \in BOOLEAN

(* No false alarm: as long as no foreign frame was counted, the worker     *)
(* sees a gap only where packets of the stream really are missing, at the  *)
(* wrap of the sequence number and at the start of the stream as well.     *)
GapsAreReal ==
  ~foreign => \A s \in Streams : pc[s] # "poll" /\ Gap(s) => skipped[s] > 0

(* Losses that do not touch the wrap are seen, and then |seq - prev_seq|,  *)
(* what is added to the counters, is one more than what was lost.          *)
InnerLossIsSeen ==
  ~foreign =>
    \A s \in Streams :
      /\ pc[s] = "count" /\ 0 < skipped[s] /\ skipped[s] < SeqMod - 1
      /\ 0 < prev_seq[s] /\ prev_seq[s] < seq[s]
      => Gap(s) /\ Delta(s) = skipped[s] + 1

(* As long as no two workers were adding at once, the counters add up      *)
(* between frames: the total is what was received and taken for lost.      *)
TotalIsSum ==
  ~overlapped /\ Idle => total_packets = received + total_packets_lost

(* ... and the rate printed is at most 1.                                  *)
RateAtMostOne ==
  ~overlapped =>
    \A s \in Streams : pc[s] = "print" => total_packets_lost <= total_packets

(* With several workers an addition may be lost, but total_packets never   *)
(* exceeds what was added to it, nor does total_packets_lost.              *)
OnlyLosesUpdates ==
  total_packets <= added /\ total_packets_lost <= addedLost
=============================================================================
