----------------------------- MODULE DumpThread -----------------------------
(***************************************************************************)
(* The dump mode of DpdkSource: each stream's worker runs dumpThread       *)
(* instead of RXThread.  It keeps the header of every packet, and its      *)
(* payload or metadata, in lists of its own; with the first packet that    *)
(* comes 3 seconds after its start it writes the lists to a file, the same *)
(* for all workers, and sets quit, which all workers share.                *)
(*                                                                         *)
(* A packet is known by its place in the order of arrival at its worker.   *)
(* The packet counters are LossCounters'.  A worker writes the file line   *)
(* by line; what two workers leave that write at once is not modelled,     *)
(* only that they did (`mixed').                                           *)
(***************************************************************************)
EXTENDS Naturals, Sequences, FiniteSets

CONSTANTS
  Streams,    \* streams, one worker each
  BurstSize,  \* packets one poll asks for (32)
  Traffic,    \* types of packet that reach the ports
  MaxPackets  \* bound on the packets each worker polls, by stream

(* The packet types of HrzrHeaderParser, and control bits that name none.  *)
Kind == {"DATA", "DATA_END_OF_BURST", "FLOW_CONTROL", "COMMAND",
         "COMMAND_RESPONSE", "COMMAND_RESPONSE_ERROR", "METADATA", "UNMATCHED"}

ASSUME DumpAssumption ==
  BurstSize \in Nat \ {0} /\ Traffic \subseteq Kind /\ MaxPackets \in [Streams -> Nat]

VARIABLES
  burst,    \* packets of the current burst not yet handled, by worker
  taken,    \* packets handled
  headers,  \* hrzr_header
  payload,  \* hrzr_payload: the packets whose 366 words it holds
  meta,     \* hrzr_meta: the packets whose 10 words it holds
  late,     \* 3 seconds have passed since the worker's start
  misfit,   \* the first packet taken with neither samples nor metadata; 0
  pc,       \* "loop", "write" or "done"
  file,     \* lines of hrzr_samples.txt
  opened,   \* how often it has been opened
  mixed,    \* two workers had it open at once
  quit,
  crashed   \* an exception left dumpThread: std::terminate

lists == <<taken, headers, payload, meta, misfit>>
disk  == <<file, opened, mixed>>
vars  == <<burst, lists, late, pc, disk, quit, crashed>>

Packet == [n : Nat, type : Kind]
Line   == [stream : Streams, n : Nat, payload : Nat, meta : Nat]

Init ==
  /\ burst = [s \in Streams |-> <<>>] /\ taken = [s \in Streams |-> 0]
  /\ headers = [s \in Streams |-> <<>>]
  /\ payload = [s \in Streams |-> <<>>] /\ meta = [s \in Streams |-> <<>>]
  /\ late = [s \in Streams |-> FALSE] /\ misfit = [s \in Streams |-> 0]
  /\ pc = [s \in Streams |-> "loop"]
  /\ file = <<>> /\ opened = 0 /\ mixed = FALSE
  /\ quit = FALSE /\ crashed = FALSE

(* isValidPacketType                                                       *)
IsValidPacketType(k) == k \in {"DATA", "DATA_END_OF_BURST"}

-----------------------------------------------------------------------------
(* Three seconds pass.                                                     *)
Expire(s) ==
  /\ ~crashed /\ pc[s] # "done" /\ ~late[s]
  /\ late' = [late EXCEPT ![s] = TRUE]
  /\ UNCHANGED <<burst, lists, pc, disk, quit, crashed>>

(* stopRXThread.                                                           *)
StopRXThread ==
  /\ ~crashed /\ ~quit
  /\ quit' = TRUE
  /\ UNCHANGED <<burst, lists, late, pc, disk, crashed>>

AtTop(s) == ~crashed /\ pc[s] = "loop" /\ burst[s] = <<>>

(* A burst of k packets is polled.                                         *)
PollOf(s, k) ==
  /\ AtTop(s) /\ ~quit
  /\ taken[s] + k <= MaxPackets[s]
  /\ \E type \in [1 .. k -> Traffic] :
       burst' = [burst EXCEPT ![s] =
                  [j \in 1 .. k |-> [n |-> taken[s] + j, type |-> type[j]]]]
  /\ UNCHANGED <<lists, late, pc, disk, quit, crashed>>

(* A mistake to detect: one more than mbufs[] takes.                       *)
PollTooMany(s) == \E k \in 1 .. BurstSize + 1 : PollOf(s, k)

Poll(s) == \E k \in 1 .. BurstSize : PollOf(s, k)

-----------------------------------------------------------------------------
(* The loop over the burst.                                                *)

(* A mistake to detect: payload is kept of every other packet only.        *)
KeepEveryOther(s, p) ==
  /\ headers' = [headers EXCEPT ![s] = Append(@, p)]
  /\ IF p.type = "METADATA"
       THEN meta' = [meta EXCEPT ![s] = Append(@, p.n)] /\ UNCHANGED payload
       ELSE /\ payload' = IF p.n % 2 = 0
                           THEN [payload EXCEPT ![s] = Append(@, p.n)] ELSE payload
            /\ UNCHANGED meta

(* The lists grow by packet p: its metadata, or what stands in the place   *)
(* of samples, whatever its type.                                          *)
Keep(s, p) ==
  /\ headers' = [headers EXCEPT ![s] = Append(@, p)]
  /\ IF p.type = "METADATA"
       THEN meta' = [meta EXCEPT ![s] = Append(@, p.n)] /\ UNCHANGED payload
       ELSE payload' = [payload EXCEPT ![s] = Append(@, p.n)] /\ UNCHANGED meta

(* Opening the file empties it.                                            *)
Open(s) ==
  /\ pc' = [pc EXCEPT ![s] = "write"]
  /\ file' = <<>> /\ opened' = opened + 1
  /\ mixed' = (mixed \/ \E u \in Streams : pc[u] = "write")

(* A mistake to detect: the packet that comes after 3 seconds is left out. *)
TakeUntilLate(s) ==
  /\ ~crashed /\ pc[s] = "loop" /\ burst[s] # <<>>
  /\ burst[s][1].type # "UNMATCHED"
  /\ burst' = [burst EXCEPT ![s] = Tail(@)]
  /\ taken' = [taken EXCEPT ![s] = @ + 1]
  /\ misfit' = misfit
  /\ IF late[s] THEN Open(s) /\ UNCHANGED <<headers, payload, meta>>
     ELSE Keep(s, burst[s][1]) /\ UNCHANGED <<pc, disk>>
  /\ UNCHANGED <<late, quit, crashed>>

Take(s) ==
  /\ ~crashed /\ pc[s] = "loop" /\ burst[s] # <<>>
  /\ burst[s][1].type # "UNMATCHED"
  /\ Keep(s, burst[s][1])
  /\ burst' = [burst EXCEPT ![s] = Tail(@)]
  /\ taken' = [taken EXCEPT ![s] = @ + 1]
  /\ misfit' = IF /\ misfit[s] = 0 /\ burst[s][1].type # "METADATA"
                  /\ ~IsValidPacketType(burst[s][1].type)
                 THEN [misfit EXCEPT ![s] = burst[s][1].n] ELSE misfit
  /\ IF late[s] THEN Open(s) ELSE UNCHANGED <<pc, disk>>
  /\ UNCHANGED <<late, quit, crashed>>

(* getControlFromHeader throws InvalidHrzrHeader; nobody catches it.       *)
Throw(s) ==
  /\ ~crashed /\ pc[s] = "loop" /\ burst[s] # <<>>
  /\ burst[s][1].type = "UNMATCHED"
  /\ crashed' = TRUE
  /\ UNCHANGED <<burst, lists, late, pc, disk, quit>>

(* front() of a list; of an empty list it may be anything.                 *)
Front(s, q) == IF q # <<>> THEN {q[1]} ELSE 0 .. MaxPackets[s]
Rest(q)  == IF q # <<>> THEN Tail(q) ELSE q

(* A mistake to detect: payload is written for every header.               *)
WriteLineAlways(s) ==
  /\ ~crashed /\ pc[s] = "write" /\ headers[s] # <<>>
  /\ \E w \in Front(s, payload[s]),
        v \in IF headers[s][1].type = "METADATA" THEN Front(s, meta[s]) ELSE {0} :
       file' = Append(file, [stream |-> s, n |-> headers[s][1].n,
                             payload |-> w, meta |-> v])
  /\ payload' = [payload EXCEPT ![s] = Rest(@)]
  /\ meta' = IF headers[s][1].type = "METADATA"
               THEN [meta EXCEPT ![s] = Rest(@)] ELSE meta
  /\ headers' = [headers EXCEPT ![s] = Tail(@)]
  /\ UNCHANGED <<burst, taken, misfit, late, pc, opened, mixed, quit, crashed>>

(* A line is a header and the first payload or metadata of the lists.      *)
WriteLine(s) ==
  LET type == headers[s][1].type IN
  /\ ~crashed /\ pc[s] = "write" /\ headers[s] # <<>>
  /\ \E w \in IF IsValidPacketType(type) THEN Front(s, payload[s]) ELSE {0},
        v \in IF type = "METADATA" THEN Front(s, meta[s]) ELSE {0} :
       file' = Append(file, [stream |-> s, n |-> headers[s][1].n,
                             payload |-> w, meta |-> v])
  /\ payload' = IF IsValidPacketType(type)
                  THEN [payload EXCEPT ![s] = Rest(@)] ELSE payload
  /\ meta' = IF type = "METADATA" THEN [meta EXCEPT ![s] = Rest(@)] ELSE meta
  /\ headers' = [headers EXCEPT ![s] = Tail(@)]
  /\ UNCHANGED <<burst, taken, misfit, late, pc, opened, mixed, quit, crashed>>

(* A mistake to detect: quit is not set.                                   *)
DoneAndOn(s) ==
  /\ ~crashed /\ pc[s] = "write" /\ headers[s] = <<>>
  /\ pc' = [pc EXCEPT ![s] = "loop"]
  /\ UNCHANGED <<burst, lists, late, disk, quit, crashed>>

(* "DONE": the rest of the burst is still to be handled.                   *)
Done(s) ==
  /\ ~crashed /\ pc[s] = "write" /\ headers[s] = <<>>
  /\ quit' = TRUE
  /\ pc' = [pc EXCEPT ![s] = "loop"]
  /\ UNCHANGED <<burst, lists, late, disk, crashed>>

(* quit is seen between two bursts; the port is closed and dumpThread      *)
(* returns: what is in its lists is gone.                                  *)
ClosePort(s) ==
  /\ AtTop(s) /\ quit
  /\ pc' = [pc EXCEPT ![s] = "done"]
  /\ headers' = [headers EXCEPT ![s] = <<>>]
  /\ payload' = [payload EXCEPT ![s] = <<>>]
  /\ meta' = [meta EXCEPT ![s] = <<>>]
  /\ UNCHANGED <<burst, taken, misfit, late, disk, quit, crashed>>

-----------------------------------------------------------------------------
(* What a worker does whether or not packets arrive.                       *)
Proceed(s) == Take(s) \/ Throw(s) \/ WriteLine(s) \/ Done(s) \/ ClosePort(s)

Next ==
  \/ StopRXThread
  \/ \E s \in Streams : Expire(s) \/ Poll(s) \/ Proceed(s)

Spec == Init /\ [][Next]_vars

(* The operating system runs the workers.  Nothing makes packets arrive.   *)
FairSpec == Spec /\ \A s \in Streams : WF_vars(Proceed(s))

-----------------------------------------------------------------------------
(* Every variable has its type; a burst fits mbufs[].                      *)
TypeOK ==
  /\ burst \in [Streams -> Seq(Packet)]
  /\ \A s \in Streams : Len(burst[s]) <= BurstSize
  /\ taken \in [Streams -> Nat] /\ headers \in [Streams -> Seq(Packet)]
  /\ payload \in [Streams -> Seq(Nat)] /\ meta \in [Streams -> Seq(Nat)]
  /\ late \in [Streams -> BOOLEAN] /\ misfit \in [Streams -> Nat]
  /\ pc \in [Streams -> {"loop", "write", "done"}]
  /\ file \in Seq(Line) /\ opened \in Nat
  /\ mixed \in BOOLEAN /\ quit \in BOOLEAN /\ crashed \in BOOLEAN

Written(s) == taken[s] - Len(headers[s])

(* As long as no two workers had the file open at once, it is a run of     *)
(* consecutive packets of one worker, up to the last it has written; after *)
(* the first opening, all packets since the start of that worker.          *)
FileIsRun ==
  opened > 0 /\ ~mixed =>
    \E s \in Streams :
      /\ \A i \in DOMAIN file :
           file[i].stream = s /\ file[i].n + Len(file) = Written(s) + i
      /\ opened = 1 => Len(file) = Written(s)

Waiting(s, T) == {i \in DOMAIN headers[s] : headers[s][i].type \in T}

(* The lists never run empty while headers wait for their contents: what   *)
(* is pushed and what is popped is decided by two different tests.         *)
ListsSuffice ==
  \A s \in Streams :
    /\ Cardinality(Waiting(s, {"DATA", "DATA_END_OF_BURST"})) <= Len(payload[s])
    /\ Cardinality(Waiting(s, {"METADATA"})) = Len(meta[s])

(* A line holds the metadata of its own packet, and the payload of its own *)
(* or, once a packet with neither has come before it, of an earlier one.   *)
OwnContents ==
  \A i \in DOMAIN file :
    LET line == file[i] IN
    /\ line.meta \in {0, line.n}
    /\ \/ line.payload \in {0, line.n}
       \/ line.payload < line.n /\ misfit[line.stream] \in 1 .. line.n

(* Once a worker has begun to write the file, all workers come to their    *)
(* end.                                                                    *)
DumpStopsAll ==
  opened > 0 ~> (crashed \/ \A s \in Streams : pc[s] = "done")

(* What iqClient.h:61 says, "Dumps 3seconds of hex-encoded data to a plain *)
(* text file": when a worker that alone has opened the file has ended, the *)
(* file holds all the packets it has taken.                                *)
DumpIsKept ==
  \A s \in Streams :
    pc[s] = "done" /\ file # <<>> /\ (\A i \in DOMAIN file : file[i].stream = s)
      => Len(file) = taken[s]
=============================================================================
