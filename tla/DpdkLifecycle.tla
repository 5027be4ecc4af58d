--------------------------- MODULE DpdkLifecycle ---------------------------
(***************************************************************************)
(* The life of a DpdkSource in one process: IqClient::SetupDpdkSource      *)
(* (the constructor, on the caller's thread), the worker of each stream    *)
(* (RXThread or dumpThread, on the lcore streams[i].l_cores.second) and    *)
(* IqClient::TeardownDpdkSource (the destructor).  What the workers do     *)
(* with packets is DpdkStream's; here they run, look at quit, and close    *)
(* their port.                                                             *)
(*                                                                         *)
(* A failure during the set-up ends the process (rte_exit).  A norm of 0   *)
(* makes the constructor throw before it has touched anything, which       *)
(* leaves the state as it is.                                              *)
(***************************************************************************)
EXTENDS Naturals

CONSTANTS
  NumStreams,   \* num_streams
  Lcores,       \* logical cores
  Worker,       \* l_cores.second of each stream
  WaitedLcore   \* the lcore stopRXThread waits for: 1

Streams == 0 .. NumStreams - 1

ASSUME LifecycleAssumption ==
  /\ NumStreams \in Nat
  /\ Worker \in [Streams -> Lcores]

VARIABLES
  process,       \* "run", "exited" (rte_exit) or "crashed"
  eal,           \* the DPDK environment: "off", "up" or "cleaned"
  main,          \* the caller's thread: "idle" or a place in Setup/Teardown
  i,             \* its loop variable over the streams
  object,        \* the DpdkSource: "none", "live" or "freed"
  sample_source, \* IqClient's pointer: "unset", "live" or "dangling"
  quit,
  dump_mode,     \* what SetDumpMode has left when the constructor is called
  port,          \* of each stream: "down", "started" or "closed"
  ring,          \* of each stream: "none", "ok" or "null"
  worker         \* of each stream: "none", "run", "closing" or "done"

vars == <<process, eal, main, i, object, sample_source, quit, dump_mode, port,
          ring, worker>>

Init ==
  /\ process = "run" /\ eal = "off"
  /\ main = "idle" /\ i = 0
  /\ object = "none" /\ sample_source = "unset" /\ quit = FALSE
  /\ dump_mode \in BOOLEAN
  /\ port = [s \in Streams |-> "down"] /\ ring = [s \in Streams |-> "none"]
  /\ worker = [s \in Streams |-> "none"]

Active(s) == worker[s] \in {"run", "closing"}

-----------------------------------------------------------------------------
(* SetupDpdkSource and the constructor.                                    *)

(* `new DpdkSource'.  A second object never gets past rte_eal_init: the    *)
(* state here stays that of the first.                                     *)
Setup ==
  /\ process = "run" /\ main = "idle"
  /\ main' = "eal"
  /\ object' = IF object = "none" THEN "live" ELSE object
  /\ UNCHANGED <<process, eal, i, sample_source, quit, port, ring, worker,
                 dump_mode>>

(* Any call during the set-up may fail, and rte_eal_init always does from  *)
(* the second time on: rte_exit.                                           *)
SetupFails ==
  /\ process = "run" /\ main \in {"eal", "pools", "ports"}
  /\ process' = "exited"
  /\ UNCHANGED <<eal, main, i, object, sample_source, quit, port, ring,
                 worker, dump_mode>>

SetupEal ==
  /\ process = "run" /\ main = "eal" /\ eal = "off"
  /\ eal' = "up" /\ main' = "pools"
  /\ UNCHANGED <<process, i, object, sample_source, quit, port, ring, worker,
                 dump_mode>>

(* checkAvailablePorts and allocateMemPool.                                *)
AllocatePools ==
  /\ process = "run" /\ main = "pools"
  /\ main' = "ports" /\ i' = 0
  /\ UNCHANGED <<process, eal, object, sample_source, quit, port, ring,
                 worker, dump_mode>>

(* A mistake to detect: a port too many is set up.                         *)
SetupPortTooMany ==
  /\ process = "run" /\ main = "ports" /\ i <= NumStreams
  /\ port' = [s \in Streams \cup {i} |-> IF s = i THEN "started" ELSE port[s]]
  /\ \E r \in {"ok", "null"} :
       ring' = [s \in Streams \cup {i} |-> IF s = i THEN r ELSE ring[s]]
  /\ i' = i + 1
  /\ UNCHANGED <<process, eal, main, object, sample_source, quit, worker,
                 dump_mode>>

(* setupPort(i), then the ring.  rte_ring_create returns NULL when it      *)
(* fails; nobody looks.                                                    *)
SetupPort ==
  /\ process = "run" /\ main = "ports" /\ i < NumStreams
  /\ port' = [port EXCEPT ![i] = "started"]
  /\ \E r \in {"ok", "null"} : ring' = [ring EXCEPT ![i] = r]
  /\ i' = i + 1
  /\ UNCHANGED <<process, eal, main, object, sample_source, quit, worker,
                 dump_mode>>

(* A mistake to detect: the first stream is launched before the last port  *)
(* is set up.                                                              *)
PortsReadyEarly ==
  /\ process = "run" /\ main = "ports" /\ i + 1 >= NumStreams
  /\ main' = "launch" /\ i' = 0
  /\ UNCHANGED <<process, eal, object, sample_source, quit, port, ring,
                 worker, dump_mode>>

PortsReady ==
  /\ process = "run" /\ main = "ports" /\ i = NumStreams
  /\ main' = "launch" /\ i' = 0
  /\ UNCHANGED <<process, eal, object, sample_source, quit, port, ring,
                 worker, dump_mode>>

LcoreBusy(c) == \E s \in Streams : Worker[s] = c /\ Active(s)

(* A mistake to detect: the loop launches stream 0's worker each time.     *)
LaunchFirstOnly ==
  /\ process = "run" /\ main = "launch" /\ i < NumStreams
  /\ IF LcoreBusy(Worker[0])
       THEN UNCHANGED worker
       ELSE worker' = [worker EXCEPT ![0] = "run"]
  /\ i' = i + 1
  /\ UNCHANGED <<process, eal, main, object, sample_source, quit, port, ring,
                 dump_mode>>

(* rte_eal_remote_launch returns -EBUSY on an lcore that already runs a    *)
(* worker; the constructor does not look at the result.                    *)
Launch ==
  /\ process = "run" /\ main = "launch" /\ i < NumStreams
  /\ IF LcoreBusy(Worker[i])
       THEN UNCHANGED worker
       ELSE worker' = [worker EXCEPT ![i] = "run"]
  /\ i' = i + 1
  /\ UNCHANGED <<process, eal, main, object, sample_source, quit, port, ring,
                 dump_mode>>

SetupDone ==
  /\ process = "run" /\ main = "launch" /\ i = NumStreams
  /\ main' = "idle" /\ sample_source' = "live"
  /\ UNCHANGED <<process, eal, i, object, quit, port, ring, worker,
                 dump_mode>>

-----------------------------------------------------------------------------
(* TeardownDpdkSource and the destructor.                                  *)

(* `delete sample_source' of a live source: stopRXThread sets quit ...     *)
Teardown ==
  /\ process = "run" /\ main = "idle" /\ sample_source = "live"
  /\ quit' = TRUE /\ main' = "wait"
  /\ UNCHANGED <<process, eal, i, object, sample_source, port, ring, worker,
                 dump_mode>>

(* ... and of an uninitialized or dangling pointer, which IqClient keeps.  *)
TeardownInvalid ==
  /\ process = "run" /\ main = "idle" /\ sample_source # "live"
  /\ process' = "crashed"
  /\ UNCHANGED <<eal, main, i, object, sample_source, quit, port, ring,
                 worker, dump_mode>>

(* A mistake to detect: stopRXThread does not wait.                        *)
DoNotWait ==
  /\ process = "run" /\ main = "wait"
  /\ main' = "cleanup"
  /\ UNCHANGED <<process, eal, i, object, sample_source, quit, port, ring,
                 worker, dump_mode>>

(* rte_eal_wait_lcore(1) returns at once when nothing runs there.          *)
WaitLcore ==
  /\ process = "run" /\ main = "wait" /\ ~LcoreBusy(WaitedLcore)
  /\ main' = "cleanup"
  /\ UNCHANGED <<process, eal, i, object, sample_source, quit, port, ring,
                 worker, dump_mode>>

Cleanup ==
  /\ process = "run" /\ main = "cleanup"
  /\ eal' = "cleaned" /\ main' = "delete"
  /\ UNCHANGED <<process, i, object, sample_source, quit, port, ring, worker,
                 dump_mode>>

Delete ==
  /\ process = "run" /\ main = "delete"
  /\ object' = "freed" /\ sample_source' = "dangling" /\ main' = "idle"
  /\ UNCHANGED <<process, eal, i, quit, port, ring, worker, dump_mode>>

-----------------------------------------------------------------------------
(* The worker of stream s.                                                 *)

(* A mistake to detect: the worker looks at quit before its loop only.     *)
SeeQuitEarly(s) ==
  /\ process = "run" /\ worker[s] = "run" /\ main = "launch"
  /\ object = "live" => quit
  /\ worker' = [worker EXCEPT ![s] = "closing"]
  /\ UNCHANGED <<process, eal, main, i, object, sample_source, quit, port,
                 ring, dump_mode>>

(* shouldQuit() is true.  In a freed object it may be anything.            *)
SeeQuit(s) ==
  /\ process = "run" /\ worker[s] = "run"
  /\ object = "live" => quit
  /\ worker' = [worker EXCEPT ![s] = "closing"]
  /\ UNCHANGED <<process, eal, main, i, object, sample_source, quit, port,
                 ring, dump_mode>>

(* A sample packet is put on a ring that does not exist.                   *)
UseNullRing(s) ==
  /\ process = "run" /\ worker[s] = "run" /\ ring[s] = "null" /\ ~dump_mode
  /\ process' = "crashed"
  /\ UNCHANGED <<eal, main, i, object, sample_source, quit, port, ring,
                 worker, dump_mode>>

(* dumpThread has written its file: it stops the workers of all streams.   *)
DumpDone(s) ==
  /\ process = "run" /\ worker[s] = "run" /\ dump_mode /\ object = "live"
  /\ quit' = TRUE
  /\ UNCHANGED <<process, eal, main, i, object, sample_source, port, ring,
                 worker, dump_mode>>

ClosePort(s) ==
  /\ process = "run" /\ worker[s] = "closing"
  /\ port' = [port EXCEPT ![s] = "closed"]
  /\ worker' = [worker EXCEPT ![s] = "done"]
  /\ UNCHANGED <<process, eal, main, i, object, sample_source, quit, ring,
                 dump_mode>>

-----------------------------------------------------------------------------
MainStep ==
  \/ SetupFails \/ SetupEal \/ AllocatePools \/ SetupPort \/ PortsReady
  \/ Launch \/ SetupDone \/ WaitLcore \/ Cleanup \/ Delete

WorkerStep(s) == SeeQuit(s) \/ UseNullRing(s) \/ DumpDone(s) \/ ClosePort(s)

Next ==
  \/ Setup \/ Teardown \/ TeardownInvalid \/ MainStep
  \/ \E s \in Streams : WorkerStep(s)

Spec == Init /\ [][Next]_vars

(* A call goes on to its return; a worker whose object still exists reads  *)
(* quit again and again, and closes its port once it has seen it.  Nobody  *)
(* need call anything.                                                     *)
FairSpec ==
  /\ Spec /\ WF_vars(MainStep)
  /\ \A s \in Streams : /\ WF_vars(object = "live" /\ SeeQuit(s))
                        /\ WF_vars(ClosePort(s))

-----------------------------------------------------------------------------
(* Every variable has its type.                                            *)
TypeOK ==
  /\ process \in {"run", "exited", "crashed"} /\ eal \in {"off", "up", "cleaned"}
  /\ main \in {"idle", "eal", "pools", "ports", "launch", "wait", "cleanup",
               "delete"}
  /\ i \in 0 .. NumStreams
  /\ object \in {"none", "live", "freed"}
  /\ sample_source \in {"unset", "live", "dangling"}
  /\ quit \in BOOLEAN /\ dump_mode \in BOOLEAN
  /\ port \in [Streams -> {"down", "started", "closed"}]
  /\ ring \in [Streams -> {"none", "ok", "null"}]
  /\ worker \in [Streams -> {"none", "run", "closing", "done"}]

(* No worker starts before all ports are started and all rings were asked  *)
(* for, as the comment at dpdkSource.cc:51 demands.                        *)
SetUpBeforeLaunch ==
  \A s \in Streams :
    worker[s] # "none" =>
      \A u \in Streams : port[u] # "down" /\ ring[u] # "none"

(* A worker that runs on the lcore stopRXThread waits for has ended before *)
(* the environment is cleaned up and the object freed, and nothing starts  *)
(* it again: it never uses either afterwards.                              *)
WaitedWorkerGone ==
  \A s \in Streams :
    Worker[s] = WaitedLcore /\ Active(s) => eal = "up" /\ object = "live"

(* When SetupDpdkSource has returned, a stream has no worker only if its   *)
(* lcore was given to another stream as well.                              *)
EveryStreamServed ==
  sample_source = "live" =>
    \A s \in Streams :
      worker[s] # "none" \/ \E u \in Streams \ {s} : Worker[u] = Worker[s]

(* TeardownDpdkSource returns.                                             *)
TeardownReturns == main = "wait" ~> (main = "idle" \/ process # "run")

(* Once quit is set, by TeardownDpdkSource or by a finished dump, every    *)
(* worker on the waited lcore comes to its end.                            *)
WaitedWorkersStop ==
  \A s \in Streams :
    quit /\ Worker[s] = WaitedLcore /\ Active(s)
      ~> (worker[s] = "done" \/ process # "run")

(* What README.md:129-133 says: after TeardownDpdkSource the memory may be *)
(* freed, so no worker uses the object or the environment any more.        *)
NoWorkerAfterTeardown ==
  object = "freed" \/ eal = "cleaned" => \A s \in Streams : ~Active(s)
=============================================================================
