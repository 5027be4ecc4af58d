------------------------ MODULE DpdkLifecycleProofs ------------------------
(***************************************************************************)
(* Proofs about DpdkLifecycle for any number of streams and any assignment *)
(* of workers to lcores.                                                   *)
(***************************************************************************)
EXTENDS DpdkLifecycle, TLAPS

(* How far each phase of a set-up or teardown has brought the environment, *)
(* the object and IqClient's pointer.                                      *)
Phases ==
  /\ eal = "off" => /\ main \in {"idle", "eal"} /\ sample_source = "unset"
                    /\ \A s \in Streams : worker[s] = "none"
  /\ object = "none" => eal = "off" /\ main = "idle"
  /\ main \in {"pools", "ports", "launch"} =>
       eal = "up" /\ object = "live" /\ sample_source = "unset"
  /\ main \in {"wait", "cleanup"} => eal = "up" /\ object = "live"
  /\ main = "delete" => eal = "cleaned" /\ object = "live"
  /\ object = "freed" => eal = "cleaned"
  /\ eal = "cleaned" => main \in {"idle", "eal", "delete"}
  /\ sample_source = "live" => object = "live" /\ (eal = "up" \/ main = "delete")

(* How far the loops over the streams have come.                           *)
Loops ==
  /\ main \in {"pools", "ports"} => \A s \in Streams : worker[s] = "none"
  /\ main = "ports" => \A s \in Streams :
                         s < i => port[s] # "down" /\ ring[s] # "none"
  /\ main = "launch" => \A s \in Streams :
                          /\ port[s] # "down" /\ ring[s] # "none"
                          /\ s >= i => worker[s] = "none"
                          /\ s < i => \/ worker[s] # "none"
                                      \/ \E u \in Streams \ {s} :
                                           Worker[u] = Worker[s]

WaitedGone ==
  main \in {"cleanup", "delete"} \/ eal = "cleaned" => ~LcoreBusy(WaitedLcore)

LInv ==
  /\ TypeOK /\ Phases /\ Loops /\ WaitedGone
  /\ SetUpBeforeLaunch /\ EveryStreamServed

LEMMA InitLInv == Init => LInv
<1> SUFFICES ASSUME Init PROVE LInv
  OBVIOUS
<1> USE DEF Init
<1>1. TypeOK
  <2>1. i \in 0 .. NumStreams
    BY LifecycleAssumption
  <2>2. /\ port \in [Streams -> {"down", "started", "closed"}]
        /\ ring \in [Streams -> {"none", "ok", "null"}]
        /\ worker \in [Streams -> {"none", "run", "closing", "done"}]
    OBVIOUS
  <2> QED
    BY <2>1, <2>2 DEF TypeOK
<1>2. Phases /\ Loops
  BY DEF Phases, Loops
<1>3. WaitedGone /\ SetUpBeforeLaunch /\ EveryStreamServed
  BY DEF WaitedGone, SetUpBeforeLaunch, EveryStreamServed
<1> QED
  BY <1>1, <1>2, <1>3 DEF LInv

LEMMA SetupStep ==
  ASSUME LInv,
         Setup \/ SetupFails \/ SetupEal \/ AllocatePools \/ SetupPort
         \/ PortsReady
  PROVE  LInv'
<1> USE LifecycleAssumption DEF LInv, Streams
<1>1. CASE Setup \/ SetupFails
  BY <1>1 DEF Setup, SetupFails, TypeOK, Phases, Loops, WaitedGone, LcoreBusy,
              Active, SetUpBeforeLaunch, EveryStreamServed
<1>2. CASE SetupEal \/ AllocatePools
  BY <1>2 DEF SetupEal, AllocatePools, TypeOK, Phases, Loops, WaitedGone,
              LcoreBusy, Active, SetUpBeforeLaunch, EveryStreamServed
<1>3. CASE SetupPort
  BY <1>3 DEF SetupPort, TypeOK, Phases, Loops, WaitedGone, LcoreBusy, Active,
              SetUpBeforeLaunch, EveryStreamServed
<1>4. CASE PortsReady
  BY <1>4 DEF PortsReady, TypeOK, Phases, Loops, WaitedGone, LcoreBusy, Active,
              SetUpBeforeLaunch, EveryStreamServed
<1> QED
  BY <1>1, <1>2, <1>3, <1>4

(* Every port and ring exists by now; an lcore is busy only with another   *)
(* stream's worker.                                                        *)
LEMMA LaunchStep == ASSUME LInv, Launch \/ SetupDone PROVE LInv'
<1> USE LifecycleAssumption DEF LInv, Streams
<1>1. CASE Launch
  <2>1. TypeOK' /\ Phases' /\ WaitedGone'
    BY <1>1 DEF Launch, TypeOK, Phases, WaitedGone
  <2>2. Loops'
    BY <1>1 DEF Launch, TypeOK, Loops, LcoreBusy, Active
  <2>3. SetUpBeforeLaunch' /\ EveryStreamServed'
    BY <1>1 DEF Launch, TypeOK, Phases, Loops, SetUpBeforeLaunch,
                EveryStreamServed
  <2> QED
    BY <2>1, <2>2, <2>3
<1>2. CASE SetupDone
  BY <1>2 DEF SetupDone, TypeOK, Phases, Loops, WaitedGone, LcoreBusy, Active,
              SetUpBeforeLaunch, EveryStreamServed
<1> QED
  BY <1>1, <1>2

LEMMA TeardownStep ==
  ASSUME LInv,
         Teardown \/ TeardownInvalid \/ WaitLcore \/ Cleanup \/ Delete
  PROVE  LInv'
<1> USE DEF LInv
<1>1. CASE Teardown \/ TeardownInvalid
  BY <1>1 DEF Teardown, TeardownInvalid, TypeOK, Phases, Loops, WaitedGone,
              LcoreBusy, Active, SetUpBeforeLaunch, EveryStreamServed
<1>2. CASE WaitLcore \/ Cleanup
  BY <1>2 DEF WaitLcore, Cleanup, TypeOK, Phases, Loops, WaitedGone,
              LcoreBusy, Active, SetUpBeforeLaunch, EveryStreamServed
<1>3. CASE Delete
  BY <1>3 DEF Delete, TypeOK, Phases, Loops, WaitedGone, LcoreBusy, Active,
              SetUpBeforeLaunch, EveryStreamServed
<1> QED
  BY <1>1, <1>2, <1>3

LEMMA WorkerStepInv == ASSUME LInv, NEW s \in Streams, WorkerStep(s) PROVE LInv'
<1> USE DEF LInv, WorkerStep
<1>1. CASE SeeQuit(s)
  BY <1>1 DEF SeeQuit, TypeOK, Phases, Loops, WaitedGone, LcoreBusy, Active,
              SetUpBeforeLaunch, EveryStreamServed
<1>2. CASE UseNullRing(s)
  BY <1>2 DEF UseNullRing, TypeOK, Phases, Loops, WaitedGone, LcoreBusy,
              Active, SetUpBeforeLaunch, EveryStreamServed
<1>3. CASE DumpDone(s)
  BY <1>3 DEF DumpDone, TypeOK, Phases, Loops, WaitedGone, LcoreBusy, Active,
              SetUpBeforeLaunch, EveryStreamServed
<1>4. CASE ClosePort(s)
  BY <1>4 DEF ClosePort, TypeOK, Phases, Loops, WaitedGone, LcoreBusy, Active,
              SetUpBeforeLaunch, EveryStreamServed
<1> QED
  BY <1>1, <1>2, <1>3, <1>4

LEMMA NextLInv == LInv /\ [Next]_vars => LInv'
<1> SUFFICES ASSUME LInv, [Next]_vars PROVE LInv'
  OBVIOUS
<1>1. CASE UNCHANGED vars
  BY <1>1 DEF vars, LInv, TypeOK, Phases, Loops, WaitedGone, LcoreBusy, Active,
              SetUpBeforeLaunch, EveryStreamServed
<1>2. CASE Next
  BY <1>2, SetupStep, LaunchStep, TeardownStep, WorkerStepInv DEF Next, MainStep
<1> QED
  BY <1>1, <1>2

THEOREM LifecycleInvariance == Spec => []LInv
BY InitLInv, NextLInv, PTL DEF Spec

(* Every variable keeps its type.                                          *)
THEOREM LifecycleTyping == Spec => []TypeOK
<1>1. LInv => TypeOK
  BY DEF LInv
<1> QED
  BY <1>1, LifecycleInvariance, PTL

(* All ports, pools and rings are dealt with before the first launch.      *)
THEOREM LaunchOrder == Spec => []SetUpBeforeLaunch
<1>1. LInv => SetUpBeforeLaunch
  BY DEF LInv
<1> QED
  BY <1>1, LifecycleInvariance, PTL

(* A worker on the waited lcore never outlives the environment or the      *)
(* object.                                                                 *)
THEOREM WaitedWorkerEnds == Spec => []WaitedWorkerGone
<1>1. LInv => WaitedWorkerGone
  BY DEF LInv, TypeOK, Phases, WaitedGone, WaitedWorkerGone, LcoreBusy, Active
<1> QED
  BY <1>1, LifecycleInvariance, PTL

(* A stream without a worker shares its lcore.                             *)
THEOREM StreamsServed == Spec => []EveryStreamServed
<1>1. LInv => EveryStreamServed
  BY DEF LInv
<1> QED
  BY <1>1, LifecycleInvariance, PTL

-----------------------------------------------------------------------------
(* How the assignment of workers to lcores decides what may be relied on.  *)

(* If every stream has the lcore that stopRXThread waits for, no worker is *)
(* left when TeardownDpdkSource has cleaned up the environment or freed    *)
(* the object, as README.md:129-133 has it.                                *)
THEOREM CleanTeardown ==
  ASSUME \A s \in Streams : Worker[s] = WaitedLcore
  PROVE  Spec => []NoWorkerAfterTeardown
<1>1. LInv => NoWorkerAfterTeardown
  BY DEF LInv, Phases, WaitedGone, LcoreBusy, NoWorkerAfterTeardown
<1> QED
  BY <1>1, LifecycleInvariance, PTL

(* If no two streams share an lcore, every stream has got its worker when  *)
(* SetupDpdkSource returns: no launch fails, though none is checked.       *)
AllServed == sample_source = "live" => \A s \in Streams : worker[s] # "none"

THEOREM OwnLcores ==
  ASSUME \A s, u \in Streams : Worker[s] = Worker[u] => s = u
  PROVE  Spec => []AllServed
<1>1. EveryStreamServed => AllServed
  BY DEF EveryStreamServed, AllServed
<1> QED
  BY <1>1, StreamsServed, PTL

(* A worker is started once in the life of the process and then only comes *)
(* nearer to its end, in whatever order set-ups and teardowns are called.  *)
WorkerGoesOn(s) ==
  worker[s] # "none" /\ worker'[s] # worker[s] =>
    \/ worker[s] = "run" /\ worker'[s] = "closing" /\ (quit \/ object # "live")
    \/ worker[s] = "closing" /\ worker'[s] = "done" /\ port'[s] = "closed"

THEOREM WorkersRunOnce == Spec => [][\A s \in Streams : WorkerGoesOn(s)]_vars
<1>1. ASSUME LInv, Next, NEW s \in Streams PROVE WorkerGoesOn(s)
  <2>1. CASE Launch
    <3>1. i \in Streams /\ worker[i] = "none"
      BY <1>1, <2>1, LifecycleAssumption DEF Launch, LInv, TypeOK, Loops, Streams
    <3> QED
      BY <1>1, <2>1, <3>1 DEF Launch, LInv, TypeOK, WorkerGoesOn
  <2>2. CASE UNCHANGED worker
    BY <2>2 DEF WorkerGoesOn
  <2>3. ASSUME NEW u \in Streams, SeeQuit(u) \/ ClosePort(u)
        PROVE  WorkerGoesOn(s)
    BY <1>1, <2>3 DEF SeeQuit, ClosePort, LInv, TypeOK, WorkerGoesOn
  <2> QED
    BY <1>1, <2>1, <2>2, <2>3
    DEF Next, MainStep, WorkerStep, Setup, Teardown, TeardownInvalid, SetupFails,
        SetupEal, AllocatePools, SetupPort, PortsReady, SetupDone, WaitLcore,
        Cleanup, Delete, UseNullRing, DumpDone
<1>2. LInv /\ [Next]_vars => [\A s \in Streams : WorkerGoesOn(s)]_vars
  BY <1>1
<1> QED
  BY <1>2, LifecycleInvariance, PTL DEF Spec
====================================================================
