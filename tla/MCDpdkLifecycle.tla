-------------------------- MODULE MCDpdkLifecycle --------------------------
(* Small instances of DpdkLifecycle.                                       *)
EXTENDS DpdkLifecycle, TLC

MCLcores == {1, 2}

(* Streams 0 and 2 share the lcore that is waited for.                     *)
MCShared == (0 :> 1) @@ (1 :> 2) @@ (2 :> 1)

(* As in the unit tests: no worker runs on lcore 1.                        *)
MCElsewhere == (0 :> 2)
=============================================================================
