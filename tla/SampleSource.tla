---------------------------- MODULE SampleSource ----------------------------
(***************************************************************************)
(* What an ILinuxSource promises the caller of getSamples, whatever        *)
(* happens behind it: packets are numbered as they arrive; a packet may be *)
(* lost or thrown away, but the packets that are parsed are parsed once    *)
(* each, in the order of their arrival and never before it.                *)
(*                                                                         *)
(* The sources are not made for two threads that enter them at once.  From *)
(* then on the promise is void.                                            *)
(***************************************************************************)
EXTENDS Naturals

VARIABLES
  arrived,    \* packets that have arrived
  delivered,  \* the packet parsed last; 0 before the first
  void        \* two threads have been inside the source at once

vars == <<arrived, delivered, void>>

Init == arrived = 0 /\ delivered = 0 /\ ~void

Receive == ~void /\ arrived' = arrived + 1 /\ UNCHANGED <<delivered, void>>

(* The next packet parsed is any one that arrived after the last.          *)
Deliver ==
  /\ ~void
  /\ \E n \in delivered + 1 .. arrived : delivered' = n
  /\ UNCHANGED <<arrived, void>>

(* Nothing is said of what happens when threads meet, and after it.        *)
Void == void' = TRUE

Next == Receive \/ Deliver \/ Void

Spec == Init /\ [][Next]_vars
=============================================================================
