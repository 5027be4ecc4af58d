---------------------------- MODULE MCDumpThread ----------------------------
(* Small instances of DumpThread.                                          *)
EXTENDS DumpThread

CONSTANTS a, b

MCOneStream == {a}
MCTwoStreams == {a, b}
MCMaxPackets == [s \in {a, b} |-> IF s = a THEN 3 ELSE 2]
MCMaxPacketsOne == [s \in {a} |-> 3]
=============================================================================
