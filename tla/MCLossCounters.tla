--------------------------- MODULE MCLossCounters ---------------------------
(* Small instances of LossCounters.                                        *)
EXTENDS LossCounters, TLC

CONSTANTS a, b

MCTwoStreams == {a, b}
Symmetry == Permutations(MCTwoStreams)
=============================================================================
