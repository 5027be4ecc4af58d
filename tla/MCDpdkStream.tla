---------------------------- MODULE MCDpdkStream ----------------------------
(* Small instances of DpdkStream.                                          *)
EXTENDS DpdkStream, TLC

CONSTANTS m1, m2, m3

(* The pool has one buffer more than the ring has usable slots, as 4096    *)
(* buffers have against RING_SIZE - 1 = 4095.                              *)
MCMbufs == {m1, m2, m3}
Symmetry == Permutations(MCMbufs)

(* One kind for each way RXThread and getSamples treat a packet.           *)
MCTraffic == {"DATA", "METADATA", "UNMATCHED"}
MCSampleTraffic == {"DATA", "DATA_END_OF_BURST"}
MCWellFormed == {"DATA", "METADATA"}
=============================================================================
