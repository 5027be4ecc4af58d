---------------------------- MODULE MCUdpSource -----------------------------
(* Small instances of UdpSource.                                           *)
EXTENDS UdpSource

CONSTANTS c1, c2

MCCaller == {c1, c2}

(* Less than a packet, a packet or more.                                   *)
MCRequest == {1, 3}

(* Short, and whole.                                                       *)
MCSize == {2, 5}

(* DATA, METADATA, no packet type.                                         *)
MCControl == {0, 5, 9}

(* The transmitter's numbers run from DATA to 144, which reads as a packet *)
(* of no type, over 143, the device's over the end of twelve bits.         *)
MCStart == {<<"device", 4094>>, <<"transmitter", 15>>, <<"transmitter", 143>>}
=============================================================================
