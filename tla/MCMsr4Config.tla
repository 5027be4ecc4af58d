---------------------------- MODULE MCMsr4Config ----------------------------
(* Small instances of Msr4Config: two values, the default and another, and *)
(* -1, which stands for what a file does not give.                         *)
EXTENDS Msr4Config, TLC

CONSTANTS x, y

MCTwo == {x, y}
MCOne == {x}
Symmetry == Permutations(MCTwo)
MCChannels == {1}
MCValues == {-1, 0, 1}
MCInputs == {0, 1}
MCIntMax == 1

Streaming == [sat |-> 1, down |-> 1, band |-> 1]

(* A good file; one without two members, the protocol among them; one with *)
(* a frequency too large for an int.  NoFile has no channel.               *)
Whole == [RxChannelSettings |-> [channel |-> 1], StreamingSettings |-> Streaming,
          ChannelSettings |-> [port |-> 1, dest |-> 1, proto |-> 1]]
Partial == [Whole EXCEPT !.StreamingSettings = [sat |-> 1, band |-> 1],
                         !.ChannelSettings = [port |-> 1, dest |-> 1]]
Wide == [Whole EXCEPT !.StreamingSettings.sat = 2]

MCJsonFiles == {Whole, Partial, Wide}
=============================================================================
