------------------------------ MODULE JsonFile ------------------------------
(***************************************************************************)
(* What JsonParser makes of a JSON file: a function from the sections the  *)
(* file has to functions from the members they have to values.  Strings    *)
(* are values like numbers, 0 being the empty one.  A number in the place  *)
(* of an integer that asInt does not convert lies beyond IntMax; so does   *)
(* whatever else it refuses.                                               *)
(***************************************************************************)
EXTENDS Integers

CONSTANT IntMax  \* the largest int: 2^31 - 1

ASSUME IntMaxAssumption == IntMax \in Nat

(* The section of each member.                                             *)
Section ==
  [channel |-> "RxChannelSettings",
   sat |-> "StreamingSettings", down |-> "StreamingSettings",
   band |-> "StreamingSettings",
   port |-> "ChannelSettings", dest |-> "ChannelSettings",
   proto |-> "ChannelSettings"]

Integral == {"channel", "sat", "down", "band", "port"}

(* A file that cannot be opened.  Of one with an error in it the part      *)
(* before the error is taken.                                              *)
NoFile == [s \in {} |-> 0]

HasSection(file, m) == Section[m] \in DOMAIN file
Gives(file, m) == HasSection(file, m) /\ m \in DOMAIN file[Section[m]]

(* asInt throws for what does not fit.                                     *)
Throws(file) ==
  \E m \in Integral :
    Gives(file, m) /\ file[Section[m]][m] \notin -IntMax - 1 .. IntMax

(* A member that is missing is null, converted to 0 or to the empty        *)
(* string; without its section it keeps what its struct begins with.       *)
Member(file, m) ==
  IF Gives(file, m) THEN file[Section[m]][m]
  ELSE IF ~HasSection(file, m) /\ m \in Integral THEN -1
  ELSE 0
=============================================================================
