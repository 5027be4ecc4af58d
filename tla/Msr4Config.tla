----------------------------- MODULE Msr4Config -----------------------------
(***************************************************************************)
(* Configuring the MSR4 through IqClient and GrpcClient.  The device keeps *)
(* the settings of each channel; a setter of IqClient reads a message of   *)
(* settings with one remote call, changes one field of it and writes the   *)
(* message back with another.  SetMSR4ByJson is a sequence of setters.     *)
(*                                                                         *)
(* GrpcClient drops the grpc::Status of every call but the login: a Get    *)
(* that fails looks like a message of default values (0 here), a Set that  *)
(* fails like an ErrorMessage with code 0.  What a value is does not       *)
(* matter but for protocol (AMMOS = 0, HRZR = 1) and streaming (0, 1).     *)
(*                                                                         *)
(* Several clients may configure one channel.  `disturbed' records that,   *)
(* since a client's current or last call began, another client has changed *)
(* the settings of its channel or it has misread them.                     *)
(***************************************************************************)
EXTENDS JsonFile, Sequences

CONSTANTS
  Clients,    \* IqClient objects, in one or several programs
  Channels,   \* the channels, 1 .. 4
  Values,     \* values of a setting
  Setters,    \* the settings applications change with single setters
  Inputs,     \* the values they give them
  JsonFiles,  \* contents of JSON files
  Faults      \* "get", "set": such a call may fail; "reject": the device
              \* may reject a setting for reasons of its own

Udp   == {"port", "dest", "proto", "streaming"}
Rf    == {"sat", "down"}
Field == Udp \cup Rf \cup {"band"}

AMMOS == 0

(* The settings in the order SetMSR4ByJson makes them; the first, which    *)
(* stops the streaming, only if the channel seems to be streaming.         *)
Plan == <<"streaming", "sat", "down", "band", "port", "dest", "proto">>

(* What SetMSR4ByJson sets.                                                *)
Settings(j) ==
  [f \in Field |-> IF f = "streaming" THEN 0 ELSE Member(j, f)]

(* The files that are read to the end.                                     *)
Loadable == {j \in JsonFiles \cup {NoFile} : ~Throws(j)}

ASSUME ConfigAssumption ==
  /\ {0, 1} \subseteq Values /\ Setters \subseteq Field /\ Inputs \subseteq Values
  /\ \A j \in Loadable : Settings(j) \in [Field -> Values]

VARIABLES
  device,   \* the settings of each channel in the device
  token,    \* whether the client has a valid login token
  chan,     \* msr4_channel
  pc,       \* "idle", "login", "channel", "status", "read" or "write"
  call,     \* the field and value of the current setter, or of the last if
            \* it returned code 0
  buf,      \* the message it has read, 0 for settings that are not in it
  step,     \* place in Plan of the current or last SetMSR4ByJson; 0: none
  json,     \* the file of that SetMSR4ByJson; NoFile: none
  outcome,  \* of the last call: "none", "ok", "error" or "threw"
  disturbed \* see above

vars == <<device, token, chan, pc, call, buf, step, json, outcome, disturbed>>

Default == [f \in Field |-> 0]
NoCall  == [field |-> "port", value |-> 0]

Init ==
  /\ device \in [Channels -> [Field -> {0}]]
  /\ token = [c \in Clients |-> FALSE]
  /\ chan \in [Clients -> Channels]
  /\ pc = [c \in Clients |-> "idle"]
  /\ call = [c \in Clients |-> NoCall]
  /\ buf = [c \in Clients |-> Default]
  /\ step = [c \in Clients |-> 0]
  /\ json = [c \in Clients |-> NoFile]
  /\ outcome = [c \in Clients |-> "none"]
  /\ disturbed = [c \in Clients |-> FALSE]

-----------------------------------------------------------------------------
(* The bandwidth is written without being read.                            *)
FirstStep(f) == IF f = "band" THEN "write" ELSE "read"

(* Client c begins the setter of field f; it is step k of Plan, or 0.      *)
Begin(c, f, v, k) ==
  /\ pc' = [pc EXCEPT ![c] = FirstStep(f)]
  /\ call' = [call EXCEPT ![c] = [field |-> f, value |-> v]]
  /\ step' = [step EXCEPT ![c] = k]
  /\ outcome' = [outcome EXCEPT ![c] = "none"]

Finish(c, k, result) ==
  /\ pc' = [pc EXCEPT ![c] = "idle"]
  /\ step' = [step EXCEPT ![c] = k]
  /\ outcome' = [outcome EXCEPT ![c] = result]
  /\ call' = IF k = 0 /\ result = "ok" THEN call ELSE [call EXCEPT ![c] = NoCall]

(* A call of the application begins; json is of the call before.           *)
Undisturb(c) == disturbed' = [disturbed EXCEPT ![c] = FALSE]
Forget(c) == json' = [json EXCEPT ![c] = NoFile]

(* The application calls a setter.  SetProtocol throws for AMMOS.          *)
Call(c, f, v) ==
  /\ pc[c] = "idle"
  /\ f = "streaming" => v \in {0, 1}
  /\ f = "proto" => v = 1
  /\ Begin(c, f, v, 0) /\ Undisturb(c) /\ Forget(c)
  /\ UNCHANGED <<device, token, chan, buf>>

SetProtocolAmmos(c) ==
  /\ pc[c] = "idle"
  /\ Finish(c, 0, "threw") /\ Undisturb(c) /\ Forget(c)
  /\ UNCHANGED <<device, token, chan, buf>>

SetRxChannel(c, ch) ==
  /\ pc[c] = "idle"
  /\ chan' = [chan EXCEPT ![c] = ch]
  /\ step' = [step EXCEPT ![c] = 0]
  /\ outcome' = [outcome EXCEPT ![c] = "none"]
  /\ Undisturb(c) /\ Forget(c)
  /\ UNCHANGED <<device, token, pc, call, buf>>

(* MSR4Login; a failed login leaves the token as it was.                   *)
Login(c) ==
  /\ pc[c] = "idle"
  /\ token' = [token EXCEPT ![c] = TRUE]
  /\ outcome' = [outcome EXCEPT ![c] = "none"]
  /\ UNCHANGED <<device, chan, pc, call, buf, step, json, disturbed>>

-----------------------------------------------------------------------------
(* What a Get may return: the settings, or defaults if the call fails.     *)
Answers(c) ==
  (IF token[c] THEN {device[chan[c]]} ELSE {}) \cup
  (IF ~token[c] \/ "get" \in Faults THEN {Default} ELSE {})

(* The message that field f is part of.                                    *)
Message(f) == IF f \in Udp THEN Udp ELSE IF f \in Rf THEN Rf ELSE {f}

(* The settings as they stand in the message of field f.                   *)
Part(settings, f) ==
  [g \in Field |-> IF g \in Message(f) THEN settings[g] ELSE 0]

Read(c) ==
  /\ pc[c] = "read"
  /\ \E settings \in Answers(c) :
       buf' = [buf EXCEPT ![c] = Part(settings, call[c].field)]
  /\ disturbed' = [disturbed EXCEPT ![c] =
                     @ \/ buf'[c] # Part(device[chan[c]], call[c].field)]
  /\ pc' = [pc EXCEPT ![c] = "write"]
  /\ UNCHANGED <<device, token, chan, call, step, json, outcome>>

(* A mistake to detect: the message is written without what was read.      *)
WrittenAlone(c) ==
  [f \in Field |->
     IF f = call[c].field THEN call[c].value
     ELSE IF f \in Message(call[c].field) THEN 0
     ELSE device[chan[c]][f]]

(* A mistake to detect: all settings are written back, of which only those *)
(* of the message have been read.                                          *)
WrittenWhole(c) ==
  [f \in Field |-> IF f = call[c].field THEN call[c].value ELSE buf[c][f]]

(* The device's settings once it has taken over c's message.               *)
Written(c) ==
  [f \in Field |->
     IF f = call[c].field THEN call[c].value
     ELSE IF f \in Message(call[c].field) THEN buf[c][f]
     ELSE device[chan[c]][f]]

(* The device takes no change of a channel that is streaming but the end   *)
(* of the streaming (README.md:110).                                       *)
Accepts(old, new) ==
  old["streaming"] = 1 => \A f \in Field \ {"streaming"} : old[f] = new[f]

(* The outcomes of a Set: what happens to the device and the code the      *)
(* client sees.  A lost reply looks like the first or the last.            *)
Applied(c) ==
  /\ token[c] /\ Accepts(device[chan[c]], Written(c))
  /\ device' = [device EXCEPT ![chan[c]] = Written(c)]
  /\ disturbed' = [d \in Clients |->
                     disturbed[d] \/ (d # c /\ chan[d] = chan[c])]

Rejected(c) ==
  /\ token[c]
  /\ "reject" \in Faults \/ ~Accepts(device[chan[c]], Written(c))
  /\ UNCHANGED <<device, disturbed>>

Lost(c) ==
  /\ ~token[c] \/ "set" \in Faults
  /\ UNCHANGED <<device, disturbed>>

(* A mistake to detect: the last setter of Plan is left out.               *)
ContinueButLast(c, k) ==
  IF k >= Len(Plan) THEN Finish(c, Len(Plan) + 1, "ok")
  ELSE Begin(c, Plan[k], Settings(json[c])[Plan[k]], k)

(* The step of Plan after k.  A protocol other than HRZR throws, but only  *)
(* when its turn comes.                                                    *)
Continue(c, k) ==
  IF k > Len(Plan) THEN Finish(c, k, "ok")
  ELSE IF Plan[k] = "proto" /\ Settings(json[c])["proto"] = AMMOS
       THEN Finish(c, k, "threw")
       ELSE Begin(c, Plan[k], Settings(json[c])[Plan[k]], k)

(* A mistake to detect: an error code does not end SetMSR4ByJson.          *)
ReturnUnchecked(c, code) ==
  IF step[c] = 0 THEN Finish(c, 0, IF code = 0 THEN "ok" ELSE "error")
  ELSE Continue(c, step[c] + 1)

(* A setter returns.  SetMSR4ByJson looks at the codes of the setters      *)
(* between the first and the last.                                         *)
Return(c, code) ==
  IF step[c] = 0 THEN Finish(c, 0, IF code = 0 THEN "ok" ELSE "error")
  ELSE IF code # 0 /\ step[c] > 1 /\ step[c] < Len(Plan)
       THEN Finish(c, step[c], "threw")
       ELSE Continue(c, step[c] + 1)

(* A mistake to detect: a rejection is reported as a success.              *)
WriteIgnoresCode(c) ==
  /\ pc[c] = "write"
  /\ Applied(c) \/ Rejected(c) \/ Lost(c)
  /\ Return(c, 0)
  /\ buf' = [buf EXCEPT ![c] = Default]
  /\ UNCHANGED <<token, chan, json>>

Write(c) ==
  /\ pc[c] = "write"
  /\ \/ Applied(c) /\ Return(c, 0)
     \/ Rejected(c) /\ Return(c, 1)
     \/ Lost(c) /\ Return(c, 0)
  /\ buf' = [buf EXCEPT ![c] = Default]
  /\ UNCHANGED <<token, chan, json>>

-----------------------------------------------------------------------------
(* SetMSR4ByJson up to its first setter.  The file is read first.          *)
SetMSR4ByJson(c, j) ==
  /\ pc[c] = "idle" /\ j \in Loadable
  /\ pc' = [pc EXCEPT ![c] = "login"]
  /\ json' = [json EXCEPT ![c] = j]
  /\ step' = [step EXCEPT ![c] = 0]
  /\ outcome' = [outcome EXCEPT ![c] = "none"] /\ Undisturb(c)
  /\ UNCHANGED <<device, token, chan, call, buf>>

JsonThrows(c, j) ==
  /\ pc[c] = "idle" /\ Throws(j)
  /\ Finish(c, 0, "threw") /\ Undisturb(c) /\ Forget(c)
  /\ UNCHANGED <<device, token, chan, buf>>

(* If the login fails, the client keeps its token and calls the device at  *)
(* the address of the file, for which the token may be worth nothing.      *)
JsonLogin(c) ==
  /\ pc[c] = "login"
  /\ \/ /\ token' = [token EXCEPT ![c] = TRUE]
        /\ pc' = [pc EXCEPT ![c] = "channel"]
        /\ UNCHANGED <<step, outcome, call, json>>
     \/ /\ Finish(c, 0, "threw") /\ Forget(c)
        /\ \E valid \in {token[c], FALSE} : token' = [token EXCEPT ![c] = valid]
  /\ UNCHANGED <<device, chan, buf, disturbed>>

(* A mistake to detect: the channel of the file is taken as it is.         *)
JsonChannelAnyway(c) ==
  /\ pc[c] = "channel"
  /\ chan' = [chan EXCEPT ![c] = Member(json[c], "channel")]
  /\ pc' = [pc EXCEPT ![c] = "status"]
  /\ UNCHANGED <<device, token, call, buf, step, json, outcome, disturbed>>

JsonChannel(c) ==
  /\ pc[c] = "channel"
  /\ IF Member(json[c], "channel") \in Channels
       THEN /\ chan' = [chan EXCEPT ![c] = Member(json[c], "channel")]
            /\ pc' = [pc EXCEPT ![c] = "status"]
            /\ UNCHANGED <<step, outcome, call, json>>
       ELSE Finish(c, 0, "threw") /\ Forget(c) /\ UNCHANGED chan
  /\ UNCHANGED <<device, token, buf, disturbed>>

JsonStatus(c) ==
  /\ pc[c] = "status"
  /\ \E settings \in Answers(c) :
       Continue(c, IF settings["streaming"] = 1 THEN 1 ELSE 2)
  /\ UNCHANGED <<device, token, chan, buf, json, disturbed>>

ClientStep(c) ==
  \/ \E f \in Setters, v \in Inputs : Call(c, f, v)
  \/ SetProtocolAmmos(c)
  \/ \E ch \in Channels : SetRxChannel(c, ch)
  \/ Login(c)
  \/ Read(c) \/ Write(c)
  \/ \E j \in JsonFiles \cup {NoFile} : SetMSR4ByJson(c, j) \/ JsonThrows(c, j)
  \/ JsonLogin(c) \/ JsonChannel(c) \/ JsonStatus(c)

Next == \E c \in Clients : ClientStep(c)

Spec == Init /\ [][Next]_vars

-----------------------------------------------------------------------------
(* Every variable has its type.                                            *)
TypeOK ==
  /\ device \in [Channels -> [Field -> Values]]
  /\ token \in [Clients -> BOOLEAN] /\ chan \in [Clients -> Channels]
  /\ pc \in [Clients -> {"idle", "login", "channel", "status", "read", "write"}]
  /\ call \in [Clients -> [field : Field, value : Values]]
  /\ buf \in [Clients -> [Field -> Values]]
  /\ step \in [Clients -> 0 .. Len(Plan) + 1]
  /\ json \in [Clients -> Loadable]
  /\ outcome \in [Clients -> {"none", "ok", "error", "threw"}]
  /\ disturbed \in [Clients -> BOOLEAN]

(* A setter changes the one setting it is called for, on the selected      *)
(* channel, to the value it is given (README.md:79, "Setting single values *)
(* in the MSR4 is as simple as calling the corresponding function"),       *)
(* unless it is disturbed; nothing but a setter changes any.               *)
OnlyCalledSetting ==
  \A ch \in Channels, f \in Field :
    device'[ch][f] # device[ch][f] =>
      \E c \in Clients :
        /\ pc[c] = "write" /\ chan[c] = ch
        /\ ~disturbed[c] => call[c] = [field |-> f, value |-> device'[ch][f]]

SingleFieldChanges == [][OnlyCalledSetting]_vars

(* Another client's change of the settings in between and a Get that fails *)
(* do harm (grpcClient.cc:137, iqClient.cc:51), but no more than this: a   *)
(* setter always leaves the setting it is called for with its own value,   *)
(* and the settings of the other messages, and of the other channels, as   *)
(* they are at that moment, disturbed or not.                              *)
OnlyOwnMessage ==
  \A ch \in Channels :
    device'[ch] # device[ch] =>
      \E c \in Clients :
        /\ pc[c] = "write" /\ chan[c] = ch
        /\ device'[ch][call[c].field] = call[c].value
        /\ \A f \in Field \ Message(call[c].field) : device'[ch][f] = device[ch][f]

HarmStaysInMessage == [][OnlyOwnMessage]_vars

(* The code 0 a logged-in client gets from a setter means that the device  *)
(* has the value (README.md:85-87; errors.proto:6, "NONE = 0;              *)
(* //successful"), unless the client is disturbed.                         *)
OkMeansApplied ==
  \A c \in Clients :
    outcome[c] = "ok" /\ step[c] = 0 /\ token[c] /\ ~disturbed[c] =>
      device[chan[c]][call[c].field] = call[c].value

(* What setting f is if the file is followed: as the file gives it; not a  *)
(* value that might be meant if the file does not.                         *)
AsFileSays(j, f, v) ==
  IF Gives(j, f) THEN v = j[Section[f]][f] ELSE v \in {-1, 0}

(* However far SetMSR4ByJson comes, returns or throws: every setting whose *)
(* code it has looked at is in the device as the file says, those of       *)
(* earlier steps included, unless it is disturbed.                         *)
JsonProgress ==
  \A c \in Clients :
    ~disturbed[c] =>
      \A k \in 2 .. Len(Plan) - 1 :
        k < step[c] => AsFileSays(json[c], Plan[k], device[chan[c]][Plan[k]])

(* SetMSR4ByJson looks at the code of neither its first nor its last       *)
(* setter.  Still, when it has returned and the channel is not streaming,  *)
(* every setting is as the file says, the protocol included, unless it is  *)
(* disturbed.                                                              *)
JsonComplete ==
  \A c \in Clients :
    /\ outcome[c] = "ok" /\ step[c] > Len(Plan) /\ ~disturbed[c]
    /\ device[chan[c]]["streaming"] # 1
    => \A k \in 2 .. Len(Plan) :
         AsFileSays(json[c], Plan[k], device[chan[c]][Plan[k]])
=============================================================================
