-------------------------- MODULE Msr4ConfigProofs --------------------------
(***************************************************************************)
(* Proofs about Msr4Config, for every set of clients, channels, values and *)
(* files: what a client may rely on until another disturbs it.             *)
(***************************************************************************)
EXTENDS Msr4Config, TLAPS

LEMMA PlanFacts ==
  /\ Len(Plan) = 7
  /\ Plan[1] = "streaming" /\ Plan[2] = "sat" /\ Plan[3] = "down"
  /\ Plan[4] = "band" /\ Plan[5] = "port" /\ Plan[6] = "dest"
  /\ Plan[7] = "proto"
BY DEF Plan

LEMMA PlanFields ==
  /\ \A k \in 1 .. 7 : Plan[k] \in Field
  /\ \A k, n \in 1 .. 7 : Plan[k] = Plan[n] => k = n
<1>1. \A k \in 1 .. 7 : k = 1 \/ k = 2 \/ k = 3 \/ k = 4 \/ k = 5 \/ k = 6 \/ k = 7
  OBVIOUS
<1> QED
  BY <1>1, PlanFacts DEF Field, Udp, Rf

(* The file that is not there is read without complaint.                   *)
LEMMA NoFileLoads == NoFile \in Loadable
<1>1. \A m \in Integral : ~Gives(NoFile, m)
  BY DEF NoFile, Gives, HasSection
<1> QED
  BY <1>1 DEF Throws, Loadable

LEMMA InitTyped == Init => TypeOK
<1> SUFFICES ASSUME Init PROVE TypeOK
  OBVIOUS
<1> USE ConfigAssumption DEF Init
<1>1. device \in [Channels -> [Field -> Values]]
  <2>1. \A ch \in Channels : device[ch] \in [Field -> Values]
    OBVIOUS
  <2> QED
    BY <2>1
<1>2. Default \in [Field -> Values]
  BY DEF Default
<1>3. buf \in [Clients -> [Field -> Values]]
  BY <1>2
<1>4. call \in [Clients -> [field : Field, value : Values]]
  BY DEF NoCall, Field, Udp
<1>5. step \in [Clients -> 0 .. Len(Plan) + 1]
  BY PlanFacts
<1>6. /\ token \in [Clients -> BOOLEAN] /\ chan \in [Clients -> Channels]
      /\ json \in [Clients -> Loadable]
      /\ pc \in [Clients -> {"idle", "login", "channel", "status", "read", "write"}]
      /\ outcome \in [Clients -> {"none", "ok", "error", "threw"}]
      /\ disturbed \in [Clients -> BOOLEAN]
  BY NoFileLoads
<1> QED
  BY <1>1, <1>3, <1>4, <1>5, <1>6 DEF TypeOK

(* The variables that Finish and Begin leave to their callers keep types.  *)
ControlType ==
  /\ pc \in [Clients -> {"idle", "login", "channel", "status", "read", "write"}]
  /\ call \in [Clients -> [field : Field, value : Values]]
  /\ step \in [Clients -> 0 .. 8]
  /\ outcome \in [Clients -> {"none", "ok", "error", "threw"}]

LEMMA BeginTyped ==
  ASSUME ControlType, NEW c \in Clients, NEW f \in Field, NEW v \in Values,
         NEW k \in 0 .. 8, Begin(c, f, v, k)
  PROVE  ControlType'
BY DEF ControlType, Begin, FirstStep

LEMMA FinishTyped ==
  ASSUME ControlType, NEW c \in Clients, NEW k \in 0 .. 8,
         NEW r \in {"ok", "error", "threw"}, Finish(c, k, r)
  PROVE  ControlType'
<1>1. NoCall \in [field : Field, value : Values]
  BY ConfigAssumption DEF NoCall, Field, Udp
<1> QED
  BY <1>1 DEF ControlType, Finish

LEMMA ContinueTyped ==
  ASSUME TypeOK, NEW c \in Clients, NEW k \in 1 .. 8, Continue(c, k)
  PROVE  ControlType'
<1>1. ControlType
  BY PlanFacts DEF TypeOK, ControlType
<1>2. CASE k = 8
  BY <1>1, <1>2, FinishTyped, PlanFacts DEF Continue
<1>3. CASE k \in 1 .. 7
  <2>1. Plan[k] \in Field /\ Settings(json[c])[Plan[k]] \in Values
    BY <1>3, PlanFields, ConfigAssumption DEF TypeOK
  <2> QED
    BY <1>1, <1>3, <2>1, FinishTyped, BeginTyped, PlanFacts DEF Continue
<1> QED
  BY <1>2, <1>3

LEMMA ReturnTyped ==
  ASSUME TypeOK, NEW c \in Clients, step[c] \in 0 .. 7, NEW code,
         Return(c, code)
  PROVE  ControlType'
<1>1. ControlType
  BY PlanFacts DEF TypeOK, ControlType
<1>2. CASE step[c] = 0
  BY <1>1, <1>2, FinishTyped DEF Return
<1>3. CASE step[c] \in 1 .. 7
  <2>1. step[c] + 1 \in 1 .. 8
    BY <1>3
  <2> QED
    BY <1>1, <1>3, <2>1, FinishTyped, ContinueTyped, PlanFacts DEF Return
<1> QED
  BY <1>2, <1>3

LEMMA StepRange == ASSUME TypeOK, NEW c \in Clients PROVE step[c] \in 0 .. 8
<1>1. step \in [Clients -> 0 .. 8]
  BY PlanFacts DEF TypeOK
<1> QED
  BY <1>1

LEMMA WrittenTyped ==
  ASSUME TypeOK, NEW c \in Clients PROVE Written(c) \in [Field -> Values]
<1>1. /\ call[c].value \in Values /\ buf[c] \in [Field -> Values]
      /\ device[chan[c]] \in [Field -> Values]
  BY DEF TypeOK
<1> QED
  BY <1>1 DEF Written

LEMMA AnswersTyped ==
  ASSUME TypeOK, NEW c \in Clients, NEW a \in Answers(c), NEW f
  PROVE  Part(a, f) \in [Field -> Values]
<1>1. Default \in [Field -> Values]
  BY ConfigAssumption DEF Default
<1>2. a \in [Field -> Values]
  BY <1>1 DEF TypeOK, Answers
<1> QED
  BY <1>2, ConfigAssumption DEF Part

(* SetMSR4ByJson in progress: the client is logged in, its setter is the   *)
(* one of the current step, and a call in progress has no outcome.         *)
JsonRun(c) ==
  /\ pc[c] \in {"login", "channel", "status"} => step[c] = 0
  /\ pc[c] \in {"channel", "status"} => token[c]
  /\ pc[c] \in {"read", "write"} /\ step[c] # 0 =>
       /\ step[c] \in 1 .. 7 /\ token[c]
       /\ call[c] = [field |-> Plan[step[c]],
                     value |-> Settings(json[c])[Plan[step[c]]]]
  /\ pc[c] # "idle" => outcome[c] = "none"

JsonRuns == \A c \in Clients : JsonRun(c)

LEMMA InitJsonRuns == Init => JsonRuns
BY DEF Init, JsonRuns, JsonRun

(* A step of client c changes nothing that is another client's.            *)
Alone(c) ==
  \A d \in Clients \ {c} :
    /\ pc'[d] = pc[d] /\ call'[d] = call[d] /\ step'[d] = step[d]
    /\ token'[d] = token[d] /\ json'[d] = json[d]
    /\ outcome'[d] = outcome[d] /\ chan'[d] = chan[d] /\ buf'[d] = buf[d]

LEMMA OthersRun ==
  ASSUME JsonRuns, NEW c \in Clients, Alone(c), JsonRun(c)'
  PROVE  JsonRuns'
<1> SUFFICES ASSUME NEW d \in Clients PROVE JsonRun(d)'
  BY DEF JsonRuns
<1>1. CASE d = c
  BY <1>1
<1>2. CASE d # c
  BY <1>2 DEF Alone, JsonRuns, JsonRun
<1> QED
  BY <1>1, <1>2

(* What Continue does to its client's state.                               *)
LEMMA ContinueRuns ==
  ASSUME TypeOK, NEW c \in Clients, NEW k \in 1 .. 8, Continue(c, k),
         token[c], UNCHANGED <<token, json>>
  PROVE  JsonRun(c)'
<1>1. CASE k = 8
  BY <1>1, PlanFacts DEF Continue, Finish, TypeOK, JsonRun
<1>2. CASE k \in 1 .. 7 /\ Finish(c, k, "threw")
  BY <1>2 DEF Finish, TypeOK, JsonRun
<1>3. CASE k \in 1 .. 7 /\ Begin(c, Plan[k], Settings(json[c])[Plan[k]], k)
  <2>1. /\ pc'[c] \in {"read", "write"} /\ step'[c] = k /\ outcome'[c] = "none"
        /\ call'[c] = [field |-> Plan[k], value |-> Settings(json[c])[Plan[k]]]
    BY <1>3 DEF Begin, FirstStep, TypeOK
  <2> QED
    BY <1>3, <2>1 DEF JsonRun
<1> QED
  BY <1>1, <1>2, <1>3, PlanFacts DEF Continue

LEMMA ContinueAlone ==
  ASSUME TypeOK, NEW c \in Clients, NEW k \in 1 .. 8, Continue(c, k),
         UNCHANGED <<token, chan, json>>, \A d \in Clients \ {c} : buf'[d] = buf[d]
  PROVE  Alone(c)
<1>1. CASE \E r \in {"ok", "threw"} : Finish(c, k, r)
  BY <1>1 DEF Finish, TypeOK, Alone
<1>2. CASE \E f, v : Begin(c, f, v, k)
  BY <1>2 DEF Begin, TypeOK, Alone
<1> QED
  BY <1>1, <1>2 DEF Continue

(* The ways a setter returns.                                              *)
LEMMA ReturnCases ==
  ASSUME TypeOK, JsonRuns, NEW c \in Clients, pc[c] = "write", NEW code \in {0, 1},
         Return(c, code)
  PROVE  \/ step[c] = 0 /\ code = 0 /\ Finish(c, 0, "ok")
         \/ step[c] = 0 /\ code = 1 /\ Finish(c, 0, "error")
         \/ /\ step[c] \in 1 .. 7 /\ token[c]
            /\ \/ code = 1 /\ step[c] \in 2 .. 6 /\ Finish(c, step[c], "threw")
               \/ (code = 0 \/ step[c] \in {1, 7}) /\ Continue(c, step[c] + 1)
<1>1. step[c] # 0 => step[c] \in 1 .. 7 /\ token[c]
  BY DEF JsonRuns, JsonRun
<1> QED
  BY <1>1, PlanFacts DEF Return

LEMMA ReturnRuns ==
  ASSUME TypeOK, JsonRuns, NEW c \in Clients, pc[c] = "write", NEW code \in {0, 1},
         Return(c, code), UNCHANGED <<token, chan, json>>,
         \A d \in Clients \ {c} : buf'[d] = buf[d]
  PROVE  JsonRun(c)' /\ Alone(c)
<1>1. CASE \E k \in 0 .. 7, r \in {"ok", "error", "threw"} : Finish(c, k, r)
  <2>1. JsonRun(c)'
    BY <1>1 DEF Finish, TypeOK, JsonRun
  <2>2. Alone(c)
    BY <1>1 DEF Finish, TypeOK, Alone
  <2> QED
    BY <2>1, <2>2
<1>2. CASE step[c] \in 1 .. 7 /\ token[c] /\ Continue(c, step[c] + 1)
  <2>1. step[c] + 1 \in 1 .. 8
    BY <1>2
  <2> QED
    BY <1>2, <2>1, ContinueRuns, ContinueAlone
<1> QED
  BY <1>1, <1>2, ReturnCases

LEMMA UndisturbTyped ==
  ASSUME TypeOK, NEW c \in Clients, Undisturb(c)
  PROVE  disturbed' \in [Clients -> BOOLEAN]
BY DEF Undisturb, TypeOK

LEMMA ForgetTyped ==
  ASSUME TypeOK, NEW c \in Clients, Forget(c)
  PROVE  /\ json' \in [Clients -> Loadable]
         /\ \A d \in Clients \ {c} : json'[d] = json[d]
BY NoFileLoads DEF Forget, TypeOK

(* One step per action, for the types, the state of SetMSR4ByJson and what *)
(* is the others'.                                                         *)
LEMMA StepTyped ==
  ASSUME TypeOK, JsonRuns, NEW c \in Clients, ClientStep(c)
  PROVE  TypeOK' /\ JsonRun(c)' /\ Alone(c)
<1>0. ControlType /\ JsonRun(c)
  BY PlanFacts DEF TypeOK, ControlType, JsonRuns
<1>1. ASSUME NEW f \in Field, NEW v \in Values, Call(c, f, v)
      PROVE  TypeOK' /\ JsonRun(c)' /\ Alone(c)
  <2>1. ControlType'
    BY <1>0, <1>1, BeginTyped DEF Call
  <2>2. TypeOK'
    BY <1>1, <2>1, PlanFacts, UndisturbTyped, ForgetTyped DEF Call, TypeOK, ControlType
  <2> QED
    BY <1>1, <2>2, ForgetTyped DEF Call, Begin, FirstStep, TypeOK, JsonRun, Alone
<1>2. CASE SetProtocolAmmos(c)
  <2>1. ControlType'
    BY <1>0, <1>2, FinishTyped DEF SetProtocolAmmos
  <2>2. TypeOK'
    BY <1>2, <2>1, PlanFacts, UndisturbTyped, ForgetTyped
    DEF SetProtocolAmmos, TypeOK, ControlType
  <2> QED
    BY <1>2, <2>2, ForgetTyped DEF SetProtocolAmmos, Finish, TypeOK, JsonRun, Alone
<1>3. CASE Login(c)
  BY <1>0, <1>3 DEF Login, TypeOK, JsonRun, Alone
<1>4. ASSUME NEW ch \in Channels, SetRxChannel(c, ch)
      PROVE  TypeOK' /\ JsonRun(c)' /\ Alone(c)
  <2>1. TypeOK'
    BY <1>4, PlanFacts, ForgetTyped DEF SetRxChannel, Undisturb, TypeOK
  <2> QED
    BY <1>4, <2>1, ForgetTyped DEF SetRxChannel, TypeOK, JsonRun, Alone
<1>5. CASE Read(c)
  <2>1. buf' \in [Clients -> [Field -> Values]]
    BY <1>5, AnswersTyped DEF Read, TypeOK
  <2>2. TypeOK'
    BY <1>5, <2>1 DEF Read, TypeOK
  <2> QED
    BY <1>0, <1>5, <2>2 DEF Read, TypeOK, JsonRun, Alone
<1>6. CASE Write(c)
  <2>1. PICK code \in {0, 1} : Return(c, code)
    BY <1>6 DEF Write
  <2>2. /\ pc[c] = "write" /\ UNCHANGED <<token, chan, json>>
        /\ buf' = [buf EXCEPT ![c] = Default]
        /\ disturbed' \in [Clients -> BOOLEAN]
    BY <1>6 DEF Write, Applied, Rejected, Lost, TypeOK
  <2>3. step[c] \in 0 .. 7
    <3>1. step[c] # 0 => step[c] \in 1 .. 7
      BY <1>0, <2>2 DEF JsonRun
    <3> QED
      BY <3>1
  <2>4. ControlType'
    BY <2>1, <2>3, ReturnTyped
  <2>5. device' \in [Channels -> [Field -> Values]]
    <3>1. \/ device' = device
          \/ device' = [device EXCEPT ![chan[c]] = Written(c)]
      BY <1>6 DEF Write, Applied, Rejected, Lost
    <3> QED
      BY <3>1, WrittenTyped DEF TypeOK
  <2>6. buf' \in [Clients -> [Field -> Values]]
    BY <2>2, ConfigAssumption DEF Default, TypeOK
  <2>7. TypeOK'
    BY <2>2, <2>4, <2>5, <2>6, PlanFacts DEF TypeOK, ControlType
  <2>8. \A d \in Clients \ {c} : buf'[d] = buf[d]
    BY <2>2 DEF TypeOK
  <2> QED
    BY <2>1, <2>2, <2>7, <2>8, ReturnRuns
<1>11. ASSUME NEW j, JsonThrows(c, j)
       PROVE  TypeOK' /\ JsonRun(c)' /\ Alone(c)
  <2>1. ControlType'
    BY <1>0, <1>11, FinishTyped DEF JsonThrows
  <2>2. TypeOK'
    BY <1>11, <2>1, PlanFacts, UndisturbTyped, ForgetTyped
    DEF JsonThrows, TypeOK, ControlType
  <2> QED
    BY <1>11, <2>2, ForgetTyped DEF JsonThrows, Finish, TypeOK, JsonRun, Alone
<1>7. ASSUME NEW j, SetMSR4ByJson(c, j)
      PROVE  TypeOK' /\ JsonRun(c)' /\ Alone(c)
  <2>1. TypeOK'
    BY <1>7, PlanFacts DEF SetMSR4ByJson, Undisturb, TypeOK
  <2> QED
    BY <1>7, <2>1 DEF SetMSR4ByJson, TypeOK, JsonRun, Alone
<1>8. CASE JsonLogin(c)
  <2>1. TypeOK'
    <3>1. ASSUME Finish(c, 0, "threw"), Forget(c),
                 NEW valid \in BOOLEAN, token' = [token EXCEPT ![c] = valid]
          PROVE  TypeOK'
      <4>1. ControlType'
        BY <1>0, <3>1, FinishTyped
      <4>2. UNCHANGED <<device, chan, buf, disturbed>>
        BY <1>8 DEF JsonLogin
      <4>3. json' \in [Clients -> Loadable] /\ token' \in [Clients -> BOOLEAN]
        BY <3>1, ForgetTyped DEF TypeOK
      <4> QED
        BY <4>1, <4>2, <4>3, PlanFacts DEF TypeOK, ControlType
    <3>2. ASSUME token' = [token EXCEPT ![c] = TRUE],
                 pc' = [pc EXCEPT ![c] = "channel"],
                 UNCHANGED <<step, outcome, call, json>>
          PROVE  TypeOK'
      BY <1>8, <3>2 DEF JsonLogin, TypeOK
    <3>3. token[c] \in BOOLEAN
      BY DEF TypeOK
    <3> QED
      BY <1>8, <3>1, <3>2, <3>3 DEF JsonLogin
  <2> QED
    BY <1>0, <1>8, <2>1, ForgetTyped DEF JsonLogin, Finish, TypeOK, JsonRun, Alone
<1>9. CASE JsonChannel(c)
  <2>1. TypeOK'
    <3>1. ASSUME Finish(c, 0, "threw"), Forget(c), UNCHANGED chan
          PROVE  TypeOK'
      <4>1. ControlType'
        BY <1>0, <3>1, FinishTyped
      <4> QED
        BY <1>9, <3>1, <4>1, PlanFacts, ForgetTyped
        DEF JsonChannel, TypeOK, ControlType
    <3>2. ASSUME Member(json[c], "channel") \in Channels,
                 chan' = [chan EXCEPT ![c] = Member(json[c], "channel")],
                 pc' = [pc EXCEPT ![c] = "status"],
                 UNCHANGED <<step, outcome, call, json>>
          PROVE  TypeOK'
      BY <1>9, <3>2 DEF JsonChannel, TypeOK
    <3> QED
      BY <1>9, <3>1, <3>2 DEF JsonChannel
  <2> QED
    BY <1>0, <1>9, <2>1, ForgetTyped
    DEF JsonChannel, Finish, TypeOK, JsonRun, Alone
<1>10. CASE JsonStatus(c)
  <2>1. PICK k \in 1 .. 8 : Continue(c, k)
    BY <1>10 DEF JsonStatus
  <2>2. /\ ControlType' /\ token[c]
        /\ UNCHANGED <<device, token, chan, buf, json, disturbed>>
    BY <1>0, <1>10, <2>1, ContinueTyped DEF JsonStatus, JsonRun
  <2>3. TypeOK'
    BY <2>2, PlanFacts DEF TypeOK, ControlType
  <2> QED
    BY <2>1, <2>2, <2>3, ContinueRuns, ContinueAlone
<1> QED
  BY <1>1, <1>2, <1>3, <1>4, <1>5, <1>6, <1>7, <1>8, <1>9, <1>10, <1>11,
     ConfigAssumption DEF ClientStep

LEMMA NextTyped == TypeOK /\ JsonRuns /\ [Next]_vars => TypeOK' /\ JsonRuns'
<1>1. CASE UNCHANGED vars
  BY <1>1 DEF vars, TypeOK, JsonRuns, JsonRun
<1>2. ASSUME TypeOK, JsonRuns, NEW c \in Clients, ClientStep(c)
      PROVE  TypeOK' /\ JsonRuns'
  BY <1>2, StepTyped, OthersRun
<1> QED
  BY <1>1, <1>2 DEF Next
(* Every variable keeps its type, whatever fails, and SetMSR4ByJson never  *)
(* calls a setter before it is logged in.                                  *)
THEOREM ConfigTyping == Spec => [](TypeOK /\ JsonRuns)
BY InitTyped, InitJsonRuns, NextTyped, PTL DEF Spec

-----------------------------------------------------------------------------
(* What a client has read is what the device has until it is disturbed.    *)
Fresh(c) ==
  pc[c] = "write" /\ ~disturbed[c] =>
    \A f \in Message(call[c].field) \ {call[c].field} :
      buf[c][f] = device[chan[c]][f]

Okay(c) ==
  outcome[c] = "ok" /\ step[c] = 0 /\ token[c] /\ ~disturbed[c] =>
    device[chan[c]][call[c].field] = call[c].value

Progress(c) ==
  ~disturbed[c] =>
    \A k \in 2 .. 6 :
      k < step[c] => device[chan[c]][Plan[k]] = Settings(json[c])[Plan[k]]

(* A step of another client disturbs c or leaves what c relies on.         *)
LEMMA OthersDisturb ==
  ASSUME TypeOK, NEW c \in Clients, NEW d \in Clients \ {c}, ClientStep(d)
  PROVE  \/ disturbed'[c]
         \/ disturbed'[c] = disturbed[c] /\ device'[chan[c]] = device[chan[c]]
<1>1. CASE Write(d) /\ Applied(d)
  BY <1>1 DEF Applied, TypeOK
<1>2. CASE Write(d) /\ UNCHANGED <<device, disturbed>>
  BY <1>2
<1>3. CASE Read(d)
  BY <1>3 DEF Read, TypeOK
<1>4. CASE UNCHANGED device /\ Undisturb(d)
  BY <1>4 DEF Undisturb, TypeOK
<1>5. CASE UNCHANGED <<device, disturbed>>
  BY <1>5
<1>6. Write(d) => Applied(d) \/ UNCHANGED <<device, disturbed>>
  BY DEF Write, Rejected, Lost
<1> QED
  BY <1>1, <1>2, <1>3, <1>4, <1>5, <1>6
  DEF ClientStep, Call, SetProtocolAmmos, SetRxChannel, Login, SetMSR4ByJson,
      JsonThrows, JsonLogin, JsonChannel, JsonStatus

LEMMA OthersKeep ==
  ASSUME TypeOK, JsonRuns, NEW c \in Clients, NEW d \in Clients \ {c},
         ClientStep(d)
  PROVE  /\ Fresh(c) => Fresh(c)'
         /\ Okay(c) => Okay(c)'
         /\ Progress(c) => Progress(c)'
<1>1. Alone(d)
  BY StepTyped
<1> QED
  BY <1>1, OthersDisturb DEF Alone, Fresh, Okay, Progress

(* A message taken over by the device changes one setting, unless its      *)
(* client is disturbed.                                                    *)
LEMMA AppliedField ==
  ASSUME TypeOK, NEW c \in Clients, Fresh(c), pc[c] = "write", Applied(c)
  PROVE  /\ token[c] /\ disturbed'[c] = disturbed[c]
         /\ device'[chan[c]][call[c].field] = call[c].value
         /\ \A ch \in Channels \ {chan[c]} : device'[ch] = device[ch]
         /\ ~disturbed[c] =>
              \A f \in Field \ {call[c].field} :
                device'[chan[c]][f] = device[chan[c]][f]
<1>1. /\ call[c].field \in Field /\ chan[c] \in Channels /\ token[c]
      /\ device \in [Channels -> [Field -> Values]]
      /\ device' = [device EXCEPT ![chan[c]] = Written(c)]
      /\ disturbed'[c] = disturbed[c]
  BY DEF TypeOK, Applied
<1>2. device'[chan[c]] = Written(c)
  BY <1>1
<1>3. Written(c)[call[c].field] = call[c].value
  BY <1>1 DEF Written
<1>4. ASSUME NEW f \in Field, f # call[c].field, ~disturbed[c]
      PROVE  Written(c)[f] = device[chan[c]][f]
  BY <1>1, <1>4 DEF Written, Fresh
<1>5. ASSUME NEW ch \in Channels, ch # chan[c] PROVE device'[ch] = device[ch]
  BY <1>1, <1>5
<1> QED
  BY <1>1, <1>2, <1>3, <1>4, <1>5

(* After Continue no setting is claimed that was not there before.         *)
LEMMA ContinueOne ==
  ASSUME TypeOK, NEW c \in Clients, NEW k \in 1 .. 8, Continue(c, k)
  PROVE  /\ step' = [step EXCEPT ![c] = k]
         /\ pc'[c] = "write" => call'[c].field = "band"
<1>1. CASE \E r : Finish(c, k, r)
  BY <1>1 DEF Finish, TypeOK
<1>2. CASE \E f, v : Begin(c, f, v, k)
  BY <1>2 DEF Begin, FirstStep, TypeOK
<1> QED
  BY <1>1, <1>2 DEF Continue

LEMMA BandAlone == Message("band") \ {"band"} = {}
BY DEF Message, Udp, Rf

(* When a setter has returned, the next may write without having read, but *)
(* only the bandwidth.                                                     *)
LEMMA WriteFresh ==
  ASSUME TypeOK, JsonRuns, NEW c \in Clients, Write(c)
  PROVE  Fresh(c)'
<1>1. pc[c] = "write" /\ \E code \in {0, 1} : Return(c, code)
  BY DEF Write
<1>2. CASE \E k, r : Finish(c, k, r)
  BY <1>2 DEF Finish, TypeOK, Fresh
<1>3. CASE step[c] \in 1 .. 7 /\ Continue(c, step[c] + 1)
  <2>1. step[c] + 1 \in 1 .. 8
    BY <1>3
  <2>2. pc'[c] = "write" => call'[c].field = "band"
    BY <1>3, <2>1, ContinueOne
  <2> QED
    BY <2>2, BandAlone DEF Fresh
<1> QED
  BY <1>1, <1>2, <1>3, ReturnCases

LEMMA FreshKept ==
  ASSUME TypeOK, JsonRuns, NEW c \in Clients, Fresh(c), [Next]_vars
  PROVE  Fresh(c)'
<1>1. ASSUME NEW d \in Clients \ {c}, ClientStep(d) PROVE Fresh(c)'
  BY <1>1, OthersKeep
<1>2. ASSUME ClientStep(c) PROVE Fresh(c)'
  <2>1. ASSUME NEW f \in Field, NEW v \in Values, Call(c, f, v)
        PROVE  Fresh(c)'
    <3>1. pc'[c] = "write" => call'[c].field = "band"
      BY <2>1 DEF Call, Begin, FirstStep, TypeOK
    <3> QED
      BY <3>1, BandAlone DEF Fresh
  <2>2. CASE pc'[c] # "write"
    BY <2>2 DEF Fresh
  <2>3. CASE Read(c)
    <3>1. /\ UNCHANGED <<device, chan, call>> /\ call[c].field \in Field
          /\ ~disturbed'[c] =>
               buf'[c] = Part(device[chan[c]], call[c].field)
      BY <2>3 DEF Read, TypeOK
    <3>2. \A f \in Message(call[c].field) : f \in Field
      BY <3>1 DEF Message, Udp, Rf, Field
    <3> QED
      BY <3>1, <3>2 DEF Part, Fresh
  <2>4. CASE Write(c)
    BY <2>4, WriteFresh
  <2>5. CASE JsonStatus(c)
    <3>1. PICK k \in {1, 2} : Continue(c, k)
      BY <2>5 DEF JsonStatus
    <3>2. pc'[c] = "write" => call'[c].field = "band"
      BY <3>1, ContinueOne
    <3> QED
      BY <3>2, BandAlone DEF Fresh
  <2>6. ASSUME \/ SetProtocolAmmos(c) \/ Login(c) \/ JsonLogin(c)
               \/ JsonChannel(c) \/ \E ch \in Channels : SetRxChannel(c, ch)
               \/ \E j : SetMSR4ByJson(c, j) \/ JsonThrows(c, j)
        PROVE  pc'[c] # "write"
    BY <2>6 DEF SetProtocolAmmos, Login, JsonLogin, JsonChannel, SetRxChannel,
                SetMSR4ByJson, JsonThrows, Finish, TypeOK
  <2> QED
    BY <1>2, <2>1, <2>2, <2>3, <2>4, <2>5, <2>6, ConfigAssumption DEF ClientStep
<1>3. CASE UNCHANGED vars
  BY <1>3 DEF vars, Fresh
<1> QED
  BY <1>1, <1>2, <1>3 DEF Next

Freshness == TypeOK /\ JsonRuns /\ \A c \in Clients : Fresh(c)

LEMMA FreshInvariant == Spec => []Freshness
<1>1. Init => Freshness
  BY InitTyped, InitJsonRuns DEF Init, Fresh, Freshness
<1>2. Freshness /\ [Next]_vars => Freshness'
  BY NextTyped, FreshKept DEF Freshness
<1> QED
  BY <1>1, <1>2, PTL DEF Spec

(* A setter changes its own setting and no other, unless its Get failed or *)
(* another client changed the channel meanwhile; nothing else changes any. *)
(* Any number of clients, any faults.                                      *)
THEOREM OneFieldOnly == Spec => SingleFieldChanges
<1>1. ASSUME Freshness, NEW c \in Clients, ClientStep(c),
             NEW ch \in Channels, NEW f \in Field, device'[ch][f] # device[ch][f]
      PROVE  /\ pc[c] = "write" /\ chan[c] = ch
             /\ ~disturbed[c] => call[c] = [field |-> f, value |-> device'[ch][f]]
  <2>1. Write(c)
    BY <1>1 DEF ClientStep, Call, SetProtocolAmmos, SetRxChannel, Login, Read,
                SetMSR4ByJson, JsonThrows, JsonLogin, JsonChannel, JsonStatus
  <2>2. pc[c] = "write" /\ Applied(c)
    BY <1>1, <2>1 DEF Write, Rejected, Lost
  <2>3. /\ ch = chan[c]
        /\ ~disturbed[c] => f = call[c].field /\ device'[ch][f] = call[c].value
    BY <1>1, <2>2, AppliedField DEF Freshness
  <2> QED
    BY <1>1, <2>2, <2>3 DEF Freshness, TypeOK
<1>2. Freshness /\ [Next]_vars => [OnlyCalledSetting]_vars
  BY <1>1 DEF Next, OnlyCalledSetting
<1> QED
  BY <1>2, FreshInvariant, PTL DEF Spec, SingleFieldChanges

(* What a disturbed setter can do wrong is confined to the settings of its *)
(* own message on its own channel, and its own setting is always right:    *)
(* any number of clients, any faults, no further condition.                *)
THEOREM HarmConfined == Spec => HarmStaysInMessage
<1>1. ASSUME Freshness, NEW c \in Clients, ClientStep(c),
             NEW ch \in Channels, device'[ch] # device[ch]
      PROVE  /\ pc[c] = "write" /\ chan[c] = ch
             /\ device'[ch][call[c].field] = call[c].value
             /\ \A f \in Field \ Message(call[c].field) :
                  device'[ch][f] = device[ch][f]
  <2>1. Write(c)
    BY <1>1 DEF ClientStep, Call, SetProtocolAmmos, SetRxChannel, Login, Read,
                SetMSR4ByJson, JsonThrows, JsonLogin, JsonChannel, JsonStatus
  <2>2. pc[c] = "write" /\ Applied(c)
    BY <1>1, <2>1 DEF Write, Rejected, Lost
  <2>3. ch = chan[c] /\ device'[ch][call[c].field] = call[c].value
    BY <1>1, <2>2, AppliedField DEF Freshness
  <2>4. /\ device \in [Channels -> [Field -> Values]]
        /\ device' = [device EXCEPT ![ch] = Written(c)]
        /\ call[c].field \in Message(call[c].field)
    BY <1>1, <2>2, <2>3 DEF Freshness, TypeOK, Applied, Message
  <2>5. ASSUME NEW f \in Field \ Message(call[c].field)
        PROVE  device'[ch][f] = device[ch][f]
    BY <2>3, <2>4 DEF Written
  <2> QED
    BY <2>2, <2>3, <2>5
<1>2. Freshness /\ [Next]_vars => [OnlyOwnMessage]_vars
  BY <1>1 DEF Next, OnlyOwnMessage
<1> QED
  BY <1>2, FreshInvariant, PTL DEF Spec, HarmStaysInMessage

-----------------------------------------------------------------------------
(* What is reported, as long as no Set call fails: the device may reject,  *)
(* a Get may fail and other clients may do what they like.                 *)
NoSetFails == "set" \notin Faults

Reported(c) == Okay(c) /\ Progress(c)

(* With a token and no lost Set, code 0 is the device's own.               *)
LEMMA WriteTrue ==
  ASSUME NoSetFails, TypeOK, NEW c \in Clients, Write(c)
  PROVE  /\ disturbed'[c] = disturbed[c]
         /\ \E code \in {0, 1} :
              /\ Return(c, code)
              /\ \/ code = 0 /\ Applied(c)
                 \/ code = 1 /\ UNCHANGED device
                 \/ code = 0 /\ ~token[c] /\ UNCHANGED device
BY DEF Write, Applied, Rejected, Lost, NoSetFails, TypeOK

LEMMA WriteReported ==
  ASSUME NoSetFails, NEW c \in Clients, Freshness, Reported(c), Write(c),
         ~disturbed[c]
  PROVE  Reported(c)'
<1> USE DEF Freshness, Reported
<1>1. /\ pc[c] = "write" /\ UNCHANGED <<token, chan, json>>
      /\ call[c].field \in Field /\ chan[c] \in Channels
  BY DEF Write, TypeOK
<1>2. PICK code \in {0, 1} :
        /\ Return(c, code)
        /\ \/ code = 0 /\ Applied(c)
           \/ code = 1 /\ UNCHANGED device
           \/ code = 0 /\ ~token[c] /\ UNCHANGED device
  BY WriteTrue
<1>3. CASE step[c] = 0
  <2>1. /\ pc'[c] = "idle" /\ step'[c] = 0
        /\ outcome'[c] = "ok" => code = 0 /\ UNCHANGED call
    <3>1. \E r \in {"ok", "error"} : Finish(c, 0, r) /\ (r = "ok" => code = 0)
      <4>1. 0 \notin 1 .. 7
        OBVIOUS
      <4> QED
        BY <1>1, <1>2, <1>3, <4>1, ReturnCases
    <3> QED
      BY <3>1 DEF Finish, TypeOK
  <2>2. Okay(c)'
    BY <1>1, <1>2, <2>1, AppliedField DEF Okay
  <2> QED
    BY <2>1, <2>2 DEF Progress
<1>4. CASE step[c] \in 1 .. 7
  <2>1. /\ token[c]
        /\ call[c] = [field |-> Plan[step[c]],
                      value |-> Settings(json[c])[Plan[step[c]]]]
    BY <1>1, <1>4 DEF JsonRuns, JsonRun
  <2>2. \/ step'[c] = step[c]
        \/ step'[c] = step[c] + 1 /\ (code = 0 \/ step[c] \in {1, 7})
    <3>1. CASE code = 1 /\ step[c] \in 2 .. 6 /\ Finish(c, step[c], "threw")
      BY <3>1 DEF Finish, TypeOK
    <3>2. CASE (code = 0 \/ step[c] \in {1, 7}) /\ Continue(c, step[c] + 1)
      <4>1. step[c] + 1 \in 1 .. 8
        BY <1>4
      <4>2. step' = [step EXCEPT ![c] = step[c] + 1]
        BY <3>2, <4>1, ContinueOne
      <4> QED
        BY <3>2, <4>2 DEF TypeOK
    <3> QED
      BY <1>1, <1>2, <1>4, <3>1, <3>2, ReturnCases
  <2>3. step'[c] # 0
    BY <1>4, <2>2
  <2>4. ASSUME NEW k \in 2 .. 6, k < step'[c]
        PROVE  device'[chan[c]][Plan[k]] = Settings(json[c])[Plan[k]]
    <3>1. Plan[k] \in Field
      BY PlanFields
    <3>2. CASE k < step[c]
      <4>1. Plan[k] # Plan[step[c]]
        BY <1>4, <3>2, PlanFields
      <4>2. device'[chan[c]][Plan[k]] = device[chan[c]][Plan[k]]
        BY <1>1, <1>2, <2>1, <3>1, <4>1, AppliedField
      <4> QED
        BY <3>2, <4>2 DEF Progress
    <3>3. CASE k = step[c]
      <4>1. code = 0 /\ Applied(c)
        BY <1>2, <2>1, <2>2, <2>4, <3>3, <1>4
      <4> QED
        BY <1>1, <2>1, <3>3, <4>1, AppliedField
    <3> QED
      BY <1>4, <2>2, <2>4, <3>2, <3>3
  <2>5. Progress(c)'
    BY <1>1, <2>4 DEF Progress
  <2> QED
    BY <2>3, <2>5 DEF Okay
<1> QED
  BY <1>1, <1>3, <1>4 DEF JsonRuns, JsonRun

LEMMA ReportedKept ==
  ASSUME NoSetFails, NEW c \in Clients, Freshness, Reported(c), [Next]_vars
  PROVE  Reported(c)'
<1> USE DEF Freshness, Reported
<1>1. ASSUME NEW d \in Clients \ {c}, ClientStep(d) PROVE Reported(c)'
  BY <1>1, OthersKeep
<1>2. ASSUME ClientStep(c) PROVE Reported(c)'
  <2>1. CASE disturbed'[c]
    BY <2>1 DEF Okay, Progress
  <2>2. CASE step'[c] \in {0, 1, 2} /\ outcome'[c] # "ok"
    BY <2>2 DEF Okay, Progress
  <2>3. ASSUME \/ SetProtocolAmmos(c)
               \/ \E j : SetMSR4ByJson(c, j) \/ JsonThrows(c, j)
               \/ \E ch \in Channels : SetRxChannel(c, ch)
               \/ \E f \in Field, v \in Values : Call(c, f, v)
        PROVE  step'[c] = 0 /\ outcome'[c] # "ok"
    BY <2>3 DEF SetProtocolAmmos, SetMSR4ByJson, JsonThrows, SetRxChannel, Call,
                Begin, Finish, TypeOK
  <2>4. CASE Login(c)
    <3>1. outcome'[c] # "ok" /\ UNCHANGED <<device, chan, step, json, disturbed>>
      BY <2>4 DEF Login, TypeOK
    <3> QED
      BY <3>1 DEF Okay, Progress
  <2>5. CASE Read(c)
    <3>1. /\ UNCHANGED <<device, token, chan, call, step, json, outcome>>
          /\ disturbed[c] => disturbed'[c]
      BY <2>5 DEF Read, TypeOK
    <3> QED
      BY <3>1 DEF Okay, Progress
  <2>6. CASE JsonLogin(c) \/ JsonChannel(c)
    <3>1. step[c] = 0 /\ outcome[c] = "none"
      BY <2>6 DEF JsonLogin, JsonChannel, JsonRuns, JsonRun
    <3>2. step'[c] = 0 /\ outcome'[c] # "ok"
      BY <2>6, <3>1 DEF JsonLogin, JsonChannel, Finish, TypeOK
    <3> QED
      BY <2>2, <3>2
  <2>7. CASE JsonStatus(c)
    <3>1. PICK k \in {1, 2} : Continue(c, k)
      BY <2>7 DEF JsonStatus
    <3>2. step'[c] \in {1, 2}
      BY <3>1, ContinueOne DEF TypeOK
    <3> QED
      BY <3>2 DEF Okay, Progress
  <2>8. CASE Write(c)
    <3>1. disturbed'[c] = disturbed[c]
      BY <2>8, WriteTrue
    <3> QED
      BY <2>1, <2>8, <3>1, WriteReported
  <2> QED
    BY <1>2, <2>2, <2>3, <2>4, <2>5, <2>6, <2>7, <2>8, ConfigAssumption
    DEF ClientStep
<1>3. CASE UNCHANGED vars
  BY <1>3 DEF vars, Okay, Progress
<1> QED
  BY <1>1, <1>2, <1>3 DEF Next

ReportInv == Freshness /\ \A c \in Clients : Reported(c)

LEMMA ReportInvariant == ASSUME NoSetFails PROVE Spec => []ReportInv
<1>1. Init => ReportInv
  BY InitTyped, InitJsonRuns
  DEF Init, Freshness, Fresh, Reported, Okay, Progress, ReportInv
<1>2. ReportInv /\ [Next]_vars => ReportInv'
  BY NextTyped, FreshKept, ReportedKept DEF Freshness, ReportInv
<1> QED
  BY <1>1, <1>2, PTL DEF Spec

(* Code 0 of a setter of a logged-in client means that the device has the  *)
(* value, if no Set call fails and nobody disturbs.                        *)
THEOREM OkIsApplied == ASSUME NoSetFails PROVE Spec => []OkMeansApplied
<1>1. ReportInv => OkMeansApplied
  BY DEF ReportInv, Reported, Okay, OkMeansApplied
<1> QED
  BY <1>1, ReportInvariant, PTL

LEMMA SettingsFollow ==
  ASSUME NEW j, NEW k \in 2 .. 7
  PROVE  AsFileSays(j, Plan[k], Settings(j)[Plan[k]])
<1>1. Plan[k] \in Field /\ Plan[k] # "streaming"
  <2>1. k \in 1 .. 7 /\ 1 \in 1 .. 7 /\ k # 1
    OBVIOUS
  <2> QED
    BY <2>1, PlanFacts, PlanFields
<1>2. Settings(j)[Plan[k]] = Member(j, Plan[k])
  BY <1>1 DEF Settings
<1> QED
  BY <1>2 DEF AsFileSays, Member

(* What SetMSR4ByJson has checked is in the device, where it stops by an   *)
(* exception included, if no Set call fails and nobody disturbs.           *)
THEOREM JsonStepsApplied == ASSUME NoSetFails PROVE Spec => []JsonProgress
<1>1. ReportInv => JsonProgress
  BY SettingsFollow, PlanFacts DEF ReportInv, Reported, Progress, JsonProgress
<1> QED
  BY <1>1, ReportInvariant, PTL

-----------------------------------------------------------------------------
(* What a normal return of SetMSR4ByJson is worth, although two codes are  *)
(* not looked at: the device rejects a setting only where it streams.      *)
NoRejections == "reject" \notin Faults

(* While the device streams the last setter may be rejected, and only then. *)
Complete(c) ==
  /\ outcome[c] = "ok" /\ step[c] = 8 /\ ~disturbed[c]
  /\ device[chan[c]]["streaming"] # 1
  => device[chan[c]]["proto"] = Settings(json[c])["proto"]

LEMMA OthersLeave ==
  ASSUME TypeOK, JsonRuns, NEW c \in Clients, NEW d \in Clients \ {c},
         ClientStep(d)
  PROVE  /\ pc'[c] = pc[c] /\ call'[c] = call[c] /\ step'[c] = step[c]
         /\ token'[c] = token[c] /\ json'[c] = json[c]
         /\ outcome'[c] = outcome[c] /\ chan'[c] = chan[c] /\ buf'[c] = buf[c]
         /\ \/ disturbed'[c]
            \/ disturbed'[c] = disturbed[c] /\ device'[chan[c]] = device[chan[c]]
<1>1. Alone(d)
  BY StepTyped
<1> QED
  BY <1>1, OthersDisturb DEF Alone

(* A step of client c that ends a SetMSR4ByJson is its last setter's.      *)
LEMMA EndOfPlan ==
  ASSUME TypeOK, JsonRuns, NEW c \in Clients, ClientStep(c),
         outcome'[c] = "ok", step'[c] = 8
  PROVE  Write(c) /\ step[c] = 7 /\ token[c]
<1>1. ASSUME \/ SetProtocolAmmos(c) \/ Login(c)
             \/ \E j : SetMSR4ByJson(c, j) \/ JsonThrows(c, j)
             \/ \E ch \in Channels : SetRxChannel(c, ch)
             \/ \E f \in Field, v \in Values : Call(c, f, v)
      PROVE  outcome'[c] # "ok"
  BY <1>1 DEF SetProtocolAmmos, Login, SetMSR4ByJson, JsonThrows, SetRxChannel,
              Call, Begin, Finish, TypeOK
<1>2. CASE JsonLogin(c) \/ JsonChannel(c) \/ Read(c)
  <2>1. outcome[c] = "none"
    BY <1>2 DEF JsonLogin, JsonChannel, Read, JsonRuns, JsonRun
  <2> QED
    BY <1>2, <2>1 DEF JsonLogin, JsonChannel, Read, Finish, TypeOK
<1>3. CASE JsonStatus(c)
  <2>1. PICK k \in {1, 2} : Continue(c, k)
    BY <1>3 DEF JsonStatus
  <2>2. step'[c] \in {1, 2}
    BY <2>1, ContinueOne DEF TypeOK
  <2> QED
    BY <2>2
<1>4. CASE Write(c)
  <2>1. PICK code \in {0, 1} : Return(c, code)
    BY <1>4 DEF Write
  <2>2. pc[c] = "write"
    BY <1>4 DEF Write
  <2>3. CASE \E k \in 0 .. 7 : \E r : Finish(c, k, r)
    BY <2>3 DEF Finish, TypeOK
  <2>4. CASE step[c] \in 1 .. 7 /\ token[c] /\ Continue(c, step[c] + 1)
    <3>1. step[c] + 1 \in 1 .. 8
      BY <2>4
    <3>2. step'[c] = step[c] + 1
      BY <2>4, <3>1, ContinueOne DEF TypeOK
    <3> QED
      BY <1>4, <2>4, <3>2
  <2> QED
    BY <2>1, <2>2, <2>3, <2>4, ReturnCases
<1> QED
  BY <1>1, <1>2, <1>3, <1>4, ConfigAssumption DEF ClientStep

(* The protocol setter of SetMSR4ByJson works unless the channel streams.  *)
LEMMA LastSetter ==
  ASSUME NoSetFails, NoRejections, Freshness, NEW c \in Clients, Write(c),
         step[c] = 7, token[c], ~disturbed[c],
         device'[chan[c]]["streaming"] # 1
  PROVE  device'[chan[c]]["proto"] = Settings(json[c])["proto"]
<1> USE DEF Freshness
<1>1. /\ pc[c] = "write"
      /\ call[c] = [field |-> "proto", value |-> Settings(json[c])["proto"]]
  BY PlanFacts DEF Write, JsonRuns, JsonRun
<1>2. CASE Applied(c)
  BY <1>1, <1>2, AppliedField
<1>3. CASE Rejected(c)
  BY <1>3 DEF Rejected, Accepts, NoRejections
<1> QED
  BY <1>2, <1>3 DEF Write, Lost, NoSetFails

LEMMA CompleteKept ==
  ASSUME NoSetFails, NoRejections, Freshness, NEW c \in Clients, Complete(c),
         [Next]_vars
  PROVE  Complete(c)'
<1> USE DEF Freshness
<1>1. ASSUME NEW d \in Clients \ {c}, ClientStep(d) PROVE Complete(c)'
  BY <1>1, OthersLeave DEF Complete
<1>2. ASSUME ClientStep(c), outcome'[c] = "ok", step'[c] = 8, ~disturbed'[c],
             device'[chan'[c]]["streaming"] # 1
      PROVE  device'[chan'[c]]["proto"] = Settings(json'[c])["proto"]
  <2>1. Write(c) /\ step[c] = 7 /\ token[c]
    BY <1>2, EndOfPlan
  <2>2. UNCHANGED <<chan, json>> /\ ~disturbed[c]
    BY <1>2, <2>1, WriteTrue DEF Write
  <2> QED
    BY <1>2, <2>1, <2>2, LastSetter
<1>3. CASE UNCHANGED vars
  BY <1>3 DEF vars, Complete
<1> QED
  BY <1>1, <1>2, <1>3 DEF Next, Complete

(* A normal return of SetMSR4ByJson and a channel that does not stream     *)
(* mean that the file was followed to its end: the unchecked protocol      *)
(* setter is rejected only by a channel that streams.  Get calls may fail. *)
THEOREM JsonFollowed ==
  ASSUME NoSetFails, NoRejections PROVE Spec => []JsonComplete
<1> DEFINE CInv == ReportInv /\ \A c \in Clients : Complete(c)
<1>1. Init => CInv
  BY InitTyped, InitJsonRuns
  DEF Init, Freshness, Fresh, Reported, Okay, Progress, ReportInv, Complete
<1>2. CInv /\ [Next]_vars => CInv'
  BY NextTyped, FreshKept, ReportedKept, CompleteKept DEF Freshness, ReportInv
<1>3. CInv => JsonComplete
  <2>1. ASSUME CInv, NEW c \in Clients, outcome[c] = "ok", step[c] > Len(Plan),
               ~disturbed[c], device[chan[c]]["streaming"] # 1,
               NEW k \in 2 .. Len(Plan)
        PROVE  AsFileSays(json[c], Plan[k], device[chan[c]][Plan[k]])
    <3>1. step[c] = 8 /\ k \in 2 .. 7
      BY <2>1, StepRange, PlanFacts DEF ReportInv, Freshness
    <3>2. device[chan[c]][Plan[k]] = Settings(json[c])[Plan[k]]
      <4>1. CASE k = 7
        BY <2>1, <3>1, <4>1, PlanFacts DEF Complete
      <4>2. CASE k \in 2 .. 6
        BY <2>1, <3>1, <4>2 DEF ReportInv, Reported, Progress
      <4> QED
        BY <3>1, <4>1, <4>2
    <3> QED
      BY <3>1, <3>2, SettingsFollow
  <2> QED
    BY <2>1 DEF JsonComplete
<1> QED
  BY <1>1, <1>2, <1>3, PTL DEF Spec

-----------------------------------------------------------------------------
(* SetMSR4ByJson stops the streaming first, if the channel's status says   *)
(* that it streams; when no call fails it has stopped it.                  *)
NoFaults == Faults = {}

Stopped(c) == step[c] > 1 /\ ~disturbed[c] => device[chan[c]]["streaming"] # 1

(* The device takes the end of the streaming from a client that has read   *)
(* the channel's settings.                                                 *)
LEMMA StopAccepted ==
  ASSUME Freshness, NEW c \in Clients, pc[c] = "write", ~disturbed[c],
         call[c].field = "streaming"
  PROVE  Accepts(device[chan[c]], Written(c))
<1> SUFFICES ASSUME NEW f \in Field \ {"streaming"}
             PROVE  device[chan[c]][f] = Written(c)[f]
  BY DEF Accepts
<1> QED
  BY DEF Written, Freshness, Fresh

LEMMA StopStep ==
  ASSUME NoFaults, Freshness, NEW c \in Clients, Stopped(c), ClientStep(c),
         step'[c] > 1, ~disturbed'[c]
  PROVE  device'[chan'[c]]["streaming"] # 1
<1> USE DEF Freshness
<1>1. CASE \/ SetProtocolAmmos(c)
           \/ \E j : SetMSR4ByJson(c, j) \/ JsonThrows(c, j)
           \/ \E ch \in Channels : SetRxChannel(c, ch)
           \/ \E f \in Field, v \in Values : Call(c, f, v)
  <2>1. step'[c] = 0
    BY <1>1 DEF SetProtocolAmmos, SetMSR4ByJson, JsonThrows, SetRxChannel, Call,
                Begin, Finish, TypeOK
  <2> QED
    BY <2>1
<1>2. CASE Login(c) \/ Read(c)
  <2>1. UNCHANGED <<device, chan, step>> /\ ~disturbed[c]
    BY <1>2 DEF Login, Read, TypeOK
  <2> QED
    BY <2>1 DEF Stopped
<1>3. CASE JsonLogin(c) \/ JsonChannel(c)
  <2>1. step'[c] = 0
    BY <1>3 DEF JsonLogin, JsonChannel, Finish, JsonRuns, JsonRun, TypeOK
  <2> QED
    BY <2>1
<1>4. CASE JsonStatus(c)
  <2>1. token[c] /\ UNCHANGED <<device, chan>>
    BY <1>4 DEF JsonStatus, JsonRuns, JsonRun
  <2>2. Continue(c, IF device[chan[c]]["streaming"] = 1 THEN 1 ELSE 2)
    BY <1>4, <2>1 DEF JsonStatus, Answers, NoFaults
  <2>3. CASE device[chan[c]]["streaming"] = 1
    <3>1. step'[c] = 1
      BY <2>2, <2>3, ContinueOne DEF TypeOK
    <3> QED
      BY <3>1
  <2> QED
    BY <2>1, <2>3
<1>5. CASE Write(c)
  <2>1. /\ pc[c] = "write" /\ UNCHANGED <<token, chan, json>>
        /\ step[c] \in Nat /\ chan[c] \in Channels
    BY <1>5, StepRange DEF Write, TypeOK
  <2>2. ~disturbed[c]
    BY <1>5 DEF Write, Applied, Rejected, Lost, TypeOK
  <2>3. step[c] \in 1 .. 7 /\ token[c] /\ step'[c] \in {step[c], step[c] + 1}
    <3>1. PICK code \in {0, 1} : Return(c, code)
      BY <1>5 DEF Write
    <3>2. CASE \E r : Finish(c, 0, r)
      <4>1. step'[c] = 0
        BY <3>2 DEF Finish, TypeOK
      <4> QED
        BY <4>1
    <3>3. CASE step[c] \in 1 .. 7 /\ token[c] /\ Finish(c, step[c], "threw")
      BY <3>3 DEF Finish, TypeOK
    <3>4. CASE step[c] \in 1 .. 7 /\ token[c] /\ Continue(c, step[c] + 1)
      <4>1. step[c] + 1 \in 1 .. 8
        BY <3>4
      <4> QED
        BY <3>4, <4>1, ContinueOne DEF TypeOK
    <3> QED
      BY <2>1, <3>1, <3>2, <3>3, <3>4, ReturnCases
  <2>4. call[c] = [field |-> Plan[step[c]],
                   value |-> Settings(json[c])[Plan[step[c]]]]
    BY <2>1, <2>3 DEF JsonRuns, JsonRun
  <2>5. CASE step[c] = 1
    <3>1. call[c] = [field |-> "streaming", value |-> 0]
      BY <2>4, <2>5, PlanFacts DEF Settings, Field, Udp
    <3>2. Applied(c)
      BY <1>5, <2>1, <2>2, <2>3, <3>1, StopAccepted
      DEF Write, Rejected, Lost, NoFaults
    <3> QED
      BY <2>1, <3>1, <3>2, AppliedField
  <2>6. CASE step[c] > 1
    <3>1. call[c].field # "streaming"
      <4>1. step[c] # 1
        BY <2>3, <2>6
      <4> QED
        BY <2>3, <2>4, <4>1, PlanFields, PlanFacts
    <3>2. device'[chan[c]]["streaming"] = device[chan[c]]["streaming"]
      BY <1>5, <2>1, <2>2, <3>1, AppliedField
      DEF Write, Rejected, Lost, Field, Udp
    <3> QED
      BY <2>1, <2>2, <2>6, <3>2 DEF Stopped
  <2> QED
    BY <2>3, <2>5, <2>6
<1> QED
  BY <1>1, <1>2, <1>3, <1>4, <1>5, ConfigAssumption DEF ClientStep

(* When SetMSR4ByJson returns, its channel is not streaming, if no call    *)
(* fails, the device rejects nothing for reasons of its own and nobody     *)
(* disturbs: the first setter, the code of which it ignores, has worked.   *)
JsonStopsStreaming ==
  \A c \in Clients :
    outcome[c] = "ok" /\ step[c] > Len(Plan) /\ ~disturbed[c] =>
      device[chan[c]]["streaming"] # 1

LEMMA StoppedInvariant ==
  ASSUME NoFaults PROVE Spec => [](\A c \in Clients : Stopped(c))
<1> DEFINE SInv == Freshness /\ \A c \in Clients : Stopped(c)
<1>1. Init => SInv
  BY InitTyped, InitJsonRuns DEF Init, Freshness, Fresh, Stopped
<1>2. ASSUME SInv, [Next]_vars, NEW c \in Clients PROVE Stopped(c)'
  <2>1. ASSUME NEW d \in Clients \ {c}, ClientStep(d) PROVE Stopped(c)'
    BY <1>2, <2>1, OthersLeave DEF Stopped, Freshness
  <2>2. CASE ClientStep(c)
    BY <1>2, <2>2, StopStep DEF Stopped
  <2>3. CASE UNCHANGED vars
    BY <1>2, <2>3 DEF vars, Stopped
  <2> QED
    BY <1>2, <2>1, <2>2, <2>3 DEF Next
<1>3. SInv /\ [Next]_vars => SInv'
  BY <1>2, NextTyped, FreshKept DEF Freshness
<1>4. SInv => \A c \in Clients : Stopped(c)
  OBVIOUS
<1> QED
  BY <1>1, <1>3, <1>4, PTL DEF Spec

THEOREM JsonStops == ASSUME NoFaults PROVE Spec => []JsonStopsStreaming
<1>1. TypeOK /\ JsonRuns /\ (\A c \in Clients : Stopped(c)) => JsonStopsStreaming
  BY StepRange, PlanFacts DEF Stopped, JsonStopsStreaming
<1> QED
  BY <1>1, StoppedInvariant, ConfigTyping, PTL

-----------------------------------------------------------------------------
(* A client that nobody shares the device with, and whose Get calls        *)
(* succeed, is never disturbed in a call it is logged in for: for it the   *)
(* properties hold without an "unless".                                    *)
OneClient  == \A c, d \in Clients : c = d
NoGetFails == "get" \notin Faults

Calm(c) ==
  \/ pc[c] = "login"
  \/ token[c] /\ (pc[c] # "idle" \/ outcome[c] = "ok")
  \/ step[c] # 0
  => ~disturbed[c]

LEMMA CalmKept ==
  ASSUME OneClient, NoGetFails, TypeOK, JsonRuns, NEW c \in Clients, Calm(c),
         [Next]_vars
  PROVE  Calm(c)'
<1>1. CASE UNCHANGED vars
  BY <1>1 DEF vars, Calm
<1>2. CASE Undisturb(c)
  BY <1>2 DEF Undisturb, Calm, TypeOK
<1>3. CASE Login(c)
  BY <1>3 DEF Login, Calm, TypeOK
<1>4. CASE Read(c)
  <2>1. pc[c] = "read" /\ UNCHANGED <<token, step, outcome>>
    BY <1>4 DEF Read
  <2>2. CASE token[c]
    <3>1. Answers(c) = {device[chan[c]]}
      BY <2>2 DEF Answers, NoGetFails
    <3>2. buf'[c] = Part(device[chan[c]], call[c].field)
      BY <1>4, <3>1 DEF Read, TypeOK
    <3>3. disturbed'[c] = disturbed[c]
      BY <1>4, <3>2 DEF Read, TypeOK
    <3> QED
      BY <2>1, <2>2, <3>3 DEF Calm
  <2>3. CASE ~token[c]
    <3>1. step[c] = 0 /\ pc'[c] = "write"
      BY <1>4, <2>1, <2>3 DEF Read, JsonRuns, JsonRun, TypeOK
    <3> QED
      BY <2>1, <2>3, <3>1 DEF Calm
  <2> QED
    BY <2>2, <2>3
<1>5. CASE Write(c)
  <2>1. pc[c] = "write" /\ UNCHANGED token /\ disturbed'[c] = disturbed[c]
    BY <1>5 DEF Write, Applied, Rejected, Lost, TypeOK
  <2>2. CASE token[c]
    BY <2>1, <2>2 DEF Calm
  <2>3. CASE ~token[c]
    <3>1. step[c] = 0
      BY <2>1, <2>3 DEF JsonRuns, JsonRun
    <3>2. PICK code \in {0, 1} : Return(c, code)
      BY <1>5 DEF Write
    <3>3. \E r : Finish(c, 0, r)
      BY <3>1, <3>2 DEF Return
    <3>4. step'[c] = 0 /\ pc'[c] = "idle"
      BY <3>3 DEF Finish, TypeOK
    <3> QED
      BY <2>1, <2>3, <3>4 DEF Calm
  <2> QED
    BY <2>2, <2>3
<1>6. CASE JsonLogin(c)
  BY <1>6 DEF JsonLogin, Calm, TypeOK
<1>7. CASE JsonChannel(c) \/ JsonStatus(c)
  <2>1. token[c] /\ pc[c] # "idle" /\ UNCHANGED disturbed
    BY <1>7 DEF JsonChannel, JsonStatus, JsonRuns, JsonRun
  <2> QED
    BY <2>1 DEF Calm
<1>8. [Next]_vars => ClientStep(c) \/ UNCHANGED vars
  BY DEF Next, OneClient
<1>9. ClientStep(c) => \/ Undisturb(c) \/ Login(c) \/ Read(c) \/ Write(c)
                       \/ JsonLogin(c) \/ JsonChannel(c) \/ JsonStatus(c)
  BY DEF ClientStep, Call, SetProtocolAmmos, SetRxChannel, SetMSR4ByJson,
         JsonThrows
<1> QED
  BY <1>1, <1>2, <1>3, <1>4, <1>5, <1>6, <1>7, <1>8, <1>9

LEMMA CalmInvariant ==
  ASSUME OneClient, NoGetFails PROVE Spec => [](\A c \in Clients : Calm(c))
<1> DEFINE AInv == TypeOK /\ JsonRuns /\ \A c \in Clients : Calm(c)
<1>1. Init => AInv
  BY InitTyped, InitJsonRuns DEF Init, Calm
<1>2. AInv /\ [Next]_vars => AInv'
  BY NextTyped, CalmKept
<1>3. AInv => \A c \in Clients : Calm(c)
  OBVIOUS
<1> QED
  BY <1>1, <1>2, <1>3, PTL DEF Spec

(* What changes in the device is what a setter of the client was called    *)
(* for, with no exception (README.md:79).                                  *)
ExactlyCalledSetting ==
  \A ch \in Channels, f \in Field :
    device'[ch][f] # device[ch][f] =>
      \E c \in Clients :
        /\ pc[c] = "write" /\ chan[c] = ch
        /\ call[c] = [field |-> f, value |-> device'[ch][f]]

(* A client alone: a setter of IqClient changes its setting and no other,  *)
(* logged in or not, whatever Set calls fail or are rejected.              *)
THEOREM SetterAlone ==
  ASSUME OneClient, NoGetFails PROVE Spec => [][ExactlyCalledSetting]_vars
<1> DEFINE Quiet == \A c \in Clients : Calm(c)
<1>1. ASSUME Freshness, Quiet, NEW c \in Clients, ClientStep(c),
             NEW ch \in Channels, NEW f \in Field, device'[ch][f] # device[ch][f]
      PROVE  /\ pc[c] = "write" /\ chan[c] = ch
             /\ call[c] = [field |-> f, value |-> device'[ch][f]]
  <2>1. Write(c)
    BY <1>1 DEF ClientStep, Call, SetProtocolAmmos, SetRxChannel, Login, Read,
                SetMSR4ByJson, JsonThrows, JsonLogin, JsonChannel, JsonStatus
  <2>2. pc[c] = "write" /\ Applied(c) /\ token[c]
    BY <1>1, <2>1 DEF Write, Rejected, Lost, Applied
  <2>3. ~disturbed[c]
    BY <1>1, <2>2 DEF Calm
  <2>4. ch = chan[c] /\ f = call[c].field /\ device'[ch][f] = call[c].value
    BY <1>1, <2>2, <2>3, AppliedField DEF Freshness
  <2> QED
    BY <1>1, <2>2, <2>4 DEF Freshness, TypeOK
<1>2. Freshness /\ Quiet /\ [Next]_vars => [ExactlyCalledSetting]_vars
  BY <1>1 DEF Next, ExactlyCalledSetting
<1> QED
  BY <1>2, FreshInvariant, CalmInvariant, PTL DEF Spec

(* What a client alone may conclude from a normal return: code 0 of a      *)
(* setter it was logged in for means that the device has the value; after  *)
(* SetMSR4ByJson the channel does not stream and all its settings are as   *)
(* the file says.                                                          *)
ReturnsAreTrue ==
  \A c \in Clients :
    outcome[c] = "ok" =>
      /\ step[c] = 0 /\ token[c] =>
           device[chan[c]][call[c].field] = call[c].value
      /\ step[c] > Len(Plan) =>
           /\ device[chan[c]]["streaming"] # 1
           /\ \A k \in 2 .. Len(Plan) :
                AsFileSays(json[c], Plan[k], device[chan[c]][Plan[k]])

(* With one client and no failing calls a return tells the truth.          *)
THEOREM ReturnsAlone ==
  ASSUME OneClient, NoFaults PROVE Spec => []ReturnsAreTrue
<1>1. NoSetFails /\ NoRejections /\ NoGetFails
  BY DEF NoFaults, NoSetFails, NoRejections, NoGetFails
<1>2. ASSUME TypeOK, \A c \in Clients : Calm(c), OkMeansApplied, JsonComplete,
             JsonStopsStreaming, NEW c \in Clients, outcome[c] = "ok"
      PROVE  /\ step[c] = 0 /\ token[c] =>
                  device[chan[c]][call[c].field] = call[c].value
             /\ step[c] > Len(Plan) =>
                  /\ device[chan[c]]["streaming"] # 1
                  /\ \A k \in 2 .. Len(Plan) :
                       AsFileSays(json[c], Plan[k], device[chan[c]][Plan[k]])
  <2>1. step[c] = 0 /\ token[c] => device[chan[c]][call[c].field] = call[c].value
    BY <1>2 DEF Calm, OkMeansApplied
  <2>2. ASSUME step[c] > Len(Plan)
        PROVE  /\ device[chan[c]]["streaming"] # 1
               /\ \A k \in 2 .. Len(Plan) :
                    AsFileSays(json[c], Plan[k], device[chan[c]][Plan[k]])
    <3>1. ~disturbed[c]
      BY <1>2, <2>2, StepRange, PlanFacts DEF Calm
    <3> QED
      BY <1>2, <2>2, <3>1 DEF JsonStopsStreaming, JsonComplete
  <2> QED
    BY <2>1, <2>2
<1>3. (TypeOK /\ (\A c \in Clients : Calm(c)) /\ OkMeansApplied
       /\ JsonComplete /\ JsonStopsStreaming) => ReturnsAreTrue
  BY <1>2 DEF ReturnsAreTrue
<1>4. Spec => [](\A c \in Clients : Calm(c))
  BY <1>1, CalmInvariant
<1>5. Spec => []OkMeansApplied /\ []JsonComplete /\ []JsonStopsStreaming
  BY <1>1, OkIsApplied, JsonFollowed, JsonStops
<1> QED
  BY <1>3, <1>4, <1>5, ConfigTyping, PTL
====================================================================
