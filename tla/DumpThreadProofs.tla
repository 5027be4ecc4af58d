-------------------------- MODULE DumpThreadProofs --------------------------
(* What is proved of DumpThread for any number of streams and packets: its *)
(* types, that the file is a run of packets of one worker, that the lists  *)
(* never run empty, and whose contents a line holds.                       *)
EXTENDS DumpThread, FiniteSetTheorems, TLAPS

-----------------------------------------------------------------------------
(* A line takes what it writes from lists of numbers, or what is in memory.*)
LEMMA FrontType ==
  ASSUME NEW s \in Streams, NEW q \in Seq(Nat)
  PROVE  Front(s, q) \subseteq Nat /\ Rest(q) \in Seq(Nat)
BY DumpAssumption DEF Front, Rest

LEMMA KeepType ==
  ASSUME TypeOK, NEW s \in Streams, NEW p \in Packet, Keep(s, p)
  PROVE  /\ headers' \in [Streams -> Seq(Packet)]
         /\ payload' \in [Streams -> Seq(Nat)] /\ meta' \in [Streams -> Seq(Nat)]
<1>1. /\ Append(headers[s], p) \in Seq(Packet) /\ p.n \in Nat
      /\ Append(payload[s], p.n) \in Seq(Nat) /\ Append(meta[s], p.n) \in Seq(Nat)
  <2>1. p.n \in Nat
    BY DEF Packet
  <2>2. headers[s] \in Seq(Packet) /\ payload[s] \in Seq(Nat) /\ meta[s] \in Seq(Nat)
    BY DEF TypeOK
  <2> QED
    BY <2>1, <2>2
<1>2. headers' \in [Streams -> Seq(Packet)]
  BY <1>1 DEF TypeOK, Keep
<1>3. CASE p.type = "METADATA"
  BY <1>1, <1>2, <1>3 DEF TypeOK, Keep
<1>4. CASE p.type # "METADATA"
  BY <1>1, <1>2, <1>4 DEF TypeOK, Keep
<1> QED
  BY <1>3, <1>4

LEMMA InitType == Init => TypeOK
<1> SUFFICES ASSUME Init PROVE TypeOK
  OBVIOUS
<1>1. <<>> \in Seq(Packet) /\ <<>> \in Seq(Nat) /\ <<>> \in Seq(Line)
  OBVIOUS
<1>2. \A s \in Streams : Len(burst[s]) <= BurstSize
  BY DumpAssumption DEF Init
<1> QED
  BY <1>1, <1>2 DEF Init, TypeOK

LEMMA PollType == ASSUME TypeOK, NEW s \in Streams, Poll(s) PROVE TypeOK'
<1>1. PICK k \in 1 .. BurstSize : PollOf(s, k)
  BY DEF Poll
<1>2. PICK type \in [1 .. k -> Traffic] :
        burst' = [burst EXCEPT ![s] =
                   [j \in 1 .. k |-> [n |-> taken[s] + j, type |-> type[j]]]]
  BY <1>1 DEF PollOf
<1>3. k \in Nat /\ k <= BurstSize
  BY DumpAssumption
<1>4. \A j \in 1 .. k : [n |-> taken[s] + j, type |-> type[j]] \in Packet
  BY <1>2, <1>3, DumpAssumption DEF TypeOK, Packet
<1> DEFINE b == [j \in 1 .. k |-> [n |-> taken[s] + j, type |-> type[j]]]
<1>5. b \in Seq(Packet) /\ Len(b) = k
  BY <1>3, <1>4
<1>6. burst' = [burst EXCEPT ![s] = b]
  BY <1>2
<1> HIDE DEF b
<1>7. /\ burst' \in [Streams -> Seq(Packet)]
      /\ \A u \in Streams : Len(burst'[u]) <= BurstSize
  BY <1>3, <1>5, <1>6 DEF TypeOK
<1> QED
  BY <1>1, <1>7 DEF TypeOK, PollOf, lists, disk

LEMMA TakeType == ASSUME TypeOK, NEW s \in Streams, Take(s) PROVE TypeOK'
<1>1. burst[s] \in Seq(Packet) /\ burst[s] # <<>> /\ burst[s][1] \in Packet
  BY DEF TypeOK, Take
<1>2. /\ headers' \in [Streams -> Seq(Packet)]
      /\ payload' \in [Streams -> Seq(Nat)] /\ meta' \in [Streams -> Seq(Nat)]
  BY <1>1, KeepType DEF Take
<1>3. /\ burst' \in [Streams -> Seq(Packet)]
      /\ \A u \in Streams : Len(burst'[u]) <= BurstSize
  <2>1. Tail(burst[s]) \in Seq(Packet) /\ Len(Tail(burst[s])) <= BurstSize
    BY <1>1, DumpAssumption DEF TypeOK
  <2> QED
    BY <2>1 DEF TypeOK, Take
<1>4. misfit' \in [Streams -> Nat]
  BY <1>1 DEF TypeOK, Take, Packet
<1>5. /\ pc' \in [Streams -> {"loop", "write", "done"}]
      /\ file' \in Seq(Line) /\ opened' \in Nat /\ mixed' \in BOOLEAN
  <2>1. CASE late[s]
    <3>1. /\ pc' = [pc EXCEPT ![s] = "write"]
          /\ file' = <<>> /\ opened' = opened + 1
          /\ mixed' = (mixed \/ \E u \in Streams : pc[u] = "write")
      BY <2>1 DEF Take, Open
    <3>2. <<>> \in Seq(Line)
      OBVIOUS
    <3>3. mixed' \in BOOLEAN
      BY <3>1 DEF TypeOK
    <3> QED
      BY <3>1, <3>2, <3>3 DEF TypeOK
  <2>2. CASE ~late[s]
    BY <2>2 DEF TypeOK, Take, disk
  <2> QED
    BY <2>1, <2>2
<1>6. /\ taken' \in [Streams -> Nat] /\ late' \in [Streams -> BOOLEAN]
      /\ quit' \in BOOLEAN /\ crashed' \in BOOLEAN
  BY DEF TypeOK, Take
<1> QED
  BY <1>2, <1>3, <1>4, <1>5, <1>6 DEF TypeOK

LEMMA WriteLineType ==
  ASSUME TypeOK, NEW s \in Streams, WriteLine(s) PROVE TypeOK'
<1>1. headers[s] \in Seq(Packet) /\ headers[s] # <<>>
      /\ headers[s][1] \in Packet /\ Tail(headers[s]) \in Seq(Packet)
  BY DEF TypeOK, WriteLine
<1>2. /\ Front(s, payload[s]) \subseteq Nat /\ Rest(payload[s]) \in Seq(Nat)
      /\ Front(s, meta[s]) \subseteq Nat /\ Rest(meta[s]) \in Seq(Nat)
  BY FrontType DEF TypeOK
<1>3. PICK w \in Nat, v \in Nat :
        file' = Append(file, [stream |-> s, n |-> headers[s][1].n,
                              payload |-> w, meta |-> v])
  BY <1>2 DEF WriteLine
<1>4. [stream |-> s, n |-> headers[s][1].n, payload |-> w, meta |-> v] \in Line
  BY <1>1, <1>3 DEF Packet, Line
<1>5. file' \in Seq(Line)
  BY <1>3, <1>4 DEF TypeOK
<1>6. payload' \in [Streams -> Seq(Nat)] /\ meta' \in [Streams -> Seq(Nat)]
  BY <1>2 DEF TypeOK, WriteLine
<1>7. headers' \in [Streams -> Seq(Packet)]
  BY <1>1 DEF TypeOK, WriteLine
<1> QED
  BY <1>5, <1>6, <1>7 DEF TypeOK, WriteLine

LEMMA NextType == TypeOK /\ [Next]_vars => TypeOK'
<1> SUFFICES ASSUME TypeOK, [Next]_vars PROVE TypeOK'
  OBVIOUS
<1>1. CASE StopRXThread
  BY <1>1 DEF TypeOK, StopRXThread, lists, disk
<1>2. ASSUME NEW s \in Streams, Expire(s) \/ Throw(s) \/ Done(s) PROVE TypeOK'
  BY <1>2 DEF TypeOK, Expire, Throw, Done, lists, disk
<1>3. ASSUME NEW s \in Streams, ClosePort(s) PROVE TypeOK'
  BY <1>3 DEF TypeOK, ClosePort, disk
<1>4. CASE UNCHANGED vars
  BY <1>4 DEF TypeOK, vars, lists, disk
<1> QED
  BY <1>1, <1>2, <1>3, <1>4, PollType, TakeType, WriteLineType DEF Next, Proceed

(* Every variable keeps its type, and a burst fits mbufs[].                *)
THEOREM DumpTyping == Spec => []TypeOK
BY InitType, NextType, PTL DEF Spec

-----------------------------------------------------------------------------
(* Packets are handled in the order they came in: headers and bursts are   *)
(* runs that begin where writing and handling have got to.                 *)
NumberedOf(s) ==
  /\ Len(headers[s]) <= taken[s]
  /\ \A i \in 1 .. Len(headers[s]) : headers[s][i].n = Written(s) + i
  /\ \A i \in 1 .. Len(burst[s]) : burst[s][i].n = taken[s] + i

Numbered == \A s \in Streams : NumberedOf(s)

LEMMA TailAt ==
  ASSUME NEW S, NEW q \in Seq(S), q # <<>>, NEW i \in 1 .. Len(Tail(q))
  PROVE  /\ Len(Tail(q)) = Len(q) - 1
         /\ i + 1 \in 1 .. Len(q) /\ Tail(q)[i] = q[i + 1]
OBVIOUS

LEMMA NextNumbered == TypeOK /\ Numbered /\ [Next]_vars => Numbered'
<1> SUFFICES ASSUME TypeOK, Numbered, [Next]_vars PROVE Numbered'
  OBVIOUS
<1>1. ASSUME UNCHANGED <<taken, headers, burst>> PROVE Numbered'
  BY <1>1 DEF Numbered, NumberedOf, Written
<1>2. ASSUME NEW s \in Streams, Poll(s) PROVE Numbered'
  <2>1. PICK k \in 1 .. BurstSize : PollOf(s, k)
    BY <1>2 DEF Poll
  <2>2. PICK type \in [1 .. k -> Traffic] :
          burst' = [burst EXCEPT ![s] =
                     [j \in 1 .. k |-> [n |-> taken[s] + j, type |-> type[j]]]]
    BY <2>1 DEF PollOf
  <2>3. UNCHANGED <<taken, headers>>
    BY <2>1 DEF PollOf, lists
  <2>4. k \in Nat
    BY DumpAssumption
  <2>5. \A i \in 1 .. Len(burst'[s]) : burst'[s][i].n = taken[s] + i
    BY <2>2, <2>4 DEF TypeOK
  <2>6. \A u \in Streams \ {s} : burst'[u] = burst[u]
    BY <2>2 DEF TypeOK
  <2> QED
    BY <2>3, <2>5, <2>6 DEF Numbered, NumberedOf, Written
<1>3. ASSUME NEW s \in Streams, Take(s) PROVE Numbered'
  <2>1. /\ burst[s] \in Seq(Packet) /\ burst[s] # <<>>
        /\ headers[s] \in Seq(Packet) /\ taken[s] \in Nat
    BY <1>3 DEF TypeOK, Take
  <2>2. /\ headers'[s] = Append(headers[s], burst[s][1])
        /\ burst'[s] = Tail(burst[s]) /\ taken'[s] = taken[s] + 1
    BY <1>3 DEF TypeOK, Take, Keep
  <2>3. \A u \in Streams \ {s} :
          headers'[u] = headers[u] /\ burst'[u] = burst[u] /\ taken'[u] = taken[u]
    BY <1>3 DEF TypeOK, Take, Keep
  <2>4. burst[s][1].n = taken[s] + 1
    BY <2>1 DEF Numbered, NumberedOf
  <2>5. /\ Len(headers'[s]) = Len(headers[s]) + 1
        /\ Len(headers[s]) <= taken[s] /\ Len(headers[s]) \in Nat
    BY <2>1, <2>2 DEF Numbered, NumberedOf
  <2>6. ASSUME NEW i \in 1 .. Len(headers'[s])
        PROVE  headers'[s][i].n = taken'[s] - Len(headers'[s]) + i
    <3>1. taken'[s] - Len(headers'[s]) = taken[s] - Len(headers[s])
      BY <2>1, <2>2, <2>5
    <3>2. CASE i = Len(headers[s]) + 1
      <4>1. headers'[s][i] = burst[s][1]
        BY <2>1, <2>2, <3>2
      <4> QED
        BY <2>1, <2>4, <2>5, <3>1, <3>2, <4>1
    <3>3. CASE i \in 1 .. Len(headers[s])
      <4>1. headers'[s][i] = headers[s][i]
        BY <2>1, <2>2, <3>3
      <4>2. headers[s][i].n = taken[s] - Len(headers[s]) + i
        BY <3>3 DEF Numbered, NumberedOf, Written
      <4> QED
        BY <3>1, <4>1, <4>2
    <3> QED
      BY <2>5, <3>2, <3>3
  <2>7. ASSUME NEW i \in 1 .. Len(burst'[s])
        PROVE  burst'[s][i].n = taken'[s] + i
    <3>1. i + 1 \in 1 .. Len(burst[s]) /\ burst'[s][i] = burst[s][i + 1]
      BY <2>1, <2>2, TailAt
    <3>2. burst[s][i + 1].n = taken[s] + (i + 1)
      BY <3>1 DEF Numbered, NumberedOf
    <3>3. i \in Nat /\ taken[s] + (i + 1) = taken'[s] + i
      BY <2>1, <2>2
    <3> QED
      BY <3>1, <3>2, <3>3
  <2>8. ASSUME NEW u \in Streams \ {s}
        PROVE  NumberedOf(u)'
    <3>1. NumberedOf(u)
      BY DEF Numbered
    <3> QED
      BY <2>3, <3>1 DEF NumberedOf, Written
  <2>9. Len(headers'[s]) <= taken'[s]
    BY <2>1, <2>2, <2>5
  <2>10. NumberedOf(s)'
    BY <2>6, <2>7, <2>9 DEF NumberedOf, Written
  <2> QED
    BY <2>8, <2>10 DEF Numbered
<1>4. ASSUME NEW s \in Streams, WriteLine(s) PROVE Numbered'
  <2>1. /\ headers[s] \in Seq(Packet) /\ headers[s] # <<>> /\ taken[s] \in Nat
        /\ headers'[s] = Tail(headers[s])
        /\ UNCHANGED <<taken, burst>>
    BY <1>4 DEF TypeOK, WriteLine
  <2>2. \A u \in Streams \ {s} : headers'[u] = headers[u]
    BY <1>4 DEF TypeOK, WriteLine
  <2>3. /\ Len(headers'[s]) = Len(headers[s]) - 1
        /\ Len(headers[s]) <= taken[s] /\ Len(headers[s]) \in Nat
    BY <2>1 DEF Numbered, NumberedOf
  <2>4. ASSUME NEW i \in 1 .. Len(headers'[s])
        PROVE  headers'[s][i].n = taken'[s] - Len(headers'[s]) + i
    <3>1. i + 1 \in 1 .. Len(headers[s]) /\ headers'[s][i] = headers[s][i + 1]
      BY <2>1, TailAt
    <3>2. headers[s][i + 1].n = taken[s] - Len(headers[s]) + (i + 1)
      BY <3>1 DEF Numbered, NumberedOf, Written
    <3>3. i \in Nat /\ taken'[s] = taken[s]
      BY <2>1, <2>3
    <3>4. headers'[s][i].n = taken[s] - Len(headers[s]) + (i + 1)
      BY <3>1, <3>2
    <3>5. taken[s] - Len(headers[s]) + (i + 1) = taken[s] - Len(headers'[s]) + i
      <4>1. taken[s] \in Nat
        BY <2>1
      <4> QED
        BY <2>3, <3>3, <4>1
    <3> QED
      BY <3>3, <3>4, <3>5
  <2>5. ASSUME NEW u \in Streams \ {s}
        PROVE  NumberedOf(u)'
    <3>1. NumberedOf(u)
      BY DEF Numbered
    <3> QED
      BY <2>1, <2>2, <3>1 DEF NumberedOf, Written
  <2>6. Len(headers'[s]) <= taken'[s]
    BY <2>1, <2>3
  <2>7. \A i \in 1 .. Len(burst'[s]) : burst'[s][i].n = taken'[s] + i
    BY <2>1 DEF Numbered, NumberedOf
  <2>8. NumberedOf(s)'
    BY <2>4, <2>6, <2>7 DEF NumberedOf, Written
  <2> QED
    BY <2>5, <2>8 DEF Numbered
<1>5. ASSUME NEW s \in Streams, ClosePort(s) PROVE Numbered'
  BY <1>5 DEF TypeOK, Numbered, NumberedOf, Written, ClosePort
<1> QED
  BY <1>1, <1>2, <1>3, <1>4, <1>5
     DEF Next, Proceed, StopRXThread, Expire, Throw, Done, vars, lists

-----------------------------------------------------------------------------
(* What is in the file is what its owner has written since it opened it,   *)
(* and all it has written if nobody opened it before.                      *)
Owns(s) ==
  /\ \A i \in 1 .. Len(file) :
       file[i].stream = s /\ file[i].n + Len(file) = Written(s) + i
  /\ opened = 1 => Len(file) = Written(s)

(* Until the file is opened nobody has written; from then on it has an     *)
(* owner, the only one that may be writing, with nothing kept back.        *)
Ownership ==
  /\ opened = 0 =>
       /\ file = <<>>
       /\ \A s \in Streams :
            pc[s] # "write" /\ (pc[s] = "loop" => Written(s) = 0)
  /\ opened > 0 /\ ~mixed =>
       \E s \in Streams :
         /\ Owns(s) /\ late[s]
         /\ pc[s] # "write" => headers[s] = <<>>
         /\ \A u \in Streams \ {s} : pc[u] # "write"

(* A step that leaves the file and what was written alone.                 *)
LEMMA Calm ==
  ASSUME TypeOK, Ownership, UNCHANGED <<taken, headers, disk>>,
         \A s \in Streams : late[s] => late'[s],
         \A s \in Streams : pc'[s] = "write" => pc[s] = "write",
         \A s \in Streams : pc'[s] = "loop" => pc[s] = "loop" \/ opened > 0,
         \A s \in Streams : pc[s] = "write" /\ pc'[s] # "write" => headers[s] = <<>>
  PROVE  Ownership'
<1>1. UNCHANGED <<file, opened, mixed, headers>>
  BY DEF disk
<1>2. \A s \in Streams : Written(s)' = Written(s)
  BY DEF Written
<1>3. \A s \in Streams : Owns(s)' <=> Owns(s)
  BY <1>1, <1>2 DEF Owns
<1>4. CASE opened = 0
  BY <1>1, <1>2, <1>4 DEF Ownership
<1>5. CASE opened > 0 /\ ~mixed
  <2>1. PICK s \in Streams :
          /\ Owns(s) /\ late[s]
          /\ pc[s] # "write" => headers[s] = <<>>
          /\ \A u \in Streams \ {s} : pc[u] # "write"
    BY <1>5 DEF Ownership
  <2>2. Owns(s)' /\ late'[s]
    BY <1>3, <2>1
  <2>3. pc'[s] # "write" => headers'[s] = <<>>
    BY <1>1, <2>1
  <2>4. \A u \in Streams \ {s} : pc'[u] # "write"
    BY <2>1
  <2> QED
    BY <1>1, <1>5, <2>2, <2>3, <2>4 DEF Ownership
<1> QED
  BY <1>1, <1>4, <1>5 DEF TypeOK, Ownership

LEMMA TakeOwnership ==
  ASSUME TypeOK, Ownership, NEW t \in Streams, Take(t) PROVE Ownership'
<1>1. /\ headers'[t] = Append(headers[t], burst[t][1])
      /\ taken'[t] = taken[t] + 1 /\ late' = late
      /\ headers[t] \in Seq(Packet) /\ taken[t] \in Nat
      /\ burst[t][1] \in Packet /\ pc[t] = "loop"
  BY DEF TypeOK, Take, Keep
<1>2. Written(t)' = Written(t)
  <2>1. Len(headers'[t]) = Len(headers[t]) + 1 /\ Len(headers[t]) \in Nat
    BY <1>1
  <2> QED
    BY <1>1, <2>1 DEF Written
<1>3. \A u \in Streams \ {t} :
        headers'[u] = headers[u] /\ taken'[u] = taken[u]
  BY DEF TypeOK, Take, Keep
<1>4. \A u \in Streams : Written(u)' = Written(u)
  BY <1>2, <1>3 DEF Written
<1>5. CASE late[t]
  <2>1. /\ pc' = [pc EXCEPT ![t] = "write"]
        /\ file' = <<>> /\ opened' = opened + 1
        /\ mixed' = (mixed \/ \E u \in Streams : pc[u] = "write")
    BY <1>5 DEF Take, Open
  <2>2. opened' > 0 /\ opened \in Nat /\ Len(file') = 0
    BY <2>1 DEF TypeOK
  <2>3. opened' = 1 => Written(t) = 0
    BY <1>1, <2>1, <2>2 DEF Ownership
  <2>4. Owns(t)'
    BY <1>4, <2>2, <2>3 DEF Owns
  <2>5. ~mixed' => \A u \in Streams \ {t} : pc'[u] # "write"
    BY <2>1 DEF TypeOK
  <2>6. pc'[t] = "write" /\ late'[t]
    BY <1>1, <1>5, <2>1 DEF TypeOK
  <2> QED
    BY <2>2, <2>4, <2>5, <2>6 DEF Ownership
<1>6. CASE ~late[t]
  <2>1. UNCHANGED <<pc, file, opened, mixed, late>>
    BY <1>6 DEF Take, disk
  <2> QED
    BY <1>3, <1>4, <1>6, <2>1 DEF Ownership, Owns
<1> QED
  BY <1>5, <1>6

LEMMA WriteOwnership ==
  ASSUME TypeOK, Numbered, Ownership, NEW t \in Streams, WriteLine(t)
  PROVE  Ownership'
<1>1. /\ headers[t] \in Seq(Packet) /\ headers[t] # <<>> /\ taken[t] \in Nat
      /\ headers' = [headers EXCEPT ![t] = Tail(@)]
      /\ UNCHANGED <<taken, late, pc, opened, mixed>> /\ pc[t] = "write"
  BY DEF TypeOK, WriteLine
<1>2. PICK line : /\ file' = Append(file, line)
                  /\ line.stream = t /\ line.n = headers[t][1].n
  BY DEF WriteLine
<1>3. file \in Seq(Line) /\ Len(file) \in Nat
  BY DEF TypeOK
<1>4. /\ headers[t][1].n = Written(t) + 1 /\ Written(t) \in Nat
      /\ Written(t)' = Written(t) + 1
  <2>1. Len(headers[t]) \in Nat \ {0} /\ Len(headers'[t]) = Len(headers[t]) - 1
    BY <1>1 DEF TypeOK
  <2> QED
    BY <1>1, <2>1 DEF Numbered, NumberedOf, Written
<1>5. opened > 0
  BY <1>1 DEF TypeOK, Ownership
<1> SUFFICES ASSUME ~mixed PROVE Ownership'
  BY <1>1, <1>5 DEF Ownership
<1>6. Owns(t) /\ late[t] /\ \A u \in Streams \ {t} : pc[u] # "write"
  BY <1>1, <1>5 DEF Ownership
<1>7. Len(file') = Len(file) + 1
      /\ file'[Len(file) + 1] = line /\ \A i \in 1 .. Len(file) : file'[i] = file[i]
  BY <1>2, <1>3
<1>8. ASSUME NEW i \in 1 .. Len(file')
      PROVE  file'[i].stream = t /\ file'[i].n + Len(file') = Written(t)' + i
  <2>1. CASE i = Len(file) + 1
    BY <1>2, <1>3, <1>4, <1>7, <2>1
  <2>2. CASE i \in 1 .. Len(file)
    <3>1. file[i] \in Line
      BY <1>3, <2>2
    <3>2. file[i].n \in Nat
      BY <3>1 DEF Line
    <3>3. file[i].stream = t /\ file[i].n + Len(file) = Written(t) + i
      BY <1>6, <2>2 DEF Owns
    <3>4. file'[i] = file[i] /\ i \in Nat
      BY <1>7, <2>2
    <3>5. file'[i].stream = t
      BY <3>3, <3>4
    <3>6. file'[i].n = file[i].n
      BY <3>4
    <3>7. file'[i].n + Len(file') = (file[i].n + Len(file)) + 1
      BY <1>3, <1>7, <3>2, <3>6
    <3> QED
      BY <1>4, <3>3, <3>4, <3>5, <3>7
  <2> QED
    BY <1>3, <1>7, <2>1, <2>2
<1>9. opened' = 1 => Len(file') = Written(t)'
  BY <1>1, <1>3, <1>4, <1>6, <1>7 DEF Owns
<1>10. Owns(t)'
  BY <1>8, <1>9 DEF Owns
<1> QED
  BY <1>1, <1>5, <1>6, <1>10 DEF Ownership

LEMMA NextOwnership == TypeOK /\ Numbered /\ Ownership /\ [Next]_vars => Ownership'
<1> SUFFICES ASSUME TypeOK, Numbered, Ownership, [Next]_vars PROVE Ownership'
  OBVIOUS
<1>1. CASE StopRXThread
  BY <1>1, Calm DEF StopRXThread, lists
<1>2. ASSUME NEW t \in Streams, Expire(t) \/ Throw(t) PROVE Ownership'
  BY <1>2, Calm DEF TypeOK, Expire, Throw, lists
<1>3. ASSUME NEW t \in Streams, Poll(t) PROVE Ownership'
  BY <1>3, Calm DEF TypeOK, Poll, PollOf, lists
<1>4. ASSUME NEW t \in Streams, Done(t) PROVE Ownership'
  <2>1. opened > 0
    BY <1>4 DEF TypeOK, Done, Ownership
  <2> QED
    BY <1>4, <2>1, Calm DEF TypeOK, Done, lists
<1>5. ASSUME NEW t \in Streams, ClosePort(t) PROVE Ownership'
  <2>1. /\ pc' = [pc EXCEPT ![t] = "done"] /\ pc[t] = "loop"
        /\ headers' = [headers EXCEPT ![t] = <<>>]
        /\ UNCHANGED <<taken, late, disk>>
    BY <1>5 DEF ClosePort, AtTop
  <2>2. \A u \in Streams \ {t} : Written(u)' = Written(u)
    BY <2>1 DEF TypeOK, Written
  <2>3. headers[t] = <<>> => Written(t)' = Written(t)
    BY <2>1 DEF TypeOK, Written
  <2>4. opened = 0 => Ownership'
    BY <2>1, <2>2 DEF TypeOK, Ownership, disk
  <2>5. ASSUME NEW s \in Streams, opened > 0, ~mixed, Owns(s), late[s],
               pc[s] # "write" => headers[s] = <<>>,
               \A u \in Streams \ {s} : pc[u] # "write"
        PROVE  Ownership'
    <3>1. Written(s)' = Written(s)
      BY <2>1, <2>2, <2>3, <2>5
    <3>2. Owns(s)'
      BY <2>1, <2>5, <3>1 DEF Owns, disk
    <3>3. pc'[s] # "write" => headers'[s] = <<>>
      BY <2>1, <2>5 DEF TypeOK
    <3>4. \A u \in Streams \ {s} : pc'[u] # "write"
      BY <2>1, <2>5 DEF TypeOK
    <3> QED
      BY <2>1, <2>5, <3>2, <3>3, <3>4 DEF Ownership, disk
  <2>6. mixed /\ opened > 0 => Ownership'
    BY <2>1 DEF Ownership, disk
  <2>7. CASE opened > 0 /\ ~mixed
    <3>1. PICK s \in Streams :
            /\ Owns(s) /\ late[s]
            /\ pc[s] # "write" => headers[s] = <<>>
            /\ \A u \in Streams \ {s} : pc[u] # "write"
      BY <2>7 DEF Ownership
    <3> QED
      BY <2>5, <2>7, <3>1
  <2>8. opened = 0 \/ opened > 0
    BY DEF TypeOK
  <2> QED
    BY <2>4, <2>6, <2>7, <2>8
<1>6. CASE UNCHANGED vars
  BY <1>6, Calm DEF vars, lists
<1> QED
  BY <1>1, <1>2, <1>3, <1>4, <1>5, <1>6, TakeOwnership, WriteOwnership
     DEF Next, Proceed

(* Unless two workers had the file open at once, it is a run of packets of *)
(* one worker, the whole of what it kept if it was opened once.            *)
THEOREM FileOfOneWorker == Spec => []FileIsRun
<1>1. Init => Numbered /\ Ownership
  BY DEF Init, Numbered, NumberedOf, Ownership, Written
<1>2. TypeOK /\ Ownership => FileIsRun
  <2> SUFFICES ASSUME TypeOK, Ownership, opened > 0, ~mixed PROVE FileIsRun
    BY DEF FileIsRun
  <2>1. PICK s \in Streams : Owns(s)
    BY DEF Ownership
  <2>2. DOMAIN file = 1 .. Len(file)
    BY DEF TypeOK
  <2> QED
    BY <2>1, <2>2 DEF Owns, FileIsRun
<1> QED
  BY <1>1, <1>2, NextNumbered, NextOwnership, DumpTyping, PTL DEF Spec

-----------------------------------------------------------------------------
(* The lists as sets: what a list holds, and which of the packets of some  *)
(* types wait in a list of headers.                                        *)
Held(q) == {q[i] : i \in 1 .. Len(q)}
Increasing(q) == \A i, j \in 1 .. Len(q) : i < j => q[i] < q[j]
Pending(q, T) == {q[i].n : i \in {j \in 1 .. Len(q) : q[j].type \in T}}

Samples == {"DATA", "DATA_END_OF_BURST"}

LEMMA HeldAppend ==
  ASSUME NEW q \in Seq(Nat), NEW e \in Nat
  PROVE  /\ Held(Append(q, e)) = Held(q) \cup {e}
         /\ Increasing(q) /\ (\A x \in Held(q) : x < e) => Increasing(Append(q, e))
<1> DEFINE r == Append(q, e)
<1>1. /\ Len(r) = Len(q) + 1 /\ Len(q) \in Nat
      /\ r[Len(q) + 1] = e /\ \A i \in 1 .. Len(q) : r[i] = q[i]
  OBVIOUS
<1> HIDE DEF r
<1>2. \A i \in 1 .. Len(r) : i \in 1 .. Len(q) \/ i = Len(q) + 1
  BY <1>1
<1>3. Held(r) = Held(q) \cup {e}
  <2>1. Held(r) \subseteq Held(q) \cup {e}
    BY <1>1, <1>2 DEF Held
  <2>2. Len(q) + 1 \in 1 .. Len(r) /\ \A i \in 1 .. Len(q) : i \in 1 .. Len(r)
    BY <1>1
  <2>3. Held(q) \cup {e} \subseteq Held(r)
    BY <1>1, <2>2 DEF Held
  <2> QED
    BY <2>1, <2>3
<1>4. ASSUME Increasing(q), \A x \in Held(q) : x < e,
             NEW i \in 1 .. Len(r), NEW j \in 1 .. Len(r), i < j
      PROVE  r[i] < r[j]
  <2>1. i \in 1 .. Len(q) /\ r[i] = q[i] /\ q[i] \in Held(q)
    <3>1. i \in 1 .. Len(q)
      BY <1>1, <1>4
    <3> QED
      BY <1>1, <3>1 DEF Held
  <2>2. CASE j \in 1 .. Len(q)
    BY <1>1, <1>4, <2>1, <2>2 DEF Increasing
  <2>3. CASE j = Len(q) + 1
    BY <1>1, <1>4, <2>1, <2>3
  <2> QED
    BY <1>2, <2>2, <2>3
<1> QED
  BY <1>3, <1>4 DEF Increasing, r

LEMMA HeldTail ==
  ASSUME NEW q \in Seq(Nat), q # <<>>, Increasing(q)
  PROVE  /\ q[1] \in Held(q) /\ \A x \in Held(q) : q[1] <= x
         /\ Held(Tail(q)) = Held(q) \ {q[1]}
         /\ Increasing(Tail(q))
<1> DEFINE r == Tail(q)
<1>1. /\ Len(q) \in Nat /\ Len(q) >= 1 /\ Len(r) = Len(q) - 1
      /\ \A i \in 1 .. Len(r) : r[i] = q[i + 1]
      /\ \A i \in 1 .. Len(q) : q[i] \in Nat
  OBVIOUS
<1> HIDE DEF r
<1>2. 1 \in 1 .. Len(q) /\ \A i \in 1 .. Len(r) : i + 1 \in 1 .. Len(q) /\ 1 < i + 1
  BY <1>1
<1>3. ASSUME NEW i \in 1 .. Len(q)
      PROVE  i = 1 \/ (i - 1 \in 1 .. Len(r) /\ (i - 1) + 1 = i /\ 1 < i)
  <2>1. i \in Int /\ 1 <= i /\ i <= Len(q) /\ Len(r) + 1 = Len(q) /\ Len(r) \in Int
    BY <1>1
  <2> QED
    BY <2>1
<1>4. \A i \in 1 .. Len(q) : 1 < i => q[1] < q[i]
  BY <1>2 DEF Increasing
<1>5. q[1] \in Held(q) /\ \A x \in Held(q) : q[1] <= x
  BY <1>1, <1>2, <1>3, <1>4 DEF Held
<1>6. Held(r) \subseteq Held(q) \ {q[1]}
  <2>1. ASSUME NEW i \in 1 .. Len(r) PROVE r[i] \in Held(q) /\ r[i] # q[1]
    <3>1. r[i] = q[i + 1] /\ i + 1 \in 1 .. Len(q) /\ q[1] < q[i + 1]
      BY <1>1, <1>2, <1>4
    <3>2. q[1] \in Nat /\ q[i + 1] \in Nat
      BY <1>1, <1>2, <3>1
    <3> QED
      BY <3>1, <3>2 DEF Held
  <2> QED
    BY <2>1 DEF Held
<1>7. Held(q) \ {q[1]} \subseteq Held(r)
  <2>1. ASSUME NEW i \in 1 .. Len(q), q[i] # q[1] PROVE q[i] \in Held(r)
    <3>1. i - 1 \in 1 .. Len(r) /\ r[i - 1] = q[(i - 1) + 1] /\ (i - 1) + 1 = i
      BY <1>1, <1>3, <2>1
    <3> QED
      BY <3>1 DEF Held
  <2> QED
    BY <2>1 DEF Held
<1>8. Increasing(r)
  <2> SUFFICES ASSUME NEW i \in 1 .. Len(r), NEW j \in 1 .. Len(r), i < j
               PROVE  r[i] < r[j]
    BY DEF Increasing
  <2>1. i + 1 < j + 1
    BY <1>1
  <2> QED
    BY <1>1, <1>2, <2>1 DEF Increasing
<1> QED
  BY <1>5, <1>6, <1>7, <1>8 DEF r

LEMMA PendingAppend ==
  ASSUME NEW q \in Seq(Packet), NEW p \in Packet, NEW T
  PROVE  Pending(Append(q, p), T) =
           Pending(q, T) \cup (IF p.type \in T THEN {p.n} ELSE {})
<1> DEFINE r == Append(q, p)
<1>1. /\ Len(r) = Len(q) + 1 /\ Len(q) \in Nat
      /\ r[Len(q) + 1] = p /\ \A i \in 1 .. Len(q) : r[i] = q[i]
  OBVIOUS
<1> HIDE DEF r
<1>2. /\ \A i \in 1 .. Len(r) : i \in 1 .. Len(q) \/ i = Len(q) + 1
      /\ Len(q) + 1 \in 1 .. Len(r) /\ \A i \in 1 .. Len(q) : i \in 1 .. Len(r)
  BY <1>1
<1>3. Pending(r, T) \subseteq Pending(q, T) \cup (IF p.type \in T THEN {p.n} ELSE {})
  BY <1>1, <1>2 DEF Pending
<1>4. Pending(q, T) \subseteq Pending(r, T)
  BY <1>1, <1>2 DEF Pending
<1>5. p.type \in T => p.n \in Pending(r, T)
  BY <1>1, <1>2 DEF Pending
<1> QED
  BY <1>3, <1>4, <1>5 DEF r

(* The headers of a worker are numbered from w + 1 on.                     *)
LEMMA PendingTail ==
  ASSUME NEW q \in Seq(Packet), q # <<>>, NEW w \in Nat, NEW T,
         \A i \in 1 .. Len(q) : q[i].n = w + i
  PROVE  /\ Pending(Tail(q), T) = Pending(q, T) \ {w + 1}
         /\ w + 1 \in Pending(q, T) <=> q[1].type \in T
         /\ \A x \in Pending(q, T) : x \in Nat /\ w + 1 <= x
<1> DEFINE r == Tail(q)
<1>1. /\ Len(q) \in Nat /\ Len(q) >= 1 /\ Len(r) = Len(q) - 1
      /\ \A i \in 1 .. Len(r) : r[i] = q[i + 1]
  OBVIOUS
<1> HIDE DEF r
<1>2. /\ 1 \in 1 .. Len(q)
      /\ \A i \in 1 .. Len(r) : i + 1 \in 1 .. Len(q) /\ w + (i + 1) # w + 1
      /\ \A i \in 1 .. Len(q) :
           i = 1 \/ (i - 1 \in 1 .. Len(r) /\ (i - 1) + 1 = i)
      /\ \A i \in 1 .. Len(q) : w + i \in Nat /\ w + 1 <= w + i
      /\ \A i \in 1 .. Len(q) : w + i = w + 1 => i = 1
  <2>1. 1 \in 1 .. Len(q)
    BY <1>1
  <2>2. ASSUME NEW i \in 1 .. Len(r)
        PROVE  i + 1 \in 1 .. Len(q) /\ w + (i + 1) # w + 1
    BY <1>1
  <2>3. ASSUME NEW i \in 1 .. Len(q)
        PROVE  /\ i = 1 \/ (i - 1 \in 1 .. Len(r) /\ (i - 1) + 1 = i)
               /\ w + i \in Nat /\ w + 1 <= w + i
               /\ w + i = w + 1 => i = 1
    BY <1>1
  <2> QED
    BY <2>1, <2>2, <2>3
<1>3. Pending(r, T) \subseteq Pending(q, T) \ {w + 1}
  <2>1. ASSUME NEW i \in 1 .. Len(r), r[i].type \in T
        PROVE  r[i].n \in Pending(q, T) \ {w + 1}
    <3>1. r[i] = q[i + 1] /\ i + 1 \in 1 .. Len(q) /\ q[i + 1].n = w + (i + 1)
      BY <1>1, <1>2
    <3>2. q[i + 1].n \in Pending(q, T)
      BY <2>1, <3>1 DEF Pending
    <3> QED
      BY <1>2, <3>1, <3>2
  <2> QED
    BY <2>1 DEF Pending
<1>4. Pending(q, T) \ {w + 1} \subseteq Pending(r, T)
  <2>1. ASSUME NEW i \in 1 .. Len(q), q[i].type \in T, q[i].n # w + 1
        PROVE  q[i].n \in Pending(r, T)
    <3>1. i # 1
      BY <2>1
    <3>2. i - 1 \in 1 .. Len(r) /\ (i - 1) + 1 = i
      BY <1>2, <3>1
    <3>3. r[i - 1] = q[i]
      BY <1>1, <3>2
    <3> QED
      BY <2>1, <3>2, <3>3 DEF Pending
  <2> QED
    BY <2>1 DEF Pending
<1>5. w + 1 \in Pending(q, T) <=> q[1].type \in T
  <2>1. q[1].type \in T => q[1].n \in Pending(q, T)
    BY <1>2 DEF Pending
  <2>2. ASSUME NEW i \in 1 .. Len(q), q[i].type \in T, q[i].n = w + 1
        PROVE  q[1].type \in T
    BY <1>2, <2>2
  <2>3. q[1].n = w + 1
    BY <1>2
  <2> QED
    BY <2>1, <2>2, <2>3 DEF Pending
<1>6. \A x \in Pending(q, T) : x \in Nat /\ w + 1 <= x
  BY <1>2 DEF Pending
<1> QED
  BY <1>3, <1>4, <1>5, <1>6 DEF r

(* The lists of a worker: what waits for its metadata is what meta holds;  *)
(* what waits for its samples is in payload, and what else is there came   *)
(* with or after the first packet that had neither.                        *)
ContentsOf(s) ==
  /\ Increasing(payload[s]) /\ Increasing(meta[s])
  /\ \A x \in Held(payload[s]) : x <= taken[s]
  /\ \A x \in Held(meta[s]) : x <= taken[s]
  /\ misfit[s] <= taken[s]
  /\ Held(meta[s]) = Pending(headers[s], {"METADATA"})
  /\ Pending(headers[s], Samples) \subseteq Held(payload[s])
  /\ \A x \in Held(payload[s]) :
       x \in Pending(headers[s], Samples) \/ misfit[s] \in 1 .. x

Contents == \A s \in Streams : ContentsOf(s)

LEMMA ContentsOfOthers ==
  ASSUME Contents, NEW s \in Streams, ContentsOf(s)',
         \A u \in Streams \ {s} :
           /\ payload'[u] = payload[u] /\ meta'[u] = meta[u]
           /\ headers'[u] = headers[u] /\ taken'[u] = taken[u]
           /\ misfit'[u] = misfit[u]
  PROVE  Contents'
<1> SUFFICES ASSUME NEW u \in Streams PROVE ContentsOf(u)'
  BY DEF Contents
<1>1. CASE u = s
  BY <1>1
<1>2. CASE u # s
  BY <1>2 DEF Contents, ContentsOf
<1> QED
  BY <1>1, <1>2

LEMMA TakeContents ==
  ASSUME TypeOK, Numbered, Contents, NEW s \in Streams, Take(s) PROVE Contents'
<1> DEFINE p == burst[s][1]
<1>1. /\ burst[s] \in Seq(Packet) /\ p \in Packet /\ p.n = taken[s] + 1
      /\ taken[s] \in Nat /\ headers[s] \in Seq(Packet) /\ misfit[s] \in Nat
      /\ payload[s] \in Seq(Nat) /\ meta[s] \in Seq(Nat) /\ p.n \in Nat
  <2>1. burst[s] \in Seq(Packet) /\ burst[s] # <<>>
    BY DEF TypeOK, Take
  <2>2. p \in Packet /\ 1 \in 1 .. Len(burst[s])
    BY <2>1
  <2>3. p.n = taken[s] + 1 /\ p.n \in Nat
    BY <2>2 DEF Numbered, NumberedOf, Packet
  <2> QED
    BY <2>1, <2>2, <2>3 DEF TypeOK
<1>2. /\ headers'[s] = Append(headers[s], p) /\ taken'[s] = taken[s] + 1
      /\ p.type = "METADATA" =>
           meta'[s] = Append(meta[s], p.n) /\ payload'[s] = payload[s]
      /\ p.type # "METADATA" =>
           payload'[s] = Append(payload[s], p.n) /\ meta'[s] = meta[s]
  BY DEF TypeOK, Take, Keep
<1>3. misfit'[s] = misfit[s] \/ misfit[s] = 0
  BY DEF TypeOK, Take
<1>4. p.type \notin Samples /\ p.type # "METADATA" /\ misfit[s] = 0 => misfit'[s] = p.n
  BY DEF TypeOK, Take, IsValidPacketType, Samples
<1>5. \A u \in Streams \ {s} :
        /\ payload'[u] = payload[u] /\ meta'[u] = meta[u]
        /\ headers'[u] = headers[u] /\ taken'[u] = taken[u]
        /\ misfit'[u] = misfit[u]
  BY DEF TypeOK, Take, Keep
<1>6. ContentsOf(s)
  BY DEF Contents
<1> HIDE DEF p
<1>7. \A T : Pending(headers'[s], T) =
               Pending(headers[s], T) \cup (IF p.type \in T THEN {p.n} ELSE {})
  BY <1>1, <1>2, PendingAppend
<1>8. Held(payload[s]) \subseteq Nat /\ Held(meta[s]) \subseteq Nat
  BY <1>1 DEF Held
<1>9. /\ \A x \in Held(payload[s]) : x < p.n /\ x <= taken'[s]
      /\ \A x \in Held(meta[s]) : x < p.n /\ x <= taken'[s]
      /\ p.n <= taken'[s]
  BY <1>1, <1>2, <1>6, <1>8 DEF ContentsOf
<1>12. misfit'[s] <= taken'[s]
  <2>1. misfit'[s] = misfit[s] \/ misfit'[s] = p.n
    BY DEF TypeOK, Take, p
  <2> QED
    BY <1>1, <1>2, <1>6, <2>1 DEF ContentsOf
<1>10. CASE p.type = "METADATA"
  <2>1. Held(meta'[s]) = Held(meta[s]) \cup {p.n} /\ Increasing(meta'[s])
    BY <1>1, <1>2, <1>6, <1>9, <1>10, HeldAppend DEF ContentsOf
  <2>2. Pending(headers'[s], {"METADATA"}) = Pending(headers[s], {"METADATA"}) \cup {p.n}
    BY <1>7, <1>10
  <2>3. Pending(headers'[s], Samples) = Pending(headers[s], Samples)
    BY <1>7, <1>10 DEF Samples
  <2>4. \A x \in Held(payload[s]) : misfit[s] \in 1 .. x => misfit'[s] \in 1 .. x
    BY <1>3
  <2>5. ContentsOf(s)'
    BY <1>2, <1>6, <1>9, <1>10, <1>12, <2>1, <2>2, <2>3, <2>4 DEF ContentsOf
  <2> QED
    BY <1>5, <2>5, ContentsOfOthers
<1>11. CASE p.type # "METADATA"
  <2>1. Held(payload'[s]) = Held(payload[s]) \cup {p.n} /\ Increasing(payload'[s])
    BY <1>1, <1>2, <1>6, <1>9, <1>11, HeldAppend DEF ContentsOf
  <2>2. Pending(headers'[s], {"METADATA"}) = Pending(headers[s], {"METADATA"})
    BY <1>7, <1>11
  <2>3. \A x \in Held(payload[s]) : misfit[s] \in 1 .. x => misfit'[s] \in 1 .. x
    BY <1>3
  <2>4. p.n \in Pending(headers'[s], Samples) \/ misfit'[s] \in 1 .. p.n
    <3>1. CASE p.type \in Samples
      BY <1>7, <3>1
    <3>2. CASE p.type \notin Samples /\ misfit[s] = 0
      BY <1>1, <1>4, <1>11, <3>2
    <3>3. CASE misfit[s] # 0
      <4>1. misfit'[s] = misfit[s]
        BY <1>3, <3>3
      <4>2. misfit[s] <= p.n
        BY <1>1, <1>6 DEF ContentsOf
      <4> QED
        BY <1>1, <3>3, <4>1, <4>2
    <3> QED
      BY <3>1, <3>2, <3>3
  <2>5. Pending(headers'[s], Samples) \subseteq Pending(headers[s], Samples) \cup {p.n}
    BY <1>7
  <2>6. Pending(headers[s], Samples) \subseteq Pending(headers'[s], Samples)
    BY <1>7
  <2>7. misfit'[s] <= taken'[s]
    BY <1>12
  <2>8. \A x \in Held(payload'[s]) :
          x \in Pending(headers'[s], Samples) \/ misfit'[s] \in 1 .. x
    BY <1>6, <2>1, <2>3, <2>4, <2>6 DEF ContentsOf
  <2>9. ContentsOf(s)'
    BY <1>2, <1>6, <1>9, <1>11, <2>1, <2>2, <2>5, <2>7, <2>8 DEF ContentsOf
  <2> QED
    BY <1>5, <2>9, ContentsOfOthers
<1> QED
  BY <1>10, <1>11

LEMMA WriteContents ==
  ASSUME TypeOK, Numbered, Contents, NEW s \in Streams, WriteLine(s)
  PROVE  /\ Contents'
         /\ \E line : /\ file' = Append(file, line)
                      /\ line.stream = s /\ line.n \in Nat
                      /\ line.meta \in {0, line.n}
                      /\ \/ line.payload \in {0, line.n}
                         \/ line.payload < line.n /\ misfit[s] \in 1 .. line.n
<1> DEFINE h == headers[s][1]
           w == Written(s)
<1>1. /\ headers[s] \in Seq(Packet) /\ headers[s] # <<>>
      /\ payload[s] \in Seq(Nat) /\ meta[s] \in Seq(Nat)
      /\ taken[s] \in Nat /\ misfit[s] \in Nat
  BY DEF TypeOK, WriteLine
<1>2. /\ w \in Nat /\ h.n = w + 1 /\ h.n \in Nat
      /\ \A i \in 1 .. Len(headers[s]) : headers[s][i].n = w + i
  <2>1. Len(headers[s]) \in Nat /\ 1 \in 1 .. Len(headers[s])
    BY <1>1
  <2>2. w \in Nat
    BY <1>1, <2>1 DEF Numbered, NumberedOf, Written
  <2>3. \A i \in 1 .. Len(headers[s]) : headers[s][i].n = w + i
    BY DEF Numbered, NumberedOf
  <2>4. h.n = w + 1
    BY <2>1, <2>3
  <2> QED
    BY <2>2, <2>3, <2>4
<1>3. /\ headers'[s] = Tail(headers[s]) /\ UNCHANGED <<taken, misfit>>
      /\ payload'[s] = IF h.type \in Samples THEN Rest(payload[s]) ELSE payload[s]
      /\ meta'[s] = IF h.type = "METADATA" THEN Rest(meta[s]) ELSE meta[s]
  BY DEF TypeOK, WriteLine, IsValidPacketType, Samples
<1>4. \A u \in Streams \ {s} :
        /\ payload'[u] = payload[u] /\ meta'[u] = meta[u]
        /\ headers'[u] = headers[u] /\ taken'[u] = taken[u]
        /\ misfit'[u] = misfit[u]
  BY DEF TypeOK, WriteLine
<1>5. PICK x \in IF h.type \in Samples THEN Front(s, payload[s]) ELSE {0},
           y \in IF h.type = "METADATA" THEN Front(s, meta[s]) ELSE {0} :
        file' = Append(file, [stream |-> s, n |-> h.n, payload |-> x, meta |-> y])
  BY DEF WriteLine, IsValidPacketType, Samples
<1>6. ContentsOf(s)
  BY DEF Contents
<1> HIDE DEF h, w
<1>7. \A T : /\ Pending(headers'[s], T) = Pending(headers[s], T) \ {h.n}
             /\ h.n \in Pending(headers[s], T) <=> h.type \in T
             /\ \A z \in Pending(headers[s], T) : z \in Nat /\ h.n <= z
  BY <1>1, <1>2, <1>3, PendingTail DEF h
<1>8. Held(payload[s]) \subseteq Nat /\ Held(meta[s]) \subseteq Nat
  BY <1>1 DEF Held
<1>9. ASSUME h.type \notin Samples
      PROVE  /\ UNCHANGED payload[s] /\ x = 0
             /\ Pending(headers'[s], Samples) = Pending(headers[s], Samples)
  BY <1>3, <1>5, <1>7, <1>9
<1>10. ASSUME h.type # "METADATA"
       PROVE  /\ UNCHANGED meta[s] /\ y = 0
              /\ Pending(headers'[s], {"METADATA"}) = Pending(headers[s], {"METADATA"})
  <2>1. h.n \notin Pending(headers[s], {"METADATA"})
    BY <1>7, <1>10
  <2>2. UNCHANGED meta[s] /\ y = 0
    BY <1>3, <1>5, <1>10
  <2> QED
    BY <1>7, <2>1, <2>2
<1>11. ASSUME h.type = "METADATA"
       PROVE  /\ Held(meta'[s]) = Held(meta[s]) \ {h.n} /\ Increasing(meta'[s])
              /\ y = h.n
  <2>1. h.n \in Held(meta[s])
    BY <1>6, <1>7, <1>11 DEF ContentsOf
  <2>2. meta[s] # <<>>
    BY <2>1 DEF Held
  <2>3. y = meta[s][1] /\ meta'[s] = Tail(meta[s])
    BY <1>3, <1>5, <1>11, <2>2 DEF Front, Rest
  <2>4. /\ meta[s][1] \in Held(meta[s]) /\ meta[s][1] <= h.n
        /\ Held(meta'[s]) = Held(meta[s]) \ {meta[s][1]} /\ Increasing(meta'[s])
    BY <1>1, <1>6, <2>1, <2>2, <2>3, HeldTail DEF ContentsOf
  <2>5. h.n <= meta[s][1] /\ meta[s][1] \in Nat
    BY <1>6, <1>7, <2>4 DEF ContentsOf
  <2>6. meta[s][1] = h.n
    BY <1>2, <2>4, <2>5
  <2> QED
    BY <2>3, <2>4, <2>6
<1>12. ASSUME h.type \in Samples
       PROVE  /\ x \in Held(payload[s]) /\ x \in Nat /\ x <= h.n
              /\ x # h.n => misfit[s] \in 1 .. x
              /\ Held(payload'[s]) = Held(payload[s]) \ {x} /\ Increasing(payload'[s])
  <2>1. h.n \in Held(payload[s])
    BY <1>6, <1>7, <1>12 DEF ContentsOf
  <2>2. payload[s] # <<>>
    BY <2>1 DEF Held
  <2>3. x = payload[s][1] /\ payload'[s] = Tail(payload[s])
    BY <1>3, <1>5, <1>12, <2>2 DEF Front, Rest
  <2>4. /\ x \in Held(payload[s]) /\ x <= h.n
        /\ Held(payload'[s]) = Held(payload[s]) \ {x} /\ Increasing(payload'[s])
    BY <1>1, <1>6, <2>1, <2>2, <2>3, HeldTail DEF ContentsOf
  <2>5. x # h.n => x \notin Pending(headers[s], Samples)
    BY <1>2, <1>7, <1>8, <2>4
  <2> QED
    BY <1>6, <1>8, <2>4, <2>5 DEF ContentsOf
<1>13. ContentsOf(s)'
  <2>1. Increasing(payload'[s]) /\ Held(payload'[s]) \subseteq Held(payload[s])
    BY <1>6, <1>9, <1>12 DEF ContentsOf
  <2>2. Increasing(meta'[s]) /\ Held(meta'[s]) \subseteq Held(meta[s])
    BY <1>6, <1>10, <1>11 DEF ContentsOf
  <2>3. Held(meta'[s]) = Pending(headers'[s], {"METADATA"})
    BY <1>6, <1>7, <1>10, <1>11 DEF ContentsOf
  <2>4. Pending(headers'[s], Samples) \subseteq Held(payload'[s])
    <3>1. CASE h.type \notin Samples
      BY <1>6, <1>9, <3>1 DEF ContentsOf
    <3>2. CASE h.type \in Samples
      <4>1. ASSUME NEW z \in Pending(headers'[s], Samples) PROVE z # x
        BY <1>2, <1>7, <1>12, <3>2
      <4> QED
        BY <1>6, <1>7, <1>12, <3>2, <4>1 DEF ContentsOf
    <3> QED
      BY <3>1, <3>2
  <2>5. ASSUME NEW z \in Held(payload'[s])
        PROVE  z \in Pending(headers'[s], Samples) \/ misfit'[s] \in 1 .. z
    <3>1. z \in Pending(headers[s], Samples) \/ misfit[s] \in 1 .. z
      BY <1>6, <2>1 DEF ContentsOf
    <3>2. CASE h.type \notin Samples
      BY <1>3, <1>9, <3>1, <3>2
    <3>3. CASE h.type \in Samples /\ z # h.n
      BY <1>3, <1>7, <3>1, <3>3
    <3>4. CASE h.type \in Samples /\ z = h.n
      <4>1. x # h.n
        BY <1>12, <3>4
      <4> QED
        BY <1>2, <1>3, <1>12, <3>4, <4>1
    <3> QED
      BY <3>2, <3>3, <3>4
  <2> QED
    BY <1>3, <1>6, <2>1, <2>2, <2>3, <2>4, <2>5 DEF ContentsOf
<1>14. y \in {0, h.n}
  BY <1>10, <1>11
<1>15. x \in {0, h.n} \/ (x < h.n /\ misfit[s] \in 1 .. h.n)
  <2>1. CASE h.type \notin Samples
    BY <1>9, <2>1
  <2>2. CASE h.type \in Samples
    BY <1>1, <1>2, <1>12, <2>2
  <2> QED
    BY <2>1, <2>2
<1>16. Contents'
  BY <1>4, <1>13, ContentsOfOthers
<1> DEFINE line == [stream |-> s, n |-> h.n, payload |-> x, meta |-> y]
<1>17. /\ file' = Append(file, line) /\ line.stream = s /\ line.n = h.n
       /\ line.payload = x /\ line.meta = y
  BY <1>5
<1> HIDE DEF line
<1> QED
  BY <1>2, <1>14, <1>15, <1>16, <1>17

LEMMA NextContents == TypeOK /\ Numbered /\ Contents /\ [Next]_vars => Contents'
<1> SUFFICES ASSUME TypeOK, Numbered, Contents, [Next]_vars PROVE Contents'
  OBVIOUS
<1>1. ASSUME UNCHANGED lists PROVE Contents'
  BY <1>1 DEF Contents, ContentsOf, lists
<1>2. ASSUME NEW s \in Streams, ClosePort(s) PROVE Contents'
  <2>1. /\ headers'[s] = <<>> /\ payload'[s] = <<>> /\ meta'[s] = <<>>
        /\ UNCHANGED <<taken, misfit>>
    BY <1>2 DEF TypeOK, ClosePort
  <2>2. \A u \in Streams \ {s} :
          /\ payload'[u] = payload[u] /\ meta'[u] = meta[u]
          /\ headers'[u] = headers[u]
    BY <1>2 DEF TypeOK, ClosePort
  <2>3. Increasing(<<>>) /\ Held(<<>>) = {} /\ \A T : Pending(<<>>, T) = {}
    BY DEF Increasing, Held, Pending
  <2>4. misfit[s] <= taken[s]
    BY DEF Contents, ContentsOf
  <2>5. ContentsOf(s)'
    BY <2>1, <2>3, <2>4 DEF ContentsOf
  <2> QED
    BY <2>1, <2>2, <2>5, ContentsOfOthers
<1> QED
  BY <1>1, <1>2, TakeContents, WriteContents
     DEF Next, Proceed, StopRXThread, Expire, Poll, PollOf, Throw, Done, vars

LEMMA InitContents == Init => Contents
<1>1. Increasing(<<>>) /\ Held(<<>>) = {} /\ \A T : Pending(<<>>, T) = {}
  BY DEF Increasing, Held, Pending
<1> SUFFICES ASSUME Init, NEW s \in Streams PROVE ContentsOf(s)
  BY DEF Contents
<1>2. /\ payload[s] = <<>> /\ meta[s] = <<>> /\ headers[s] = <<>>
      /\ taken[s] = 0 /\ misfit[s] = 0
  BY DEF Init
<1>3. misfit[s] <= taken[s]
  BY <1>2
<1> QED
  BY <1>1, <1>2, <1>3, Zenon DEF ContentsOf

(* Each waiting header has a place of its own in a list that holds what it *)
(* waits for, and no place is left over if the list holds nothing else.    *)
LEMMA Places ==
  ASSUME TypeOK, Numbered, NEW s \in Streams, NEW T, NEW q \in Seq(Nat),
         Pending(headers[s], T) \subseteq Held(q)
  PROVE  /\ Cardinality(Waiting(s, T)) <= Len(q)
         /\ Increasing(q) /\ Pending(headers[s], T) = Held(q) =>
              Cardinality(Waiting(s, T)) = Len(q)
<1> DEFINE h == headers[s]
           W == Waiting(s, T)
           place == [i \in W |-> CHOOSE j \in 1 .. Len(q) : q[j] = h[i].n]
<1>1. h \in Seq(Packet) /\ Len(h) \in Nat /\ Len(q) \in Nat
  BY DEF TypeOK
<1>2. /\ W = {i \in 1 .. Len(h) : h[i].type \in T}
      /\ Pending(h, T) = {h[i].n : i \in W}
  BY <1>1 DEF Waiting, Pending
<1>3. \A i \in W : place[i] \in 1 .. Len(q) /\ q[place[i]] = h[i].n
  <2>1. ASSUME NEW i \in W PROVE \E j \in 1 .. Len(q) : q[j] = h[i].n
    <3>1. h[i].n \in Held(q)
      BY <1>2
    <3> QED
      BY <3>1 DEF Held
  <2> QED
    BY <2>1
<1>4. \A i, k \in W : h[i].n = h[k].n => i = k
  <2>1. \A i \in W : i \in Nat /\ h[i].n = Written(s) + i
    BY <1>1, <1>2 DEF Numbered, NumberedOf
  <2>2. Written(s) \in Int
    BY <1>1 DEF Written, TypeOK
  <2> QED
    BY <2>1, <2>2
<1>5. place \in Injection(W, 1 .. Len(q))
  <2>1. place \in [W -> 1 .. Len(q)]
    BY <1>3
  <2>2. \A i, k \in W : place[i] = place[k] => i = k
    BY <1>3, <1>4
  <2> QED
    BY <2>1, <2>2 DEF Injection, IsInjective
<1>6. IsFiniteSet(1 .. Len(q)) /\ Cardinality(1 .. Len(q)) = Len(q)
  <2>1. /\ IsFiniteSet(1 .. Len(q))
        /\ Cardinality(1 .. Len(q)) = IF 1 > Len(q) THEN 0 ELSE Len(q) - 1 + 1
    <3>1. 1 \in Int /\ Len(q) \in Int
      BY <1>1
    <3> QED
      BY <3>1, FS_Interval, Zenon
  <2>2. (IF 1 > Len(q) THEN 0 ELSE Len(q) - 1 + 1) = Len(q)
    BY <1>1
  <2> QED
    BY <2>1, <2>2
<1>7. Cardinality(W) <= Len(q)
  BY <1>5, <1>6, FS_Injection
<1>8. ASSUME Increasing(q), Pending(h, T) = Held(q) PROVE Cardinality(W) = Len(q)
  <2>1. ASSUME NEW j \in 1 .. Len(q) PROVE \E i \in W : place[i] = j
    <3>1. q[j] \in Held(q)
      BY DEF Held
    <3>2. PICK i \in W : q[j] = h[i].n
      BY <1>2, <1>8, <3>1
    <3>3. place[i] \in 1 .. Len(q) /\ q[place[i]] = q[j]
      BY <1>3, <3>2
    <3>4. q[j] \in Nat
      OBVIOUS
    <3>5. place[i] = j
      <4>1. ~(place[i] < j) /\ ~(j < place[i])
        BY <1>8, <3>3, <3>4 DEF Increasing
      <4> QED
        BY <3>3, <4>1
    <3> QED
      BY <3>5
  <2>2. place \in Surjection(W, 1 .. Len(q))
    BY <1>5, <2>1 DEF Injection, Surjection
  <2> QED
    BY <1>5, <1>6, <2>2, FS_Injection
<1> QED
  BY <1>7, <1>8

(* The lists never run empty while headers wait for their contents: any    *)
(* number of workers and packets of any types.                             *)
THEOREM ListsNeverShort == Spec => []ListsSuffice
<1>1. Init => Numbered /\ Contents
  BY InitContents DEF Init, Numbered, NumberedOf, Written
<1>2. TypeOK /\ Numbered /\ Contents => ListsSuffice
  <2> SUFFICES ASSUME TypeOK, Numbered, Contents, NEW s \in Streams
               PROVE  /\ Cardinality(Waiting(s, Samples)) <= Len(payload[s])
                      /\ Cardinality(Waiting(s, {"METADATA"})) = Len(meta[s])
    BY DEF ListsSuffice, Samples
  <2>1. payload[s] \in Seq(Nat) /\ meta[s] \in Seq(Nat)
    BY DEF TypeOK
  <2>2. /\ Pending(headers[s], Samples) \subseteq Held(payload[s])
        /\ Pending(headers[s], {"METADATA"}) = Held(meta[s]) /\ Increasing(meta[s])
    BY DEF Contents, ContentsOf
  <2> QED
    BY <2>1, <2>2, Places
<1> QED
  BY <1>1, <1>2, NextNumbered, NextContents, DumpTyping, PTL DEF Spec

(* A line of the file holds its own packet's metadata, and its own samples *)
(* or, after a packet with neither, those of an earlier one.               *)
THEOREM LinesAreTheirOwn == Spec => []OwnContents
<1>1. Init => Numbered /\ Contents /\ OwnContents
  BY InitContents DEF Init, Numbered, NumberedOf, Written, OwnContents
<1>2. TypeOK /\ Numbered /\ Contents /\ OwnContents /\ [Next]_vars => OwnContents'
  <2> SUFFICES ASSUME TypeOK, Numbered, Contents, OwnContents, [Next]_vars
               PROVE  OwnContents'
    OBVIOUS
  <2>1. ASSUME UNCHANGED <<file, misfit>> PROVE OwnContents'
    BY <2>1 DEF OwnContents
  <2>2. ASSUME NEW s \in Streams, Take(s) PROVE OwnContents'
    <3>1. file' = <<>> \/ UNCHANGED file
      BY <2>2 DEF Take, Open, disk
    <3>2. CASE file' = <<>>
      BY <3>2 DEF OwnContents
    <3>3. ASSUME UNCHANGED file, NEW i \in DOMAIN file
          PROVE  misfit[file[i].stream] \in 1 .. file[i].n =>
                   misfit'[file[i].stream] \in 1 .. file[i].n
      <4>1. \A u \in Streams : misfit'[u] = misfit[u] \/ misfit[u] = 0
        BY <2>2 DEF TypeOK, Take
      <4>2. file[i].stream \in Streams
        <5>1. file[i] \in Line
          BY <3>3 DEF TypeOK
        <5> QED
          BY <5>1 DEF Line
      <4> QED
        BY <4>1, <4>2
    <3>4. CASE UNCHANGED file
      BY <3>3, <3>4 DEF OwnContents
    <3> QED
      BY <3>1, <3>2, <3>4
  <2>3. ASSUME NEW s \in Streams, WriteLine(s) PROVE OwnContents'
    <3>1. PICK line :
            /\ file' = Append(file, line)
            /\ line.stream = s /\ line.n \in Nat
            /\ line.meta \in {0, line.n}
            /\ \/ line.payload \in {0, line.n}
               \/ line.payload < line.n /\ misfit[s] \in 1 .. line.n
      BY <2>3, WriteContents
    <3>2. UNCHANGED misfit
      BY <2>3 DEF WriteLine
    <3>3. file \in Seq(Line) /\ Len(file) \in Nat
      BY DEF TypeOK
    <3>4. /\ DOMAIN file' = 1 .. Len(file) + 1 /\ DOMAIN file = 1 .. Len(file)
          /\ file'[Len(file) + 1] = line
          /\ \A i \in DOMAIN file : file'[i] = file[i]
      BY <3>1, <3>3
    <3>5. \A i \in DOMAIN file' : i = Len(file) + 1 \/ i \in DOMAIN file
      BY <3>3, <3>4
    <3> QED
      BY <3>1, <3>2, <3>4, <3>5 DEF OwnContents
  <2> QED
    BY <2>1, <2>2, <2>3
       DEF Next, Proceed, StopRXThread, Expire, Poll, PollOf, Throw, Done,
           ClosePort, vars, lists, disk
<1> QED
  BY <1>1, <1>2, NextNumbered, NextContents, DumpTyping, PTL DEF Spec
-----------------------------------------------------------------------------
(* When the dump is kept.                                                  *)

(* A second opening is needed for two workers to have the file open at     *)
(* once, and a worker that has returned has dropped its lists.             *)
OpeningsSeen ==
  /\ opened = 0 => ~mixed /\ \A s \in Streams : pc[s] # "write"
  /\ opened = 1 => ~mixed
  /\ \A s \in Streams : pc[s] = "done" => headers[s] = <<>>

LEMMA OpeningsKept ==
  ASSUME TypeOK, OpeningsSeen, [Next]_vars PROVE OpeningsSeen'
<1>1. ASSUME NEW s \in Streams, Take(s) PROVE OpeningsSeen'
  <2>1. /\ pc[s] = "loop" /\ opened \in Nat
        /\ \A u \in Streams \ {s} : headers'[u] = headers[u]
    BY <1>1 DEF Take, Keep, TypeOK
  <2>2. CASE late[s]
    <3>1. /\ pc' = [pc EXCEPT ![s] = "write"] /\ opened' = opened + 1
          /\ mixed' = (mixed \/ \E u \in Streams : pc[u] = "write")
      BY <1>1, <2>2 DEF Take, Open
    <3>2. ASSUME opened' = 1 PROVE ~mixed'
      <4>1. opened = 0
        BY <2>1, <3>1, <3>2
      <4>2. ~mixed /\ \A u \in Streams : pc[u] # "write"
        BY <4>1 DEF OpeningsSeen
      <4> QED
        BY <3>1, <4>2
    <3>3. opened' # 0
      BY <2>1, <3>1
    <3>4. \A u \in Streams : pc'[u] = "done" => headers'[u] = <<>>
      BY <2>1, <3>1 DEF OpeningsSeen, TypeOK
    <3> QED
      BY <3>2, <3>3, <3>4 DEF OpeningsSeen
  <2>3. CASE ~late[s]
    <3>1. UNCHANGED <<pc, opened, mixed>>
      BY <1>1, <2>3 DEF Take, disk
    <3> QED
      BY <2>1, <3>1 DEF OpeningsSeen
  <2> QED
    BY <2>2, <2>3
<1>2. ASSUME NEW s \in Streams, WriteLine(s) PROVE OpeningsSeen'
  BY <1>2 DEF WriteLine, OpeningsSeen, TypeOK
<1>3. ASSUME NEW s \in Streams, Done(s) PROVE OpeningsSeen'
  BY <1>3 DEF Done, OpeningsSeen, TypeOK, lists, disk
<1>4. ASSUME NEW s \in Streams, ClosePort(s) PROVE OpeningsSeen'
  BY <1>4 DEF ClosePort, OpeningsSeen, TypeOK, disk
<1>5. CASE UNCHANGED <<opened, mixed, pc, headers>>
  BY <1>5 DEF OpeningsSeen
<1> QED
  BY <1>1, <1>2, <1>3, <1>4, <1>5
  DEF Next, Proceed, StopRXThread, Expire, Poll, PollOf, Throw, lists, disk, vars

(* What iqClient.h:61 says holds whenever the file has been opened once:   *)
(* the dump of the worker that wrote it is complete.  What the run         *)
(* dump_thread_kept shows comes of opening it again, for every packet that *)
(* was left in the burst or for another worker.                            *)
THEOREM KeptIfOpenedOnce == Spec => [](opened = 1 => DumpIsKept)
<1>1. Init => OpeningsSeen
  BY DEF Init, OpeningsSeen
<1>2. ASSUME TypeOK, OpeningsSeen, FileIsRun, opened = 1, NEW s \in Streams,
             pc[s] = "done", file # <<>>, \A i \in DOMAIN file : file[i].stream = s
      PROVE  Len(file) = taken[s]
  <2>1. PICK u \in Streams :
          /\ \A i \in DOMAIN file : file[i].stream = u
          /\ Len(file) = Written(u)
    BY <1>2 DEF OpeningsSeen, FileIsRun
  <2>2. 1 \in DOMAIN file
    BY <1>2 DEF TypeOK
  <2>3. u = s
    BY <1>2, <2>1, <2>2
  <2>4. headers[s] = <<>> /\ taken[s] \in Nat
    BY <1>2 DEF OpeningsSeen, TypeOK
  <2> QED
    BY <2>1, <2>3, <2>4 DEF Written
<1>3. TypeOK /\ OpeningsSeen /\ FileIsRun => (opened = 1 => DumpIsKept)
  BY <1>2 DEF DumpIsKept
<1> QED
  BY <1>1, <1>3, OpeningsKept, FileOfOneWorker, DumpTyping, PTL DEF Spec

(* A single stream: after the first opening its worker has no more than    *)
(* the rest of its burst to handle, and each of these packets opens the    *)
(* file once more.                                                         *)
LastBurst ==
  \A s \in Streams :
    /\ ~mixed
    /\ opened = 0 \/ opened + Len(burst[s]) <= BurstSize
    /\ opened = 0 => pc[s] # "write"
    /\ opened > 0 /\ pc[s] = "loop" => quit

LEMMA LastBurstKept ==
  ASSUME \A s, u \in Streams : s = u, TypeOK, LastBurst, [Next]_vars
  PROVE  LastBurst'
<1>1. ASSUME NEW s \in Streams, Take(s) PROVE LastBurst'
  <2>1. /\ pc[s] = "loop" /\ opened \in Nat /\ BurstSize \in Nat
        /\ \A u \in Streams : u = s
        /\ Len(burst[s]) \in Nat /\ Len(burst[s]) <= BurstSize
        /\ Len(burst'[s]) = Len(burst[s]) - 1 /\ quit' = quit
    <3>1. burst[s] \in Seq(Packet) /\ burst[s] # <<>> /\ burst'[s] = Tail(burst[s])
      BY <1>1 DEF Take, TypeOK
    <3> QED
      BY <1>1, <3>1, DumpAssumption DEF Take, TypeOK
  <2>2. CASE late[s]
    <3>1. /\ pc' = [pc EXCEPT ![s] = "write"] /\ opened' = opened + 1
          /\ mixed' = (mixed \/ \E u \in Streams : pc[u] = "write")
      BY <1>1, <2>2 DEF Take, Open
    <3>2. ~mixed'
      BY <2>1, <3>1 DEF LastBurst
    <3>3. opened' + Len(burst'[s]) <= BurstSize
      <4>1. opened = 0 \/ opened + Len(burst[s]) <= BurstSize
        BY DEF LastBurst
      <4>2. /\ opened' = opened + 1 /\ opened \in Nat /\ BurstSize \in Nat
            /\ Len(burst[s]) \in Nat /\ Len(burst[s]) <= BurstSize
            /\ Len(burst'[s]) = Len(burst[s]) - 1
        BY <2>1, <3>1
      <4>3. \A x, x1, n, n1, m \in Int :
              x1 = x + 1 /\ n1 = n - 1 /\ n <= m /\ (x = 0 \/ x + n <= m)
                => x1 + n1 <= m
        OBVIOUS
      <4>4. /\ opened \in Int /\ opened' \in Int /\ BurstSize \in Int
            /\ Len(burst[s]) \in Int /\ Len(burst'[s]) \in Int
        BY <4>2
      <4> QED
        BY <4>1, <4>2, <4>3, <4>4, Zenon
    <3>4. opened' # 0 /\ pc'[s] = "write"
      BY <2>1, <3>1 DEF TypeOK
    <3> QED
      BY <2>1, <3>2, <3>3, <3>4 DEF LastBurst
  <2>3. CASE ~late[s]
    <3>1. UNCHANGED <<pc, opened, mixed>>
      BY <1>1, <2>3 DEF Take, disk
    <3>2. opened = 0 \/ opened + Len(burst'[s]) <= BurstSize
      BY <2>1 DEF LastBurst
    <3> QED
      BY <2>1, <3>1, <3>2 DEF LastBurst
  <2> QED
    BY <2>2, <2>3
<1>2. ASSUME NEW s \in Streams, Poll(s) PROVE LastBurst'
  <2>1. \A u \in Streams : u = s
    OBVIOUS
  <2>2. opened = 0 /\ UNCHANGED <<opened, mixed, pc, quit>>
    BY <1>2 DEF Poll, PollOf, AtTop, LastBurst, TypeOK, disk
  <2> QED
    BY <2>1, <2>2 DEF LastBurst
<1>3. ASSUME NEW s \in Streams, WriteLine(s) PROVE LastBurst'
  BY <1>3 DEF WriteLine, LastBurst
<1>4. ASSUME NEW s \in Streams, Done(s) PROVE LastBurst'
  BY <1>4 DEF Done, LastBurst, TypeOK, disk
<1>5. ASSUME NEW s \in Streams, ClosePort(s) PROVE LastBurst'
  BY <1>5 DEF ClosePort, LastBurst, TypeOK, disk
<1>6. CASE UNCHANGED <<burst, opened, mixed, pc>> /\ (quit => quit')
  BY <1>6 DEF LastBurst
<1> QED
  BY <1>1, <1>2, <1>3, <1>4, <1>5, <1>6
  DEF Next, Proceed, StopRXThread, Expire, Throw, lists, disk, vars

(* With one stream the file is never open twice at once, and it is opened  *)
(* at most as often as a burst has packets (32).                           *)
THEOREM OpenedForABurst ==
  ASSUME NEW s \in Streams, \A u \in Streams : u = s
  PROVE  Spec => [](~mixed /\ opened <= BurstSize)
<1>1. Init => LastBurst
  BY DEF Init, LastBurst
<1>2. TypeOK /\ LastBurst /\ [Next]_vars => LastBurst'
  BY LastBurstKept
<1>3. ASSUME TypeOK, LastBurst PROVE ~mixed /\ opened <= BurstSize
  <2>1. Len(burst[s]) \in Nat /\ opened \in Nat /\ BurstSize \in Nat
    BY <1>3, DumpAssumption DEF TypeOK
  <2> QED
    BY <1>3, <2>1 DEF LastBurst
<1> QED
  BY <1>1, <1>2, <1>3, DumpTyping, PTL DEF Spec

-----------------------------------------------------------------------------
(* What the traffic decides.                                               *)

(* What is polled has arrived.                                             *)
BurstArrived ==
  \A s \in Streams : \A j \in 1 .. Len(burst[s]) : burst[s][j].type \in Traffic

LEMMA BurstArrivedKept ==
  ASSUME TypeOK, BurstArrived, [Next]_vars PROVE BurstArrived'
<1>1. ASSUME NEW s \in Streams, Poll(s) PROVE BurstArrived'
  <2>1. PICK k \in 1 .. BurstSize : PollOf(s, k)
    BY <1>1 DEF Poll
  <2>2. PICK type \in [1 .. k -> Traffic] :
          burst' = [burst EXCEPT ![s] =
                     [j \in 1 .. k |-> [n |-> taken[s] + j, type |-> type[j]]]]
    BY <2>1 DEF PollOf
  <2> DEFINE b == [j \in 1 .. k |-> [n |-> taken[s] + j, type |-> type[j]]]
  <2>3. \A j \in 1 .. Len(b) : b[j].type \in Traffic
    <3>1. k \in Nat
      BY DumpAssumption
    <3>2. Len(b) = k
      BY <3>1
    <3> QED
      BY <2>2, <3>2
  <2>4. burst' = [burst EXCEPT ![s] = b]
    BY <2>2
  <2> HIDE DEF b
  <2> QED
    BY <2>3, <2>4 DEF BurstArrived, TypeOK
<1>2. ASSUME NEW s \in Streams, Take(s) PROVE BurstArrived'
  <2>1. /\ burst[s] \in Seq(Packet) /\ burst[s] # <<>>
        /\ burst' = [burst EXCEPT ![s] = Tail(@)]
    BY <1>2 DEF Take, TypeOK
  <2>2. \A j \in 1 .. Len(Tail(burst[s])) : Tail(burst[s])[j].type \in Traffic
    BY <2>1, TailAt DEF BurstArrived
  <2> QED
    BY <2>1, <2>2 DEF BurstArrived, TypeOK
<1>3. CASE UNCHANGED burst
  BY <1>3 DEF BurstArrived
<1> QED
  BY <1>1, <1>2, <1>3
  DEF Next, Proceed, StopRXThread, Expire, Throw, WriteLine, Done, ClosePort, vars

LEMMA BurstInvariant == Spec => []BurstArrived
<1>1. Init => BurstArrived
  BY DEF Init, BurstArrived
<1> QED
  BY <1>1, BurstArrivedKept, DumpTyping, PTL DEF Spec

(* A dump ends in an exception only for a header whose control bits name   *)
(* no type.                                                                *)
THEOREM DumpDoesNotThrow ==
  ASSUME "UNMATCHED" \notin Traffic
  PROVE  Spec => []~crashed
<1>1. Init => ~crashed
  BY DEF Init
<1>2. ASSUME TypeOK, BurstArrived, ~crashed, [Next]_vars PROVE ~crashed'
  <2>1. ASSUME NEW s \in Streams, Throw(s) PROVE FALSE
    <3>1. 1 \in 1 .. Len(burst[s])
      BY <1>2, <2>1 DEF Throw, TypeOK
    <3> QED
      BY <1>2, <2>1, <3>1 DEF Throw, BurstArrived
  <2> QED
    BY <1>2, <2>1
    DEF Next, Proceed, StopRXThread, Expire, Poll, PollOf, Take, WriteLine, Done,
        ClosePort, vars
<1> QED
  BY <1>1, <1>2, BurstInvariant, DumpTyping, PTL DEF Spec

(* If the device sends samples and metadata only, no line has the samples  *)
(* or the metadata of another packet: what shifts them in OwnContents is   *)
(* the payload kept of packets that have no line for it.                   *)
THEOREM LinesOwnWithoutOthers ==
  ASSUME Traffic \subseteq {"DATA", "DATA_END_OF_BURST", "METADATA", "UNMATCHED"}
  PROVE  Spec => [](\A i \in DOMAIN file :
                      /\ file[i].meta \in {0, file[i].n}
                      /\ file[i].payload \in {0, file[i].n})
<1> DEFINE NoMisfit == \A s \in Streams : misfit[s] = 0
<1>1. Init => NoMisfit
  BY DEF Init
<1>2. ASSUME TypeOK, BurstArrived, NoMisfit, [Next]_vars PROVE NoMisfit'
  <2>1. ASSUME NEW s \in Streams, Take(s) PROVE misfit' = misfit
    <3>1. 1 \in 1 .. Len(burst[s])
      BY <1>2, <2>1 DEF Take, TypeOK
    <3>2. burst[s][1].type \in {"DATA", "DATA_END_OF_BURST", "METADATA", "UNMATCHED"}
      BY <1>2, <3>1 DEF BurstArrived
    <3> QED
      BY <2>1, <3>2 DEF Take, IsValidPacketType
  <2>2. CASE UNCHANGED misfit
    BY <1>2, <2>2
  <2> QED
    BY <1>2, <2>1, <2>2
    DEF Next, Proceed, StopRXThread, Expire, Poll, PollOf, Throw, WriteLine, Done,
        ClosePort, vars, lists
<1>3. ASSUME TypeOK, OwnContents, NoMisfit, NEW i \in DOMAIN file
      PROVE  file[i].meta \in {0, file[i].n} /\ file[i].payload \in {0, file[i].n}
  <2>1. file[i].stream \in Streams
    <3>1. file[i] \in Line
      BY <1>3 DEF TypeOK
    <3> QED
      BY <3>1 DEF Line
  <2>2. misfit[file[i].stream] \notin 1 .. file[i].n
    BY <1>3, <2>1
  <2> QED
    BY <1>3, <2>2 DEF OwnContents
<1>4. TypeOK /\ OwnContents /\ NoMisfit =>
        \A i \in DOMAIN file : /\ file[i].meta \in {0, file[i].n}
                               /\ file[i].payload \in {0, file[i].n}
  BY <1>3
<1> HIDE DEF NoMisfit
<1> QED
  BY <1>1, <1>2, <1>4, BurstInvariant, LinesAreTheirOwn, DumpTyping, PTL DEF Spec
=============================================================================
