---------------------------- MODULE DaemonProofs ----------------------------
(***************************************************************************)
(* Proofs about Daemon, for any threads, conversations and bounds: types,  *)
(* the order of the steps of a registration, that a gate ends once, and    *)
(* what the memory keeps of baselines and of fresh gates.                  *)
(***************************************************************************)
EXTENDS Daemon, WellFoundedInduction, SequenceTheorems, TLAPS

-----------------------------------------------------------------------------
(* Types.  Calls and entries are built in a few places only. *)

LEMMA NewCallType ==
  ASSUME NEW kind \in Kind, NEW c \in Conv, NEW step \in Nat, NEW gate \in Nat,
         NEW sha \in Sha \cup {NoSha}, NEW at \in {"set", "sweep", "loop"}
  PROVE  NewCall(kind, c, step, gate, sha, at) \in Call
BY DEF NewCall, Call

LEMMA MovedType ==
  ASSUME NEW call \in Call, NEW at \in {"set", "sweep", "loop"},
         NEW todo \in SUBSET Conv, NEW seen \in Nat
  PROVE  Moved(call, at, todo, seen) \in Call
BY DEF Moved, Call

LEMMA CallFields ==
  ASSUME NEW call \in Call
  PROVE  /\ call.kind \in Kind /\ call.conv \in Conv /\ call.step \in Nat
         /\ call.gate \in Nat /\ call.sha \in Sha \cup {NoSha}
         /\ call.todo \in SUBSET Conv /\ call.seen \in Nat
BY DEF Call

LEMMA SessionFields ==
  ASSUME NEW s \in Session
  PROVE  s.secret \in Nat /\ s.last \in StepOrNone
BY DEF Session

LEMMA GateFields ==
  ASSUME NEW g \in Gate
  PROVE  g.id \in Nat /\ g.old \in BOOLEAN
BY DEF Gate

LEMMA Values ==
  /\ NoSession \in Session /\ NoGate \in Gate
  /\ \A n \in Nat : [id |-> n, old |-> TRUE] \in Gate /\ [id |-> n, old |-> FALSE] \in Gate
  /\ \A n \in Nat, last \in StepOrNone : [secret |-> n, last |-> last] \in Session
  /\ -1 \in StepOrNone
BY DEF NoSession, NoGate, Session, Gate, StepOrNone

LEMMA EntryType ==
  ASSUME NEW call \in Call, NEW n \in Nat
  PROVE  [kind |-> call.kind, conv |-> call.conv, step |-> call.step,
          gate |-> call.gate, sha |-> call.sha, era |-> n] \in Entry
BY CallFields DEF Entry

LEMMA StackTypes ==
  ASSUME TypeOK, NEW t \in Thread, ~ Idle(t)
  PROVE  /\ Running(t) \in Call
         /\ Beneath(t) \in Seq(Call)
         /\ Len(Beneath(t)) = Len(calls[t]) - 1
         /\ \A k \in 1 .. Len(Beneath(t)) : Beneath(t)[k] = calls[t][k]
         /\ Len(calls[t]) \in Nat \ {0}
<1>1. calls[t] \in Seq(Call) /\ calls[t] # <<>>
  BY DEF TypeOK, Idle
<1>2. Len(calls[t]) \in Nat \ {0}
  BY <1>1, EmptySeq, LenProperties
<1>3. Len(calls[t]) \in 1 .. Len(calls[t])
  BY <1>2
<1>4. QED
  BY <1>1, <1>2, <1>3 DEF Running, Beneath

LEMMA StepTypes ==
  ASSUME TypeOK, NEW c \in Conv
  PROVE  OwnStep(c) \in Nat /\ LastStep(c) \in StepOrNone
BY SessionFields DEF TypeOK, OwnStep, LastStep, StepOrNone

LEMMA MinExists ==
  ASSUME NEW T \in SUBSET Nat, T # {}
  PROVE  \E m \in T : \A k \in T : m <= k
<1>1. PICK m \in T : \A k \in T : ~ (<<k, m>> \in OpToRel(<, Nat))
  BY NatLessThanWellFounded, WFMin, Zenon
<1>2. \A k \in T : ~ (k < m)
  BY <1>1 DEF OpToRel
<1>3. QED
  BY <1>2

LEMMA KnownBaselineType ==
  ASSUME TypeOK, NEW c \in Conv
  PROVE  KnownBaseline(c) \in Sha \cup {NoSha}
<1>1. CASE baselines[c] # NoSha \/ BaselineEntries(c) = {}
  BY <1>1 DEF KnownBaseline, TypeOK
<1>2. CASE baselines[c] = NoSha /\ BaselineEntries(c) # {}
  <2>1. BaselineEntries(c) \subseteq Nat
    BY DEF BaselineEntries, TypeOK
  <2>2. \E i \in BaselineEntries(c) : \A j \in BaselineEntries(c) : i <= j
    BY <1>2, <2>1, MinExists
  <2> DEFINE i == CHOOSE i \in BaselineEntries(c) : \A j \in BaselineEntries(c) : i <= j
  <2>3. i \in BaselineEntries(c)
    BY <2>2
  <2>4. KnownBaseline(c) = ledger[i].sha
    BY <1>2 DEF KnownBaseline
  <2> HIDE DEF i
  <2>5. ledger[i] \in Entry
    BY <2>3 DEF BaselineEntries, TypeOK
  <2>6. QED
    BY <2>4, <2>5 DEF Entry
<1>3. QED
  BY <1>1, <1>2

\* Type correctness, with every bound a parameter.
THEOREM DaemonTypeCorrect == Spec => []TypeOK
<1> USE DaemonAssumption DEF memory, history
<1>1. Init => TypeOK
  BY Values DEF Init, TypeOK
<1>2. TypeOK /\ [Next]_vars => TypeOK'
  <2> SUFFICES ASSUME TypeOK, [Next]_vars
               PROVE  TypeOK'
    OBVIOUS
  <2>1. ASSUME NEW t \in Thread, NEW c \in Conv, AskSession(t, c)
        PROVE  TypeOK'
    BY <2>1, NewCallType DEF TypeOK, AskSession, Begin, Kind
  <2>2. ASSUME NEW t \in Thread, Register(t)
        PROVE  TypeOK'
    <3>1. /\ [secret |-> secrets + 1, last |-> -1] \in Session
          /\ Running(t).conv \in Conv
      <4>1. secrets + 1 \in Nat
        BY DEF TypeOK
      <4>2. [secret |-> secrets + 1, last |-> -1] \in Session
        BY <4>1 DEF Session, StepOrNone
      <4>3. Running(t).conv \in Conv
        BY <2>2, StackTypes, CallFields DEF TypeOK, Register
      <4>4. QED
        BY <4>2, <4>3
    <3>2. sessions' \in [Conv -> Session] /\ secrets' \in Nat
      BY <2>2, <3>1 DEF TypeOK, Register
    <3>3. QED
      BY <2>2, <3>1, <3>2 DEF TypeOK, Register, End
  <2>3. ASSUME NEW t \in Thread, NEW c \in Conv, NEW s \in 0 .. MaxStep, AskRecord(t, c, s)
        PROVE  TypeOK'
    BY <2>3, NewCallType DEF TypeOK, AskRecord, Begin, Kind
  <2>4. ASSUME NEW t \in Thread, NEW c \in Conv, AskGate(t, c)
        PROVE  TypeOK'
    BY <2>4, NewCallType DEF TypeOK, AskGate, Begin, Kind
  <2>5. ASSUME NEW t \in Thread, NEW c \in Conv, AskVerdict(t, c)
        PROVE  TypeOK'
    <3>1. NewCall("verdict", c, OwnStep(c), gates[c].id, NoSha, "sweep") \in Call
      BY StepTypes, GateFields, NewCallType DEF TypeOK, Kind
    <3>2. QED
      BY <2>5, <3>1, Values DEF TypeOK, AskVerdict, Begin
  <2>6. ASSUME NEW t \in Thread, NEW c \in Conv, FindBaseline(t, c)
        PROVE  TypeOK'
    BY <2>6, KnownBaselineType DEF TypeOK, FindBaseline, Answered
  <2>7. ASSUME NEW t \in Thread, NEW c \in Conv, NEW sha \in Sha, AskBaseline(t, c, sha)
        PROVE  TypeOK'
    <3>1. contested' \in SUBSET Conv
      BY <2>7 DEF TypeOK, AskBaseline
    <3>2. QED
      BY <2>7, <3>1, NewCallType DEF TypeOK, AskBaseline, Begin, Kind
  <2>8. ASSUME NEW t \in Thread, SetBaseline(t)
        PROVE  TypeOK'
    <3>1. Moved(Running(t), "sweep", {}, 0) \in Call
      BY <2>8, StackTypes, MovedType DEF SetBaseline
    <3>2. Append(Beneath(t), Moved(Running(t), "sweep", {}, 0)) \in Seq(Call)
      BY <2>8, <3>1, StackTypes DEF SetBaseline
    <3>3. QED
      BY <2>8, <3>2, StackTypes, CallFields DEF TypeOK, SetBaseline, Become
  <2>9. ASSUME NEW t \in Thread, ListExpired(t)
        PROVE  TypeOK'
    <3> DEFINE todo == {c \in Conv : gates[c].old}
    <3>1. Moved(Running(t), "loop", todo, gateIds) \in Call
      BY <2>9, StackTypes, MovedType DEF ListExpired, TypeOK
    <3>2. Append(Beneath(t), Moved(Running(t), "loop", todo, gateIds)) \in Seq(Call)
      BY <2>9, <3>1, StackTypes DEF ListExpired
    <3>3. QED
      BY <2>9, <3>2 DEF TypeOK, ListExpired, Become
  <2>10. ASSUME NEW t \in Thread, NEW c \in Conv, Sweep(t, c)
         PROVE  TypeOK'
    <3> DEFINE rest == Moved(Running(t), "loop", Running(t).todo \ {c}, Running(t).seen)
               record == NewCall("unverified", c, OwnStep(c), gates[c].id, NoSha, "sweep")
    <3>1. rest \in Call
      BY <2>10, StackTypes, CallFields, MovedType DEF Sweep
    <3>2. record \in Call
      BY StepTypes, GateFields, NewCallType DEF TypeOK, Kind
    <3> HIDE DEF rest, record
    <3>3. /\ Append(Beneath(t), rest) \in Seq(Call)
          /\ Append(Append(Beneath(t), rest), record) \in Seq(Call)
      BY <2>10, <3>1, <3>2, StackTypes DEF Sweep
    <3>4. \E s \in Seq(Call) : calls' = [calls EXCEPT ![t] = s]
      BY <2>10, <3>3 DEF Sweep, Become, rest, record
    <3>5. QED
      BY <2>10, <3>4, Values DEF TypeOK, Sweep
  <2>11. ASSUME NEW t \in Thread, OpenGate(t)
         PROVE  TypeOK'
    <3>1. ~ Idle(t)
      BY <2>11 DEF OpenGate, Swept
    <3>2. [id |-> gateIds + 1, old |-> FALSE] \in Gate
      <4>1. gateIds + 1 \in Nat
        BY DEF TypeOK
      <4>2. QED
        BY <4>1, Values, Zenon
    <3>3. gates' \in [Conv -> Gate] /\ gateIds' \in Nat
      <4> DEFINE g == [id |-> gateIds + 1, old |-> FALSE]
      <4>1. gates' = [gates EXCEPT ![Running(t).conv] = g]
        BY <2>11 DEF OpenGate
      <4>2. g \in Gate
        BY <3>2
      <4>3. gateIds' \in Nat
        BY <2>11 DEF OpenGate, TypeOK
      <4> HIDE DEF g
      <4>4. QED
        BY <4>1, <4>2, <4>3 DEF TypeOK
    <3>4. QED
      BY <2>11, <3>3 DEF TypeOK, OpenGate, End
  <2>12. ASSUME NEW t \in Thread, Commit(t)
         PROVE  TypeOK'
    <3>1. ~ Idle(t) /\ Running(t) \in Call /\ Beneath(t) \in Seq(Call)
      BY <2>12, StackTypes DEF Commit, Swept
    <3> DEFINE call == Running(t)
               c == call.conv
               n == Larger(LastStep(c), call.step)
               e == [kind |-> call.kind, conv |-> call.conv, step |-> call.step,
                     gate |-> call.gate, sha |-> call.sha, era |-> era[call.conv]]
    <3>2. c \in Conv /\ call.sha \in Sha \cup {NoSha} /\ call.step \in Nat
      BY <3>1, CallFields
    <3>3. n \in StepOrNone
      BY <3>2, StepTypes DEF Larger, StepOrNone
    <3>4. e \in Entry
      BY <3>1, <3>2, EntryType DEF TypeOK
    <3>5. sessions' \in [Conv -> Session] /\ counters' \in [Conv -> StepOrNone]
      <4>1. Advanced(call)
        BY <2>12 DEF Commit
      <4>2. \/ /\ sessions' = [sessions EXCEPT ![c] = [secret |-> sessions[c].secret, last |-> n]]
               /\ counters' = counters
            \/ /\ counters' = [counters EXCEPT ![c] = n]
               /\ sessions' = sessions
        BY <4>1 DEF Advanced
      <4>3. [secret |-> sessions[c].secret, last |-> n] \in Session
        BY <3>2, <3>3, SessionFields, Values DEF TypeOK
      <4> HIDE DEF n, c
      <4>4. QED
        BY <3>2, <3>3, <4>2, <4>3 DEF TypeOK
    <3>6. ledger' \in Seq(Entry)
      <4>1. ledger' = Append(ledger, e)
        BY <2>12 DEF Commit
      <4> HIDE DEF e
      <4>2. QED
        BY <3>4, <4>1 DEF TypeOK
    <3>7. answers' \in [Conv -> SUBSET (Sha \cup {NoSha})]
      <4>1. \/ answers' = [answers EXCEPT ![c] = @ \cup {call.sha}]
            \/ answers' = answers
        BY <2>12 DEF Commit, Answered
      <4>2. answers[c] \cup {call.sha} \in SUBSET (Sha \cup {NoSha})
        BY <3>2 DEF TypeOK
      <4> HIDE DEF c, call
      <4>3. QED
        BY <3>2, <4>1, <4>2 DEF TypeOK
    <3>8. QED
      BY <2>12, <3>1, <3>5, <3>6, <3>7 DEF TypeOK, Commit, Return
  <2>13. ASSUME NEW t \in Thread, Refuse(t)
         PROVE  TypeOK'
    <3>1. ~ Idle(t)
      BY <2>13 DEF Refuse, Swept
    <3>2. QED
      BY <2>13, <3>1, StackTypes, CallFields DEF TypeOK, Refuse, Return
  <2>14. ASSUME NEW c \in Conv, GateExpires(c)
         PROVE  TypeOK'
    BY <2>14, GateFields, Values DEF TypeOK, GateExpires
  <2>15. CASE Restart
    BY <2>15, Values DEF TypeOK, Restart
  <2>16. CASE UNCHANGED vars
    BY <2>16 DEF TypeOK, vars
  <2>17. QED
    BY <2>1, <2>2, <2>3, <2>4, <2>5, <2>6, <2>7, <2>8, <2>9, <2>10, <2>11, <2>12,
       <2>13, <2>14, <2>15, <2>16 DEF Next, Step, Request
<1>3. QED
  BY <1>1, <1>2, PTL DEF Spec

-----------------------------------------------------------------------------
(* The order of steps *)

\* The entries of the present registration are not ahead of its last step, and
\* none belongs to a registration to come.
StepInv ==
  /\ MonotoneSteps
  /\ \A i \in DOMAIN ledger, c \in Conv :
       ledger[i].conv = c =>
         /\ ledger[i].era <= era[c]
         /\ ledger[i].era = era[c] => ledger[i].step <= LastStep(c)

LEMMA EntryFields ==
  ASSUME NEW e \in Entry
  PROVE  e.conv \in Conv /\ e.step \in Nat /\ e.era \in Nat /\ e.gate \in Nat
BY DEF Entry

\* A new registration of c leaves its entries behind.
LEMMA NewEra ==
  ASSUME TypeOK, StepInv, ledger' = ledger,
         NEW D \in SUBSET Conv,
         \A c \in D : era'[c] = era[c] + 1,
         \A c \in Conv \ D : era'[c] = era[c] /\ LastStep(c)' = LastStep(c)
  PROVE  StepInv'
<1>1. MonotoneSteps'
  BY DEF StepInv, MonotoneSteps
<1>2. ASSUME NEW i \in DOMAIN ledger, NEW c \in Conv, ledger[i].conv = c
      PROVE  /\ ledger[i].era <= era'[c]
             /\ ledger[i].era = era'[c] => ledger[i].step <= LastStep(c)'
  <2>1. ledger[i].era \in Nat /\ era[c] \in Nat
    BY EntryFields DEF TypeOK
  <2>2. /\ ledger[i].era <= era[c]
        /\ ledger[i].era = era[c] => ledger[i].step <= LastStep(c)
    BY <1>2 DEF StepInv
  <2>3. CASE c \in D
    BY <2>1, <2>2, <2>3
  <2>4. CASE c \notin D
    BY <2>1, <2>2, <2>4
  <2>5. QED
    BY <2>3, <2>4
<1>3. QED
  BY <1>1, <1>2 DEF StepInv

LEMMA StepsUntouched ==
  ASSUME TypeOK, StepInv, UNCHANGED <<ledger, era, sessions, counters>>
  PROVE  StepInv'
<1>1. \A c \in Conv \ {} : era'[c] = era[c] /\ LastStep(c)' = LastStep(c)
  BY DEF LastStep, Registered
<1>2. \A c \in {} : era'[c] = era[c] + 1
  OBVIOUS
<1>3. ledger' = ledger /\ {} \in SUBSET Conv
  OBVIOUS
<1>4. QED
  BY <1>1, <1>2, <1>3, NewEra

LEMMA StepInduction ==
  ASSUME TypeOK, StepInv, [Next]_vars
  PROVE  StepInv'
<1> USE DEF memory, history
<1>1. ASSUME NEW t \in Thread, Register(t)
      PROVE  StepInv'
  <2>1. PICK c \in Conv : c = Running(t).conv
    BY <1>1, StackTypes, CallFields DEF Register
  <2>2. /\ ledger' = ledger /\ counters' = counters
        /\ \A d \in Conv \ {c} : sessions'[d] = sessions[d] /\ era'[d] = era[d]
        /\ era'[c] = era[c] + 1
    BY <1>1, <2>1 DEF Register, TypeOK
  <2>3. \A d \in Conv \ {c} : LastStep(d)' = LastStep(d)
    BY <2>2 DEF LastStep, Registered
  <2>4. {c} \in SUBSET Conv
    BY <2>1
  <2>5. QED
    BY <2>2, <2>3, <2>4, NewEra
<1>2. CASE Restart
  <2>1. ledger' = ledger /\ \A c \in Conv : era'[c] = era[c] + 1
    BY <1>2 DEF Restart, TypeOK
  <2>2. MonotoneSteps'
    BY <2>1 DEF StepInv, MonotoneSteps
  <2>3. ASSUME NEW i \in DOMAIN ledger, NEW c \in Conv, ledger[i].conv = c
        PROVE  ledger[i].era < era'[c]
    <3>1. ledger[i].era \in Nat /\ era[c] \in Nat
      BY EntryFields DEF TypeOK
    <3>2. ledger[i].era <= era[c]
      BY <2>3 DEF StepInv
    <3>3. QED
      BY <2>1, <3>1, <3>2
  <2>4. \A i \in DOMAIN ledger, c \in Conv : ledger[i].conv = c =>
          ledger[i].era <= era'[c] /\ ledger[i].era # era'[c]
    <3> TAKE i \in DOMAIN ledger, c \in Conv
    <3>1. ledger[i].era \in Nat /\ era'[c] \in Nat
      BY <2>1, EntryFields DEF TypeOK
    <3>2. QED
      BY <2>3, <3>1
  <2>5. QED
    BY <2>1, <2>2, <2>4 DEF StepInv
<1>3. ASSUME NEW t \in Thread, Commit(t)
      PROVE  StepInv'
  <2>1. Running(t) \in Call /\ ~ Refused(Running(t)) /\ Advanced(Running(t))
    BY <1>3, StackTypes DEF Commit, Swept
  <2>2. PICK call \in Call : call = Running(t)
    BY <2>1
  <2>3. PICK c \in Conv : c = call.conv
    BY CallFields
  <2>4. PICK e \in Entry :
          /\ ledger' = Append(ledger, e)
          /\ e.conv = c /\ e.step = call.step /\ e.era = era[c]
    <3> DEFINE f == [kind |-> call.kind, conv |-> call.conv, step |-> call.step,
                     gate |-> call.gate, sha |-> call.sha, era |-> era[call.conv]]
    <3>1. f \in Entry
      BY <2>3, EntryType DEF TypeOK
    <3>2. ledger' = Append(ledger, f)
      BY <1>3, <2>2 DEF Commit
    <3>3. f.conv = c /\ f.step = call.step /\ f.era = era[c]
      BY <2>3
    <3>4. QED
      BY <3>1, <3>2, <3>3
  <2> DEFINE n == Len(ledger) + 1
  <2>0. call.step \in Nat /\ LastStep(c) \in StepOrNone /\ era' = era
    BY <1>3, CallFields, StepTypes DEF Commit
  <2>5. LastStep(c) <= call.step
    BY <2>0, <2>1, <2>2, <2>3 DEF Refused, StepOrNone
  <2>6. LastStep(c)' = call.step
    <3>1. Larger(LastStep(c), call.step) = call.step
      BY <2>0, <2>5 DEF Larger, StepOrNone
    <3>2. CASE Registered(c)
      <4>1. sessions' = [sessions EXCEPT ![c] =
                           [secret |-> sessions[c].secret, last |-> call.step]]
        BY <2>1, <2>2, <2>3, <3>1, <3>2 DEF Advanced
      <4>2. sessions'[c] = [secret |-> sessions[c].secret, last |-> call.step]
        BY <4>1 DEF TypeOK
      <4>3. sessions'[c].secret = sessions[c].secret /\ sessions'[c].last = call.step
        BY <4>2
      <4>4. QED
        BY <3>2, <4>3 DEF LastStep, Registered
    <3>3. CASE ~ Registered(c)
      <4>1. counters' = [counters EXCEPT ![c] = call.step] /\ sessions' = sessions
        BY <2>1, <2>2, <2>3, <3>1, <3>3 DEF Advanced
      <4>2. counters'[c] = call.step
        BY <4>1 DEF TypeOK
      <4>3. QED
        BY <3>3, <4>1, <4>2 DEF LastStep, Registered
    <3>4. QED
      BY <3>2, <3>3
  <2>7. \A d \in Conv \ {c} : LastStep(d)' = LastStep(d)
    <3>1. \A d \in Conv \ {c} : sessions'[d] = sessions[d] /\ counters'[d] = counters[d]
      BY <2>1, <2>2, <2>3 DEF Advanced, TypeOK
    <3>2. QED
      BY <3>1 DEF LastStep, Registered
  <2>8. /\ DOMAIN ledger = 1 .. Len(ledger) /\ Len(ledger) \in Nat
        /\ DOMAIN ledger' = 1 .. n
        /\ ledger'[n] = e
        /\ \A i \in DOMAIN ledger : ledger'[i] = ledger[i]
    BY <2>4 DEF TypeOK
  <2>9. ASSUME NEW i \in DOMAIN ledger, ledger[i].conv = c
        PROVE  /\ ledger[i].era <= era[c]
               /\ ledger[i].era = era[c] => ledger[i].step <= call.step
    <3>1. /\ ledger[i].era <= era[c]
          /\ ledger[i].era = era[c] => ledger[i].step <= LastStep(c)
      BY <2>9 DEF StepInv
    <3>2. ledger[i].step \in Nat
      BY EntryFields DEF TypeOK
    <3>3. QED
      BY <2>0, <2>5, <3>1, <3>2 DEF StepOrNone
  <2>10. MonotoneSteps'
    <3> SUFFICES ASSUME NEW i \in 1 .. n, NEW j \in 1 .. n, i < j,
                        ledger'[i].conv = ledger'[j].conv,
                        ledger'[i].era = ledger'[j].era
                 PROVE  ledger'[i].step <= ledger'[j].step
      BY <2>8 DEF MonotoneSteps
    <3>1. i \in DOMAIN ledger
      BY <2>8
    <3>2. CASE j = n
      <4>1. /\ ledger[i].conv = c /\ ledger[i].era = era[c]
            /\ ledger'[i] = ledger[i] /\ ledger'[j].step = call.step
        BY <2>4, <2>8, <3>1, <3>2
      <4>2. QED
        BY <2>9, <3>1, <4>1
    <3>3. CASE j # n
      <4>1. j \in DOMAIN ledger
        BY <2>8, <3>3
      <4>2. QED
        BY <2>8, <3>1, <4>1 DEF StepInv, MonotoneSteps
    <3>4. QED
      BY <3>2, <3>3
  <2>11. ASSUME NEW i \in DOMAIN ledger', NEW d \in Conv, ledger'[i].conv = d
         PROVE  /\ ledger'[i].era <= era'[d]
                /\ ledger'[i].era = era'[d] => ledger'[i].step <= LastStep(d)'
    <3>1. CASE i = n
      <4>1. era[c] \in Nat /\ ledger'[i] = e /\ d = c
        BY <2>4, <2>8, <2>11, <3>1 DEF TypeOK
      <4>2. QED
        BY <2>0, <2>4, <2>6, <4>1
    <3>2. CASE i # n
      <4>1. i \in DOMAIN ledger /\ ledger'[i] = ledger[i] /\ ledger[i].conv = d
        BY <2>8, <2>11, <3>2
      <4>2. CASE d = c
        BY <2>0, <2>6, <2>9, <4>1, <4>2
      <4>3. CASE d # c
        BY <2>0, <2>7, <4>1, <4>3 DEF StepInv
      <4>4. QED
        BY <4>2, <4>3
    <3>3. QED
      BY <3>1, <3>2
  <2>12. QED
    BY <2>10, <2>11 DEF StepInv
<1>4. ASSUME NEW t \in Thread, NEW c \in Conv, Request(t, c)
      PROVE  UNCHANGED <<ledger, era, sessions, counters>>
  BY <1>4 DEF Request, AskSession, AskRecord, AskGate, AskVerdict, FindBaseline, AskBaseline
<1>5. ASSUME NEW t \in Thread,
             \/ SetBaseline(t) \/ ListExpired(t) \/ OpenGate(t) \/ Refuse(t)
             \/ \E c \in Conv : Sweep(t, c)
      PROVE  UNCHANGED <<ledger, era, sessions, counters>>
  BY <1>5 DEF SetBaseline, ListExpired, OpenGate, Refuse, Sweep
<1>6. ASSUME NEW c \in Conv, GateExpires(c)
      PROVE  UNCHANGED <<ledger, era, sessions, counters>>
  BY <1>6 DEF GateExpires
<1>7. CASE UNCHANGED vars
  BY <1>7, StepsUntouched DEF vars
<1>8. QED
  BY <1>1, <1>2, <1>3, <1>4, <1>5, <1>6, <1>7, StepsUntouched DEF Next, Step

\* Within one registration of a conversation the recorded steps never go back,
\* for any number of threads, conversations, gates and restarts.
THEOREM StepsMonotone == Spec => []MonotoneSteps
<1>1. Init => StepInv
  BY DEF Init, StepInv, MonotoneSteps
<1>2. TypeOK /\ StepInv /\ [Next]_vars => StepInv'
  BY StepInduction
<1>3. StepInv => MonotoneSteps
  BY DEF StepInv
<1>4. QED
  BY <1>1, <1>2, <1>3, DaemonTypeCorrect, PTL DEF Spec

-----------------------------------------------------------------------------
(* A gate ends once *)

\* Every gate id given out is in one place: active, waiting in one call of one
\* thread to be recorded, or in one entry.
GateInv ==
  /\ \A c \in Conv : gates[c].id <= gateIds
  /\ \A t \in Thread : \A k \in DOMAIN calls[t] : calls[t][k].gate <= gateIds
  /\ \A i \in DOMAIN ledger : ledger[i].gate <= gateIds
  /\ \A c, d \in Conv : gates[c].id = gates[d].id /\ gates[c].id # 0 => c = d
  /\ \A t \in Thread : \A k \in DOMAIN calls[t] : calls[t][k].gate # 0 =>
       /\ \A c \in Conv : calls[t][k].gate # gates[c].id
       /\ \A i \in DOMAIN ledger : calls[t][k].gate # ledger[i].gate
       /\ \A u \in Thread : \A l \in DOMAIN calls[u] :
            calls[t][k].gate = calls[u][l].gate => t = u /\ k = l
  /\ GateEndsOnce

\* The calls that are left, or go on, keep their gates; a new one has none.
CallsKeepGates ==
  \A t \in Thread : \A k \in DOMAIN calls'[t] :
    \/ calls'[t][k].gate = 0
    \/ k \in DOMAIN calls[t] /\ calls'[t][k].gate = calls[t][k].gate

LEMMA GatesLeft ==
  ASSUME TypeOK, GateInv, CallsKeepGates, ledger' = ledger, gateIds' = gateIds,
         \A c \in Conv : gates'[c].id \in {0, gates[c].id}
  PROVE  GateInv'
<1>1. gateIds \in Nat
  BY DEF TypeOK
<1>2. \A c \in Conv : gates'[c].id <= gateIds
  BY <1>1 DEF GateInv
<1>3. \A t \in Thread : \A k \in DOMAIN calls'[t] : calls'[t][k].gate <= gateIds
  BY <1>1 DEF GateInv, CallsKeepGates
<1>4. \A c, d \in Conv : gates'[c].id = gates'[d].id /\ gates'[c].id # 0 => c = d
  BY DEF GateInv
<1>5. ASSUME NEW t \in Thread, NEW k \in DOMAIN calls'[t], calls'[t][k].gate # 0
      PROVE  /\ \A c \in Conv : calls'[t][k].gate # gates'[c].id
             /\ \A i \in DOMAIN ledger : calls'[t][k].gate # ledger[i].gate
             /\ \A u \in Thread : \A l \in DOMAIN calls'[u] :
                  calls'[t][k].gate = calls'[u][l].gate => t = u /\ k = l
  BY <1>5 DEF GateInv, CallsKeepGates
<1>6. GateEndsOnce'
  BY DEF GateInv, GateEndsOnce
<1>7. QED
  BY <1>2, <1>3, <1>4, <1>5, <1>6 DEF GateInv

\* The gate of c goes from the memory to the call that will record its end.
LEMMA GateTaken ==
  ASSUME TypeOK, GateInv, ledger' = ledger, gateIds' = gateIds,
         NEW t \in Thread, NEW c \in Conv, NEW n \in DOMAIN calls'[t],
         calls'[t][n].gate = gates[c].id,
         gates'[c].id = 0,
         \A d \in Conv \ {c} : gates'[d].id = gates[d].id,
         \A u \in Thread : \A k \in DOMAIN calls'[u] :
           \/ u = t /\ k = n
           \/ k \in DOMAIN calls[u] /\ calls'[u][k].gate = calls[u][k].gate
  PROVE  GateInv'
<1>1. gateIds \in Nat
  BY DEF TypeOK
<1>2. \A d \in Conv : gates'[d].id <= gateIds
  BY <1>1 DEF GateInv
<1>3. \A u \in Thread : \A k \in DOMAIN calls'[u] : calls'[u][k].gate <= gateIds
  BY DEF GateInv
<1>4. \A d, e \in Conv : gates'[d].id = gates'[e].id /\ gates'[d].id # 0 => d = e
  BY DEF GateInv
<1>5. ASSUME NEW u \in Thread, NEW k \in DOMAIN calls'[u], calls'[u][k].gate # 0
      PROVE  /\ \A d \in Conv : calls'[u][k].gate # gates'[d].id
             /\ \A i \in DOMAIN ledger : calls'[u][k].gate # ledger[i].gate
             /\ \A v \in Thread : \A l \in DOMAIN calls'[v] :
                  calls'[u][k].gate = calls'[v][l].gate => u = v /\ k = l
  <2>1. CASE u = t /\ k = n
    BY <1>5, <2>1 DEF GateInv, GateEndsOnce
  <2>2. CASE ~ (u = t /\ k = n)
    BY <1>5, <2>2 DEF GateInv
  <2>3. QED
    BY <2>1, <2>2
<1>6. GateEndsOnce'
  <2>1. \A i \in DOMAIN ledger, d \in Conv :
          ledger[i].gate # 0 => ledger[i].gate # gates'[d].id
    BY DEF GateInv, GateEndsOnce
  <2>2. QED
    BY <2>1 DEF GateInv, GateEndsOnce
<1>7. QED
  BY <1>2, <1>3, <1>4, <1>5, <1>6 DEF GateInv

LEMMA GateOpened ==
  ASSUME TypeOK, GateInv, CallsKeepGates, ledger' = ledger,
         gateIds' = gateIds + 1, NEW c \in Conv,
         gates'[c].id = gateIds + 1,
         \A d \in Conv \ {c} : gates'[d].id = gates[d].id
  PROVE  GateInv'
<1>1. /\ gateIds \in Nat
      /\ \A d \in Conv : gates[d].id \in Nat
      /\ \A i \in DOMAIN ledger : ledger[i].gate \in Nat
      /\ \A t \in Thread : \A k \in DOMAIN calls[t] : calls[t][k].gate \in Nat
  BY GateFields, EntryFields, CallFields DEF TypeOK
<1>2. \A d \in Conv : gates'[d].id <= gateIds'
  BY <1>1 DEF GateInv
<1>3. \A t \in Thread : \A k \in DOMAIN calls'[t] :
        calls'[t][k].gate <= gateIds /\ calls'[t][k].gate \in Nat
  BY <1>1 DEF GateInv, CallsKeepGates
<1>4. \A d, e \in Conv : gates'[d].id = gates'[e].id /\ gates'[d].id # 0 => d = e
  <2>1. \A d \in Conv \ {c} : gates'[d].id # gates'[c].id
    BY <1>1 DEF GateInv
  <2>2. QED
    BY <2>1 DEF GateInv
<1>5. ASSUME NEW t \in Thread, NEW k \in DOMAIN calls'[t], calls'[t][k].gate # 0
      PROVE  /\ \A d \in Conv : calls'[t][k].gate # gates'[d].id
             /\ \A i \in DOMAIN ledger : calls'[t][k].gate # ledger[i].gate
             /\ \A u \in Thread : \A l \in DOMAIN calls'[u] :
                  calls'[t][k].gate = calls'[u][l].gate => t = u /\ k = l
  <2>1. calls'[t][k].gate # gates'[c].id
    BY <1>1, <1>3
  <2>2. \A d \in Conv \ {c} : calls'[t][k].gate # gates'[d].id
    BY <1>5 DEF GateInv, CallsKeepGates
  <2>3. QED
    BY <1>5, <2>1, <2>2 DEF GateInv, CallsKeepGates
<1>6. GateEndsOnce'
  <2>1. \A i \in DOMAIN ledger : ledger[i].gate # gates'[c].id
    BY <1>1 DEF GateInv
  <2>2. \A i \in DOMAIN ledger, d \in Conv :
          ledger[i].gate # 0 => ledger[i].gate # gates'[d].id
    BY <2>1 DEF GateInv, GateEndsOnce
  <2>3. QED
    BY <2>2 DEF GateInv, GateEndsOnce
<1>7. QED
  <2>1. /\ \A t \in Thread : \A k \in DOMAIN calls'[t] : calls'[t][k].gate <= gateIds'
        /\ \A i \in DOMAIN ledger : ledger[i].gate <= gateIds'
    BY <1>1, <1>3 DEF GateInv
  <2>2. QED
    BY <1>2, <1>4, <1>5, <1>6, <2>1 DEF GateInv

\* The gate of the top call of t goes to the entry it appends.
LEMMA GateRecorded ==
  ASSUME TypeOK, GateInv, gates' = gates, gateIds' = gateIds,
         NEW t \in Thread, NEW n \in DOMAIN calls[t], NEW e \in Entry,
         e.gate = calls[t][n].gate,
         ledger' = Append(ledger, e),
         \A u \in Thread : \A k \in DOMAIN calls'[u] :
           /\ ~ (u = t /\ k = n)
           /\ k \in DOMAIN calls[u]
           /\ calls'[u][k].gate = calls[u][k].gate
  PROVE  GateInv'
<1> DEFINE m == Len(ledger) + 1
<1>1. /\ DOMAIN ledger = 1 .. Len(ledger) /\ Len(ledger) \in Nat
      /\ DOMAIN ledger' = 1 .. m
      /\ ledger'[m] = e
      /\ \A i \in DOMAIN ledger : ledger'[i] = ledger[i]
  BY DEF TypeOK
<1>2. \A i \in DOMAIN ledger' : \/ i = m /\ ledger'[i].gate = calls[t][n].gate
                                \/ i \in DOMAIN ledger /\ ledger'[i].gate = ledger[i].gate
  BY <1>1
<1> HIDE DEF m
<1>3. /\ \A c \in Conv : gates'[c].id <= gateIds
      /\ \A u \in Thread : \A k \in DOMAIN calls'[u] : calls'[u][k].gate <= gateIds
      /\ \A i \in DOMAIN ledger' : ledger'[i].gate <= gateIds
  BY <1>2 DEF GateInv
<1>4. \A c, d \in Conv : gates'[c].id = gates'[d].id /\ gates'[c].id # 0 => c = d
  BY DEF GateInv
<1>5. ASSUME NEW u \in Thread, NEW k \in DOMAIN calls'[u], calls'[u][k].gate # 0
      PROVE  /\ \A c \in Conv : calls'[u][k].gate # gates'[c].id
             /\ \A i \in DOMAIN ledger' : calls'[u][k].gate # ledger'[i].gate
             /\ \A v \in Thread : \A l \in DOMAIN calls'[v] :
                  calls'[u][k].gate = calls'[v][l].gate => u = v /\ k = l
  BY <1>2, <1>5 DEF GateInv
<1>6. GateEndsOnce'
  <2>1. \A i, j \in DOMAIN ledger' :
          ledger'[i].gate = ledger'[j].gate /\ ledger'[i].gate # 0 => i = j
    BY <1>2 DEF GateInv, GateEndsOnce
  <2>2. \A i \in DOMAIN ledger', c \in Conv :
          ledger'[i].gate # 0 => ledger'[i].gate # gates'[c].id
    BY <1>2 DEF GateInv, GateEndsOnce
  <2>3. QED
    BY <2>1, <2>2 DEF GateEndsOnce
<1>7. QED
  BY <1>3, <1>4, <1>5, <1>6 DEF GateInv

(* What the operations on stacks do to the calls' gates *)

LEMMA BeginGates ==
  ASSUME TypeOK, NEW t \in Thread, NEW call \in Call, Begin(t, call)
  PROVE  /\ DOMAIN calls'[t] = {1} /\ calls'[t][1] = call
         /\ \A u \in Thread \ {t} : calls'[u] = calls[u]
BY DEF Begin, TypeOK

LEMMA BecomeGates ==
  ASSUME TypeOK, NEW t \in Thread, ~ Idle(t), NEW call \in Call,
         call.gate = Running(t).gate, Become(t, call)
  PROVE  CallsKeepGates
<1> DEFINE s == Append(Beneath(t), call)
           n == Len(calls[t])
<1>1. calls'[t] = s /\ \A u \in Thread \ {t} : calls'[u] = calls[u]
  BY DEF Become, TypeOK
<1>2. n \in Nat \ {0} /\ DOMAIN calls[t] = 1 .. n
  BY StackTypes DEF TypeOK
<1>3. DOMAIN s = 1 .. n /\ s[n] = call /\ \A k \in 1 .. (n - 1) : s[k] = calls[t][k]
  BY <1>2, StackTypes
<1>4. calls[t][n] = Running(t)
  BY DEF Running
<1> HIDE DEF s, n
<1>5. \A k \in 1 .. n : s[k].gate = calls[t][k].gate
  BY <1>2, <1>3, <1>4
<1>6. QED
  BY <1>1, <1>2, <1>3, <1>5 DEF CallsKeepGates

\* A call returns: the calls beneath it are what they were.
LEMMA ReturnGates ==
  ASSUME TypeOK, NEW t \in Thread, ~ Idle(t), Return(t)
  PROVE  /\ Len(calls[t]) \in DOMAIN calls[t]
         /\ \A u \in Thread : \A k \in DOMAIN calls'[u] :
              /\ ~ (u = t /\ k = Len(calls[t]))
              /\ k \in DOMAIN calls[u]
              /\ calls'[u][k] = calls[u][k]
<1>1. calls'[t] = Beneath(t) /\ \A u \in Thread \ {t} : calls'[u] = calls[u]
  BY DEF Return, TypeOK
<1>2. Len(calls[t]) \in Nat \ {0} /\ DOMAIN calls[t] = 1 .. Len(calls[t])
  BY StackTypes DEF TypeOK
<1>3. DOMAIN Beneath(t) = 1 .. (Len(calls[t]) - 1)
  BY StackTypes
<1>4. QED
  BY <1>1, <1>2, <1>3, StackTypes

LEMMA EndGates ==
  ASSUME TypeOK, NEW t \in Thread, End(t)
  PROVE  CallsKeepGates
BY DEF End, TypeOK, CallsKeepGates

LEMMA SameGates ==
  ASSUME TypeOK, GateInv, CallsKeepGates, UNCHANGED <<gates, ledger, gateIds>>
  PROVE  GateInv'
<1>1. \A c \in Conv : gates'[c].id \in {0, gates[c].id}
  OBVIOUS
<1>2. QED
  BY <1>1, GatesLeft

\* Every step keeps each gate in one place.
LEMMA GateInduction ==
  ASSUME TypeOK, TypeOK', GateInv, [Next]_vars
  PROVE  GateInv'
<1> USE DEF memory, history
<1>1. ASSUME NEW t \in Thread, NEW call \in Call, call.gate = 0, Begin(t, call),
             UNCHANGED <<gates, ledger, gateIds>>
      PROVE  GateInv'
  <2>1. CallsKeepGates
    BY <1>1, BeginGates DEF CallsKeepGates
  <2>2. QED
    BY <1>1, <2>1, SameGates
<1>2. ASSUME NEW t \in Thread, NEW c \in Conv, AskVerdict(t, c)
      PROVE  GateInv'
  <2> DEFINE call == NewCall("verdict", c, OwnStep(c), gates[c].id, NoSha, "sweep")
  <2>1. call \in Call /\ call.gate = gates[c].id
    BY StepTypes, GateFields, NewCallType DEF TypeOK, Kind, NewCall
  <2>2. Begin(t, call)
    BY <1>2 DEF AskVerdict
  <2> HIDE DEF call
  <2>3. /\ DOMAIN calls'[t] = {1} /\ calls'[t][1].gate = gates[c].id
        /\ \A u \in Thread \ {t} : calls'[u] = calls[u]
    BY <2>1, <2>2, BeginGates
  <2>4. /\ gates'[c].id = 0
        /\ \A d \in Conv \ {c} : gates'[d].id = gates[d].id
    BY <1>2 DEF AskVerdict, TypeOK, NoGate
  <2>5. \A u \in Thread : \A k \in DOMAIN calls'[u] :
          \/ u = t /\ k = 1
          \/ k \in DOMAIN calls[u] /\ calls'[u][k].gate = calls[u][k].gate
    BY <2>3
  <2>6. ledger' = ledger /\ gateIds' = gateIds /\ 1 \in DOMAIN calls'[t]
    BY <1>2, <2>3 DEF AskVerdict
  <2>7. QED
    BY <2>3, <2>4, <2>5, <2>6, GateTaken
<1>3. ASSUME NEW t \in Thread, NEW c \in Conv, Request(t, c)
      PROVE  GateInv'
  <2>1. CASE AskSession(t, c)
    BY <1>1, <2>1, NewCallType DEF AskSession, NewCall, Kind
  <2>2. ASSUME NEW step \in 0 .. MaxStep, AskRecord(t, c, step)
        PROVE  GateInv'
    <3> DEFINE call == NewCall("tool", c, step, 0, NoSha, "sweep")
    <3>1. call \in Call
      BY NewCallType, DaemonAssumption DEF Kind
    <3>2. call.gate = 0
      BY DEF NewCall
    <3>3. Begin(t, call) /\ UNCHANGED <<gates, ledger, gateIds>>
      BY <2>2 DEF AskRecord
    <3> HIDE DEF call
    <3>4. QED
      BY <1>1, <3>1, <3>2, <3>3
  <2>3. CASE AskGate(t, c)
    BY <1>1, <2>3, NewCallType DEF AskGate, NewCall, Kind
  <2>4. CASE FindBaseline(t, c)
    BY <2>4, SameGates DEF FindBaseline, CallsKeepGates
  <2>5. ASSUME NEW sha \in Sha, AskBaseline(t, c, sha)
        PROVE  GateInv'
    BY <1>1, <2>5, NewCallType DEF AskBaseline, NewCall, Kind
  <2>6. QED
    BY <1>2, <1>3, <2>1, <2>2, <2>3, <2>4, <2>5 DEF Request
<1>4. ASSUME NEW t \in Thread, Register(t)
      PROVE  GateInv'
  BY <1>4, EndGates, SameGates DEF Register
<1>5. ASSUME NEW t \in Thread, NEW at \in {"set", "sweep", "loop"}, NEW todo \in SUBSET Conv,
             NEW seen \in Nat,
             ~ Idle(t), Become(t, Moved(Running(t), at, todo, seen)),
             UNCHANGED <<gates, ledger, gateIds>>
      PROVE  GateInv'
  <2>1. Moved(Running(t), at, todo, seen) \in Call
    BY <1>5, StackTypes, MovedType
  <2>2. Moved(Running(t), at, todo, seen).gate = Running(t).gate
    BY DEF Moved
  <2>3. CallsKeepGates
    BY <1>5, <2>1, <2>2, BecomeGates
  <2>4. QED
    BY <1>5, <2>3, SameGates
<1>6. ASSUME NEW t \in Thread, SetBaseline(t) \/ ListExpired(t)
      PROVE  GateInv'
  <2>1. {c \in Conv : gates[c].old} \in SUBSET Conv /\ gateIds \in Nat
    BY DEF TypeOK
  <2>2. CASE SetBaseline(t)
    BY <1>5, <2>2 DEF SetBaseline
  <2>3. CASE ListExpired(t)
    BY <1>5, <2>1, <2>3 DEF ListExpired
  <2>4. QED
    BY <1>6, <2>2, <2>3
<1>7. ASSUME NEW t \in Thread, NEW c \in Conv, Sweep(t, c)
      PROVE  GateInv'
  <2> DEFINE rest == Moved(Running(t), "loop", Running(t).todo \ {c}, Running(t).seen)
             record == NewCall("unverified", c, OwnStep(c), gates[c].id, NoSha, "sweep")
             n == Len(calls[t])
  <2>1. ~ Idle(t) /\ ledger' = ledger /\ gateIds' = gateIds
    BY <1>7 DEF Sweep
  <2>2. Running(t).todo \ {c} \in SUBSET Conv /\ Running(t).seen \in Nat
    BY <2>1, StackTypes, CallFields
  <2>3. CASE gates[c] = NoGate
    <3>1. Become(t, rest)
      BY <1>7, <2>3 DEF Sweep
    <3>2. gates' = gates
      BY <1>7, <2>3 DEF Sweep, TypeOK
    <3>3. QED
      BY <1>5, <2>1, <2>2, <3>1, <3>2
  <2>4. CASE gates[c] # NoGate
    <3>1. rest \in Call /\ rest.gate = Running(t).gate
      BY <2>1, <2>2, StackTypes, MovedType DEF Moved
    <3>2. record \in Call /\ record.gate = gates[c].id
      BY StepTypes, GateFields, NewCallType DEF TypeOK, Kind, NewCall
    <3>3. calls' = [calls EXCEPT ![t] = Append(Append(Beneath(t), rest), record)]
      BY <1>7, <2>4 DEF Sweep
    <3>4. n \in Nat \ {0} /\ DOMAIN calls[t] = 1 .. n /\ calls[t][n] = Running(t)
      BY <2>1, StackTypes DEF TypeOK, Running
    <3> HIDE DEF rest, record, n
    <3>5. /\ calls'[t] = Append(Append(Beneath(t), rest), record)
          /\ \A u \in Thread \ {t} : calls'[u] = calls[u]
      BY <3>3 DEF TypeOK
    <3>6. /\ Append(Beneath(t), rest) \in Seq(Call)
          /\ Len(Append(Beneath(t), rest)) = n
          /\ Append(Beneath(t), rest)[n] = rest
          /\ \A k \in 1 .. (n - 1) : Append(Beneath(t), rest)[k] = calls[t][k]
      BY <2>1, <3>1, <3>4, StackTypes DEF n
    <3>7. /\ DOMAIN calls'[t] = 1 .. (n + 1)
          /\ calls'[t][n + 1] = record
          /\ \A k \in 1 .. n : calls'[t][k] = Append(Beneath(t), rest)[k]
      BY <3>2, <3>4, <3>5, <3>6
    <3>8. \A k \in 1 .. n : calls'[t][k].gate = calls[t][k].gate
      BY <3>1, <3>4, <3>6, <3>7
    <3>9. \A u \in Thread : \A k \in DOMAIN calls'[u] :
            \/ u = t /\ k = n + 1
            \/ k \in DOMAIN calls[u] /\ calls'[u][k].gate = calls[u][k].gate
      <4>1. \A k \in DOMAIN calls'[t] :
              \/ k = n + 1
              \/ k \in DOMAIN calls[t] /\ calls'[t][k].gate = calls[t][k].gate
        <5> TAKE k \in DOMAIN calls'[t]
        <5>1. k = n + 1 \/ k \in 1 .. n
          BY <3>4, <3>7
        <5>2. CASE k \in 1 .. n
          BY <3>4, <3>8, <5>2
        <5>3. QED
          BY <5>1, <5>2
      <4>2. \A u \in Thread \ {t} : \A k \in DOMAIN calls'[u] :
              k \in DOMAIN calls[u] /\ calls'[u][k].gate = calls[u][k].gate
        BY <3>5, Zenon
      <4>3. QED
        BY <4>1, <4>2, Zenon
    <3>10. /\ gates'[c].id = 0
           /\ \A d \in Conv \ {c} : gates'[d].id = gates[d].id
      BY <1>7 DEF Sweep, TypeOK, NoGate
    <3>11. n + 1 \in DOMAIN calls'[t] /\ calls'[t][n + 1].gate = gates[c].id
      BY <3>2, <3>4, <3>7
    <3>12. QED
      BY <2>1, <3>9, <3>10, <3>11, GateTaken
  <2>5. QED
    BY <2>3, <2>4
<1>8. ASSUME NEW t \in Thread, OpenGate(t)
      PROVE  GateInv'
  <2>1. ~ Idle(t)
    BY <1>8 DEF OpenGate, Swept
  <2>2. PICK c \in Conv : c = Running(t).conv
    BY <2>1, StackTypes, CallFields
  <2>3. gates' = [gates EXCEPT ![c] = [id |-> gateIds + 1, old |-> FALSE]]
    BY <1>8, <2>2 DEF OpenGate
  <2>4. /\ gates'[c].id = gateIds + 1
        /\ \A d \in Conv \ {c} : gates'[d].id = gates[d].id
    BY <2>3 DEF TypeOK
  <2>5. CallsKeepGates /\ ledger' = ledger /\ gateIds' = gateIds + 1
    BY <1>8, EndGates DEF OpenGate
  <2>6. QED
    BY <2>4, <2>5, GateOpened
<1>9. ASSUME NEW t \in Thread, Commit(t)
      PROVE  GateInv'
  <2>1. ~ Idle(t) /\ Return(t) /\ gates' = gates /\ gateIds' = gateIds
    BY <1>9 DEF Commit, Swept
  <2>2. PICK call \in Call : call = Running(t)
    BY <2>1, StackTypes
  <2> DEFINE e == [kind |-> call.kind, conv |-> call.conv, step |-> call.step,
                   gate |-> call.gate, sha |-> call.sha, era |-> era[call.conv]]
             n == Len(calls[t])
  <2>3. ledger' = Append(ledger, e)
    BY <1>9, <2>2 DEF Commit
  <2>4. e \in Entry
    BY <2>2, EntryType, CallFields DEF TypeOK
  <2>5. n \in DOMAIN calls[t] /\ e.gate = calls[t][n].gate
    BY <2>1, <2>2, ReturnGates DEF Running
  <2>6. \A u \in Thread : \A k \in DOMAIN calls'[u] :
          /\ ~ (u = t /\ k = n)
          /\ k \in DOMAIN calls[u]
          /\ calls'[u][k].gate = calls[u][k].gate
    BY <2>1, ReturnGates
  <2> HIDE DEF e, n
  <2>7. QED
    BY <2>1, <2>3, <2>4, <2>5, <2>6, GateRecorded
<1>10. ASSUME NEW t \in Thread, Refuse(t)
       PROVE  GateInv'
  <2>1. ~ Idle(t) /\ Return(t) /\ UNCHANGED <<gates, ledger, gateIds>>
    BY <1>10 DEF Refuse, Swept
  <2>2. CallsKeepGates
    BY <2>1, ReturnGates DEF CallsKeepGates
  <2>3. QED
    BY <2>1, <2>2, SameGates
<1>11. ASSUME NEW c \in Conv, GateExpires(c)
       PROVE  GateInv'
  <2>1. CallsKeepGates /\ ledger' = ledger /\ gateIds' = gateIds
    BY <1>11 DEF GateExpires, CallsKeepGates
  <2>2. \A d \in Conv : gates'[d].id \in {0, gates[d].id}
    BY <1>11 DEF GateExpires, TypeOK
  <2>3. QED
    BY <2>1, <2>2, GatesLeft
<1>12. CASE Restart
  <2>1. \A t \in Thread : calls'[t] = <<>>
    BY <1>12 DEF Restart
  <2>2. CallsKeepGates /\ ledger' = ledger /\ gateIds' = gateIds
    BY <1>12, <2>1 DEF Restart, CallsKeepGates
  <2>3. \A d \in Conv : gates'[d].id \in {0, gates[d].id}
    BY <1>12 DEF Restart, NoGate
  <2>4. QED
    BY <2>2, <2>3, GatesLeft
<1>13. CASE UNCHANGED vars
  BY <1>13, SameGates DEF vars, CallsKeepGates
<1>14. QED
  BY <1>3, <1>4, <1>6, <1>7, <1>8, <1>9, <1>10, <1>11, <1>12, <1>13 DEF Next, Step

\* However verdicts, sweeps, nested sweeps, refused records and restarts race,
\* no gate is ended twice and no active gate has an end in the ledger.
THEOREM GatesEndOnce == Spec => []GateEndsOnce
<1>1. Init => GateInv
  BY DEF Init, GateInv, GateEndsOnce, NoGate
<1>2. TypeOK /\ TypeOK' /\ GateInv /\ [Next]_vars => GateInv'
  BY GateInduction
<1>3. GateInv => GateEndsOnce
  BY DEF GateInv
<1>4. QED
  BY <1>1, <1>2, <1>3, DaemonTypeCorrect, PTL DEF Spec
-----------------------------------------------------------------------------
(* What the memory keeps of baselines and of fresh gates *)

\* The baselines recorded for a conversation are all the same, unless two
\* requests set one at once.
BaselinesAgree ==
  \A c \in Conv \ contested : \A i \in BaselineEntries(c) :
    /\ ledger[i].sha # NoSha
    /\ \A j \in BaselineEntries(c) : ledger[j].sha = ledger[i].sha

\* A baseline on its way to the ledger is at the bottom of its stack; if no other
\* request met it, it is the first of its conversation, the only one on its way,
\* and stays in memory once it is there.
BaselineCalls ==
  \A t \in Thread : \A k \in DOMAIN calls[t] :
    calls[t][k].kind = "baseline" =>
      /\ k = 1
      /\ calls[t][k].conv \notin contested =>
           /\ calls[t][k].sha # NoSha
           /\ BaselineEntries(calls[t][k].conv) = {}
           /\ calls[t][k].at # "set" => baselines[calls[t][k].conv] = calls[t][k].sha
           /\ \A u \in Thread \ {t} : ~ SetsBaseline(u, calls[t][k].conv)

\* Of the gates a sweep has listed, those still there are as old as they were, or
\* were opened after the list was made.
ListedOld ==
  \A t \in Thread : \A k \in DOMAIN calls[t] : \A c \in calls[t][k].todo :
    /\ calls[t][k].seen <= gateIds
    /\ gates[c].id # 0 => gates[c].old \/ gates[c].id > calls[t][k].seen

BaselineInv == BaselinesAgree /\ BaselineCalls /\ RecordedBaselineKept

\* The calls of a step's end were there before it, not further back, or are no
\* baseline's.
BaselinesGoOn ==
  \A u \in Thread : \A k \in DOMAIN calls'[u] :
    \/ calls'[u][k].kind # "baseline"
    \/ /\ k \in DOMAIN calls[u]
       /\ calls'[u][k].kind = calls[u][k].kind
       /\ calls'[u][k].conv = calls[u][k].conv
       /\ calls'[u][k].sha = calls[u][k].sha
       /\ calls'[u][k].at # "set" => calls[u][k].at # "set"

\* The lists of a step's end were there before it, or are parts of those.
ListsShrink ==
  \A u \in Thread : \A k \in DOMAIN calls'[u] :
    \/ calls'[u][k].todo = {}
    \/ /\ k \in DOMAIN calls[u]
       /\ calls'[u][k].todo \subseteq calls[u][k].todo
       /\ calls'[u][k].seen = calls[u][k].seen

(* What the operations on stacks do *)

LEMMA BecomeStack ==
  ASSUME TypeOK, NEW t \in Thread, ~ Idle(t), NEW call \in Call, Become(t, call)
  PROVE  /\ Len(calls[t]) \in DOMAIN calls[t]
         /\ calls[t][Len(calls[t])] = Running(t)
         /\ DOMAIN calls'[t] = DOMAIN calls[t]
         /\ calls'[t][Len(calls[t])] = call
         /\ \A k \in DOMAIN calls[t] : k = Len(calls[t]) \/ calls'[t][k] = calls[t][k]
         /\ \A u \in Thread \ {t} : calls'[u] = calls[u]
<1> DEFINE s == Append(Beneath(t), call)
           n == Len(calls[t])
<1>1. calls'[t] = s /\ \A u \in Thread \ {t} : calls'[u] = calls[u]
  BY DEF Become, TypeOK
<1>2. n \in Nat \ {0} /\ DOMAIN calls[t] = 1 .. n
  BY StackTypes DEF TypeOK
<1>3. DOMAIN s = 1 .. n /\ s[n] = call /\ \A k \in 1 .. (n - 1) : s[k] = calls[t][k]
  BY <1>2, StackTypes
<1>4. calls[t][n] = Running(t)
  BY DEF Running
<1> HIDE DEF s
<1>5. \A k \in 1 .. n : k = n \/ k \in 1 .. (n - 1)
  BY <1>2
<1>6. n \in 1 .. n
  BY <1>2
<1> HIDE DEF n
<1>7. QED
  BY <1>1, <1>2, <1>3, <1>4, <1>5, <1>6 DEF n

LEMMA PushStack ==
  ASSUME TypeOK, NEW t \in Thread, ~ Idle(t), NEW rest \in Call, NEW record \in Call,
         calls' = [calls EXCEPT ![t] = Append(Append(Beneath(t), rest), record)]
  PROVE  /\ Len(calls[t]) \in DOMAIN calls[t]
         /\ calls[t][Len(calls[t])] = Running(t)
         /\ DOMAIN calls'[t] = DOMAIN calls[t] \cup {Len(calls[t]) + 1}
         /\ calls'[t][Len(calls[t]) + 1] = record
         /\ calls'[t][Len(calls[t])] = rest
         /\ \A k \in DOMAIN calls[t] : k = Len(calls[t]) \/ calls'[t][k] = calls[t][k]
         /\ \A u \in Thread \ {t} : calls'[u] = calls[u]
<1> DEFINE b == Append(Beneath(t), rest)
           s == Append(b, record)
           n == Len(calls[t])
<1>1. calls'[t] = s /\ \A u \in Thread \ {t} : calls'[u] = calls[u]
  BY DEF TypeOK
<1>2. n \in Nat \ {0} /\ DOMAIN calls[t] = 1 .. n
  BY StackTypes DEF TypeOK
<1>3. /\ b \in Seq(Call) /\ Len(b) = n /\ b[n] = rest
      /\ \A k \in 1 .. (n - 1) : b[k] = calls[t][k]
  BY <1>2, StackTypes
<1> HIDE DEF b
<1>4. DOMAIN s = 1 .. (n + 1) /\ s[n + 1] = record /\ \A k \in 1 .. n : s[k] = b[k]
  BY <1>2, <1>3
<1>5. calls[t][n] = Running(t)
  BY DEF Running
<1> HIDE DEF s
<1>6. /\ \A k \in 1 .. n : k = n \/ k \in 1 .. (n - 1)
      /\ n \in 1 .. n
      /\ 1 .. (n + 1) = (1 .. n) \cup {n + 1}
      /\ 1 .. (n - 1) \subseteq 1 .. n
  BY <1>2
<1> HIDE DEF n
<1>7. QED
  BY <1>1, <1>2, <1>3, <1>4, <1>5, <1>6 DEF n

(* Baselines *)

\* What get_session_baseline finds is what the ledger has, if it has one.
LEMMA KnownIsRecorded ==
  ASSUME TypeOK, BaselineInv, NEW c \in Conv \ contested
  PROVE  /\ KnownBaseline(c) = NoSha => BaselineEntries(c) = {}
         /\ \A i \in BaselineEntries(c) : ledger[i].sha = KnownBaseline(c)
<1> SUFFICES ASSUME BaselineEntries(c) # {}
             PROVE  /\ KnownBaseline(c) # NoSha
                    /\ \A i \in BaselineEntries(c) : ledger[i].sha = KnownBaseline(c)
  OBVIOUS
<1>1. CASE baselines[c] # NoSha
  BY <1>1 DEF KnownBaseline, BaselineInv, RecordedBaselineKept
<1>2. CASE baselines[c] = NoSha
  <2>1. BaselineEntries(c) \subseteq Nat
    BY DEF BaselineEntries, TypeOK
  <2>2. \E i \in BaselineEntries(c) : \A j \in BaselineEntries(c) : i <= j
    BY <2>1, MinExists
  <2> DEFINE i == CHOOSE i \in BaselineEntries(c) : \A j \in BaselineEntries(c) : i <= j
  <2>3. i \in BaselineEntries(c)
    BY <2>2
  <2>4. KnownBaseline(c) = ledger[i].sha
    BY <1>2 DEF KnownBaseline
  <2> HIDE DEF i
  <2>5. QED
    BY <2>3, <2>4 DEF BaselineInv, BaselinesAgree
<1>3. QED
  BY <1>1, <1>2

\* A thread that sets a baseline after a step did so before it.
LEMMA SettersGoOn ==
  ASSUME BaselinesGoOn, NEW u \in Thread, NEW c, SetsBaseline(u, c)'
  PROVE  SetsBaseline(u, c)
BY DEF BaselinesGoOn, SetsBaseline

\* The calls stay in order when no entry and no baseline of theirs changes.
LEMMA CallsUntouched ==
  ASSUME TypeOK', BaselineInv, BaselinesGoOn, contested' = contested,
         \A c \in Conv : BaselineEntries(c) = {} => BaselineEntries(c)' = {},
         \A c \in Conv : baselines'[c] = baselines[c]
  PROVE  BaselineCalls'
<1> SUFFICES ASSUME NEW u \in Thread, NEW k \in DOMAIN calls'[u],
                    calls'[u][k].kind = "baseline"
             PROVE  /\ k = 1
                    /\ calls'[u][k].conv \notin contested =>
                         /\ calls'[u][k].sha # NoSha
                         /\ BaselineEntries(calls[u][k].conv)' = {}
                         /\ calls'[u][k].at # "set" =>
                              baselines'[calls'[u][k].conv] = calls'[u][k].sha
                         /\ \A v \in Thread \ {u} : ~ SetsBaseline(v, calls[u][k].conv)'
  BY DEF BaselineCalls
<1>1. /\ k \in DOMAIN calls[u]
      /\ calls[u][k].kind = "baseline"
      /\ calls'[u][k].conv = calls[u][k].conv
      /\ calls'[u][k].sha = calls[u][k].sha
      /\ calls'[u][k].at # "set" => calls[u][k].at # "set"
  BY DEF BaselinesGoOn
<1>2. PICK c \in Conv : c = calls'[u][k].conv
  BY CallFields DEF TypeOK
<1>3. /\ k = 1
      /\ c \notin contested =>
           /\ calls[u][k].sha # NoSha
           /\ BaselineEntries(c) = {}
           /\ calls[u][k].at # "set" => baselines[c] = calls[u][k].sha
           /\ \A v \in Thread \ {u} : ~ SetsBaseline(v, c)
  BY <1>1, <1>2 DEF BaselineInv, BaselineCalls
<1>4. \A v \in Thread : SetsBaseline(v, c)' => SetsBaseline(v, c)
  BY SettersGoOn
<1>5. \A v \in Thread : SetsBaseline(v, calls[u][k].conv)' => SetsBaseline(v, c)
  BY <1>1, <1>2 DEF SetsBaseline, BaselinesGoOn
<1>6. c \notin contested => BaselineEntries(calls[u][k].conv)' = {}
  BY <1>1, <1>2, <1>3 DEF BaselineEntries
<1>7. QED
  BY <1>1, <1>2, <1>3, <1>5, <1>6

LEMMA BaselinesUntouched ==
  ASSUME TypeOK', BaselineInv, UNCHANGED <<ledger, baselines, contested>>, BaselinesGoOn
  PROVE  BaselineInv'
<1>1. \A c : BaselineEntries(c)' = BaselineEntries(c)
  BY DEF BaselineEntries
<1>2. BaselinesAgree' /\ RecordedBaselineKept'
  BY <1>1 DEF BaselineInv, BaselinesAgree, RecordedBaselineKept
<1>3. BaselineCalls'
  BY <1>1, CallsUntouched
<1>4. QED
  BY <1>2, <1>3 DEF BaselineInv

\* A running call that sets a baseline is the only call of its thread.
LEMMA BaselineCallAlone ==
  ASSUME TypeOK, BaselineInv, NEW t \in Thread, ~ Idle(t),
         Running(t).kind = "baseline"
  PROVE  /\ Len(calls[t]) = 1
         /\ Running(t).conv \in Conv
         /\ Running(t).conv \notin contested =>
              /\ Running(t).sha # NoSha
              /\ BaselineEntries(Running(t).conv) = {}
              /\ Running(t).at # "set" => baselines[Running(t).conv] = Running(t).sha
              /\ \A u \in Thread \ {t} : ~ SetsBaseline(u, Running(t).conv)
<1>1. Len(calls[t]) \in DOMAIN calls[t] /\ calls[t][Len(calls[t])] = Running(t)
  BY StackTypes DEF TypeOK, Running
<1>2. Running(t).conv \in Conv
  BY StackTypes, CallFields
<1>3. QED
  BY <1>1, <1>2 DEF BaselineInv, BaselineCalls

\* The calls that set a baseline of another conversation are not disturbed by a
\* step of t in which t's own call is the only one of its thread.
LEMMA OthersCalls ==
  ASSUME TypeOK, TypeOK', BaselineInv, NEW t \in Thread, NEW c \in Conv,
         contested' = contested,
         \A u \in Thread \ {t} : calls'[u] = calls[u],
         ~ SetsBaseline(t, c)' \/ SetsBaseline(t, c),
         \A d \in Conv \ {c} : ~ SetsBaseline(t, d)',
         \A d \in Conv \ {c} : /\ BaselineEntries(d)' = BaselineEntries(d)
                              /\ baselines'[d] = baselines[d],
         NEW u \in Thread \ {t}, NEW k \in DOMAIN calls'[u],
         calls'[u][k].kind = "baseline",
         c \notin contested => ~ SetsBaseline(u, c)
  PROVE  /\ k = 1
         /\ calls'[u][k].conv \notin contested' =>
              /\ calls'[u][k].sha # NoSha
              /\ BaselineEntries(calls[u][k].conv)' = {}
              /\ calls'[u][k].at # "set" =>
                   baselines'[calls'[u][k].conv] = calls'[u][k].sha
              /\ \A v \in Thread \ {u} : ~ SetsBaseline(v, calls[u][k].conv)'
<1>1. calls'[u] = calls[u] /\ k \in DOMAIN calls[u]
  OBVIOUS
<1>2. PICK d \in Conv : d = calls[u][k].conv
  BY <1>1, CallFields DEF TypeOK
<1>3. SetsBaseline(u, d)
  BY <1>1, <1>2 DEF SetsBaseline
<1>4. /\ k = 1
      /\ d \notin contested =>
           /\ calls[u][k].sha # NoSha
           /\ BaselineEntries(d) = {}
           /\ calls[u][k].at # "set" => baselines[d] = calls[u][k].sha
           /\ \A v \in Thread \ {u} : ~ SetsBaseline(v, d)
  BY <1>1, <1>2 DEF BaselineInv, BaselineCalls
<1>5. d \notin contested => d # c
  BY <1>3
<1>6. ASSUME d \notin contested
      PROVE  /\ BaselineEntries(calls[u][k].conv)' = {}
             /\ baselines'[d] = baselines[d]
             /\ \A v \in Thread \ {u} : ~ SetsBaseline(v, calls[u][k].conv)'
  <2>1. BaselineEntries(d)' = {} /\ baselines'[d] = baselines[d]
    BY <1>4, <1>5, <1>6
  <2>2. BaselineEntries(calls[u][k].conv)' = BaselineEntries(d)'
    BY <1>1, <1>2 DEF BaselineEntries
  <2>3. ASSUME NEW v \in Thread \ {u}
        PROVE  ~ SetsBaseline(v, calls[u][k].conv)'
    <3>1. SetsBaseline(v, calls[u][k].conv)' <=> SetsBaseline(v, d)'
      BY <1>1, <1>2 DEF SetsBaseline
    <3>2. CASE v = t
      BY <1>5, <1>6, <3>1, <3>2
    <3>3. CASE v # t
      BY <1>4, <1>6, <3>1, <3>3 DEF SetsBaseline
    <3>4. QED
      BY <3>2, <3>3
  <2>4. QED
    BY <2>1, <2>2, <2>3
<1>7. QED
  BY <1>1, <1>2, <1>4, <1>6

\* The entry of the first baseline of a conversation.
LEMMA BaselineRecorded ==
  ASSUME TypeOK, TypeOK', BaselineInv, NEW t \in Thread, Commit(t),
         Running(t).kind = "baseline"
  PROVE  BaselineInv'
<1> DEFINE e == [kind |-> Running(t).kind, conv |-> Running(t).conv,
                 step |-> Running(t).step, gate |-> Running(t).gate,
                 sha |-> Running(t).sha, era |-> era[Running(t).conv]]
           m == Len(ledger) + 1
<1>1. /\ ~ Idle(t) /\ Running(t).at # "set" /\ Return(t) /\ baselines' = baselines
      /\ ledger' = Append(ledger, e) /\ contested' = contested
  BY DEF Commit, Swept
<1>2. PICK c \in Conv :
        /\ c = Running(t).conv /\ Len(calls[t]) = 1
        /\ c \notin contested =>
             /\ Running(t).sha # NoSha
             /\ BaselineEntries(c) = {} /\ baselines[c] = Running(t).sha
             /\ \A u \in Thread \ {t} : ~ SetsBaseline(u, c)
  BY <1>1, BaselineCallAlone
<1>3. DOMAIN calls'[t] = {} /\ \A u \in Thread \ {t} : calls'[u] = calls[u]
  <2>1. calls'[t] = Beneath(t) /\ \A u \in Thread \ {t} : calls'[u] = calls[u]
    BY <1>1 DEF Return, TypeOK
  <2>2. Beneath(t) \in Seq(Call) /\ Len(Beneath(t)) = Len(calls[t]) - 1
    BY <1>1, StackTypes
  <2>3. Len(Beneath(t)) = 0
    BY <1>2, <2>2
  <2>4. DOMAIN Beneath(t) = {}
    BY <2>2, <2>3
  <2>5. QED
    BY <2>1, <2>4
<1>4. e \in Entry
  BY <1>1, <1>2, StackTypes, EntryType DEF TypeOK
<1>5. /\ e.kind = "baseline" /\ e.conv = c
      /\ c \notin contested => e.sha = baselines[c] /\ e.sha # NoSha
  BY <1>2
<1> HIDE DEF e
<1>6. /\ DOMAIN ledger' = DOMAIN ledger \cup {m} /\ ledger'[m] = e /\ m \notin DOMAIN ledger
      /\ \A i \in DOMAIN ledger : ledger'[i] = ledger[i]
  <2>1. ledger \in Seq(Entry) /\ Len(ledger) \in Nat
    BY DEF TypeOK
  <2>2. QED
    BY <1>1, <1>4, <2>1
<1> HIDE DEF m
<1>7. /\ c \notin contested => BaselineEntries(c)' = {m}
      /\ \A d \in Conv \ {c} : BaselineEntries(d)' = BaselineEntries(d)
      /\ \A d \in Conv \ {c} : \A i \in BaselineEntries(d) : ledger'[i] = ledger[i]
  BY <1>2, <1>5, <1>6 DEF BaselineEntries
<1>8. BaselinesAgree'
  <2>1. ASSUME NEW d \in Conv \ contested, d # c, NEW i \in BaselineEntries(d)'
        PROVE  /\ ledger'[i].sha # NoSha
               /\ \A j \in BaselineEntries(d)' : ledger'[j].sha = ledger'[i].sha
    BY <1>7, <2>1 DEF BaselineInv, BaselinesAgree
  <2>2. ASSUME c \notin contested, NEW i \in BaselineEntries(c)'
        PROVE  /\ ledger'[i].sha # NoSha
               /\ \A j \in BaselineEntries(c)' : ledger'[j].sha = ledger'[i].sha
    BY <1>5, <1>6, <1>7, <2>2
  <2>3. QED
    BY <1>1, <2>1, <2>2 DEF BaselinesAgree
<1>9. RecordedBaselineKept'
  <2>1. c \notin contested => \A i \in BaselineEntries(c)' : baselines'[c] \in {ledger'[i].sha, NoSha}
    BY <1>1, <1>5, <1>6, <1>7
  <2>2. \A d \in Conv \ contested : d # c => \A i \in BaselineEntries(d)' :
          baselines'[d] \in {ledger'[i].sha, NoSha}
    <3>1. \A d \in Conv \ contested : \A i \in BaselineEntries(d) :
            baselines[d] \in {ledger[i].sha, NoSha}
      BY DEF BaselineInv, RecordedBaselineKept
    <3>2. ASSUME NEW d \in Conv \ contested, d # c, NEW i \in BaselineEntries(d)'
          PROVE  baselines'[d] \in {ledger'[i].sha, NoSha}
      <4>1. i \in BaselineEntries(d) /\ ledger'[i] = ledger[i]
        BY <1>7, <3>2
      <4>2. QED
        BY <1>1, <3>1, <3>2, <4>1
    <3>3. QED
      BY <3>2
  <2>3. QED
    BY <1>1, <2>1, <2>2 DEF RecordedBaselineKept
<1>10. BaselineCalls'
  <2>1. \A d \in Conv : ~ SetsBaseline(t, d)'
    BY <1>3 DEF SetsBaseline
  <2>2. \A d \in Conv \ {c} : /\ BaselineEntries(d)' = BaselineEntries(d)
                              /\ baselines'[d] = baselines[d]
    BY <1>1, <1>7
  <2>3. ASSUME NEW u \in Thread, NEW k \in DOMAIN calls'[u], calls'[u][k].kind = "baseline"
        PROVE  /\ k = 1
               /\ calls'[u][k].conv \notin contested' =>
                    /\ calls'[u][k].sha # NoSha
                    /\ BaselineEntries(calls[u][k].conv)' = {}
                    /\ calls'[u][k].at # "set" =>
                         baselines'[calls'[u][k].conv] = calls'[u][k].sha
                    /\ \A v \in Thread \ {u} : ~ SetsBaseline(v, calls[u][k].conv)'
    <3>1. u # t
      BY <1>3, <2>3
    <3>2. c \notin contested => ~ SetsBaseline(u, c)
      BY <1>2, <3>1
    <3>3. QED
      BY <1>1, <1>3, <2>1, <2>2, <2>3, <3>1, <3>2, OthersCalls
  <2>4. QED
    BY <2>3 DEF BaselineCalls
<1>11. QED
  BY <1>8, <1>9, <1>10 DEF BaselineInv

\* Another entry leaves the baselines of the ledger alone.
LEMMA OtherRecorded ==
  ASSUME TypeOK, TypeOK', BaselineInv, NEW t \in Thread, Commit(t),
         Running(t).kind # "baseline"
  PROVE  BaselineInv'
<1> DEFINE e == [kind |-> Running(t).kind, conv |-> Running(t).conv,
                 step |-> Running(t).step, gate |-> Running(t).gate,
                 sha |-> Running(t).sha, era |-> era[Running(t).conv]]
           m == Len(ledger) + 1
<1>1. /\ ~ Idle(t) /\ Return(t) /\ baselines' = baselines
      /\ ledger' = Append(ledger, e) /\ contested' = contested
  BY DEF Commit, Swept
<1>2. Running(t) \in Call /\ Running(t).conv \in Conv
  BY <1>1, StackTypes, CallFields
<1>3. e \in Entry
  BY <1>2, EntryType DEF TypeOK
<1>4. e.kind # "baseline"
  OBVIOUS
<1> HIDE DEF e
<1>5. /\ DOMAIN ledger' = DOMAIN ledger \cup {m} /\ ledger'[m] = e
      /\ \A i \in DOMAIN ledger : ledger'[i] = ledger[i]
  <2>1. ledger \in Seq(Entry) /\ Len(ledger) \in Nat
    BY DEF TypeOK
  <2>2. QED
    BY <1>1, <1>3, <2>1
<1> HIDE DEF m
<1>6. \A c : /\ BaselineEntries(c)' = BaselineEntries(c)
             /\ \A i \in BaselineEntries(c) : ledger'[i] = ledger[i]
  BY <1>4, <1>5 DEF BaselineEntries
<1>7. BaselinesAgree' /\ RecordedBaselineKept'
  <2>1. ASSUME NEW c \in Conv \ contested, NEW i \in BaselineEntries(c)'
        PROVE  /\ i \in BaselineEntries(c) /\ ledger'[i] = ledger[i]
               /\ \A j \in BaselineEntries(c)' : j \in BaselineEntries(c) /\ ledger'[j] = ledger[j]
    BY <1>6, <2>1
  <2>2. BaselinesAgree'
    <3>1. contested' = contested
      BY <1>1
    <3>2. QED
      BY <2>1, <3>1 DEF BaselineInv, BaselinesAgree
  <2>3. RecordedBaselineKept'
    BY <1>1, <2>1 DEF BaselineInv, RecordedBaselineKept
  <2>4. QED
    BY <2>2, <2>3
<1>8. \A u \in Thread : \A k \in DOMAIN calls'[u] :
        k \in DOMAIN calls[u] /\ calls'[u][k] = calls[u][k]
  BY <1>1, ReturnGates
<1>9. BaselineCalls'
  <2>1. BaselinesGoOn
    BY <1>8 DEF BaselinesGoOn
  <2>2. \A c \in Conv : baselines'[c] = baselines[c]
    BY <1>1
  <2>3. QED
    BY <1>1, <1>6, <2>1, <2>2, CallsUntouched
<1>10. QED
  BY <1>7, <1>9 DEF BaselineInv

LEMMA BaselineInduction ==
  ASSUME TypeOK, TypeOK', BaselineInv, [Next]_vars
  PROVE  BaselineInv'
<1> USE DEF memory, history
<1>1. ASSUME NEW t \in Thread, NEW call \in Call, call.kind # "baseline", Begin(t, call),
             UNCHANGED <<ledger, baselines, contested>>
      PROVE  BaselineInv'
  <2>1. BaselinesGoOn
    BY <1>1, BeginGates DEF BaselinesGoOn
  <2>2. QED
    BY <1>1, <2>1, BaselinesUntouched
<1>2. ASSUME NEW t \in Thread, NEW c \in Conv, FindBaseline(t, c)
      PROVE  BaselineInv'
  <2>1. /\ UNCHANGED <<ledger, calls, contested>>
        /\ baselines' = [baselines EXCEPT ![c] = KnownBaseline(c)]
    BY <1>2 DEF FindBaseline
  <2>2. \A d : BaselineEntries(d)' = BaselineEntries(d)
    BY <2>1 DEF BaselineEntries
  <2>3. BaselinesAgree'
    BY <2>1, <2>2 DEF BaselineInv, BaselinesAgree
  <2>4. ASSUME NEW d \in Conv \ contested, NEW i \in BaselineEntries(d)
        PROVE  baselines'[d] \in {ledger[i].sha, NoSha}
    <3>1. CASE d = c
      BY <2>1, <3>1, KnownIsRecorded DEF TypeOK
    <3>2. CASE d # c
      BY <2>1, <3>2 DEF TypeOK, BaselineInv, RecordedBaselineKept
    <3>3. QED
      BY <3>1, <3>2
  <2>5. RecordedBaselineKept'
    BY <2>1, <2>2, <2>4 DEF RecordedBaselineKept
  <2>6. \A d \in Conv : BaselineEntries(d) = {} => baselines'[d] = baselines[d]
    BY <2>1 DEF TypeOK, KnownBaseline
  <2>7. BaselineCalls'
    <3>1. ASSUME NEW u \in Thread, NEW k \in DOMAIN calls'[u], calls'[u][k].kind = "baseline"
          PROVE  /\ k = 1
                 /\ calls'[u][k].conv \notin contested' =>
                      /\ calls'[u][k].sha # NoSha
                      /\ BaselineEntries(calls[u][k].conv)' = {}
                      /\ calls'[u][k].at # "set" =>
                           baselines'[calls'[u][k].conv] = calls'[u][k].sha
                      /\ \A v \in Thread \ {u} : ~ SetsBaseline(v, calls[u][k].conv)'
      <4>1. PICK d \in Conv : d = calls[u][k].conv
        BY <2>1, <3>1, CallFields DEF TypeOK
      <4>2. /\ k = 1
            /\ d \notin contested =>
                 /\ calls[u][k].sha # NoSha
                 /\ BaselineEntries(d) = {}
                 /\ calls[u][k].at # "set" => baselines[d] = calls[u][k].sha
                 /\ \A v \in Thread \ {u} : ~ SetsBaseline(v, d)
        BY <2>1, <3>1, <4>1 DEF BaselineInv, BaselineCalls
      <4>3. /\ BaselineEntries(calls[u][k].conv)' = BaselineEntries(d)
            /\ \A v \in Thread : SetsBaseline(v, calls[u][k].conv)' <=> SetsBaseline(v, d)
        BY <2>1, <4>1 DEF BaselineEntries, SetsBaseline
      <4>4. QED
        BY <2>1, <2>6, <4>1, <4>2, <4>3
    <3>2. QED
      BY <3>1 DEF BaselineCalls
  <2>8. QED
    BY <2>3, <2>5, <2>7 DEF BaselineInv
<1>3. ASSUME NEW t \in Thread, NEW c \in Conv, NEW sha \in Sha, AskBaseline(t, c, sha)
      PROVE  BaselineInv'
  <2> DEFINE call == NewCall("baseline", c, 0, 0, sha, "set")
  <2>1. /\ UNCHANGED <<ledger, baselines>> /\ Idle(t) /\ Begin(t, call)
        /\ KnownBaseline(c) = NoSha
        /\ contested \subseteq contested' /\ contested' \subseteq contested \cup {c}
        /\ c \notin contested' => \A u \in Thread : ~ SetsBaseline(u, c)
    BY <1>3 DEF AskBaseline, MayAsk
  <2>2. /\ call \in Call /\ call.conv = c /\ call.sha = sha /\ call.at = "set"
        /\ call.kind = "baseline" /\ sha # NoSha
    BY NewCallType, DaemonAssumption DEF NewCall, Kind
  <2>3. c \notin contested => BaselineEntries(c) = {}
    BY <2>1, KnownIsRecorded
  <2> HIDE DEF call
  <2>4. /\ DOMAIN calls'[t] = {1} /\ calls'[t][1] = call
        /\ \A u \in Thread \ {t} : calls'[u] = calls[u]
    BY <2>1, <2>2, BeginGates
  <2>5. \A d : BaselineEntries(d)' = BaselineEntries(d)
    BY <2>1 DEF BaselineEntries
  <2>6. BaselinesAgree' /\ RecordedBaselineKept'
    BY <2>1, <2>5 DEF BaselineInv, BaselinesAgree, RecordedBaselineKept
  <2>7. BaselineCalls'
    <3>1. ASSUME NEW u \in Thread, NEW k \in DOMAIN calls'[u], calls'[u][k].kind = "baseline"
          PROVE  /\ k = 1
                 /\ calls'[u][k].conv \notin contested' =>
                      /\ calls'[u][k].sha # NoSha
                      /\ BaselineEntries(calls[u][k].conv)' = {}
                      /\ calls'[u][k].at # "set" =>
                           baselines'[calls'[u][k].conv] = calls'[u][k].sha
                      /\ \A v \in Thread \ {u} : ~ SetsBaseline(v, calls[u][k].conv)'
      <4>1. CASE u = t
        <5>1. k = 1 /\ calls'[u][k] = call
          BY <2>4, <3>1, <4>1
        <5>2. BaselineEntries(calls[u][k].conv)' = BaselineEntries(c)
          BY <2>1, <2>2, <5>1 DEF BaselineEntries
        <5>3. ASSUME c \notin contested', NEW v \in Thread \ {u}
              PROVE  ~ SetsBaseline(v, calls[u][k].conv)'
          BY <2>1, <2>2, <2>4, <4>1, <5>1, <5>3 DEF SetsBaseline
        <5>4. QED
          BY <2>1, <2>2, <2>3, <5>1, <5>2, <5>3
      <4>2. CASE u # t
        <5>1. calls'[u] = calls[u]
          BY <2>4, <4>2
        <5>2. PICK d \in Conv : d = calls[u][k].conv
          BY <3>1, <5>1, CallFields DEF TypeOK
        <5>3. /\ k = 1
              /\ d \notin contested =>
                   /\ calls[u][k].sha # NoSha
                   /\ BaselineEntries(d) = {}
                   /\ calls[u][k].at # "set" => baselines[d] = calls[u][k].sha
                   /\ \A v \in Thread \ {u} : ~ SetsBaseline(v, d)
          BY <3>1, <5>1, <5>2 DEF BaselineInv, BaselineCalls
        <5>4. SetsBaseline(u, d)
          BY <3>1, <5>1, <5>2 DEF SetsBaseline
        <5>5. d \notin contested' => d # c
          BY <2>1, <5>4
        <5>6. ASSUME d \notin contested', NEW v \in Thread \ {u}
              PROVE  ~ SetsBaseline(v, calls[u][k].conv)'
          <6>1. SetsBaseline(v, calls[u][k].conv)' <=>
                  \E l \in DOMAIN calls'[v] : calls'[v][l].kind = "baseline" /\ calls'[v][l].conv = d
            BY <5>1, <5>2 DEF SetsBaseline
          <6>2. CASE v = t
            BY <2>2, <2>4, <5>5, <5>6, <6>1, <6>2
          <6>3. CASE v # t
            BY <2>1, <2>4, <5>3, <5>6, <6>1, <6>3 DEF SetsBaseline
          <6>4. QED
            BY <6>2, <6>3
        <5>7. BaselineEntries(calls[u][k].conv)' = BaselineEntries(d)
          BY <2>1, <5>1, <5>2 DEF BaselineEntries
        <5>8. QED
          BY <2>1, <5>1, <5>2, <5>3, <5>6, <5>7
      <4>3. QED
        BY <4>1, <4>2
    <3>2. QED
      BY <3>1 DEF BaselineCalls
  <2>8. QED
    BY <2>6, <2>7 DEF BaselineInv
<1>4. ASSUME NEW t \in Thread, NEW c \in Conv, Request(t, c)
      PROVE  BaselineInv'
  <2>1. CASE AskSession(t, c)
    BY <1>1, <2>1, NewCallType DEF AskSession, NewCall, Kind
  <2>2. ASSUME NEW step \in 0 .. MaxStep, AskRecord(t, c, step)
        PROVE  BaselineInv'
    <3> DEFINE call == NewCall("tool", c, step, 0, NoSha, "sweep")
    <3>1. call \in Call
      BY NewCallType, DaemonAssumption DEF Kind
    <3>2. call.kind # "baseline"
      BY DEF NewCall
    <3>3. Begin(t, call) /\ UNCHANGED <<ledger, baselines, contested>>
      BY <2>2 DEF AskRecord
    <3> HIDE DEF call
    <3>4. QED
      BY <1>1, <3>1, <3>2, <3>3
  <2>3. CASE AskGate(t, c)
    BY <1>1, <2>3, NewCallType DEF AskGate, NewCall, Kind
  <2>4. CASE AskVerdict(t, c)
    <3> DEFINE call == NewCall("verdict", c, OwnStep(c), gates[c].id, NoSha, "sweep")
    <3>1. call \in Call /\ call.kind # "baseline"
      BY StepTypes, GateFields, NewCallType DEF TypeOK, Kind, NewCall
    <3>2. Begin(t, call) /\ UNCHANGED <<ledger, baselines, contested>>
      BY <2>4 DEF AskVerdict
    <3> HIDE DEF call
    <3>3. QED
      BY <1>1, <3>1, <3>2
  <2>5. QED
    BY <1>2, <1>3, <1>4, <2>1, <2>2, <2>3, <2>4 DEF Request
<1>5. ASSUME NEW t \in Thread, Register(t) \/ OpenGate(t)
      PROVE  BaselineInv'
  <2>1. End(t) /\ UNCHANGED <<ledger, baselines, contested>>
    BY <1>5 DEF Register, OpenGate
  <2>2. BaselinesGoOn
    BY <2>1 DEF End, TypeOK, BaselinesGoOn
  <2>3. QED
    BY <2>1, <2>2, BaselinesUntouched
<1>6. ASSUME NEW t \in Thread, NEW todo \in SUBSET Conv, NEW seen \in Nat,
             ~ Idle(t), Running(t).at # "set",
             Become(t, Moved(Running(t), "loop", todo, seen)),
             UNCHANGED <<ledger, baselines, contested>>
      PROVE  BaselineInv'
  <2> DEFINE call == Moved(Running(t), "loop", todo, seen)
  <2>1. /\ call \in Call /\ call.kind = Running(t).kind /\ call.conv = Running(t).conv
        /\ call.sha = Running(t).sha
    BY <1>6, StackTypes, MovedType DEF Moved
  <2> HIDE DEF call
  <2>2. Become(t, call)
    BY <1>6 DEF call
  <2>3. BaselinesGoOn
    BY <1>6, <2>1, <2>2, BecomeStack DEF BaselinesGoOn
  <2>4. QED
    BY <1>6, <2>3, BaselinesUntouched
<1>7. ASSUME NEW t \in Thread, ListExpired(t)
      PROVE  BaselineInv'
  <2>1. {c \in Conv : gates[c].old} \in SUBSET Conv /\ gateIds \in Nat
    BY DEF TypeOK
  <2>2. QED
    BY <1>6, <1>7, <2>1 DEF ListExpired
<1>8. ASSUME NEW t \in Thread, NEW c \in Conv, Sweep(t, c)
      PROVE  BaselineInv'
  <2> DEFINE rest == Moved(Running(t), "loop", Running(t).todo \ {c}, Running(t).seen)
             record == NewCall("unverified", c, OwnStep(c), gates[c].id, NoSha, "sweep")
  <2>1. /\ ~ Idle(t) /\ UNCHANGED <<ledger, baselines, contested>>
        /\ Running(t).at = "loop"
    BY <1>8 DEF Sweep
  <2>2. Running(t).todo \ {c} \in SUBSET Conv /\ Running(t).seen \in Nat
    BY <2>1, StackTypes, CallFields
  <2>3. CASE gates[c] = NoGate
    <3>1. Become(t, rest)
      BY <1>8, <2>3 DEF Sweep
    <3>2. QED
      BY <1>6, <2>1, <2>2, <3>1
  <2>4. CASE gates[c] # NoGate
    <3>1. /\ rest \in Call /\ rest.kind = Running(t).kind
          /\ rest.conv = Running(t).conv /\ rest.sha = Running(t).sha
      BY <2>1, <2>2, StackTypes, MovedType DEF Moved
    <3>2. record \in Call /\ record.kind # "baseline"
      BY StepTypes, GateFields, NewCallType DEF TypeOK, Kind, NewCall
    <3>3. calls' = [calls EXCEPT ![t] = Append(Append(Beneath(t), rest), record)]
      BY <1>8, <2>4 DEF Sweep
    <3> HIDE DEF rest, record
    <3>4. /\ Len(calls[t]) \in DOMAIN calls[t]
          /\ calls[t][Len(calls[t])] = Running(t)
          /\ DOMAIN calls'[t] = DOMAIN calls[t] \cup {Len(calls[t]) + 1}
          /\ calls'[t][Len(calls[t]) + 1] = record
          /\ calls'[t][Len(calls[t])] = rest
          /\ \A k \in DOMAIN calls[t] : k = Len(calls[t]) \/ calls'[t][k] = calls[t][k]
          /\ \A u \in Thread \ {t} : calls'[u] = calls[u]
      BY <2>1, <3>1, <3>2, <3>3, PushStack
    <3>5. ASSUME NEW k \in DOMAIN calls'[t], calls'[t][k].kind = "baseline"
          PROVE  /\ k \in DOMAIN calls[t]
                 /\ calls'[t][k].kind = calls[t][k].kind
                 /\ calls'[t][k].conv = calls[t][k].conv
                 /\ calls'[t][k].sha = calls[t][k].sha
                 /\ calls'[t][k].at # "set" => calls[t][k].at # "set"
      <4>1. k \in DOMAIN calls[t]
        BY <3>2, <3>4, <3>5
      <4>2. CASE k = Len(calls[t])
        BY <2>1, <3>1, <3>4, <4>1, <4>2
      <4>3. CASE k # Len(calls[t])
        BY <3>4, <4>1, <4>3
      <4>4. QED
        BY <4>1, <4>2, <4>3
    <3>6. BaselinesGoOn
      BY <3>4, <3>5 DEF BaselinesGoOn
    <3>7. QED
      BY <2>1, <3>6, BaselinesUntouched
  <2>5. QED
    BY <2>3, <2>4
<1>9. ASSUME NEW t \in Thread, SetBaseline(t)
      PROVE  BaselineInv'
  <2> DEFINE call == Moved(Running(t), "sweep", {}, 0)
  <2>1. /\ ~ Idle(t) /\ Running(t).kind = "baseline" /\ Become(t, call)
        /\ ledger' = ledger /\ contested' = contested
        /\ baselines' = [baselines EXCEPT ![Running(t).conv] = Running(t).sha]
    BY <1>9 DEF SetBaseline
  <2>2. PICK c \in Conv : c = Running(t).conv
    BY <2>1, BaselineCallAlone
  <2>3. /\ Len(calls[t]) = 1
        /\ c \notin contested =>
             /\ Running(t).sha # NoSha /\ BaselineEntries(c) = {}
             /\ \A u \in Thread \ {t} : ~ SetsBaseline(u, c)
    BY <2>1, <2>2, BaselineCallAlone
  <2>4. /\ call \in Call /\ call.conv = c /\ call.sha = Running(t).sha
        /\ call.kind = "baseline"
    BY <2>1, <2>2, StackTypes, MovedType DEF Moved
  <2> HIDE DEF call
  <2>5. /\ DOMAIN calls'[t] = {1} /\ calls'[t][1] = call
        /\ \A u \in Thread \ {t} : calls'[u] = calls[u]
    <3>1. DOMAIN calls[t] = {1}
      BY <2>1, <2>3, StackTypes DEF TypeOK
    <3>2. QED
      BY <2>1, <2>3, <2>4, <3>1, BecomeStack
  <2>6. /\ baselines'[c] = Running(t).sha
        /\ \A d \in Conv \ {c} : baselines'[d] = baselines[d]
    BY <2>1, <2>2 DEF TypeOK
  <2>7. \A d : BaselineEntries(d)' = BaselineEntries(d)
    BY <2>1 DEF BaselineEntries
  <2>8. BaselinesAgree'
    BY <2>1, <2>7 DEF BaselineInv, BaselinesAgree
  <2>9. RecordedBaselineKept'
    BY <2>1, <2>3, <2>6, <2>7 DEF BaselineInv, RecordedBaselineKept
  <2>10. BaselineCalls'
    <3>1. SetsBaseline(t, c) /\ \A d \in Conv \ {c} : ~ SetsBaseline(t, d)'
      <4>1. Len(calls[t]) \in DOMAIN calls[t] /\ calls[t][Len(calls[t])] = Running(t)
        BY <2>1, StackTypes DEF TypeOK, Running
      <4>2. QED
        BY <2>1, <2>2, <2>4, <2>5, <4>1 DEF SetsBaseline
    <3>2. ASSUME NEW u \in Thread, NEW k \in DOMAIN calls'[u], calls'[u][k].kind = "baseline"
          PROVE  /\ k = 1
                 /\ calls'[u][k].conv \notin contested' =>
                      /\ calls'[u][k].sha # NoSha
                      /\ BaselineEntries(calls[u][k].conv)' = {}
                      /\ calls'[u][k].at # "set" =>
                           baselines'[calls'[u][k].conv] = calls'[u][k].sha
                      /\ \A v \in Thread \ {u} : ~ SetsBaseline(v, calls[u][k].conv)'
      <4>1. CASE u = t
        <5>1. k = 1 /\ calls'[u][k] = call
          BY <2>5, <3>2, <4>1
        <5>2. BaselineEntries(calls[u][k].conv)' = BaselineEntries(c)
          BY <2>1, <2>4, <5>1 DEF BaselineEntries
        <5>3. ASSUME c \notin contested, NEW v \in Thread \ {u}
              PROVE  ~ SetsBaseline(v, calls[u][k].conv)'
          BY <2>3, <2>4, <2>5, <4>1, <5>1, <5>3 DEF SetsBaseline
        <5>4. QED
          BY <2>1, <2>3, <2>4, <2>6, <5>1, <5>2, <5>3
      <4>2. CASE u # t
        <5>1. c \notin contested => ~ SetsBaseline(u, c)
          BY <2>3, <4>2
        <5>2. \A d \in Conv \ {c} : /\ BaselineEntries(d)' = BaselineEntries(d)
                                   /\ baselines'[d] = baselines[d]
          BY <2>6, <2>7
        <5>3. QED
          BY <2>1, <2>5, <3>1, <3>2, <4>2, <5>1, <5>2, OthersCalls
      <4>3. QED
        BY <4>1, <4>2
    <3>3. QED
      BY <3>2 DEF BaselineCalls
  <2>11. QED
    BY <2>8, <2>9, <2>10 DEF BaselineInv
<1>10. ASSUME NEW t \in Thread, Refuse(t)
       PROVE  BaselineInv'
  <2>1. ~ Idle(t) /\ Return(t) /\ UNCHANGED <<ledger, baselines, contested>>
    BY <1>10 DEF Refuse, Swept
  <2>2. BaselinesGoOn
    BY <2>1, ReturnGates DEF BaselinesGoOn
  <2>3. QED
    BY <2>1, <2>2, BaselinesUntouched
<1>11. ASSUME NEW c \in Conv, GateExpires(c)
       PROVE  BaselineInv'
  BY <1>11, BaselinesUntouched DEF GateExpires, BaselinesGoOn
<1>12. CASE Restart
  <2>1. /\ ledger' = ledger /\ contested' = contested
        /\ \A c \in Conv : baselines'[c] = NoSha
        /\ \A u \in Thread : DOMAIN calls'[u] = {}
    BY <1>12 DEF Restart
  <2>2. \A d : BaselineEntries(d)' = BaselineEntries(d)
    BY <2>1 DEF BaselineEntries
  <2>3. BaselinesAgree'
    BY <2>1, <2>2 DEF BaselineInv, BaselinesAgree
  <2>4. QED
    BY <2>1, <2>3 DEF BaselineInv, BaselineCalls, RecordedBaselineKept
<1>13. CASE UNCHANGED vars
  BY <1>13, BaselinesUntouched DEF vars, BaselinesGoOn
<1>14. QED
  BY <1>4, <1>5, <1>7, <1>8, <1>9, <1>10, <1>11, <1>12, <1>13,
     BaselineRecorded, OtherRecorded DEF Next, Step

\* A recorded baseline is the one in memory, whatever is refused, swept or lost by
\* a restart in between and for any number of threads, unless two requests set one
\* for the conversation at once.
THEOREM BaselineIsKept == Spec => []RecordedBaselineKept
<1>1. Init => BaselineInv
  <2>1. Init => \A c : BaselineEntries(c) = {}
    BY DEF Init, BaselineEntries
  <2>2. QED
    BY <2>1 DEF Init, BaselineInv, BaselinesAgree, BaselineCalls, RecordedBaselineKept
<1>2. TypeOK /\ TypeOK' /\ BaselineInv /\ [Next]_vars => BaselineInv'
  BY BaselineInduction
<1>3. BaselineInv => RecordedBaselineKept
  BY DEF BaselineInv
<1>4. QED
  BY <1>1, <1>2, <1>3, DaemonTypeCorrect, PTL DEF Spec
-----------------------------------------------------------------------------
(* Gates the sweep leaves alone *)

LEMMA ListsUntouched ==
  ASSUME TypeOK, TypeOK', ListedOld, ListsShrink, gateIds' = gateIds,
         \A c \in Conv : gates'[c].id # 0 => gates'[c] = gates[c] \/ gates'[c].old
  PROVE  ListedOld'
<1> SUFFICES ASSUME NEW u \in Thread, NEW k \in DOMAIN calls'[u],
                    NEW c \in calls'[u][k].todo
             PROVE  /\ calls'[u][k].seen <= gateIds'
                    /\ gates'[c].id # 0 => gates'[c].old \/ gates'[c].id > calls'[u][k].seen
  BY DEF ListedOld
<1>1. c \in Conv
  BY CallFields DEF TypeOK
<1>2. k \in DOMAIN calls[u] /\ c \in calls[u][k].todo /\ calls'[u][k].seen = calls[u][k].seen
  BY DEF ListsShrink
<1>3. /\ calls[u][k].seen <= gateIds
      /\ gates[c].id # 0 => gates[c].old \/ gates[c].id > calls[u][k].seen
  BY <1>2 DEF ListedOld
<1>4. QED
  BY <1>1, <1>2, <1>3

LEMMA ListInduction ==
  ASSUME TypeOK, TypeOK', ListedOld, [Next]_vars
  PROVE  ListedOld'
<1> USE DEF memory, history
<1>1. ASSUME NEW t \in Thread, NEW call \in Call, call.todo = {}, Begin(t, call),
             gateIds' = gateIds,
             \A c \in Conv : gates'[c].id # 0 => gates'[c] = gates[c]
      PROVE  ListedOld'
  <2>1. ListsShrink
    BY <1>1, BeginGates DEF ListsShrink
  <2>2. QED
    BY <1>1, <2>1, ListsUntouched
<1>2. ASSUME NEW t \in Thread, NEW c \in Conv, Request(t, c)
      PROVE  ListedOld'
  <2>1. CASE AskSession(t, c)
    BY <1>1, <2>1, NewCallType DEF AskSession, NewCall, Kind
  <2>2. ASSUME NEW step \in 0 .. MaxStep, AskRecord(t, c, step)
        PROVE  ListedOld'
    <3> DEFINE call == NewCall("tool", c, step, 0, NoSha, "sweep")
    <3>1. call \in Call
      BY NewCallType, DaemonAssumption DEF Kind
    <3>2. call.todo = {}
      BY DEF NewCall
    <3>3. Begin(t, call) /\ gates' = gates /\ gateIds' = gateIds
      BY <2>2 DEF AskRecord
    <3> HIDE DEF call
    <3>4. QED
      BY <1>1, <3>1, <3>2, <3>3
  <2>3. CASE AskGate(t, c)
    BY <1>1, <2>3, NewCallType DEF AskGate, NewCall, Kind
  <2>4. CASE AskVerdict(t, c)
    <3> DEFINE call == NewCall("verdict", c, OwnStep(c), gates[c].id, NoSha, "sweep")
    <3>1. call \in Call /\ call.todo = {}
      BY StepTypes, GateFields, NewCallType DEF TypeOK, Kind, NewCall
    <3>2. Begin(t, call) /\ gates' = [gates EXCEPT ![c] = NoGate] /\ gateIds' = gateIds
      BY <2>4 DEF AskVerdict
    <3> HIDE DEF call
    <3>3. \A d \in Conv : gates'[d].id # 0 => gates'[d] = gates[d]
      BY <3>2 DEF TypeOK, NoGate
    <3>4. QED
      BY <1>1, <3>1, <3>2, <3>3
  <2>5. CASE FindBaseline(t, c)
    BY <2>5, ListsUntouched DEF FindBaseline, ListsShrink
  <2>6. ASSUME NEW sha \in Sha, AskBaseline(t, c, sha)
        PROVE  ListedOld'
    BY <1>1, <2>6, NewCallType DEF AskBaseline, NewCall, Kind
  <2>7. QED
    BY <1>2, <2>1, <2>2, <2>3, <2>4, <2>5, <2>6 DEF Request
<1>3. ASSUME NEW t \in Thread, Register(t)
      PROVE  ListedOld'
  <2>1. End(t) /\ gates' = gates /\ gateIds' = gateIds
    BY <1>3 DEF Register
  <2>2. ListsShrink
    BY <2>1 DEF End, TypeOK, ListsShrink
  <2>3. QED
    BY <2>1, <2>2, ListsUntouched
<1>4. ASSUME NEW t \in Thread, SetBaseline(t)
      PROVE  ListedOld'
  <2> DEFINE call == Moved(Running(t), "sweep", {}, 0)
  <2>1. ~ Idle(t) /\ Become(t, call) /\ gates' = gates /\ gateIds' = gateIds
    BY <1>4 DEF SetBaseline
  <2>2. call \in Call /\ call.todo = {}
    BY <2>1, StackTypes, MovedType DEF Moved
  <2> HIDE DEF call
  <2>3. ListsShrink
    BY <2>1, <2>2, BecomeStack DEF ListsShrink
  <2>4. QED
    BY <2>1, <2>3, ListsUntouched
<1>5. ASSUME NEW t \in Thread, ListExpired(t)
      PROVE  ListedOld'
  <2> DEFINE todo == {c \in Conv : gates[c].old}
             call == Moved(Running(t), "loop", todo, gateIds)
  <2>1. ~ Idle(t) /\ Become(t, call) /\ gates' = gates /\ gateIds' = gateIds
    BY <1>5 DEF ListExpired
  <2>2. call \in Call /\ call.todo = todo /\ call.seen = gateIds /\ gateIds \in Nat
    BY <2>1, StackTypes, MovedType DEF Moved, TypeOK
  <2>3. \A c \in call.todo : gates[c].old
    BY <2>2
  <2> HIDE DEF call
  <2>4. /\ DOMAIN calls'[t] = DOMAIN calls[t]
        /\ \A k \in DOMAIN calls[t] : calls'[t][k] = call \/ calls'[t][k] = calls[t][k]
        /\ \A u \in Thread \ {t} : calls'[u] = calls[u]
    BY <2>1, <2>2, BecomeStack
  <2>5. ASSUME NEW u \in Thread, NEW k \in DOMAIN calls'[u], NEW c \in calls'[u][k].todo
        PROVE  /\ calls'[u][k].seen <= gateIds'
               /\ gates'[c].id # 0 => gates'[c].old \/ gates'[c].id > calls'[u][k].seen
    <3>1. CASE u = t
      BY <2>1, <2>2, <2>3, <2>4, <3>1 DEF ListedOld
    <3>2. CASE u # t
      BY <2>1, <2>4, <3>2 DEF ListedOld
    <3>3. QED
      BY <3>1, <3>2
  <2>6. QED
    BY <2>5 DEF ListedOld
<1>6. ASSUME NEW t \in Thread, NEW c \in Conv, Sweep(t, c)
      PROVE  ListedOld'
  <2> DEFINE rest == Moved(Running(t), "loop", Running(t).todo \ {c}, Running(t).seen)
             record == NewCall("unverified", c, OwnStep(c), gates[c].id, NoSha, "sweep")
  <2>1. ~ Idle(t) /\ gates' = [gates EXCEPT ![c] = NoGate] /\ gateIds' = gateIds
    BY <1>6 DEF Sweep
  <2>2. \A d \in Conv : gates'[d].id # 0 => gates'[d] = gates[d]
    BY <2>1 DEF TypeOK, NoGate
  <2>3. Running(t).todo \ {c} \in SUBSET Conv /\ Running(t).seen \in Nat
    BY <2>1, StackTypes, CallFields
  <2>4. /\ rest \in Call /\ rest.todo \subseteq Running(t).todo
        /\ rest.seen = Running(t).seen
    BY <2>1, <2>3, StackTypes, MovedType DEF Moved
  <2>5. record \in Call /\ record.todo = {}
    BY StepTypes, GateFields, NewCallType DEF TypeOK, Kind, NewCall
  <2>6. \/ Become(t, rest)
        \/ calls' = [calls EXCEPT ![t] = Append(Append(Beneath(t), rest), record)]
    BY <1>6 DEF Sweep
  <2> HIDE DEF rest, record
  <2>7. CASE Become(t, rest)
    <3>1. ListsShrink
      BY <2>1, <2>4, <2>7, BecomeStack DEF ListsShrink
    <3>2. QED
      BY <2>1, <2>2, <3>1, ListsUntouched
  <2>8. CASE calls' = [calls EXCEPT ![t] = Append(Append(Beneath(t), rest), record)]
    <3>1. /\ Len(calls[t]) \in DOMAIN calls[t]
          /\ calls[t][Len(calls[t])] = Running(t)
          /\ DOMAIN calls'[t] = DOMAIN calls[t] \cup {Len(calls[t]) + 1}
          /\ calls'[t][Len(calls[t]) + 1] = record
          /\ calls'[t][Len(calls[t])] = rest
          /\ \A k \in DOMAIN calls[t] : k = Len(calls[t]) \/ calls'[t][k] = calls[t][k]
          /\ \A u \in Thread \ {t} : calls'[u] = calls[u]
      BY <2>1, <2>4, <2>5, <2>8, PushStack
    <3>2. ASSUME NEW k \in DOMAIN calls'[t], calls'[t][k].todo # {}
          PROVE  /\ k \in DOMAIN calls[t]
                 /\ calls'[t][k].todo \subseteq calls[t][k].todo
                 /\ calls'[t][k].seen = calls[t][k].seen
      <4>1. k \in DOMAIN calls[t]
        BY <2>5, <3>1, <3>2
      <4>2. QED
        BY <2>4, <3>1, <4>1
    <3>3. ListsShrink
      BY <3>1, <3>2 DEF ListsShrink
    <3>4. QED
      BY <2>1, <2>2, <3>3, ListsUntouched
  <2>9. QED
    BY <2>6, <2>7, <2>8
<1>7. ASSUME NEW t \in Thread, OpenGate(t)
      PROVE  ListedOld'
  <2> DEFINE g == [id |-> gateIds + 1, old |-> FALSE]
  <2>1. /\ gates' = [gates EXCEPT ![Running(t).conv] = g]
        /\ gateIds' = gateIds + 1 /\ End(t)
    BY <1>7 DEF OpenGate
  <2>2. g.id = gateIds + 1 /\ gateIds \in Nat
    BY DEF TypeOK
  <2> HIDE DEF g
  <2>3. \A c \in Conv : gates'[c] = gates[c] \/ gates'[c] = g
    BY <2>1 DEF TypeOK
  <2>4. /\ DOMAIN calls'[t] = {}
        /\ \A u \in Thread \ {t} : calls'[u] = calls[u]
    BY <2>1 DEF End, TypeOK
  <2>5. ASSUME NEW u \in Thread, NEW k \in DOMAIN calls'[u], NEW c \in calls'[u][k].todo
        PROVE  /\ calls'[u][k].seen <= gateIds'
               /\ gates'[c].id # 0 => gates'[c].old \/ gates'[c].id > calls'[u][k].seen
    <3>1. calls'[u] = calls[u]
      BY <2>4, <2>5
    <3>2. calls[u][k].seen \in Nat /\ c \in Conv
      BY <2>5, <3>1, CallFields DEF TypeOK
    <3>3. /\ calls[u][k].seen <= gateIds
          /\ gates[c].id # 0 => gates[c].old \/ gates[c].id > calls[u][k].seen
      BY <2>5, <3>1 DEF ListedOld
    <3>4. QED
      BY <2>1, <2>2, <2>3, <3>1, <3>2, <3>3
  <2>6. QED
    BY <2>5 DEF ListedOld
<1>8. ASSUME NEW t \in Thread, Commit(t) \/ Refuse(t)
      PROVE  ListedOld'
  <2>1. ~ Idle(t) /\ Return(t) /\ gates' = gates /\ gateIds' = gateIds
    BY <1>8 DEF Commit, Refuse, Swept
  <2>2. ListsShrink
    BY <2>1, ReturnGates DEF ListsShrink
  <2>3. QED
    BY <2>1, <2>2, ListsUntouched
<1>9. ASSUME NEW c \in Conv, GateExpires(c)
      PROVE  ListedOld'
  <2>1. /\ calls' = calls /\ gateIds' = gateIds
        /\ \A d \in Conv : gates'[d] = gates[d] \/ gates'[d].old
    BY <1>9 DEF GateExpires, TypeOK
  <2>2. ListsShrink
    BY <2>1 DEF ListsShrink
  <2>3. QED
    BY <2>1, <2>2, ListsUntouched
<1>10. CASE Restart
  <2>1. \A u \in Thread : DOMAIN calls'[u] = {}
    BY <1>10 DEF Restart
  <2>2. QED
    BY <2>1 DEF ListedOld
<1>11. CASE UNCHANGED vars
  BY <1>11, ListsUntouched DEF vars, ListsShrink
<1>12. QED
  BY <1>2, <1>3, <1>4, <1>5, <1>6, <1>7, <1>8, <1>9, <1>10, <1>11 DEF Next, Step

\* For any number of threads: a gate that has not expired is taken out of memory
\* by its verdict, or by a sweep whose list is older than the gate.
THEOREM FreshGateIsKept == Spec => FreshGateKept
<1> USE DEF memory, history
<1>1. Init => ListedOld
  BY DEF Init, ListedOld
<1>2. TypeOK /\ TypeOK' /\ ListedOld /\ [Next]_vars => ListedOld'
  BY ListInduction
<1>3. ASSUME TypeOK, ListedOld, [Next]_vars, NEW c \in Conv,
             gates[c].id # 0, ~ gates[c].old, gates'[c] = NoGate, restarts' = restarts
      PROVE  \E t \in Thread :
               \/ /\ Idle(t)
                  /\ calls'[t] # <<>>
                  /\ calls'[t][1].kind = "verdict"
                  /\ calls'[t][1].gate = gates[c].id
               \/ /\ ~ Idle(t)
                  /\ calls'[t] # calls[t]
                  /\ c \in Running(t).todo
                  /\ gates[c].id > Running(t).seen
  <2>1. gates'[c] # gates[c] /\ gates \in [Conv -> Gate]
    BY <1>3 DEF NoGate, TypeOK
  <2>2. ASSUME NEW t \in Thread, NEW d \in Conv, AskVerdict(t, d)
        PROVE  /\ Idle(t) /\ calls'[t] # <<>>
               /\ calls'[t][1].kind = "verdict" /\ calls'[t][1].gate = gates[c].id
    <3> DEFINE call == NewCall("verdict", d, OwnStep(d), gates[d].id, NoSha, "sweep")
    <3>1. d = c
      BY <2>1, <2>2 DEF AskVerdict
    <3>2. call.kind = "verdict" /\ call.gate = gates[c].id
      BY <3>1 DEF NewCall
    <3>3. Idle(t) /\ calls' = [calls EXCEPT ![t] = <<call>>]
      BY <2>2 DEF AskVerdict, MayAsk, Begin
    <3> HIDE DEF call
    <3>4. calls'[t] = <<call>>
      BY <1>3, <3>3 DEF TypeOK
    <3>5. QED
      BY <3>2, <3>3, <3>4
  <2>3. ASSUME NEW t \in Thread, NEW d \in Conv, Sweep(t, d)
        PROVE  /\ ~ Idle(t) /\ calls'[t] # calls[t]
               /\ c \in Running(t).todo /\ gates[c].id > Running(t).seen
    <3> DEFINE rest == Moved(Running(t), "loop", Running(t).todo \ {d}, Running(t).seen)
               record == NewCall("unverified", d, OwnStep(d), gates[d].id, NoSha, "sweep")
    <3>1. d = c
      BY <2>1, <2>3 DEF Sweep
    <3>2. ~ Idle(t) /\ d \in Running(t).todo
      BY <2>3 DEF Sweep
    <3>3. Len(calls[t]) \in Nat \ {0} /\ calls[t] \in Seq(Call)
      BY <1>3, <3>2, StackTypes DEF TypeOK
    <3>4. Len(calls[t]) \in DOMAIN calls[t] /\ calls[t][Len(calls[t])] = Running(t)
      BY <3>3 DEF Running
    <3>5. gates[c].id > Running(t).seen
      BY <1>3, <3>1, <3>2, <3>4 DEF ListedOld
    <3>6. calls' = [calls EXCEPT ![t] = Append(Append(Beneath(t), rest), record)]
      <4>1. gates[d] # NoGate
        BY <1>3, <3>1 DEF NoGate
      <4>2. QED
        BY <2>3, <4>1, Zenon DEF Sweep
    <3>7. rest \in Call /\ record \in Call
      <4>1. Running(t).todo \ {d} \in SUBSET Conv /\ Running(t).seen \in Nat
        BY <1>3, <3>2, StackTypes, CallFields
      <4>2. QED
        BY <1>3, <3>2, <4>1, StackTypes, StepTypes, GateFields, NewCallType, MovedType
        DEF TypeOK, Kind
    <3> HIDE DEF rest, record
    <3>8. DOMAIN calls'[t] = DOMAIN calls[t] \cup {Len(calls[t]) + 1}
      BY <1>3, <3>2, <3>6, <3>7, PushStack
    <3>9. Len(calls[t]) + 1 \notin DOMAIN calls[t]
      BY <3>3
    <3>10. QED
      BY <3>1, <3>2, <3>5, <3>8, <3>9
  <2>4. ASSUME NEW t \in Thread, OpenGate(t)
        PROVE  FALSE
    <3> DEFINE g == [id |-> gateIds + 1, old |-> FALSE]
    <3>1. gates' = [gates EXCEPT ![Running(t).conv] = g]
      BY <2>4 DEF OpenGate
    <3>2. g.id = gateIds + 1
      OBVIOUS
    <3> HIDE DEF g
    <3>3. gates'[c] = g
      BY <1>3, <2>1, <3>1 DEF TypeOK
    <3>4. gateIds + 1 = 0 /\ gateIds \in Nat
      BY <1>3, <3>2, <3>3 DEF NoGate, TypeOK
    <3>5. QED
      BY <3>4
  <2>5. ASSUME NEW d \in Conv, GateExpires(d)
        PROVE  FALSE
    BY <1>3, <2>5 DEF GateExpires, TypeOK, NoGate
  <2>6. CASE Restart
    BY <1>3, <2>6 DEF Restart, TypeOK
  <2>7. ASSUME NEW t \in Thread,
               \/ Register(t) \/ SetBaseline(t) \/ ListExpired(t) \/ Commit(t) \/ Refuse(t)
        PROVE  FALSE
    BY <2>1, <2>7 DEF Register, SetBaseline, ListExpired, Commit, Refuse
  <2>8. ASSUME NEW t \in Thread, NEW d \in Conv, Request(t, d), ~ AskVerdict(t, d)
        PROVE  FALSE
    BY <2>1, <2>8 DEF Request, AskSession, AskRecord, AskGate, FindBaseline, AskBaseline
  <2>9. CASE UNCHANGED vars
    BY <2>1, <2>9 DEF vars
  <2>10. QED
    BY <1>3, <2>2, <2>3, <2>4, <2>5, <2>6, <2>7, <2>8, <2>9, Zenon DEF Next, Step
<1>4. TypeOK /\ ListedOld /\ [Next]_vars =>
        [\A c \in Conv :
           gates[c].id # 0 /\ ~ gates[c].old /\ gates'[c] = NoGate /\ restarts' = restarts
             => \E t \in Thread :
                  \/ /\ Idle(t)
                     /\ calls'[t] # <<>>
                     /\ calls'[t][1].kind = "verdict"
                     /\ calls'[t][1].gate = gates[c].id
                  \/ /\ ~ Idle(t)
                     /\ calls'[t] # calls[t]
                     /\ c \in Running(t).todo
                     /\ gates[c].id > Running(t).seen]_vars
  BY <1>3
<1>5. QED
  BY <1>1, <1>2, <1>4, DaemonTypeCorrect, PTL DEF Spec, FreshGateKept
=============================================================================
