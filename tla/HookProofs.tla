----------------------------- MODULE HookProofs -----------------------------
(***************************************************************************)
(* A hook only ends when its call is in the log, or its own append failed; *)
(* the types of Hook; the order of the log; and where a pass comes from:   *)
(* for any number of commands and restarts.                                *)
(***************************************************************************)
EXTENDS Hook, TLAPS

Entry == [call : Call, by : {"daemon", "hook"}]

\* An answer "recorded" is only given for a call in the log.
Inv ==
  /\ pc \in [Call -> {"none", "key", "start", "store", "wait", "local", "done"}]
  /\ reply \in [Call -> {"none", "recorded", "refused"}]
  /\ flight \subseteq Call
  /\ log \in Seq(Entry)
  /\ \A c \in Call : reply[c] = "recorded" => Recorded(c)
  /\ EveryCallRecorded

\* An appended entry is in the log, and what was there stays.
LEMMA AppendKeeps ==
  ASSUME NEW l \in Seq(Entry), NEW e \in Entry
  PROVE  /\ Append(l, e) \in Seq(Entry)
         /\ \E i \in DOMAIN Append(l, e) : Append(l, e)[i].call = e.call
         /\ \A c : (\E i \in DOMAIN l : l[i].call = c)
                      => \E i \in DOMAIN Append(l, e) : Append(l, e)[i].call = c
<1>1. Append(l, e) \in Seq(Entry)
  OBVIOUS
<1>2. DOMAIN Append(l, e) = 1 .. Len(l) + 1 /\ DOMAIN l = 1 .. Len(l)
  OBVIOUS
<1>3. Append(l, e)[Len(l) + 1] = e /\ \A i \in 1 .. Len(l) : Append(l, e)[i] = l[i]
  OBVIOUS
<1>4. QED
  BY <1>1, <1>2, <1>3

LEMMA LogGrows ==
  ASSUME log \in Seq(Entry), NEW e \in Entry, log' = Append(log, e)
  PROVE  log' \in Seq(Entry) /\ Recorded(e.call)' /\ \A d : Recorded(d) => Recorded(d)'
<1>1. log' \in Seq(Entry)
  BY AppendKeeps
<1>2. Recorded(e.call)'
  BY AppendKeeps DEF Recorded
<1>3. ASSUME NEW d, Recorded(d) PROVE Recorded(d)'
  BY <1>3, AppendKeeps DEF Recorded
<1>4. QED
  BY <1>1, <1>2, <1>3

LEMMA InitInv == Init => Inv
<1>1. SUFFICES ASSUME Init PROVE Inv
  OBVIOUS
<1>2. log \in Seq(Entry)
  BY <1>1 DEF Init
<1>3. QED
  BY <1>1, <1>2 DEF Init, Inv, EveryCallRecorded, Recorded

\* A hook that moves on without ending, while the ledger stays.
LEMMA MoveKeeps ==
  ASSUME Inv, UNCHANGED <<ledger, flight>>,
         NEW c \in Call, NEW at \in {"key", "start", "store", "wait", "local"},
         pc' = [pc EXCEPT ![c] = at],
         reply' = reply \/ reply' = [reply EXCEPT ![c] = "none"]
  PROVE  Inv'
BY DEF Inv, EveryCallRecorded, Recorded, ledger

LEMMA StillKeeps ==
  ASSUME Inv, UNCHANGED <<ledger, pc, reply>>, flight' \subseteq Call
  PROVE  Inv'
BY DEF Inv, EveryCallRecorded, Recorded, ledger

LEMMA RequestKeeps ==
  ASSUME Inv, NEW c \in Call, NEW secret, Request(c, secret)
  PROVE  Inv'
<1>1. flight' \subseteq Call
  BY DEF Request, Inv
<1>2. UNCHANGED <<ledger, reply>> /\ pc' = [pc EXCEPT ![c] = "wait"]
  BY DEF Request
<1>3. QED
  BY <1>1, <1>2 DEF Inv, EveryCallRecorded, Recorded, ledger

LEMMA DecideKeeps ==
  ASSUME Inv, NEW c \in Call, Decide(c)
  PROVE  Inv'
<1>1. \E what : Determine(c, what)
  BY DEF Decide, TakeExitCode, PollTranscript, PollTimeout, NoTranscript
<1>2. UNCHANGED <<ledger, flight, reply>> /\ pc' = [pc EXCEPT ![c] = "key"]
  BY <1>1 DEF Determine, requests
<1>3. QED
  BY <1>2, MoveKeeps

LEMMA RegisterKeeps ==
  ASSUME Inv, NEW c \in Call, Register(c)
  PROVE  Inv'
<1>1. UNCHANGED <<ledger, flight, reply>>
  BY DEF Register
<1>2. CASE pc[c] = "start"
  <2>1. pc' = [pc EXCEPT ![c] = "store"]
    BY <1>2 DEF Register
  <2>2. QED
    BY <2>1, <1>1, MoveKeeps
<1>3. CASE pc[c] # "start"
  <2>1. UNCHANGED pc
    BY <1>3 DEF Register
  <2>2. QED
    BY <2>1, <1>1, StillKeeps DEF Inv
<1>4. QED
  BY <1>2, <1>3

\* The daemon answers "recorded" in the step that appends.
LEMMA RecordsKeeps ==
  ASSUME Inv, NEW c \in Call, DaemonRecords(c)
  PROVE  Inv'
<1> DEFINE e == [call |-> c, by |-> "daemon"]
<1>1. e \in Entry /\ e.call = c
  BY DEF Entry
<1>2. log' = Append(log, e) /\ UNCHANGED <<pc, lost>>
  BY DEF DaemonRecords, Handle
<1>3. /\ flight' \subseteq Call
      /\ reply' = reply \/ reply' = [reply EXCEPT ![c] = "recorded"]
  BY DEF DaemonRecords, Handle, Inv
<1>4. /\ log' \in Seq(Entry)
      /\ Recorded(c)'
      /\ \A d : Recorded(d) => Recorded(d)'
  BY <1>1, <1>2, LogGrows DEF Inv
<1>5. QED
  BY <1>2, <1>3, <1>4 DEF Inv, EveryCallRecorded

LEMMA RefusesKeeps ==
  ASSUME Inv, NEW c \in Call, DaemonRefuses(c)
  PROVE  Inv'
<1>1. UNCHANGED <<log, lost, pc>> /\ flight' \subseteq Call
  BY DEF DaemonRefuses, Handle, Inv
<1>2. reply' = reply \/ reply' = [reply EXCEPT ![c] = "refused"]
  BY DEF DaemonRefuses, Handle
<1>3. QED
  BY <1>1, <1>2 DEF Inv, EveryCallRecorded, Recorded

LEMMA AnsweredKeeps ==
  ASSUME Inv, NEW c \in Call, Answered(c)
  PROVE  Inv'
<1>1. /\ UNCHANGED <<ledger, flight>>
      /\ reply' = [reply EXCEPT ![c] = "none"]
  BY DEF Answered
<1>2. CASE reply[c] = "recorded"
  <2>1. pc' = [pc EXCEPT ![c] = "done"]
    BY <1>2 DEF Answered, Exit
  <2>2. QED
    BY <1>1, <1>2, <2>1 DEF Inv, EveryCallRecorded, Recorded, ledger
<1>3. CASE reply[c] # "recorded"
  <2>1. pc' = [pc EXCEPT ![c] = "local"]
    BY <1>3 DEF Answered
  <2>2. QED
    BY <1>1, <2>1, MoveKeeps
<1>4. QED
  BY <1>2, <1>3

LEMMA LocalKeeps ==
  ASSUME Inv, NEW c \in Call, RecordLocally(c)
  PROVE  Inv'
<1> DEFINE e == [call |-> c, by |-> "hook"]
<1>1. UNCHANGED <<flight, reply>> /\ pc' = [pc EXCEPT ![c] = "done"]
  BY DEF RecordLocally, Exit, requests
<1>2. CASE log' = Append(log, e) /\ UNCHANGED lost
  <2>1. e \in Entry /\ e.call = c
    BY DEF Entry
  <2>2. /\ log' \in Seq(Entry)
        /\ Recorded(c)'
        /\ \A d : Recorded(d) => Recorded(d)'
    BY <1>2, <2>1, LogGrows DEF Inv
  <2>3. QED
    BY <1>1, <1>2, <2>2 DEF Inv, EveryCallRecorded
<1>3. CASE lost' = lost \union {c} /\ UNCHANGED log
  BY <1>1, <1>3 DEF Inv, EveryCallRecorded, Recorded
<1>4. QED
  BY <1>2, <1>3 DEF RecordLocally

LEMMA NextInv == Inv /\ [Next]_vars => Inv'
<1>1. SUFFICES ASSUME Inv, [Next]_vars PROVE Inv'
  OBVIOUS
<1>2. CASE UNCHANGED vars
  BY <1>1, <1>2, StillKeeps DEF vars, requests, Inv
<1>3. ASSUME NEW c \in Call, Begin(c) \/ End(c) \/ Write(c) PROVE Inv'
  BY <1>1, <1>3, StillKeeps DEF Begin, End, Write, requests, Inv
<1>4. ASSUME NEW c \in Call, HookStep(c) PROVE Inv'
  <2>1. CASE Decide(c)
    BY <1>1, <2>1, DecideKeeps
  <2>2. CASE SendWithKey(c) \/ StoreKey(c) \/ SendWithoutKey(c)
    BY <1>1, <2>2, RequestKeeps DEF SendWithKey, StoreKey, SendWithoutKey
  <2>3. CASE AskSession(c)
    BY <1>1, <2>3, MoveKeeps DEF AskSession, requests
  <2>4. CASE Answered(c)
    BY <1>1, <2>4, AnsweredKeeps
  <2>5. CASE GiveUp(c)
    BY <1>1, <2>5, MoveKeeps DEF GiveUp
  <2>6. CASE RecordLocally(c)
    BY <1>1, <2>6, LocalKeeps
  <2>7. QED
    BY <1>4, <2>1, <2>2, <2>3, <2>4, <2>5, <2>6 DEF HookStep
<1>5. ASSUME NEW c \in Call, Register(c) PROVE Inv'
  BY <1>1, <1>5, RegisterKeeps
<1>6. ASSUME NEW c \in Call, DaemonRecords(c) PROVE Inv'
  BY <1>1, <1>6, RecordsKeeps
<1>7. ASSUME NEW c \in Call, DaemonRefuses(c) PROVE Inv'
  BY <1>1, <1>7, RefusesKeeps
<1>8. CASE DaemonRestart
  BY <1>1, <1>8, StillKeeps DEF DaemonRestart
<1>9. CASE StopAllowed
  BY <1>1, <1>9, StillKeeps DEF StopAllowed, requests, Inv
<1>10. QED
  BY <1>1, <1>2, <1>3, <1>4, <1>5, <1>6, <1>7, <1>8, <1>9 DEF Next

\* However many calls run in parallel and whatever the daemon does, a hook that
\* ended has its call in the ledger, unless its own append failed.
THEOREM NoCallLost == Spec => []EveryCallRecorded
<1>1. Inv => EveryCallRecorded
  BY DEF Inv
<1>2. QED
  BY InitInv, NextInv, <1>1, PTL DEF Spec
-----------------------------------------------------------------------------
(* Types *)

Locations == {"none", "key", "start", "store", "wait", "local", "done"}
Outcomes == {"clean", "failed", "unknown"}

\* TypeOK without what it says of the ledger, and the types it need not name.
Kinds ==
  /\ harness \in {"claude_code", "antigravity"}
  /\ real \in [Call -> {"none", "running", "ok", "fail"}]
  /\ written \in [Call -> {"none", "use", "ok", "fail"}]
  /\ lines \in Nat /\ place \in [Call -> 0 .. lines]
  /\ before \in [Call -> SUBSET Call]
  /\ pc \in [Call -> Locations]
  /\ outcome \in [Call -> Outcomes \union {"none"}]
  /\ \A c \in Call : outcome[c] = "none" <=> pc[c] \in {"none", "done"}
  /\ minted \in Nat
  /\ held \in [Call -> 0 .. minted] /\ keyFile \in 0 .. minted /\ session \in 0 .. minted
  /\ reached \in Nat \union {-1}
  /\ flight \subseteq Call /\ minting \subseteq Call
  /\ reply \in [Call -> {"none", "recorded", "refused"}]
  /\ log \in Seq(Entry)
  /\ restarts \in 0 .. MaxRestarts

LEMMA InitKinds == Init => Kinds
<1> SUFFICES ASSUME Init  PROVE Kinds
  OBVIOUS
<1>1. log \in Seq(Entry)  BY DEF Init
<1> QED  BY <1>1, HookAssumption DEF Init, Kinds, Locations

LEMMA MaxOfTwo ==
  ASSUME NEW a \in Int, NEW b \in Int
  PROVE  Max({a, b}) \in {a, b} /\ Max({a, b}) >= a /\ Max({a, b}) >= b
<1>1. \E x \in {a, b} : \A y \in {a, b} : x >= y
  <2>1. CASE a >= b  BY <2>1
  <2>2. CASE ~(a >= b)  BY <2>2
  <2> QED  BY <2>1, <2>2
<1> QED  BY <1>1 DEF Max

LEMMA StepIdxKind ==
  ASSUME NEW c \in Call
  PROVE  StepIdx(c) \in Nat
BY HookAssumption DEF StepIdx

\* A step of the harness.
LEMMA HarnessKinds ==
  ASSUME Kinds, NEW c \in Call, Begin(c) \/ End(c) \/ Write(c)
  PROVE  Kinds'
<1>1. CASE Begin(c)
  <2>1. before' \in [Call -> SUBSET Call]  BY <1>1 DEF Begin, Kinds
  <2> QED  BY <1>1, <2>1 DEF Begin, Kinds, transcript, daemon, requests, ledger
<1>2. CASE End(c)  BY <1>2 DEF End, Kinds, transcript, daemon, requests, ledger
<1>3. CASE Write(c)
  <2>1. written' \in [Call -> {"none", "use", "ok", "fail"}]  BY <1>3 DEF Write, Kinds
  <2>2. lines' \in Nat /\ place' \in [Call -> 0 .. lines']
    <3>1. CASE NewLine(c)
      <4>1. lines' = lines + 1 /\ place' = [place EXCEPT ![c] = lines + 1]
        BY <3>1 DEF NewLine
      <4>2. 0 .. lines \subseteq 0 .. lines' /\ lines + 1 \in 0 .. lines' /\ lines' \in Nat
        BY <4>1 DEF Kinds
      <4> QED  BY <4>1, <4>2 DEF Kinds
    <3>2. CASE UNCHANGED <<place, lines>>  BY <3>2 DEF Kinds
    <3> QED  BY <1>3, <3>1, <3>2 DEF Write
  <2> QED  BY <1>3, <2>1, <2>2 DEF Write, Kinds, daemon, requests, ledger
<1> QED  BY <1>1, <1>2, <1>3

LEMMA Decided ==
  ASSUME Kinds, NEW c \in Call, Decide(c)
  PROVE  \E what \in Outcomes : Determine(c, what)
<1>1. ASSUME NEW error, NEW x \in Outcomes  PROVE (IF error THEN "failed" ELSE x) \in Outcomes
  BY DEF Outcomes
<1>2. \A r : Named(r) \in Outcomes  BY DEF Named, Outcomes
<1>3. CASE TakeExitCode(c)  BY <1>2, <1>3 DEF TakeExitCode
<1>4. CASE PollTranscript(c)  BY <1>1, <1>2, <1>4 DEF PollTranscript
<1>5. CASE PollTimeout(c)
  <2>1. (IF Claude THEN "unknown" ELSE "clean") \in Outcomes  BY DEF Outcomes
  <2>2. PICK error \in Error(c) :
          Determine(c, IF error THEN "failed" ELSE IF Claude THEN "unknown" ELSE "clean")
    BY <1>5 DEF PollTimeout
  <2>3. (IF error THEN "failed" ELSE IF Claude THEN "unknown" ELSE "clean") \in Outcomes
    BY <1>1, <2>1
  <2> QED  BY <2>2, <2>3
<1>6. CASE NoTranscript(c)
  <2>1. "unknown" \in Outcomes  BY DEF Outcomes
  <2> QED  BY <1>1, <1>6, <2>1 DEF NoTranscript
<1> QED  BY <1>3, <1>4, <1>5, <1>6 DEF Decide

LEMMA RequestKinds ==
  ASSUME Kinds, NEW c \in Call, NEW secret \in 0 .. minted, Request(c, secret),
         pc[c] \in {"key", "start", "store"}, keyFile' \in 0 .. minted
  PROVE  Kinds'
<1>1. /\ pc' = [pc EXCEPT ![c] = "wait"]
      /\ held' \in [Call -> 0 .. minted] /\ flight' \subseteq Call
      /\ UNCHANGED <<world, outcome, daemon, reply, ledger>>
  <2>1. held \in [Call -> 0 .. minted] /\ flight \subseteq Call /\ minted \in Nat
    BY DEF Kinds
  <2>2. \/ held' = [held EXCEPT ![c] = secret]
        \/ held' = [held EXCEPT ![c] = 0]
    BY DEF Request
  <2>3. 0 \in 0 .. minted  BY <2>1
  <2>4. held' \in [Call -> 0 .. minted]  BY <2>1, <2>2, <2>3
  <2> QED  BY <2>1, <2>4 DEF Request
<1>2. /\ pc' \in [Call -> Locations]
      /\ \A d \in Call : outcome[d] = "none" <=> pc'[d] \in {"none", "done"}
  BY <1>1 DEF Kinds, Locations
<1> QED  BY <1>1, <1>2 DEF Kinds, world, transcript, daemon, ledger

LEMMA RegisterKinds ==
  ASSUME Kinds, NEW c \in Call, Register(c)
  PROVE  Kinds'
<1>1. /\ minted' = minted + 1 /\ session' = minted + 1 /\ reached' = -1
      /\ minting' \subseteq Call
      /\ UNCHANGED <<world, outcome, keyFile, restarts, flight, reply, ledger>>
  BY DEF Register, Kinds
<1>2. 0 .. minted \subseteq 0 .. minted' /\ minted' \in Nat /\ minted' \in 0 .. minted'
  BY <1>1 DEF Kinds
<1>3. /\ pc' \in [Call -> Locations]
      /\ \A d \in Call : outcome[d] = "none" <=> pc'[d] \in {"none", "done"}
      /\ held' \in [Call -> 0 .. minted']
  <2>1. CASE pc[c] = "start"
    <3>1. pc' = [pc EXCEPT ![c] = "store"] /\ held' = [held EXCEPT ![c] = minted']
      BY <1>1, <2>1 DEF Register
    <3> QED  BY <1>2, <2>1, <3>1 DEF Kinds, Locations
  <2>2. CASE pc[c] # "start"
    <3>1. pc' = pc /\ held' = held  BY <2>2 DEF Register
    <3> QED  BY <1>2, <3>1 DEF Kinds
  <2> QED  BY <2>1, <2>2
<1> QED  BY <1>1, <1>2, <1>3 DEF Kinds, world, transcript, ledger

LEMMA HandleKinds ==
  ASSUME Kinds, NEW c \in Call, NEW answer \in {"recorded", "refused"}, Handle(c, answer),
         reached' \in Nat \union {-1}, log' \in Seq(Entry)
  PROVE  Kinds'
<1>1. /\ flight' \subseteq Call /\ held' \in [Call -> 0 .. minted]
      /\ reply' \in [Call -> {"none", "recorded", "refused"}]
      /\ UNCHANGED <<world, pc, outcome, keyFile, session, minting, minted, restarts, lost>>
  BY DEF Handle, Kinds
<1> QED  BY <1>1 DEF Kinds, world, transcript

LEMMA ExitKinds ==
  ASSUME Kinds, NEW c \in Call, Exit(c), UNCHANGED <<world, keyFile, daemon, held, flight>>,
         reply' \in [Call -> {"none", "recorded", "refused"}], log' \in Seq(Entry)
  PROVE  Kinds'
<1>1. /\ pc' \in [Call -> Locations] /\ outcome' \in [Call -> Outcomes \union {"none"}]
      /\ \A d \in Call : outcome'[d] = "none" <=> pc'[d] \in {"none", "done"}
  BY DEF Exit, Kinds, Locations
<1> QED  BY <1>1 DEF Kinds, world, transcript, daemon

LEMMA HookKinds ==
  ASSUME Kinds, NEW c \in Call, HookStep(c)
  PROVE  Kinds'
<1>1. CASE Decide(c)
  <2>1. PICK what \in Outcomes : Determine(c, what)  BY <1>1, Decided
  <2>2. /\ pc' \in [Call -> Locations] /\ outcome' \in [Call -> Outcomes \union {"none"}]
        /\ \A d \in Call : outcome'[d] = "none" <=> pc'[d] \in {"none", "done"}
    BY <2>1 DEF Determine, Kinds, Locations, Outcomes
  <2> QED  BY <2>1, <2>2 DEF Determine, Kinds, world, transcript, daemon, requests, ledger
<1>2. CASE SendWithKey(c)
  BY <1>2, RequestKinds DEF SendWithKey, Kinds
<1>3. CASE AskSession(c)
  <2>1. /\ pc' \in [Call -> Locations] /\ minting' \subseteq Call
        /\ \A d \in Call : outcome[d] = "none" <=> pc'[d] \in {"none", "done"}
    BY <1>3 DEF AskSession, Kinds, Locations
  <2> QED  BY <1>3, <2>1 DEF AskSession, Kinds, world, transcript, requests, ledger
<1>4. CASE StoreKey(c)
  <2>1. held[c] \in 0 .. minted  BY DEF Kinds
  <2>2. keyFile' \in 0 .. minted  BY <1>4, <2>1 DEF StoreKey, Kinds
  <2> QED  BY <1>4, <2>1, <2>2, RequestKinds DEF StoreKey
<1>5. CASE SendWithoutKey(c)
  <2>1. 0 \in 0 .. minted  BY DEF Kinds
  <2> QED  BY <1>5, <2>1, RequestKinds DEF SendWithoutKey, Kinds
<1>6. CASE Answered(c)
  <2>1. reply' \in [Call -> {"none", "recorded", "refused"}] /\ log' \in Seq(Entry)
    BY <1>6 DEF Answered, Kinds, ledger
  <2>2. CASE reply[c] = "recorded"
    BY <1>6, <2>1, <2>2, ExitKinds DEF Answered
  <2>3. CASE reply[c] # "recorded"
    <3>1. pc' = [pc EXCEPT ![c] = "local"] /\ outcome' = outcome /\ pc[c] = "wait"
      BY <1>6, <2>3 DEF Answered
    <3>2. /\ pc' \in [Call -> Locations]
          /\ \A d \in Call : outcome[d] = "none" <=> pc'[d] \in {"none", "done"}
      BY <3>1 DEF Kinds, Locations
    <3> QED  BY <1>6, <2>1, <3>1, <3>2 DEF Answered, Kinds, world, transcript, daemon
  <2> QED  BY <2>2, <2>3
<1>7. CASE GiveUp(c)
  <2>1. /\ pc' \in [Call -> Locations] /\ reply' \in [Call -> {"none", "recorded", "refused"}]
        /\ \A d \in Call : outcome[d] = "none" <=> pc'[d] \in {"none", "done"}
    BY <1>7 DEF GiveUp, Kinds, Locations
  <2> QED  BY <1>7, <2>1 DEF GiveUp, Kinds, world, transcript, daemon, ledger
<1>8. CASE RecordLocally(c)
  <2>1. log' \in Seq(Entry)
    <3> DEFINE e == [call |-> c, by |-> "hook"]
    <3>1. e \in Entry  BY DEF Entry
    <3>2. log' = Append(log, e) \/ log' = log  BY <1>8 DEF RecordLocally
    <3> HIDE DEF e
    <3>3. log \in Seq(Entry)  BY DEF Kinds
    <3>4. Append(log, e) \in Seq(Entry)  BY <3>1, <3>3
    <3> QED  BY <3>2, <3>3, <3>4
  <2>2. reply' \in [Call -> {"none", "recorded", "refused"}]
    BY <1>8 DEF RecordLocally, Kinds, requests
  <2> QED  BY <1>8, <2>1, <2>2, ExitKinds DEF RecordLocally, requests
<1> QED  BY <1>1, <1>2, <1>3, <1>4, <1>5, <1>6, <1>7, <1>8 DEF HookStep

LEMMA NextKinds == Kinds /\ [Next]_vars => Kinds'
<1> SUFFICES ASSUME Kinds, [Next]_vars  PROVE Kinds'
  OBVIOUS
<1>1. ASSUME NEW c \in Call, Begin(c) \/ End(c) \/ Write(c)  PROVE Kinds'
  BY <1>1, HarnessKinds
<1>2. ASSUME NEW c \in Call, HookStep(c)  PROVE Kinds'
  BY <1>2, HookKinds
<1>3. ASSUME NEW c \in Call, Register(c)  PROVE Kinds'
  BY <1>3, RegisterKinds
<1>4. ASSUME NEW c \in Call, DaemonRecords(c)  PROVE Kinds'
  <2>1. reached' \in Nat \union {-1}
    <3>1. StepIdx(c) \in Nat /\ StepIdx(c) \in Int /\ reached \in Int
      BY StepIdxKind DEF Kinds
    <3>2. Max({reached, StepIdx(c)}) \in {reached, StepIdx(c)}  BY <3>1, MaxOfTwo
    <3> QED  BY <1>4, <3>1, <3>2 DEF DaemonRecords, Kinds
  <2>2. log' \in Seq(Entry)
    <3>1. [call |-> c, by |-> "daemon"] \in Entry  BY DEF Entry
    <3> QED  BY <1>4, <3>1, AppendKeeps DEF DaemonRecords, Kinds
  <2> QED  BY <1>4, <2>1, <2>2, HandleKinds DEF DaemonRecords
<1>5. ASSUME NEW c \in Call, DaemonRefuses(c)  PROVE Kinds'
  BY <1>5, HandleKinds DEF DaemonRefuses, Kinds
<1>6. CASE DaemonRestart
  <2>1. held' \in [Call -> 0 .. minted] /\ 0 \in 0 .. minted  BY <1>6 DEF DaemonRestart, Kinds
  <2>2. restarts' \in 0 .. MaxRestarts  BY <1>6, HookAssumption DEF DaemonRestart, Kinds
  <2> QED  BY <1>6, <2>1, <2>2 DEF DaemonRestart, Kinds, world, transcript, ledger
<1>7. CASE StopAllowed
  <2>1. 0 \in 0 .. minted  BY DEF Kinds
  <2> QED  BY <1>7, <2>1 DEF StopAllowed, Kinds, world, transcript, daemon, requests, ledger
<1>8. CASE UNCHANGED vars
  BY <1>8 DEF vars, Kinds, world, transcript, daemon, requests, ledger
<1> QED  BY <1>1, <1>2, <1>3, <1>4, <1>5, <1>6, <1>7, <1>8 DEF Next

-----------------------------------------------------------------------------
(* What stands in the ledger *)

\* A request has been made, and at most the answer is missing.
Late == {"wait", "local", "done"}

Stages ==
  \A c \in Call : /\ pc[c] # "none" => real[c] # "none"
                  /\ c \in flight => pc[c] \in Late

\* An entry's hook is that far; a call the daemon has recorded it is not asked
\* for any more.
Traced ==
  \A i \in DOMAIN log :
    /\ pc[log[i].call] \in Late
    /\ log[i].by = "hook" => pc[log[i].call] = "done"
    /\ log[i].by = "daemon" => log[i].call \notin flight

Unique == \A i, j \in DOMAIN log : log[i] = log[j] => i = j

TraceInv == Kinds /\ Stages /\ Traced /\ Unique

\* A hook never goes back, asks once, and nothing is asked for that ended.
Onward ==
  \A c \in Call :
    /\ pc[c] \in Late => pc'[c] \in Late
    /\ pc[c] = "done" => pc'[c] = "done"
    /\ c \in flight' => pc'[c] \in Late /\ (c \in flight \/ pc[c] \notin Late)
    /\ pc'[c] # "none" => real'[c] # "none"
    /\ real[c] # "none" => real'[c] # "none"

LEMMA HookGoesOn ==
  ASSUME TraceInv, NEW c \in Call, HookStep(c)
  PROVE  Onward
<1> USE DEF Onward, TraceInv, Kinds, Stages, Late, Locations
<1>1. CASE Decide(c)
  <2>1. PICK what : Determine(c, what)
    BY <1>1 DEF Decide, TakeExitCode, PollTranscript, PollTimeout, NoTranscript
  <2>2. real[c] # "none"  BY <2>1 DEF Determine
  <2> QED  BY <2>1, <2>2 DEF Determine, world, requests
<1>2. CASE SendWithKey(c) \/ StoreKey(c) \/ SendWithoutKey(c)
  <2>1. /\ pc[c] \in {"key", "start", "store"} /\ pc' = [pc EXCEPT ![c] = "wait"]
        /\ flight' = flight \/ flight' = flight \union {c}
        /\ real' = real
    BY <1>2 DEF SendWithKey, StoreKey, SendWithoutKey, Request, world
  <2> QED  BY <2>1
<1>3. CASE AskSession(c)  BY <1>3 DEF AskSession, world, requests
<1>4. CASE Answered(c) \/ GiveUp(c)
  <2>1. /\ pc[c] = "wait" /\ flight' = flight /\ real' = real
        /\ pc' = [pc EXCEPT ![c] = "local"] \/ pc' = [pc EXCEPT ![c] = "done"]
    BY <1>4 DEF Answered, GiveUp, Exit, world
  <2> QED  BY <2>1
<1>5. CASE RecordLocally(c)  BY <1>5 DEF RecordLocally, Exit, world, requests
<1> QED  BY <1>1, <1>2, <1>3, <1>4, <1>5 DEF HookStep

LEMMA NextGoesOn ==
  ASSUME TraceInv, [Next]_vars
  PROVE  Onward
<1> USE DEF Onward, TraceInv, Kinds, Stages, Late, Locations
<1>1. ASSUME NEW c \in Call, Begin(c) \/ End(c) \/ Write(c)  PROVE Onward
  BY <1>1 DEF Begin, End, Write, requests
<1>2. ASSUME NEW c \in Call, HookStep(c)  PROVE Onward
  BY <1>2, HookGoesOn
<1>3. ASSUME NEW c \in Call, Register(c)  PROVE Onward
  <2>1. /\ flight' = flight /\ real' = real
        /\ pc' = pc \/ (pc[c] = "start" /\ pc' = [pc EXCEPT ![c] = "store"])
    BY <1>3 DEF Register, world
  <2> QED  BY <2>1
<1>4. ASSUME NEW c \in Call, DaemonRecords(c) \/ DaemonRefuses(c)  PROVE Onward
  BY <1>4 DEF DaemonRecords, DaemonRefuses, Handle, world
<1>5. CASE DaemonRestart \/ StopAllowed \/ UNCHANGED vars
  BY <1>5 DEF DaemonRestart, StopAllowed, vars, world, requests
<1> QED  BY <1>1, <1>2, <1>3, <1>4, <1>5 DEF Next

\* The steps that write: the daemon on a request, or the hook as its last act.
Writes(e) ==
  /\ log' = Append(log, e)
  /\ \/ e.by = "daemon" /\ DaemonRecords(e.call)
     \/ e.by = "hook" /\ RecordLocally(e.call)

LEMMA LogChanges ==
  ASSUME [Next]_vars
  PROVE  log' = log \/ \E e \in Entry : Writes(e)
<1>1. ASSUME NEW c \in Call, RecordLocally(c)
      PROVE  log' = log \/ \E e \in Entry : Writes(e)
  <2> DEFINE e == [call |-> c, by |-> "hook"]
  <2>1. e \in Entry /\ e.call = c /\ e.by = "hook"  BY DEF Entry
  <2>2. log' = Append(log, e) \/ log' = log  BY <1>1 DEF RecordLocally
  <2> HIDE DEF e
  <2> QED  BY <1>1, <2>1, <2>2 DEF Writes
<1>2. ASSUME NEW c \in Call, DaemonRecords(c)
      PROVE  log' = log \/ \E e \in Entry : Writes(e)
  <2> DEFINE e == [call |-> c, by |-> "daemon"]
  <2>1. e \in Entry /\ e.call = c /\ e.by = "daemon"  BY DEF Entry
  <2>2. log' = Append(log, e)  BY <1>2 DEF DaemonRecords
  <2> HIDE DEF e
  <2> QED  BY <1>2, <2>1, <2>2 DEF Writes
<1>3. CASE UNCHANGED vars  BY <1>3 DEF vars, ledger
<1>4. ASSUME NEW c \in Call,
             \/ Begin(c) \/ End(c) \/ Write(c) \/ Register(c) \/ DaemonRefuses(c)
      PROVE  log' = log
  BY <1>4 DEF Begin, End, Write, Register, DaemonRefuses, ledger
<1>5. ASSUME NEW c \in Call, HookStep(c), ~RecordLocally(c)
      PROVE  log' = log
  BY <1>5 DEF HookStep, Decide, TakeExitCode, PollTranscript, PollTimeout, NoTranscript,
              Determine, SendWithKey, StoreKey, SendWithoutKey, Request, AskSession,
              Answered, GiveUp, ledger
<1>6. CASE DaemonRestart \/ StopAllowed  BY <1>6 DEF DaemonRestart, StopAllowed, ledger
<1> QED  BY <1>1, <1>2, <1>3, <1>4, <1>5, <1>6 DEF Next

LEMMA Appended ==
  ASSUME NEW l \in Seq(Entry), NEW e \in Entry, NEW m, m = Append(l, e)
  PROVE  /\ Len(l) \in Nat
         /\ DOMAIN l = 1 .. Len(l) /\ DOMAIN m = 1 .. Len(l) + 1
         /\ m[Len(l) + 1] = e
         /\ \A i \in DOMAIN l : m[i] = l[i]
OBVIOUS

\* The writer is done with what it writes: it cannot write it again.
LEMMA WritesOnce ==
  ASSUME TraceInv, NEW e \in Entry, Writes(e)
  PROVE  /\ e.call \in Call /\ pc'[e.call] \in Late
         /\ e.by = "hook" => pc[e.call] = "local" /\ pc'[e.call] = "done"
         /\ e.by = "daemon" => e.call \in flight /\ e.call \notin flight'
<1>1. e.call \in Call /\ e.by \in {"daemon", "hook"}  BY DEF Entry
<1>2. CASE e.by = "hook" /\ RecordLocally(e.call)
  BY <1>1, <1>2 DEF RecordLocally, Exit, TraceInv, Kinds, Late
<1>3. CASE e.by = "daemon" /\ DaemonRecords(e.call)
  BY <1>1, <1>3 DEF DaemonRecords, Handle, TraceInv, Stages
<1> QED  BY <1>2, <1>3 DEF Writes

LEMMA TraceInductive == TraceInv /\ [Next]_vars => TraceInv'
<1> SUFFICES ASSUME TraceInv, [Next]_vars  PROVE TraceInv'
  OBVIOUS
<1>1. Kinds' /\ Onward  BY NextKinds, NextGoesOn DEF TraceInv
<1>2. Stages'  BY <1>1 DEF Onward, Stages
<1>3. log \in Seq(Entry)  BY DEF TraceInv, Kinds
<1>4. \A i \in DOMAIN log : log[i].call \in Call /\ log[i].by \in {"daemon", "hook"}
  <2>1. \A i \in DOMAIN log : log[i] \in Entry  BY <1>3
  <2> QED  BY <2>1 DEF Entry
<1>5. CASE log' = log
  <2>1. Traced'  BY <1>1, <1>4, <1>5 DEF Onward, TraceInv, Traced
  <2>2. Unique'  BY <1>5 DEF TraceInv, Unique
  <2> QED  BY <1>1, <1>2, <2>1, <2>2 DEF TraceInv
<1>6. ASSUME NEW e \in Entry, Writes(e)  PROVE TraceInv'
  <2> DEFINE n == Len(log)
             m == log'
  <2>1. /\ n \in Nat /\ DOMAIN log = 1 .. n /\ DOMAIN m = 1 .. n + 1
        /\ m[n + 1] = e /\ \A i \in DOMAIN log : m[i] = log[i]
    BY <1>3, <1>6, Appended DEF Writes
  <2>2. /\ e.call \in Call /\ pc'[e.call] \in Late /\ e.by \in {"daemon", "hook"}
        /\ e.by = "hook" => pc[e.call] = "local" /\ pc'[e.call] = "done"
        /\ e.by = "daemon" => e.call \in flight /\ e.call \notin flight'
    BY <1>6, WritesOnce DEF Entry
  <2> HIDE DEF n, m
  <2>3. \A i \in DOMAIN m : i \in DOMAIN log \/ i = n + 1  BY <2>1
  <2>4. \A i \in DOMAIN log :
          /\ pc'[log[i].call] \in Late
          /\ log[i].by = "hook" => pc'[log[i].call] = "done"
          /\ log[i].by = "daemon" => log[i].call \notin flight'
    BY <1>1, <1>4 DEF Onward, TraceInv, Traced
  <2>5. Traced'
    <3>1. SUFFICES ASSUME NEW i \in DOMAIN m
                   PROVE  /\ pc'[m[i].call] \in Late
                          /\ m[i].by = "hook" => pc'[m[i].call] = "done"
                          /\ m[i].by = "daemon" => m[i].call \notin flight'
      BY DEF Traced, m
    <3>2. CASE i \in DOMAIN log  BY <2>1, <2>4, <3>2
    <3>3. CASE i = n + 1  BY <2>1, <2>2, <3>3
    <3> QED  BY <2>3, <3>2, <3>3
  <2>6. \A i \in DOMAIN log : log[i] # e
    <3>1. SUFFICES ASSUME NEW i \in DOMAIN log, log[i] = e  PROVE FALSE
      OBVIOUS
    <3>2. CASE e.by = "hook"  BY <2>2, <3>1, <3>2 DEF TraceInv, Traced
    <3>3. CASE e.by = "daemon"  BY <2>2, <3>1, <3>3 DEF TraceInv, Traced
    <3> QED  BY <2>2, <3>2, <3>3
  <2>7. Unique'
    <3>1. SUFFICES ASSUME NEW i \in DOMAIN m, NEW j \in DOMAIN m, m[i] = m[j]  PROVE i = j
      BY DEF Unique, m
    <3>2. CASE i \in DOMAIN log /\ j \in DOMAIN log
      BY <2>1, <3>1, <3>2 DEF TraceInv, Unique
    <3>3. CASE i = n + 1 /\ j \in DOMAIN log  BY <2>1, <2>6, <3>1, <3>3
    <3>4. CASE j = n + 1 /\ i \in DOMAIN log  BY <2>1, <2>6, <3>1, <3>4
    <3> QED  BY <2>3, <3>2, <3>3, <3>4
  <2> QED  BY <1>1, <1>2, <2>5, <2>7 DEF TraceInv
<1> QED  BY <1>5, <1>6, LogChanges

LEMMA TraceInitially == Init => TraceInv
<1> SUFFICES ASSUME Init  PROVE TraceInv
  OBVIOUS
<1>1. DOMAIN log = {}  BY DEF Init
<1>2. Stages /\ Traced /\ Unique  BY <1>1 DEF Init, Stages, Traced, Unique
<1> QED  BY <1>2, InitKinds DEF TraceInv

\* The hook's types, and that the ledger holds each call at most once from each
\* writer, for any calls, harness and restarts.
THEOREM TypesHold == Spec => []TypeOK
<1>1. TraceInv => TypeOK
  BY DEF TraceInv, Kinds, Unique, TypeOK, Locations, Outcomes
<1> QED  BY <1>1, TraceInitially, TraceInductive, PTL DEF Spec

-----------------------------------------------------------------------------
(* The order of the ledger *)

\* Commands begin in the order of their numbers.
Begun == \A c, d \in Call : d < c /\ real[c] # "none" => real[d] # "none"

\* What was done when a command began had left its entry before it, or lost it.
Earlier ==
  \A c \in Call : \A d \in before[c] :
    /\ d < c /\ pc[d] = "done" /\ real[c] # "none"
    /\ \/ d \in lost
       \/ \E k \in DOMAIN log : /\ log[k].call = d
                                /\ \A i \in DOMAIN log : log[i].call = c => k < i

ByDaemon(c) == \E i \in DOMAIN log : log[i].call = c /\ log[i].by = "daemon"

\* Where steps are numbered, a request left over from before a call that the
\* daemon has recorded is refused: by the call's step, or by a new session's key.
Refusable ==
  \A c \in Call : \A d \in before[c] :
    ~Claude /\ d \in flight /\ ByDaemon(c) => Forbidden(d) \/ reached >= Step[c]

OrderInv == TraceInv /\ Inv /\ Begun /\ Earlier /\ Refusable /\ InOrder

Beginning == \E c \in Call : Begin(c)

NoneBegins ==
  /\ harness' = harness /\ before' = before /\ lost \subseteq lost'
  /\ \A c \in Call : real'[c] = "none" <=> real[c] = "none"

LEMMA WorldKept ==
  ASSUME Kinds, [Next]_vars, ~Beginning
  PROVE  NoneBegins
<1>1. ASSUME NEW c \in Call, End(c) \/ Write(c)  PROVE NoneBegins
  BY <1>1 DEF End, Write, Kinds, ledger, NoneBegins
<1>2. ASSUME UNCHANGED world, lost \subseteq lost'  PROVE NoneBegins
  BY <1>2 DEF world, NoneBegins
<1>3. ASSUME NEW c \in Call, HookStep(c)  PROVE NoneBegins
  <2>1. CASE Decide(c)
    BY <1>2, <2>1
       DEF Decide, TakeExitCode, PollTranscript, PollTimeout, NoTranscript, Determine, ledger
  <2>2. CASE SendWithKey(c) \/ StoreKey(c) \/ SendWithoutKey(c)
    BY <1>2, <2>2 DEF SendWithKey, StoreKey, SendWithoutKey, Request, ledger
  <2>3. CASE AskSession(c) \/ Answered(c) \/ GiveUp(c)
    BY <1>2, <2>3 DEF AskSession, Answered, GiveUp, ledger
  <2>4. CASE RecordLocally(c)  BY <1>2, <2>4 DEF RecordLocally
  <2> QED  BY <1>3, <2>1, <2>2, <2>3, <2>4 DEF HookStep
<1>4. ASSUME NEW c \in Call, Register(c) \/ DaemonRecords(c) \/ DaemonRefuses(c)  PROVE NoneBegins
  BY <1>2, <1>4 DEF Register, DaemonRecords, DaemonRefuses, Handle, ledger
<1>5. CASE DaemonRestart \/ StopAllowed \/ UNCHANGED vars
  BY <1>2, <1>5 DEF DaemonRestart, StopAllowed, vars, ledger
<1> QED  BY <1>1, <1>3, <1>4, <1>5 DEF Next, Beginning

\* What a finished hook left with the daemon stays refused, or the step it is
\* measured against has not gone back.
StaysRefused(d) ==
  /\ Forbidden(d) => Forbidden(d)'
  /\ Forbidden(d)' \/ reached' >= reached

LEMMA RefusalKept ==
  ASSUME TraceInv, [Next]_vars, NEW d \in Call, pc[d] = "done", d \in flight'
  PROVE  StaysRefused(d)
<1>0. reached \in Int /\ reached >= reached  BY DEF TraceInv, Kinds
<1>1. ASSUME session' = session, held'[d] = held[d], reached' >= reached  PROVE StaysRefused(d)
  BY <1>1 DEF Forbidden, StaysRefused
<1>2. ASSUME session' = session, held'[d] = held[d], reached' = reached  PROVE StaysRefused(d)
  BY <1>0, <1>1, <1>2
<1>3. ASSUME NEW c \in Call, Begin(c) \/ End(c) \/ Write(c)  PROVE StaysRefused(d)
  BY <1>2, <1>3 DEF Begin, End, Write, daemon, requests
<1>4. ASSUME NEW c \in Call, HookStep(c)  PROVE StaysRefused(d)
  <2>1. CASE Decide(c)
    BY <1>2, <2>1 DEF Decide, TakeExitCode, PollTranscript, PollTimeout, NoTranscript,
                      Determine, daemon, requests
  <2>2. CASE SendWithKey(c) \/ StoreKey(c) \/ SendWithoutKey(c)
    <3>1. /\ pc[c] # "done" /\ UNCHANGED daemon
          /\ \E secret : held' = [held EXCEPT ![c] = secret]
      BY <2>2 DEF SendWithKey, StoreKey, SendWithoutKey, Request
    <3>2. held'[d] = held[d]  BY <3>1 DEF TraceInv, Kinds
    <3> QED  BY <1>2, <3>1, <3>2 DEF daemon
  <2>3. CASE AskSession(c) \/ Answered(c) \/ GiveUp(c) \/ RecordLocally(c)
    BY <1>2, <2>3 DEF AskSession, Answered, GiveUp, RecordLocally, daemon, requests
  <2> QED  BY <1>4, <2>1, <2>2, <2>3 DEF HookStep
<1>5. ASSUME NEW c \in Call, Register(c)  PROVE StaysRefused(d)
  <2>1. session' = minted + 1 /\ minted \in Nat /\ held[d] \in 0 .. minted
    BY <1>5 DEF Register, TraceInv, Kinds
  <2>2. held'[d] = held[d]
    <3>1. CASE pc[c] = "start"
      <4>1. held' = [held EXCEPT ![c] = minted + 1] /\ c # d  BY <1>5, <3>1 DEF Register
      <4> QED  BY <4>1 DEF TraceInv, Kinds
    <3>2. CASE pc[c] # "start"  BY <1>5, <3>2 DEF Register
    <3> QED  BY <3>1, <3>2
  <2>3. Forbidden(d)'  BY <2>1, <2>2 DEF Forbidden
  <2> QED  BY <2>3 DEF StaysRefused
<1>6. ASSUME NEW c \in Call, DaemonRecords(c) \/ DaemonRefuses(c)  PROVE StaysRefused(d)
  <2>1. session' = session /\ c # d /\ held' = [held EXCEPT ![c] = 0]
    BY <1>6 DEF DaemonRecords, DaemonRefuses, Handle
  <2>2. held'[d] = held[d]  BY <2>1 DEF TraceInv, Kinds
  <2>3. reached' >= reached
    <3>1. CASE DaemonRefuses(c)  BY <1>0, <3>1 DEF DaemonRefuses
    <3>2. CASE DaemonRecords(c)
      <4>1. StepIdx(c) \in Int  BY StepIdxKind
      <4>2. Max({reached, StepIdx(c)}) >= reached  BY <1>0, <4>1, MaxOfTwo
      <4> QED  BY <3>2, <4>2 DEF DaemonRecords
    <3> QED  BY <1>6, <3>1, <3>2
  <2> QED  BY <1>1, <2>1, <2>2, <2>3
<1>7. CASE DaemonRestart  BY <1>7 DEF DaemonRestart
<1>8. CASE StopAllowed \/ UNCHANGED vars
  BY <1>2, <1>8 DEF StopAllowed, vars, daemon, requests
<1> QED  BY <1>3, <1>4, <1>5, <1>6, <1>7, <1>8 DEF Next

\* A command begins: it has no entry yet, and all that is done began before it.
LEMMA BeginOrder ==
  ASSUME OrderInv, NEW c \in Call, Begin(c)
  PROVE  Begun' /\ Earlier' /\ Refusable' /\ InOrder'
<1>1. /\ real[c] = "none" /\ (c > 1 => real[c - 1] # "none")
      /\ real' = [real EXCEPT ![c] = "running"]
      /\ before' = [before EXCEPT ![c] = {d \in Call : pc[d] = "done"}]
      /\ UNCHANGED <<harness, pc, session, reached, held, flight, log, lost>>
  BY DEF Begin, daemon, requests, ledger
<1>2. /\ real \in [Call -> {"none", "running", "ok", "fail"}] /\ before \in [Call -> SUBSET Call]
      /\ log \in Seq(Entry)
  BY DEF OrderInv, TraceInv, Kinds
<1>3. Calls \in Nat /\ \A d \in Call : d \in Nat /\ d >= 1  BY HookAssumption DEF Call
<1>4. pc[c] = "none"  BY <1>1 DEF OrderInv, TraceInv, Stages
<1>5. \A i \in DOMAIN log : log[i].call # c
  BY <1>4 DEF OrderInv, TraceInv, Traced, Late
<1>6. \A d \in Call : d < c => real[d] # "none"
  <2>1. SUFFICES ASSUME NEW d \in Call, d < c  PROVE real[d] # "none"
    OBVIOUS
  <2>2. c > 1 /\ c - 1 \in Call  BY <1>3, <2>1, HookAssumption DEF Call
  <2>3. d = c - 1 \/ d < c - 1  BY <1>3, <2>1
  <2> QED  BY <1>1, <2>2, <2>3 DEF OrderInv, Begun
<1>7. Begun'  BY <1>1, <1>2, <1>6 DEF OrderInv, Begun
<1>8. \A b \in Call : b # c => before'[b] = before[b]  BY <1>1, <1>2
<1>9. before'[c] = {d \in Call : pc[d] = "done"}  BY <1>1, <1>2
<1>10. \A b \in Call : real[b] # "none" => real'[b] # "none"  BY <1>1, <1>2
<1>11. ASSUME NEW d \in before'[c]
       PROVE  /\ d \in Call /\ d < c /\ pc[d] = "done" /\ real'[c] # "none"
              /\ d \in lost \/ Recorded(d)
  <2>1. d \in Call /\ pc[d] = "done"  BY <1>9
  <2>2. real[d] # "none"  BY <2>1 DEF OrderInv, TraceInv, Stages
  <2>3. d # c /\ ~(c < d)  BY <1>1, <2>1, <2>2 DEF OrderInv, Begun
  <2>4. d < c  BY <1>3, <2>1, <2>3
  <2>5. d \in lost \/ Recorded(d)  BY <2>1 DEF OrderInv, Inv, EveryCallRecorded
  <2> QED  BY <1>1, <1>2, <2>1, <2>4, <2>5
<1>12. Earlier'
  <2>1. SUFFICES ASSUME NEW b \in Call, NEW d \in before'[b]
                 PROVE  /\ d < b /\ pc[d] = "done" /\ real'[b] # "none"
                        /\ \/ d \in lost
                           \/ \E k \in DOMAIN log :
                                /\ log[k].call = d
                                /\ \A i \in DOMAIN log : log[i].call = b => k < i
    BY <1>1 DEF Earlier
  <2>2. CASE b = c  BY <1>5, <1>11, <2>1, <2>2 DEF Recorded
  <2>3. CASE b # c  BY <1>8, <1>10, <2>1, <2>3 DEF OrderInv, Earlier
  <2> QED  BY <2>2, <2>3
<1>13. \A b \in Call : Forbidden(b)' <=> Forbidden(b)  BY <1>1 DEF Forbidden
<1>14. \A b \in Call : ByDaemon(b)' => ByDaemon(b) /\ b # c
  BY <1>1, <1>5 DEF ByDaemon
<1>15. Refusable'
  <2>1. SUFFICES ASSUME NEW b \in Call, NEW d \in before'[b],
                        ~Claude, d \in flight, ByDaemon(b)'
                 PROVE  Forbidden(d)' \/ reached >= Step[b]
    BY <1>1 DEF Refusable, Claude
  <2>2. ByDaemon(b) /\ b # c  BY <1>14, <2>1
  <2>3. d \in before[b] /\ d \in Call  BY <1>2, <1>8, <2>1, <2>2
  <2> QED  BY <1>13, <2>1, <2>2, <2>3 DEF OrderInv, Refusable
<1>16. InOrder'
  <2>1. \A i \in DOMAIN log : log[i].call \in Call /\ log[i].call # c
    <3>1. \A i \in DOMAIN log : log[i] \in Entry  BY <1>2
    <3> QED  BY <1>5, <3>1 DEF Entry
  <2>2. \A i \in DOMAIN log : before'[log[i].call] = before[log[i].call]
    BY <1>8, <2>1
  <2> QED  BY <1>1, <2>2 DEF OrderInv, InOrder, Claude
<1> QED  BY <1>7, <1>12, <1>15, <1>16

\* Any other step that writes nothing.
LEMMA QuietOrder ==
  ASSUME OrderInv, [Next]_vars, ~Beginning, log' = log
  PROVE  Begun' /\ Earlier' /\ Refusable' /\ InOrder'
<1>1. /\ harness' = harness /\ before' = before /\ lost \subseteq lost'
      /\ \A c \in Call : real'[c] = "none" <=> real[c] = "none"
  BY WorldKept DEF OrderInv, TraceInv, NoneBegins
<1>2. Onward  BY NextGoesOn DEF OrderInv
<1>3. before \in [Call -> SUBSET Call] /\ reached \in Int /\ reached' \in Int
  BY NextKinds DEF OrderInv, TraceInv, Kinds
<1>4. Begun'  BY <1>1 DEF OrderInv, Begun
<1>5. Earlier'
  <2>1. SUFFICES ASSUME NEW c \in Call, NEW d \in before[c]
                 PROVE  /\ d < c /\ pc'[d] = "done" /\ real'[c] # "none"
                        /\ \/ d \in lost'
                           \/ \E k \in DOMAIN log :
                                /\ log[k].call = d
                                /\ \A i \in DOMAIN log : log[i].call = c => k < i
    BY <1>1 DEF Earlier
  <2>2. d \in Call  BY <1>3
  <2> QED  BY <1>1, <1>2, <2>2 DEF OrderInv, Earlier, Onward
<1>6. Refusable'
  <2>1. SUFFICES ASSUME NEW c \in Call, NEW d \in before[c], ~Claude, d \in flight', ByDaemon(c)
                 PROVE  Forbidden(d)' \/ reached' >= Step[c]
    BY <1>1 DEF Refusable, ByDaemon, Claude
  <2>2. d \in Call /\ pc[d] = "done"  BY <1>3 DEF OrderInv, Earlier
  <2>3. d \in flight  BY <1>2, <2>1, <2>2 DEF Onward, Late
  <2>4. Forbidden(d) \/ reached >= Step[c]  BY <2>1, <2>3 DEF OrderInv, Refusable
  <2>5. /\ Forbidden(d) => Forbidden(d)'
        /\ Forbidden(d)' \/ reached' >= reached
    BY <2>1, <2>2, RefusalKept DEF OrderInv, StaysRefused
  <2>6. Step[c] \in Nat  BY HookAssumption
  <2> QED  BY <1>3, <2>4, <2>5, <2>6
<1>7. InOrder'  BY <1>1 DEF OrderInv, InOrder, Claude
<1> QED  BY <1>4, <1>5, <1>6, <1>7

\* An entry after one it should precede: its hook was done, so the daemon makes
\* it, on a request it had not looked at; what stands before is the hook's own.
LEMMA LateEntry ==
  ASSUME OrderInv, NEW e \in Entry, Writes(e), NEW c \in Call, e.call \in before[c],
         NEW i \in DOMAIN log, log[i].call = c
  PROVE  /\ e.by = "daemon"
         /\ \/ e.call \in lost
            \/ \E k \in DOMAIN log : k < i /\ log[k] = [call |-> e.call, by |-> "hook"]
         /\ Claude \/ log[i].by = "hook"
<1>1. /\ e.call \in Call
      /\ e.by = "hook" => pc[e.call] = "local"
      /\ e.by = "daemon" => e.call \in flight
  BY WritesOnce DEF OrderInv
<1>2. /\ e.call < c /\ pc[e.call] = "done"
      /\ \/ e.call \in lost
         \/ \E k \in DOMAIN log : /\ log[k].call = e.call
                                  /\ \A j \in DOMAIN log : log[j].call = c => k < j
  BY DEF OrderInv, Earlier
<1>3. e.by = "daemon" /\ e.call \in flight  BY <1>1, <1>2 DEF Entry
<1>4. \A k \in DOMAIN log : log[k] \in Entry  BY DEF OrderInv, TraceInv, Kinds
<1>5. ASSUME e.call \notin lost
      PROVE  \E k \in DOMAIN log : k < i /\ log[k] = [call |-> e.call, by |-> "hook"]
  <2>1. PICK k \in DOMAIN log : log[k].call = e.call /\ k < i  BY <1>2, <1>5
  <2>2. log[k].by # "daemon"  BY <1>3, <2>1 DEF OrderInv, TraceInv, Traced
  <2>3. log[k] = [call |-> e.call, by |-> "hook"]  BY <1>4, <2>1, <2>2 DEF Entry
  <2> QED  BY <2>1, <2>3
<1>6. ASSUME ~Claude, log[i].by # "hook"  PROVE FALSE
  <2>1. log[i].by = "daemon"  BY <1>4, <1>6 DEF Entry
  <2>2. ByDaemon(c)  BY <2>1 DEF ByDaemon
  <2>3. Forbidden(e.call) \/ reached >= Step[c]
    BY <1>1, <1>3, <1>6, <2>2 DEF OrderInv, Refusable
  <2>4. ~Forbidden(e.call) /\ ~OutOfOrder(e.call)
    BY <1>3 DEF Writes, DaemonRecords
  <2>5. Step[e.call] < Step[c] /\ Step[e.call] \in Nat /\ Step[c] \in Nat
    BY <1>1, <1>2, StepsGrow, HookAssumption
  <2>6. StepIdx(e.call) = Step[e.call] /\ reached \in Int
    BY <1>6 DEF StepIdx, OrderInv, TraceInv, Kinds
  <2> QED  BY <2>3, <2>4, <2>5, <2>6 DEF OutOfOrder
<1> QED  BY <1>2, <1>3, <1>5, <1>6

LEMMA WriteOrder ==
  ASSUME OrderInv, [Next]_vars, ~Beginning, NEW e \in Entry, Writes(e)
  PROVE  Begun' /\ Earlier' /\ Refusable' /\ InOrder'
<1>1. /\ harness' = harness /\ before' = before /\ lost \subseteq lost'
      /\ \A c \in Call : real'[c] = "none" <=> real[c] = "none"
  BY WorldKept DEF OrderInv, TraceInv, NoneBegins
<1>2. Onward  BY NextGoesOn DEF OrderInv
<1>3. /\ before \in [Call -> SUBSET Call] /\ reached \in Int /\ reached' \in Int
      /\ log \in Seq(Entry) /\ \A i \in DOMAIN log : log[i] \in Entry
  BY NextKinds DEF OrderInv, TraceInv, Kinds
<1> DEFINE n == Len(log)
           m == log'
<1>4. /\ n \in Nat /\ DOMAIN log = 1 .. n /\ DOMAIN m = 1 .. n + 1
      /\ m[n + 1] = e /\ \A i \in DOMAIN log : m[i] = log[i]
  BY <1>3, Appended DEF Writes
<1> HIDE DEF n, m
<1>5. \A i \in DOMAIN m : i \in DOMAIN log \/ i = n + 1  BY <1>4
<1>6. \A i \in DOMAIN log : i \in DOMAIN m /\ i < n + 1  BY <1>4
<1>7. Begun'  BY <1>1 DEF OrderInv, Begun
<1>8. Earlier'
  <2>1. SUFFICES ASSUME NEW c \in Call, NEW d \in before[c]
                 PROVE  /\ d < c /\ pc'[d] = "done" /\ real'[c] # "none"
                        /\ \/ d \in lost'
                           \/ \E k \in DOMAIN m :
                                /\ m[k].call = d
                                /\ \A i \in DOMAIN m : m[i].call = c => k < i
    BY <1>1 DEF Earlier, m
  <2>2. d \in Call  BY <1>3
  <2>3. /\ d < c /\ pc[d] = "done" /\ real[c] # "none"
        /\ \/ d \in lost
           \/ \E k \in DOMAIN log : /\ log[k].call = d
                                    /\ \A i \in DOMAIN log : log[i].call = c => k < i
    BY DEF OrderInv, Earlier
  <2>4. ASSUME NEW k \in DOMAIN log, log[k].call = d,
               \A i \in DOMAIN log : log[i].call = c => k < i
        PROVE  \E j \in DOMAIN m : /\ m[j].call = d
                                   /\ \A i \in DOMAIN m : m[i].call = c => j < i
    BY <1>4, <1>5, <1>6, <2>4
  <2> QED  BY <1>1, <1>2, <2>2, <2>3, <2>4 DEF Onward
<1>9. Refusable'
  <2>1. SUFFICES ASSUME NEW c \in Call, NEW d \in before[c],
                        ~Claude, d \in flight', ByDaemon(c)'
                 PROVE  Forbidden(d)' \/ reached' >= Step[c]
    BY <1>1 DEF Refusable, Claude
  <2>2. d \in Call /\ pc[d] = "done"  BY <1>3 DEF OrderInv, Earlier
  <2>3. Step[c] \in Nat  BY HookAssumption
  <2>4. CASE ByDaemon(c)
    <3>1. d \in flight  BY <1>2, <2>1, <2>2 DEF Onward, Late
    <3>2. Forbidden(d) \/ reached >= Step[c]  BY <2>1, <2>4, <3>1 DEF OrderInv, Refusable
    <3>3. /\ Forbidden(d) => Forbidden(d)'
          /\ Forbidden(d)' \/ reached' >= reached
      BY <2>1, <2>2, RefusalKept DEF OrderInv, StaysRefused
    <3> QED  BY <1>3, <2>3, <3>2, <3>3
  <2>5. CASE ~ByDaemon(c)
    <3>1. PICK i \in DOMAIN m : m[i].call = c /\ m[i].by = "daemon"
      BY <2>1 DEF ByDaemon, m
    <3>2. e.call = c /\ e.by = "daemon"
      BY <1>4, <1>5, <2>5, <3>1 DEF ByDaemon
    <3>3. reached' = Max({reached, StepIdx(c)})  BY <3>2 DEF Writes, DaemonRecords
    <3>4. StepIdx(c) = Step[c]  BY <2>1 DEF StepIdx
    <3>5. Max({reached, Step[c]}) >= Step[c]
      <4>1. Step[c] \in Int  BY <2>3
      <4> QED  BY <1>3, <4>1, MaxOfTwo
    <3> QED  BY <3>3, <3>4, <3>5
  <2> QED  BY <2>4, <2>5
<1>10. InOrder'
  <2>1. SUFFICES ASSUME NEW i \in DOMAIN m, NEW j \in DOMAIN m, i < j,
                        m[j].call \in before[m[i].call]
                 PROVE  /\ m[j].by = "daemon"
                        /\ \/ m[j].call \in lost'
                           \/ \E k \in 1 .. i - 1 : m[k] = [call |-> m[j].call, by |-> "hook"]
                        /\ Claude \/ m[i].by = "hook"
    BY <1>1 DEF InOrder, Claude, m
  <2>2. i \in DOMAIN log  BY <1>4, <2>1
  <2>3. m[i] = log[i] /\ log[i].call \in Call  BY <1>3, <1>4, <2>2 DEF Entry
  <2>4. i \in Int /\ \A k \in 1 .. i - 1 : k \in DOMAIN log /\ m[k] = log[k]
    BY <1>4, <2>2
  <2>5. CASE j \in DOMAIN log
    <3>1. m[j] = log[j]  BY <1>4, <2>5
    <3>2. /\ log[j].by = "daemon"
          /\ \/ log[j].call \in lost
             \/ \E k \in 1 .. i - 1 : log[k] = [call |-> log[j].call, by |-> "hook"]
          /\ Claude \/ log[i].by = "hook"
      BY <2>1, <2>2, <2>3, <2>5, <3>1 DEF OrderInv, InOrder
    <3> QED  BY <1>1, <2>3, <2>4, <3>1, <3>2
  <2>6. CASE j = n + 1
    <3>1. m[j] = e  BY <1>4, <2>6
    <3>2. /\ e.by = "daemon"
          /\ \/ e.call \in lost
             \/ \E k \in DOMAIN log : k < i /\ log[k] = [call |-> e.call, by |-> "hook"]
          /\ Claude \/ log[i].by = "hook"
      BY <2>1, <2>2, <2>3, <3>1, LateEntry
    <3>3. \A k \in DOMAIN log : k < i => k \in 1 .. i - 1  BY <1>4, <2>4
    <3> QED  BY <1>1, <2>3, <2>4, <3>1, <3>2, <3>3
  <2> QED  BY <1>5, <2>5, <2>6
<1> QED  BY <1>7, <1>8, <1>9, <1>10

LEMMA OrderInductive == OrderInv /\ [Next]_vars => OrderInv'
<1> SUFFICES ASSUME OrderInv, [Next]_vars  PROVE OrderInv'
  OBVIOUS
<1>1. TraceInv' /\ Inv'  BY TraceInductive, NextInv DEF OrderInv
<1>2. CASE Beginning  BY <1>1, <1>2, BeginOrder DEF Beginning, OrderInv
<1>3. CASE ~Beginning /\ log' = log  BY <1>1, <1>3, QuietOrder DEF OrderInv
<1>4. CASE ~Beginning /\ \E e \in Entry : Writes(e)  BY <1>1, <1>4, WriteOrder DEF OrderInv
<1> QED  BY <1>2, <1>3, <1>4, LogChanges

LEMMA OrderInitially == Init => OrderInv
<1> SUFFICES ASSUME Init  PROVE OrderInv
  OBVIOUS
<1>1. DOMAIN log = {} /\ \A c \in Call : before[c] = {} /\ real[c] = "none"
  BY DEF Init
<1>2. Begun /\ Earlier /\ Refusable /\ InOrder
  BY <1>1 DEF Begun, Earlier, Refusable, InOrder
<1> QED  BY <1>2, TraceInitially, InitInv DEF OrderInv

\* Commands that follow each other stand in the ledger in their order, but for
\* entries the daemon makes late, which the hook has made itself before, or
\* failed to; whatever the daemon loses, forgets or answers too late.
THEOREM OrderHolds == Spec => []InOrder
<1>1. OrderInv => InOrder  BY DEF OrderInv
<1> QED  BY <1>1, OrderInitially, OrderInductive, PTL DEF Spec
-----------------------------------------------------------------------------
(* Where a pass comes from *)

\* Each line of the transcript has its place.
Placed ==
  \A c, d \in Call :
    c # d /\ written[c] # "none" /\ written[d] # "none" => place[c] # place[d]

\* Antigravity's results read as their commands ended.
Truthful ==
  ~Claude => \A c \in Resolved : written[c] = real[c]

SourceInv == Kinds /\ Placed /\ Truthful

LEMMA WriteKeeps ==
  ASSUME SourceInv, NEW w \in Call, Write(w)
  PROVE  Placed' /\ Truthful'
<1>1. /\ written \in [Call -> {"none", "use", "ok", "fail"}]
      /\ lines \in Nat /\ place \in [Call -> 0 .. lines]
  BY DEF SourceInv, Kinds
<1>2. /\ real' = real /\ harness' = harness
      /\ \A d \in Call : d # w => written'[d] = written[d] /\ place'[d] = place[d]
  BY <1>1 DEF Write, NewLine
<1>3. /\ Claude' <=> Claude
      /\ ~Claude => written'[w] = real[w]
  BY <1>1, <1>2 DEF Write, Claude
<1>4. \/ written[w] # "none" /\ place' = place
      \/ written[w] = "none" /\ place'[w] = lines + 1
  BY <1>1 DEF Write, NewLine
<1>5. Truthful'  BY <1>2, <1>3 DEF SourceInv, Truthful, Resolved
<1>6. ASSUME NEW c \in Call, NEW d \in Call, c # d, written'[c] # "none", written'[d] # "none"
      PROVE  place'[c] # place'[d]
  <2>1. CASE written[w] # "none" /\ place' = place
    <3>1. written[c] # "none" /\ written[d] # "none"  BY <1>2, <1>6, <2>1
    <3> QED  BY <1>6, <2>1, <3>1 DEF SourceInv, Placed
  <2>2. CASE place'[w] = lines + 1
    <3>1. place[c] \in 0 .. lines /\ place[d] \in 0 .. lines  BY <1>1
    <3>2. lines + 1 # place[c] /\ lines + 1 # place[d]  BY <1>1, <3>1
    <3>3. CASE c # w /\ d # w
      <4>1. /\ written[c] # "none" /\ written[d] # "none"
            /\ place'[c] = place[c] /\ place'[d] = place[d]
        BY <1>2, <1>6, <3>3
      <4> QED  BY <1>6, <4>1 DEF SourceInv, Placed
    <3>4. CASE c = w  BY <1>2, <1>6, <2>2, <3>2, <3>4
    <3>5. CASE d = w  BY <1>2, <1>6, <2>2, <3>2, <3>5
    <3> QED  BY <3>3, <3>4, <3>5
  <2> QED  BY <1>4, <2>1, <2>2
<1> QED  BY <1>5, <1>6 DEF Placed

\* A command that begins, or ends, has no result of Antigravity's yet.
LEMMA HarnessKeeps ==
  ASSUME SourceInv, NEW w \in Call, Begin(w) \/ End(w)
  PROVE  Placed' /\ Truthful'
<1>1. /\ UNCHANGED <<harness, transcript>>
      /\ real[w] \notin {"ok", "fail"}
      /\ \A d \in Call : d # w => real'[d] = real[d]
  BY DEF Begin, End, SourceInv, Kinds
<1>2. UNCHANGED <<harness, written, place>>  BY <1>1 DEF transcript
<1>3. ~Claude => w \notin Resolved  BY <1>1 DEF SourceInv, Truthful, Resolved
<1>4. Truthful'
  <2>1. SUFFICES ASSUME ~Claude, NEW c \in Resolved  PROVE written[c] = real'[c]
    BY <1>2 DEF Truthful, Resolved, Claude
  <2>2. c # w /\ c \in Call  BY <1>3, <2>1 DEF Resolved
  <2> QED  BY <1>1, <2>1, <2>2 DEF SourceInv, Truthful
<1> QED  BY <1>2, <1>4 DEF SourceInv, Placed

LEMMA SourceInductive == SourceInv /\ [Next]_vars => SourceInv'
<1> SUFFICES ASSUME SourceInv, [Next]_vars  PROVE SourceInv'
  OBVIOUS
<1>1. Kinds'  BY NextKinds DEF SourceInv
<1>2. ASSUME UNCHANGED world  PROVE Placed' /\ Truthful'
  BY <1>2 DEF world, transcript, SourceInv, Placed, Truthful, Resolved, Claude
<1>3. ASSUME NEW c \in Call, HookStep(c)  PROVE UNCHANGED world
  BY <1>3 DEF HookStep, Decide, TakeExitCode, PollTranscript, PollTimeout, NoTranscript,
              Determine, SendWithKey, StoreKey, SendWithoutKey, Request, AskSession,
              Answered, GiveUp, RecordLocally
<1>4. ASSUME NEW c \in Call, Register(c) \/ DaemonRecords(c) \/ DaemonRefuses(c)
      PROVE  UNCHANGED world
  BY <1>4 DEF Register, DaemonRecords, DaemonRefuses, Handle
<1>5. CASE DaemonRestart \/ StopAllowed \/ UNCHANGED vars
  <2>1. UNCHANGED world  BY <1>5 DEF DaemonRestart, StopAllowed, vars
  <2> QED  BY <1>1, <1>2, <2>1 DEF SourceInv
<1>6. CASE \E c \in Call : Begin(c) \/ End(c) \/ Write(c)
  BY <1>1, <1>6, WriteKeeps, HarnessKeeps DEF SourceInv
<1>7. CASE \E c \in Call : HookStep(c) \/ Register(c) \/ DaemonRecords(c) \/ DaemonRefuses(c)
  BY <1>1, <1>2, <1>3, <1>4, <1>7 DEF SourceInv
<1> QED  BY <1>5, <1>6, <1>7 DEF Next

LEMMA SourceInitially == Init => SourceInv
<1> SUFFICES ASSUME Init  PROVE SourceInv
  OBVIOUS
<1>1. \A c \in Call : written[c] = "none"  BY DEF Init
<1> QED  BY <1>1, InitKinds DEF SourceInv, Placed, Truthful, Resolved

LEMMA LastIsLater ==
  ASSUME SourceInv, NEW D \in SUBSET Used, NEW c \in D, NEW d \in LastLine(D), c # d
  PROVE  place[d] > place[c]
<1>1. /\ c \in Call /\ d \in Call /\ written[c] # "none" /\ written[d] # "none"
      /\ place[c] <= place[d]
  BY DEF LastLine, Used
<1>2. place[c] # place[d]  BY <1>1 DEF SourceInv, Placed
<1>3. lines \in Nat /\ place[c] \in 0 .. lines /\ place[d] \in 0 .. lines
  BY <1>1 DEF SourceInv, Kinds
<1> QED  BY <1>1, <1>2, <1>3

\* The result that is taken for c's is its own, or one that HasSource names.
LEMMA MatchedSource ==
  ASSUME SourceInv, NEW c \in Call, NEW d \in Match(c), written[d] = "ok"
  PROVE  HasSource(c)
<1>1. Resolved \subseteq Used /\ Used \subseteq Call  BY DEF Used, Resolved
<1>2. CASE Claude
  <2> DEFINE same == {b \in Used : Text[b] = Text[c]}
             from == IF same # {} THEN same ELSE Used
  <2>1. d \in LastLine(from) /\ d \in Call
    BY <1>1, <1>2 DEF Match, MatchText
  <2>2. CASE d = c \/ written[c] = "none"  BY <1>2, <2>1, <2>2 DEF HasSource
  <2>3. CASE d # c /\ written[c] # "none"
    <3>1. c \in same  BY <2>3 DEF Used
    <3>2. from = same  BY <3>1
    <3>3. d \in LastLine(same) /\ same \in SUBSET Used  BY <2>1, <3>2
    <3>4. Text[d] = Text[c]  BY <3>3 DEF LastLine
    <3>5. place[d] > place[c]
      <4> HIDE DEF same
      <4> QED  BY <2>3, <3>1, <3>3, LastIsLater
    <3> QED  BY <1>2, <2>1, <3>4, <3>5 DEF HasSource
  <2> QED  BY <2>2, <2>3
<1>3. CASE ~Claude
  <2>1. CASE c \notin NearResults(c)  BY <1>3, <2>1 DEF HasSource
  <2>2. CASE c \in NearResults(c)
    <3>1. d \in LastLine(NearResults(c)) /\ NearResults(c) \in SUBSET Used
      BY <1>1, <1>3, <2>2 DEF Match, MatchStep, NearResults
    <3>2. d \in NearResults(c) /\ d \in Resolved  BY <3>1 DEF LastLine, NearResults
    <3>3. real[d] = "ok"  BY <1>3, <3>2 DEF SourceInv, Truthful
    <3>4. CASE d = c  BY <3>3, <3>4 DEF HasSource
    <3>5. CASE d # c
      <4>1. place[d] > place[c]  BY <2>2, <3>1, <3>5, LastIsLater
      <4> QED  BY <1>3, <3>2, <3>3, <4>1 DEF HasSource
    <3> QED  BY <3>4, <3>5
  <2> QED  BY <2>1, <2>2
<1> QED  BY <1>2, <1>3

\* Only the decision of a hook names the outcome of its command.
LEMMA CleanIsDecided ==
  ASSUME SourceInv, [Next]_vars, NEW c \in Call, outcome[c] = "none", outcome'[c] = "clean"
  PROVE  Decide(c)
<1>1. outcome \in [Call -> Outcomes \union {"none"}]  BY DEF SourceInv, Kinds
<1>2. outcome' # outcome  OBVIOUS
<1>3. ~UNCHANGED vars  BY <1>2 DEF vars
<1>4. ~DaemonRestart /\ ~StopAllowed  BY <1>2 DEF DaemonRestart, StopAllowed
<1>5. \A d \in Call : ~Begin(d) /\ ~End(d) /\ ~Write(d)  BY <1>2 DEF Begin, End, Write
<1>6. \A d \in Call : ~Register(d) /\ ~DaemonRecords(d) /\ ~DaemonRefuses(d)
  BY <1>2 DEF Register, DaemonRecords, DaemonRefuses, Handle
<1>7. PICK d \in Call : HookStep(d)  BY <1>3, <1>4, <1>5, <1>6 DEF Next
<1>8. ~SendWithKey(d) /\ ~AskSession(d) /\ ~StoreKey(d) /\ ~SendWithoutKey(d) /\ ~GiveUp(d)
  BY <1>2 DEF SendWithKey, AskSession, StoreKey, SendWithoutKey, GiveUp, Request
<1>9. ~Exit(d)  BY <1>1 DEF Exit
<1>10. ~Answered(d) /\ ~RecordLocally(d)  BY <1>2, <1>9 DEF Answered, RecordLocally
<1>11. Decide(d)  BY <1>7, <1>8, <1>10 DEF HookStep
<1>12. PICK what : Determine(d, what)
  BY <1>11 DEF Decide, TakeExitCode, PollTranscript, PollTimeout, NoTranscript
<1>13. d = c  BY <1>1, <1>12 DEF Determine
<1> QED  BY <1>11, <1>13

LEMMA CleanHasSource ==
  ASSUME SourceInv, NEW c \in Call, Decide(c), outcome'[c] = "clean"
  PROVE  HasSource(c)
<1>1. ASSUME NEW what, Determine(c, what)  PROVE what = "clean"
  BY <1>1 DEF Determine, SourceInv, Kinds
<1>2. CASE TakeExitCode(c)
  BY <1>1, <1>2 DEF TakeExitCode, Named, HasSource
<1>3. CASE PollTranscript(c)
  <2>1. PICK d \in Match(c), error \in Error(c) :
          Determine(c, IF error THEN "failed" ELSE Named(written[d]))
    BY <1>3 DEF PollTranscript
  <2>2. (IF error THEN "failed" ELSE Named(written[d])) = "clean"  BY <1>1, <2>1
  <2>3. written[d] = "ok"  BY <2>2 DEF Named
  <2> QED  BY <2>3, MatchedSource
<1>4. CASE PollTimeout(c)
  <2>1. Silent(c) /\ ~Claude
    <3>1. PICK error \in Error(c) :
            Determine(c, IF error THEN "failed" ELSE IF Claude THEN "unknown" ELSE "clean")
      BY <1>4 DEF PollTimeout
    <3>2. (IF error THEN "failed" ELSE IF Claude THEN "unknown" ELSE "clean") = "clean"
      BY <1>1, <3>1
    <3> QED  BY <1>4, <3>2 DEF PollTimeout
  <2> QED  BY <2>1 DEF Silent, HasSource
<1>5. ~NoTranscript(c)
  <2>1. SUFFICES ASSUME NEW error, Determine(c, IF error THEN "failed" ELSE "unknown")
                 PROVE  FALSE
    BY DEF NoTranscript
  <2>2. (IF error THEN "failed" ELSE "unknown") = "clean"  BY <1>1, <2>1
  <2> QED  BY <2>2
<1> QED  BY <1>2, <1>3, <1>4, <1>5 DEF Decide

\* A command is recorded as passed because it did, or for a reason that HasSource
\* names: whatever is written to the transcript when, and whatever results say.
THEOREM PassesHaveSources == Spec => PassHasSource
<1>1. SourceInv /\ [Next]_vars =>
        [\A c \in Call : (outcome[c] = "none" /\ outcome'[c] = "clean") => HasSource(c)]_outcome
  BY CleanIsDecided, CleanHasSource
<1> QED  BY <1>1, SourceInitially, SourceInductive, PTL DEF Spec, PassHasSource
=============================================================================
