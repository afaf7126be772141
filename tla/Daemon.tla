------------------------------- MODULE Daemon -------------------------------
(***************************************************************************)
(* The daemon's requests (daemon/app.py) and the memory of its one         *)
(* DaemonLedger (daemon/ledger.py): sessions, step counters, supervised    *)
(* gates and session baselines.                                            *)
(*                                                                         *)
(* FastAPI runs each request in a thread of a pool, and nothing but the    *)
(* locked part of record_entry is serialised.  A thread's calls are a      *)
(* stack: record_entry sweeps the expired gates first, the sweep calls     *)
(* record_entry for each of them, and that call sweeps again.              *)
(*                                                                         *)
(* The ledger is the log of what record_entry appended (LedgerFile looks   *)
(* at the file).  Any thread may be asked anything at any time: the hooks  *)
(* of one conversation run in parallel.  A refused X-Session-Secret        *)
(* changes nothing and is left out.  Of a gate's age only "older than      *)
(* timeout_sec" is kept.                                                   *)
(***************************************************************************)
EXTENDS Integers, Sequences

CONSTANTS
  Thread,       \* the pool
  Conv,         \* conversations, each with one workspace
  Sha,          \* commits a hook may propose as baseline
  NoSha,
  Asked,        \* the requests that are made: see Request
  MaxStep,      \* bound on the step a hook reports
  MaxRecords,   \* bound on the ledger: no new request beyond it
  MaxGates,     \* bound on gates started
  MaxSecrets,   \* bound on session secrets minted
  MaxRestarts   \* bound on restarts of the daemon

ASSUME DaemonAssumption ==
  /\ NoSha \notin Sha
  /\ Asked \subseteq {"session", "record", "gate", "verdict", "baseline"}
  /\ MaxStep \in Nat /\ MaxRecords \in Nat /\ MaxGates \in Nat
  /\ MaxSecrets \in Nat /\ MaxRestarts \in Nat

VARIABLES
  sessions,     \* sessions[c]: its secret (0: not registered), last_step_idx
  counters,     \* _step_counters[c], -1 when there is none
  gates,        \* _active_gates[c]: its gate_id (0: none), older than timeout_sec?
  baselines,    \* _session_baselines[c]
  ledger,       \* what was appended
  calls,        \* calls[t]: the stack of calls of thread t, the running one last
  secrets,      \* session secrets minted
  gateIds,      \* gate ids given out
  restarts,     \* bound: restarts of the daemon
  era,          \* history: era[c] counts the registrations c may have had
  answers,      \* history: answers[c]: the baselines reported for c
  contested     \* history: conversations two requests set a baseline for at once

memory  == <<sessions, counters, gates, baselines>>
history == <<era, answers, contested>>
vars == <<sessions, counters, gates, baselines, ledger, calls, secrets, gateIds,
          restarts, era, answers, contested>>

Kind == {"session", "tool", "open", "verdict", "baseline", "unverified"}

StepOrNone == Nat \cup {-1}

Session == [secret : Nat, last : StepOrNone]

Gate == [id : Nat, old : BOOLEAN]

\* A call: at "set" before it writes the memory it has looked at, at "sweep"
\* before it lists the expired gates, at "loop" while `todo` of the list are left.
\* History: no gate above `seen` had been opened when the list was made.
Call == [kind : Kind, conv : Conv, step : Nat, gate : Nat, sha : Sha \cup {NoSha},
         at : {"set", "sweep", "loop"}, todo : SUBSET Conv, seen : Nat]

Entry == [kind : Kind, conv : Conv, step : Nat, gate : Nat,
          sha : Sha \cup {NoSha}, era : Nat]

NoSession == [secret |-> 0, last |-> -1]

NoGate == [id |-> 0, old |-> FALSE]

NewCall(kind, c, step, gate, sha, at) ==
  [kind |-> kind, conv |-> c, step |-> step, gate |-> gate, sha |-> sha,
   at |-> at, todo |-> {}, seen |-> 0]

\* The same call, further on.
Moved(call, at, todo, seen) ==
  [kind |-> call.kind, conv |-> call.conv, step |-> call.step, gate |-> call.gate,
   sha |-> call.sha, at |-> at, todo |-> todo, seen |-> seen]

Registered(c) == sessions[c].secret # 0

Larger(a, b) == IF a >= b THEN a ELSE b

\* The last recorded step of c, of its session or else of the fallback counter.
LastStep(c) == IF Registered(c) THEN sessions[c].last ELSE counters[c]

\* Mutant: last_step_idx itself.
LastStepAgain(c) == IF Registered(c) THEN sessions[c].last ELSE 0

\* The step the daemon gives to an entry of its own.
OwnStep(c) == IF Registered(c) THEN sessions[c].last + 1 ELSE 0

Idle(t) == calls[t] = <<>>

Running(t) == calls[t][Len(calls[t])]

Beneath(t) == SubSeq(calls[t], 1, Len(calls[t]) - 1)

Begin(t, call) == calls' = [calls EXCEPT ![t] = <<call>>]

Become(t, call) == calls' = [calls EXCEPT ![t] = Append(Beneath(t), call)]

Return(t) == calls' = [calls EXCEPT ![t] = Beneath(t)]

End(t) == calls' = [calls EXCEPT ![t] = <<>>]

MayAsk(t) == Idle(t) /\ Len(ledger) < MaxRecords

-----------------------------------------------------------------------------
(* POST /v1/session/start *)

\* "already_active" changes nothing; else start_session goes on to mint.
AskSession(t, c) ==
  /\ MayAsk(t)
  /\ secrets < MaxSecrets
  /\ ~ Registered(c)
  /\ Begin(t, NewCall("session", c, 0, 0, NoSha, "set"))
  /\ UNCHANGED <<memory, ledger, secrets, gateIds, restarts, history>>

Register(t) ==
  /\ ~ Idle(t)
  /\ Running(t).kind = "session"
  /\ secrets' = secrets + 1
  /\ sessions' = [sessions EXCEPT ![Running(t).conv] =
                    [secret |-> secrets + 1, last |-> -1]]
  /\ era' = [era EXCEPT ![Running(t).conv] = @ + 1]
  /\ End(t)
  /\ UNCHANGED <<counters, gates, baselines, ledger, gateIds, restarts, answers,
                 contested>>

-----------------------------------------------------------------------------
(* POST /v1/ledger/record, /v1/gate/start, /v1/gate/verdict *)

AskRecord(t, c, step) ==
  /\ MayAsk(t)
  /\ Begin(t, NewCall("tool", c, step, 0, NoSha, "sweep"))
  /\ UNCHANGED <<memory, ledger, secrets, gateIds, restarts, history>>

AskGate(t, c) ==
  /\ MayAsk(t)
  /\ gateIds < MaxGates
  /\ Begin(t, NewCall("open", c, 0, 0, NoSha, "sweep"))
  /\ UNCHANGED <<memory, ledger, secrets, gateIds, restarts, history>>

\* Mutant: the verdict leaves the gate open.
AskVerdictOpen(t, c) ==
  /\ MayAsk(t)
  /\ Begin(t, NewCall("verdict", c, OwnStep(c), gates[c].id, NoSha, "sweep"))
  /\ UNCHANGED <<memory, ledger, secrets, gateIds, restarts, history>>

\* The gate is closed, and the step chosen, before the verdict is recorded.
AskVerdict(t, c) ==
  /\ MayAsk(t)
  /\ Begin(t, NewCall("verdict", c, OwnStep(c), gates[c].id, NoSha, "sweep"))
  /\ gates' = [gates EXCEPT ![c] = NoGate]
  /\ UNCHANGED <<sessions, counters, baselines, ledger, secrets, gateIds, restarts, history>>

-----------------------------------------------------------------------------
(* /v1/session/baseline *)

BaselineEntries(c) == {i \in DOMAIN ledger : ledger[i].kind = "baseline" /\ ledger[i].conv = c}

\* Mutant: the ledger is not searched.
BaselineInMemory(c) == baselines[c]

\* What get_session_baseline finds: the memory, or else the first entry of the
\* ledger.
KnownBaseline(c) ==
  IF baselines[c] # NoSha THEN baselines[c]
  ELSE IF BaselineEntries(c) = {} THEN NoSha
  ELSE LET i == CHOOSE i \in BaselineEntries(c) : \A j \in BaselineEntries(c) : i <= j
       IN  ledger[i].sha

Answered(c, sha) == answers' = [answers EXCEPT ![c] = @ \cup {sha}]

\* GET, or a POST that finds the baseline: it is cached in memory and returned.
FindBaseline(t, c) ==
  /\ Idle(t)
  /\ KnownBaseline(c) # NoSha
  /\ baselines' = [baselines EXCEPT ![c] = KnownBaseline(c)]
  /\ Answered(c, KnownBaseline(c))
  /\ UNCHANGED <<sessions, counters, gates, ledger, calls, secrets, gateIds, restarts,
                 era, contested>>

\* A request on its way to set a baseline for c.
SetsBaseline(t, c) ==
  \E k \in DOMAIN calls[t] : calls[t][k].kind = "baseline" /\ calls[t][k].conv = c

\* A POST that finds none goes on to set_session_baseline, whoever else does.
AskBaseline(t, c, sha) ==
  /\ MayAsk(t)
  /\ KnownBaseline(c) = NoSha
  /\ Begin(t, NewCall("baseline", c, 0, 0, sha, "set"))
  /\ contested' = IF \E u \in Thread : SetsBaseline(u, c)
                  THEN contested \cup {c} ELSE contested
  /\ UNCHANGED <<memory, ledger, secrets, gateIds, restarts, era, answers>>

\* The memory is written first and without another look, the entry follows.
SetBaseline(t) ==
  /\ ~ Idle(t)
  /\ Running(t).kind = "baseline" /\ Running(t).at = "set"
  /\ baselines' = [baselines EXCEPT ![Running(t).conv] = Running(t).sha]
  /\ Become(t, Moved(Running(t), "sweep", {}, 0))
  /\ UNCHANGED <<sessions, counters, gates, ledger, secrets, gateIds, restarts, history>>

-----------------------------------------------------------------------------
(* _sweep_expired_gates *)

\* Mutant: every gate counts as expired.
ListAll(t) ==
  /\ ~ Idle(t)
  /\ Running(t).at = "sweep"
  /\ Become(t, Moved(Running(t), "loop", {c \in Conv : gates[c].id # 0}, gateIds))
  /\ UNCHANGED <<memory, ledger, secrets, gateIds, restarts, history>>

ListExpired(t) ==
  /\ ~ Idle(t)
  /\ Running(t).at = "sweep"
  /\ Become(t, Moved(Running(t), "loop", {c \in Conv : gates[c].old}, gateIds))
  /\ UNCHANGED <<memory, ledger, secrets, gateIds, restarts, history>>

\* Mutant: a conversation whose gate has gone stays on the list.
SweepAgain(t, c) ==
  /\ ~ Idle(t)
  /\ Running(t).at = "loop"
  /\ c \in Running(t).todo
  /\ LET rest == Moved(Running(t), "loop", Running(t).todo \ {c}, Running(t).seen)
         record == NewCall("unverified", c, OwnStep(c), gates[c].id, NoSha, "sweep")
     IN  IF gates[c] = NoGate THEN UNCHANGED calls
         ELSE calls' = [calls EXCEPT ![t] = Append(Append(Beneath(t), rest), record)]
  /\ gates' = [gates EXCEPT ![c] = NoGate]
  /\ UNCHANGED <<sessions, counters, baselines, ledger, secrets, gateIds, restarts, history>>

\* The gate of the next conversation of the list is popped, whichever gate that
\* is by now, and recorded as UNVERIFIED by a record_entry that sweeps first.
Sweep(t, c) ==
  /\ ~ Idle(t)
  /\ Running(t).at = "loop"
  /\ c \in Running(t).todo
  /\ LET rest == Moved(Running(t), "loop", Running(t).todo \ {c}, Running(t).seen)
         record == NewCall("unverified", c, OwnStep(c), gates[c].id, NoSha, "sweep")
     IN  IF gates[c] = NoGate THEN Become(t, rest)
         ELSE calls' = [calls EXCEPT ![t] = Append(Append(Beneath(t), rest), record)]
  /\ gates' = [gates EXCEPT ![c] = NoGate]
  /\ UNCHANGED <<sessions, counters, baselines, ledger, secrets, gateIds, restarts, history>>

Swept(t) == ~ Idle(t) /\ Running(t).at = "loop" /\ Running(t).todo = {}

-----------------------------------------------------------------------------
(* The rest of start_gate, and of record_entry *)

\* A live gate of the conversation is overwritten.
OpenGate(t) ==
  /\ Swept(t)
  /\ Running(t).kind = "open"
  /\ gateIds' = gateIds + 1
  /\ gates' = [gates EXCEPT ![Running(t).conv] = [id |-> gateIds + 1, old |-> FALSE]]
  /\ End(t)
  /\ UNCHANGED <<sessions, counters, baselines, ledger, secrets, restarts, history>>

\* Mutant: only the steps of sessions are checked.
RefusedInSession(call) ==
  Registered(call.conv) /\ LastStep(call.conv) > 0 /\ call.step < LastStep(call.conv)

Refused(call) == LastStep(call.conv) > 0 /\ call.step < LastStep(call.conv)

Advanced(call) ==
  LET c == call.conv
      n == Larger(LastStep(c), call.step)
  IN  IF Registered(c)
      THEN /\ sessions' = [sessions EXCEPT ![c] = [secret |-> sessions[c].secret, last |-> n]]
           /\ UNCHANGED counters
      ELSE /\ counters' = [counters EXCEPT ![c] = n]
           /\ UNCHANGED sessions

\* The entry is appended, under the locks.
Commit(t) ==
  /\ Swept(t)
  /\ Running(t).kind # "open"
  /\ ~ Refused(Running(t))
  /\ LET call == Running(t) IN
       /\ Advanced(call)
       /\ ledger' = Append(ledger,
            [kind |-> call.kind, conv |-> call.conv, step |-> call.step,
             gate |-> call.gate, sha |-> call.sha, era |-> era[call.conv]])
       /\ IF call.kind = "baseline" THEN Answered(call.conv, call.sha)
          ELSE UNCHANGED answers
  /\ Return(t)
  /\ UNCHANGED <<gates, baselines, secrets, gateIds, restarts, era, contested>>

\* The ValueError: 409 for a record, 500 for a verdict or a baseline; the sweep
\* swallows it.
Refuse(t) ==
  /\ Swept(t)
  /\ Running(t).kind # "open"
  /\ Refused(Running(t))
  /\ Return(t)
  /\ UNCHANGED <<memory, ledger, secrets, gateIds, restarts, history>>

-----------------------------------------------------------------------------
(* The environment *)

\* More than timeout_sec have passed since the gate was opened.
GateExpires(c) ==
  /\ gates[c].id # 0
  /\ ~ gates[c].old
  /\ gates' = [gates EXCEPT ![c] = [id |-> gates[c].id, old |-> TRUE]]
  /\ UNCHANGED <<sessions, counters, baselines, ledger, calls, secrets, gateIds,
                 restarts, history>>

\* The daemon is killed and started again: the ledger is all that is left.
Restart ==
  /\ restarts < MaxRestarts
  /\ restarts' = restarts + 1
  /\ sessions' = [c \in Conv |-> NoSession]
  /\ counters' = [c \in Conv |-> -1]
  /\ gates' = [c \in Conv |-> NoGate]
  /\ baselines' = [c \in Conv |-> NoSha]
  /\ calls' = [t \in Thread |-> <<>>]
  /\ era' = [c \in Conv |-> era[c] + 1]
  /\ UNCHANGED <<ledger, secrets, gateIds, answers, contested>>

Init ==
  /\ sessions = [c \in Conv |-> NoSession]
  /\ counters = [c \in Conv |-> -1]
  /\ gates = [c \in Conv |-> NoGate]
  /\ baselines = [c \in Conv |-> NoSha]
  /\ ledger = <<>>
  /\ calls = [t \in Thread |-> <<>>]
  /\ secrets = 0 /\ gateIds = 0 /\ restarts = 0
  /\ era = [c \in Conv |-> 0]
  /\ answers = [c \in Conv |-> {}]
  /\ contested = {}

Request(t, c) ==
  \/ "session" \in Asked /\ AskSession(t, c)
  \/ "record" \in Asked /\ \E step \in 0 .. MaxStep : AskRecord(t, c, step)
  \/ "gate" \in Asked /\ AskGate(t, c)
  \/ "verdict" \in Asked /\ AskVerdict(t, c)
  \/ "baseline" \in Asked /\ FindBaseline(t, c)
  \/ "baseline" \in Asked /\ \E sha \in Sha : AskBaseline(t, c, sha)

Step(t) ==
  \/ Register(t) \/ SetBaseline(t) \/ ListExpired(t)
  \/ (\E c \in Conv : Sweep(t, c))
  \/ OpenGate(t) \/ Commit(t) \/ Refuse(t)

Next ==
  \/ \E t \in Thread : Step(t) \/ \E c \in Conv : Request(t, c)
  \/ \E c \in Conv : GateExpires(c)
  \/ Restart

Spec == Init /\ [][Next]_vars

\* The threads of the pool run.
FairSpec == Spec /\ \A t \in Thread : WF_vars(Step(t))
-----------------------------------------------------------------------------
(* Properties *)

TypeOK ==
  /\ sessions \in [Conv -> Session]
  /\ counters \in [Conv -> StepOrNone]
  /\ gates \in [Conv -> Gate]
  /\ baselines \in [Conv -> Sha \cup {NoSha}]
  /\ ledger \in Seq(Entry)
  /\ calls \in [Thread -> Seq(Call)]
  /\ secrets \in Nat /\ gateIds \in Nat /\ restarts \in Nat
  /\ era \in [Conv -> Nat]
  /\ answers \in [Conv -> SUBSET (Sha \cup {NoSha})]
  /\ contested \in SUBSET Conv

\* Among the entries of one registration of a conversation (from its session's
\* start, or from the daemon's, to the next) steps never go back, with requests
\* and sweeps racing: a backdated one is refused.
MonotoneSteps ==
  \A i, j \in DOMAIN ledger :
    i < j /\ ledger[i].conv = ledger[j].conv /\ ledger[i].era = ledger[j].era
      => ledger[i].step <= ledger[j].step

\* However verdicts, sweeps and nested sweeps race for a gate, it ends once: no
\* gate has two terminal entries, and none that is still active has one.
GateEndsOnce ==
  /\ \A i, j \in DOMAIN ledger :
       ledger[i].gate = ledger[j].gate /\ ledger[i].gate # 0 => i = j
  /\ \A i \in DOMAIN ledger, c \in Conv :
       ledger[i].gate # 0 => ledger[i].gate # gates[c].id

\* The daemon drops a gate that is not older than timeout_sec for its verdict, or
\* by the one race of the sweep: a thread that had listed an expired gate of the
\* conversation pops whatever gate it finds, one opened after the list was made.
\* No other step, and no other sweep, takes a fresh gate.
FreshGateKept ==
  [][\A c \in Conv :
       gates[c].id # 0 /\ ~ gates[c].old /\ gates'[c] = NoGate /\ restarts' = restarts
         => \E t \in Thread :
              \/ /\ Idle(t)
                 /\ calls'[t] # <<>>
                 /\ calls'[t][1].kind = "verdict"
                 /\ calls'[t][1].gate = gates[c].id
              \/ /\ ~ Idle(t)
                 /\ calls'[t] # calls[t]
                 /\ c \in Running(t).todo
                 /\ gates[c].id > Running(t).seen]_vars

\* "IMMUTABLE: once registered, subsequent calls return the existing baseline":
\* a conversation is never told two.
BaselineImmutable == \A c \in Conv : \A a, b \in answers[c] : a = b

\* A baseline that was recorded is the one in memory, over refusals and restarts
\* and whatever other threads do, unless two requests set one for the
\* conversation at the same time: nothing keeps the second from overwriting.
RecordedBaselineKept ==
  \A c \in Conv \ contested : \A i \in BaselineEntries(c) :
    baselines[c] \in {ledger[i].sha, NoSha}

\* Every request comes to its end, whatever the sweeps of its own and of other
\* threads find on the way.
RequestsEnd == \A t \in Thread : ~ Idle(t) ~> Idle(t)
=============================================================================
