------------------------------ MODULE StopGate ------------------------------
(***************************************************************************)
(* The stop gate (client/hardtruth_hook.py, handle_stop): whenever the     *)
(* agent wants to stop, the harness runs the hook, which checks in twelve  *)
(* phases what the session did and answers allow or halt.  Between stops   *)
(* the agent edits and runs commands.  A deadline of 45 s halts a stop     *)
(* that takes too long, and a counter file remembers the halts for the     *)
(* circuit breaker.                                                        *)
(*                                                                         *)
(* A command is the sequence of its words.  The premise is what get_premise*)
(* answers, from the daemon or from the same file on disk (Premise models  *)
(* how it is computed); Baseline models what git reports as changed.       *)
(* Whether the daemon answers a call is a choice made at every call.       *)
(*                                                                         *)
(* The hook reads results twice: after the call, for the ledger (Hook), and*)
(* in Phase 4, from the transcript.  Each is a search of free text for an  *)
(* exit code, so what either takes a result for is free here.              *)
(***************************************************************************)
EXTENDS Integers, Sequences, FiniteSets

CONSTANTS
  Harness,              \* values of HARDTRUTH_HARNESS, "other" for any third
  File, Outside,        \* source files, and those of other repositories
  Command,              \* commands the agent runs
  TestRunner, Linter,   \* first words of tests and of other verification
  SkipTier2,            \* HARDTRUTH_SKIP_TIER2
  MaxWork,              \* bound on the agent's steps
  MaxHalts              \* bound on the remediable halts in a row in one state

ASSUME StopGateAssumption ==
  /\ Harness \subseteq {"claude_code", "antigravity", "other"}
  /\ Outside \subseteq File
  /\ Command \subseteq Seq(STRING) \ {<<>>}
  /\ SkipTier2 \in BOOLEAN
  /\ MaxWork \in Nat /\ MaxHalts \in Nat

VARIABLES
  harness,     \* HARDTRUTH_HARNESS
  now,         \* the next step of the agent
  tree,        \* changed files, and the first thing wrong with it
  premise,     \* what the ledger says of the conversation
  running,     \* commands called and not returned
  pending,     \* the call that an unnamed result is taken for
  transcript,  \* the results of commands: command, steps, taken for a success
  counter,     \* halt counter file; a count of 0 where there is none
  pc,          \* the phase of the stop, "idle" between stops
  armed,       \* is the alarm set?
  seen,        \* the locals that state_hash is taken of
  source,      \* premise_source: "none", "ledger" or "empty"
  said,        \* is there a transcript, and what the agent claims at its end
  tier2,       \* what Tier 2 found: "unrun", "passed" or "nowhere"
  verdict,     \* what the daemon recorded of the last stop
  answer,      \* "none", "halt", "allow", or "breaker" for its allow
  halts        \* history: the states of the remediable halts since a reset

agent == <<harness, now, tree, premise, running, pending, transcript>>
local == <<seen, source, said, tier2>>
vars == <<agent, counter, pc, armed, local, verdict, answer, halts>>

Claude == harness = "claude_code"
-----------------------------------------------------------------------------
(* Commands *)

IsTest(c) == c[1] \in TestRunner
IsVerification(c) == c[1] \in TestRunner \union Linter

IsStart(s, t) == Len(s) <= Len(t) /\ SubSeq(t, 1, Len(s)) = s
Contains(s, t) == \E i \in 1 .. Len(s) : IsStart(t, SubSeq(s, i, Len(s)))

Names(c) == {c[i] : i \in 1 .. Len(c)}
Python == {"pytest", "unittest"}

\* can_suite_resolve_failure, of commands without filters in one directory: a
\* run of all Python tests clears whatever names a runner of theirs
Clears(c, f) ==
  \/ c = f
  \/ IsTest(c) /\ IsStart(c, f)
  \/ IsTest(c) /\ (c = <<"pytest">> \/ "unittest" \in Names(c)) /\ Names(f) \intersect Python # {}

\* the pairs that Phase 4 takes for a success and the failure it settles
Reconciles(s, f) ==
  \/ f = <<"pytest">> /\ s[1] = "pytest"
  \/ (Contains(s, <<"pytest", "tests">>) \/ s = <<"pytest">>) /\ f[1] = "pytest"
  \/ Contains(s, <<"unittest", "discover">>) /\ Contains(f, <<"unittest">>)
  \/ Contains(s, f) \/ Contains(f, s)

Highest(S, low) == IF S = {} THEN low ELSE CHOOSE n \in S : \A m \in S : m <= n
Larger(a, b) == IF a < b THEN b ELSE a
-----------------------------------------------------------------------------
(* What the gate knows before Phase 3 *)

Unseen == [src |-> 0, verifs |-> 0, tests |-> 0, lastTest |-> -1, lastSource |-> -1,
           open |-> {}, paths |-> {}, root |-> "workspace"]

\* What get_premise answers for a session without records, and default_empty
\* where nobody answers.
NoPremise == [edited |-> {}, verifs |-> 0, tests |-> 0, lastTest |-> -1,
              lastSource |-> -1, open |-> {}, tampered |-> FALSE]

NoCommand == <<>>

NoFile == [count |-> 0, same |-> 0, hash |-> Unseen]

Said == {"nothing", "transcript", "passed", "false"}
Flaw == {"none", "lineage", "stub", "weakened", "failing"}

Init ==
  /\ harness \in Harness
  /\ now = 1
  /\ tree = [changed |-> {}, flaw |-> "none"]
  /\ premise = NoPremise
  /\ running = {} /\ pending = NoCommand
  /\ transcript = {}
  /\ counter = NoFile
  /\ pc = "idle" /\ armed = FALSE
  /\ seen = Unseen /\ source = "none" /\ said = "nothing" /\ tier2 = "unrun"
  /\ verdict = "none"
  /\ answer = "none"
  /\ halts = <<>>
-----------------------------------------------------------------------------
(* The agent, between stops *)

\* Claude Code's calls carry no step: the hook records 0.
StepIdx(n) == IF Claude THEN 0 ELSE n

Idle ==
  /\ pc = "idle"
  /\ UNCHANGED <<harness, counter, pc, armed, local, verdict, answer, halts>>

\* Every call of a tool has a step of its own.
Work == Idle /\ now <= MaxWork /\ now' = now + 1

\* An edit with the harness's tools, or from the shell, which the ledger does
\* not see; git sees it in the workspace only.
Edit(f, recorded) ==
  /\ Work
  /\ \E flaw \in Flaw :
       tree' = IF f \notin Outside THEN [changed |-> tree.changed \union {f}, flaw |-> flaw]
               ELSE IF {flaw, tree.flaw} \subseteq {"none", "failing"}
               THEN [tree EXCEPT !.flaw = flaw]
               ELSE tree
  /\ premise' = IF recorded
                THEN [premise EXCEPT !.edited = @ \union {f},
                                     !.lastSource = Larger(@, StepIdx(now))]
                ELSE premise
  /\ UNCHANGED <<running, pending, transcript>>

\* Claude Code's results name their call; elsewhere a result is taken for the
\* last call made.
Call(c) ==
  /\ Work
  /\ running' = running \union {[cmd |-> c, from |-> now, task |-> NoCommand, back |-> FALSE]}
  /\ pending' = IF Claude THEN NoCommand ELSE c
  /\ UNCHANGED <<tree, premise, transcript>>

\* The ledger takes a call for a pass, or for a failure, be it only because
\* the hook found no result in time; its step is the call's.
LedgerAfter(x, clean) ==
  IF ~IsVerification(x.cmd) THEN premise
  ELSE IF clean
  THEN [premise EXCEPT !.verifs = @ + 1,
                       !.tests = IF IsTest(x.cmd) THEN @ + 1 ELSE @,
                       !.lastTest = IF IsTest(x.cmd) THEN Larger(@, StepIdx(x.from)) ELSE @,
                       !.open = {f \in @ : ~Clears(x.cmd, f)}]
  ELSE [premise EXCEPT !.open = @ \union {x.cmd}]

\* A line of the transcript with a result of c, called at x.from.  Phase 4
\* numbers it by the call in Claude Code's transcripts, elsewhere by the line
\* itself, which comes after every call made so far.
Result(c, x, ok) ==
  [cmd |-> c, from |-> x.from, line |-> IF Claude THEN x.from ELSE now - 1, ok |-> ok]

\* The call returns with its result.
Return(x, clean, ok) ==
  /\ Idle /\ x \in running /\ ~x.back
  /\ running' = running \ {x}
  /\ premise' = LedgerAfter(x, clean)
  /\ LET c == IF Claude THEN x.cmd ELSE pending IN
     transcript' = IF c = NoCommand THEN transcript
                   ELSE transcript \union {Result(c, x, ok)}
  /\ pending' = NoCommand
  /\ UNCHANGED <<now, tree>>

\* The call returns with a task that goes on in the background.
Detach(x, clean) ==
  /\ Idle /\ x \in running /\ ~x.back
  /\ \E c \in IF Claude THEN {x.cmd}
              ELSE IF pending # NoCommand THEN {pending} ELSE {x.cmd, NoCommand} :
       running' = (running \ {x}) \union {[x EXCEPT !.task = c, !.back = TRUE]}
  /\ premise' = LedgerAfter(x, clean)
  /\ pending' = NoCommand
  /\ UNCHANGED <<now, tree, transcript>>

\* The transcript tells of a background task's end.
Notify(x, ok) ==
  /\ Idle /\ x \in running /\ x.back
  /\ running' = running \ {x}
  /\ transcript' = IF x.task = NoCommand THEN transcript
                   ELSE transcript \union {Result(x.task, x, ok)}
  /\ UNCHANGED <<now, tree, premise, pending>>

\* The ledger no longer verifies.
LedgerBroken ==
  /\ Work
  /\ premise' = [premise EXCEPT !.tampered = TRUE]
  /\ UNCHANGED <<tree, running, pending, transcript>>

\* "reset halt counter: rm"
OperatorReset ==
  /\ pc = "idle" /\ counter.count > 0
  /\ counter' = NoFile /\ halts' = <<>>
  /\ UNCHANGED <<agent, pc, armed, local, verdict, answer>>

Agent ==
  \/ \E f \in File, recorded \in BOOLEAN : Edit(f, recorded)
  \/ \E c \in Command : Call(c)
  \/ \E x \in running, clean, ok \in BOOLEAN : Return(x, clean, ok)
  \/ \E x \in running, clean \in BOOLEAN : Detach(x, clean)
  \/ \E x \in running, ok \in BOOLEAN : Notify(x, ok)
  \/ LedgerBroken
  \/ OperatorReset
-----------------------------------------------------------------------------
(* Ways out of a stop *)

\* The process ends, and its locals with it.
Forget == seen' = Unseen /\ source' = "none" /\ said' = "nothing" /\ tier2' = "unrun"

\* A call to the daemon that may not arrive.
Post(v) == verdict' \in {v, verdict}

\* Mutant: a change of state does not start the count again.
SameCountKept == counter.same + 1

SameCount ==
  IF counter.count > 0 /\ counter.hash = seen THEN counter.same + 1 ELSE 1

\* fail_halt, whose alarm goes off first
Halt(remediable) ==
  /\ pc' = "idle" /\ armed' = FALSE
  /\ Post("HALT")
  /\ counter' = IF remediable
                 THEN [count |-> counter.count + 1, same |-> SameCount, hash |-> seen]
                 ELSE counter
  /\ halts' = IF remediable THEN Append(halts, seen) ELSE halts
  /\ answer' = IF SameCount > 3 /\ Claude THEN "breaker" ELSE "halt"
  /\ Forget
  /\ UNCHANGED agent

GoTo(phase) ==
  /\ pc' = phase
  /\ UNCHANGED <<agent, counter, armed, verdict, answer, halts>>

\* The deadline, wherever the handler is.
Alarm ==
  /\ armed /\ pc # "idle"
  /\ pc' = "idle" /\ armed' = FALSE
  /\ Post("TIMEOUT_HALT")
  /\ answer' = "halt"
  /\ Forget
  /\ UNCHANGED <<agent, counter, halts>>

\* An exception out of handle_stop: main halts, past the counter.
InternalError ==
  /\ pc \notin {"idle", "posting", "answering"}
  /\ pc' = "idle" /\ armed' = FALSE
  /\ answer' = "halt"
  /\ Forget
  /\ UNCHANGED <<agent, counter, verdict, halts>>
-----------------------------------------------------------------------------
(* Phases *)

\* Mutant: no alarm.
StopUnarmed ==
  /\ pc = "idle" /\ counter.same < MaxHalts
  /\ pc' = "transcript" /\ armed' = FALSE
  /\ answer' = "none" /\ verdict' = "none"
  /\ UNCHANGED <<agent, counter, local, halts>>

\* The alarm, the daemon's session of the stop, and the counter file.  The
\* agent waits for its calls before it stops, not for tasks in the background.
Stop ==
  /\ pc = "idle" /\ counter.same < MaxHalts
  /\ \A x \in running : x.back
  /\ pc' = "transcript" /\ armed' = TRUE
  /\ answer' = "none" /\ verdict' = "none"
  /\ UNCHANGED <<agent, counter, local, halts>>

\* A degraded install, no session id, or Phase 1: a transcript that cannot be
\* read or has no agent text.  Without a path there is none to read.
ReadTranscript ==
  /\ pc = "transcript"
  /\ \/ Halt(FALSE)
     \/ /\ GoTo("premise")
        /\ said' \in {"nothing", "transcript"}
        /\ UNCHANGED <<seen, source, tier2>>

\* Phase 2 and the check for tampering: the daemon or the local ledger answers,
\* or nobody does and the stop goes on without a premise (default_empty).  The
\* session key is Hook's matter.
FetchPremise ==
  /\ pc = "premise"
  /\ \/ premise.tampered /\ Halt(FALSE)
     \/ /\ GoTo("git")
        /\ source' \in IF premise.tampered THEN {"empty"} ELSE {"ledger", "empty"}
        /\ UNCHANGED <<seen, said, tier2>>

Known == IF source = "ledger" THEN premise ELSE NoPremise

\* Phase 3; git may fail or take too long.
TrackFiles ==
  /\ pc = "git"
  /\ \/ Halt(FALSE)
     \/ /\ GoTo("reconcile")
        /\ seen' = [src |-> Larger(Cardinality(Known.edited), Cardinality(tree.changed)),
                    verifs |-> Known.verifs, tests |-> Known.tests,
                    lastTest |-> Known.lastTest, lastSource |-> Known.lastSource,
                    open |-> Known.open, paths |-> {}, root |-> "workspace"]
        /\ UNCHANGED <<source, said, tier2>>

Successes == {r \in transcript : r.ok}

\* command_step_map: of every command its last success
Latest == {r \in Successes : \A s \in Successes : s.cmd = r.cmd => s.line <= r.line}

Settled == {f \in seen.open : \E r \in Latest : Reconciles(r.cmd, f)}

\* Steps that count as those of tests, where by tells which success settles a
\* failure: those that settle a test, and those of tests.
TestSteps(by) ==
  {r.line : r \in {s \in Latest : IsTest(s.cmd) \/ \E f \in Settled : IsTest(f) /\ by[f] = s}}

\* Mutant: whatever is open counts as settled.
ReconcileAll ==
  /\ pc = "reconcile"
  /\ GoTo("lineage")
  /\ seen' = [seen EXCEPT !.open = {}, !.paths = Known.edited \union tree.changed]
  /\ UNCHANGED <<source, said, tier2>>

\* Phase 4: successes in the transcript settle failures, whenever they were and
\* in no order, and count as runs; then the paths of the ledger and of git.
Reconcile ==
  /\ pc = "reconcile"
  /\ GoTo("lineage")
  /\ LET paths == Known.edited \union tree.changed IN
     IF said = "nothing" \/ seen.open = {}
     THEN seen' = [seen EXCEPT !.paths = paths]
     ELSE \E by \in [Settled -> Latest] :
            /\ \A f \in Settled : Reconciles(by[f].cmd, f)
            /\ seen' = [seen EXCEPT
                 !.paths = paths,
                 !.open = @ \ Settled,
                 !.verifs = @ + Cardinality(Settled),
                 !.tests = @ + Cardinality({f \in Settled : IsTest(f)}),
                 !.lastTest = Larger(@, Highest(TestSteps(by), -1))]
  /\ UNCHANGED <<source, said, tier2>>

\* Phase 5: rewritten history or a stash; git may fail or take too long here too.
CheckLineage ==
  /\ pc = "lineage"
  /\ \/ Halt(FALSE)
     \/ IF tree.flaw = "lineage" THEN Halt(TRUE)
        ELSE GoTo("stubs") /\ UNCHANGED local

\* Phase 6
CheckStubs ==
  /\ pc = "stubs"
  /\ IF tree.flaw = "stub" /\ seen.paths # {} THEN Halt(TRUE)
     ELSE GoTo("rules") /\ UNCHANGED local

Stale == seen.lastSource > 0 /\ seen.lastTest > 0 /\ seen.lastSource > seen.lastTest

\* Mutant: a stale test will do.
CheckRulesStale ==
  /\ pc = "rules"
  /\ IF (seen.src > 0 /\ seen.tests = 0) \/ seen.open # {}
     THEN Halt(TRUE)
     ELSE GoTo("weakening") /\ UNCHANGED local

\* Phase 7: Rules 1 and 2
CheckRules ==
  /\ pc = "rules"
  /\ IF (seen.src > 0 /\ (seen.tests = 0 \/ Stale)) \/ seen.open # {}
     THEN Halt(TRUE)
     ELSE GoTo("weakening") /\ UNCHANGED local

\* Phase 8
CheckWeakening ==
  /\ pc = "weakening"
  /\ IF tree.flaw = "weakened" /\ seen.paths # {} THEN Halt(TRUE)
     ELSE GoTo("tier2") /\ UNCHANGED local

Tier2Wanted == seen.src > 0 /\ ~SkipTier2 /\ harness # "antigravity"

SkipVerification ==
  /\ pc = "tier2" /\ ~Tier2Wanted
  /\ GoTo("prose") /\ UNCHANGED local

\* Phase 9 finds no project to verify, or one outside without its baseline.
Tier2NoTarget ==
  /\ pc = "tier2" /\ Tier2Wanted
  /\ \/ Halt(FALSE)
     \/ seen.paths \intersect Outside # {} /\ Halt(TRUE)
  
\* The hash of a halt from here on is taken with the target's root.
Targeted == [seen EXCEPT !.root = IF @ = "workspace" /\ seen.paths # {} /\ seen.paths \subseteq Outside
                                  THEN "outside" ELSE @]

\* Phase 9 hands the targets to the daemon or to the host's runner.
Tier2Handoff ==
  /\ pc = "tier2" /\ Tier2Wanted
  /\ seen' = Targeted
  /\ pc' = "tier2_answer"
  /\ UNCHANGED <<agent, counter, armed, source, said, tier2, verdict, answer, halts>>

\* Mutant: what was not run has not failed.
Tier2AnswerLax ==
  /\ pc = "tier2_answer"
  /\ \E found \in {"passed", "nowhere", "failed", "none"} :
       /\ found = "passed" => tree.flaw # "failing"
       /\ CASE found = "none" -> Halt(FALSE)
            [] OTHER -> /\ tier2' = found /\ GoTo("prose") /\ UNCHANGED <<seen, source, said>>

\* Nobody answers, the workspace is not visible, or there is a result.
Tier2Answer ==
  /\ pc = "tier2_answer"
  /\ \E found \in {"passed", "nowhere", "failed", "none"} :
       /\ found = "passed" => tree.flaw # "failing"
       /\ CASE found = "none" -> Halt(FALSE)
            [] found = "nowhere" /\ seen.paths \intersect Outside # {} -> Halt(FALSE)
            [] found = "failed" -> Halt(TRUE)
            [] OTHER -> /\ tier2' = found /\ GoTo("prose") /\ UNCHANGED <<seen, source, said>>

\* No prose at the end, so no claims to check.
AllowSilent ==
  /\ pc = "prose"
  /\ IF said = "nothing" /\ (seen.src > 0 \/ seen.verifs > 0)
     THEN Halt(FALSE)
     ELSE /\ counter' = NoFile /\ halts' = <<>>
          /\ pc' = "disarming"
          /\ UNCHANGED <<agent, armed, local, verdict, answer>>

\* Phases 10 and 11: files said to be written, tests said to have passed
CheckClaims ==
  /\ pc = "prose" /\ said = "transcript"
  /\ \E claim \in {"none", "passed", "unwritten", "false"} :
       IF claim = "unwritten" \/ (claim = "passed" /\ (seen.tests = 0 \/ Stale))
       THEN Halt(TRUE)
       ELSE IF claim = "none" THEN GoTo("allowing") /\ UNCHANGED local
       ELSE GoTo("nli") /\ said' = claim /\ UNCHANGED <<seen, source, tier2>>

\* Phase 12: the daemon judges the claims; without it, tests must have run.
JudgeClaims ==
  /\ pc = "nli"
  /\ \E reached \in BOOLEAN :
       IF reached /\ said = "false" THEN Halt(TRUE)
       ELSE IF ~reached /\ (seen.tests = 0 \/ seen.open # {}) THEN Halt(FALSE)
       ELSE GoTo("allowing") /\ UNCHANGED local

\* All phases passed: the counter file goes.
Allow ==
  /\ pc = "allowing"
  /\ counter' = NoFile /\ halts' = <<>>
  /\ pc' = "disarming"
  /\ UNCHANGED <<agent, armed, local, verdict, answer>>

\* Mutant: the alarm stays on.
DisarmLate == pc = "disarming" /\ GoTo("posting") /\ UNCHANGED local

Disarm ==
  /\ pc = "disarming"
  /\ armed' = FALSE
  /\ pc' = "posting"
  /\ UNCHANGED <<agent, counter, local, verdict, answer, halts>>

PostAllow ==
  /\ pc = "posting"
  /\ Post("ALLOW")
  /\ pc' = "answering"
  /\ UNCHANGED <<agent, counter, armed, local, answer, halts>>

Answer ==
  /\ pc = "answering"
  /\ answer' = "allow"
  /\ pc' = "idle"
  /\ Forget
  /\ UNCHANGED <<agent, counter, armed, verdict, halts>>

Phase ==
  \/ ReadTranscript \/ FetchPremise \/ TrackFiles \/ Reconcile
  \/ CheckLineage \/ CheckStubs \/ CheckRules \/ CheckWeakening
  \/ SkipVerification \/ Tier2NoTarget \/ Tier2Handoff \/ Tier2Answer
  \/ AllowSilent \/ CheckClaims \/ JudgeClaims
  \/ Allow \/ Disarm

Finish == PostAllow \/ Answer

Next == Agent \/ Stop \/ Phase \/ Finish \/ Alarm \/ InternalError

\* Phases may hang: nothing but the alarm is sure to happen until it is off.
\* What follows makes one call with a timeout of a second.
Spec == Init /\ [][Next]_vars /\ WF_vars(Alarm) /\ WF_vars(Finish)
-----------------------------------------------------------------------------
(* Properties *)

Phases ==
  {"idle", "transcript", "premise", "git", "reconcile", "lineage", "stubs", "rules",
   "weakening", "tier2", "tier2_answer", "prose", "nli", "allowing",
   "disarming", "posting", "answering"}

\* Step 0 is Claude Code's, -1 none.
Steps == Nat \union {-1}

\* Counts and steps; the alarm is on exactly until the answer is settled, and
\* nothing of a stop outlives it but its counter and its answer.
TypeOK ==
  /\ harness \in Harness
  /\ now \in 1 .. MaxWork + 1
  /\ tree \in [changed : SUBSET (File \ Outside), flaw : Flaw]
  /\ premise \in [edited : SUBSET File, verifs : Nat, tests : Nat, lastTest : Steps,
                  lastSource : Steps, open : SUBSET Command, tampered : BOOLEAN]
  /\ running \subseteq [cmd : Command, from : 1 .. now - 1,
                        task : Command \union {NoCommand}, back : BOOLEAN]
  /\ pending \in Command \union {NoCommand}
  /\ transcript \subseteq [cmd : Command, from : 1 .. now - 1, line : 1 .. now - 1, ok : BOOLEAN]
  /\ pc \in Phases
  /\ armed <=> pc \notin {"idle", "posting", "answering"}
  /\ pc = "idle" => seen = Unseen /\ source = "none" /\ tier2 = "unrun"
  /\ pc # "idle" => \A x \in running : x.back
  /\ seen.open \subseteq premise.open /\ seen.paths \subseteq File
  /\ source \in {"none", "ledger", "empty"}
  /\ said \in Said /\ tier2 \in {"unrun", "passed", "nowhere"}
  /\ verdict \in {"none", "HALT", "ALLOW", "TIMEOUT_HALT"}
  /\ answer \in {"none", "halt", "allow", "breaker"}
  /\ counter.same \in 0 .. MaxHalts

Passed == pc \in {"allowing", "disarming", "posting", "answering"}

\* a success that Phase 4 takes for a run of tests
Proof(r) ==
  /\ r.ok
  /\ \/ IsTest(r.cmd)
     \/ \E f \in premise.open : IsTest(f) /\ Reconciles(r.cmd, f)

\* Rule 1 (README.md:98): where sources changed, the phases are passed only
\* with a premise, and by a test that the ledger took for a pass, under a
\* harness that numbers its steps one called at or after the last recorded
\* edit; or, where a failure is open, by a success of the transcript that
\* counts as a test and whose line comes at or after that edit.  Its run may
\* have begun before the edit: Phase 4 knows the line of the result only.
\* Claude Code's edits all carry step 0: there the order is not looked at.
ProvenAfterEdit ==
  (Passed /\ seen.src > 0) =>
    /\ source = "ledger"
    /\ \/ premise.tests > 0 /\ (~Claude => premise.lastTest >= premise.lastSource)
       \/ /\ premise.open # {}
          /\ \E r \in transcript : Proof(r) /\ (~Claude => r.line >= premise.lastSource)

\* Rule 2 (README.md:99): the phases are passed only if every open failure of
\* the ledger has a success in the transcript that Phase 4 takes for its own,
\* or nobody answered for the ledger.  Then the failures are not known, and the
\* stop passes only where no change is seen in the workspace.
FailuresSettled ==
  Passed => IF source = "empty" THEN tree.changed = {}
            ELSE \A f \in premise.open : \E r \in Successes : Reconciles(r.cmd, f)

\* Tier 2 (Phase 9): except under Antigravity changed sources pass only if
\* their tests passed in a clean environment, or nobody could see the workspace.
Tier2Decides ==
  (Passed /\ seen.src > 0 /\ harness # "antigravity" /\ ~SkipTier2) =>
    \/ tier2 = "passed" /\ tree.flaw # "failing"
    \/ tier2 = "nowhere" /\ seen.paths \intersect Outside = {}

Same(n) == \A i \in (Len(halts) - n + 1) .. Len(halts) : halts[i] = halts[Len(halts)]

\* The counter file counts the remediable halts since it was last removed, and
\* those at the end that were taken in one and the same state, whatever stops
\* timed out, failed or could not be judged in between (record_halt).
CounterExact ==
  /\ counter.count = Len(halts)
  /\ halts # <<>> => /\ counter.hash = halts[Len(halts)]
                     /\ counter.same \in 1 .. Len(halts)
                     /\ Same(counter.same)
                     /\ counter.same < Len(halts) => ~Same(counter.same + 1)

\* The circuit breaker lets a stop through only under Claude Code and only
\* when three remediable halts before it found the very state it is in.
BreakerStuck ==
  [][(answer' = "breaker" /\ answer # "breaker") =>
       /\ Claude /\ Len(halts) >= 3
       /\ \A i \in (Len(halts) - 2) .. Len(halts) : halts[i] = seen]_vars

\* A stop that the daemon recorded as allowed is answered so: the deadline
\* cannot halt it any more (_disarm_alarm before the verdict).
AllowedAnswered == verdict = "ALLOW" => (pc = "answering" \/ answer = "allow")

\* Every stop is answered, even if every phase may hang (the deadline belt).
StopAnswered == pc # "idle" ~> pc = "idle"

\* "A failure is cleared if and only if a subsequent run of that test command
\* (or an encompassing test suite) exits with code 0" (README.md:119), of the
\* stops that pass every phase with the ledger's premise.
FailureNeedsRerun ==
  (Passed /\ source = "ledger") =>
    \A f \in transcript : (~f.ok /\ f.cmd \in premise.open) =>
      \E r \in Successes : r.from > f.from /\ Clears(r.cmd, f.cmd)
=============================================================================
