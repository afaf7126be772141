-------------------------------- MODULE Hook --------------------------------
(***************************************************************************)
(* The hook that records tool calls (client/hardtruth_hook.py,             *)
(* handle_post_tool_use), for the commands of one conversation.  After     *)
(* each command the harness starts a hook process.  It finds out how the   *)
(* command ended, from the payload or from a transcript that the harness   *)
(* writes at its own pace, gets the session's key, and records the outcome *)
(* with the daemon or, failing that, in the ledger file itself.  Parallel  *)
(* commands have parallel hooks, the daemon may answer late or restart,    *)
(* and what it was asked it may still do after the hook gave it up.        *)
(*                                                                         *)
(* The daemon and the hook append to one ledger file, the default          *)
(* installation; LedgerLock and LedgerFile look at the append itself, and  *)
(* Daemon at the daemon's threads.  Commands are started in the order of   *)
(* their numbers.                                                          *)
(***************************************************************************)
EXTENDS Integers, Sequences, FiniteSetsExt

CONSTANTS
  Calls,        \* number of commands
  Text,         \* Text[c]: the command line
  Step,         \* Step[c]: the step the harness reports, 0 under Claude Code
  ResultStep,   \* ResultStep[c]: the step of its result in the transcript
  Background,   \* commands whose hook runs before they end
  MaxRestarts   \* bound on restarts of the daemon

Call == 1 .. Calls

ASSUME HookAssumption ==
  /\ Calls \in Nat /\ MaxRestarts \in Nat
  /\ Step \in [Call -> Nat] /\ ResultStep \in [Call -> Nat]
  /\ Background \subseteq Call

\* A harness with steps numbers its calls in their order: the daemon takes any
\* other order for one that was tampered with.
ASSUME StepsGrow == \A c, d \in Call : c < d => Step[c] < Step[d]

VARIABLES
  harness,     \* "claude_code" or "antigravity"
  real,        \* real[c]: "none", "running", "ok" or "fail"
  written,     \* written[c]: what the transcript has of it: "none", its "use", or
               \* a result that reads as "ok" or "fail"
  place,       \* place[c]: where in the transcript its use stands (Claude Code) or its
               \* result (Antigravity), which the readers go by
  lines,       \* such lines in the transcript
  before,      \* history: before[c]: calls with a finished hook when c began
  pc,          \* pc[c]: where the hook of c is
  outcome,     \* outcome[c]: what the hook of c takes its end to be, while it runs
  held,        \* held[c]: the session secret it got or sent, 0 for none
  keyFile,     \* the secret in the session's key file, 0 for none
  session,     \* the daemon's secret for the session, 0 for none
  minting,     \* calls for which the daemon found no session and starts one
  minted,      \* secrets minted
  reached,     \* last_step_idx of the session, or of the step counters
  flight,      \* records the daemon was asked for and has not looked at
  reply,       \* reply[c]: the daemon's answer to a hook that waits for it, or "none"
  log,         \* the ledger: the call and who appended it
  lost,        \* calls whose local record failed
  restarts     \* bound

transcript == <<written, place, lines>>
world == <<harness, real, transcript, before>>
daemon == <<session, minting, minted, reached, restarts>>
requests == <<held, flight, reply>>
ledger == <<log, lost>>
vars == <<world, pc, outcome, keyFile, daemon, requests, ledger>>

Claude == harness = "claude_code"

Init ==
  /\ harness \in {"claude_code", "antigravity"}
  /\ real = [c \in Call |-> "none"]
  /\ written = [c \in Call |-> "none"] /\ place = [c \in Call |-> 0] /\ lines = 0
  /\ before = [c \in Call |-> {}]
  /\ pc = [c \in Call |-> "none"]
  /\ outcome = [c \in Call |-> "none"]
  /\ held = [c \in Call |-> 0]
  /\ keyFile = 0 /\ session = 0 /\ minting = {} /\ minted = 0 /\ reached = -1
  /\ flight = {} /\ reply = [c \in Call |-> "none"]
  /\ log = <<>> /\ lost = {}
  /\ restarts = 0
-----------------------------------------------------------------------------
(* The harness *)

StepIdx(c) == IF Claude THEN 0 ELSE Step[c]

Begin(c) ==
  /\ real[c] = "none" /\ (c > 1 => real[c - 1] # "none")
  /\ real' = [real EXCEPT ![c] = "running"]
  /\ before' = [before EXCEPT ![c] = {d \in Call : pc[d] = "done"}]
  /\ UNCHANGED <<harness, transcript, pc, outcome, keyFile, daemon, requests, ledger>>

End(c) ==
  /\ real[c] = "running"
  /\ \E r \in {"ok", "fail"} : real' = [real EXCEPT ![c] = r]
  /\ UNCHANGED <<harness, transcript, before, pc, outcome, keyFile, daemon, requests, ledger>>

NewLine(c) == lines' = lines + 1 /\ place' = [place EXCEPT ![c] = lines + 1]

\* The harness writes the use of a call, then its result, neither in step with
\* the hooks nor in the order of the calls; Antigravity's results need no use and
\* begin with the exit code.  Claude Code's reads as the first exit code named
\* anywhere in its text, or else as is_error: as anything, even before a command
\* in the background has ended.  Lines that no hook will read are left out.
Write(c) ==
  /\ \E d \in Call : pc[d] = "none"
  /\ \/ /\ Claude /\ written[c] = "none" /\ real[c] # "none"
        /\ written' = [written EXCEPT ![c] = "use"] /\ NewLine(c)
     \/ /\ Claude /\ written[c] = "use"
        /\ real[c] \in {"ok", "fail"} \/ c \in Background
        /\ \E r \in {"ok", "fail"} : written' = [written EXCEPT ![c] = r]
        /\ UNCHANGED <<place, lines>>
     \/ /\ ~Claude /\ written[c] = "none" /\ real[c] \in {"ok", "fail"}
        /\ written' = [written EXCEPT ![c] = real[c]] /\ NewLine(c)
  /\ UNCHANGED <<harness, real, before, pc, outcome, keyFile, daemon, requests, ledger>>
-----------------------------------------------------------------------------
(* How the command ended *)

Used == {d \in Call : written[d] # "none"}
Resolved == {d \in Call : written[d] \in {"ok", "fail"}}
LastLine(D) == {d \in D : \A b \in D : place[b] <= place[d]}

Near(c, d) == ResultStep[d] \in (Step[c] - 1) .. (Step[c] + 2)

NearResults(c) == {d \in Resolved : Near(c, d)}

\* poll_transcript_for_step: the last result near the step in the file, or else
\* the last of all if it is no older.
MatchStep(c) ==
  IF NearResults(c) # {} THEN LastLine(NearResults(c))
  ELSE {d \in LastLine(Resolved) : ResultStep[d] >= Step[c] - 1}

\* Mutant: the last result, whatever its text.
MatchLast(c) == LastLine(Resolved)

\* poll_claude_code_transcript_for_command: the last use of the same text in the
\* file, or else the last use; without its result there is nothing to go by.
MatchText(c) ==
  LET same == {d \in Used : Text[d] = Text[c]}
  IN  LastLine(IF same # {} THEN same ELSE Used) \intersect Resolved

Match(c) == IF Claude THEN MatchText(c) ELSE MatchStep(c)

\* The hook runs when its command ended, or at once for one in the background.
Determine(c, what) ==
  /\ pc[c] = "none"
  /\ real[c] \in {"ok", "fail"} \/ (real[c] = "running" /\ c \in Background)
  /\ pc' = [pc EXCEPT ![c] = "key"]
  /\ outcome' = [outcome EXCEPT ![c] = what]
  /\ UNCHANGED <<world, keyFile, daemon, requests, ledger>>

Named(r) == IF r = "ok" THEN "clean" ELSE "failed"

\* The payload carries the exit code.
TakeExitCode(c) == real[c] \in {"ok", "fail"} /\ Determine(c, Named(real[c]))

\* The payload of a command that failed may carry an error, which is recorded
\* with whatever else the hook finds and makes the entry a failure.
Error(c) == IF real[c] = "fail" THEN BOOLEAN ELSE {FALSE}

PollTranscript(c) ==
  \E d \in Match(c), error \in Error(c) :
    Determine(c, IF error THEN "failed" ELSE Named(written[d]))

\* Without a result near the step Antigravity's last line may be another tool's.
Silent(c) == IF Claude THEN Match(c) = {} ELSE NearResults(c) = {}

\* 1.5 s without a match: the error of the payload; without one Antigravity's
\* command is taken to have passed.
PollTimeout(c) ==
  /\ Silent(c)
  /\ \E error \in Error(c) :
       Determine(c, IF error THEN "failed" ELSE IF Claude THEN "unknown" ELSE "clean")

\* No transcript: only an error says anything.
NoTranscript(c) ==
  \E error \in Error(c) : Determine(c, IF error THEN "failed" ELSE "unknown")

Decide(c) == TakeExitCode(c) \/ PollTranscript(c) \/ PollTimeout(c) \/ NoTranscript(c)
-----------------------------------------------------------------------------
(* The session's key, and the request that carries it *)

\* The daemon may never get it.
Request(c, secret) ==
  /\ pc' = [pc EXCEPT ![c] = "wait"]
  /\ \/ held' = [held EXCEPT ![c] = secret] /\ flight' = flight \union {c}
     \/ held' = [held EXCEPT ![c] = 0] /\ UNCHANGED flight
  /\ UNCHANGED <<world, outcome, daemon, reply, ledger>>

SendWithKey(c) ==
  /\ pc[c] = "key" /\ keyFile # 0
  /\ Request(c, keyFile)
  /\ UNCHANGED keyFile

\* The daemon looks for the session and registers it without a lock: another
\* call may register one between.
AskSession(c) ==
  /\ pc[c] = "key" /\ keyFile = 0 /\ session = 0
  /\ pc' = [pc EXCEPT ![c] = "start"]
  /\ minting' = minting \union {c}
  /\ UNCHANGED <<world, outcome, keyFile, session, minted, reached, restarts, requests,
                 ledger>>

\* A session has steps of its own.
Register(c) ==
  /\ c \in minting
  /\ minting' = minting \ {c}
  /\ session' = minted + 1 /\ minted' = minted + 1 /\ reached' = -1
  /\ IF pc[c] = "start"
     THEN /\ pc' = [pc EXCEPT ![c] = "store"]
          /\ held' = [held EXCEPT ![c] = minted + 1]
     ELSE UNCHANGED <<pc, held>>
  /\ UNCHANGED <<world, outcome, keyFile, restarts, flight, reply, ledger>>

\* A key file is made read-only: a second one is not written, but by root.
StoreKey(c) ==
  /\ pc[c] = "store"
  /\ keyFile' \in (IF keyFile = 0 THEN {} ELSE {keyFile}) \union {held[c]}
  /\ Request(c, held[c])

\* No answer in 2 s, or the session is "already_active": no secret.
SendWithoutKey(c) ==
  /\ \/ pc[c] = "start"
     \/ pc[c] = "key" /\ keyFile = 0
  /\ Request(c, 0)
  /\ UNCHANGED keyFile
-----------------------------------------------------------------------------
(* Recording *)

Forbidden(c) == session # 0 /\ held[c] # session

\* Mutant: no check of the step.
AnyOrder(c) == FALSE

OutOfOrder(c) == reached > 0 /\ StepIdx(c) < reached

\* Mutant: a request that was handled is handled again.
HandleTwice(c, answer) ==
  /\ c \in flight
  /\ reply' = IF pc[c] = "wait" THEN [reply EXCEPT ![c] = answer] ELSE reply
  /\ UNCHANGED <<world, pc, outcome, keyFile, session, minting, minted, restarts, held,
                 flight, lost>>

Handle(c, answer) ==
  /\ c \in flight
  /\ flight' = flight \ {c}
  /\ reply' = IF pc[c] = "wait" THEN [reply EXCEPT ![c] = answer] ELSE reply
  /\ held' = [held EXCEPT ![c] = 0]
  /\ UNCHANGED <<world, pc, outcome, keyFile, session, minting, minted, restarts, lost>>

DaemonRefuses(c) ==
  /\ Forbidden(c) \/ OutOfOrder(c)
  /\ Handle(c, "refused")
  /\ UNCHANGED <<reached, log>>

\* Mutant: the daemon answers before it has appended.
DaemonPromises(c) ==
  /\ ~Forbidden(c) /\ ~OutOfOrder(c)
  /\ Handle(c, "recorded")
  /\ UNCHANGED <<reached, log>>

DaemonRecords(c) ==
  /\ ~Forbidden(c) /\ ~OutOfOrder(c)
  /\ Handle(c, "recorded")
  /\ reached' = Max({reached, StepIdx(c)})
  /\ log' = Append(log, [call |-> c, by |-> "daemon"])

\* The process of the hook ends.
Exit(c) ==
  /\ pc' = [pc EXCEPT ![c] = "done"]
  /\ outcome' = [outcome EXCEPT ![c] = "none"]

Answered(c) ==
  /\ pc[c] = "wait" /\ reply[c] # "none"
  /\ reply' = [reply EXCEPT ![c] = "none"]
  /\ IF reply[c] = "recorded" THEN Exit(c)
     ELSE pc' = [pc EXCEPT ![c] = "local"] /\ UNCHANGED outcome
  /\ UNCHANGED <<world, keyFile, daemon, held, flight, ledger>>

\* Mutant: the hook leaves it to the daemon.
GiveUpTrusting(c) ==
  /\ pc[c] = "wait"
  /\ reply' = [reply EXCEPT ![c] = "none"]
  /\ Exit(c)
  /\ UNCHANGED <<world, keyFile, daemon, held, flight, ledger>>

\* 2 s without an answer; what the daemon was asked it may still do.
GiveUp(c) ==
  /\ pc[c] = "wait"
  /\ pc' = [pc EXCEPT ![c] = "local"]
  /\ reply' = [reply EXCEPT ![c] = "none"]
  /\ UNCHANGED <<world, outcome, keyFile, daemon, held, flight, ledger>>

\* A ledger object of its own, without sessions and steps; its errors are
\* swallowed.
RecordLocally(c) ==
  /\ pc[c] = "local"
  /\ Exit(c)
  /\ \/ log' = Append(log, [call |-> c, by |-> "hook"]) /\ UNCHANGED lost
     \/ lost' = lost \union {c} /\ UNCHANGED log
  /\ UNCHANGED <<world, keyFile, daemon, requests>>
-----------------------------------------------------------------------------
(* The rest *)

\* A restart forgets sessions, steps and requests.
DaemonRestart ==
  /\ restarts < MaxRestarts
  /\ restarts' = restarts + 1
  /\ session' = 0 /\ minting' = {} /\ reached' = -1 /\ flight' = {}
  /\ held' = [c \in Call |-> IF c \in flight THEN 0 ELSE held[c]]
  /\ UNCHANGED <<world, pc, outcome, keyFile, minted, reply, ledger>>

\* The stop gate passes every phase and removes the key file (StopGate).
StopAllowed ==
  /\ keyFile # 0
  /\ \A c \in Call : real[c] # "none" => pc[c] = "done"
  /\ keyFile' = 0
  /\ UNCHANGED <<world, pc, outcome, daemon, requests, ledger>>

HookStep(c) ==
  \/ Decide(c)
  \/ SendWithKey(c) \/ AskSession(c) \/ StoreKey(c) \/ SendWithoutKey(c)
  \/ Answered(c) \/ GiveUp(c) \/ RecordLocally(c)

Next ==
  \/ \E c \in Call :
       \/ Begin(c) \/ End(c) \/ Write(c)
       \/ HookStep(c)
       \/ Register(c) \/ DaemonRecords(c) \/ DaemonRefuses(c)
  \/ DaemonRestart
  \/ StopAllowed

Spec == Init /\ [][Next]_vars
-----------------------------------------------------------------------------
(* Properties *)

\* Each variable has its values, hooks run for commands that began, and the
\* ledger holds each call at most once from each writer.
TypeOK ==
  /\ harness \in {"claude_code", "antigravity"}
  /\ real \in [Call -> {"none", "running", "ok", "fail"}]
  /\ written \in [Call -> {"none", "use", "ok", "fail"}]
  /\ lines \in Nat /\ place \in [Call -> 0 .. lines]
  /\ pc \in [Call -> {"none", "key", "start", "store", "wait", "local", "done"}]
  /\ outcome \in [Call -> {"none", "clean", "failed", "unknown"}]
  /\ \A c \in Call : outcome[c] = "none" <=> pc[c] \in {"none", "done"}
  /\ held \in [Call -> 0 .. minted] /\ keyFile \in 0 .. minted /\ session \in 0 .. minted
  /\ reached \in Nat \union {-1}
  /\ flight \subseteq Call /\ minting \subseteq Call
  /\ reply \in [Call -> {"none", "recorded", "refused"}]
  /\ \A i, j \in DOMAIN log : log[i] = log[j] => i = j
  /\ restarts \in 0 .. MaxRestarts

Recorded(c) == \E i \in DOMAIN log : log[i].call = c

\* A hook that is done has left its call in the ledger, by the daemon or by
\* itself, whatever the daemon refused, lost or forgot, and whichever keys two
\* hooks got; except where its own append failed, which it does not report.
EveryCallRecorded == \A c \in Call : pc[c] = "done" => Recorded(c) \/ c \in lost

\* Commands that follow each other stand in the ledger in their order.  An entry
\* out of order is one that the daemon made after the hook gave it up and
\* recorded the call itself, or failed to; where the calls carry steps, the
\* daemon refuses it once it has recorded the later call itself.
InOrder ==
  \A i, j \in DOMAIN log :
    i < j /\ log[j].call \in before[log[i].call] =>
      /\ log[j].by = "daemon"
      /\ \/ log[j].call \in lost
         \/ \E k \in 1 .. i - 1 : log[k] = [call |-> log[j].call, by |-> "hook"]
      /\ Claude \/ log[i].by = "hook"

\* What can make the hook of c take it for passed.
HasSource(c) ==
  \/ real[c] = "ok"
  \/ /\ Claude
     /\ \E d \in Call :
          /\ written[d] = "ok"
          /\ d = c \/ written[c] = "none" \/ (Text[d] = Text[c] /\ place[d] > place[c])
  \/ /\ ~Claude
     /\ c \in NearResults(c) =>
          \E d \in NearResults(c) : real[d] = "ok" /\ place[d] > place[c]

\* A command is recorded as passed because it did, or because of what the
\* transcript has.  Under Claude Code that is a result that reads as a pass, and
\* text of a failed command may read so (hook.py:1778): its own, one whose use of
\* the same text stands behind its own, or any while its use is not there yet.
\* Under Antigravity, where results read as they are, an own result near the step
\* makes a failure, but for a passed command whose result is near the step too
\* and stands behind it; without an own result there silence is a pass.
PassHasSource ==
  [][\A c \in Call : (outcome[c] = "none" /\ outcome'[c] = "clean") => HasSource(c)]_outcome
=============================================================================
