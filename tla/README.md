# HardTruth: verification of the hooks, the ledger daemon and the phase gates

HardTruth supervises a coding agent.  Hooks of the agent's harness report every
tool call to a local daemon, which appends them to a hash-chained ledger; when
the agent wants to stop, the stop gate looks at the ledger, the repository and
the agent's claims, and lets it stop or not.  This directory holds TLA+
specifications of the parts whose correctness depends on the order in which
things happen (the Python ledger daemon, the hooks and the stop gate, the Rust
gate daemon), the configurations with which TLC checks them, and proofs that
TLAPS checks.

## 1. The system

| Component | Source | State | Operations |
|---|---|---|---|
| Ledger lock | `daemon/ledger.py` `CrossProcessLedgerLock` | a lock directory, a flock file, what each acquirer holds | `acquire`, `release` |
| Ledger file | `daemon/ledger.py` `record_entry`, `verify_chain`, `purge_records` | the file, the HMAC key, `_chain_cache` | append, verify with quarantine of a torn tail, purge |
| Daemon | `daemon/app.py`, `daemon/ledger.py` `DaemonLedger` | `_sessions`, `_step_counters`, `_active_gates`, `_session_baselines` | session start, record, gate start, gate verdict, baseline, premise, verify-claim, handoff |
| Premise | `daemon/ledger.py` `get_premise`, `can_suite_resolve_failure` | none: a fold over the ledger | which failures of a conversation are unresolved |
| Claim verification | `daemon/app.py` | the NLI model | entailment of claims by evidence |
| Hook, tool calls | `client/hardtruth_hook.py` `handle_post_tool_use`, `call_system_one` | session key files, a local ledger | record with the daemon, or locally when it does not answer |
| Hook, stop gate | `client/hardtruth_hook.py` `handle_stop`, `fail_halt` | attempt counters in files | the phases of the gate, the circuit breaker |
| Hook, baseline | `client/hardtruth_hook.py` `handle_session_start`, `get_or_set_session_baseline`, `get_git_modified_source_files` | a git ref, a cache file, the daemon's record | baseline commit of a session and tree, what changed since |
| Tier-2 runner | `daemon/tier2_runner.py` | containers, child processes | runs the suite the agent claims to have run |
| AST checker, adapters, client | `client/` | none | pure functions, translation of events |
| Rust critic | `src/critic.rs` | consecutive failures, the breaker | G1 plans, G2 mutations, G3 breaker, G4 completion, reset |
| Rust intent stack | `src/intent_stack.rs` | closure, spend, ticket, build context, token bucket | channels A, B, C, Rule 5 |
| Rust receipts | `src/merkle.rs`, `annotation.rs` | the receipts | record, latest for a claim, verify, world digest |
| Rust daemon | `src/daemon.rs`, `gate_client.rs` | all of these, under one mutex, in memory only | one request per connection, stop, start |
| Rust gate command | `src/bin/gate.rs` | none | `pre_tool` and `post_tool` around a write, plan, verify, annotate, stop |
| Stand-alone gate | `hardtruth-gate/` | none | one decision per process |

How they interact: hooks call the daemon over HTTP, each request runs in a
thread of FastAPI's pool; all requests share one `DaemonLedger`.  Its memory is
not locked; `record_entry` takes a thread lock and the cross-process lock around
reading the last record and appending the next.  When the daemon does not
answer, a hook makes a `DaemonLedger` of its own on the same file, so two
processes write it; a container that mounts the directory makes it two kernels.
`record_entry` and `start_gate` sweep expired gates first, and the sweep calls
`record_entry`.

Hooks are processes of their own, one per event, and share only files: the
ledger, the session's key, the halt counter and the baseline's cache.  The
harness runs them in parallel for parallel tools, writes the transcript they read at
its own pace, and runs the stop hook when no tool is running.

The Rust daemon is a second system beside the first: gate commands, one process
each, ask it over a Unix socket; a request holds its one mutex from dispatch to
answer.  What the answers are about, the working tree, is not under the mutex:
the harness writes between `pre_tool` and `post_tool`, and a request that needs
the digest of the tree reads it file by file while others write.

What is hard in it:

- the lock is made of two halves, each of which may fail or time out while
  `acquire` goes on;
- a process may die at any system call: inside the lock, inside the write,
  between a write and its answer;
- `verify_chain` reads the file while others write, and repairs what it takes
  for the trace of a crash;
- requests of one conversation run in parallel; gates are popped, steps chosen
  and baselines set before the lock that orders the records;
- a hook that gives the daemon up does not know what the daemon still does;
- the outcome of a command is read from a transcript that lags behind and holds
  equal texts, and steps are numbered by two clocks;
- the baseline of a tree is fixed by whichever hook comes first, in files that
  hooks of other trees rewrite without a lock;
- the deadline of a stop may fire between any two of its steps, and the breaker's
  count lives in a file;
- a restart forgets everything but the ledger, and that of the Rust daemon
  everything; its clients go on without it and are allowed;
- an answer of the Rust daemon is acted on later, when the breaker may have
  tripped and the tree may be another.

What makes each part correct:

- lock: at most one acquirer inside, at least among those for whom `flock` works;
  it is always acquired in the end;
- file: the readable lines are one chain; what was reported as recorded is
  there; an untampered file is not reported as broken;
- daemon: steps of a session never go back, a gate has one end, no gate or
  verdict is lost, the baseline never changes;
- premise: a failure is unresolved until a run that covers it passes;
- hook: no call is lost, a pass has a source, calls stand in their order;
- stop gate: a stop passes only if the gate's phases do, or by the breaker after
  three equal halts; it is always answered;
- baseline: what SessionStart recorded stays, the baseline is the commit the
  session began at, a change since then is seen;
- Rust gates: after the breaker's trip only what was already allowed is written;
  accepted plans fit the budget together; what is written was free or planned; a
  verified claim has a receipt of the world it is asked in.

## 2. Modules

| Module | What it is |
|---|---|
| `Mutex` | abstract: processes of several classes, one critical section per class |
| `LedgerLock` | `acquire` and `release`, one action per system call; implements `Mutex` per kernel |
| `AppendLog` | abstract: a log that grows at the end |
| `LedgerFile` | `record_entry` and `verify_chain` on the file, given a lock that excludes or does not; implements `AppendLog` where readers may see half of a write and nothing more goes wrong |
| `Daemon` | the requests and the memory of `DaemonLedger`, on the log that `LedgerFile` provides |
| `GateDaemon` | the Rust daemon with critic, intent stack and receipts, the gate commands and the tree |
| `Premise` | `get_premise`, a fold over the ledger's records, with `can_suite_resolve_failure` |
| `Hook` | `handle_post_tool_use` from the transcript to the ledger, with the daemon's session and its answers |
| `StopGate` | `handle_stop` phase by phase, `fail_halt`, the counter file, the breaker and the deadline |
| `Baseline` | SessionStart, the layers of the baseline, and what a stop takes for changed |
| `MC...` | the instances TLC checks |
| `...Proofs` | theorems and proofs about the module they extend |

The three layers of the ledger daemon meet at named points: `LedgerFile!Exclusive` is what
`LedgerLock` guarantees on one kernel (`ImplementsMutex`), and what it does not
across two (section 5); `Daemon!ledger` is the log that
`LedgerFile` implements (`ImplementsLog`).  They are checked separately because
their products are far beyond TLC and each layer uses no more of the one below
than that.

### LedgerLock

An acquirer is at `start`, in the loop of `acquire` (the `mkdir`, the `stat`
of the directory's age, the `rmdir` of a stale one, the time-out), at `flock`,
`inside`, or releasing.  The lock directory has an owner and an age;
`_acquired_dir` and the flock descriptor are what `p` believes and holds.  `Tick`
is the clock.  `flock` excludes within a kernel; acquirers outside `Lockable` may
not open the flock file (its mode is 0600 and the exception is swallowed).  A
crash drops the flock and leaves the directory.

### LedgerFile

A line is a record (index, prev_hash, and its identity for the HMAC) or text
that does not parse; `open` says that the last one has no newline yet.
`record_entry` is enter, read the last readable record, write, report;
`verify_chain` is the cached answer, or the read, up to `Retries` re-reads of an
unreadable last line, the quarantine under the lock, and the cache.  `Faults`
names what may go wrong: a death inside `os.write` ("torn"), a short write whose
result is not looked at ("short"), a reader that sees half a write ("partial"), a
failing read of the last record, which the code takes for an empty file ("readerr"),
and a verifier none of whose re-reads finds the last line whole, either because all
come too early or because further lines are there by then ("late").  `Whole` is the
file without a line that is still being written.
Hash values are identities of writes: HMAC-SHA256 is taken to be injective.

### Daemon

A thread's calls are a stack: `record_entry` of a request, the sweep in it, the
`record_entry` of a swept gate, and the sweep in that one.  Each place where the
code looks at the memory before it acts on it is a step of its own: the check of
`start_session` and `set_session_baseline` and their writes; the pop of the gate
and the choice of the step, and the locked part of `record_entry`; the list of
expired gates and each pop of the loop over it.  The locked part is one action
(`Commit` or `Refuse`): the layer below shows that it may be.  A sweep remembers the
last gate id there was when it made its list (`seen`).  `era`, `answers` and
`contested` (the conversations for which two requests set a baseline at the same
time) are history variables for the properties.  `Asked` names the requests
an instance makes, so that a run can afford the ones its question is about.

### GateDaemon

One module, because all parts share the mutex.  A request that needs no digest is
one action (`PlanGate`, `EvaluateIntent`, `GateMutation`, `PreTool`, `PostTool`,
`ResetBreaker`); one that does is `BeginScan`, a `ReadFile` per file in any order,
and `RecordReceipt` or `Answer`, and holds the mutex (`scan.by`) meanwhile, while
`Write` and `Edit` go on.  A write tool is `PreTool`, `Write`, `PostTool`, or
`PreToolAlone` and `PostToolAlone` when no daemon answers, which lets the tool
through; that may happen beside a daemon that runs, whose socket another has taken
away.  `EvaluateMutation` is G2 with its failure counting, `ApprovePlan` is G1;
both channels of a plan are evaluated, so that a plan that Rule 5 or a reserved
port rejects is charged if it fits (`Charge`).  `Stop` may come at any point, also
in the middle of a reading; `Start` finds nothing.

A write gives a file a new content or brings an older one back (`Old`); `by` is the
number of the write that did.  A digest is the contents that were read of the files
it covers; what `merkle.rs:93-116` skips (hidden, linked, built, vendored: `Skipped`)
is not in it.  The reading may fail at any request (`failed`): a file is gone when its turn
comes, and the digest is `Empty` (`unwrap_or_default`).  Paths are classified by
constants: `Free` (the initial closure, exempt, or tracked), `NewScript` (Rule 5);
`Alike` is the containment by which `latest_receipt_for_claim` matches claims;
`Named` are the file lists that plans carry.  `Word` is 2^64: the sum of the spend
wraps.  The token bucket, which the clock refills, is a choice (`tokens`), like what
else may reject a plan (`clean`).  `accepted`, `approved`, `presented`, `written`,
`late` and the fields `left` and `start` are history; `late` counts the writes that
the daemon had answered and that come after the trip, while it runs and while it is
gone, until the reset or the start of another.  There is one tree; status,
telemetry and signatures, which nothing checks, are left out.

### Premise

The ledger is any sequence of entries out of a set the instance gives; a question
starts the fold (`AskPremise`), which takes one record per step (`FoldFailed`,
`FoldClean`, `FoldEdit`, `FoldOther`) and answers.  A command line is a record of
what the code takes from it and what the shell does with it: the directory of a
`cd` prefix, the runner, the runners the line names, the first target as a path and a
`::` part, filters, and whether something masks its exit code.  The
properties define without a fold which failures should be open and which runs
encompass which (`Encompasses`, by the tests a command selects), and compare.
`words` are the runners that occur anywhere in a line, which is what lines 378 and 409
look for in the failed one; `targets`, `skips`, `env` and `behind` are what only the
shell and the runner know: what is really run, what options (a glued `-kfoo` too) and
variables leave out, and the programs behind the first.
`BlindSpot` names what `can_suite_resolve_failure` does not look at.

### Hook

`real`, `written`, `place` and `before` are the world: how each command stands, what the
transcript has of it and in which line, and which hooks had ended when it began.
`written` is what a result reads as, not what it was: of Claude Code's the first "exit
code N" anywhere in the text counts before `is_error` (1778), so that any result may
read as a pass.  A hook determines the outcome from the payload or one of the two
transcript readers (`MatchText` of Claude Code takes the last use in the file of the
same text, `MatchStep` of Antigravity the last result in the file near its step), reads
the session key or starts a session, sends the record and waits.  The request is in
`flight` until the daemon looks at it, which may be after the hook gave it up
(`GiveUp`), or never.  The daemon's check for a session and its registration are two
steps (`AskSession`, `Register`).  Its refusals (403 for the key, 409 for the step) and
time-outs lead to the local record, which appends to the same ledger file.  A 400 or 406
body is taken for an answer and is not modelled, since such records are never sent.
`StopAllowed` removes the key; `DaemonRestart` forgets all but the file.  No fairness is
stated: a hook may be left anywhere.

A hook that cannot reach the daemon's directory writes to a ledger in a directory of
its own; that there are then two ledgers is outside the model, which has the default
installation.

### StopGate

`pc` is the phase; each phase is an action that passes on or halts
(`Halt`, with the effects of `fail_halt` on the counter file), in the order of the
code: transcript, premise, git, reconcile, lineage, stubs, rules, weakening, Tier 2,
claims, and the three steps of an allow.  Whether the daemon answers is a
choice at every call; what the AST checker, the entailment model and a Tier-2 suite
say is a choice, the latter given what is wrong with the tree (`flaw`).  `Alarm` may fire
wherever the alarm is set.  `FetchPremise` goes on with the ledger's answer, or with an
empty premise when neither the daemon nor the local ledger gives one (`source`).

A command takes time: `Call`, then `Return` with its result, or `Detach` into the
background and `Notify`; the agent may edit in between.  `running` are the calls under
way, `premise` is what the ledger says and `transcript` what results there are.  The
hook after the call and Phase 4 read the same result at different times and places, each
as free text, so `clean` and `ok` are two choices.  The ledger's record has the step of
the call; Phase 4 numbers a success by the call under Claude Code and by the line of the
result elsewhere (`Result`), where that line names no call and is taken for the last one
made (`pending`). Of one command only the last success has its step (`Latest`).  Claude
Code's steps in the ledger are all 0.  `state_hash` is taken to be injective on the
locals it is taken of, `seen`; it does not contain the files' contents, and nor does
`seen`.  Nothing changes the tree during a stop, and `SIGALRM` exists.

### Baseline

A tree has one source file, with the same relative path in every tree; contents are
numbers, commits are shared by the trees.  The cache file is read, emptied (`Open`) and
written (`Put`) in separate steps and is `Torn`, not JSON, in between.  `Find` goes
through the layers: the daemon is asked with an empty body, which it refuses with
422, so that layer never answers; then the ref, the cache, `HEAD`.  A layer whose git
call fails or takes longer than its second (`rev-parse`, `cat-file`) is passed over, so
that a lookup may fall through to `HEAD` although a baseline is recorded.
`Register`, `MakeRef`, `ReadCache` follow for `HEAD`, and any call may fail, be late or be
the hook's last.  The stop reads the record (`StopBegins`), the baseline
(the same steps as a hook), and looks at the tree (`Compare`), while the harness runs no
hook.  `start`, `first`, `moved`, `missed` and `crossed` are history.  The change of a file's
ctime is taken for that of its content, edits are made from a shell (those that the
transcript shows are counted whatever git says), and only a harness with SessionStart
is modelled.  The race inside the daemon's registration is in `Daemon`.

## 3. Runs

| Run | Bounds | Shows |
|---|---|---|
| `LedgerLock` | daemon and hook on one kernel, a container on another that cannot open the flock file; time-out 1, stale age 2 | `SameKernelExclusion` whatever happens to the directory; two owners of the directory only after a stale break (`DirectoryExclusion`); `ImplementsMutex`; every `acquire` returns (`AcquireReturns`) |
| `LedgerFile_clean` | two writers that verify, four writes, readers that see half of them, a crash between steps | nothing reported is lost, no false alarm, an append-only log |
| `LedgerFile_faults` | all five faults, crashes | the readable lines stay one chain (`ReadableChained`) |
| `Daemon_races` | two threads, one conversation, steps 0 and 1, a late session, two gates, three records | `MonotoneSteps`, `GateEndsOnce` and `FreshGateKept` while records, verdicts and nested sweeps race |
| `Daemon_requests` | two threads, two baselines, a gate, two records, a restart | `RecordedBaselineKept` while requests set baselines, and `RequestsEnd` |
| `Daemon_immutable` | one thread, a restart | violated: a baseline whose record was refused is answered from memory and forgotten |
| `GateDaemon` | two gate commands, a source file, a new script outside the closure that tools write, a built file no digest covers, one claim; two writes, one receipt, budget 3 and cost 2, breaker at 2 | `VerifiedUnchanged`, `OneLateWrite`, `WritesApproved`, `AcceptedWithinBudget` over plans, writes, readings that fail, contents that come back, stops and starts |
| `Premise` | ledgers of three records out of 46: fourteen commands that pass and twelve that fail, over three tests in two files, two directories, another conversation, edits | the fold comes to what is defined without one (`UnresolvedExact`, `StepsExact`); a failure leaves only by a clean run that encompasses it or through a named blind spot (`FailureKept`) |
| `Hook` | two commands of one text, the first perhaps in the background, a restart, both harnesses | `EveryCallRecorded`, `InOrder`, `PassHasSource` while the transcript lags and its results read as what they are not, two hooks start the session twice, and the daemon is late |
| `StopGate` | two edits or calls of the agent, four halts in a row in one state, three commands, a file here and one in another repository, two harnesses, the ledger answering or not | `ProvenAfterEdit`, `FailuresSettled`, `Tier2Decides`: what there is when all phases pass; `CounterExact`, `BreakerStuck`; `AllowedAnswered`; `StopAnswered` |
| `StopGate_rerun` | the same, of one command | violated: Phase 4 settles a failure by a success that came before it, or whose text contains the command |
| `Baseline` | two worktrees, two hooks, three steps of the agent or hooks, one fault; trees and hooks symmetric | `RecordKept`, `BaselineAtStart`, `EditSeen` over commits, flags, a removed `.git`, resumed sessions, git calls that fail and daemon calls that are late |

Why the bounds are enough: the races are between two actors, and a third
conversation or thread repeats one of them; the lock's time-outs matter only by
whether they elapse before or after the stale age, so 1 and 2 stand for 3 and 5.
Two or three records are one before, one torn or raced, and one after.  What two
actors cannot show is left to the proofs, which have no bounds.  In `GateDaemon` a
second file makes a reading torn, and two writes are one before and one after the
receipt or the answer; one plan of cost 2 fits a budget of 3 and a second does not;
two failures trip the breaker, by one command's `pre_tool` and `post_tool` or by
those of two.  More receipts and claims are the theorems'.

In `Premise` three records are a failure, what may clear it, and what may come between
or after.  In `Hook` two commands are one before and one after, or two at once; equal
texts are the case the matching by text is about, and `NoCallLost` is proved for any
number. `StopGate` needs three equal halts to open the breaker and a fourth to see that
a count goes on (`MaxHalts` bounds the halts in a row in one state); `CounterCorrect`
and `BreakerCorrect` are proved for any number.  Two edits or calls are an edit and a
test around it, before it or after it, or a failure and a success.  The three commands
are a suite, a part of it and another whose text contains the suite's.  In `Baseline`
the races are of two hooks on one file, and three steps are an edit, its commit, and a
hook or an edit in the other tree.

Three runs have a `VIEW`.  In `Baseline` the states after two hooks crossed are taken
together: `crossed` is never reset and exempts them from every property but `TypeOK`,
which is proved.  In `Hook` nothing reads the transcript once every hook has
decided, so it is left out from there on.  In `StopGate` the guards and the properties,
but for `TypeOK`, which is proved, look at the transcript's successes by command and
line only, at whether the verdict is ALLOW, and, since `CounterExact` ties the history
of halts to the counter file, at the run of equal halts at the end; the failures, the
starts of the calls and the older halts are left out.  The property of `StopGate_rerun`
looks at failures and starts, and that run has no view.

Deadlock is not checked where the bounds stop the system: every bound is a guard
on new requests, so that an instance runs dry.

Fairness.  `LedgerLock!FairSpec`: every acquirer that is in `acquire` or `release`
goes on (the kernel schedules it and `flock` wakes a waiter in the end) and the
clock ticks; nothing makes a process come or leave, and crashes are not fair.
`StopGate!Spec`: an alarm that stays armed fires in the end, as the timer of the
kernel does, and the steps after it, which have time-outs of their own, go on
(`Finish`); no phase is fair, each may hang.  `Daemon!FairSpec`: each thread of the pool
goes on with the request it has; no request has to come, no gate has to expire.

## 4. Proofs

| Theorem | Statement |
|---|---|
| `LockTypeCorrect`, `FlockExcludes`, `DirectoryExcludes`, `LockImplementsMutex` | of `LedgerLock`, for any acquirers, kernels, time-outs |
| `FileTypeCorrect`, `OneChain` | of `LedgerFile`, for any writers, faults and numbers of writes and crashes; `OneChain` assumes `Exclusive` |
| `AckedKept`, `NeverAlarmed`, `IsALog` | of `LedgerFile`, for any writers, writes and crashes between steps, whatever half-written lines readers see; they assume `Exclusive` and no other fault (`OnlyPartial`) |
| `DaemonTypeCorrect`, `StepsMonotone`, `GatesEndOnce`, `BaselineIsKept`, `FreshGateIsKept` | of `Daemon`, for any threads, conversations, requests and restarts |
| `GateDaemonTypeCorrect`, `BreakerHolds`, `WritesBacked`, `FreshnessHolds` | of `GateDaemon`, for any commands, trees, claims, plans and bounds |
| `BudgetKept` | of `GateDaemon`, if no cost wraps the sum around (`NoWrap`) |
| `TypeCorrect`, `FoldIsExact`, `StepsAreExact`, `FailuresAreKept` | of `Premise`, for any ledger and commands (`CommandAssumption`) |
| `TypesHold`, `NoCallLost`, `OrderHolds`, `PassesHaveSources` | of `Hook`, for any commands, texts and restarts (`StepsGrow`) |
| `TypeCorrect`, `CounterCorrect`, `BreakerCorrect`, `VerdictIsKept`, `RuleOne`, `RuleTwo`, `Tier2Correct` | of `StopGate`, for any agent and any number of halts |
| `BaselineTypeCorrect`, `RecordIsKept`, `StopsCompareWithStart`, `EditsAreSeen` | of `Baseline`, for any trees, hooks, steps and faults |

`FlockExcludes` rests on `FlockHeldByHolder`: who passed `flock` on a kernel holds
its lock until `DropFlock`.  `DirectoryExcludes` needs `DirInv`: who
believes to own the directory either owns the one on disk or lost it to a stale
break.  The refinement `LockImplementsMutex` maps each step to an entry, an exit
or a stutter of `Mutex` and needs `FlockExcludes` for the entry.

`OneChain` is the interesting one.  `ReadableChained` alone is not inductive:
a writer appends what it computed a step earlier.  `ChainInv` adds that the lock
is held by whoever is between reading and writing, or cutting, and by nobody else
(`LockOK`); that the record a writer is about to write still follows the last
readable one (`RecStillLast`); and that a write in progress is the unreadable end
of the file (`WritingTail`), so that a quarantine, which holds the lock, never runs
into one.  A cut keeps a prefix of the lines, and a prefix of a chain is a chain.

If readers may see half of a write, and nothing else goes wrong, the file is a log.
`CleanInv` says that every whole line (`Whole`) links to the one
before it and carries the hash of a write already made, that a record is at its index
from the end of its write onwards, that the place a verifier remembers while it re-reads an
unfinished line is one in the chain, and that nobody is at a step only a fault leads to.
With `ChainInv`, which gives the writer the index behind the last line, `AckedKept` and
`NeverAlarmed` read off it: of a half-written line the re-reads find the whole one, and
until then the answer is not given.  `IsALog` maps the file to the hashes of its whole lines:
`WriteRecord` and `EndWrite` append one that is new, every other step, a crash between
two steps included, leaves them alone.  Both hypotheses are
needed: `Exclusive` is what `LedgerLock` gives on one kernel, and each of the other
faults breaks one of the three.  Of "late" it is the quarantine that does: what half a write
leads to in the code if the re-reads are used up (section 5), and why the runs and theorems
about these three exclude it.

`StepsMonotone` needs that no entry of the present registration is ahead of its
last step (`StepInv`); a restart or a session start begins a registration, and
leaves the older entries behind.  `GatesEndOnce` needs that each gate id is in one
place (`GateInv`): active, waiting in one call of one thread's stack, or in one
entry.  A sweep or a verdict moves it from the first to the second, the locked
part of `record_entry` from the second to the third, and a refusal drops it.

`RecordedBaselineKept` and `FreshGateKept` name the races in which the code does not keep
what it has.  Between the check and the write of `set_session_baseline` another request may
set another baseline: such conversations are `contested`.  A gate opened in place of an
expired one after a sweep's list and before its pop is swept although it is fresh: its id
is greater than the last there was when the list was made.  For the others
`BaselinesAgree` says that the recorded baselines of a conversation are equal,
`BaselineCalls` that one on its way to the ledger is at the bottom of its stack, the first
of its conversation, the only one on its way, and in memory once it is set; and
`ListedOld` that what a sweep has listed is, when its turn comes, still expired or younger
than the list.

`FreshnessHolds` is a sandwich.  Writes are numbered, and a content has the number of
the write that first brought it, so it is numbered no higher than the write
that put it there.  `FreshInv` says of each covered file that what a receipt's digest
holds is numbered no higher than the file's last write when the receipt was signed, that
this is no newer than the last one when a later request began, and that no newer than the one
the request read.  If the digests are equal and what was read has its write's own number,
all four are the same: nothing was written between the receipt and the request
although both readings were torn.  The two ways that are left are the exceptions
`VerifiedUnchanged` names: the content came back, in which case a torn reading may have given
the digest of a world that never was, or neither of the two readings succeeded.

`OneLateWrite` needs `LateInv`: who has written since the trip by an answer of the daemon is
not about to write by another, because `pre_tool` refuses until the reset, and gets no
answer while the daemon is gone.  `late` ends with the daemon that starts next, which
knows of no trip, and what `pre_tool` lets pass without an answer is not in it: the
breaker bounds neither.  `WritesApproved` needs
`ApprovalInv`, which follows a file from the accepted plan through the closure and
the allowed `pre_tool` to the write, and a ticket or build context from its payload
to the `pre_tool` it lets pass.  `AcceptedWithinBudget` is not inductive; that
accepted costs were charged (`BudgetInv`) is, and the charged spend stays within
the budget by `TypeOK`.

`FoldIsExact` says that what the fold keeps (`Kept`) of the records before `pos` is
exactly the failures that no later clean run among them resolves and no later failure of
the same command line replaces; each step extends this by one record. `StepsAreExact`
follows the greatest step of two growing sets.  `FailuresAreKept` takes from
`FoldIsExact` that a failure that is no longer open was resolved by a clean run or
replaced under its key, and shows that what `can_suite_resolve_failure` takes for
resolving is a command that selects all the failed one's tests, or has one of the blind
spots (`ResolvesSoundly`).  It rests on `CommandAssumption`: a command line has its
parts, a `::` part follows a file, and the options that select tests only leave tests
out, as `-k` and `--ignore` do. `NoCallLost` needs that an answer "recorded" is only
given for a call in the log, which grows at the end; a hook that takes another way
records the call itself. `OrderHolds` is about requests that arrive late.  A command
that began after another's hook had ended finds the other's entry in the ledger, or it
was lost (`Earlier`), so an entry that still comes behind it is the second of its call.
`Traced` shows that it is then the daemon's, made for a request left in flight; where
calls carry steps `Refusable` shows that the daemon refuses it once it has recorded the
later one, by the step or, after a restart or a new session, by the key.  This rests on
`StepsGrow`: the harness numbers its calls in their order, which `record_entry` of the
daemon demands (it refuses a step below the last one). `PassesHaveSources` says what a
recorded pass goes back to, given that a result reads as it likes under Claude Code.
`SourceInv` adds to the types that each line of the transcript has a place of its own
(`Placed`), so that the last of several is one, and that Antigravity's results, which
begin with the exit code, read as their commands ended (`Truthful`). `CounterCorrect`
follows the counter file through a halt, in which the run of equal states at the end
grows by one or begins anew, and through its removal; `BreakerCorrect` reads off it that
three equal halts came before. `RuleOne`, `RuleTwo` and `Tier2Correct` share one
invariant, `GateInv`.  `SeenInv` says for each phase what the phases before it leave:
what Phase 3 takes over from the premise (`Tracked`); from Phase 4 on (`Gathered`)
either a premise of the ledger, with which a counted test is one of the ledger's or
borne out by a success of the transcript, where steps are numbered at the very step that
Rule 1 compares (`TestsProven`), and each failure of the ledger is open in the stop's
locals or reconciled (`SettledOrOpen`), or an empty one, with which no test is counted
and a stop without changed sources has none in the workspace; after the rules nothing is
open and the tests are not stale; after Tier 2 what it found (`Tier2Found`).
`PremiseInv` ties the ledger's count of tests to its last test's step, and says that of
the transcript's lines one is the last (`LastExists`), which is kept by adding one line
at a time, where an induction over finite sets would be needed otherwise.
`VerdictIsKept` needs that the alarm is off from the verdict on. `RecordIsKept` needs
`RecordInv`: until two hooks crossed, at most one is about to write the cache file, what
it will write has the record, and the file is only empty while it is at it; and a
session that finds no record runs before any hook. `StopsCompareWithStart` needs
`OwnTree`: until a hook of another tree takes the cache file over (`moved`), or git
fails on the cached baseline in a lookup that does not get it from the daemon either
(`missed`), every layer that has a baseline of the session's tree has the first commit,
the daemon's included, and every lookup in that tree comes to it or to none.
`EditsAreSeen` needs `StopInv` and `HashesOfStart`: what SessionStart recorded of a tree
is the content at the start or "not modified", so an edited file that `git status` shows
is counted at once (`DirtySeen`); what it does not show is committed, flagged, or
without `.git`, and each of the three is looked at in `Compare`, the first if there is a
baseline (`StopFinds`).

Only model-checked: liveness (`AcquireReturns`, `RequestsEnd`, `StopAnswered`), which TLAPS
does not prove under fairness; and, of course, the two violations of section 5.  Every
other property of a run is a theorem, under the assumptions the table names: the runs
`LedgerFile_clean` and `GateDaemon` make the same ones.

## 5. Disagreements between the code and its documents

`PROJECT.json` lists two with a run, each with the line it contradicts:
`Daemon_immutable` and `StopGate_rerun`.  The modules show more, for which no run is
kept.

The ledger.  `CrossProcessLedgerLock` promises exclusion "across macOS host and
container bind mounts"; two kernels are inside together after the time-out, because
`acquire` then enters without the directory.  The quarantine truncates at an offset found
before it took the lock: with "late" among the faults TLC finds that it cuts off records
that were finished and reported meanwhile, and with four writes that the file is then called
broken.
After a torn line with two records behind it `verify_chain` reports a broken chain for good;
two writers that the lock did not exclude fork the chain; a record written onto a torn
line is reported as recorded and cannot be read.

The daemon.  A sweep works off a list made before another request re-opened a gate, and
pops the new one (the second disjunct of `FreshGateKept`).  The verdict of an open gate
may be refused as out of order after the gate was popped, and so is then lost, like a
swept gate whose UNVERIFIED record is refused. Two parallel `session/start` both mint a
secret; two parallel baseline requests are both answered with their own SHA, and both
may be recorded (`contested`).

The premise.  The README (line 119) says that a failure is cleared "if and only if" its
command or an encompassing suite passes later.  `BlindSpot` lists where the "only if"
fails.  The code looks for a runner's name anywhere in the failed line (lines 378 and
409): a bare `pytest` clears `ruff check tests/unittests`, and `npm test` clears `cargo
test -p bundle` or any `yarn` command.  `go test .` clears every package (418), and a
run of one `unittest` module everything.  A glued `-kfoo` is no filter (338), `--ignore`
and `--deselect` are none either; variables before the program, a `cd` prefix, an
unknown directory, a second target and what a masked line ran behind its first program
are not looked at; and a failure of the same command line in another directory takes the
place of the first.

The recording hook.  Under Claude Code the first "exit code N" or "exit status N"
anywhere in a result's text counts before `is_error` (1778-1781): a command that failed
and whose output says "exit code 0" is recorded as passed, and a command in the
background so before it has ended; the result of a later command of the same text, or
the last result before this use is written, may be taken too.  Under Antigravity
silence, and an empty error, count as a pass, where a comment promises never to
synthesize an exit code; a background command is such a case. `HasSource` lists what a
pass may come from.

The stop gate.  The README (line 102) says that a hard escalation "permanently blocks
unverified escape"; the fourth stop in one state is let through under Claude Code, also
when what halts it is a tampered ledger whose locals hash like three halts before.  The
staleness check (Rule 1) never fires under Claude Code, whose steps are all 0.
Elsewhere Phase 4 takes the step of the line with the result (2711, 2731): a test that
was begun before an edit and ended after it passes for one after the edit, where the
halt's message (2898) asks for a run of the latest changes.  That is why
`ProvenAfterEdit` speaks of lines.  When neither the daemon nor the local ledger
answers, the stop goes on with an empty premise (2612-2624): with open failures, or a
ledger that does not verify, it passes if the workspace shows no change, where the
README (line 99) blocks it and other failures halt ("fails closed"); `FailuresSettled`
names it. Phase 4 searches results as freely as the hook does and gives one without a
name to the last call made (2704), so that a success may be another command's.  Stops
that time out do not advance the breaker.  The alarm may fire after the counter was
removed.

The baseline.  The docstring of `get_or_set_session_baseline` says that every layer is
keyed by the working tree and the daemon is the "primary source of truth"; the daemon is
asked with a body it refuses and never answers, the cache file holds one tree's baseline
at a time and the modified paths of whichever tree came first, by which a changed file
of another tree is left out when SessionStart did not record its tree.  A hook that
reads the file between another's emptying and writing it starts from nothing and drops
SessionStart's record, which a resumed session then takes anew, of files edited by then
(`handle_session_start` says that it "is never overwritten"); the exception is `crossed`
in the properties.  `moved`, `missed` and the last disjunct of `EditSeen` are the other
three: a hook of another tree takes the cache over, after which the first tree without a
ref begins at its present commit; git fails, or takes longer than a second, on a
baseline that is recorded, and the lookup falls through to `HEAD` (561-565, 698-703,
743, 762), which is a later commit by then if the daemon is away; and a tree's first
hook may come after a commit, as PreToolUse takes no baseline.

The Rust daemon.  `RUST_V0_2_0.md` (lines 96 and 160) lets a claim be verified only
while the world is the receipt's.  `unwrap_or_default` makes the digest of an unreadable
tree the empty string, and two such digests are equal, so that a claim is verified over
an edit if files were removed during both readings; and files that are hidden, linked,
built or vendored are in no digest.  Line 155 lets no writing tool pass after the trip:
a restart forgets the trip, and while no daemon answers, or one has lost its socket to
another, `pre_tool` lets every write pass. A receipt is signed over the tree as it is
when the receipt is recorded, not when its command ran; any failures in a row trip the
breaker, where `RUST_V0_2_0.md:154` speaks of identical ones; a tripped breaker stops
`pre_tool`'s G2 but not the evaluation of shell commands; the sum in `check_channel_a`
may wrap around; `annotate` writes its answer back over what was written meanwhile.

## 6. Not modelled

- The NLI model, the Tier-2 runner, the AST checker: their answers are choices in
  `StopGate`.  They are functions of text or of processes outside.
- `purge_records`, which asks for a stopped daemon and takes no lock: what it loses when
  a hook appends meanwhile is seen in one step.
- Snapshots of repositories outside the workspace, nested repositories, untracked
  directories, and the filters on paths, in `Baseline`.
- Parsers, adapters, telemetry, key files, installation: no state that another
  process changes under them, or formatting.

## 7. Plan

What is left, in this order: that `record_entry` under `LedgerLock` is the
`Exclusive` that `LedgerFile` assumes, as one theorem over both; a composition of
`Hook` with `LedgerFile`, in which the daemon and the hook race for the file's end.
