------------------------------ MODULE Premise ------------------------------
(***************************************************************************)
(* The premise of a conversation (daemon/ledger.py, get_premise): the      *)
(* ledger is checked, read once from its first line to its last and folded *)
(* into the failures nobody has cleared, the number of clean runs and the  *)
(* steps of the last test and of the last source edit.  The stop gate      *)
(* decides on nothing else.                                                *)
(*                                                                         *)
(* A command line is modelled by what can_suite_resolve_failure takes from *)
(* it and what the shell does with it:                                     *)
(*   prefix   the directory of a leading "cd dir &&", NoDir without one    *)
(*   runner   pytest, unittest, a suite (npm, yarn, bun, cargo, go, make), *)
(*            "script" for any other test runner, "lint", or another       *)
(*            program, which includes pytest --version and the like        *)
(*   words    the names of runners that occur anywhere in the line         *)
(*   path     the first target as the code reads it, a sequence of path    *)
(*            components; <<>> for none, for "." and for the lines taken   *)
(*            for a whole suite, "go test ." among them                    *)
(*   sub      what follows "::", NoSub without it                          *)
(*   only     the tests that -k, -m or --filter select, Leaf without them  *)
(*   masked   is there a pipe, a ";" or anything else behind the program?  *)
(* and by what only the shell and the runner know:                         *)
(*   targets  what the program is told to run: more than path if there are *)
(*            further targets, something else if the code took the value   *)
(*            of an option for a target                                    *)
(*   skips    the tests that other options (--ignore, --deselect, a glued  *)
(*            -kfoo) or the runner's settings leave out                    *)
(*   env      the tests that variables set before the program leave out    *)
(*   behind   the targets of the programs behind the first one             *)
(***************************************************************************)
EXTENDS Integers, Sequences, FiniteSets, SequencesExt

CONSTANTS
  Entry,     \* the entries hooks may append
  Leaf,      \* the tests there are: sequences of path components
  Conv,      \* the conversation asked about
  NoDir,     \* no cd prefix
  NoCwd,     \* the entry names no working directory
  NoSub,
  MaxRecs    \* bound on the length of the ledger

ASSUME PremiseAssumption ==
  /\ MaxRecs \in Nat
  /\ \A e \in Entry : e.step \in Nat

\* A command line has its parts, "::" follows a file, and options only leave
\* tests out.
ASSUME CommandAssumption ==
  /\ Leaf \subseteq Seq(STRING)
  /\ \A e \in Entry :
       /\ {"prefix", "runner", "words", "path", "sub", "only", "masked",
           "targets", "skips", "env", "behind"} \subseteq DOMAIN e.cmd
       /\ e.cmd.path \in Seq(STRING)
       /\ e.cmd.sub = NoSub \/ (e.cmd.sub \in STRING /\ e.cmd.path # <<>>)
       /\ e.cmd.only \subseteq Leaf

VARIABLES
  recs,        \* the ledger
  mode,        \* "log", "scan", "answered" or "tampered"
  pos,         \* records folded so far
  unresolved,  \* unresolved_failures: command, cwd, and position in the ledger
  verifs,      \* verification_commands_count
  tests,       \* test_commands_count
  lastTest,    \* last_test_step
  lastSource,  \* last_source_mod_step
  sources      \* modified_source_files

vars == <<recs, mode, pos, unresolved, verifs, tests, lastTest, lastSource, sources>>
folded == <<unresolved, verifs, tests, lastTest, lastSource, sources>>

Python == {"pytest", "unittest"}
Node == {"npm", "yarn", "bun"}
Suites == Node \union {"cargo", "go", "make"}
-----------------------------------------------------------------------------
(* Commands *)

IsTest(c) == c.runner \in Python \union Suites \union {"script"}
IsVerification(c) == IsTest(c) \/ c.runner = "lint"

\* strip_shell_prefixes: cd prefixes and variables (wrappers are not modelled)
StripPrefixes(c) == [c EXCEPT !.prefix = NoDir, !.env = {}]

\* get_base_command: nor anything behind the program
BaseCommand(c) == [StripPrefixes(c) EXCEPT !.masked = FALSE, !.behind = {}]

HasFilter(c) == c.only # Leaf

\* Only pytest commands have a target; a unittest module is not one.
PytestTarget(c) == IF c.runner = "pytest" THEN c.path ELSE <<>>

\* "unittest" may stand anywhere in the line.
RunsWholeRoot(c) ==
  (c.runner = "pytest" \/ "unittest" \in c.words) /\ PytestTarget(c) = <<>>

NamesPython(f) == f.words \intersect Python # {}

TargetCovers(c, f) ==
  /\ c.runner = "pytest" /\ c.path # <<>>
  /\ f.runner = "pytest"
  /\ IF c.sub # NoSub
     THEN c.path = f.path /\ c.sub = f.sub
     ELSE IsPrefix(c.path, f.path)

\* A Node suite clears whatever names a Node runner anywhere.
SuiteCovers(c, f) ==
  /\ c.runner \in Suites /\ c.path = <<>>
  /\ IF c.runner \in Node THEN f.words \intersect Node # {} ELSE f.runner = c.runner

SameDirectory(d, e) == d = NoCwd \/ e = NoCwd \/ d = e

\* Mutant: filters are not looked at.
ResolveUnfiltered(clean, failed, d, e) ==
  LET c == BaseCommand(clean)
      f == BaseCommand(failed)
  IN  /\ SameDirectory(d, e)
      /\ \/ c = f /\ IsVerification(c)
         \/ /\ IsTest(c)
            /\ (RunsWholeRoot(c) /\ NamesPython(f)) \/ TargetCovers(c, f) \/ SuiteCovers(c, f)

\* does a clean run of clean in d clear a failure of failed in e?
CanResolve(clean, failed, d, e) ==
  LET c == BaseCommand(clean)
      f == BaseCommand(failed)
  IN  /\ SameDirectory(d, e)
      /\ \/ c = f /\ IsVerification(c)
         \/ /\ IsTest(c) /\ ~HasFilter(c)
            /\ \/ RunsWholeRoot(c) /\ NamesPython(f)
               \/ TargetCovers(c, f)
               \/ SuiteCovers(c, f)
-----------------------------------------------------------------------------
(* Entries *)

\* is_tainted_shell_command, whose result an entry carries
Tainted(c) == c.masked

\* Mutant: only an exit code or an error is a failure.
FailedOpenly(e) == e.exit = "nonzero" \/ e.error

Failed(e) ==
  \/ Tainted(e.cmd)
  \/ e.exit = "nonzero"
  \/ e.error
  \/ e.status = "unverified_timeout"

Clean(e) == ~Failed(e) /\ (e.exit = "zero" \/ e.status = "no_error")

\* classify_file: extensions first, then the executable bit or a shebang
IsSource(f) == f.special \/ f.ext = "source" \/ (f.ext = "none" /\ f.script)

Verification(e) == e.conv = Conv /\ e.tool = "run_command" /\ IsVerification(e.cmd)
Edited(e) == e.conv = Conv /\ e.tool = "write_to_file"

FailedRun(e) == Verification(e) /\ Failed(e)
CleanRun(e) == Verification(e) /\ Clean(e)
CleanTest(e) == CleanRun(e) /\ IsTest(e.cmd)
SourceEdit(e) == Edited(e) /\ IsSource(e.file)

\* Mutant: the last step wins.
LaterSecond(a, b) == b

Later(a, b) == IF a < b THEN b ELSE a
-----------------------------------------------------------------------------
\* Mutant: the fold goes on where the last one ended.
ResetSources ==
  /\ sources' = {}
  /\ UNCHANGED <<unresolved, verifs, tests, lastTest, lastSource>>

Reset ==
  /\ unresolved' = {}
  /\ verifs' = 0
  /\ tests' = 0
  /\ lastTest' = -1
  /\ lastSource' = -1
  /\ sources' = {}

Init ==
  /\ recs = <<>>
  /\ mode = "log"
  /\ pos = 0
  /\ unresolved = {}
  /\ verifs = 0
  /\ tests = 0
  /\ lastTest = -1
  /\ lastSource = -1
  /\ sources = {}

\* A hook records a call while nobody asks.
RecordEntry ==
  /\ mode # "scan" /\ Len(recs) < MaxRecs
  /\ \E e \in Entry : recs' = Append(recs, e)
  /\ mode' = "log"
  /\ UNCHANGED <<pos, folded>>

\* get_premise up to its loop; what verify_chain finds is LedgerFile's matter.
AskPremise ==
  /\ mode = "log"
  /\ mode' \in {"scan", "tampered"}
  /\ pos' = 0
  /\ Reset
  /\ UNCHANGED recs

FoldNext ==
  /\ mode = "scan" /\ pos < Len(recs)
  /\ pos' = pos + 1
  /\ UNCHANGED <<recs, mode>>

\* Mutant: a failure keeps its first place and directory.
FoldFailedFirst ==
  /\ FoldNext
  /\ LET e == recs[pos + 1] IN
       /\ FailedRun(e)
       /\ unresolved' = IF \E u \in unresolved : u.cmd = e.cmd
                        THEN unresolved
                        ELSE unresolved \union {[cmd |-> e.cmd, cwd |-> e.cwd, at |-> pos + 1]}
  /\ UNCHANGED <<verifs, tests, lastTest, lastSource, sources>>

FoldFailed ==
  /\ FoldNext
  /\ LET e == recs[pos + 1] IN
       /\ FailedRun(e)
       /\ unresolved' = {u \in unresolved : u.cmd # e.cmd}
                          \union {[cmd |-> e.cmd, cwd |-> e.cwd, at |-> pos + 1]}
  /\ UNCHANGED <<verifs, tests, lastTest, lastSource, sources>>

FoldClean ==
  /\ FoldNext
  /\ LET e == recs[pos + 1] IN
       /\ CleanRun(e)
       /\ verifs' = verifs + 1
       /\ tests' = IF IsTest(e.cmd) THEN tests + 1 ELSE tests
       /\ lastTest' = IF IsTest(e.cmd) THEN Later(lastTest, e.step) ELSE lastTest
       /\ unresolved' = {u \in unresolved : ~CanResolve(e.cmd, u.cmd, e.cwd, u.cwd)}
  /\ UNCHANGED <<lastSource, sources>>

FoldEdit ==
  /\ FoldNext
  /\ LET e == recs[pos + 1] IN
       /\ Edited(e)
       /\ sources' = IF IsSource(e.file) THEN sources \union {e.file} ELSE sources
       /\ lastSource' = IF IsSource(e.file) THEN Later(lastSource, e.step) ELSE lastSource
  /\ UNCHANGED <<unresolved, verifs, tests, lastTest>>

\* records of other conversations, other commands, runs without a known result
FoldOther ==
  /\ FoldNext
  /\ LET e == recs[pos + 1] IN ~FailedRun(e) /\ ~CleanRun(e) /\ ~Edited(e)
  /\ UNCHANGED folded

AnswerPremise ==
  /\ mode = "scan" /\ pos = Len(recs)
  /\ mode' = "answered"
  /\ UNCHANGED <<recs, pos, folded>>

Next ==
  \/ RecordEntry
  \/ AskPremise
  \/ FoldFailed \/ FoldClean \/ FoldEdit \/ FoldOther
  \/ AnswerPremise

Spec == Init /\ [][Next]_vars
-----------------------------------------------------------------------------
(* Types and what the folds must come to *)

Steps == Nat \union {-1}

\* The counters are counts and steps, and the position never leaves the ledger.
TypeOK ==
  /\ recs \in Seq(Entry) /\ Len(recs) <= MaxRecs
  /\ mode \in {"log", "scan", "answered", "tampered"}
  /\ pos \in 0 .. Len(recs)
  /\ \A u \in unresolved : u.at \in 1 .. pos
  /\ verifs \in Nat /\ tests \in Nat /\ tests <= verifs
  /\ lastTest \in Steps /\ lastSource \in Steps
  /\ \A f \in sources : IsSource(f)

Resolves(i, j) == CanResolve(recs[j].cmd, recs[i].cmd, recs[j].cwd, recs[i].cwd)

LastFailure(i) ==
  /\ FailedRun(recs[i])
  /\ \A j \in (i + 1) .. pos : FailedRun(recs[j]) => recs[j].cmd # recs[i].cmd

Open(i) ==
  /\ LastFailure(i)
  /\ \A j \in (i + 1) .. pos : CleanRun(recs[j]) => ~Resolves(i, j)

\* The unresolved failures are, at every point of the fold, the last failures
\* of each command line that no later clean run resolves (get_premise's
\* dictionary of unresolved_failures, popped by every clean run).
UnresolvedExact ==
  unresolved = {[cmd |-> recs[i].cmd, cwd |-> recs[i].cwd, at |-> i] :
                  i \in {k \in 1 .. pos : Open(k)}}

\* last_test_step and last_source_mod_step, which Rule 1's staleness check
\* compares, are the greatest steps of a clean test and of a source edit.
StepsExact ==
  /\ \A i \in 1 .. pos : /\ CleanTest(recs[i]) => recs[i].step <= lastTest
                         /\ SourceEdit(recs[i]) => recs[i].step <= lastSource
  /\ lastTest # -1 => \E i \in 1 .. pos : CleanTest(recs[i]) /\ recs[i].step = lastTest
  /\ lastSource # -1 => \E i \in 1 .. pos : SourceEdit(recs[i]) /\ recs[i].step = lastSource
  /\ tests > 0 <=> \E i \in 1 .. pos : CleanTest(recs[i])
  /\ sources # {} <=> \E i \in 1 .. pos : SourceEdit(recs[i])
-----------------------------------------------------------------------------
(* What a command runs, apart from what the code takes it to run *)

Where(c, d) == IF c.prefix = NoDir THEN d ELSE c.prefix

Target(c) == IF c.sub = NoSub THEN c.path ELSE Append(c.path, c.sub)

TestsRun(c) ==
  {l \in c.only \ (c.skips \union c.env) :
     \E p \in c.targets \union c.behind : IsPrefix(p, l)}

SameKind(c, f) == c.runner = f.runner \/ {c.runner, f.runner} \subseteq Python

\* c, run in d, runs again whatever f ran in e: it is the same command, or a
\* test command of the same kind that leaves no test of f out.
Encompasses(c, d, f, e) ==
  /\ Where(c, d) = Where(f, e)
  /\ \/ BaseCommand(c) = BaseCommand(f) /\ c.env \subseteq f.env /\ f.behind = {}
     \/ IsTest(c) /\ SameKind(c, f) /\ TestsRun(f) \subseteq TestsRun(c)

\* what the code takes a clean c for
Reach(c) == IF RunsWholeRoot(c) THEN <<>> ELSE Target(c)

\* What can_suite_resolve_failure does not look at.
BlindSpot(c, d, f, e) ==
  \/ c.prefix # f.prefix               \* which directory a cd prefix names
  \/ d = NoCwd \/ e = NoCwd            \* an unknown directory is any
  \/ ~SameKind(c, f)                   \* a runner that is only named in f's line, or is another's
  \/ f.targets # {Target(f)}           \* f ran more than its first target, or something else
  \/ f.behind # {}                     \* the programs behind f
  \/ Reach(c) \notin c.targets         \* c ran less: "go test .", a module of unittest's, test paths
  \/ c.skips # {} \/ c.env # {}        \* --ignore, --deselect, -kfoo, variables

RerunClean(i) ==
  \E j \in (i + 1) .. pos :
    /\ CleanRun(recs[j])
    /\ Encompasses(recs[j].cmd, recs[j].cwd, recs[i].cmd, recs[i].cwd)

Standing(i) == \E u \in unresolved : u.cmd = recs[i].cmd

\* A failure leaves the premise only by a clean run of the same command or of
\* one that encompasses it (README.md:119), or through one of the named blind
\* spots: runners it takes by a word of the line, options, variables and targets
\* can_suite_resolve_failure does not see, and a failure of the same command line
\* in another directory, which takes its place under its key.
FailureKept ==
  \A i \in 1 .. pos : FailedRun(recs[i]) =>
    \/ Standing(i)
    \/ RerunClean(i)
    \/ \E j \in (i + 1) .. pos :
         /\ CleanRun(recs[j]) /\ Resolves(i, j)
         /\ BlindSpot(recs[j].cmd, recs[j].cwd, recs[i].cmd, recs[i].cwd)
    \/ \E j \in (i + 1) .. pos :
         /\ FailedRun(recs[j])
         /\ recs[j].cmd = recs[i].cmd /\ recs[j].cwd # recs[i].cwd
=============================================================================
