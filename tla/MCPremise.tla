----------------------------- MODULE MCPremise -----------------------------
(***************************************************************************)
(* A test tree of three tests in two files, the command lines that         *)
(* can_suite_resolve_failure tells apart, and two working directories.     *)
(***************************************************************************)
EXTENDS Premise

CONSTANTS here, there, other

T1 == <<"tests", "a", "t1">>
T2 == <<"tests", "a", "t2">>
T3 == <<"tests", "b", "t1">>
MCLeaf == {T1, T2, T3}

Plain == [prefix |-> NoDir, runner |-> "pytest", words |-> {"pytest"}, path |-> <<>>,
          sub |-> NoSub, only |-> MCLeaf, masked |-> FALSE,
          targets |-> {<<>>}, skips |-> {}, env |-> {}, behind |-> {}]
At(c, p) == [c EXCEPT !.path = p, !.targets = {p}]
By(c, r) == [c EXCEPT !.runner = r, !.words = {r}]

Dir == At(Plain, <<"tests">>)
FileA == At(Plain, <<"tests", "a">>)
FileB == At(Plain, <<"tests", "b">>)
One == [FileA EXCEPT !.sub = "t1", !.targets = {T1}]
Piped == [FileA EXCEPT !.masked = TRUE]
Chained == [Piped EXCEPT !.behind = {FileB.path}]
Elsewhere == [FileA EXCEPT !.prefix = there]
Both == [FileA EXCEPT !.targets = {FileA.path, FileB.path}]
OptionValue == [FileB EXCEPT !.path = FileA.path]
Filtered == [FileA EXCEPT !.only = {T1}]
Skipping == [Plain EXCEPT !.skips = {T1}]
WithEnv == [FileA EXCEPT !.env = {T2}]
Unittest == [By(Plain, "unittest") EXCEPT !.targets = {FileB.path}]
Npm == By(Plain, "npm")
YarnUnit == At(By(Plain, "yarn"), <<"tests">>)
\* go test . in the package of FileA
GoHere == [By(Plain, "go") EXCEPT !.targets = {FileA.path}]
GoB == At(By(Plain, "go"), FileB.path)
\* cargo test -p bundle
CargoBundle == [At(By(Plain, "cargo"), <<"bundle">>) EXCEPT !.words = {"cargo", "bun"}]
Lint == By(Plain, "lint")
\* ruff check tests/unittests
LintTests == [At(Lint, <<"tests", "unittests">>) EXCEPT !.words = {"unittest"}]
\* python tests/unittest_b.py
Script == [At(By(Plain, "script"), FileB.path) EXCEPT !.words = {"unittest"}]
Version == By(Plain, "other")

Passing == {Plain, Dir, FileA, One, Elsewhere, OptionValue, Filtered, Skipping, WithEnv,
            Unittest, Npm, GoHere, Script, LintTests}
Failing == {Plain, FileA, One, Elsewhere, Both, OptionValue, Unittest, Npm, YarnUnit, GoB,
            CargoBundle, LintTests}

Run(conv, c, cwd, exit, error, status, step) ==
  [conv |-> conv, tool |-> "run_command", cmd |-> c, cwd |-> cwd, exit |-> exit,
   error |-> error, status |-> status, step |-> step, file |-> {}]
Pass(c, cwd) == Run(Conv, c, cwd, "zero", FALSE, "no_error", 1)
Fail(c, cwd) == Run(Conv, c, cwd, "nonzero", TRUE, "error", 1)

Write(f, step) ==
  [conv |-> Conv, tool |-> "write_to_file", cmd |-> Version, cwd |-> here, exit |-> "none",
   error |-> FALSE, status |-> "none", step |-> step, file |-> f]
Code == [special |-> FALSE, ext |-> "source", script |-> FALSE]
Doc == [special |-> FALSE, ext |-> "doc", script |-> FALSE]
Hashbang == [special |-> FALSE, ext |-> "none", script |-> TRUE]

MCEntry ==
  {Pass(c, here) : c \in Passing} \union {Fail(c, here) : c \in Failing}
  \union {Pass(FileA, there), Fail(FileA, there), Pass(Plain, NoCwd), Fail(One, there), Fail(One, NoCwd),
          Fail(Piped, here), Fail(Chained, here),
          Run(Conv, FileA, here, "none", FALSE, "uncorroborated", 2),
          Run(Conv, FileA, here, "none", FALSE, "unverified_timeout", 2),
          Run(Conv, FileA, here, "zero", FALSE, "no_error", 2),
          Run(Conv, Version, here, "zero", FALSE, "no_error", 1),
          Run(other, Plain, here, "zero", FALSE, "no_error", 1),
          Run(other, FileA, here, "nonzero", TRUE, "error", 1),
          Write(Code, 1), Write(Code, 2), Write(Hashbang, 1), Write(Doc, 3)}
=============================================================================
