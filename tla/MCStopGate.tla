---------------------------- MODULE MCStopGate ----------------------------
(***************************************************************************)
(* A file of the workspace and one of another repository; the whole suite, *)
(* a part of it, and a linter whose command mentions the runner.  The run  *)
(* of the finding has the suite alone.                                     *)
(***************************************************************************)
EXTENDS StopGate

MCCommand == {<<"pytest">>, <<"pytest", "tests", "a">>, <<"ruff", "pytest">>}
MCRerun == {<<"pytest">>}
MCTestRunner == {"pytest", "unittest"}
MCLinter == {"ruff"}

\* What the stops and the properties of the run can tell apart.  Of the
\* transcript they look at the successes, by command and line; and since
\* CounterExact, an invariant of the run, ties the counter to the history, the
\* number of halts before the present run of them makes no difference.
View ==
  <<harness, now, tree, premise, running, pending, {<<r.cmd, r.line>> : r \in Successes},
    counter.same, counter.hash, pc, local, verdict = "ALLOW", answer>>
=============================================================================
