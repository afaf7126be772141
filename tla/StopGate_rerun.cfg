SPECIFICATION Spec
CONSTANTS
  Harness = {"claude_code", "antigravity"}
  File = {in, out}
  Outside = {out}
  Command <- MCRerun
  TestRunner <- MCTestRunner
  Linter <- MCLinter
  SkipTier2 = FALSE
  MaxWork = 2
  MaxHalts = 4
INVARIANTS
  FailureNeedsRerun
CHECK_DEADLOCK FALSE
