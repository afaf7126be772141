SPECIFICATION Spec
VIEW View
CONSTANTS
  Harness = {"claude_code", "antigravity"}
  File = {in, out}
  Outside = {out}
  Command <- MCCommand
  TestRunner <- MCTestRunner
  Linter <- MCLinter
  SkipTier2 = FALSE
  MaxWork = 2
  MaxHalts = 4
INVARIANTS
  TypeOK
  ProvenAfterEdit
  FailuresSettled
  Tier2Decides
  CounterExact
  AllowedAnswered
PROPERTIES
  BreakerStuck
  StopAnswered
CHECK_DEADLOCK FALSE
