SPECIFICATION Spec
CONSTANTS
  daemon = daemon
  hook = hook
  Proc <- MCProc
  Exclusive = TRUE
  Faults = {"torn", "short", "partial", "readerr", "late"}
  MaxWrites = 3
  MaxCrashes = 1
  Retries = 1
SYMMETRY MCSymmetry
INVARIANTS
  ReadableChained
CHECK_DEADLOCK FALSE
