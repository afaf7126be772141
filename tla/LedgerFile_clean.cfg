SPECIFICATION Spec
CONSTANTS
  daemon = daemon
  hook = hook
  Proc <- MCProc
  Exclusive = TRUE
  Faults = {"partial"}
  MaxWrites = 4
  MaxCrashes = 1
  Retries = 3
INVARIANTS
  NoAckedLost
  NoFalseAlarm
PROPERTY ImplementsLog
CHECK_DEADLOCK FALSE
