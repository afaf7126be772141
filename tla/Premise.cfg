SPECIFICATION Spec
CONSTANTS
  here = here
  there = there
  other = other
  Conv = Conv
  NoDir = NoDir
  NoCwd = NoCwd
  NoSub = NoSub
  Entry <- MCEntry
  Leaf <- MCLeaf
  MaxRecs = 3
INVARIANTS
  TypeOK
  UnresolvedExact
  StepsExact
  FailureKept
CHECK_DEADLOCK FALSE
