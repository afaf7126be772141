SPECIFICATION Spec
CONSTANTS
  g1 = g1
  g2 = g2
  main = main
  script = script
  built = built
  pass = pass
  Nobody = Nobody
  Empty = Empty
  Client <- MCClient
  File <- MCFile
  Target <- MCTarget
  Named <- MCNamed
  Free <- MCFree
  Skipped <- MCSkipped
  NewScript <- MCNewScript
  Claim <- MCClaim
  Alike <- MCAlike
  Cost = {2}
  Budget = 3
  Word = 8
  MaxFailures = 2
  Old = {0}
  MaxEdits = 2
  MaxReceipts = 1
SYMMETRY MCSymmetry
INVARIANTS
  TypeOK
  VerifiedUnchanged
  OneLateWrite
  WritesApproved
  AcceptedWithinBudget
CHECK_DEADLOCK FALSE
