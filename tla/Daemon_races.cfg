SPECIFICATION Spec
CONSTANTS
  t1 = t1
  t2 = t2
  c1 = c1
  c2 = c2
  s1 = s1
  s2 = s2
  NoSha = NoSha
  Thread <- MCThread
  Conv <- MCOneConv
  Sha <- MCOneSha
  Asked = {"session", "record", "verdict", "gate"}
  MaxStep = 1
  MaxRecords = 3
  MaxGates = 2
  MaxSecrets = 1
  MaxRestarts = 0
SYMMETRY MCSymmetry
INVARIANTS
  TypeOK
  MonotoneSteps
  GateEndsOnce
PROPERTY FreshGateKept
CHECK_DEADLOCK FALSE
