SPECIFICATION Spec
CONSTANTS
  t1 = t1
  t2 = t2
  c1 = c1
  c2 = c2
  s1 = s1
  s2 = s2
  NoSha = NoSha
  Thread <- MCOneThread
  Conv <- MCOneConv
  Sha <- MCSha
  Asked = {"record", "baseline"}
  MaxStep = 1
  MaxRecords = 3
  MaxGates = 1
  MaxSecrets = 0
  MaxRestarts = 1
INVARIANT BaselineImmutable
CHECK_DEADLOCK FALSE
