SPECIFICATION FairSpec
CONSTANTS
  t1 = t1
  t2 = t2
  c1 = c1
  c2 = c2
  s1 = s1
  s2 = s2
  NoSha = NoSha
  Thread <- MCThread
  Conv <- MCOneConv
  Sha <- MCSha
  Asked = {"record", "gate", "baseline"}
  MaxStep = 1
  MaxRecords = 2
  MaxGates = 1
  MaxSecrets = 0
  MaxRestarts = 1
INVARIANT RecordedBaselineKept
PROPERTIES RequestsEnd
CHECK_DEADLOCK FALSE
