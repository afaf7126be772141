SPECIFICATION Spec
VIEW View
CONSTANTS
  Calls = 2
  Text <- MCText
  Step <- MCStep
  ResultStep <- MCResultStep
  Background = {1}
  MaxRestarts = 1
INVARIANTS
  TypeOK
  EveryCallRecorded
  InOrder
PROPERTIES
  PassHasSource
CHECK_DEADLOCK FALSE
