SPECIFICATION Spec
CONSTANTS
  Tree = {main, linked}
  Hook = {h1, h2}
  main = main
  linked = linked
  h1 = h1
  h2 = h2
  MaxMoves = 3
  MaxFaults = 1
SYMMETRY MCSymmetry
VIEW View
INVARIANTS
  TypeOK
  RecordKept
  BaselineAtStart
  EditSeen
CHECK_DEADLOCK FALSE
