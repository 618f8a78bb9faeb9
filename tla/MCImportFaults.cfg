SPECIFICATION FairSpec
CONSTANTS
  i1 = i1
  i2 = i2
  i3 = i3
  Old = Old
  Nobody = Nobody
  Imports <- MCTwoImports
  LockMayFail = TRUE
  MaxFaults = 3
INVARIANTS
  RecoveryComplete
PROPERTIES
  ImportEnds
CHECK_DEADLOCK FALSE
