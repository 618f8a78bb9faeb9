SPECIFICATION Spec
CONSTANTS
  i1 = i1
  i2 = i2
  i3 = i3
  Old = Old
  Nobody = Nobody
  Imports <- MCImports
  LockMayFail = TRUE
  MaxFaults = 0
INVARIANTS
  LockExclusive
CHECK_DEADLOCK FALSE
