SPECIFICATION Spec
CONSTANTS
  i1 = i1
  i2 = i2
  i3 = i3
  Old = Old
  Nobody = Nobody
  Imports <- MCImports
  LockMayFail = FALSE
  MaxFaults = 1
SYMMETRY Symmetric
INVARIANTS
  LockExclusive
  TargetWhole
  NoLeftovers
PROPERTIES
  ImplementsAtomicReplace
CHECK_DEADLOCK FALSE
