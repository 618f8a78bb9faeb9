SPECIFICATION Spec
CONSTANTS
  Codes <- MCCodes
  SignalCode <- MCSignalCode
INVARIANTS
  ExitCodeInTrace
CHECK_DEADLOCK FALSE
