SPECIFICATION FairSpec
CONSTANTS
  Codes <- MCCodes
  SignalCode <- MCSignalCode
INVARIANTS
  CompleteMeansRelaysEnded
  ExitCodeFaithful
  TraceTellsExitCode
  NoSurvivor
PROPERTIES
  ShutdownEnds
CHECK_DEADLOCK FALSE
