SPECIFICATION FairSpec
CONSTANTS
  MaxItems = 2
  MaxBytes = 3
  Sizes <- MCSizes
  ShutdownReasons = {"client_disconnected"}
  MaxSubmissions = 5
INVARIANTS
  ChargesExact
  EveryLossCounted
  OrderPreserved
PROPERTIES
  ImplementsLossLedger
  WakeUpsKept
  CloseCompletes
