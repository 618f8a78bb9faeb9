SPECIFICATION Spec
CONSTANTS
  Ids <- MCIds
  Payloads <- MCPayloads
  NullOutput <- MCNull
  CaptureMode = "redacted"
  MaxInFlight = 2
  MaxEvents = 7
  MaxCaptureValue = 2
  MaxCaptureTotal = 4
  MarkReasons = {"oversized"}
  MarkCounts = {0, 2}
  MaxMessages = 5
INVARIANTS
  LifecycleValid
  TablesExact
  CaptureLedger
PROPERTIES
  SealedIsFinal
  ImplementsToolCallTrace
CHECK_DEADLOCK FALSE
