SPECIFICATION SSpec
CONSTANTS
  Ids <- MCIds
  Payloads <- MCPayloads
  NullOutput <- MCNull
  CaptureMode = "captured"
  MaxInFlight = 1
  MaxEvents = 9
  MaxCaptureValue = 9
  MaxCaptureTotal = 99
  MarkReasons = {"oversized"}
  MarkCounts = {1}
  MaxMessages = 6
INVARIANTS
  NoSilentCallLoss
  CompleteAttribution
CHECK_DEADLOCK FALSE
