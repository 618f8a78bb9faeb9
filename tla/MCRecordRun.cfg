SPECIFICATION MCSpec
CONSTANTS
  plain = plain
  ignored = ignored
  Paths <- MCPaths
  Ignored <- MCIgnored
  Stores <- MCStores
  Versions = {0, 1, 2}
  CaptureDiff = {TRUE, FALSE}
  Redact = {TRUE, FALSE}
  MaxEdits = 2
INVARIANTS
  PublishedIsWhole
  DiffSound
  NothingLeftBehind
CHECK_DEADLOCK FALSE
