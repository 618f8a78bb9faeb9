SPECIFICATION Spec
CONSTANTS
  RunIds <- MCRunIds
  CaseKey <- MCCaseKey
  Staging = 11
  Backup = 12
  Lock = 13
  Jobs = {"list"}
  Sizes = {1, 2}
  MaxTraceBytes = 2
  MaxBytes = 3
  MaxCandidates = 2
  MaxRuns = 2
  MaxEntries = 3
  MaxChanges = 0
INVARIANTS
  AliasesRejected
CHECK_DEADLOCK FALSE
