SPECIFICATION Spec
CONSTANTS
  RunIds <- MCRunIds
  CaseKey <- MCCaseKey
  Staging = 11
  Backup = 12
  Lock = 13
  Jobs = {"load", "assert", "list"}
  Sizes = {1, 2}
  MaxTraceBytes = 2
  MaxBytes = 3
  MaxCandidates = 2
  MaxRuns = 2
  MaxEntries = 3
  MaxChanges = 2
INVARIANTS
  CompleteListingIsSnapshot
  ListingAccountsForAll
PROPERTIES
  AcceptsOneVersion
CHECK_DEADLOCK FALSE
