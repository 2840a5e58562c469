SPECIFICATION FairSpec
CONSTANTS
  Duration = 1
  MaxRecorded = 3
INVARIANTS
  CallsConnectedUnlessInterrupted
  NothingLeftBehind
  FetchedIsFinal
  IInv
PROPERTIES
  RunReturns
  RecordersAreLogs
