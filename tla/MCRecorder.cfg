SPECIFICATION FairSpec
CONSTANTS
  OpcuaPolls = 5
  MaxReads = 3
INVARIANTS
  NeverTerminates
  CopyAndPushExclude
  SnapshotIsPrefix
  RecordingOrdered
  AtMostOneLateReading
  IInv
PROPERTIES
  StopReturns
  ImplementsLog
