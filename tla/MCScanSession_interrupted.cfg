SPECIFICATION Spec
CONSTANTS
  Duration = 1
  MaxRecorded = 1
INVARIANTS
  CallsConnected
