SPECIFICATION FairSpec
CONSTANTS
  Recordings <- MCFewRecordings
  ProfileRecordings <- MCFewProfileRecordings
  Intervals <- MCIntervals
  Millisecond = 2
  MinSegment = 2
  WindowingSize = 1
  MaxSlices = 2
  MaxComputes = 1
INVARIANTS
  AccessInRange
  IInv
PROPERTIES
  CallsReturn
