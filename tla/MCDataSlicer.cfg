SPECIFICATION Spec
CONSTANTS
  Recordings <- MCRecordings
  ProfileRecordings <- MCProfileRecordings
  Intervals <- MCIntervals
  Millisecond = 2
  MinSegment = 2
  WindowingSize = 1
  MaxSlices = 1
  MaxComputes = 1
INVARIANTS
  TypeOK
  SegmentsArePasses
  ProfilesInOneSegment
  ProfileWithinWindow
  LineExists
  TiedProfilesExact
