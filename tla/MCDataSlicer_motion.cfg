SPECIFICATION Spec
CONSTANTS
  Recordings <- MCFewRecordings
  ProfileRecordings <- MCProfileRecordings
  Intervals <- MCTwoIntervals
  Millisecond = 2
  MinSegment = 2
  WindowingSize = 1
  MaxSlices = 1
  MaxComputes = 1
INVARIANTS
  UniformMotionRecovered
