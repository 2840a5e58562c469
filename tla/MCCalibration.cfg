SPECIFICATION Spec
CONSTANTS
  Points <- MCPoints
  Lines <- MCLines
  Shifts <- MCShifts
  MaxPasses = 2
  MaxPoints = 2
INVARIANTS
  CloudMatchesTransform
  StreamedInMachine
