SPECIFICATION WindowSpec
CONSTANTS
  Times <- MCTimes
  Distances <- MCDistances
  MaxLength = 4
INVARIANTS
  IsLeastSquares
