SPECIFICATION Spec
CONSTANTS
  Distances <- MCDistances
  MaxUpdates = 2
INVARIANTS
  ClientOwnedOnce
  FreshReading
  IInv
