SPECIFICATION Spec
CONSTANTS
  MaxProfiles = 4
  MaxChanges = 2
INVARIANTS
  ReadSinceCleared
  ScaleNotOlder
  TrueMeansStreaming
  IInv
