SPECIFICATION Spec
CONSTANTS
  NumSamples = 5
  MaxSafe = 1000
  NumGroups = 3
  RunLimit = 256
  MinRunSteps = 32
  Markets <- SmallMarkets
INVARIANTS
  TwoHopIsConsidered
