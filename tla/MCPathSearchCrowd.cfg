SPECIFICATION Spec
CONSTANTS
  NumSamples = 5
  MaxSafe = 1000
  NumGroups = 5
  RunLimit = 256
  MinRunSteps = 32
  Markets <- CrowdMarkets
INVARIANTS
  SearchInv
  WithinBudget
  FillableIsFilled
