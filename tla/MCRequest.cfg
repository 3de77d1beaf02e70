SPECIFICATION RequestSpec
CONSTANTS
  NumSamples = 5
  MaxSafe = 1000
  NumGroups = 2
  RunLimit = 256
  MinRunSteps = 32
  Markets <- QuotedMarkets
  GasOf <- SmallGas
  Slippages = {0, 100}
INVARIANTS
  HandsOverRoutes
  QuotesRequestedAmount
