SPECIFICATION QuoteSpec
CONSTANTS
  NumSamples = 5
  MaxSafe = 1000
  Routes <- AllRoutes
  Slippages = {0, 3333}
INVARIANTS
  QuoteTypeOK
  InputConserved
  QuotesWholeAmount
  WorstIsNoBetter
  QuoteWithinLastFill
  OnlyEmptyFillsThrow
