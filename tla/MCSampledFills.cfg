SPECIFICATION Spec
CONSTANTS
  NumSamples = 5
  MaxSafe = 5
  Amounts = {1, 4, 10, 23}
  Quotes = {0, 1, 3}
  Fails = Fails
  Kinds <- AllKinds
  Limits = {0, 2, 4}
  Sources <- MCSources
  Guesses = {0, 300, 900, 9000}
  LargeAmounts = {2000}
INVARIANTS
  TypeOK
  FillsAddUpToQuote
  CompleteIffQuoted
  ReachedGoalIsServed
