SPECIFICATION SwapSpec
CONSTANTS
  Wrapped = "WETH"
  Between = "U"
  Tokens <- MCTokens
  Requests <- MCRequests
  Shapes <- MCShapes
  Outputs = {1, 7, 10}
  Units = {10, 100}
  Precision = 100
  Grain = 4
INVARIANTS
  SwapTypeOK
  ValueCoversCalldata
  GuaranteedPriceIsEnforced
  NothingStaysBehind
  UnsettledHasCause
