SPECIFICATION BatchSpec
CONSTANTS
  Tokens <- MCTokens
  Wrapped <- MCWrapped
  StEth <- MCStEth
  Link <- MCLink
  Neighbours <- MCNeighbours
  Intermediates <- MCIntermediates
  BadTokens <- MCBadTokens
  CurveLikePools <- MCCurveLikePools
  ShellLikePools <- MCShellLikePools
  Providers <- MCProviders
  ClipperTokens <- MCClipperTokens
  CachedPools <- MCCachedPools
  Requests <- MCRequests
  Batches <- MCBatches
  MaxOutput = 2
  MaxReverts = 1
INVARIANTS
  OwnAnswers
  SamplerTypeOK
  SamplesAreEncodable
  HopsConnect
  PricesOfTheirTokens
  NoPoolSetsThePrice
  PoolsAskedOnce
