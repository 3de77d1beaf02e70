SPECIFICATION Spec
CONSTANTS
  Pairs = {ab}
  Calls = {c1, c2}
  CacheTime = 2
  Timeout = 1
  HasLoader = TRUE
  ReloadTime = 3
  Counts <- NoneOrMany
  MaxPools = 3
  EndOfTime = 4
PROPERTIES
  ServedFromCacheIsFresh
