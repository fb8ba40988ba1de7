SPECIFICATION Spec
CONSTANTS
  Pairs <- MCPairs
  OddPairs <- MCOddPairs
  PsKinds = {"agg", "trade"}
  Configs <- MCConfigs
  Depths <- MCDepths
  Extras = {0, 3}
  SymbolBytes = 7
  MaxBatch = 2
  MaxNews = 2
  MaxBreaks = 1
CHECK_DEADLOCK FALSE
INVARIANTS
  ShowsNewest
  EveryTradeOnce
  OnItsMarket
