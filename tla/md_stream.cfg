SPECIFICATION FairSpec
CONSTANTS
  btc = btc
  xrp = xrp
  Kinds <- BboAndTrade
  Symbols <- OneSymbol
  Others <- NotListed
  Stores <- BboOnly
  MaxId = 3
  MaxFrames = 2
  FrameLen = 2
  ChanCap = 2
  Custom = TRUE
  TableSize = 2
  Hash <- HashById
INVARIANTS
  RecordsIncrease
  ShmShowsNewestEnqueued
  RepeatedOnlyAfterEviction
PROPERTIES
  FreshTradeForwarded
  EnqueuedShown
CHECK_DEADLOCK FALSE
