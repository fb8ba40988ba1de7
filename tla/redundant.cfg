SPECIFICATION RdSpec
CONSTANTS
  ConnCount = 2
  BinWidth = 2
  NumBins = 3
  Latencies <- MCLatencies
  MaxIds = 4
  MaxSamples = 5
CHECK_DEADLOCK FALSE
INVARIANTS
  OneTaskPerPlace
  WindowSummarised
PROPERTIES
  SlowestReplaced
