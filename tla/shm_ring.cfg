SPECIFICATION Spec
CONSTANTS
  r1 = r1
  btc = btc
  eth = eth
  xrp = xrp
  hi = hi
  lo = lo
  Garbage = Garbage
  Readers <- OneReader
  Symbols <- TwoSymbols
  Unknown <- NotListed
  Words <- TwoWords
  Size = 2
  MaxIndex = 3
INVARIANTS
  RecentRecordsIntact
  CopyIntactUnlessLapped
  CopyNeverOlder
PROPERTIES
  ImplementsUnlessLapped
