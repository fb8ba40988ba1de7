SPECIFICATION Spec
CONSTANTS
  Prices = {1, 2, 3}
  Vols <- TwoInTheMiddle
  N = 2
  K = 1
  Eps = 1
  WireCap = 1
INVARIANTS
  SidesSorted
  OnlyVenueLevels
  MissingOnlyTrimmed
  NeverCrossed
CHECK_DEADLOCK FALSE
