SPECIFICATION FairSpec
CONSTANTS
  PingOn = TRUE
  OutCap = 2
  MaxSends = 3
  MaxFrames = 1
  BaseWait = 1
  MaxWait = 5
CHECK_DEADLOCK FALSE
INVARIANTS
  WireInOrder
  QueuedAfterWire
PROPERTIES
  StopCompletes
  DropEndsTask
