SPECIFICATION FairSpec
CONSTANTS
  PingOn = TRUE
  OutCap = 2
  MaxSends = 0
  MaxFrames = 1
  BaseWait = 1
  MaxWait = 1
CHECK_DEADLOCK FALSE
PROPERTIES PeriodicPing
