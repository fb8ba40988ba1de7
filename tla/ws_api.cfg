SPECIFICATION FairSpec
CONSTANTS
  Calls = {c1, c2, c3}
  OutCap = 1
CHECK_DEADLOCK FALSE
INVARIANTS
  SentOnce
PROPERTIES
  ImplementsRemoteCall
  CallsReturn
