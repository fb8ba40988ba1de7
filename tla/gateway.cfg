SPECIFICATION FairSpec
CONSTANTS
  Procs = 2
  MaxMsgs = 1
  Names <- MCNames
  Config <- MCConfig
CHECK_DEADLOCK FALSE
INVARIANTS
  NamesServed
  AllOrNothing
  NothingLeftBehind
PROPERTIES
  MappedNeverReset
  StopEnds
