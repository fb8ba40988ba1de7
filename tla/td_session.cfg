SPECIFICATION FairSpec
CONSTANTS
  spot = spot
  ubase = ubase
  cbase = cbase
  AccountTypes <- SpotAndUBase
  Spot = spot
  EnabledAccounts <- BothEnabled
  MaxLogins = 2
CHECK_DEADLOCK FALSE
INVARIANTS
  LoggedInIsRefreshed
  KeysDeleted
PROPERTIES
  NoKeepaliveAfterStop
  OperationsReturn
