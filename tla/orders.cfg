SPECIFICATION Spec
CONSTANTS
  s1 = s1
  s2 = s2
  u1 = u1
  u2 = u2
  x = x
  y = y
  Orders = {s1, s2, u1, u2}
  AccountOf <- MC_AccountOf
  SymbolOf <- MC_SymbolOf
  SideOf <- MC_SideOf
  Enabled = {"spot", "ubase"}
  Ops <- MC_Ops
  MaxOps = 2
CHECK_DEADLOCK FALSE
INVARIANTS
  FuturesOkIsDone
  CancelAllMissesNone
  QuerySeesStanding
