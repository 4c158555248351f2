SPECIFICATION FairSpec
CONSTANTS
  s1 = s1
  Sats = {s1}
  Keys = {1, 2}
  Tokens = {1, 2, 3}
  Ids = {1}
  MaxTimers = 1
  Budgets <- RecoveryBudgets
INVARIANTS
  SteadyIffClient
  ReconcileFlagIsBacked
PROPERTIES
  Reconnects
CHECK_DEADLOCK FALSE
