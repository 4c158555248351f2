SPECIFICATION Spec
CONSTANTS
  s1 = s1
  Sats = {s1}
  Keys = {1, 2}
  Tokens = {1, 2}
  Ids = {1, 2}
  MaxTimers = 1
  Budgets <- UserBudgets
INVARIANTS
  LinkingIsAnswered
  ForgottenStaysGone
  PairingFlagIsBacked
PROPERTIES
  HeldStaysDown
CHECK_DEADLOCK FALSE
