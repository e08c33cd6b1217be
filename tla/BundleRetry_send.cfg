SPECIFICATION RetrySpec
CONSTANTS
  Tasks = {t1, t2}
  N = 2
  Interval = 1
  UsizeMod = 4
  MaxCalls = 12
  IdleHorizon = 0
  MaxRetries = 4
  Second = 1
INVARIANTS
  AttemptBudget
  DuplicatesNeedLoss
  RetryMovesOn
PROPERTIES
  EveryBundleSettles
  EveryCallReturns
CHECK_DEADLOCK FALSE
