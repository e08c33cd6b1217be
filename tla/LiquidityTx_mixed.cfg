SPECIFICATION Spec
CONSTANTS
  Pairs <- MCMixed
  Rent = 2
  AtaRent = 3
  PoolRent = 1
  NewSize = 3
  PoolSizes = {0, 2, 3}
  Windfall = 1
  MaxMoves = 2
  Tasks = {t1, t2}
  U64Max = 17
  Amounts = {1, 2}
  Minimum = 1
  Endowment <- MCEndowment
  MaxOrders = 2
  Shares = {2, 4, 24}
  LpBalance = 3
  Mantissa = 8
  SlipUnit = 4
INVARIANTS
  MixedPoolsSupported
CHECK_DEADLOCK FALSE
