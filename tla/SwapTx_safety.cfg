SPECIFICATION Spec
CONSTANTS
  Pairs <- MCPairs
  Rent = 2
  AtaRent = 3
  PoolRent = 0
  NewSize = 3
  PoolSizes = {0, 2, 3}
  Windfall = 1
  MaxMoves = 2
  Tasks = {t1, t2}
  U64Max = 15
  Amounts = {1, 2, 15}
  Minimum = 2
  Endowment <- MCEndowment
  MaxOrders = 2
INVARIANTS
  SolComesHome
  EquippedNeverFails
  TradesAsMeant
  SimulationForetells
CHECK_DEADLOCK FALSE
