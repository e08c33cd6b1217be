SPECIFICATION Spec
CONSTANTS
  Coins <- MCCoins
  Users <- MCUsers
  Payers <- MCPayers
  RentMin = 2
  MinPayout = 2
  Waiting = 2
  MaxMoves = 3
INVARIANTS
  RoutesLand
PROPERTIES
  LedgersImplemented
CHECK_DEADLOCK FALSE
