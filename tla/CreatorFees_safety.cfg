SPECIFICATION Spec
CONSTANTS
  Splits <- MCSplits
  RentMin = 2
  MinPayout = 2
  MaxMoves = 6
  Callers = {c1}
  BothSweepsFit = 1
  MaxOps = 2
INVARIANTS
  NeverUnswept
  SecondTryFits
  FreshTransactionLands
PROPERTIES
  NothingLeftBehind
CHECK_DEADLOCK FALSE
