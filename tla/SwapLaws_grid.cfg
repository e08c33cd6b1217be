SPECIFICATION LawsSpec
CONSTANTS
  BpsScale = 10
  U64Max = 22
  Mantissa = 12
  SlipUnit = 4
  Schedules <- MCSchedules
  SlipsAsked = {0, 1, 4}
INVARIANTS
  BuyFitsCap
  NoFreeRoundTrip
  SellNearlyMonotone
  LimitsBracketTheFill
CHECK_DEADLOCK FALSE
