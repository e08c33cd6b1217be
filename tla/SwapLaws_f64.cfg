SPECIFICATION LawsSpec
CONSTANTS
  BpsScale = 10
  U64Max = 22
  Mantissa = 3
  SlipUnit = 4
  Schedules <- MCSchedules
  SlipsAsked = {0, 1, 4}
INVARIANTS
  LimitsBracketTheFill
CHECK_DEADLOCK FALSE
