SPECIFICATION Spec
CONSTANTS
  Tasks = {t1, t2, t3}
  N = 2
  Interval = 2
  UsizeMod = 3
  MaxCalls = 6
  IdleHorizon = 3
SYMMETRY TaskSymmetry
INVARIANTS
  TypeOK
  CooldownSpacing
  NapCoversCooldown
  RoundRobin
  OneStampPerCall
PROPERTIES
  LimiterSpec
CHECK_DEADLOCK FALSE
