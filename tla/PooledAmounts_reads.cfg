SPECIFICATION PooledSpec
CONSTANTS
  Attempts = 6
  FirstDelay = 1
  DelayCap = 15
  MaxState = 5
  MaxCalls = 2
INVARIANTS
  ReadInItsAttempt
  ErrorMeansOutage
PROPERTIES
  EveryFetchReturns
CHECK_DEADLOCK FALSE
