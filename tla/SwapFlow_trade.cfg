SPECIFICATION Spec
CONSTANTS
  BpsScale = 20
  U64Max = 63
  Mantissa = 15
  SlipUnit = 4
  Pairs = {"solQuote", "solBase", "other"}
  Configs <- MCConfigs
  Supply = 20
  InitBase = 12
  InitQuote = 13
  Boost = 3
  Amounts = {2, 5, 9}
  MaxMoves = 2
  Clients = {c1}
  Slips = {0, 1}
INVARIANTS
  FreshQuoteLands
  ZeroSlippageIsTheFill
  SnapshotPrices
CHECK_DEADLOCK FALSE
