SPECIFICATION Spec
CONSTANTS
  BpsScale = 20
  U64Max = 63
  Mantissa = 15
  SlipUnit = 4
  I64Max = 3
  Days = 2
  MaxWrites = 2
  MaxEntries = 2
  CapMax = 3
INVARIANTS
  DecodeIsWhatWasWritten
  TruncationIsSeen
  RightBucket
  RungOfItsInterval
PROPERTIES
  ReadsSurvive
CHECK_DEADLOCK FALSE
