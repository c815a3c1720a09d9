SPECIFICATION DecompressSpec
CONSTANTS
  MaxLength = 1
  MaxValue = 1
  MaxPlain = 100
  Counts = {1, 11, 100}
  MaxSteps = 2
  IntMax = 1023
  MaxNumeral = 0
INVARIANT
  Decompressed
CHECK_DEADLOCK FALSE
