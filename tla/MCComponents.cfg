SPECIFICATION MCSpec
CONSTANTS
  MaxInserts = 6
  Size = 3
  Writers = {w1, w2}
  Readers = {r1, r2}
  Rounds = 2
  Traders = {t1, t2}
  Codes = {c1}
  Prices = {2}
  Volumes = {1}
  MaxCalls = 2
  MaxPosition = 2
  PortMod = 65536
  MaxPairs = 2
  MaxDepth = 3
  MaxNodes = 8
  Copies = 2
  BstValues = {1, 2, 3, 4}
  BstAddresses = 5
  MaxLength = 5
  MaxValue = 5
  MaxPlain = 24
  Counts = {1, 2, 11}
  MaxSteps = 3
  IntMax = 127
  MaxNumeral = 4
  MaxListNodes = 4
INVARIANTS
  QueuesAreStable
  NoLostEvent
  FundIsAccounted
  UrlIsParsed
  LuaRoundTrip
  RedBlack
  BstIsASet
  FunctionsAgree
  ListIsSequence
PROPERTIES
  AnnouncedIsPopped
  CallsReturn
  QuickSorts
CHECK_DEADLOCK FALSE
