SPECIFICATION Spec
CONSTANTS
  Producers = {p1, p2}
  Consumers = {c1, c2}
  Items = {x1, x2, x3}
  NoItem = NoItem
  PoolSize = 1
  MaxNodes = 5
  TagMod = 65536
  SizeMod = 4
SYMMETRY Symmetric
INVARIANTS
  QueueIsFifo
  NodesConserved
  TagIsPosition
  SizeIsAccountedFor
