SPECIFICATION Spec
CONSTANTS
  Producers = {p1, p2}
  Consumers = {c1}
  Items = {x1, x2}
  NoItem = NoItem
  PoolSize = 1
  MaxNodes = 4
  TagMod = 65536
  SizeMod = 4
INVARIANTS
  NothingLost
