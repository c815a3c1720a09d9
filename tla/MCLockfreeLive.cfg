SPECIFICATION FairSpec
CONSTANTS
  Producers = {p1}
  Consumers = {c1, c2}
  Items = {x1, x2}
  NoItem = NoItem
  PoolSize = 1
  MaxNodes = 4
  TagMod = 65536
  SizeMod = 4
PROPERTIES
  QueueProgress
