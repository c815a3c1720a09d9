SPECIFICATION LfFairSpec
CONSTANTS
  PoolSize = 2
  Callers = {main}
  Owner = main
  Tasks = {t1, t2, t3}
  NoTask = NoTask
  Nobody = Nobody
INVARIANTS
  LfTypeOK
  LfNoLostWakeup
PROPERTIES
  LfRefinesTaskPool
  LfSettles
