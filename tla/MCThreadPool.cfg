SPECIFICATION FairSpec
CONSTANTS
  PoolSize = 2
  Callers = {main}
  Owner = main
  Tasks = {t1, t2, t3}
  NoTask = NoTask
INVARIANTS
  TypeOK
  TasksConserved
  NoLostWakeup
  DestroyedQuiescent
PROPERTIES
  RefinesTaskPool
  StopQuiesces
  AcceptedRuns
  DtorReturns
