SPECIFICATION Spec
CONSTANTS
  MaxSessions = 3
INVARIANTS
  AlwaysAccepting
  ConnectedIsOwned
  NoZombies
  CrashHasCause
CHECK_DEADLOCK FALSE
