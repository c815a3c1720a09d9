SPECIFICATION ServeSpec
CONSTANTS
  MaxSessions = 2
INVARIANTS
  DeletedAsynchronously
CHECK_DEADLOCK FALSE
