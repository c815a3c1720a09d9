SPECIFICATION Spec
CONSTANTS
  MaxSessions = 1
INVARIANTS
  ShutdownAssertion
CHECK_DEADLOCK FALSE
