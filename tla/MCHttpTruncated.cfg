SPECIFICATION HttpSpec
CONSTANTS
  Answers <- MCAnswers
  MaxSessions = 1
  MaxRequests = 1
  RequestSize = 17
  WriteSize = 10
INVARIANTS
  RequestIsSent
CHECK_DEADLOCK FALSE
