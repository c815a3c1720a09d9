SPECIFICATION HttpFairSpec
CONSTANTS
  Answers <- MCAnswers
  MaxSessions = 2
  MaxRequests = 2
  RequestSize = 17
  WriteSize = 10
INVARIANTS
  HandlersHaveSessions
  ConnectedIsRead
  NoLostNotify
  ClientCrashHasCause
  HttpNoLostAnswer
  HttpCleanIsRight
PROPERTIES
  DtorReturns
CHECK_DEADLOCK FALSE
