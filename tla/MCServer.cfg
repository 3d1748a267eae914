CONSTANTS
  r1 = r1
  r2 = r2
  r3 = r3
  r4 = r4
  s1 = s1
  Requests = {r1, r2, r3, r4}
  Stops = {s1}
  Garbage = Garbage
  MaxGarbage = 1
  HttpRequests = {q1}
  MaxTokens = 3
  Calls = {k1, k2}
  Bodies <- SomeBodies
  MaxMilestones = 1
  MaxCheckpoint = 3
  MaxContinuity = 4
  MaxRevision = 3
SPECIFICATION MCSpec
INVARIANTS
  WaitingIsForAnAnswer
  OnlyACurrentTokenEnters
  ToolsKeepTheirWord
  HistoryIsFaithful
PROPERTIES
  ImplementsService
  ImplementsRegister
  CallersSettle
\* a stopped client with an empty pipe is done
CHECK_DEADLOCK FALSE
