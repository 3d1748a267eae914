CONSTANTS
  Artifacts = {a1, a2, a3}
  SourceCap = 2
  AggregateCap = 4
  Ttl = 2
  MaxNow = 2
  MaxRestarts = 1
  Nobody = Nobody
  Procs = {p1, p2}
  Fingerprints = {f1, f2}
  MaxCalls = 3
  Roots = {root1, root2}
  TrustIds = {t1, t2}
  Calls = {c1, c2, c3}
  NoTrust = NoTrust
  Processes = {runtime}
  Requests = {q1, q2, q3}
  ProcOf <- OneProcess
  Cap = 2
  Retained = 2
  MaxFiles = 6
  MaxLives = 2
SPECIFICATION MCSpec
INVARIANTS
  AggregateIsRespected
  ActiveIsKept
  AuditIsKept
  PinsSurvive
PROPERTIES
  RetentionIsJustified
  LockIsReleased
  RequestsAreAnswered
  DocumentIsKept
\* all artifacts may be closed, processes down, calls answered
CHECK_DEADLOCK FALSE
