CONSTANTS
  i1 = i1
  i2 = i2
  r1 = r1
  Ids = {i1, i2}
  Roots = {r1}
  RootOf <- SameRoot
  Overlap <- Nested
  TrustIds = {t1}
  Untrusts = {u1}
  MaxCloses <- TwiceOrOnce
  NoTrust = NoTrust
  Client = Client
  NoOp = NoOp
  NoCap = NoCap
SPECIFICATION MCSpec
INVARIANTS
  SidesAgree
PROPERTIES
  EveryCallEnds
  OperationsWindUp
\* every call may have ended and the trust ids be used up
CHECK_DEADLOCK FALSE
