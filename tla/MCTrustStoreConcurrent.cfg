CONSTANTS
  Roots = {r1, r2}
  TrustIds = {t1, t2}
  Calls = {c1, c2, c3}
  NoTrust = NoTrust
SPECIFICATION TrustSafety
SYMMETRY Symmetry
INVARIANTS
  UntrustIsDurable
\* every call may have ended
CHECK_DEADLOCK FALSE
