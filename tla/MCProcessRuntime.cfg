CONSTANTS
  o1 = o1
  o2 = o2
  r1 = r1
  r2 = r2
  c1 = c1
  Ops = {o1, o2}
  Reqs = {r1}
  Caps = {c1}
  OpCap <- OneWorkspace
  NoOp = NoOp
  NoCap = NoCap
  NoConfig = NoConfig
  BadConfig = BadConfig
  Dirs <- MCDirs
  Managers = {"npm", "pnpm"}
  Configs <- MCConfigs
  Policies <- MCPolicies
  MaxChanges = 1
  Calls = {k1, k2}
  MaxEdits = 1
  MaxRuns = 1
SPECIFICATION MCSpec
INVARIANTS
  NothingOutlivesItsOwner
  CancelIsDecisive
  SnapshotIsCovered
  VerifyRunsWhatIsThere
  ConsoleNeverRunsAhead
PROPERTIES
  ImplementsOperation
\* every request may be answered and every child dead
CHECK_DEADLOCK FALSE
