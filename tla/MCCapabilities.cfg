CONSTANTS
  Caps = {k1}
  Executables = {node, bash}
  Shells = {bash}
  DevelopExecutables = {node}
  TrustedExecutables = {node, bash}
  Variables = {LANG}
  PresetVariables = {LANG}
  PreviewCalls = {c1, c2}
  CiRuns = {w1, w2}
  PageLimit = 1
  MaxObservations = 2
  MaxMoves = 3
  Operators = {o1}
  MaxReleases = 1
  MaxPreviews = 1
  MaxSessions = 1
  Matrix <- OneViewport
  MaxStarts = 2
  MaxBrowsers = 2
  Callers = {p1, p2}
  Roots = {r1, r2, r3}
  Protected = {}
  NodeRoots = {r1, r2}
  RustRoots = {r3}
  MaxEntries = 2
  MaxIds = 3
  Refs <- ResumeRefs
  MaxCommits = 3
  MaxResumeMoves = 4
  GlobalSources = {g}
  LocalSources = {w}
  MaxSkillVersion = 2
  MaxSkillMoves = 2
SPECIFICATION MCSpec
SYMMETRY Symmetry
INVARIANTS
  AuthorityWithinCeiling
  RuntimeAgrees
  ShownIsEnforced
  RegistryIsAccepted
  PreviewsAreSound
  CiTellsTheTruth
  GatewayTellsTheTruth
  QuietResumeTellsTheTruth
  CatalogTellsTheTruth
\* calls may have ended and bounds be reached
CHECK_DEADLOCK FALSE
