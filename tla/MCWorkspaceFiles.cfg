CONSTANTS
  r1 = r1
  r2 = r2
  Requests = {r1, r2}
  Caps = {c1}
  NoRequest = NoRequest
  Paths = {p, q}
  Contents = {old, new, big}
  Big = {big}
  NoFile = NoFile
  Conflict = Conflict
  MaxCommits = 1
  MaxEdits = 2
  Calls = {f1, f2}
  PatchPaths = {1, 2}
  Lines = {"a", "b"}
  Patches <- ParsedPatches
  MaxLength = 2
  MaxWrites = 1
SPECIFICATION MCSpec
INVARIANTS
  FileWorkStopsAtClose
  ChangesAreGranted
  GitLeavesNothing
  LogTellsTheTruth
  PatchTellsTheTruth
  FreshEvidenceSawTheseFiles
PROPERTY
  EveryRequestEnds
\* every request may be answered and the workspace gone
CHECK_DEADLOCK FALSE
