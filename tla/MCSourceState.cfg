CONSTANTS
  Paths = {p, q}
  Contents = {c1, big}
  Big = {big}
  NoFile = NoFile
  Conflict = Conflict
  MaxCommits = 1
  MaxEdits = 3
SPECIFICATION SourceSpec
INVARIANTS
  EveryStateHasACheckpoint
\* the edits may be used up
CHECK_DEADLOCK FALSE
