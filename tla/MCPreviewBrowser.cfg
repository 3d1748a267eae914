CONSTANTS
  PreviewCalls = {c1, c2}
  MaxPreviews = 1
  MaxSessions = 1
  Matrix <- OneViewport
  MaxStarts = 2
  MaxBrowsers = 2
SPECIFICATION PreviewSpec
INVARIANTS
  OneBrowserPerPreview
\* every process may have been run
CHECK_DEADLOCK FALSE
