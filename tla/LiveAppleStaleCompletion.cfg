SPECIFICATION Spec
CONSTANTS
  Desktop = FALSE
  HotPatch = TRUE
  Headless = FALSE
  Unlinks = FALSE
  Dependencies = 1
  UpCap = 4
  DownCap = 3
  MaxEdits = 2
  MaxLogs = 1
  None = None
CHECK_DEADLOCK FALSE
INVARIANTS
  CompletedMeansRunning
