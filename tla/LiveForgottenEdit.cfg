SPECIFICATION Spec
CONSTANTS
  Desktop = TRUE
  HotPatch = TRUE
  Headless = FALSE
  Unlinks = FALSE
  Dependencies = 1
  UpCap = 4
  DownCap = 3
  MaxEdits = 2
  MaxLogs = 1
  None = None
CHECK_DEADLOCK FALSE
INVARIANTS
  EditsAreNotForgotten
