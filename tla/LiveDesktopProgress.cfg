SPECIFICATION FairSpec
CONSTANTS
  Desktop = TRUE
  HotPatch = TRUE
  Headless = FALSE
  Unlinks = TRUE
  Dependencies = 2
  UpCap = 2
  DownCap = 1
  MaxEdits = 2
  MaxLogs = 1
  None = None
CHECK_DEADLOCK FALSE
PROPERTY
  EveryBuildIsDelivered
