SPECIFICATION Spec
CONSTANTS
  Desktop = TRUE
  HotPatch = TRUE
  Headless = FALSE
  Unlinks = TRUE
  Dependencies = 1
  UpCap = 4
  DownCap = 3
  MaxEdits = 3
  MaxLogs = 2
  None = None
CHECK_DEADLOCK FALSE
INVARIANTS
  TypeOK
  CompletedMeansRunning
  WatchingMeansCurrent
  NoReportOutlivesItsAttempt
  NativeCodeMatches
  RelaunchesAreEarned
  
