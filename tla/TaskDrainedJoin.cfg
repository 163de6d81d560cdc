SPECIFICATION FairSpec
CONSTANTS
  Tasks = {1, 2, 3}
  Main = Main
  None = None
  Kinds = {"work", "ready", "machine"}
  MaxFuel = 2
  MainFuel = 3
  MaxClock = 1
INVARIANT
  JoinsAreHonoured
CHECK_DEADLOCK FALSE
