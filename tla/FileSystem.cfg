SPECIFICATION Spec
CONSTANTS
  Callers = {c1, c2}
  Names = {"a", "b"}
  ArgPaths <- MCPaths
  Ranges <- MCRanges
  Contents <- MCContents
  Inodes = {1, 2, 3, 4, 5, 6, 7, 8}
  Root = 1
  Worlds <- MCWorlds
  Dword = 2
  MaxPath = 2
  DirSize = 2
  MaxFaults = 1
  MaxCalls = 1
  MaxReads = 2
INVARIANTS
  NothingLeaks
  BufferFits
  ReadsAreExact
  WritesAreWhole
  MakeDirectoryIsHonest
  RemoveStaysInTree
  ListingIsFaithful
PROPERTY
  EveryCallReturns
CHECK_DEADLOCK FALSE
