SPECIFICATION FairSpec
CONSTANTS
  Names <- MCNames
  Ids <- MCIds
  Sigs <- MCSigs
  TypeNames <- OneType
  Layouts <- MCLayouts
  FirstModule <- Original
  EntryId = 1
  Modules <- LiveEdits
  Slots = {s1}
  None = None
  Free = Free
  MaxStaged = 2
  MaxDepth = 1
CHECK_DEADLOCK FALSE
PROPERTY
  StagedIsSettled
