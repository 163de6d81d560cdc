SPECIFICATION Spec
CONSTANTS
  Names <- MCNames
  Ids <- MCIds
  Sigs <- MCSigs
  TypeNames <- MCTypeNames
  Layouts <- MCLayouts
  FirstModule <- Original
  EntryId = 1
  Modules <- AllEdits
  Slots = {s1, s2}
  None = None
  Free = Free
  MaxStaged = 2
  MaxDepth = 2
SYMMETRY SlotSymmetry
CHECK_DEADLOCK FALSE
INVARIANTS
  TypeOK
  ClosuresDenote
  CallbacksRunTheirFunction
  CallbackFramesAreCurrent
  LayoutsHold
  RunningCodeIsAllocated
  CommitIsInfallible
  EveryApplyCompletesOnce
  NewestStagingNotLost
PROPERTY
  CompletedByNewCodeOrAtPanic
