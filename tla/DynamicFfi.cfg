SPECIFICATION Spec
CONSTANTS
  Base = 2
  Width <- MCWidth
  SignedTypes = {"i32"}
  WordWidth = 3
  Libs = {"broken", "partial"}
  None = None
  SearchOrder <- MCSearchOrder
  Provides <- MCProvides
  Functions = {"f"}
  Null = Null
  ResultTypes = {"i32", "u8", "void"}
  Values <- MCValues
  DirectArgs <- MCDirectArgs
  Handles = {"h"}
  MaxArgs = 2
  BlockSize = 4
  MaxDepth = 2
  MaxAppends = 2
  MaxOpens = 1
  MaxCalls = 3
CONSTRAINT BlockAlone
INVARIANTS
  LibffiIsHeldOnce
  ErrorTellsTheOutcome
  ArgumentsArrive
  ReadsBack
CHECK_DEADLOCK FALSE
