SPECIFICATION Spec
CONSTANTS
  Radix = 3
  Null = Null
  Blocks = {1, 2, 3}
  Headers = {1, 2}
  FirstCap = 2
  MaxLen = 2
  MaxLocals = 2
  MaxTokens = 2
  Jobs <- MCJobs
CONSTRAINT OneElementType
INVARIANTS
  FreesAreSound
  OwnedOnce
  BuffersMatchCapacity
  TextsAreExact
CHECK_DEADLOCK FALSE
