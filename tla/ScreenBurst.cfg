SPECIFICATION Spec
CONSTANTS
  MaxBufferedChunks = 5
  RetainedBufferedChunks = 3
  MaxBatch = 3
  MaxMessages = 10
INVARIANTS
  ScreenIsWhole
CHECK_DEADLOCK FALSE
