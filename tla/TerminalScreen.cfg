SPECIFICATION Spec
CONSTANTS
  MaxBufferedChunks = 5
  RetainedBufferedChunks = 3
  MaxBatch = 2
  MaxMessages = 10
INVARIANTS
  ScreenIsWhole
  SnapshotReplaces
  NothingSurvivesToken
CHECK_DEADLOCK FALSE
