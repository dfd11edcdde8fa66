\* Two deletions of one task, a spawn, updates, a failing command and a crash, fair handlers.
CONSTANTS
  Handlers = {1, 2}
  Marks = {1, 2, 3, 4}
  Lease = 2
  Timeout = 1
  MaxWait = 0
  Prefixed = TRUE
  Enterable = {"none", "own"}
  MaxSpawns = 1
  MaxUpdates = 1
  MaxFails = 1
  MaxCrashes = 1
SPECIFICATION FairSpec
INVARIANTS OwnsEntry OneCleaner GoneMeansGone
PROPERTIES StaysDeleted DeletionEnds
