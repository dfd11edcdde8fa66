\* Three callers, unbuffered or one place, two canceled contexts.
SPECIFICATION FairSpec
CONSTANTS
  Callers = {c1, c2, c3}
  Splits = {c1, c2}
  Run = Run
  Buffers = {0, 1}
  MaxCancels = 2
INVARIANTS TypeOK RunIsAwake HandToHand SplitIsWhole
PROPERTIES AcceptedIsProcessed EnqueueReturns CancelIsAnswered CloseReleasesAll
CHECK_DEADLOCK FALSE
