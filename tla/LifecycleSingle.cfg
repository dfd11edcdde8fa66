\* One worker, for a task or for what it is split into; fair handlers.
SPECIFICATION FairSpec
CONSTANTS
  NumIds = 2
  MaxLives = 1
  Reasons = {r1}
  Slots = {s1, s2}
  OrchCalls = 1
  MaxFails = 1
  MaxCrashes = 1
PROPERTIES CleanupConverges
CHECK_DEADLOCK FALSE
