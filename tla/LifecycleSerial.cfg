\* One call of the orchestrator agent at a time beside notify; a failure or a crash.
SPECIFICATION Spec
CONSTANTS
  NumIds = 2
  MaxLives = 2
  Reasons = {r1, r2}
  Slots = {s1, s2}
  OrchCalls = 1
  MaxFails = 1
  MaxCrashes = 1
CONSTRAINT OneMishap
SYMMETRY Interchangeable
INVARIANTS TypeOK NoInvisibleOrphan UnstartedIsClean OneWindow
PROPERTIES CompletionSticks AssignedKeepsWindow
CHECK_DEADLOCK FALSE
