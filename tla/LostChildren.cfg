\* A split_request whose child id is taken while its cleanup is retried.
SPECIFICATION Spec
CONSTANTS
  NumIds = 2
  MaxLives = 1
  Reasons = {r1}
  Slots = {s1, s2}
  OrchCalls = 1
  MaxFails = 0
  MaxCrashes = 0
INVARIANTS SplitHasChildren
CHECK_DEADLOCK FALSE
