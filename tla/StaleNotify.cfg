\* A notification that was under way when its worker was replaced.
SPECIFICATION Spec
CONSTANTS
  NumIds = 1
  MaxLives = 2
  Reasons = {r1}
  Slots = {s1, s2}
  OrchCalls = 1
  MaxFails = 0
  MaxCrashes = 0
PROPERTIES StaleNotifyIgnored
CHECK_DEADLOCK FALSE
