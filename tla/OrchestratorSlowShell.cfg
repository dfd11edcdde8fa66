\* The shell needs a moment to become the harness: a second trigger kills the first run.
SPECIFICATION Spec
CONSTANTS
  Requests = {r1, r2}
  Drains = {d1, d2}
  Reasons = {same}
  Kinds = {"claude"}
  MaxQueued = 2
  MaxFails = 0
  NoEntry = NoEntry
PROPERTIES NoRunCutShort
CHECK_DEADLOCK FALSE
