\* Three concurrent triggers with equal reasons, a queue of two, a failure.
SPECIFICATION FairSpec
CONSTANTS
  Requests = {r1, r2, r3}
  Drains = {d1}
  Reasons = {same}
  Kinds = {"codex"}
  MaxQueued = 2
  MaxFails = 1
  NoEntry = NoEntry
INVARIANTS OneOwner NothingStranded QuietAfterClose
PROPERTIES KeepsPromise AcceptedIsLaunched CloseTerminates
CHECK_DEADLOCK FALSE
