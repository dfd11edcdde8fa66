SPECIFICATION FairSpec
CONSTANTS
  a = a
  b = b
  t = t
  u = u
  Views <- MCViews
  NoView = NoView
  NoTerminal = NoTerminal
  Slots = {s1, s2}
  NoSocket = NoSocket
  Sizes = {80}
  NoSize = NoSize
  Statuses = {0, 200, 400, 401, 403, 404}
  MaxGeneration = 3
  MaxRetry = 2
INVARIANTS
  OneConnection
  PhaseTellsTruth
  OutputReachesItsTerminal
  SizeInStep
PROPERTIES
  FlappingBacksOff
  KeepsTrying
CHECK_DEADLOCK FALSE
