SPECIFICATION FairSpec
CONSTANTS
  Projects = {1, 2}
  Windows = {1, 2, 3}
  Protected = {3}
  Opened <- MCOpened
  MaxLoads = 3
  MaxCalls = 2
  MaxForeign = 1
INVARIANTS
  InStep
  SelectionIsListed
PROPERTIES
  NeverStuck
CHECK_DEADLOCK FALSE
