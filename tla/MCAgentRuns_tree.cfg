SPECIFICATION FairSpec
CONSTANTS
  Runs = {r1}
  MaxConcurrency = 1
  KeepRuns = 1
  Groups <- MCHelpers
  RemovalFails = FALSE
CHECK_DEADLOCK FALSE
PROPERTIES
  TreeDiesOnTimeout
