SPECIFICATION FairSpec
CONSTANTS
  Runs = {r1, r2}
  MaxConcurrency = 1
  KeepRuns = 1
  Groups <- MCTame
  RemovalFails = TRUE
CHECK_DEADLOCK FALSE
PROPERTIES
  SlotsAreReleased
INVARIANTS
  TypeOK
  SlotsAreCounted
