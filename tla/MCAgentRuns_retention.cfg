SPECIFICATION Spec
CONSTANTS
  Runs = {r1, r2, r3}
  MaxConcurrency = 2
  KeepRuns = 1
  Groups <- MCSimple
  RemovalFails = FALSE
CHECK_DEADLOCK FALSE
INVARIANTS
  NoDirectoryLeaks
PROPERTIES
  ForgetsOldest
  ImplementsLifecycle
SYMMETRY Symmetry
