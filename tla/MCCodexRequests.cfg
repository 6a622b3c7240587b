SPECIFICATION Spec
CONSTANTS
  Keys = {k1}
  Window = 1
  MaxRequests = 1
  Endpoints = {"chat", "responses", "images"}
  MaxRecent = 1
  NTokens = 2
  MaxEvents = 2
  Callers = {c1, c2}
  Modes = {"chat stream", "chat", "images"}
  MaxArrivals = 2
  MaxImages = 2
CHECK_DEADLOCK FALSE
INVARIANTS
  TypeOK
  SendsWithinBudget
  SuccessIsWhole
  UsageAddsUp
PROPERTIES
  RefusedOnlyAfterReload
  QuotaIsKept
SYMMETRY CallerSymmetry
