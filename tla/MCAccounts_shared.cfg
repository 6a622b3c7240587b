SPECIFICATION Spec
CONSTANTS
  BackoffBase <- MCBackoffBase
  BackoffMax <- MCBackoffMax
  NNames = 1
  Unknown = 1
  RefreshFailBase = 1
  RefreshFailMax = 2
  RefreshLead = 1
  ExpirySkew = 0
  Lifetime = 2
  NTokens = 7
  MaxRefreshFailures = 2
  Callers = {c1, c2}
  Sweep = sweep
  InitialFiles = {1}
  GrantOmitsEmail = FALSE
  MaxGrantTries = 2
  MaxNetFaults = 1
  MaxDiskFaults = 1
  MaxLogins = 0
  MaxRestarts = 1
  MaxAttempts = 2
INVARIANTS
  TypeOK
  OutcomesWithinAttempts
  NobodyWaitsForNothing
  RestartLosesNothing
