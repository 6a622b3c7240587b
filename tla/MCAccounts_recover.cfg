SPECIFICATION FairSpec
CONSTANTS
  BackoffBase <- MCBackoffBase
  BackoffMax <- MCBackoffMax
  NNames = 2
  Unknown = 2
  RefreshFailBase = 1
  RefreshFailMax = 2
  RefreshLead = 0
  ExpirySkew = 0
  Lifetime = 1
  NTokens = 8
  MaxRefreshFailures = 2
  Callers = {}
  Sweep = sweep
  InitialFiles = {1, 2}
  GrantOmitsEmail = FALSE
  MaxGrantTries = 2
  MaxNetFaults = 1
  MaxDiskFaults = 0
  MaxLogins = 1
  MaxRestarts = 1
  MaxAttempts = 1
PROPERTIES
  ExpiredAccountsRecover
