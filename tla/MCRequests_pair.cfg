SPECIFICATION Spec
CONSTANTS
  BackoffBase <- MCBackoffBase
  BackoffMax <- MCBackoffMax
  NNames = 1
  Unknown = 1
  RefreshFailBase = 1
  RefreshFailMax = 2
  RefreshLead = 0
  ExpirySkew = 0
  Lifetime = 1
  NTokens = 4
  MaxRefreshFailures = 2
  Callers = {r1, r2}
  Sweep = sweep
  InitialFiles = {1}
  GrantOmitsEmail = FALSE
  MaxGrantTries = 2
  MaxNetFaults = 0
  MaxDiskFaults = 0
  MaxLogins = 0
  MaxRestarts = 0
  MaxRetries = 2
  RequestModes = {"json"}
INVARIANTS
  TypeOK
  LoginsStayRedeemable
SYMMETRY Symmetry
