SPECIFICATION FairSpec
CONSTANTS
  BackoffBase <- MCBackoffBase
  BackoffMax <- MCBackoffMax
  NNames = 1
  Unknown = 1
  RefreshFailBase = 1
  RefreshFailMax = 2
  RefreshLead = 0
  ExpirySkew = 0
  Lifetime = 1
  NTokens = 4
  MaxRefreshFailures = 2
  Callers = {r1}
  Sweep = sweep
  InitialFiles = {1}
  GrantOmitsEmail = TRUE
  MaxGrantTries = 2
  MaxNetFaults = 1
  MaxDiskFaults = 0
  MaxLogins = 0
  MaxRestarts = 1
  MaxRetries = 2
  RequestModes = {"json", "chat", "messages", "responses"}
INVARIANTS
  SendsWithinBudget
PROPERTIES
  EveryRequestEnds
  ImplementsClients
