SPECIFICATION Spec
CONSTANTS
  r1 = r1
  r2 = r2
  Requests = {r1, r2}
  Lead = 1
  Lifetime = 2
  NTokens = 5
  MaxEvents = 2
INVARIANTS
  TypeOK
  NobodyAwaitsInVain
  GrokLoginStaysRedeemable
PROPERTY RefusedOnlyAfterRetry
SYMMETRY Symmetry
