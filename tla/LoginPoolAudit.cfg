SPECIFICATION Spec
CONSTANTS
  Requests = {r1}
  HealthChecks = {}
  Accounts = {a1}
  PoolSize = 1
INVARIANT RefusedLoginsAreAudited
CHECK_DEADLOCK FALSE
