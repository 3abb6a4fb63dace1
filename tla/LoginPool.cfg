SPECIFICATION FairSpec
CONSTANTS
  Requests = {r1, r2, r3, h1}
  HealthChecks = {h1}
  Accounts = {a1, a2}
  PoolSize = 2
INVARIANTS
  TypeOK
  ConnectionsAreConserved
  LoginsAreRecorded
  FullPoolsAdvance
PROPERTIES
  RequestsAreAnswered
CHECK_DEADLOCK FALSE
