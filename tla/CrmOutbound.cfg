SPECIFICATION FairSpec
CONSTANTS
  Jobs = {j1}
  Workers = {w1, w2}
  None = None
  MaxClients = 3
  PageSize = 2
  MaxRetries = 1
  MaxFaults = 2
  MaxCrashes = 1
  MaxRedeliveries = 1
INVARIANTS
  TypeOK
  UnfinishedJobsHaveTasks
  SentMeansDelivered
  SentCountersAgree
PROPERTIES
  JobsSettle
  ImplementsExport
CHECK_DEADLOCK FALSE
