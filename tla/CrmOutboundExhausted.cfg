SPECIFICATION Spec
CONSTANTS
  Jobs = {j1}
  Workers = {w1}
  None = None
  MaxClients = 1
  PageSize = 2
  MaxRetries = 4
  MaxFaults = 5
  MaxCrashes = 0
  MaxRedeliveries = 0
PROPERTY ExhaustedJobsDoNotRun
CHECK_DEADLOCK FALSE
