SPECIFICATION Spec
CONSTANTS
  Requests = {r1}
  CrmRecordIds = {k1}
  MaxEvents = 1
  MaxFailures = 1
  None = None

INVARIANT AuditDoesNotInterrupt
CHECK_DEADLOCK FALSE
