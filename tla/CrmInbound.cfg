SPECIFICATION FairSpec
CONSTANTS
  Requests = {r1, r2}
  CrmRecordIds = {k1, k2}
  MaxEvents = 2
  MaxFailures = 1
  None = None
INVARIANTS
  TypeOK
  RecordsAreUnique
  AcceptedEventsAreStored
  RejectedEventsAreDuplicates
  RefusedRequestsStoreAllOrNothing
PROPERTIES
  RequestsAreAnswered
  ImplementsStore
CHECK_DEADLOCK FALSE
