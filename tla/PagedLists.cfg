SPECIFICATION Spec
CONSTANTS
  Lists = {"clientes", "historico", "audit", "users"}
  MaxId = 3
  MaxKey = 3
  Owners = {0, 1, 2}
  Self = 0
  TeamLimit = 1
  PageSizes = {1, 2}
  MaxChanges = 1
  None = None
INVARIANTS
  TypeOK
  QuietWalksAreExact
  GrowingListsAreReadInFull
  TotalsCoverPages
  GestorsReadTheirTeamsLogs
  SmallTeamsAreReadInFull
CHECK_DEADLOCK FALSE
