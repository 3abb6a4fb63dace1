SPECIFICATION Spec
CONSTANTS
  Users = {a1, g1, o1}
  Admins = {a1}
  Gestors = {g1}
  Operators = {o1}
  Mailboxes = {}
  Requests = {r1, r2}
  MaxRequests = 2
  None = None
  Absent = Absent
PROPERTY GestorsEditOnlyTheirTeam
CHECK_DEADLOCK FALSE
