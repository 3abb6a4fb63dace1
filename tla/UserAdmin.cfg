SPECIFICATION Spec
CONSTANTS
  Users = {a1, g1, o1, n1, n2}
  Admins = {a1}
  Gestors = {g1}
  Operators = {o1}
  Mailboxes = {{e1, e2}}
  Requests = {r1, r2}
  MaxRequests = 4
  None = None
  Absent = Absent
SYMMETRY Symmetry
INVARIANTS
  TypeOK
  AddressesDiffer
PROPERTIES
  OnlyRoleRacesMixTeams
  GestorsMakeNoManagers
CHECK_DEADLOCK FALSE
