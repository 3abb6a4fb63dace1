---------------------------- MODULE UserAdminProofs ----------------------------
(***************************************************************************)
(* What UserAdmin keeps, for any accounts, teams and addresses and any     *)
(* number of requests at once.  A request decides on rows it has read and  *)
(* writes later, whatever has become of them, so the invariant says of its *)
(* decision only what does not depend on the rows as they are then.        *)
(***************************************************************************)
EXTENDS UserAdmin, TLAPS

Decided == {"readGestor", "write", "commit"}

\* Rows yet to be created have no address.
NewRowsAreBlank == \A u \in Users : ~Exists(u) => users[u].email = None

\* Access tokens are minted for accounts.
TokensHaveAccounts == \A u \in tokens : Exists(u)

-----------------------------------------------------------------------------
\* A free slot is a request.
LEMMA IdleOK == IdleRequest \in Request
  BY DEF IdleRequest, Request, NoFields, Fields, UserRole

\* What is true of the accounts that exist at the start.
LEMMA InitOK ==
  ASSUME Init
  PROVE  TypeOK /\ NewRowsAreBlank /\ TokensHaveAccounts /\ \A u \in Users : users[u].email = None
  <1>1. PICK team \in [Operators -> Gestors \cup {None}] :
          users = [u \in Users |->
            [role |-> CASE u \in Admins -> "admin" [] u \in Gestors -> "gestor"
                        [] u \in Operators -> "operador" [] OTHER -> "none",
             gestor |-> IF u \in Operators THEN team[u] ELSE None,
             active |-> TRUE, email |-> None]]
    BY DEF Init
  <1>2. TypeOK
    <2>1. ASSUME NEW u \in Users PROVE users[u] \in User
      <3>1. CASE u \in Operators
        BY <1>1, <3>1, ConstantsAssumption DEF User, UserRole
      <3>2. CASE u \notin Operators
        BY <1>1, <3>2, ConstantsAssumption DEF User, UserRole
      <3>3. QED BY <3>1, <3>2
    <2>2. users \in [Users -> User]
      BY <1>1, <2>1
    <2>3. tokens \subseteq Users /\ started \in 0..MaxRequests
      BY ConstantsAssumption DEF Init
    <2>4. req \in [Requests -> Request]
      BY IdleOK DEF Init
    <2>5. QED BY <2>2, <2>3, <2>4 DEF TypeOK
  <1>3. \A u \in Users : users[u].email = None
    BY <1>1
  <1>4. TokensHaveAccounts
    <2>1. ASSUME NEW u \in Admins \cup Gestors PROVE users[u].role # "none"
      <3>1. u \in Users /\ u \notin Operators
        BY <2>1, ConstantsAssumption
      <3>2. QED BY <1>1, <2>1, <3>1
    <2>2. QED BY <2>1 DEF Init, TokensHaveAccounts, Exists
  <1>5. QED BY <1>2, <1>3, <1>4 DEF NewRowsAreBlank

-----------------------------------------------------------------------------
Inserting(q) == q.op = "create" /\ q.pc = "commit"

\* Nor is it in two rows that are not committed yet.
InsertsDiffer ==
  \A r \in Requests : \A q \in Requests :
    Inserting(req[r]) /\ Inserting(req[q]) /\ r # q =>
      req[r].target # req[q].target /\ req[r].email # req[q].email

\* An update that ends with a role other than operador, if the row still has the role
\* that was read, takes the account out of its team.
FitsRoleRead(q) ==
  LET role == IF q.fields.role = Absent THEN q.seen ELSE q.fields.role
  IN  role # "operador" => q.fields.gestor = None

\* What a request may write, whatever has become of the rows it has read.
WriteOK(q) ==
  /\ q.pc \in Decided /\ q.op = "create" =>
       /\ q.email \in Email /\ q.fields.role \in UserRole
       /\ q.fields.gestor \in Users \cup {None}
  /\ q.pc \in Decided /\ q.op # "create" => q.target \in Users /\ Exists(q.target)
  /\ q.pc \in Decided /\ q.op = "update" => FitsRoleRead(q)
  /\ q.pc \in Decided /\ q.actorRole = "gestor" =>
       /\ q.fields.role \in {Absent, "operador"}
       /\ q.fields.gestor \in {Absent, None, q.actor}
  /\ Inserting(q) => /\ q.target \in Users /\ ~Exists(q.target)
                     /\ \A v \in Users : Exists(v) => users[v].email # q.email

IInv ==
  /\ TypeOK
  /\ NewRowsAreBlank
  /\ TokensHaveAccounts
  /\ AddressesDiffer
  /\ InsertsDiffer
  /\ \A r \in Requests : WriteOK(req[r])

\* A request that has decided nothing may write nothing.
LEMMA UndecidedWrites ==
  ASSUME NEW q, q.pc \notin Decided
  PROVE  WriteOK(q) /\ ~Inserting(q)
  BY DEF WriteOK, Decided, Inserting

\* A step that leaves the tables alone keeps everything but what it does to the
\* record of its request.
LEMMA StepKeeps ==
  ASSUME IInv, UNCHANGED <<users, tokens>>,
         NEW r \in Requests, NEW q \in Request,
         req' = [req EXCEPT ![r] = q], started' \in 0..MaxRequests, WriteOK(q),
         Inserting(q) => \A p \in Requests \ {r} :
           Inserting(req[p]) => q.target # req[p].target /\ q.email # req[p].email
  PROVE  IInv'
  <1>1. TypeOK'
    BY DEF IInv, TypeOK
  <1>2. NewRowsAreBlank' /\ TokensHaveAccounts' /\ AddressesDiffer'
    BY DEF IInv, NewRowsAreBlank, TokensHaveAccounts, AddressesDiffer, Exists
  <1>3. req'[r] = q /\ \A p \in Requests : p # r => req'[p] = req[p]
    BY DEF IInv, TypeOK
  <1>4. InsertsDiffer'
    <2> SUFFICES ASSUME NEW a \in Requests, NEW b \in Requests, a # b,
                        Inserting(req'[a]), Inserting(req'[b])
                 PROVE  req'[a].target # req'[b].target /\ req'[a].email # req'[b].email
      BY DEF InsertsDiffer, Inserting
    <2>1. CASE a = r
      BY <1>3, <2>1
    <2>2. CASE b = r
      BY <1>3, <2>2
    <2>3. CASE a # r /\ b # r
      BY <1>3, <2>3 DEF IInv, InsertsDiffer
    <2>4. QED BY <2>1, <2>2, <2>3
  <1>5. ASSUME NEW p \in Requests PROVE WriteOK(req[p])'
    <2>1. WriteOK(req'[p])
      BY <1>3 DEF IInv
    <2>2. QED BY <2>1 DEF WriteOK, FitsRoleRead, Exists, Inserting
  <1>6. QED BY <1>1, <1>2, <1>4, <1>5 DEF IInv

\* End of a request that writes nothing.
LEMMA FinishKeeps ==
  ASSUME IInv, UNCHANGED <<users, tokens, started>>, NEW r \in Requests, Finish(r)
  PROVE  IInv'
  <1>1. IdleRequest.pc \notin Decided
    BY DEF IdleRequest, Decided
  <1>2. started' \in 0..MaxRequests
    BY DEF IInv, TypeOK
  <1>3. QED BY <1>1, <1>2, UndecidedWrites, StepKeeps, IdleOK DEF Finish

\* A request goes on with what it has decided.
LEMMA GotoKeeps ==
  ASSUME IInv, UNCHANGED <<users, tokens, started>>, NEW r \in Requests,
         req[r].pc \in {"readGestor", "write"},
         NEW pc \in {"write", "commit"}, Goto(r, pc),
         pc = "commit" => req[r].op # "create"
  PROVE  IInv'
  <1> DEFINE q == [req[r] EXCEPT !.pc = pc]
  <1>1. req[r] \in Request /\ WriteOK(req[r]) /\ started' \in 0..MaxRequests
    BY DEF IInv, TypeOK
  <1>2. q \in Request
    BY <1>1 DEF Request
  <1>3. /\ q.op = req[r].op /\ q.fields = req[r].fields /\ q.email = req[r].email
        /\ q.target = req[r].target /\ q.actor = req[r].actor /\ q.actorRole = req[r].actorRole
        /\ q.seen = req[r].seen /\ q.pc = pc
    BY <1>1 DEF Request
  <1>4. ~Inserting(q)
    BY <1>3 DEF Inserting
  <1>5. WriteOK(q)
    BY <1>1, <1>3, <1>4 DEF WriteOK, FitsRoleRead, Decided
  <1>6. req' = [req EXCEPT ![r] = q]
    BY DEF Goto
  <1>7. QED BY <1>1, <1>2, <1>4, <1>5, <1>6, StepKeeps

\* A request decides what to write.
LEMMA WriteKeeps ==
  ASSUME IInv, UNCHANGED <<users, tokens, started>>, NEW r \in Requests,
         NEW u \in Users \cup {None}, NEW f \in Fields, NEW email \in Email \cup {None},
         Write(r, u, f, email),
         req[r].op = "create" =>
           email \in Email /\ f.role \in UserRole /\ f.gestor \in Users \cup {None},
         req[r].op # "create" => u # None, u # None => Exists(u),
         req[r].op = "update" /\ (f.role = Absent => users[u].role # "operador")
             /\ f.role # "operador" => f.gestor = None,
         req[r].actorRole = "gestor" =>
           f.role \in {Absent, "operador"} /\ f.gestor \in {Absent, None, req[r].actor}
  PROVE  IInv'
  <1> DEFINE pc == IF req[r].actorRole # "gestor" /\ f.gestor \in Users
                   THEN "readGestor" ELSE "write"
             actor == IF req[r].actorRole = "gestor" THEN req[r].actor ELSE None
             seen == IF u = None THEN None ELSE users[u].role
             w == [req[r] EXCEPT !.target = u, !.fields = f, !.email = email,
                                 !.actor = actor, !.seen = seen, !.pc = pc]
  <1>1. req[r] \in Request /\ req[r].actor \in Users \cup {None} /\ started' \in 0..MaxRequests
    BY DEF IInv, TypeOK, Request
  <1>2. actor \in Users \cup {None} /\ seen \in UserRole \cup {None}
    <2>1. u # None => users[u] \in User /\ users[u].role # "none"
      BY DEF IInv, TypeOK, Exists
    <2>2. QED BY <1>1, <2>1 DEF User
  <1>3. /\ w \in Request
        /\ w.op = req[r].op /\ w.fields = f /\ w.email = email /\ w.target = u
        /\ w.actor = actor /\ w.actorRole = req[r].actorRole /\ w.seen = seen
        /\ w.pc \in {"readGestor", "write"}
    <2> HIDE DEF actor, seen
    <2>1. QED BY <1>1, <1>2 DEF Request
  <1>4. ~Inserting(w)
    BY <1>3 DEF Inserting
  <1>5. ASSUME w.op = "update" PROVE FitsRoleRead(w)
    <2>1. w.seen = users[u].role
      BY <1>3, <1>5
    <2>2. w.op = req[r].op /\ w.fields = f
      BY <1>3
    <2> HIDE DEF w, seen
    <2>3. CASE f.role = Absent
      <3>1. users[u].role # "operador" => f.gestor = None
        BY <1>5, <2>2, <2>3, ConstantsAssumption DEF UserRole
      <3>2. w.fields.role = Absent /\ w.fields.gestor = f.gestor
        BY <2>2, <2>3
      <3>3. QED BY <2>1, <3>1, <3>2 DEF FitsRoleRead
    <2>4. CASE f.role # Absent
      BY <1>5, <2>2, <2>4 DEF FitsRoleRead
    <2>5. QED BY <2>3, <2>4
  <1>6. WriteOK(w)
    <2>1. w.actorRole = "gestor" => w.actor = req[r].actor
      BY <1>3
    <2>2. QED BY <1>3, <1>4, <1>5, <2>1 DEF WriteOK
  <1>7. req' = [req EXCEPT ![r] = w]
    BY DEF Write
  <1>8. QED BY <1>1, <1>3, <1>4, <1>6, <1>7, StepKeeps

LEMMA ReadsKeeps ==
  ASSUME IInv, NEW r \in Requests,
         \/ \E a \in Users, op \in {"create", "update", "deactivate"} : ReadActor(r, op, a)
         \/ Refused(r) \/ ReadGestor(r) \/ Rollback(r) \/ UpdateRow(r)
  PROVE  IInv'
  <1>1. ASSUME NEW a \in Users, NEW op \in {"create", "update", "deactivate"}, ReadActor(r, op, a)
        PROVE  IInv'
    <2> DEFINE q == [IdleRequest EXCEPT !.op = op, !.pc = "readTarget",
                 !.actor = a, !.actorRole = IF users[a].role = "gestor" THEN "gestor" ELSE "admin"]
    <2>1. started' \in 0..MaxRequests
      <3>1. started \in 0..MaxRequests
        BY DEF IInv, TypeOK
      <3>2. started < MaxRequests /\ started' = started + 1
        BY <1>1 DEF ReadActor
      <3>3. QED BY <3>1, <3>2, ConstantsAssumption
    <2>2. q \in Request /\ q.pc \notin Decided
      BY <2>1, IdleOK DEF Request, Decided
    <2>3. req' = [req EXCEPT ![r] = q] /\ UNCHANGED <<users, tokens>>
      BY <1>1 DEF ReadActor
    <2> HIDE DEF q
    <2>4. QED BY <2>1, <2>2, <2>3, UndecidedWrites, StepKeeps
  <1>2. CASE Finish(r) /\ UNCHANGED <<users, tokens, started>>
    BY <1>2, FinishKeeps
  <1>3. CASE Goto(r, "write") /\ req[r].pc = "readGestor" /\ UNCHANGED <<users, tokens, started>>
    BY <1>3, GotoKeeps
  <1>4. CASE UpdateRow(r)
    BY <1>4, GotoKeeps DEF UpdateRow
  <1>5. QED BY <1>1, <1>2, <1>3, <1>4 DEF Refused, ReadGestor, Rollback

LEMMA DecisionsKeeps ==
  ASSUME IInv, NEW r \in Requests,
         \/ \E u \in Users, body \in UpdateUserRequest : UpdateReadTarget(r, u, body)
         \/ \E u \in Users : DeactivateReadTarget(r, u)
         \/ \E email \in Email, role \in UserRole, g \in Users \cup {None} :
              CreateReadEmail(r, email, role, g)
  PROVE  IInv'
  <1>1. req[r] \in Request /\ req[r].actor \in Users \cup {None}
    BY DEF IInv, TypeOK, Request
  <1>2. ASSUME NEW u \in Users, NEW body \in UpdateUserRequest, UpdateReadTarget(r, u, body)
        PROVE  IInv'
    <2>1. Exists(u) /\ req[r].op = "update" /\ UNCHANGED <<users, tokens, started>>
      BY <1>2 DEF UpdateReadTarget, At
    <2>2. /\ body.role \in UserRole \cup {None, Absent}
          /\ body.gestor \in Users \cup {None, Absent}
      BY DEF UpdateUserRequest
    <2>3. CASE /\ req[r].actorRole = "gestor" /\ GestorTeamScope(req[r].actor, users[u], body)
               /\ Write(r, u, GestorFields(req[r].actor, body), None)
      <3> DEFINE f == GestorFields(req[r].actor, body)
      <3>1. f \in Fields
        BY <1>1, <2>2 DEF GestorFields, Fields, NoFields, UserRole
      <3>2. f.role \in {Absent, "operador"} /\ f.gestor \in {Absent, None, req[r].actor}
        BY DEF GestorFields, NoFields
      <3>3. users[u].role = "operador"
        BY <2>3 DEF GestorTeamScope
      <3>4. u # None
        BY ConstantsAssumption
      <3>5. ~((f.role = Absent => users[u].role # "operador") /\ f.role # "operador")
        BY <3>2, <3>3
      <3> HIDE DEF f
      <3>6. QED BY <2>1, <2>3, <3>1, <3>2, <3>4, <3>5, WriteKeeps DEF f
    <2>4. CASE req[r].actorRole # "gestor" /\ Write(r, u, AdminFields(users[u], body), None)
      <3> DEFINE f == AdminFields(users[u], body)
      <3>1. f \in Fields
        BY <2>2 DEF AdminFields, Fields, NoFields, UserRole
      <3>2. ASSUME f.role = Absent => users[u].role # "operador", f.role # "operador"
            PROVE  f.gestor = None
        BY <2>2, <3>2, ConstantsAssumption DEF AdminFields, NoFields, FinalRole
      <3>3. u # None
        BY ConstantsAssumption
      <3> HIDE DEF f
      <3>4. QED BY <2>1, <2>4, <3>1, <3>2, <3>3, WriteKeeps DEF f
    <2>5. QED BY <1>2, <2>3, <2>4 DEF UpdateReadTarget
  <1>3. ASSUME NEW u \in Users, DeactivateReadTarget(r, u) PROVE IInv'
    <2> DEFINE f == [NoFields EXCEPT !.active = FALSE]
    <2>1. f \in Fields /\ f.role = Absent /\ f.gestor = Absent
      BY DEF Fields, NoFields
    <2>2. Exists(u) /\ req[r].op = "deactivate" /\ UNCHANGED <<users, tokens, started>> /\ Write(r, u, f, None)
      BY <1>3 DEF DeactivateReadTarget, At
    <2>3. u # None
      BY ConstantsAssumption
    <2>4. QED BY <2>1, <2>2, <2>3, WriteKeeps
  <1>4. ASSUME NEW email \in Email, NEW role \in UserRole, NEW g \in Users \cup {None},
               CreateReadEmail(r, email, role, g)
        PROVE  IInv'
    <2> DEFINE fields(h) == [NoFields EXCEPT !.role = role, !.gestor = h]
    <2>1. req[r].op = "create" /\ UNCHANGED <<users, tokens, started>>
      BY <1>4 DEF CreateReadEmail, At
    <2>2. ASSUME NEW h \in Users \cup {None}
          PROVE  fields(h) \in Fields /\ fields(h).role = role /\ fields(h).gestor = h
      BY DEF Fields, NoFields
    <2>3. CASE /\ req[r].actorRole = "gestor" /\ role = "operador"
               /\ Write(r, None, fields(req[r].actor), email)
      BY <1>1, <2>1, <2>2, <2>3, WriteKeeps
    <2>4. CASE req[r].actorRole # "gestor" /\ Write(r, None, fields(g), email)
      BY <2>1, <2>2, <2>4, WriteKeeps
    <2>5. QED BY <1>4, <2>3, <2>4 DEF CreateReadEmail
  <1>5. QED BY <1>2, <1>3, <1>4

\* An INSERT waits for those of the same address, and for none it takes a row that
\* another one has.
LEMMA InsertKeeps ==
  ASSUME IInv, NEW r \in Requests, NEW u \in Users, InsertRow(r, u)
  PROVE  IInv'
  <1> DEFINE q == [req[r] EXCEPT !.target = u, !.pc = "commit"]
  <1>1. /\ req[r] \in Request /\ req[r].op = "create" /\ req[r].pc = "write"
        /\ WriteOK(req[r]) /\ ~Exists(u) /\ UNCHANGED <<users, tokens, started>>
        /\ started' \in 0..MaxRequests
    BY DEF InsertRow, At, IInv, TypeOK
  <1>2. /\ q \in Request /\ q.op = "create" /\ q.target = u /\ q.pc = "commit"
        /\ q.fields = req[r].fields /\ q.email = req[r].email
        /\ q.actor = req[r].actor /\ q.actorRole = req[r].actorRole
    BY <1>1 DEF Request
  <1>3. CASE Finish(r)
    BY <1>1, <1>3, FinishKeeps
  <1>4. CASE /\ ~\E v \in Users : Exists(v) /\ users[v].email = req[r].email
             /\ req' = [req EXCEPT ![r] = q]
    <2>1. WriteOK(q)
      BY <1>1, <1>2, <1>4 DEF WriteOK, Decided
    <2>2. \A p \in Requests \ {r} :
            Inserting(req[p]) => q.target # req[p].target /\ q.email # req[p].email
      BY <1>2 DEF InsertRow, Inserting
    <2>3. QED BY <1>1, <1>2, <1>4, <2>1, <2>2, StepKeeps
  <1>5. QED BY <1>3, <1>4 DEF InsertRow

\* A row that is committed exists from then on, and its address is in no other row
\* and in no INSERT that is not committed yet.
LEMMA CommitKeeps ==
  ASSUME IInv, NEW r \in Requests, Commit(r)
  PROVE  IInv'
  <1> DEFINE q == req[r]
             u == q.target
             before == IF q.op = "create" THEN [users[u] EXCEPT !.email = q.email] ELSE users[u]
             row == Apply(before, q.fields)
  <1>1. /\ q \in Request /\ users \in [Users -> User] /\ q.fields \in Fields
        /\ q.email \in Email \cup {None} /\ tokens \subseteq Users /\ req \in [Requests -> Request]
        /\ q.pc = "commit" /\ WriteOK(q)
    BY DEF Commit, IInv, TypeOK, Request
  <1>2. /\ u \in Users /\ users[u] \in User
        /\ q.op = "create" => /\ Inserting(q) /\ ~Exists(u) /\ q.fields.role \in UserRole
                              /\ \A v \in Users : Exists(v) => users[v].email # q.email
        /\ q.op # "create" => ~Inserting(q) /\ Exists(u)
    BY <1>1 DEF WriteOK, Decided, Inserting
  <1>3. before \in User /\ before.role = users[u].role /\ before.gestor = users[u].gestor
    BY <1>1, <1>2 DEF User
  <1>4. /\ q.fields.role = Absent \/ q.fields.role \in UserRole
        /\ q.fields.gestor = Absent \/ q.fields.gestor \in Users \cup {None}
        /\ q.fields.active = FALSE \/ q.fields.active = Absent
    BY <1>1 DEF Fields
  <1>5. /\ row.role = IF q.fields.role = Absent THEN users[u].role ELSE q.fields.role
        /\ row.email = IF q.op = "create" THEN q.email ELSE users[u].email
    BY <1>1, <1>2, <1>3 DEF Apply, User
  <1>6. row \in User
    <2> DEFINE f == q.fields
               active == IF f.active = Absent THEN before.active ELSE f.active
    <2> HIDE DEF before
    <2>1. active \in BOOLEAN
      <3>1. before.active \in BOOLEAN
        BY <1>3 DEF User
      <3>2. QED BY <1>4, <3>1
    <2>2. row = [before EXCEPT !.role = IF f.role = Absent THEN @ ELSE f.role,
                               !.gestor = IF f.gestor = Absent THEN @ ELSE f.gestor,
                               !.active = active]
      BY <1>3 DEF Apply, User
    <2> HIDE DEF active
    <2>3. QED BY <1>3, <1>4, <2>1, <2>2 DEF User
  <1>7. users' = [users EXCEPT ![u] = row] /\ started' = started
        /\ tokens' = tokens \cup {v \in Users : users'[v].role \in {"admin", "gestor"}}
    BY DEF Commit, MintAccessTokens
  <1>8. /\ users' \in [Users -> User] /\ users'[u] = row
        /\ \A v \in Users : v # u => users'[v] = users[v]
    BY <1>1, <1>2, <1>6, <1>7
  <1>9. req' = [req EXCEPT ![r] = IdleRequest]
    BY DEF Commit, Finish
  <1>10. req'[r] = IdleRequest /\ \A p \in Requests : p # r => req'[p] = req[p]
    BY <1>1, <1>9
  <1>11. row.role # "none"
    BY <1>2, <1>4, <1>5, ConstantsAssumption DEF UserRole, Exists
  <1>12. \A v \in Users : Exists(v)' <=> Exists(v) \/ v = u
    BY <1>8, <1>11 DEF Exists
  <1> HIDE DEF row, before
  <1>13. TypeOK'
    BY <1>1, <1>7, <1>8, <1>9, IdleOK DEF TypeOK, IInv
  <1>14. NewRowsAreBlank'
    BY <1>8, <1>12 DEF NewRowsAreBlank, IInv
  <1>15. TokensHaveAccounts'
    <2>1. ASSUME NEW v \in Users, users'[v].role \in {"admin", "gestor"} PROVE users'[v].role # "none"
      BY <2>1
    <2>2. QED BY <1>1, <1>7, <1>12, <2>1 DEF TokensHaveAccounts, Exists, IInv
  <1>16. AddressesDiffer'
    <2> SUFFICES ASSUME NEW v \in Users, NEW w \in Users, v # w,
                        users'[v].email # None, users'[v].email = users'[w].email
                 PROVE  FALSE
      BY DEF AddressesDiffer
    <2>1. CASE q.op # "create"
      BY <1>5, <1>8, <2>1 DEF AddressesDiffer, IInv
    <2>2. CASE q.op = "create"
      <3>1. \A x \in Users : x # u /\ users[x].email # None => users[x].email # row.email
        BY <1>2, <1>5, <2>2 DEF NewRowsAreBlank, IInv
      <3>2. CASE v = u
        BY <1>8, <3>1, <3>2
      <3>3. CASE w = u
        BY <1>8, <3>1, <3>3
      <3>4. CASE v # u /\ w # u
        BY <1>8, <3>4 DEF AddressesDiffer, IInv
      <3>5. QED BY <3>2, <3>3, <3>4
    <2>3. QED BY <2>1, <2>2
  <1>17. IdleRequest.pc = "idle" /\ IdleRequest.pc \notin Decided
    BY DEF IdleRequest, Decided
  <1>18. InsertsDiffer'
    <2> SUFFICES ASSUME NEW a \in Requests, NEW b \in Requests, a # b,
                        Inserting(req'[a]), Inserting(req'[b])
                 PROVE  req'[a].target # req'[b].target /\ req'[a].email # req'[b].email
      BY DEF InsertsDiffer, Inserting
    <2>1. a # r /\ b # r
      BY <1>10, <1>17 DEF Inserting
    <2>2. QED BY <1>10, <2>1 DEF IInv, InsertsDiffer
  <1>19. ASSUME NEW p \in Requests PROVE WriteOK(req[p])'
    <2>1. CASE p = r
      <3>1. /\ req'[p].pc \notin Decided
            /\ ~(req'[p].op = "create" /\ req'[p].pc = "commit")
        BY <1>10, <1>17, <2>1
      <3>2. QED BY <3>1 DEF WriteOK, Inserting
    <2>2. CASE p # r
      <3>0. PICK o \in Request : o = req[p]
        BY DEF IInv, TypeOK
      <3>1. req'[p] = o /\ WriteOK(o)
        BY <1>10, <2>2, <3>0 DEF IInv
      <3>2. ASSUME Inserting(o)
            PROVE  /\ o.target \in Users /\ o.target # u /\ ~Exists(o.target)
                   /\ \A v \in Users : Exists(v) => users[v].email # o.email
                   /\ users'[u].email # o.email
        <4>1. /\ o.target \in Users /\ ~Exists(o.target)
              /\ \A v \in Users : Exists(v) => users[v].email # o.email
          BY <3>1, <3>2 DEF WriteOK
        <4>2. CASE q.op = "create"
          <5>1. q.target # o.target /\ q.email # o.email
            BY <1>2, <2>2, <3>0, <3>2, <4>2 DEF IInv, InsertsDiffer
          <5>2. QED BY <1>5, <1>8, <4>1, <4>2, <5>1
        <4>3. CASE q.op # "create"
          BY <1>2, <1>5, <1>8, <4>1, <4>3
        <4>4. QED BY <4>2, <4>3
      <3>3. ASSUME Inserting(o)
            PROVE  /\ ~Exists(o.target)'
                   /\ \A v \in Users : Exists(v)' => users'[v].email # o.email
        BY <1>8, <1>12, <3>2, <3>3
      <3>4. o.target \in Users /\ Exists(o.target) => Exists(o.target)'
        BY <1>12
      <3>5. QED BY <3>1, <3>2, <3>3, <3>4 DEF WriteOK, Inserting
    <2>3. QED BY <2>1, <2>2
  <1>20. QED BY <1>13, <1>14, <1>15, <1>16, <1>18, <1>19 DEF IInv

LEMMA InitHolds == Init => IInv
  <1> SUFFICES ASSUME Init PROVE IInv
    OBVIOUS
  <1>1. TypeOK /\ NewRowsAreBlank /\ TokensHaveAccounts /\ \A u \in Users : users[u].email = None
    BY InitOK
  <1>2. \A r \in Requests : WriteOK(req[r]) /\ ~Inserting(req[r])
    BY UndecidedWrites DEF Init, IdleRequest, Decided
  <1>3. QED BY <1>1, <1>2 DEF IInv, AddressesDiffer, InsertsDiffer

LEMMA NextStepKeeps == IInv /\ [Next]_vars => IInv'
  <1> SUFFICES ASSUME IInv, [Next]_vars PROVE IInv'
    OBVIOUS
  <1>1. ASSUME NEW r \in Requests,
               \/ \E a \in Users, op \in {"create", "update", "deactivate"} : ReadActor(r, op, a)
               \/ Refused(r) \/ ReadGestor(r) \/ Rollback(r) \/ UpdateRow(r)
        PROVE  IInv'
    BY <1>1, ReadsKeeps
  <1>2. ASSUME NEW r \in Requests,
               \/ \E u \in Users, body \in UpdateUserRequest : UpdateReadTarget(r, u, body)
               \/ \E u \in Users : DeactivateReadTarget(r, u)
               \/ \E email \in Email, role \in UserRole, g \in Users \cup {None} :
                    CreateReadEmail(r, email, role, g)
        PROVE  IInv'
    BY <1>2, DecisionsKeeps
  <1>3. ASSUME NEW r \in Requests, \E u \in Users : InsertRow(r, u)
        PROVE  IInv'
    BY <1>3, InsertKeeps
  <1>4. ASSUME NEW r \in Requests, Commit(r) PROVE IInv'
    BY <1>4, CommitKeeps
  <1>5. CASE UNCHANGED vars
    BY <1>5 DEF vars, IInv, TypeOK, NewRowsAreBlank, TokensHaveAccounts, AddressesDiffer,
                InsertsDiffer, Inserting, WriteOK, FitsRoleRead, Exists
  <1>6. QED BY <1>1, <1>2, <1>3, <1>4, <1>5 DEF Next

\* What any number of requests at once keep.
THEOREM Invariance == Spec => []IInv
  <1>1. QED BY InitHolds, NextStepKeeps, PTL DEF Spec

\* Every reachable state is well typed.
THEOREM TypeCorrectness == Spec => []TypeOK
  <1>1. IInv => TypeOK
    BY DEF IInv
  <1>2. QED BY <1>1, Invariance, PTL

\* No spelling of an address is in two accounts, however many are created at once
\* (models/user.py:24, user_repository.py:26-42).
THEOREM SpellingsDiffer == Spec => []AddressesDiffer
  <1>1. IInv => AddressesDiffer
    BY DEF IInv
  <1>2. QED BY <1>1, Invariance, PTL

\* Whatever becomes of an account's team between the check of an update and its
\* UPDATE, role and team fit together afterwards, unless the role has changed
\* (user_service.py:119-126, 156-175).
THEOREM TeamsOfOperators == Spec => OnlyRoleRacesMixTeams
  <1> DEFINE A == \A r \in Requests :
               Commit(r) /\ req[r].op = "update" /\ users[req[r].target].role = req[r].seen =>
                 LET after == users'[req[r].target]
                 IN  after.gestor # None => after.role = "operador"
  <1>1. IInv => A
    <2> SUFFICES ASSUME IInv, NEW r \in Requests, Commit(r), req[r].op = "update",
                        users[req[r].target].role = req[r].seen,
                        users'[req[r].target].role # "operador"
                 PROVE  users'[req[r].target].gestor = None
      OBVIOUS
    <2> DEFINE f == req[r].fields
               u == req[r].target
    <2>1. u \in Users /\ users \in [Users -> User] /\ FitsRoleRead(req[r])
      BY DEF IInv, TypeOK, WriteOK, Decided, Commit
    <2>2. /\ users'[u].role = IF f.role = Absent THEN users[u].role ELSE f.role
          /\ users'[u].gestor = IF f.gestor = Absent THEN users[u].gestor ELSE f.gestor
      BY <2>1 DEF Commit, Apply, User
    <2>3. f.gestor = None
      BY <2>1, <2>2 DEF FitsRoleRead
    <2>4. QED BY <2>2, <2>3, ConstantsAssumption
  <1>2. IInv /\ [Next]_vars => [A]_vars
    BY <1>1
  <1>3. QED BY <1>2, Invariance, PTL DEF Spec, OnlyRoleRacesMixTeams

\* A gestor appoints nobody and fills only its own team, whatever others do to the
\* row between the check and the UPDATE (user_service.py:76-95, 107-117, 148-154).
THEOREM NoManagersByGestors == Spec => GestorsMakeNoManagers
  <1> DEFINE A == \A r \in Requests : Commit(r) /\ req[r].actorRole = "gestor" =>
               LET before == users[req[r].target]
                   after == users'[req[r].target]
               IN  /\ after.role \in {before.role, "operador"}
                   /\ after.gestor \in {before.gestor, None, req[r].actor}
  <1>1. IInv => A
    <2> SUFFICES ASSUME IInv, NEW r \in Requests, Commit(r), req[r].actorRole = "gestor"
                 PROVE  LET before == users[req[r].target]
                            after == users'[req[r].target]
                        IN  /\ after.role \in {before.role, "operador"}
                            /\ after.gestor \in {before.gestor, None, req[r].actor}
      OBVIOUS
    <2> DEFINE f == req[r].fields
               u == req[r].target
    <2>1. /\ f.role \in {Absent, "operador"} /\ f.gestor \in {Absent, None, req[r].actor}
          /\ u \in Users /\ users \in [Users -> User]
      BY DEF IInv, TypeOK, WriteOK, Decided, Commit, Inserting
    <2>2. /\ users'[u].role = IF f.role = Absent THEN users[u].role ELSE f.role
          /\ users'[u].gestor = IF f.gestor = Absent THEN users[u].gestor ELSE f.gestor
      BY <2>1 DEF Commit, Apply, User
    <2>3. QED BY <2>1, <2>2
  <1>2. IInv /\ [Next]_vars => [A]_vars
    BY <1>1
  <1>3. QED BY <1>2, Invariance, PTL DEF Spec, GestorsMakeNoManagers
=============================================================================
