------------------------------- MODULE UserAdmin -------------------------------
(***************************************************************************)
(* Accounts, roles and teams: UserService.create_user, update_user and     *)
(* deactivate_user (app/services/user_service.py) behind the permission    *)
(* check of app/api/deps.py.                                                *)
(*                                                                         *)
(* A request reads the actor, then the target (and the gestor it names),   *)
(* decides on what it has read, and only then updates the row.  Nothing    *)
(* locks what was read: PostgreSQL runs each statement at READ COMMITTED.   *)
(* An action is one statement or the end of the transaction; a request that *)
(* is refused at its first statement is not an action.  What deactivation   *)
(* does to the sessions of the account is in AuthSessions.                  *)
(***************************************************************************)
EXTENDS Naturals

CONSTANTS Users,     \* account rows, those yet to be created included (bound)
          Admins, Gestors, Operators, \* the accounts that exist at the start
          Mailboxes, \* addresses of new accounts, each the set of its spellings
          Requests,  \* request slots: requests in flight at once (bound)
          MaxRequests, \* requests altogether (bound)
          None,      \* NULL
          Absent     \* a field the request body does not carry

UserRole == {"admin", "gestor", "operador"}

\* Spellings differ in letter case.
Email == UNION Mailboxes

ASSUME ConstantsAssumption ==
  /\ Admins \cup Gestors \cup Operators \subseteq Users
  /\ Admins \cap Gestors = {} /\ Admins \cap Operators = {} /\ Gestors \cap Operators = {}
  /\ {None, Absent} \cap (Users \cup UserRole \cup Email) = {} /\ None # Absent
  /\ MaxRequests \in Nat

VARIABLES users,  \* table integration.users, committed rows
          tokens, \* accounts that may have an access token that manages users
          req,    \* the transaction of each request slot
          started \* requests so far

vars == <<users, tokens, req, started>>

\* role "none": no such row.
User == [role : UserRole \cup {"none"}, gestor : Users \cup {None},
         active : BOOLEAN, email : Email \cup {None}]

\* What a request will write; Absent leaves the column alone.
Fields == [role : UserRole \cup {Absent}, gestor : Users \cup {None, Absent},
           active : {FALSE, Absent}]

NoFields == [role |-> Absent, gestor |-> Absent, active |-> Absent]

\* actorRole is the role that was read, not the one in the access token, and any
\* other than gestor is treated as an administrator's; such an actor is forgotten
\* when the checks are done.  seen is the role of the target as it was read.
Request == [op : {"idle", "create", "update", "deactivate"},
            pc : {"idle", "readTarget", "readGestor", "write", "commit"},
            actor : Users \cup {None}, actorRole : {"admin", "gestor", None},
            target : Users \cup {None}, seen : UserRole \cup {None},
            fields : Fields, email : Email \cup {None}]

IdleRequest == [op |-> "idle", pc |-> "idle", actor |-> None, actorRole |-> None,
                target |-> None, seen |-> None, fields |-> NoFields, email |-> None]

\* UpdateUserRequest with exclude_unset: a field may be absent or null.
UpdateUserRequest == [role : UserRole \cup {None, Absent},
                      gestor : Users \cup {None, Absent}]

TypeOK ==
  /\ users \in [Users -> User]
  /\ tokens \subseteq Users
  /\ req \in [Requests -> Request]
  /\ started \in 0..MaxRequests

Exists(u) == users[u].role # "none"

Init ==
  /\ \E team \in [Operators -> Gestors \cup {None}] :
       users = [u \in Users |->
         [role |-> CASE u \in Admins -> "admin" [] u \in Gestors -> "gestor"
                     [] u \in Operators -> "operador" [] OTHER -> "none",
          gestor |-> IF u \in Operators THEN team[u] ELSE None,
          active |-> TRUE, email |-> None]]
  /\ tokens = Admins \cup Gestors
  /\ req = [r \in Requests |-> IdleRequest]
  /\ started = 0

-----------------------------------------------------------------------------
At(r, op, pc) == req[r].op = op /\ req[r].pc = pc
Goto(r, pc) == req' = [req EXCEPT ![r].pc = pc]
Finish(r) == req' = [req EXCEPT ![r] = IdleRequest]

\* require_any_permission on the token, then _get_actor_or_raise.
ReadActor(r, op, a) ==
  /\ req[r] = IdleRequest /\ started < MaxRequests
  /\ a \in tokens /\ users[a].active
  /\ req' = [req EXCEPT ![r] =
       [IdleRequest EXCEPT !.op = op, !.pc = "readTarget", !.actor = a,
          !.actorRole = IF users[a].role = "gestor" THEN "gestor" ELSE "admin"]]
  /\ started' = started + 1 /\ UNCHANGED <<users, tokens>>

\* The request goes on to write f, after reading the gestor it names if the
\* actor is not a gestor.
Write(r, u, f, email) ==
  req' = [req EXCEPT ![r].target = u, ![r].fields = f, ![r].email = email,
            ![r].actor = IF req[r].actorRole = "gestor" THEN @ ELSE None,
            ![r].seen = IF u = None THEN None ELSE users[u].role,
            ![r].pc = IF req[r].actorRole # "gestor" /\ f.gestor \in Users
                      THEN "readGestor" ELSE "write"]

-----------------------------------------------------------------------------
\* _ensure_gestor_team_scope, for the gestor a and the target row v.
GestorTeamScope(a, v, body) ==
  /\ v.role = "operador"
  /\ body.role \in {"operador", None, Absent}
  /\ \/ v.gestor = a /\ body.gestor \in {a, None, Absent}
     \/ v.gestor = None /\ body.gestor = a

GestorFields(a, body) ==
  [NoFields EXCEPT
     !.role = IF body.role = Absent THEN Absent ELSE "operador",
     !.gestor = IF body.gestor \in {a, Absent} THEN body.gestor ELSE None]

FinalRole(v, body) == IF body.role \in UserRole THEN body.role ELSE v.role

\* Mutant: a promotion clears the team only of an operator that was seen in one.
PromotionClearsSeenTeam(v, body) ==
  [NoFields EXCEPT
     !.role = IF body.role \in UserRole THEN body.role ELSE Absent,
     !.gestor = IF FinalRole(v, body) # "operador"
                THEN IF v.gestor # None THEN None ELSE Absent
                ELSE IF body.gestor # Absent THEN body.gestor
                ELSE IF v.role # "operador" THEN None ELSE Absent]

\* The rest of _build_update_fields: any other actor is treated as an admin.
AdminFields(v, body) ==
  [NoFields EXCEPT
     !.role = IF body.role \in UserRole THEN body.role ELSE Absent,
     !.gestor = IF FinalRole(v, body) # "operador" THEN None
                ELSE IF body.gestor # Absent THEN body.gestor
                ELSE IF v.role # "operador" THEN None ELSE Absent]

UpdateReadTarget(r, u, body) ==
  /\ At(r, "update", "readTarget") /\ Exists(u)
  /\ LET a == req[r].actor
     IN  \/ /\ req[r].actorRole = "gestor" /\ GestorTeamScope(a, users[u], body)
            /\ Write(r, u, GestorFields(a, body), None)
         \/ /\ req[r].actorRole # "gestor"
            /\ FinalRole(users[u], body) # "operador" => body.gestor \in {None, Absent}
            /\ Write(r, u, AdminFields(users[u], body), None)
  /\ UNCHANGED <<users, tokens, started>>

\* deactivate_user, never of the own account.
DeactivateReadTarget(r, u) ==
  /\ At(r, "deactivate", "readTarget") /\ Exists(u) /\ u # req[r].actor
  /\ req[r].actorRole = "gestor" =>
       users[u].role = "operador" /\ users[u].gestor = req[r].actor
  /\ Write(r, u, [NoFields EXCEPT !.active = FALSE], None)
  /\ UNCHANGED <<users, tokens, started>>

SameMailbox(e, f) == \E m \in Mailboxes : {e, f} \subseteq m

\* get_by_email compares lower(email).
EmailTaken(email) == \E u \in Users : Exists(u) /\ SameMailbox(users[u].email, email)

\* Mutant: create_user does not tell a gestor from an administrator.
CreateReadEmailAnyRole(r, email, role, gestor) ==
  /\ At(r, "create", "readTarget") /\ ~EmailTaken(email)
  /\ role # "operador" => gestor = None
  /\ Write(r, None, [NoFields EXCEPT !.role = role, !.gestor = gestor], email)
  /\ UNCHANGED <<users, tokens, started>>

\* create_user: the e-mail, then _build_create_gestor_id.
CreateReadEmail(r, email, role, gestor) ==
  /\ At(r, "create", "readTarget") /\ ~EmailTaken(email)
  /\ LET a == req[r].actor
     IN  \/ /\ req[r].actorRole = "gestor" /\ role = "operador" /\ gestor \in {None, a}
            /\ Write(r, None, [NoFields EXCEPT !.role = role, !.gestor = a], email)
         \/ /\ req[r].actorRole # "gestor" /\ (role # "operador" => gestor = None)
            /\ Write(r, None, [NoFields EXCEPT !.role = role, !.gestor = gestor], email)
  /\ UNCHANGED <<users, tokens, started>>

\* The checks after ReadActor raise 403, 404, 409 or 422.
Refused(r) ==
  /\ req[r].pc = "readTarget"
  /\ Finish(r)
  /\ UNCHANGED <<users, tokens, started>>

\* _validate_gestor_reference
ReadGestor(r) ==
  /\ req[r].pc = "readGestor"
  /\ LET g == users[req[r].fields.gestor]
     IN  IF g.role = "gestor" /\ g.active THEN Goto(r, "write") ELSE Finish(r)
  /\ UNCHANGED <<users, tokens, started>>

HasRow(q, u) == req[q].pc = "commit" /\ req[q].target = u /\ req[q].fields # NoFields

\* UPDATE: waits for the transaction that has the row.  A request that changes
\* no field runs no UPDATE.
UpdateRow(r) ==
  /\ req[r].op \in {"update", "deactivate"} /\ req[r].pc = "write"
  /\ req[r].fields # NoFields => \A q \in Requests : ~HasRow(q, req[r].target)
  /\ Goto(r, "commit")
  /\ UNCHANGED <<users, tokens, started>>

\* Mutant: no unique index, the address is only checked beforehand.
InsertRowUnchecked(r, u) ==
  /\ At(r, "create", "write") /\ ~Exists(u)
  /\ \A q \in Requests : req[q].pc = "commit" => req[q].target # u
  /\ req' = [req EXCEPT ![r].target = u, ![r].pc = "commit"]
  /\ UNCHANGED <<users, tokens, started>>

\* INSERT: waits for an INSERT of the same address; a taken one is refused by
\* the unique index, which compares the spelling.
InsertRow(r, u) ==
  /\ At(r, "create", "write") /\ ~Exists(u)
  /\ \A q \in Requests : req[q].pc = "commit" =>
       req[q].target # u /\ (req[q].op = "create" => req[q].email # req[r].email)
  /\ IF \E v \in Users : Exists(v) /\ users[v].email = req[r].email
     THEN Finish(r)
     ELSE req' = [req EXCEPT ![r].target = u, ![r].pc = "commit"]
  /\ UNCHANGED <<users, tokens, started>>

\* Mutant: unset fields are written as well.
ApplyUnset(v, f) ==
  [v EXCEPT !.role = f.role, !.gestor = f.gestor,
            !.active = IF f.active = Absent THEN @ ELSE f.active]

Apply(v, f) ==
  [v EXCEPT !.role = IF f.role = Absent THEN @ ELSE f.role,
            !.gestor = IF f.gestor = Absent THEN @ ELSE f.gestor,
            !.active = IF f.active = Absent THEN @ ELSE f.active]

\* An access token keeps the role it was minted with, so an account that manages users
\* may go on with an old one.  Whether the account logs in and when the token expires
\* is left open: either only keeps requests away.
MintAccessTokens ==
  tokens \cup {u \in Users : users'[u].role \in {"admin", "gestor"}}

Commit(r) ==
  /\ req[r].pc = "commit"
  /\ users' = [users EXCEPT ![req[r].target] =
       IF req[r].op = "create" THEN Apply([@ EXCEPT !.email = req[r].email], req[r].fields)
                               ELSE Apply(@, req[r].fields)]
  /\ tokens' = MintAccessTokens
  /\ Finish(r)
  /\ UNCHANGED started

Rollback(r) ==
  /\ req[r].pc \in {"readGestor", "write", "commit"}
  /\ Finish(r)
  /\ UNCHANGED <<users, tokens, started>>

-----------------------------------------------------------------------------
Next ==
  \E r \in Requests :
       \/ \E a \in Users, op \in {"create", "update", "deactivate"} : ReadActor(r, op, a)
       \/ \E u \in Users, body \in UpdateUserRequest : UpdateReadTarget(r, u, body)
       \/ \E u \in Users : DeactivateReadTarget(r, u)
       \/ \E email \in Email, role \in UserRole, g \in Users \cup {None} :
            CreateReadEmail(r, email, role, g)
       \/ Refused(r) \/ ReadGestor(r) \/ UpdateRow(r)
       \/ \E u \in Users : InsertRow(r, u)
       \/ Commit(r) \/ Rollback(r)

Spec == Init /\ [][Next]_vars

-----------------------------------------------------------------------------
\* Of all that other requests may do to an account between the check of an update and
\* its UPDATE, only a change of the role can leave somebody in a team who is no
\* operator: whatever the team has become, an update that writes on the role it has
\* read fits role and team together, one after such a change included
\* (user_service.py:119-126, 156-175; message of 161-163).
OnlyRoleRacesMixTeams ==
  [][\A r \in Requests :
       Commit(r) /\ req[r].op = "update" /\ users[req[r].target].role = req[r].seen =>
         LET after == users'[req[r].target]
         IN  after.gestor # None => after.role = "operador"]_vars

\* Whatever a request of a gestor commits, with any number of others beside it, makes
\* nobody an administrator or a gestor and puts nobody into another gestor's team
\* (user_service.py:76-95, 107-117, 148-154; docs/guia-integracao.md:148-151).
GestorsMakeNoManagers ==
  [][\A r \in Requests : Commit(r) /\ req[r].actorRole = "gestor" =>
       LET before == users[req[r].target]
           after == users'[req[r].target]
       IN  /\ after.role \in {before.role, "operador"}
           /\ after.gestor \in {before.gestor, None, req[r].actor}]_vars

\* However many create_user requests have found an address free at once, each of its
\* spellings goes to one account (models/user.py:24, user_repository.py:20-42).  Two
\* spellings may go to two.
AddressesDiffer ==
  \A u, v \in Users : users[u].email # None /\ users[u].email = users[v].email => u = v

-----------------------------------------------------------------------------
\* What a document promises and the code does not keep.

\* A gestor's request changes operators of the own team, adds one without a
\* team, and leaves them operators (docs/guia-integracao.md:149-151).
GestorsEditOnlyTheirTeam ==
  [][\A r \in Requests :
       Commit(r) /\ req[r].actorRole = "gestor" /\ req[r].op # "create" =>
         LET v == users[req[r].target]
         IN  v.role = "operador" /\ v.gestor \in {req[r].actor, None}]_vars
=============================================================================
