------------------------------- MODULE LoginPool -------------------------------
(***************************************************************************)
(* The connection pool (app/db/session.py) under logins and health checks, *)
(* and the audit record of a login.                                        *)
(*                                                                         *)
(* A login (AuthService.login) has one connection from its first statement *)
(* to the end of its transaction, also while it waits for the users row    *)
(* that an earlier login of the account has updated.  An accepted login    *)
(* writes its audit record in the session of its refresh token, where a    *)
(* failed flush rolls everything back.  A refused one asks AuditService.log *)
(* for a transaction of its own, which the application's AsyncEngine never *)
(* gets: bind.engine is the synchronous Engine, AsyncSession raises        *)
(* ArgumentError, and log swallows it.  No second connection is asked for. *)
(* A health check (endpoints/health.py) takes its connection from the same *)
(* pool and turns any failure into "unavailable".                          *)
(***************************************************************************)
EXTENDS Naturals, FiniteSets

CONSTANTS Requests,     \* logins and health checks, each used once (bound)
          HealthChecks, \* those that are health checks
          Accounts,     \* accounts the logins name
          PoolSize      \* pool_size + max_overflow, 30 by default

ASSUME ConstantsAssumption ==
  IsFiniteSet(Requests) /\ HealthChecks \subseteq Requests /\ PoolSize \in Nat \ {0}

VARIABLES pc,      \* what each request does next
          account, \* the account each login names
          free,    \* connections of the pool that nobody has
          session, \* what each request has written and not committed
          stored,  \* what each request has committed
          answer   \* what each request is answered with, "none" before

vars == <<pc, account, free, session, stored, answer>>

Pcs == {"new", "connect", "select", "authenticate", "lock", "save", "audit", "commit",
        "aborted", "auditRefusal", "refuse", "done"}

Writes == {"last_login", "refresh_token", "audit"}

\* "unavailable" and "ok": the status of the database in a health check's 200.
Answers == {"none", "200", "401", "500", "ok", "unavailable"}

Connected == Pcs \ {"new", "connect", "done"}

TypeOK ==
  /\ pc \in [Requests -> Pcs]
  /\ account \in [Requests -> Accounts]
  /\ free \in 0..PoolSize
  /\ session \in [Requests -> SUBSET Writes]
  /\ stored \in [Requests -> SUBSET Writes]
  /\ answer \in [Requests -> Answers]

Init ==
  /\ pc = [r \in Requests |-> "new"]
  /\ account \in [Requests -> Accounts]
  /\ free = PoolSize
  /\ session = [r \in Requests |-> {}]
  /\ stored = [r \in Requests |-> {}]
  /\ answer = [r \in Requests |-> "none"]

Move(r, from, to) == pc[r] = from /\ pc' = [pc EXCEPT ![r] = to]
Write(r, row) == session' = [session EXCEPT ![r] = @ \cup {row}]

\* The session is closed: its connection goes back to the pool.
End(r, from, code) ==
  /\ Move(r, from, "done")
  /\ free' = free + 1
  /\ session' = [session EXCEPT ![r] = {}]
  /\ answer' = [answer EXCEPT ![r] = code]
  /\ UNCHANGED account

\* Mutant: get_by_email locks the row FOR SHARE.
HoldsUserRowFromRead(r, a) ==
  pc[r] \in {"lock", "save", "audit", "commit"} /\ account[r] = a

\* The UPDATE of last_login_at locks the users row to the end of the transaction.
HoldsUserRow(r, a) == pc[r] \in {"save", "audit", "commit"} /\ account[r] = a

WaitsForUserRow(r) ==
  pc[r] = "lock" /\ \E q \in Requests \ {r} : HoldsUserRow(q, account[r])

-----------------------------------------------------------------------------
Arrive(r) ==
  /\ Move(r, "new", "connect")
  /\ UNCHANGED <<account, free, session, stored, answer>>

\* The session checks a connection out at its first statement.
Connect(r) ==
  /\ Move(r, "connect", IF r \in HealthChecks THEN "select" ELSE "authenticate")
  /\ free > 0 /\ free' = free - 1
  /\ UNCHANGED <<account, session, stored, answer>>

\* QueuePool gives up after its timeout (30 s).
ConnectTimeout(r) ==
  /\ free = 0
  /\ Move(r, "connect", "done")
  /\ answer' = [answer EXCEPT ![r] = IF r \in HealthChecks THEN "unavailable" ELSE "500"]
  /\ UNCHANGED <<account, free, session, stored>>

\* SELECT 1 returns or fails; the session is closed either way.
CheckDatabase(r) ==
  /\ End(r, "select", "ok") \/ End(r, "select", "unavailable")
  /\ UNCHANGED stored

\* get_by_email, is_active and verify_password.
Authenticate(r) ==
  /\ Move(r, "authenticate", "lock") \/ Move(r, "authenticate", "auditRefusal")
  /\ UNCHANGED <<account, free, session, stored, answer>>

UpdateLastLogin(r) ==
  /\ ~WaitsForUserRow(r)
  /\ Move(r, "lock", "save")
  /\ Write(r, "last_login")
  /\ UNCHANGED <<account, free, stored, answer>>

SaveRefreshToken(r) ==
  /\ Move(r, "save", "audit")
  /\ Write(r, "refresh_token")
  /\ UNCHANGED <<account, free, stored, answer>>

\* AuditService.log in the session of the login.
AuditLogin(r) ==
  /\ Move(r, "audit", "commit")
  /\ Write(r, "audit")
  /\ UNCHANGED <<account, free, stored, answer>>

\* Mutant: a failed audit INSERT costs its own row only.
AuditLoginLost(r) ==
  /\ Move(r, "audit", "commit")
  /\ UNCHANGED <<account, free, session, stored, answer>>

\* The flush fails: the transaction is rolled back, its locks are released, and
\* the session refuses what follows.  log swallows the exception.
AuditLoginFails(r) ==
  /\ Move(r, "audit", "aborted")
  /\ session' = [session EXCEPT ![r] = {}]
  /\ UNCHANGED <<account, free, stored, answer>>

-----------------------------------------------------------------------------
Commit(r) ==
  /\ End(r, "commit", "200")
  /\ stored' = [stored EXCEPT ![r] = session[r]]

\* The COMMIT takes effect and its acknowledgement is lost.
CommitUnanswered(r) ==
  /\ End(r, "commit", "500")
  /\ stored' = [stored EXCEPT ![r] = session[r]]

CommitRefused(r) == End(r, "aborted", "500") /\ UNCHANGED stored

\* Mutant: the record of a refused login goes over a second connection, which the
\* login waits for while it has its own.
AuditOverSecondConnection(r) ==
  /\ free > 0
  /\ Move(r, "auditRefusal", "refuse")
  /\ UNCHANGED <<account, free, session, stored, answer>>

\* AuditService.log for a refused login: the constructor of the session raises,
\* nothing is stored, and the exception is swallowed.
AuditRefusal(r) ==
  /\ Move(r, "auditRefusal", "refuse")
  /\ UNCHANGED <<account, free, session, stored, answer>>

\* Mutant: get_db closes the session a second time.
RefuseAndCloseTwice(r) ==
  /\ Move(r, "refuse", "done")
  /\ free' = free + 2
  /\ session' = [session EXCEPT ![r] = {}]
  /\ answer' = [answer EXCEPT ![r] = "401"]
  /\ UNCHANGED <<account, stored>>

\* UnauthorizedException: get_db rolls back and closes the session.
Refuse(r) == End(r, "refuse", "401") /\ UNCHANGED stored

\* Mutant: get_db has no finally, so a failed request keeps its connection.
FailAndLeak(r) ==
  \E at \in {"authenticate", "lock", "save", "commit", "refuse"} :
    /\ Move(r, at, "done")
    /\ session' = [session EXCEPT ![r] = {}]
    /\ answer' = [answer EXCEPT ![r] = "500"]
    /\ UNCHANGED <<account, free, stored>>

\* A statement, the COMMIT or the ROLLBACK fails, or the connection is lost.
Fail(r) ==
  \E at \in {"authenticate", "lock", "save", "commit", "refuse"} :
    End(r, at, "500") /\ UNCHANGED stored

-----------------------------------------------------------------------------
\* The steps that may have to wait for a connection or for a users row.
Waiting(r) == Connect(r) \/ UpdateLastLogin(r)

Running(r) ==
  \/ CheckDatabase(r) \/ Authenticate(r)
  \/ SaveRefreshToken(r) \/ AuditLogin(r) \/ Commit(r) \/ CommitRefused(r)
  \/ AuditRefusal(r) \/ Refuse(r)

Next ==
  \E r \in Requests :
    \/ Arrive(r) \/ Waiting(r) \/ Running(r)
    \/ ConnectTimeout(r) \/ AuditLoginFails(r) \/ CommitUnanswered(r) \/ Fail(r)

Spec == Init /\ [][Next]_vars

\* A request that has what it waits for goes on; the pool and PostgreSQL serve
\* their waiters in order.  No timeout is relied upon.
Fairness == \A r \in Requests : WF_vars(Running(r)) /\ SF_vars(Waiting(r))

FairSpec == Spec /\ Fairness

-----------------------------------------------------------------------------
\* No connection is lost or handed out twice, whichever step of a login or of a
\* health check fails (db/session.py:25-34, health.py:14-21).
ConnectionsAreConserved ==
  free + Cardinality({r \in Requests : pc[r] \in Connected}) = PoolSize

\* A login leaves its time, its refresh token and its audit record, or none of
\* them, and a 200 says that all three are there, although log swallows the failure
\* of the record it shares the session with (auth_service.py:74-92, audit_service.py:84-87).
LoginsAreRecorded ==
  \A r \in Requests :
    /\ stored[r] \in {{}, Writes}
    /\ answer[r] = "200" => stored[r] = Writes

\* A pool without a free connection is not the end: one of the requests that have
\* a connection waits for nothing (auth_service.py:74, user_repository.py:110-115).
FullPoolsAdvance ==
  free = 0 => \E r \in Requests : pc[r] \in Connected /\ ~WaitsForUserRow(r)

\* Logins that hold every connection while they wait for each other's users row
\* are not stuck, nor are the health checks behind them: without the help of a
\* timeout each request is answered in the end (db/session.py:7-14).
RequestsAreAnswered == \A r \in Requests : pc[r] # "new" ~> pc[r] = "done"

-----------------------------------------------------------------------------
\* What a test expects and the program does not do.

\* tests/integration/test_auth_endpoints.py:52-69, a refused login leaves an audit
\* record.  The test binds its session to a connection, the program to the engine.
RefusedLoginsAreAudited ==
  \A r \in Requests : answer[r] = "401" => "audit" \in stored[r]
=============================================================================
