----------------------------- MODULE AuthSessions -----------------------------
(***************************************************************************)
(* Accounts, refresh tokens and e-mailed tokens of the Integration API:    *)
(* AuthService (app/services/auth_service.py), the two account-closing     *)
(* operations of UserService (deactivate_user, revoke_sessions) and the    *)
(* UserRepository statements they run.                                     *)
(*                                                                         *)
(* Every HTTP request runs in one PostgreSQL transaction at READ COMMITTED *)
(* (app/db/session.py).  An action is one SQL statement, or the commit or  *)
(* rollback that ends the transaction.  A read sees the committed tables   *)
(* users, rt and et; what a request has written stays in its record        *)
(* req[r] until Commit, and the rows it has updated stay locked until the  *)
(* transaction ends.  A refused request (401, 403) writes nothing and is   *)
(* not an action unless it had already read something.                     *)
(***************************************************************************)
EXTENDS Naturals, FiniteSets

CONSTANTS Users,         \* accounts
          RefreshTokens, \* refresh tokens that can be minted (bound)
          EmailTokens,   \* invite and reset tokens (bound)
          InviteTokens,  \* those that are outstanding invites at the start
          Passwords,     \* passwords a person may choose
          Requests,      \* request slots: requests in flight at once (bound)
          SmtpEnabled,   \* settings.SMTP_ENABLED
          None

ASSUME ConstantsAssumption ==
  /\ InviteTokens \subseteq EmailTokens
  /\ SmtpEnabled \in BOOLEAN
  /\ None \notin Users \cup RefreshTokens \cup EmailTokens \cup Passwords

VARIABLES users,   \* table integration.users
          rt,      \* table integration.refresh_tokens
          et,      \* table integration.password_reset_tokens
          access,  \* accounts for which an unexpired access token exists
          mailed,  \* reset tokens the SMTP server has accepted
          req      \* the transaction of each request slot

vars == <<users, rt, et, access, mailed, req>>

User == [pw : Passwords \cup {None}, active : BOOLEAN, must : BOOLEAN]

\* user = None: no row has this token hash yet.
RefreshToken == [user : Users \cup {None}, revoked : BOOLEAN, expired : BOOLEAN]

PasswordResetToken == [user : Users \cup {None}, used : BOOLEAN, expired : BOOLEAN]

Ops == {"idle", "login", "refresh", "logout", "forgot", "reset", "invite",
        "change", "deactivate", "revoke"}

\* Where a request is: the statement it runs next.
Pcs == {"idle", "readUser", "updateUser", "insert", "mail", "consume",
        "updateToken", "snapshot", "revoke", "commit"}

Request == [op : Ops, pc : Pcs, user : Users \cup {None},
            rtok : RefreshTokens \cup {None}, etok : EmailTokens \cup {None},
            new : Passwords \cup {None}, snap : SUBSET RefreshTokens]

IdleRequest == [op |-> "idle", pc |-> "idle", user |-> None, rtok |-> None,
                etok |-> None, new |-> None, snap |-> {}]

TypeOK ==
  /\ users \in [Users -> User]
  /\ rt \in [RefreshTokens -> RefreshToken]
  /\ et \in [EmailTokens -> PasswordResetToken]
  /\ access \subseteq Users
  /\ mailed \subseteq EmailTokens
  /\ req \in [Requests -> Request]

-----------------------------------------------------------------------------
\* Row locks.  An UPDATE locks the rows it changes until its transaction ends.

UserWriters == {"login", "reset", "invite", "change", "deactivate"}
AfterUserUpdate == {"insert", "consume", "snapshot", "revoke", "commit"}

\* Mutant: login commits last_login_at on its own and keeps no lock.
LoginHoldsNoUser(r, u) ==
  req[r].op \in UserWriters \ {"login"} /\ req[r].pc \in AfterUserUpdate /\ req[r].user = u

\* Mutant: the account is read WITH FOR SHARE, so the UPDATE upgrades a lock.
HoldsUserFromRead(r, u) ==
  req[r].op \in UserWriters /\ req[r].pc \notin {"idle", "readUser"} /\ req[r].user = u

HoldsUser(r, u) ==
  /\ req[r].op \in UserWriters
  /\ req[r].pc \in AfterUserUpdate
  /\ req[r].user = u

HoldsEmailToken(r, e) ==
  /\ req[r].op \in {"reset", "invite"}
  /\ req[r].pc \in {"snapshot", "revoke", "commit"}
  /\ req[r].etok = e

HoldsRefreshToken(r, t) == req[r].pc = "commit" /\ t \in req[r].snap

UserRowFree(r, u) == \A q \in Requests \ {r} : ~HoldsUser(q, u)
EmailTokenFree(r, e) == \A q \in Requests \ {r} : ~HoldsEmailToken(q, e)
RefreshTokensFree(r, S) ==
  \A q \in Requests \ {r}, t \in S : ~HoldsRefreshToken(q, t)

\* A token string is minted with a random jti, so it belongs to one request.
RefreshTokenUnborn(t) == rt[t].user = None /\ \A q \in Requests : req[q].rtok # t
EmailTokenUnborn(e) == et[e].user = None /\ \A q \in Requests : req[q].etok # e

Live(t) == rt[t].user # None /\ ~rt[t].revoked /\ ~rt[t].expired
\* Mutant: the used flag is not checked.
UsableUnlessExpired(e) == et[e].user # None /\ ~et[e].expired

Usable(e) == et[e].user # None /\ ~et[e].used /\ ~et[e].expired

-----------------------------------------------------------------------------
Init ==
  /\ users \in [Users -> {v \in User : v.active /\ (v.pw = None => ~v.must)}]
  /\ rt = [t \in RefreshTokens |->
             [user |-> None, revoked |-> FALSE, expired |-> FALSE]]
  /\ \E owner \in [InviteTokens -> {u \in Users : users[u].pw = None}] :
       et = [e \in EmailTokens |->
               [user |-> IF e \in InviteTokens THEN owner[e] ELSE None,
                used |-> FALSE, expired |-> FALSE]]
  /\ access = {}
  /\ mailed = {}
  /\ req = [r \in Requests |-> IdleRequest]

Begin(r, request) ==
  /\ req[r] = IdleRequest
  /\ req' = [req EXCEPT ![r] = request]

At(r, op, pc) == req[r].op = op /\ req[r].pc = pc
Goto(r, pc) == req' = [req EXCEPT ![r].pc = pc]
Finish(r) == req' = [req EXCEPT ![r] = IdleRequest]

Tables == <<users, rt, et, access, mailed>>

\* A statement that waits for the lock of the users row, then updates it.
UpdateUserRow(r, next) == UserRowFree(r, req[r].user) /\ Goto(r, next)

-----------------------------------------------------------------------------
\* login: SELECT the user and verify the password, which must be set, UPDATE
\* last_login_at, INSERT the refresh token t it mints.
LoginRead(r, u, t) ==
  /\ users[u].active /\ users[u].pw # None
  /\ RefreshTokenUnborn(t)
  /\ Begin(r, [IdleRequest EXCEPT !.op = "login", !.pc = "updateUser",
                                  !.user = u, !.rtok = t])
  /\ UNCHANGED Tables

LoginUpdateLastLogin(r) ==
  /\ At(r, "login", "updateUser")
  /\ UpdateUserRow(r, "insert")
  /\ UNCHANGED Tables

LoginSaveRefreshToken(r) ==
  /\ At(r, "login", "insert")
  /\ Goto(r, "commit")
  /\ UNCHANGED Tables

\* refresh: the token row is checked, then the account, then the access token is
\* minted and get_db commits; nothing is written and nothing is locked.
RefreshReadToken(r, t) ==
  /\ Live(t)
  /\ Begin(r, [IdleRequest EXCEPT !.op = "refresh", !.pc = "readUser",
                                  !.user = rt[t].user, !.rtok = t])
  /\ UNCHANGED Tables

\* Mutant: the account is not checked.
RefreshInactiveUser(r) ==
  /\ At(r, "refresh", "readUser")
  /\ Goto(r, "commit")
  /\ UNCHANGED Tables

RefreshReadUser(r) ==
  /\ At(r, "refresh", "readUser")
  /\ IF users[req[r].user].active THEN Goto(r, "commit") ELSE Finish(r)
  /\ UNCHANGED Tables

\* logout: by the owner, holding an access token; revokes the presented token.
LogoutRead(r, t) ==
  /\ Live(t) /\ rt[t].user \in access
  /\ Begin(r, [IdleRequest EXCEPT !.op = "logout", !.pc = "updateToken",
                                  !.user = rt[t].user, !.rtok = t])
  /\ UNCHANGED Tables

\* Mutant: the user's id is passed instead of the token's.
LogoutRevokeUserId(r) ==
  /\ At(r, "logout", "updateToken")
  /\ req' = [req EXCEPT ![r].snap = {req[r].user}, ![r].pc = "commit"]
  /\ UNCHANGED Tables

LogoutRevoke(r) ==
  /\ At(r, "logout", "updateToken")
  /\ RefreshTokensFree(r, {req[r].rtok})
  /\ req' = [req EXCEPT ![r].snap = {req[r].rtok}, ![r].pc = "commit"]
  /\ UNCHANGED Tables

\* forgot_password: INSERT the token, then the e-mail; a failed delivery is
\* raised as 502, which rolls the INSERT back.
ForgotRead(r, u, e) ==
  /\ users[u].active
  /\ EmailTokenUnborn(e)
  /\ Begin(r, [IdleRequest EXCEPT !.op = "forgot", !.pc = "insert",
                                  !.user = u, !.etok = e])
  /\ UNCHANGED Tables

ForgotSaveResetToken(r) ==
  /\ At(r, "forgot", "insert")
  /\ Goto(r, "mail")
  /\ UNCHANGED Tables

ForgotMailAccepted(r) ==
  /\ At(r, "forgot", "mail")
  /\ mailed' = IF SmtpEnabled THEN mailed \cup {req[r].etok} ELSE mailed
  /\ Goto(r, "commit")
  /\ UNCHANGED <<users, rt, et, access>>

\* Mutant: the delivery error is logged and swallowed.
ForgotMailErrorSwallowed(r) ==
  /\ At(r, "forgot", "mail")
  /\ SmtpEnabled
  /\ Goto(r, "commit")
  /\ UNCHANGED Tables

ForgotMailFails(r) ==
  /\ At(r, "forgot", "mail")
  /\ SmtpEnabled
  /\ Finish(r)
  /\ UNCHANGED Tables

-----------------------------------------------------------------------------
\* reset_password and accept_invite: SELECT the token, SELECT the account,
\* UPDATE the password, UPDATE used = TRUE (with no "used = FALSE" guard).
\* Only reset_password goes on to revoke_all_user_tokens.
ReadEmailToken(r, op, e, p) ==
  /\ Usable(e)
  /\ Begin(r, [IdleRequest EXCEPT !.op = op, !.pc = "readUser",
                                  !.user = et[e].user, !.etok = e, !.new = p])
  /\ UNCHANGED Tables

ResetReadToken(r, e, p) ==
  e \in mailed \ InviteTokens /\ ReadEmailToken(r, "reset", e, p)

InviteReadToken(r, e, p) ==
  e \in InviteTokens /\ ReadEmailToken(r, "invite", e, p)

\* _get_active_user_or_raise
ActivationReadUser(r) ==
  /\ req[r].op \in {"reset", "invite"} /\ req[r].pc = "readUser"
  /\ IF users[req[r].user].active THEN Goto(r, "updateUser") ELSE Finish(r)
  /\ UNCHANGED Tables

ActivationSetPassword(r) ==
  /\ req[r].op \in {"reset", "invite"} /\ req[r].pc = "updateUser"
  /\ UpdateUserRow(r, "consume")
  /\ UNCHANGED Tables

ActivationConsumeToken(r) ==
  /\ req[r].pc = "consume"
  /\ EmailTokenFree(r, req[r].etok)
  /\ Goto(r, IF req[r].op = "reset" THEN "snapshot" ELSE "commit")
  /\ UNCHANGED Tables

\* change_password: SELECT the account, verify the current password, UPDATE
\* password and must_change_password, revoke_all_user_tokens.
ChangeRead(r, u, p) ==
  /\ u \in access /\ users[u].active /\ users[u].pw # None
  /\ Begin(r, [IdleRequest EXCEPT !.op = "change", !.pc = "updateUser",
                                  !.user = u, !.new = p])
  /\ UNCHANGED Tables

\* deactivate_user, by an administrator other than u (UserAdmin models the
\* actor's scope): UPDATE is_active, revoke_all_user_tokens.
DeactivateRead(r, u) ==
  /\ Begin(r, [IdleRequest EXCEPT !.op = "deactivate", !.pc = "updateUser", !.user = u])
  /\ UNCHANGED Tables

\* Mutant: revoke_all_user_tokens is not called.
AccountUpdateWithoutRevocation(r) ==
  /\ req[r].op \in {"change", "deactivate"} /\ req[r].pc = "updateUser"
  /\ UpdateUserRow(r, "commit")
  /\ UNCHANGED Tables

AccountUpdate(r) ==
  /\ req[r].op \in {"change", "deactivate"} /\ req[r].pc = "updateUser"
  /\ UpdateUserRow(r, "snapshot")
  /\ UNCHANGED Tables

\* revoke_sessions: revoke_all_user_tokens alone; no users row is locked.
RevokeSessionsRead(r, u) ==
  /\ Begin(r, [IdleRequest EXCEPT !.op = "revoke", !.pc = "snapshot", !.user = u])
  /\ UNCHANGED Tables

\* revoke_all_user_tokens is one UPDATE ... WHERE user_id = u AND NOT
\* is_revoked: its rows are those its snapshot shows; it then waits for their
\* locks and checks the condition again on the version it finds.
RevokeAllSnapshot(r) ==
  /\ req[r].pc = "snapshot"
  /\ req' = [req EXCEPT
       ![r].snap = {t \in RefreshTokens : rt[t].user = req[r].user /\ ~rt[t].revoked},
       ![r].pc = "revoke"]
  /\ UNCHANGED Tables

RevokeAllApply(r) ==
  /\ req[r].pc = "revoke"
  /\ RefreshTokensFree(r, req[r].snap)
  /\ req' = [req EXCEPT ![r].snap = {t \in @ : ~rt[t].revoked}, ![r].pc = "commit"]
  /\ UNCHANGED Tables

-----------------------------------------------------------------------------
\* What each transaction leaves in the tables when it commits.
UserAfter(q, v) ==
  CASE q.op \in {"reset", "invite"} -> [v EXCEPT !.pw = q.new]
    [] q.op = "change"              -> [v EXCEPT !.pw = q.new, !.must = FALSE]
    [] q.op = "deactivate"          -> [v EXCEPT !.active = FALSE]
    [] OTHER                        -> v

RefreshTokenAfter(q, t) ==
  CASE q.op = "login" /\ t = q.rtok ->
         [user |-> q.user, revoked |-> FALSE, expired |-> FALSE]
    [] t \in q.snap -> [rt[t] EXCEPT !.revoked = TRUE]
    [] OTHER        -> rt[t]

EmailTokenAfter(q, e) ==
  CASE q.op = "forgot" /\ e = q.etok ->
         [user |-> q.user, used |-> FALSE, expired |-> FALSE]
    [] q.op \in {"reset", "invite"} /\ e = q.etok -> [et[e] EXCEPT !.used = TRUE]
    [] OTHER -> et[e]

\* get_db commits before the response is sent; the response of a login or a
\* refresh carries the access token.
Commit(r) ==
  /\ req[r].pc = "commit"
  /\ users' = [u \in Users |-> IF u = req[r].user THEN UserAfter(req[r], users[u])
                                                  ELSE users[u]]
  /\ rt' = [t \in RefreshTokens |-> RefreshTokenAfter(req[r], t)]
  /\ et' = [e \in EmailTokens |-> EmailTokenAfter(req[r], e)]
  /\ access' = IF req[r].op \in {"login", "refresh"} THEN access \cup {req[r].user}
                                                     ELSE access
  /\ Finish(r)
  /\ UNCHANGED mailed

\* Any exception, a lost connection, a failed COMMIT or the death of the API
\* process: the transaction is rolled back and its locks are released.
Rollback(r) ==
  /\ req[r].pc # "idle"
  /\ Finish(r)
  /\ UNCHANGED Tables

\* Time passes: expires_at of a token row, exp of the access tokens.
ExpireRefreshToken(t) ==
  /\ rt[t].user # None /\ ~rt[t].expired
  /\ rt' = [rt EXCEPT ![t].expired = TRUE]
  /\ UNCHANGED <<users, et, access, mailed, req>>

ExpireEmailToken(e) ==
  /\ et[e].user # None /\ ~et[e].expired
  /\ et' = [et EXCEPT ![e].expired = TRUE]
  /\ UNCHANGED <<users, rt, access, mailed, req>>

ExpireAccess(u) ==
  /\ u \in access
  /\ access' = access \ {u}
  /\ UNCHANGED <<users, rt, et, mailed, req>>

-----------------------------------------------------------------------------
Start(r) ==
  \/ \E u \in Users, t \in RefreshTokens : LoginRead(r, u, t)
  \/ \E t \in RefreshTokens : RefreshReadToken(r, t)
  \/ \E t \in RefreshTokens : LogoutRead(r, t)
  \/ \E u \in Users, e \in EmailTokens : ForgotRead(r, u, e)
  \/ \E e \in EmailTokens, p \in Passwords : ResetReadToken(r, e, p)
  \/ \E e \in EmailTokens, p \in Passwords : InviteReadToken(r, e, p)
  \/ \E u \in Users, p \in Passwords : ChangeRead(r, u, p)
  \/ \E u \in Users : DeactivateRead(r, u)
  \/ \E u \in Users : RevokeSessionsRead(r, u)

\* The statements that may have to wait for a row lock.
Locking(r) ==
  \/ LoginUpdateLastLogin(r)
  \/ LogoutRevoke(r)
  \/ ActivationSetPassword(r)
  \/ ActivationConsumeToken(r)
  \/ AccountUpdate(r)
  \/ RevokeAllApply(r)

Running(r) ==
  \/ LoginSaveRefreshToken(r)
  \/ RefreshReadUser(r)
  \/ ForgotSaveResetToken(r)
  \/ ForgotMailAccepted(r)
  \/ ForgotMailFails(r)
  \/ ActivationReadUser(r)
  \/ RevokeAllSnapshot(r)
  \/ Commit(r)

Clock ==
  \/ \E t \in RefreshTokens : ExpireRefreshToken(t)
  \/ \E e \in EmailTokens : ExpireEmailToken(e)
  \/ \E u \in Users : ExpireAccess(u)

Next ==
  \/ \E r \in Requests : Start(r) \/ Locking(r) \/ Running(r) \/ Rollback(r)
  \/ Clock

Spec == Init /\ [][Next]_vars

\* A request slot that has begun keeps running, and a statement whose row lock
\* keeps becoming free is granted it: PostgreSQL queues the waiters of a row,
\* and aiosmtplib gives up after its timeout, so no statement hangs for ever.
Fairness ==
  \A r \in Requests : WF_vars(Running(r)) /\ SF_vars(Locking(r))

FairSpec == Spec /\ Fairness

-----------------------------------------------------------------------------
\* A committed reset, change of password or deactivation leaves its account
\* without an unrevoked refresh token, although logins and logouts of the same
\* account run beside it (auth_service.reset_password, change_password,
\* user_service.deactivate_user): the users row a login locks for last_login_at
\* orders the login before the revocation or after the commit.
CredentialChangeEndsSessions ==
  [][\A r \in Requests :
       Commit(r) /\ req[r].op \in {"reset", "change", "deactivate"} =>
         \A t \in RefreshTokens : rt'[t].user = req[r].user => rt'[t].revoked]_vars

\* An account is closed once it is inactive and no login or refresh that had read
\* it as active is in flight: from then on nothing gives it an access token again,
\* not even a refresh that has checked its token and not yet the account
\* (auth_service.py:108-125).  One that has checked both still answers with a token.
Granted(r) == req[r].op = "login" \/ At(r, "refresh", "commit")

Closed(u) ==
  ~users[u].active /\ \A r \in Requests : req[r].user = u => ~Granted(r)

ClosedAccountsStayClosed ==
  [][\A u \in Users : Closed(u) => Closed(u)' /\ (u \in access' => u \in access)]_vars

\* Once a token is used and no request that read it unused is still in flight,
\* no request sets a password with it again (auth_service.py:192-197, 213-225).
Spent(e) == et[e].used /\ \A r \in Requests : req[r].etok # e

SpentTokensStaySpent == [][\A e \in EmailTokens : Spent(e) => Spent(e)']_vars

\* With SMTP configured, a reset token is in the table only if its e-mail was
\* accepted: a failed delivery takes the row with it (auth_service.py:168-174).
StoredResetTokensWereMailed ==
  SmtpEnabled =>
    \A e \in EmailTokens \ InviteTokens : et[e].user # None => e \in mailed

\* Every request ends: the order in which the handlers lock the rows of users,
\* password_reset_tokens and refresh_tokens admits no deadlock.
RequestsEnd == \A r \in Requests : req[r].pc # "idle" ~> req[r].pc = "idle"

-----------------------------------------------------------------------------
\* The inductive invariant behind CredentialChangeEndsSessions and the
\* refinement of SessionAuthority.

\* What the record of a request says about the rows it has read.
RequestOK(r) ==
  LET q == req[r] IN
    /\ IF q.op = "idle" THEN q.pc = "idle" ELSE q.user \in Users
    /\ q.op \in {"reset", "invite", "change"} => q.new \in Passwords
    /\ q.op = "login" => q.rtok \in RefreshTokens /\ rt[q.rtok].user = None
    /\ q.op = "logout" => q.rtok \in RefreshTokens /\ rt[q.rtok].user = q.user
    /\ q.op = "forgot" =>
         q.etok \in EmailTokens /\ (q.pc = "commit" /\ SmtpEnabled => q.etok \in mailed)
    /\ q.op \in {"idle", "login", "refresh", "forgot", "invite"} => q.snap = {}
    /\ \A t \in q.snap : rt[t].user = q.user
    /\ q.pc = "consume" => q.op \in {"reset", "invite"}
    /\ q.pc \in {"snapshot", "revoke"} => q.op \in {"reset", "change", "deactivate", "revoke"}

\* No two logins mint the same token.
MintsDiffer ==
  \A r, q \in Requests :
    req[r].op = "login" /\ req[q].op = "login" /\ req[r].rtok = req[q].rtok => r = q

\* One transaction at a time has updated a users row.
UserRowExclusive ==
  \A r, q \in Requests : \A u \in Users : HoldsUser(r, u) /\ HoldsUser(q, u) => r = q

\* The rows revoke_all_user_tokens revokes are all the unrevoked rows of the
\* account, from its snapshot to the commit, if the users row is locked.
RevocationComplete ==
  \A r \in Requests :
    req[r].op \in {"reset", "change", "deactivate"} /\ req[r].pc \in {"revoke", "commit"} =>
      \A t \in RefreshTokens :
        rt[t].user = req[r].user /\ ~rt[t].revoked => t \in req[r].snap

\* The row locks that order logins before or after a revocation keep every
\* in-flight revocation complete (user_repository.py:110-149).
IInv ==
  /\ TypeOK
  /\ \A r \in Requests : RequestOK(r)
  /\ MintsDiffer
  /\ UserRowExclusive
  /\ RevocationComplete
  /\ StoredResetTokensWereMailed

-----------------------------------------------------------------------------
\* What a model's docstring promises and the code does not keep.

\* app/models/password_reset_token.py:5, each token is of single use: the one a
\* committed reset or invite has consumed was unused until then.
EmailTokensSingleUse ==
  [][\A r \in Requests :
       Commit(r) /\ req[r].op \in {"reset", "invite"} => ~et[req[r].etok].used]_vars
=============================================================================
