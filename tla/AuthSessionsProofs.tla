-------------------------- MODULE AuthSessionsProofs --------------------------
(***************************************************************************)
(* Theorems about AuthSessions for every set of users, tokens, passwords   *)
(* and concurrent requests.                                                *)
(***************************************************************************)
EXTENDS AuthSessionsRefinement, TLAPS

\* A record in its idle state is a well-typed request.
LEMMA IdleRequestType == IdleRequest \in Request
  BY DEF IdleRequest, Request, Ops, Pcs

\* Starting a request, moving it to its next statement and ending it keep the
\* request table well typed.
LEMMA RequestTableType ==
  ASSUME TypeOK, NEW r \in Requests
  PROVE  /\ \A pc \in Pcs : Goto(r, pc) => req' \in [Requests -> Request]
         /\ Finish(r) => req' \in [Requests -> Request]
         /\ \A q \in Request : Begin(r, q) => req' \in [Requests -> Request]
         /\ \A S \in SUBSET RefreshTokens, pc \in Pcs :
              req' = [req EXCEPT ![r].snap = S, ![r].pc = pc] =>
                req' \in [Requests -> Request]
  <1>1. ASSUME NEW pc \in Pcs, Goto(r, pc) PROVE req' \in [Requests -> Request]
    BY <1>1 DEF TypeOK, Goto, Request
  <1>2. ASSUME Finish(r) PROVE req' \in [Requests -> Request]
    BY <1>2, IdleRequestType DEF TypeOK, Finish
  <1>3. ASSUME NEW q \in Request, Begin(r, q) PROVE req' \in [Requests -> Request]
    BY <1>3 DEF TypeOK, Begin
  <1>4. ASSUME NEW S \in SUBSET RefreshTokens, NEW pc \in Pcs,
               req' = [req EXCEPT ![r].snap = S, ![r].pc = pc]
        PROVE  req' \in [Requests -> Request]
    <2>1. req \in [Requests -> Request] /\ req[r] \in Request
      BY DEF TypeOK
    <2>2. req' = [req EXCEPT ![r] = [[@ EXCEPT !.snap = S] EXCEPT !.pc = pc]]
      BY <1>4, <2>1
    <2>3. [req[r] EXCEPT !.snap = S] \in Request
      BY <2>1 DEF Request
    <2>4. [[req[r] EXCEPT !.snap = S] EXCEPT !.pc = pc] \in Request
      BY <2>3 DEF Request
    <2>5. QED BY <2>1, <2>2, <2>4
  <1>5. QED BY <1>1, <1>2, <1>3, <1>4

\* Type correctness of a step that begins a request.
LEMMA StartType ==
  ASSUME TypeOK, NEW r \in Requests, Start(r)
  PROVE  TypeOK'
  <1> USE DEF TypeOK, Tables
  <1>1. ASSUME NEW q \in Request, Begin(r, q), UNCHANGED Tables PROVE TypeOK'
    BY <1>1, RequestTableType
  <1>2. ASSUME NEW u \in Users, NEW t \in RefreshTokens, LoginRead(r, u, t)
        PROVE  TypeOK'
    BY <1>1, <1>2 DEF LoginRead, IdleRequest, Request, Ops, Pcs
  <1>3. ASSUME NEW t \in RefreshTokens, RefreshReadToken(r, t) PROVE TypeOK'
    BY <1>1, <1>3 DEF RefreshReadToken, Live, RefreshToken, IdleRequest, Request, Ops, Pcs
  <1>4. ASSUME NEW t \in RefreshTokens, LogoutRead(r, t) PROVE TypeOK'
    BY <1>1, <1>4 DEF LogoutRead, Live, RefreshToken, IdleRequest, Request, Ops, Pcs
  <1>5. ASSUME NEW u \in Users, NEW e \in EmailTokens, ForgotRead(r, u, e) PROVE TypeOK'
    BY <1>1, <1>5 DEF ForgotRead, IdleRequest, Request, Ops, Pcs
  <1>6. ASSUME NEW e \in EmailTokens, NEW p \in Passwords,
               ResetReadToken(r, e, p) \/ InviteReadToken(r, e, p)
        PROVE  TypeOK'
    BY <1>1, <1>6 DEF ResetReadToken, InviteReadToken, ReadEmailToken, Usable,
                      PasswordResetToken, IdleRequest, Request, Ops, Pcs
  <1>7. ASSUME NEW u \in Users, NEW p \in Passwords, ChangeRead(r, u, p)
        PROVE  TypeOK'
    BY <1>1, <1>7 DEF ChangeRead, IdleRequest, Request, Ops, Pcs
  <1>8. ASSUME NEW u \in Users, DeactivateRead(r, u) \/ RevokeSessionsRead(r, u)
        PROVE  TypeOK'
    BY <1>1, <1>8 DEF DeactivateRead, RevokeSessionsRead, IdleRequest, Request, Ops, Pcs
  <1>9. QED
    BY <1>2, <1>3, <1>4, <1>5, <1>6, <1>7, <1>8 DEF Start

\* Type correctness of a step that waits for row locks.
LEMMA LockingType ==
  ASSUME TypeOK, NEW r \in Requests, Locking(r)
  PROVE  TypeOK'
  <1> USE DEF TypeOK, Tables
  <1>1. ASSUME NEW pc \in Pcs, Goto(r, pc), UNCHANGED Tables PROVE TypeOK'
    BY <1>1, RequestTableType
  <1>2. CASE LoginUpdateLastLogin(r)
    BY <1>1, <1>2 DEF LoginUpdateLastLogin, UpdateUserRow, Pcs
  <1>3. CASE LogoutRevoke(r)
    BY <1>3 DEF LogoutRevoke, At, Request, Pcs
  <1>4. CASE ActivationSetPassword(r)
    BY <1>1, <1>4 DEF ActivationSetPassword, UpdateUserRow, Pcs
  <1>5. CASE ActivationConsumeToken(r)
    BY <1>1, <1>5 DEF ActivationConsumeToken, Pcs
  <1>6. CASE AccountUpdate(r)
    BY <1>1, <1>6 DEF AccountUpdate, UpdateUserRow, Pcs
  <1>7. CASE RevokeAllApply(r)
    <2> DEFINE S == {t \in req[r].snap : ~rt[t].revoked}
    <2>1. S \in SUBSET RefreshTokens
      BY DEF Request
    <2>2. req' = [req EXCEPT ![r].snap = S, ![r].pc = "commit"] /\ UNCHANGED Tables
      BY <1>7 DEF RevokeAllApply
    <2> HIDE DEF S
    <2>3. QED
      BY <2>1, <2>2, RequestTableType DEF Pcs
  <1>8. QED
    BY <1>2, <1>3, <1>4, <1>5, <1>6, <1>7, Locking(r) DEF Locking

\* What a commit writes to a row of each table is a row of that table.
LEMMA CommittedRowsType ==
  ASSUME TypeOK, NEW r \in Requests, RequestOK(r), req[r].op # "idle"
  PROVE  /\ \A u \in Users : UserAfter(req[r], users[u]) \in User
         /\ \A t \in RefreshTokens : RefreshTokenAfter(req[r], t) \in RefreshToken
         /\ \A e \in EmailTokens : EmailTokenAfter(req[r], e) \in PasswordResetToken
  <1>1. req[r] \in Request /\ req[r].user \in Users
    BY DEF TypeOK, RequestOK
  <1>2. ASSUME NEW u \in Users PROVE UserAfter(req[r], users[u]) \in User
    <2>1. users[u] \in User
      BY DEF TypeOK
    <2>2. QED
      BY <1>1, <2>1 DEF UserAfter, User, Request, Ops
  <1>3. ASSUME NEW t \in RefreshTokens
        PROVE  RefreshTokenAfter(req[r], t) \in RefreshToken
    <2>1. rt[t] \in RefreshToken
      BY DEF TypeOK
    <2>2. QED
      BY <1>1, <2>1 DEF RefreshTokenAfter, RefreshToken, Request
  <1>4. ASSUME NEW e \in EmailTokens
        PROVE  EmailTokenAfter(req[r], e) \in PasswordResetToken
    <2>1. et[e] \in PasswordResetToken
      BY DEF TypeOK
    <2>2. QED
      BY <1>1, <2>1 DEF EmailTokenAfter, PasswordResetToken, Request
  <1>5. QED BY <1>2, <1>3, <1>4

\* Type correctness of a step that does not wait.
LEMMA RunningType ==
  ASSUME TypeOK, NEW r \in Requests, RequestOK(r), Running(r)
  PROVE  TypeOK'
  <1> USE DEF TypeOK, Tables
  <1>1. ASSUME NEW pc \in Pcs, Goto(r, pc), UNCHANGED Tables PROVE TypeOK'
    BY <1>1, RequestTableType
  <1>2. ASSUME Finish(r), UNCHANGED Tables PROVE TypeOK'
    BY <1>2, RequestTableType
  <1>3. CASE LoginSaveRefreshToken(r)
    BY <1>1, <1>3 DEF LoginSaveRefreshToken, Pcs
  <1>4. CASE RefreshReadUser(r)
    BY <1>1, <1>2, <1>4 DEF RefreshReadUser, Pcs
  <1>5. CASE ForgotSaveResetToken(r)
    BY <1>1, <1>5 DEF ForgotSaveResetToken, Pcs
  <1>6. CASE ForgotMailAccepted(r)
    <2>1. Goto(r, "commit") /\ UNCHANGED <<users, rt, et, access>> /\ "commit" \in Pcs
      BY <1>6 DEF ForgotMailAccepted, Pcs
    <2>2. mailed' \subseteq EmailTokens
      BY <1>6 DEF ForgotMailAccepted, At, RequestOK
    <2>3. QED
      BY <2>1, <2>2, RequestTableType
  <1>7. CASE ForgotMailFails(r)
    BY <1>2, <1>7 DEF ForgotMailFails
  <1>8. CASE ActivationReadUser(r)
    BY <1>1, <1>2, <1>8 DEF ActivationReadUser, Pcs
  <1>9. CASE RevokeAllSnapshot(r)
    <2> DEFINE S == {t \in RefreshTokens : rt[t].user = req[r].user /\ ~rt[t].revoked}
    <2>1. S \in SUBSET RefreshTokens
      OBVIOUS
    <2>2. req' = [req EXCEPT ![r].snap = S, ![r].pc = "revoke"] /\ UNCHANGED Tables
      BY <1>9 DEF RevokeAllSnapshot
    <2> HIDE DEF S
    <2>3. QED
      BY <2>1, <2>2, RequestTableType DEF Pcs
  <1>10. CASE Commit(r)
    <2>1. req[r].op # "idle" /\ req[r].user \in Users
      BY <1>10 DEF Commit, RequestOK
    <2>2. users' \in [Users -> User] /\ rt' \in [RefreshTokens -> RefreshToken]
            /\ et' \in [EmailTokens -> PasswordResetToken]
      <3>1. /\ users' = [u \in Users |-> IF u = req[r].user
                             THEN UserAfter(req[r], users[u]) ELSE users[u]]
            /\ rt' = [t \in RefreshTokens |-> RefreshTokenAfter(req[r], t)]
            /\ et' = [e \in EmailTokens |-> EmailTokenAfter(req[r], e)]
        BY <1>10 DEF Commit
      <3>2. QED BY <2>1, <3>1, CommittedRowsType
    <2>3. access' \subseteq Users /\ mailed' \subseteq EmailTokens
      BY <1>10, <2>1 DEF Commit
    <2>4. req' \in [Requests -> Request]
      BY <1>10, RequestTableType DEF Commit
    <2>5. QED BY <2>2, <2>3, <2>4
  <1>11. QED
    BY <1>3, <1>4, <1>5, <1>6, <1>7, <1>8, <1>9, <1>10, Running(r) DEF Running

\* Type correctness of the passing of time and of a rollback.
LEMMA ClockType ==
  ASSUME TypeOK, Clock
  PROVE  TypeOK'
  <1> USE DEF TypeOK
  <1>1. ASSUME NEW t \in RefreshTokens, ExpireRefreshToken(t) PROVE TypeOK'
    BY <1>1 DEF ExpireRefreshToken, RefreshToken
  <1>2. ASSUME NEW e \in EmailTokens, ExpireEmailToken(e) PROVE TypeOK'
    BY <1>2 DEF ExpireEmailToken, PasswordResetToken
  <1>3. ASSUME NEW u \in Users, ExpireAccess(u) PROVE TypeOK'
    BY <1>3 DEF ExpireAccess
  <1>4. QED BY <1>1, <1>2, <1>3 DEF Clock

\* A request that fails rolls its transaction back (get_db, session.py:25-34);
\* the tables and the request records keep their types.
LEMMA RollbackType ==
  ASSUME TypeOK, NEW r \in Requests, Rollback(r)
  PROVE  TypeOK'
  BY RequestTableType DEF TypeOK, Rollback, Tables

-----------------------------------------------------------------------------
\* A step that changes one request and leaves the refresh tokens alone keeps
\* the invariant if it keeps what the invariant says of that request.
LEMMA LocalStep ==
  ASSUME IInv, TypeOK', NEW r \in Requests, NEW n \in Request,
         req' = [req EXCEPT ![r] = n], UNCHANGED <<rt, et>>, mailed \subseteq mailed',
         RequestOK(r)',
         \A q \in Requests \ {r} :
           n.op = "login" /\ req[q].op = "login" => n.rtok # req[q].rtok,
         \A u \in Users : HoldsUser(r, u)' => HoldsUser(r, u) \/ UserRowFree(r, u),
         n.op \in {"reset", "change", "deactivate"} /\ n.pc \in {"revoke", "commit"} =>
           \A t \in RefreshTokens :
             rt[t].user = n.user /\ ~rt[t].revoked => t \in n.snap
  PROVE  IInv'
  <1>1. req'[r] = n /\ \A q \in Requests \ {r} : req'[q] = req[q]
    BY DEF IInv, TypeOK
  <1>2. \A q \in Requests : RequestOK(q)'
    <2>1. ASSUME NEW q \in Requests \ {r} PROVE RequestOK(q)'
      BY <1>1, <2>1 DEF IInv, RequestOK
    <2>2. QED BY <2>1
  <1>3. MintsDiffer'
    BY <1>1 DEF IInv, MintsDiffer
  <1>4. UserRowExclusive'
    BY <1>1 DEF IInv, UserRowExclusive, HoldsUser, UserRowFree
  <1>5. RevocationComplete'
    BY <1>1 DEF IInv, RevocationComplete
  <1>6. StoredResetTokensWereMailed'
    BY DEF IInv, StoredResetTokensWereMailed
  <1>7. QED BY <1>2, <1>3, <1>4, <1>5, <1>6 DEF IInv

\* Ending a request without touching the tables.
LEMMA FinishInv ==
  ASSUME IInv, TypeOK', NEW r \in Requests, Finish(r), UNCHANGED <<rt, et, mailed>>
  PROVE  IInv'
  <1>1. req' = [req EXCEPT ![r] = IdleRequest] /\ req'[r] = IdleRequest
    BY DEF Finish, IInv, TypeOK
  <1>2. RequestOK(r)'
    BY <1>1 DEF RequestOK, IdleRequest
  <1>3. ~(\E u \in Users : HoldsUser(r, u)')
    BY <1>1 DEF HoldsUser, IdleRequest, UserWriters
  <1>4. QED
    BY <1>1, <1>2, <1>3, IdleRequestType, LocalStep DEF IdleRequest

\* Moving a request to its next statement without touching the tables.
LEMMA GotoInv ==
  ASSUME IInv, TypeOK', NEW r \in Requests, NEW pc \in Pcs, Goto(r, pc),
         UNCHANGED <<rt, et>>, mailed \subseteq mailed',
         req[r].op # "idle",
         pc = "consume" => req[r].op \in {"reset", "invite"},
         pc = "snapshot" => req[r].op \in {"reset", "change", "deactivate", "revoke"},
         pc # "revoke",
         pc = "commit" => req[r].op \in {"login", "refresh", "forgot", "invite"},
         pc = "commit" /\ req[r].op = "forgot" /\ SmtpEnabled => req[r].etok \in mailed',
         req[r].op \in UserWriters /\ pc \in AfterUserUpdate =>
           req[r].pc \in AfterUserUpdate \/ UserRowFree(r, req[r].user)
  PROVE  IInv'
  <1> DEFINE n == [req[r] EXCEPT !.pc = pc]
  <1>1. req[r] \in Request /\ RequestOK(r) /\ MintsDiffer
    BY DEF IInv, TypeOK
  <1>2. /\ n \in Request /\ n.pc = pc /\ n.op = req[r].op /\ n.user = req[r].user
        /\ n.rtok = req[r].rtok /\ n.etok = req[r].etok /\ n.new = req[r].new
        /\ n.snap = req[r].snap
    BY <1>1 DEF Request
  <1>3. req' = [req EXCEPT ![r] = n] /\ req'[r] = n
    BY DEF Goto, IInv, TypeOK
  <1> HIDE DEF n
  <1>4. RequestOK(r)'
    BY <1>1, <1>2, <1>3 DEF RequestOK
  <1>5. \A u \in Users : HoldsUser(r, u)' => HoldsUser(r, u) \/ UserRowFree(r, u)
    BY <1>2, <1>3 DEF HoldsUser
  <1>6. \A q \in Requests \ {r} :
           n.op = "login" /\ req[q].op = "login" => n.rtok # req[q].rtok
    BY <1>1, <1>2 DEF MintsDiffer
  <1>7. ~(n.op \in {"reset", "change", "deactivate"} /\ n.pc \in {"revoke", "commit"})
    BY <1>2
  <1>8. QED
    BY <1>2, <1>3, <1>4, <1>5, <1>6, <1>7, LocalStep

\* Beginning a request that reads and has not written yet.
LEMMA BeginInv ==
  ASSUME IInv, TypeOK', NEW r \in Requests, NEW n \in Request, Begin(r, n), UNCHANGED Tables,
         n.op # "idle", n.user \in Users, n.snap = {},
         n.op \in UserWriters => n.pc \in {"readUser", "updateUser"},
         n.op = "forgot" => n.etok \in EmailTokens,
         n.pc \notin {"consume", "revoke", "commit"},
         n.pc = "snapshot" => n.op = "revoke",
         n.op \in {"reset", "invite", "change"} => n.new \in Passwords,
         n.op = "login" => n.rtok \in RefreshTokens /\ RefreshTokenUnborn(n.rtok),
         n.op = "logout" => n.rtok \in RefreshTokens /\ rt[n.rtok].user = n.user
  PROVE  IInv'
  <1>1. req' = [req EXCEPT ![r] = n] /\ req'[r] = n
    BY DEF Begin, IInv, TypeOK
  <1>2. RequestOK(r)'
    BY <1>1 DEF RequestOK, Tables, RefreshTokenUnborn
  <1>3. ~(\E u \in Users : HoldsUser(r, u)')
    BY <1>1 DEF HoldsUser, AfterUserUpdate
  <1>4. \A q \in Requests \ {r} :
           n.op = "login" /\ req[q].op = "login" => n.rtok # req[q].rtok
    BY DEF RefreshTokenUnborn
  <1>5. QED
    BY <1>1, <1>2, <1>3, <1>4, LocalStep DEF Tables

\* Accepting a request and opening its session keeps the inductive invariant:
\* nothing is written yet.
LEMMA StartInv ==
  ASSUME IInv, NEW r \in Requests, Start(r)
  PROVE  IInv'
  <1>1. TypeOK /\ TypeOK'
    BY StartType DEF IInv
  <1> USE DEF UserWriters
  <1>2. ASSUME NEW u \in Users, NEW t \in RefreshTokens, LoginRead(r, u, t)
        PROVE  IInv'
    BY <1>1, <1>2, BeginInv DEF LoginRead, IdleRequest, Request, Ops, Pcs
  <1>3. ASSUME NEW t \in RefreshTokens, RefreshReadToken(r, t) \/ LogoutRead(r, t)
        PROVE  IInv'
    <2>1. rt[t].user \in Users
      BY <1>1, <1>3 DEF RefreshReadToken, LogoutRead, Live, TypeOK, RefreshToken
    <2>2. QED
      BY <1>1, <1>3, <2>1, BeginInv
         DEF RefreshReadToken, LogoutRead, IdleRequest, Request, Ops, Pcs
  <1>4. ASSUME NEW u \in Users, NEW e \in EmailTokens, ForgotRead(r, u, e) PROVE IInv'
    BY <1>1, <1>4, BeginInv DEF ForgotRead, IdleRequest, Request, Ops, Pcs
  <1>5. ASSUME NEW e \in EmailTokens, NEW p \in Passwords,
               ResetReadToken(r, e, p) \/ InviteReadToken(r, e, p)
        PROVE  IInv'
    <2>1. et[e].user \in Users
      BY <1>1, <1>5 DEF ResetReadToken, InviteReadToken, ReadEmailToken, Usable,
                        TypeOK, PasswordResetToken
    <2>2. QED
      BY <1>1, <1>5, <2>1, BeginInv
         DEF ResetReadToken, InviteReadToken, ReadEmailToken, IdleRequest, Request, Ops, Pcs
  <1>6. ASSUME NEW u \in Users, NEW p \in Passwords, ChangeRead(r, u, p)
        PROVE  IInv'
    BY <1>1, <1>6, BeginInv DEF ChangeRead, IdleRequest, Request, Ops, Pcs
  <1>7. ASSUME NEW u \in Users, DeactivateRead(r, u) \/ RevokeSessionsRead(r, u)
        PROVE  IInv'
    BY <1>1, <1>7, BeginInv DEF DeactivateRead, RevokeSessionsRead, IdleRequest,
                                Request, Ops, Pcs
  <1>8. QED
    BY <1>2, <1>3, <1>4, <1>5, <1>6, <1>7 DEF Start

\* A request whose list of rows to revoke is set: the row locks it holds are
\* those it held, and the list is complete where it must be.
LEMMA SnapInv ==
  ASSUME IInv, TypeOK', NEW r \in Requests, NEW S \in SUBSET RefreshTokens,
         NEW pc \in {"revoke", "commit"},
         req' = [req EXCEPT ![r].snap = S, ![r].pc = pc], UNCHANGED Tables,
         req[r].op \in {"logout", "reset", "change", "deactivate", "revoke"},
         req[r].op = "logout" => pc = "commit",
         req[r].op = "logout" \/ req[r].pc \in {"snapshot", "revoke"},
         \A t \in S : rt[t].user = req[r].user,
         req[r].op \in {"reset", "change", "deactivate"} =>
           \A t \in RefreshTokens :
             rt[t].user = req[r].user /\ ~rt[t].revoked => t \in S
  PROVE  IInv'
  <1> DEFINE n == [[req[r] EXCEPT !.snap = S] EXCEPT !.pc = pc]
  <1>1. req[r] \in Request /\ RequestOK(r) /\ req \in [Requests -> Request]
    BY DEF IInv, TypeOK
  <1>2. [req[r] EXCEPT !.snap = S] \in Request
    BY <1>1 DEF Request
  <1>3. /\ n \in Request /\ n.pc = pc /\ n.op = req[r].op /\ n.user = req[r].user
        /\ n.rtok = req[r].rtok /\ n.etok = req[r].etok /\ n.new = req[r].new
        /\ n.snap = S
    BY <1>1, <1>2 DEF Request, Pcs
  <1>4. req' = [req EXCEPT ![r] = n] /\ req'[r] = n
    BY <1>1
  <1> HIDE DEF n
  <1>5. RequestOK(r)'
    BY <1>1, <1>3, <1>4 DEF RequestOK, Tables
  <1>6. \A u \in Users : HoldsUser(r, u)' => HoldsUser(r, u)
    BY <1>3, <1>4 DEF HoldsUser, UserWriters, AfterUserUpdate
  <1>7. QED
    BY <1>3, <1>4, <1>5, <1>6, LocalStep DEF Tables

\* A step that takes row locks and writes keeps the inductive invariant: this is
\* where a credential change and a login exclude each other on the user's row.
LEMMA LockingInv ==
  ASSUME IInv, NEW r \in Requests, Locking(r)
  PROVE  IInv'
  <1>1. TypeOK /\ TypeOK' /\ RequestOK(r)
    BY LockingType DEF IInv
  <1>2. CASE LoginUpdateLastLogin(r)
    BY <1>1, <1>2, GotoInv DEF LoginUpdateLastLogin, UpdateUserRow, At, Pcs, Tables
  <1>3. CASE LogoutRevoke(r)
    <2>1. req[r].op = "logout" /\ req[r].rtok \in RefreshTokens
          /\ rt[req[r].rtok].user = req[r].user
      BY <1>1, <1>3 DEF LogoutRevoke, At, RequestOK
    <2>2. req' = [req EXCEPT ![r].snap = {req[r].rtok}, ![r].pc = "commit"]
          /\ UNCHANGED Tables
      BY <1>3 DEF LogoutRevoke
    <2>3. PICK S \in SUBSET RefreshTokens : S = {req[r].rtok}
      BY <2>1
    <2>4. QED
      BY <1>1, <2>1, <2>2, <2>3, SnapInv
  <1>4. CASE ActivationSetPassword(r)
    BY <1>1, <1>4, GotoInv DEF ActivationSetPassword, UpdateUserRow, Pcs, Tables
  <1>5. CASE ActivationConsumeToken(r)
    <2>1. req[r].op \in {"reset", "invite"} /\ req[r].pc \in AfterUserUpdate
      BY <1>1, <1>5 DEF ActivationConsumeToken, RequestOK, AfterUserUpdate
    <2>2. PICK pc \in {"snapshot", "commit"} :
            Goto(r, pc) /\ (pc = "snapshot" <=> req[r].op = "reset")
      BY <1>5 DEF ActivationConsumeToken
    <2>3. UNCHANGED Tables
      BY <1>5 DEF ActivationConsumeToken
    <2>4. QED
      BY <1>1, <2>1, <2>2, <2>3, GotoInv DEF Pcs, Tables
  <1>6. CASE AccountUpdate(r)
    BY <1>1, <1>6, GotoInv DEF AccountUpdate, UpdateUserRow, Pcs, Tables
  <1>7. CASE RevokeAllApply(r)
    <2> DEFINE S == {t \in req[r].snap : ~rt[t].revoked}
    <2>1. S \in SUBSET RefreshTokens /\ \A t \in S : rt[t].user = req[r].user
      BY <1>1 DEF TypeOK, Request, RequestOK
    <2>2. req' = [req EXCEPT ![r].snap = S, ![r].pc = "commit"] /\ UNCHANGED Tables
      BY <1>7 DEF RevokeAllApply
    <2>3. req[r].op \in {"reset", "change", "deactivate", "revoke"} /\ req[r].pc = "revoke"
      BY <1>1, <1>7 DEF RevokeAllApply, RequestOK
    <2>4. req[r].op \in {"reset", "change", "deactivate"} =>
            \A t \in RefreshTokens :
              rt[t].user = req[r].user /\ ~rt[t].revoked => t \in S
      BY <2>3 DEF IInv, RevocationComplete
    <2> HIDE DEF S
    <2>5. QED
      BY <1>1, <2>1, <2>2, <2>3, <2>4, SnapInv
  <1>8. QED
    BY <1>2, <1>3, <1>4, <1>5, <1>6, <1>7, Locking(r) DEF Locking

\* A committed login, revocation or consumed token.
LEMMA CommitInv ==
  ASSUME IInv, NEW r \in Requests, Commit(r)
  PROVE  IInv'
  <1> DEFINE n == req[r]
  <1>1. /\ TypeOK /\ RequestOK(r) /\ n \in Request
        /\ n.pc = "commit" /\ n.op # "idle" /\ n.user \in Users
    BY DEF IInv, TypeOK, Commit, RequestOK
  <1>2. TypeOK'
    BY <1>1, RunningType DEF Running
  <1>3. /\ req' = [req EXCEPT ![r] = IdleRequest] /\ req'[r] = IdleRequest
        /\ \A q \in Requests \ {r} : req'[q] = req[q]
    BY <1>1 DEF Commit, Finish, TypeOK
  <1>4. rt' = [t \in RefreshTokens |-> RefreshTokenAfter(n, t)] /\ mailed' = mailed
    BY DEF Commit
  <1>5. \A t \in RefreshTokens :
          \/ n.op = "login" /\ t = n.rtok /\ rt'[t].user = n.user
          \/ rt'[t].user = rt[t].user /\ (rt[t].revoked => rt'[t].revoked)
    <2> SUFFICES ASSUME NEW t \in RefreshTokens
                 PROVE  \/ n.op = "login" /\ t = n.rtok /\ rt'[t].user = n.user
                        \/ rt'[t].user = rt[t].user /\ (rt[t].revoked => rt'[t].revoked)
      OBVIOUS
    <2>1. rt'[t] = RefreshTokenAfter(n, t) /\ rt[t] \in RefreshToken
      BY <1>1, <1>4 DEF TypeOK
    <2>2. QED
      BY <2>1 DEF RefreshTokenAfter, RefreshToken
  <1>6. \A q \in Requests : RequestOK(q)'
    <2>1. RequestOK(r)'
      BY <1>3 DEF RequestOK, IdleRequest
    <2>2. ASSUME NEW q \in Requests \ {r} PROVE RequestOK(q)'
      <3>1. RequestOK(q) /\ req'[q] = req[q] /\ req[q] \in Request
        BY <1>1, <1>3, <2>2 DEF IInv, TypeOK
      <3>2. n.op = "login" => rt[n.rtok].user = None /\ n.rtok \in RefreshTokens
        BY <1>1 DEF RequestOK
      <3>3. n.op = "login" /\ req[q].op = "login" => req[q].rtok # n.rtok
        BY <2>2 DEF IInv, MintsDiffer
      <3>4. req[q].op = "login" => rt'[req[q].rtok].user = None
        BY <1>5, <3>1, <3>3 DEF RequestOK
      <3>5. req[q].op # "idle" => req[q].user # None
        BY <3>1, ConstantsAssumption DEF RequestOK
      <3>6. req[q].op = "logout" => rt'[req[q].rtok].user = req[q].user
        BY <1>5, <3>1, <3>2, <3>5 DEF RequestOK
      <3>7. \A t \in req[q].snap : rt'[t].user = req[q].user
        <4> SUFFICES ASSUME NEW t \in req[q].snap PROVE rt'[t].user = req[q].user
          OBVIOUS
        <4>1. t \in RefreshTokens /\ rt[t].user = req[q].user /\ req[q].op # "idle"
          BY <3>1 DEF RequestOK, Request
        <4>2. QED BY <1>5, <3>2, <3>5, <4>1
      <3>8. QED
        BY <1>4, <3>1, <3>4, <3>6, <3>7 DEF RequestOK
    <2>3. QED BY <2>1, <2>2
  <1>7. MintsDiffer'
    BY <1>3 DEF IInv, MintsDiffer, IdleRequest
  <1>8. UserRowExclusive'
    <2>1. \A q \in Requests, u \in Users : HoldsUser(q, u)' => q # r /\ HoldsUser(q, u)
      BY <1>3 DEF HoldsUser, IdleRequest, UserWriters
    <2>2. QED BY <2>1 DEF IInv, UserRowExclusive
  <1>9. RevocationComplete'
    <2> SUFFICES ASSUME NEW q \in Requests,
                        req'[q].op \in {"reset", "change", "deactivate"},
                        req'[q].pc \in {"revoke", "commit"},
                        NEW t \in RefreshTokens,
                        rt'[t].user = req'[q].user, ~rt'[t].revoked
                 PROVE  t \in req'[q].snap
      BY DEF RevocationComplete
    <2>1. q # r /\ req'[q] = req[q]
      BY <1>3 DEF IdleRequest
    <2>2. req[q].user \in Users
      BY <2>1 DEF IInv, RequestOK
    <2>3. CASE n.op = "login" /\ t = n.rtok /\ rt'[t].user = n.user
      <3>1. HoldsUser(r, req[q].user) /\ HoldsUser(q, req[q].user)
        BY <1>1, <2>1, <2>3 DEF HoldsUser, UserWriters, AfterUserUpdate
      <3>2. QED
        BY <2>1, <2>2, <3>1 DEF IInv, UserRowExclusive
    <2>4. CASE rt'[t].user = rt[t].user /\ (rt[t].revoked => rt'[t].revoked)
      BY <2>1, <2>4 DEF IInv, RevocationComplete
    <2>5. QED BY <1>5, <2>3, <2>4
  <1>10. StoredResetTokensWereMailed'
    <2> SUFFICES ASSUME SmtpEnabled, NEW e \in EmailTokens \ InviteTokens,
                        et'[e].user # None
                 PROVE  e \in mailed'
      BY DEF StoredResetTokensWereMailed
    <2>1. et'[e] = EmailTokenAfter(n, e) /\ et[e] \in PasswordResetToken
      BY <1>1 DEF Commit, TypeOK
    <2>2. CASE n.op = "forgot" /\ e = n.etok
      BY <1>1, <1>4, <2>2 DEF RequestOK
    <2>3. CASE ~(n.op = "forgot" /\ e = n.etok)
      <3>1. et'[e].user = et[e].user
        BY <2>1, <2>3 DEF EmailTokenAfter, PasswordResetToken
      <3>2. QED
        BY <1>4, <3>1 DEF IInv, StoredResetTokensWereMailed
    <2>4. QED BY <2>2, <2>3
  <1>11. QED
    BY <1>2, <1>6, <1>7, <1>8, <1>9, <1>10 DEF IInv

\* A step of a request between its start and its end (reads, writes, the e-mail)
\* keeps the inductive invariant.
LEMMA RunningInv ==
  ASSUME IInv, NEW r \in Requests, Running(r)
  PROVE  IInv'
  <1>1. TypeOK /\ TypeOK' /\ RequestOK(r)
    BY RunningType DEF IInv
  <1>2. CASE LoginSaveRefreshToken(r)
    BY <1>1, <1>2, GotoInv DEF LoginSaveRefreshToken, At, Pcs, Tables, AfterUserUpdate
  <1>3. CASE RefreshReadUser(r)
    <2>1. CASE Finish(r)
      BY <1>1, <1>3, <2>1, FinishInv DEF RefreshReadUser, Tables
    <2>2. CASE Goto(r, "commit")
      BY <1>1, <1>3, <2>2, GotoInv DEF RefreshReadUser, At, Tables, Pcs, UserWriters
    <2>3. QED BY <1>3, <2>1, <2>2 DEF RefreshReadUser
  <1>4. CASE ForgotSaveResetToken(r)
    BY <1>1, <1>4, GotoInv DEF ForgotSaveResetToken, At, Pcs, Tables, UserWriters
  <1>5. CASE ForgotMailAccepted(r)
    BY <1>1, <1>5, GotoInv DEF ForgotMailAccepted, At, Pcs, UserWriters
  <1>6. CASE ForgotMailFails(r)
    BY <1>1, <1>6, FinishInv DEF ForgotMailFails, Tables
  <1>7. CASE ActivationReadUser(r)
    <2>1. CASE Finish(r)
      BY <1>1, <1>7, <2>1, FinishInv DEF ActivationReadUser, Tables
    <2>2. CASE Goto(r, "updateUser")
      BY <1>1, <1>7, <2>2, GotoInv DEF ActivationReadUser, Tables, Pcs, AfterUserUpdate
    <2>3. QED BY <1>7, <2>1, <2>2 DEF ActivationReadUser
  <1>8. CASE RevokeAllSnapshot(r)
    <2> DEFINE S == {t \in RefreshTokens : rt[t].user = req[r].user /\ ~rt[t].revoked}
    <2>1. /\ S \in SUBSET RefreshTokens
          /\ \A t \in S : rt[t].user = req[r].user
          /\ \A t \in RefreshTokens :
               rt[t].user = req[r].user /\ ~rt[t].revoked => t \in S
      OBVIOUS
    <2>2. req' = [req EXCEPT ![r].snap = S, ![r].pc = "revoke"] /\ UNCHANGED Tables
      BY <1>8 DEF RevokeAllSnapshot
    <2>3. req[r].op \in {"reset", "change", "deactivate", "revoke"} /\ req[r].pc = "snapshot"
      BY <1>1, <1>8 DEF RevokeAllSnapshot, RequestOK
    <2> HIDE DEF S
    <2>4. QED
      BY <1>1, <2>1, <2>2, <2>3, SnapInv
  <1>9. CASE Commit(r)
    BY <1>9, CommitInv
  <1>10. QED
    BY <1>2, <1>3, <1>4, <1>5, <1>6, <1>7, <1>8, <1>9, Running(r) DEF Running

\* Expiry changes neither the owner nor the revocation of a refresh token.
LEMMA ClockRows ==
  ASSUME TypeOK, Clock
  PROVE  /\ UNCHANGED <<users, mailed, req>>
         /\ \A t \in RefreshTokens :
              rt'[t].user = rt[t].user /\ rt'[t].revoked = rt[t].revoked
         /\ \A e \in EmailTokens : et'[e].user = et[e].user
  <1>1. CASE \E t \in RefreshTokens : ExpireRefreshToken(t)
    BY <1>1 DEF ExpireRefreshToken, TypeOK, RefreshToken
  <1>2. CASE \E e \in EmailTokens : ExpireEmailToken(e)
    BY <1>2 DEF ExpireEmailToken, TypeOK, PasswordResetToken
  <1>3. CASE \E u \in Users : ExpireAccess(u)
    BY <1>3 DEF ExpireAccess
  <1>4. QED BY <1>1, <1>2, <1>3 DEF Clock

\* The passing of time expires tokens and never revives one, so it keeps the
\* inductive invariant.
LEMMA ClockInv ==
  ASSUME IInv, Clock
  PROVE  IInv'
  <1>1. TypeOK /\ TypeOK'
    BY ClockType DEF IInv
  <1>2. \A q \in Requests : RequestOK(q)'
    <2>1. ASSUME NEW q \in Requests PROVE RequestOK(q)'
      <3>1. RequestOK(q) /\ req[q] \in Request
        BY <1>1 DEF IInv, TypeOK
      <3>2. QED
        BY <1>1, <3>1, ClockRows DEF RequestOK, Request
    <2>2. QED BY <2>1
  <1>3. MintsDiffer' /\ UserRowExclusive'
    BY <1>1, ClockRows DEF IInv, MintsDiffer, UserRowExclusive, HoldsUser
  <1>4. RevocationComplete' /\ StoredResetTokensWereMailed'
    BY <1>1, ClockRows DEF IInv, RevocationComplete, StoredResetTokensWereMailed
  <1>5. QED BY <1>1, <1>2, <1>3, <1>4 DEF IInv

\* The inductive invariant holds of the database of an earlier deployment with
\* no request open.
LEMMA InitInv ==
  ASSUME Init
  PROVE  IInv
  <1>1. req \in [Requests -> Request] /\ \A r \in Requests : req[r] = IdleRequest
    BY IdleRequestType DEF Init
  <1>2. rt \in [RefreshTokens -> RefreshToken]
    BY DEF Init, RefreshToken
  <1>3. PICK owner \in [InviteTokens -> {u \in Users : users[u].pw = None}] :
          et = [e \in EmailTokens |->
                  [user |-> IF e \in InviteTokens THEN owner[e] ELSE None,
                   used |-> FALSE, expired |-> FALSE]]
    BY DEF Init
  <1>4. et \in [EmailTokens -> PasswordResetToken]
    BY <1>3 DEF PasswordResetToken
  <1>5. users \in [Users -> User]
    BY DEF Init
  <1>6. TypeOK
    BY <1>1, <1>2, <1>4, <1>5 DEF Init, TypeOK
  <1>7. \A r \in Requests : RequestOK(r)
    BY <1>1 DEF RequestOK, IdleRequest
  <1>8. MintsDiffer /\ UserRowExclusive /\ RevocationComplete
    BY <1>1 DEF MintsDiffer, UserRowExclusive, HoldsUser, UserWriters,
                RevocationComplete, IdleRequest
  <1>9. StoredResetTokensWereMailed
    BY <1>3 DEF StoredResetTokensWereMailed
  <1>10. QED BY <1>6, <1>7, <1>8, <1>9 DEF IInv

\* Every step of the system, a stuttering one included, keeps the inductive
\* invariant.
LEMMA StepInv ==
  ASSUME IInv, [Next]_vars
  PROVE  IInv'
  <1>1. ASSUME NEW r \in Requests, Rollback(r) PROVE IInv'
    BY <1>1, RollbackType, FinishInv DEF IInv, Rollback, Tables
  <1>2. CASE UNCHANGED vars
    BY <1>2 DEF vars, IInv, TypeOK, RequestOK, MintsDiffer, UserRowExclusive, HoldsUser,
                RevocationComplete, StoredResetTokensWereMailed
  <1>3. QED
    BY <1>1, <1>2, StartInv, LockingInv, RunningInv, ClockInv DEF Next

\* The inductive invariant holds in every reachable state, for any number of
\* users, tokens and concurrent requests.
THEOREM Invariance == Spec => []IInv
  <1>1. Init => IInv
    BY InitInv
  <1>2. IInv /\ [Next]_vars => IInv'
    BY StepInv
  <1>3. QED BY <1>1, <1>2, PTL DEF Spec

\* Type correctness of AuthSessions.
THEOREM TypeCorrectness == Spec => []TypeOK
  <1>1. IInv => TypeOK
    BY DEF IInv
  <1>2. QED BY <1>1, Invariance, PTL

\* A reset token reaches the table only if its e-mail was accepted
\* (auth_service.forgot_password).
THEOREM ResetTokensWereMailed == Spec => []StoredResetTokensWereMailed
  <1>1. IInv => StoredResetTokensWereMailed
    BY DEF IInv
  <1>2. QED BY <1>1, Invariance, PTL

-----------------------------------------------------------------------------
\* The commit of a reset, a change of password or a deactivation leaves no
\* unrevoked refresh token of the account, whatever runs beside it
\* (auth_service.py:200-202, 275-276, user_service.py:307-308).
THEOREM CredentialChange == Spec => CredentialChangeEndsSessions
  <1> DEFINE Ends ==
        \A r \in Requests :
          Commit(r) /\ req[r].op \in {"reset", "change", "deactivate"} =>
            \A t \in RefreshTokens : rt'[t].user = req[r].user => rt'[t].revoked
  <1>1. IInv /\ [Next]_vars => [Ends]_vars
    <2> SUFFICES ASSUME IInv, NEW r \in Requests, Commit(r),
                        req[r].op \in {"reset", "change", "deactivate"},
                        NEW t \in RefreshTokens, rt'[t].user = req[r].user
                 PROVE  rt'[t].revoked
      OBVIOUS
    <2>1. rt'[t] = RefreshTokenAfter(req[r], t) /\ rt[t] \in RefreshToken
      BY DEF Commit, IInv, TypeOK
    <2>2. CASE t \in req[r].snap
      BY <2>1, <2>2 DEF RefreshTokenAfter, RefreshToken
    <2>3. CASE t \notin req[r].snap
      <3>1. rt'[t] = rt[t]
        BY <2>1, <2>3 DEF RefreshTokenAfter
      <3>2. rt[t].revoked
        BY <2>3, <3>1 DEF IInv, RevocationComplete, Commit
      <3>3. QED BY <3>1, <3>2
    <2>4. QED BY <2>2, <2>3
  <1>2. QED
    BY <1>1, Invariance, PTL DEF Spec, CredentialChangeEndsSessions

-----------------------------------------------------------------------------
\* What a step other than a commit does to the tables, to the access tokens and to
\* the table of requests.
LEMMA StepShape ==
  ASSUME IInv, Next, ~(\E r \in Requests : Commit(r))
  PROVE  /\ users' = users
         /\ \A e \in EmailTokens :
              et'[e].used = et[e].used /\ et'[e].user = et[e].user
         /\ access' \subseteq access
         /\ \A q \in Requests : Granted(q)' =>
              (Granted(q) /\ req'[q].user = req[q].user) \/ users[req'[q].user].active
         /\ \A q \in Requests :
              \/ req'[q] = IdleRequest
              \/ /\ req'[q].op = req[q].op /\ req'[q].user = req[q].user
                 /\ req'[q].etok = req[q].etok
              \/ req'[q].etok = None /\ req'[q].op \notin {"reset", "invite"}
              \/ req'[q].op = "forgot" /\ EmailTokenUnborn(req'[q].etok)
              \/ /\ req'[q].op \in {"reset", "invite"}
                 /\ req'[q].etok \in EmailTokens /\ Usable(req'[q].etok)
  <1>0. /\ req \in [Requests -> Request]
        /\ \A e \in EmailTokens : et[e] \in PasswordResetToken
    BY DEF IInv, TypeOK
  <1>1. CASE Clock
    <2>1. UNCHANGED <<users, req>> /\ access' \subseteq access
      BY <1>1 DEF Clock, ExpireRefreshToken, ExpireEmailToken, ExpireAccess
    <2>2. \A e \in EmailTokens : et'[e].used = et[e].used /\ et'[e].user = et[e].user
      BY <1>0, <1>1 DEF Clock, ExpireRefreshToken, ExpireEmailToken, ExpireAccess,
                        IInv, TypeOK, PasswordResetToken
    <2>3. QED BY <2>1, <2>2 DEF Granted, At
  <1>2. ASSUME NEW r \in Requests, Start(r)
        PROVE  /\ UNCHANGED Tables
               /\ \A q \in Requests \ {r} : req'[q] = req[q]
               /\ Granted(r)' => users[req'[r].user].active
               /\ \/ req'[r].etok = None /\ req'[r].op \notin {"reset", "invite"}
                  \/ req'[r].op = "forgot" /\ EmailTokenUnborn(req'[r].etok)
                  \/ /\ req'[r].op \in {"reset", "invite"}
                     /\ req'[r].etok \in EmailTokens /\ Usable(req'[r].etok)
    <2>1. CASE \E u \in Users, t \in RefreshTokens : LoginRead(r, u, t)
      BY <1>0, <2>1 DEF LoginRead, Begin, IdleRequest, Granted
    <2>2. CASE \E t \in RefreshTokens : RefreshReadToken(r, t) \/ LogoutRead(r, t)
      BY <1>0, <2>2 DEF RefreshReadToken, LogoutRead, Begin, IdleRequest, Granted, At
    <2>3. CASE \E u \in Users, e \in EmailTokens : ForgotRead(r, u, e)
      BY <1>0, <2>3 DEF ForgotRead, Begin, IdleRequest, Granted, At
    <2>4. CASE \E e \in EmailTokens, p \in Passwords :
                 ResetReadToken(r, e, p) \/ InviteReadToken(r, e, p)
      BY <1>0, <2>4 DEF ResetReadToken, InviteReadToken, ReadEmailToken, Begin, IdleRequest, Granted, At
    <2>5. CASE \/ \E u \in Users, p \in Passwords : ChangeRead(r, u, p)
               \/ \E u \in Users : DeactivateRead(r, u) \/ RevokeSessionsRead(r, u)
      <3>1. CASE \E u \in Users, p \in Passwords : ChangeRead(r, u, p)
        BY <1>0, <3>1 DEF ChangeRead, Begin, IdleRequest, Granted, At
      <3>2. CASE \E u \in Users : DeactivateRead(r, u)
        BY <1>0, <3>2 DEF DeactivateRead, Begin, IdleRequest, Granted, At
      <3>3. CASE \E u \in Users : RevokeSessionsRead(r, u)
        BY <1>0, <3>3 DEF RevokeSessionsRead, Begin, IdleRequest, Granted, At
      <3>4. QED BY <2>5, <3>1, <3>2, <3>3
    <2>6. QED
      BY <1>2, <2>1, <2>2, <2>3, <2>4, <2>5 DEF Start
  <1>3. ASSUME NEW r \in Requests, Locking(r)
        PROVE  /\ UNCHANGED Tables
               /\ \A q \in Requests : /\ req'[q].op = req[q].op
                                      /\ req'[q].user = req[q].user
                                      /\ req'[q].etok = req[q].etok
               /\ \A q \in Requests : Granted(q)' => Granted(q)
    <2>1. /\ UNCHANGED Tables
          /\ \A q \in Requests : /\ req'[q].op = req[q].op
                                 /\ req'[q].user = req[q].user
                                 /\ req'[q].etok = req[q].etok
      BY <1>0, <1>3 DEF Locking, LoginUpdateLastLogin, LogoutRevoke, ActivationSetPassword,
           ActivationConsumeToken, AccountUpdate, RevokeAllApply, UpdateUserRow, Goto,
           Request, Tables
    <2>2. req[r].op # "refresh" /\ \A q \in Requests \ {r} : req'[q] = req[q]
      BY <1>0, <1>3 DEF IInv, RequestOK, Locking, LoginUpdateLastLogin, LogoutRevoke,
           ActivationSetPassword, ActivationConsumeToken, AccountUpdate, RevokeAllApply,
           UpdateUserRow, Goto, At
    <2>3. QED BY <2>1, <2>2 DEF Granted, At
  <1>4. ASSUME NEW r \in Requests, Running(r)
        PROVE  /\ UNCHANGED <<users, et>>
               /\ access' = access
               /\ \A q \in Requests : Granted(q)' =>
                    (Granted(q) /\ req'[q].user = req[q].user) \/ users[req'[q].user].active
               /\ \A q \in Requests :
                    \/ req'[q] = IdleRequest
                    \/ /\ req'[q].op = req[q].op /\ req'[q].user = req[q].user
                       /\ req'[q].etok = req[q].etok
    <2>1. CASE RefreshReadUser(r)
      <3>1. req[r].op = "refresh" /\ UNCHANGED Tables
        BY <2>1 DEF RefreshReadUser, At
      <3>2. CASE users[req[r].user].active /\ Goto(r, "commit")
        BY <1>0, <3>1, <3>2 DEF Goto, Request, Tables, Granted, At
      <3>3. CASE Finish(r)
        BY <1>0, <3>1, <3>3 DEF Finish, Tables, Granted, At, IdleRequest
      <3>4. QED BY <2>1, <3>2, <3>3 DEF RefreshReadUser
    <2>2. CASE ForgotMailFails(r)
      BY <1>0, <2>2 DEF ForgotMailFails, Finish, Tables, Granted, At, IdleRequest
    <2>3. CASE ActivationReadUser(r)
      <3>1. req[r].op \in {"reset", "invite"} /\ UNCHANGED Tables
        BY <2>3 DEF ActivationReadUser
      <3>2. CASE Goto(r, "updateUser")
        BY <1>0, <3>1, <3>2 DEF Goto, Request, Tables, Granted, At
      <3>3. CASE Finish(r)
        BY <1>0, <3>1, <3>3 DEF Finish, Tables, Granted, At, IdleRequest
      <3>4. QED BY <2>3, <3>2, <3>3 DEF ActivationReadUser
    <2>4. CASE LoginSaveRefreshToken(r) \/ ForgotSaveResetToken(r) \/ ForgotMailAccepted(r)
      BY <1>0, <2>4 DEF LoginSaveRefreshToken, ForgotSaveResetToken, ForgotMailAccepted,
                        Goto, Request, Tables, Granted, At
    <2>5. CASE RevokeAllSnapshot(r)
      BY <1>0, <2>5 DEF RevokeAllSnapshot, Request, Tables, Granted, At
    <2>6. QED
      BY <1>4, <2>1, <2>2, <2>3, <2>4, <2>5 DEF Running
  <1>5. ASSUME NEW r \in Requests, Rollback(r)
        PROVE  /\ UNCHANGED Tables
               /\ \A q \in Requests : req'[q] = IdleRequest \/ req'[q] = req[q]
    BY <1>0, <1>5 DEF Rollback, Finish, Tables
  <1>6. QED
    BY <1>1, <1>2, <1>3, <1>4, <1>5 DEF Next, Tables, Granted, At, IdleRequest

\* A closed account is given no access token and is not opened again, not even by
\* a refresh that had checked its token before the account was closed; only a
\* login or a refresh that had read the account active may still answer with one
\* (auth_service.refresh), and while one is in flight the account is not closed.
THEOREM ClosedAccounts == Spec => ClosedAccountsStayClosed
  <1> DEFINE Stays ==
        \A u \in Users : Closed(u) => Closed(u)' /\ (u \in access' => u \in access)
  <1>1. IInv /\ Next => Stays
    <2> SUFFICES ASSUME IInv, Next, NEW u \in Users, Closed(u)
                 PROVE  Closed(u)' /\ (u \in access' => u \in access)
      OBVIOUS
    <2>1. /\ ~users[u].active /\ users \in [Users -> User]
          /\ \A q \in Requests : req[q].user = u => ~Granted(q)
      BY DEF Closed, IInv, TypeOK
    <2>2. ASSUME NEW r \in Requests, Commit(r)
          PROVE  Closed(u)' /\ (u \in access' => u \in access)
      <3>1. ~users'[u].active
        BY <2>1, <2>2 DEF Commit, UserAfter, User
      <3>2. \A q \in Requests : req'[q] = IdleRequest \/ req'[q] = req[q]
        BY <2>2 DEF Commit, Finish, IInv, TypeOK
      <3>3. u \in access' => u \in access
        BY <2>1, <2>2 DEF Commit, Granted, At
      <3>4. QED BY <2>1, <3>1, <3>2, <3>3 DEF Closed, Granted, At, IdleRequest
    <2>3. CASE ~(\E r \in Requests : Commit(r))
      <3>1. users' = users /\ (u \in access' => u \in access)
        BY <2>1, <2>3, StepShape
      <3>2. \A q \in Requests : req'[q].user = u => ~Granted(q)'
        BY <2>1, <2>3, StepShape
      <3>3. QED BY <2>1, <3>1, <3>2 DEF Closed
    <2>4. QED BY <2>2, <2>3
  <1>2. IInv /\ [Next]_vars => [Stays]_vars
    BY <1>1
  <1>3. QED
    BY <1>2, Invariance, PTL DEF Spec, ClosedAccountsStayClosed

\* The rows of the e-mailed tokens that requests consume, or have consumed, exist.
UsedTokensExist ==
  /\ \A e \in EmailTokens : et[e].used => et[e].user # None
  /\ \A r \in Requests : req[r].op \in {"reset", "invite"} =>
       req[r].etok \in EmailTokens /\ et[req[r].etok].user # None

\* What a commit leaves of the e-mailed tokens.
LEMMA CommitTokens ==
  ASSUME IInv, NEW r \in Requests, Commit(r), NEW e \in EmailTokens
  PROVE  /\ et[e].user # None => et'[e].user # None
         /\ et'[e].used => et[e].used \/ (req[r].op \in {"reset", "invite"} /\ req[r].etok = e)
         /\ et[e].used /\ req[r].etok # e => et'[e].used
         /\ \A q \in Requests : req'[q] = IdleRequest \/ req'[q] = req[q]
  <1>1. /\ et'[e] = EmailTokenAfter(req[r], e) /\ et[e] \in PasswordResetToken
        /\ req \in [Requests -> Request] /\ RequestOK(r)
    BY DEF Commit, IInv, TypeOK
  <1>2. \A q \in Requests : req'[q] = IdleRequest \/ req'[q] = req[q]
    BY <1>1 DEF Commit, Finish
  <1>3. req[r].op = "forgot" => req[r].user # None
    BY <1>1, ConstantsAssumption DEF RequestOK
  <1>4. QED
    BY <1>1, <1>2, <1>3 DEF EmailTokenAfter, PasswordResetToken

\* Tokens that are used exist in every reachable state.
LEMMA UsedTokens == Spec => []UsedTokensExist
  <1>1. Init => UsedTokensExist
    <2> SUFFICES ASSUME Init PROVE UsedTokensExist
      OBVIOUS
    <2>1. \A r \in Requests : req[r].op = "idle"
      BY DEF Init, IdleRequest
    <2>2. \A e \in EmailTokens : ~et[e].used
      BY DEF Init
    <2>3. QED BY <2>1, <2>2 DEF UsedTokensExist
  <1>2. IInv /\ UsedTokensExist /\ [Next]_vars => UsedTokensExist'
    <2> SUFFICES ASSUME IInv, UsedTokensExist, Next PROVE UsedTokensExist'
      BY DEF UsedTokensExist, vars
    <2>1. ASSUME NEW r \in Requests, Commit(r) PROVE UsedTokensExist'
      <3>1. \A e \in EmailTokens : et'[e].used => et'[e].user # None
        BY <2>1, CommitTokens DEF UsedTokensExist
      <3>2. ASSUME NEW q \in Requests, req'[q].op \in {"reset", "invite"}
            PROVE  req'[q].etok \in EmailTokens /\ et'[req'[q].etok].user # None
        <4>1. req'[q] = IdleRequest \/ req'[q] = req[q]
          BY <2>1 DEF Commit, Finish, IInv, TypeOK
        <4>2. req'[q] = req[q]
          BY <3>2, <4>1 DEF IdleRequest
        <4>3. req[q].etok \in EmailTokens /\ et[req[q].etok].user # None
          BY <3>2, <4>2 DEF UsedTokensExist
        <4>4. QED BY <2>1, <4>2, <4>3, CommitTokens
      <3>3. QED BY <3>1, <3>2 DEF UsedTokensExist
    <2>2. CASE ~(\E r \in Requests : Commit(r))
      <3>1. \A e \in EmailTokens : et'[e].used => et'[e].user # None
        BY <2>2, StepShape DEF UsedTokensExist
      <3>2. ASSUME NEW q \in Requests, req'[q].op \in {"reset", "invite"}
            PROVE  req'[q].etok \in EmailTokens /\ et'[req'[q].etok].user # None
        <4>1. CASE req'[q].op = req[q].op /\ req'[q].etok = req[q].etok
          BY <2>2, <3>2, <4>1, StepShape DEF UsedTokensExist
        <4>2. CASE req'[q].etok \in EmailTokens /\ Usable(req'[q].etok)
          BY <2>2, <3>2, <4>2, StepShape DEF Usable
        <4>3. QED BY <2>2, <3>2, <4>1, <4>2, StepShape DEF IdleRequest
      <3>3. QED BY <3>1, <3>2 DEF UsedTokensExist
    <2>3. QED BY <2>1, <2>2
  <1>3. QED BY <1>1, <1>2, Invariance, PTL DEF Spec

\* A used token that no request in flight has read sets no password again
\* (auth_service.reset_password, accept_invite).
THEOREM SpentTokens == Spec => SpentTokensStaySpent
  <1> DEFINE Stays == \A e \in EmailTokens : Spent(e) => Spent(e)'
  <1>1. IInv /\ UsedTokensExist /\ Next => Stays
    <2> SUFFICES ASSUME IInv, UsedTokensExist, Next, NEW e \in EmailTokens, Spent(e)
                 PROVE  Spent(e)'
      OBVIOUS
    <2>1. /\ et[e].used /\ et[e].user # None /\ e # None
          /\ \A q \in Requests : req[q].etok # e
      BY ConstantsAssumption DEF Spent, UsedTokensExist
    <2>2. ASSUME NEW r \in Requests, Commit(r) PROVE Spent(e)'
      BY <2>1, <2>2, CommitTokens DEF Spent, IdleRequest
    <2>3. CASE ~(\E r \in Requests : Commit(r))
      <3>1. ASSUME NEW q \in Requests PROVE req'[q].etok # e
        BY <2>1, <2>3, StepShape DEF IdleRequest, EmailTokenUnborn, Usable
      <3>2. et'[e].used
        BY <2>1, <2>3, StepShape
      <3>3. QED BY <3>1, <3>2 DEF Spent
    <2>4. QED BY <2>2, <2>3
  <1>2. IInv /\ UsedTokensExist /\ [Next]_vars => [Stays]_vars
    BY <1>1
  <1>3. QED
    BY <1>2, Invariance, UsedTokens, PTL DEF Spec, SpentTokensStaySpent

-----------------------------------------------------------------------------
\* The owner of each session and the open sessions, as the refinement maps them.
Owner == [t \in RefreshTokens |-> rt[t].user]
OpenSessions == {t \in RefreshTokens : rt[t].user # None /\ ~rt[t].revoked}

\* A committed transaction is one operation of the session authority.
LEMMA CommitRefines ==
  ASSUME IInv, NEW r \in Requests, Commit(r)
  PROVE  [Authority!Next]_Authority!vars
  <1> DEFINE n == req[r]
             u == n.user
  <1>1. /\ TypeOK /\ RequestOK(r) /\ n \in Request /\ n.op # "idle" /\ u \in Users
        /\ n.pc = "commit"
    BY DEF IInv, TypeOK, Commit, RequestOK
  <1>2. /\ users' = [v \in Users |-> IF v = u THEN UserAfter(n, users[v]) ELSE users[v]]
        /\ rt' = [t \in RefreshTokens |-> RefreshTokenAfter(n, t)]
    BY DEF Commit
  <1>3. /\ \A t \in RefreshTokens : rt[t] \in RefreshToken /\ rt'[t] = RefreshTokenAfter(n, t)
        /\ \A v \in Users : users[v] \in User
        /\ users \in [Users -> User]
    BY <1>1, <1>2 DEF TypeOK
  <1>4. \A t \in n.snap : t \in RefreshTokens /\ rt[t].user = u
    BY <1>1 DEF RequestOK, Request
  <1> HIDE DEF n, u
  <1>5. CASE n.op = "login"
    <2>1. n.rtok \in RefreshTokens /\ rt[n.rtok].user = None /\ n.snap = {}
      BY <1>1, <1>5 DEF RequestOK, n
    <2>2. users' = users
      BY <1>2, <1>3, <1>5 DEF UserAfter
    <2>3. /\ \A t \in RefreshTokens \ {n.rtok} : rt'[t] = rt[t]
          /\ rt'[n.rtok].user = u /\ ~rt'[n.rtok].revoked
      BY <1>3, <1>5, <2>1 DEF RefreshTokenAfter, u
    <2>4. Owner' = [Owner EXCEPT ![n.rtok] = u]
      BY <2>1, <2>3 DEF Owner
    <2>5. OpenSessions' = OpenSessions \cup {n.rtok}
      BY <1>1, <2>1, <2>3, ConstantsAssumption DEF OpenSessions
    <2>6. Authority!Open(u, n.rtok)
      BY <2>1, <2>2, <2>4, <2>5 DEF Authority!Open, Owner, OpenSessions
    <2>7. QED
      BY <1>1, <2>1, <2>6 DEF Authority!Next, Authority!Open
  <1>6. CASE n.op # "login"
    <2>1. \A t \in RefreshTokens :
            rt'[t].user = rt[t].user /\ (rt'[t].revoked <=> rt[t].revoked \/ t \in n.snap)
      BY <1>3, <1>6 DEF RefreshTokenAfter, RefreshToken
    <2>2. Owner' = Owner
      BY <2>1 DEF Owner
    <2>3. OpenSessions' = OpenSessions \ n.snap
      BY <2>1 DEF OpenSessions
    <2>4. CASE n.op \in {"refresh", "forgot"}
      <3>1. n.snap = {} /\ users' = users
        BY <1>1, <1>2, <1>3, <2>4 DEF UserAfter, RequestOK, n
      <3>2. QED
        BY <2>2, <2>3, <3>1 DEF Authority!vars, Owner, OpenSessions
    <2>5. CASE n.op \in {"logout", "revoke"}
      <3>1. users' = users
        BY <1>2, <1>3, <2>5 DEF UserAfter
      <3>2. Authority!Close(u, n.snap)
        BY <1>4, <2>2, <2>3, <3>1 DEF Authority!Close, Authority!Of, Owner, OpenSessions
      <3>3. QED
        BY <1>1, <1>4, <3>2 DEF Authority!Next, Authority!Close
    <2>6. CASE n.op = "invite"
      <3>1. n.snap = {} /\ n.new \in Passwords
        BY <1>1, <2>6 DEF RequestOK, n
      <3>2. users' = [users EXCEPT ![u].pw = n.new]
        BY <1>2, <1>3, <2>6 DEF UserAfter
      <3>3. Authority!AcceptInvite(u, n.new)
        BY <2>2, <2>3, <3>1, <3>2 DEF Authority!AcceptInvite, Owner, OpenSessions
      <3>4. QED
        BY <1>1, <3>1, <3>3 DEF Authority!Next, Authority!AcceptInvite
    <2>7. CASE n.op \in {"reset", "change", "deactivate"}
      <3>1. OpenSessions' = OpenSessions \ Authority!Of(u)
        <4>1. \A t \in RefreshTokens : rt[t].user = u /\ ~rt[t].revoked => t \in n.snap
          BY <1>1, <2>7 DEF IInv, RevocationComplete, n, u
        <4>2. QED
          BY <1>4, <2>3, <4>1 DEF Authority!Of, OpenSessions
      <3>2. CASE n.op = "deactivate"
        <4>1. users' = [users EXCEPT ![u].active = FALSE]
          BY <1>2, <1>3, <3>2 DEF UserAfter
        <4>2. Authority!Deactivate(u)
          BY <2>2, <3>1, <4>1 DEF Authority!Deactivate, Authority!Of, Owner, OpenSessions
        <4>3. QED BY <1>1, <4>2 DEF Authority!Next, Authority!Deactivate
      <3>3. CASE n.op \in {"reset", "change"}
        <4> DEFINE must == IF n.op = "change" THEN FALSE ELSE users[u].must
        <4>1. n.new \in Passwords /\ must \in BOOLEAN /\ users[u] \in User
          BY <1>1, <1>3, <3>3 DEF RequestOK, User, n, u
        <4>2. UserAfter(n, users[u]) = [users[u] EXCEPT !.pw = n.new, !.must = must]
          BY <3>3, <4>1 DEF UserAfter, User
        <4>3. users' = [users EXCEPT ![u].pw = n.new, ![u].must = must]
          BY <1>1, <1>2, <1>3, <4>2
        <4>4. must \in {users[u].must, FALSE}
          OBVIOUS
        <4> HIDE DEF must
        <4>5. Authority!ReplacePassword(u, n.new, must)
          BY <2>2, <3>1, <4>3, <4>4
             DEF Authority!ReplacePassword, Authority!Of, Owner, OpenSessions
        <4>6. QED BY <1>1, <4>1, <4>5 DEF Authority!Next, Authority!ReplacePassword
      <3>4. QED BY <2>7, <3>2, <3>3
    <2>8. QED
      BY <1>1, <1>6, <2>4, <2>5, <2>6, <2>7 DEF Request, Ops
  <1>7. QED BY <1>5, <1>6

\* Every other step leaves accounts, owners and open sessions as they are.
LEMMA OtherStepsStutter ==
  ASSUME IInv, [Next]_vars, ~(\E r \in Requests : Commit(r))
  PROVE  UNCHANGED Authority!vars
  <1>1. /\ users' = users
        /\ \A t \in RefreshTokens :
             rt'[t].user = rt[t].user /\ rt'[t].revoked = rt[t].revoked
    <2>1. CASE Clock
      BY <2>1, ClockRows DEF IInv
    <2>2. ASSUME NEW r \in Requests, Start(r) PROVE UNCHANGED <<users, rt>>
      BY <2>2 DEF Start, Tables, LoginRead, RefreshReadToken, LogoutRead, ForgotRead,
                  ResetReadToken, InviteReadToken, ReadEmailToken, ChangeRead,
                  DeactivateRead, RevokeSessionsRead
    <2>3. ASSUME NEW r \in Requests, Locking(r) PROVE UNCHANGED <<users, rt>>
      BY <2>3 DEF Locking, Tables, LoginUpdateLastLogin, LogoutRevoke,
                  ActivationSetPassword, ActivationConsumeToken, AccountUpdate,
                  RevokeAllApply
    <2>4. ASSUME NEW r \in Requests, Running(r) PROVE UNCHANGED <<users, rt>>
      BY <2>4 DEF Running, Tables, LoginSaveRefreshToken, RefreshReadUser,
                  ForgotSaveResetToken, ForgotMailAccepted, ForgotMailFails,
                  ActivationReadUser, RevokeAllSnapshot
    <2>5. ASSUME NEW r \in Requests, Rollback(r) PROVE UNCHANGED <<users, rt>>
      BY <2>5 DEF Rollback, Tables
    <2>6. CASE UNCHANGED vars
      BY <2>6 DEF vars
    <2>7. QED
      BY <2>1, <2>2, <2>3, <2>4, <2>5, <2>6 DEF Next
  <1>2. Owner' = Owner /\ OpenSessions' = OpenSessions
    BY <1>1 DEF Owner, OpenSessions
  <1>3. QED
    BY <1>1, <1>2 DEF Authority!vars, Owner, OpenSessions

\* AuthSessions implements SessionAuthority: seen from the tables, concurrent
\* transactions are atomic operations that close sessions for good.
THEOREM Refinement == Spec => ImplementsAuthority
  <1>1. Init => Authority!Init
    <2> SUFFICES ASSUME Init PROVE Authority!Init
      OBVIOUS
    <2>1. users \in [Users -> User]
      BY DEF Init
    <2>2. Owner = [t \in RefreshTokens |-> None] /\ OpenSessions = {}
      BY DEF Init, Owner, OpenSessions
    <2>3. QED
      BY <2>1, <2>2 DEF Authority!Init, User, Owner, OpenSessions
  <1>2. IInv /\ [Next]_vars => [Authority!Next]_Authority!vars
    BY CommitRefines, OtherStepsStutter
  <1>3. QED
    BY <1>1, <1>2, Invariance, PTL DEF Spec, Authority!Spec, ImplementsAuthority
=============================================================================
