--------------------------- MODULE SessionAuthority ---------------------------
(***************************************************************************)
(* What AuthService and UserService promise about accounts and sessions,   *)
(* as if every request were one atomic step: a session is opened once and  *)
(* closed for good, and replacing a password or deactivating an account    *)
(* closes all its sessions in the same step.  AuthSessions implements this *)
(* specification with concurrent transactions.                             *)
(***************************************************************************)
CONSTANTS Users, Sessions, Passwords, None

VARIABLES accounts, \* password, activity and must_change_password of each account
          owner,    \* the account a session belongs to; None before it is opened
          open      \* the sessions that can still be refreshed

vars == <<accounts, owner, open>>

Of(u) == {s \in Sessions : owner[s] = u}

Init ==
  /\ accounts \in [Users -> [pw : Passwords \cup {None}, active : BOOLEAN, must : BOOLEAN]]
  /\ owner = [s \in Sessions |-> None]
  /\ open = {}

Open(u, s) ==
  /\ owner[s] = None
  /\ owner' = [owner EXCEPT ![s] = u]
  /\ open' = open \cup {s}
  /\ UNCHANGED accounts

\* Logout, or an administrator's revocation, of some sessions of one account.
Close(u, S) ==
  /\ S \subseteq Of(u)
  /\ open' = open \ S
  /\ UNCHANGED <<accounts, owner>>

\* must_change_password is cleared only together with a replaced password.
ReplacePassword(u, p, must) ==
  /\ must \in {accounts[u].must, FALSE}
  /\ accounts' = [accounts EXCEPT ![u].pw = p, ![u].must = must]
  /\ open' = open \ Of(u)
  /\ UNCHANGED owner

\* An accepted invite sets the password and keeps the sessions.
AcceptInvite(u, p) ==
  /\ accounts' = [accounts EXCEPT ![u].pw = p]
  /\ UNCHANGED <<owner, open>>

Deactivate(u) ==
  /\ accounts' = [accounts EXCEPT ![u].active = FALSE]
  /\ open' = open \ Of(u)
  /\ UNCHANGED owner

Next ==
  \E u \in Users :
    \/ \E s \in Sessions : Open(u, s)
    \/ \E S \in SUBSET Sessions : Close(u, S)
    \/ \E p \in Passwords, must \in BOOLEAN : ReplacePassword(u, p, must)
    \/ \E p \in Passwords : AcceptInvite(u, p)
    \/ Deactivate(u)

Spec == Init /\ [][Next]_vars
=============================================================================
