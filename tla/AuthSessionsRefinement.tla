------------------------ MODULE AuthSessionsRefinement ------------------------
(***************************************************************************)
(* The tables of AuthSessions as the state of SessionAuthority: a session  *)
(* is a row of refresh_tokens, open while it is not revoked.  Requests in  *)
(* flight, access tokens and e-mailed tokens are not part of the promise.  *)
(***************************************************************************)
EXTENDS AuthSessions

Authority == INSTANCE SessionAuthority WITH
  Sessions <- RefreshTokens,
  accounts <- users,
  owner <- [t \in RefreshTokens |-> rt[t].user],
  open <- {t \in RefreshTokens : rt[t].user # None /\ ~rt[t].revoked}

\* Every step of the concurrent system is one atomic operation of the session
\* authority or changes none of its state (AuthService, UserService).
ImplementsAuthority == Authority!Spec
=============================================================================
