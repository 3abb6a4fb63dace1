SPECIFICATION FairSpec
CONSTANTS
  Users = {u1}
  RefreshTokens = {t1}
  EmailTokens = {e1, e2}
  InviteTokens = {e2}
  Passwords = {p1, p2}
  Requests = {r1, r2}
  SmtpEnabled = TRUE
  None = None
INVARIANTS
  TypeOK
  StoredResetTokensWereMailed
PROPERTIES
  CredentialChangeEndsSessions
  ClosedAccountsStayClosed
  SpentTokensStaySpent
  ImplementsAuthority
  RequestsEnd
