SPECIFICATION Spec
CONSTANTS
  Users = {u1}
  RefreshTokens = {t1}
  EmailTokens = {e1}
  InviteTokens = {}
  Passwords = {p1}
  Requests = {r1, r2}
  SmtpEnabled = TRUE
  None = None
PROPERTY EmailTokensSingleUse
