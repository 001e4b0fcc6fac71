SPECIFICATION Spec
CONSTANTS
  Clients = {c1, c2}
  Emails = {e1}
  Passwords = {p1, p2}
  UserIds = {u1, u2}
  Tokens = {t1, t2}
  Salts = {x1, x2}
  NoUser = NoUser
  NoToken = NoToken
SYMMETRY Interchangeable
INVARIANTS ValidTokensRefresh
CHECK_DEADLOCK FALSE
