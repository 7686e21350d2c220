SPECIFICATION Spec
CONSTANTS
  Workers = {w1, w2}
  Users = {ann}
  Admins = {}
  Sessions = {s1}
  Tokens = {t1}
  Codes = {k1}
  Clients = {a1, a2}
  Redirects = {r1, r2}
  Operations = {"authorize", "mcp", "logout"}
  None = None
SYMMETRY Symmetry
INVARIANTS
  TokensFollowUse
  CodesStayRedeemable
PROPERTIES
  UsedCodeAdmitsNobody
