SPECIFICATION Spec
CONSTANTS
  Workers = {w1, w2}
  Users = {ann, boss}
  Admins = {boss}
  Sessions = {s1}
  Tokens = {t1}
  Codes = {k1}
  Clients = {a1}
  Redirects = {r1}
  Operations = {"call", "mcp", "logout", "revoke", "createToken", "authorize"}
  None = None
SYMMETRY Symmetry
INVARIANTS
  AuthTypeOK
PROPERTIES
  CredentialSpec
