SPECIFICATION Spec
CONSTANTS
  Workers = {w1, w2}
  Users = {ann}
  Admins = {}
  Sessions = {s1}
  Tokens = {t1, t2}
  Codes = {k1}
  Clients = {a1}
  Redirects = {r1}
  Operations = {"authorize"}
  None = None
SYMMETRY Symmetry
INVARIANTS
  OneTokenPerCode
