SPECIFICATION FairSpec
CONSTANTS
  Workers = {w1, w2, w3}
  Users = {ann}
  Admins = {}
  Sessions = {s1}
  Tokens = {t1}
  Codes = {k1}
  Clients = {a1}
  Redirects = {r1}
  Operations = {"authorize"}
  None = None
PROPERTIES
  AuthRequestsFinish
