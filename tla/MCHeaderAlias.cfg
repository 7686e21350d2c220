SPECIFICATION Spec
CONSTANTS
  TagIds = {t1, t2, t3}
  Looks = {red, blue}
  TagRequests = {q1, q2}
  EmptySlug = EmptySlug
  NoTag = NoTag
  AssignmentIds = {a1, a2, a3}
  ScopeTypes = {team}
  ScopeIds = {platform}
  Null = Null
  Notes = {n1, n2}
  RoleRequests = {q1, q2}
  NoAssignment = NoAssignment
  Malformed = Malformed
  None = None
  RepoRequests = {q1, q2}
  NoRepository = NoRepository
  NotSaid = NotSaid
  Browsers = {x1, x2}
  Logins = {x1, x2}
  Subjects = {y1, y2}
  Emails = {y1, y2}
  Callbacks = {q1, q2}
  MaxCodes = 2
  AutoProvision = TRUE
  NoLogin = NoLogin
  NoUser = NoUser
  Parts = {"repositories"}
CHECK_DEADLOCK FALSE
INVARIANT HeaderUrlIsObeyed
