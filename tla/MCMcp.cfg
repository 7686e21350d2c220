SPECIFICATION Spec
CONSTANTS
  Actors = {ann, bob}
  Searchers = {boss}
  Admins = {boss}
  Repo = repo
  Org = org
  Memories = {x1, x2, x3}
  MaxStamp = 3
  MaxResults = 2
  CandidateMultiplier = 2
  MaxCandidates = 2
  PerScopeLimits = {0, 1}
  Processes = {p1, p2}
  Workers = {y1, y2}
  Names = {desk}
  Tokens = {t1, t2}
  SessionIds = {i1, i2}
  NoId = NoId
  Clients = {y1, y2}
  Attempts = {y1, y2}
  MaxBatch = 2
  Key = k1
  NoKey = NoKey
  NoCall = NoCall
  Readers = {ann, boss}
  MaxListStamp = 4
  PageSizes = {1, 2}
SYMMETRY Symmetry
CHECK_DEADLOCK FALSE
INVARIANTS
  TypesOK
  NoDuplicateResults
  ResultsAreCurrent
  BestMatchesReturned
  ListedIsReadable
  WalkIsComplete
  InjectedIsKnown
  AnswerIsTrue
  RetriesAgree
  AuditFollowsStore
