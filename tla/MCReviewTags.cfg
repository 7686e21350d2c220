SPECIFICATION FairSpec
CONSTANTS
  Actors = {boss}
  Admins = {boss}
  SharedScopes = {repo}
  ReviewedScopes = {repo}
  Workers = {w1, w2}
  Facts = {f1}
  Proposals = {p1}
  Contents = {c1}
  Secrets = {}
  Tags = {t1}
  Keys = {}
  NoWorker = NoWorker
  NoFact = NoFact
  NoProposal = NoProposal
  NoContent = NoContent
  NoActor = NoActor
  NoKey = NoKey
INVARIANTS
  MappedTagsExist
PROPERTIES
  RequestsFinish
