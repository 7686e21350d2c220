SPECIFICATION Spec
CONSTANTS
  Actors = {boss}
  Admins = {boss}
  SharedScopes = {repo}
  ReviewedScopes = {repo}
  Workers = {w1, w2}
  Facts = {f1}
  Proposals = {p1, p2}
  Contents = {c1}
  Secrets = {}
  Tags = {}
  Keys = {}
  NoWorker = NoWorker
  NoFact = NoFact
  NoProposal = NoProposal
  NoContent = NoContent
  NoActor = NoActor
  NoKey = NoKey
SYMMETRY Symmetry
INVARIANTS
  RejectedHasNoEffect
