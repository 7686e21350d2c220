------------------------- MODULE RepositoriesProofs -------------------------
(***************************************************************************)
(* What Repositories promises for any sets of remotes, names, metadata and *)
(* requests, and what PluginHooks promises of a session with the plugin.   *)
(*                                                                         *)
(* Rows are found, read and saved in separate statements, so a request may *)
(* save a row as it was before others changed it.  Of every copy of a row, *)
(* in the table or in a request, and of every request the same holds: a    *)
(* confidence of MinConfidence or more was earned by a URL that some       *)
(* request named (Earned).  No step forgets a named URL, so late saves of  *)
(* old copies do no harm.                                                  *)
(***************************************************************************)
EXTENDS PluginHooks, TLAPS

\* The confidence is low or the key is known from a URL.
Earned(key, confidence, known) == confidence >= MinConfidence => key \in known

Busy == [pc : {"insert", "save", "resolved"}, route : {"tool", "status"},
         key : Keys \cup {None}, confidence : 0 .. 100,
         row : Repository \cup {NoRepository},
         headerOrigin : Remotes \cup {None}, headerUrl : Remotes \cup {None}]

TablesOK ==
  /\ repositories \in [Keys -> Repository \cup {NoRepository}]
  /\ named \subseteq Remotes
  /\ autoSaved \subseteq named
  /\ repoRequest \in [RepoRequests -> Busy \cup {Idle}]

RowsEarned == \A k \in Stored : Earned(k, repositories[k].confidence, named)

\* What a request knows of its repository, and what its headers ask.
Sound(q, known) ==
  q.pc # "idle" =>
    /\ q.pc \in {"insert", "save"} => q.key \in Keys
    /\ q.key # None => Earned(q.key, q.confidence, known)
    /\ q.pc = "save" => q.row \in Repository /\ Earned(q.key, q.row.confidence, known)
    /\ q.headerOrigin # None => q.key = q.headerOrigin

\* The inductive invariant.
RepoInv ==
  /\ TablesOK
  /\ RowsEarned
  /\ \A r \in RepoRequests : Sound(repoRequest[r], named)

-----------------------------------------------------------------------------
(* The functions from metadata to keys.                                    *)

\* What AskWith makes of a header and an argument.
HeadersOf(header, route) ==
  IF route = "tool" THEN HeaderMetadata(header) ELSE header.plain
InputOf(header, argument, route) ==
  IF route = "tool" THEN ToolInput(Merged(header, argument))
                    ELSE StatusInput(header.plain)

\* A hint is a name or missing.
LEMMA BasenameHintTyped ==
  ASSUME RepoConstants, NEW m, MetadataOK(m)
  PROVE  BasenameHint(m) \in Names \cup {None}
<1> DEFINE value == Or(DirOf(m), PathOf(m))
<1>1. DirOf(m) \in Names \cup {None} BY DEF MetadataOK, DirOf, Or
<1>2. PathOf(m) \in Names \cup {None} BY DEF MetadataOK, PathOf, Or
<1>3. value \in Names \cup {None} BY <1>1, <1>2 DEF Or
<1>4. BasenameHint(m) = IF value = None THEN None ELSE BaseOf[value]
  BY DEF BasenameHint
<1> HIDE DEF value
<1> QED BY <1>3, <1>4 DEF RepoConstants

\* An update has the other's values where there are some.
LEMMA UpdatedOK ==
  ASSUME NEW m, NEW n
  PROVE  /\ \A f \in Fields :
              Updated(m, n)[f] = IF n[f] # None THEN n[f] ELSE m[f]
         /\ MetadataOK(m) /\ MetadataOK(n) => MetadataOK(Updated(m, n))
<1>1. \A f \in Fields : Updated(m, n)[f] = IF n[f] # None THEN n[f] ELSE m[f]
  BY DEF Updated
<1>2. ASSUME MetadataOK(m), MetadataOK(n) PROVE MetadataOK(Updated(m, n))
  <2> DEFINE u == Updated(m, n)
  <2>1. /\ u.repo_dir_name \in {m.repo_dir_name, n.repo_dir_name}
        /\ u.git_root_basename \in {m.git_root_basename, n.git_root_basename}
        /\ u.repo_slug \in {m.repo_slug, n.repo_slug}
        /\ u.git_root \in {m.git_root, n.git_root}
        /\ u.repository_path \in {m.repository_path, n.repository_path}
        /\ u.path \in {m.path, n.path}
        /\ u.repo_hint \in {m.repo_hint, n.repo_hint}
    BY <1>1 DEF Fields
  <2> HIDE DEF u
  <2>2. {u.repo_dir_name, u.git_root_basename, u.repo_slug} \subseteq Names \cup {None}
    BY <1>2, <2>1 DEF MetadataOK
  <2>3. {u.git_root, u.repository_path, u.path, u.repo_hint} \subseteq Names \cup {None}
    BY <1>2, <2>1 DEF MetadataOK
  <2> QED BY <2>2, <2>3 DEF MetadataOK, u
<1> QED BY <1>1, <1>2

\* What a request may name.
LEMMA InputTyped ==
  ASSUME RepoConstants, NEW header, NEW argument, NEW route,
         HeaderOK(header), MetadataOK(argument)
  PROVE  InputOf(header, argument, route).basename \in Names \cup {None}
<1>1. MetadataOK(HeaderMetadata(header)) BY UpdatedOK DEF HeaderOK, HeaderMetadata
<1>2. MetadataOK(Merged(header, argument)) BY <1>1, UpdatedOK DEF Merged
<1>3. BasenameHint(Merged(header, argument)) \in Names \cup {None}
  BY <1>2, BasenameHintTyped
<1>4. header.plain.git_root \in Names \cup {None} BY DEF HeaderOK, MetadataOK
<1> QED BY <1>3, <1>4 DEF InputOf, ToolInput, StatusInput

\* An input leads to a key with the confidence it deserves, or to none.
LEMMA IdentityFits ==
  ASSUME RepoConstants, NEW input, input.basename \in Names \cup {None}
  PROVE  /\ IdentityKey(input) \in Keys \cup {None}
         /\ IdentityConfidence(input) \in 0 .. 100
         /\ IdentityConfidence(input) >= MinConfidence =>
              Parses(input.url)
         /\ Parses(input.url) => IdentityKey(input) = input.url /\ input.url # None
         /\ ~Parses(input.url) => IdentityKey(input) \in Fallbacks \cup {None}
<1> USE DEF RemoteConfidence, FallbackConfidence, MinConfidence, IdentityConfidence
<1>1. CASE Parses(input.url)
  <2>1. IdentityKey(input) = input.url
    BY <1>1 DEF IdentityKey, NormalizeOriginUrl
  <2>2. input.url \in Keys BY <1>1 DEF Keys, Parses
  <2> QED BY <1>1, <2>1, <2>2 DEF RepoConstants
<1>2. CASE ~Parses(input.url) /\ input.basename # None
  <2>1. IdentityKey(input) = FallbackKey(input.basename)
    BY <1>2 DEF IdentityKey
  <2>2. IdentityKey(input) \in Fallbacks BY <2>1, <1>2 DEF Fallbacks
  <2> QED BY <1>2, <2>2 DEF Keys
<1>3. CASE ~Parses(input.url) /\ input.basename = None
  <2>1. IdentityKey(input) = None BY <1>3 DEF IdentityKey
  <2> QED BY <1>3, <2>1
<1> QED BY <1>1, <1>2, <1>3

\* The origin_url of the headers is the input's URL.
LEMMA HeaderDecides ==
  ASSUME NEW header, NEW argument, NEW route \in {"tool", "status"},
         HeadersOf(header, route).origin_url # None
  PROVE  InputOf(header, argument, route).url = HeadersOf(header, route).origin_url
<1>1. CASE route = "tool"
  <2>1. Merged(header, argument).origin_url = HeaderMetadata(header).origin_url
    BY <1>1, UpdatedOK DEF HeadersOf, Merged, Fields
  <2> QED BY <1>1, <2>1 DEF HeadersOf, InputOf, ToolInput, UrlOf, Or
<1>2. CASE route = "status"
  BY <1>2 DEF HeadersOf, InputOf, StatusInput
<1> QED BY <1>1, <1>2

-----------------------------------------------------------------------------
(* The steps.                                                              *)

\* What is known stays known.
LEMMA SoundStays ==
  ASSUME NEW q, NEW known, NEW more, known \subseteq more, Sound(q, known)
  PROVE  Sound(q, more)
BY DEF Sound, Earned

\* Statements that write no repository and leave their request with q.
LEMMA RequestSafe ==
  ASSUME RepoInv, UNCHANGED repositories,
         named \subseteq named', named' \subseteq Remotes, autoSaved' \subseteq named',
         NEW r \in RepoRequests, NEW q \in Busy \cup {Idle}, Sound(q, named'),
         repoRequest' = [repoRequest EXCEPT ![r] = q]
  PROVE  RepoInv'
<1>1. TablesOK' BY DEF RepoInv, TablesOK
<1>2. RowsEarned' BY DEF RepoInv, RowsEarned, Earned, Stored
<1>3. \A s \in RepoRequests : repoRequest'[s] = q \/ repoRequest'[s] = repoRequest[s]
  BY DEF RepoInv, TablesOK
<1>4. \A s \in RepoRequests : Sound(repoRequest[s], named')
  BY SoundStays DEF RepoInv
<1>5. \A s \in RepoRequests : Sound(repoRequest'[s], named')
  BY <1>3, <1>4
<1> QED BY <1>1, <1>2, <1>5 DEF RepoInv

\* A request that has ended.
LEMMA IdleSound == Idle \in Busy \cup {Idle} /\ Sound(Idle, named)
BY DEF Idle, Sound

\* Statements that write a repository with an earned confidence.
LEMMA RepositorySafe ==
  ASSUME RepoInv, UNCHANGED <<autoSaved, named>>,
         NEW k \in Keys, NEW row \in Repository, Earned(k, row.confidence, named),
         repositories' = [repositories EXCEPT ![k] = row],
         NEW r \in RepoRequests, NEW q \in Busy \cup {Idle}, Sound(q, named),
         \/ repoRequest' = [repoRequest EXCEPT ![r] = q]
         \/ repoRequest' = repoRequest
  PROVE  RepoInv'
<1>1. TablesOK' BY DEF RepoInv, TablesOK
<1>2. \A j \in Keys : repositories'[j] = IF j = k THEN row ELSE repositories[j]
  BY DEF RepoInv, TablesOK
<1>3. RowsEarned'
  BY <1>2 DEF RepoInv, RowsEarned, Stored
<1>4. \A s \in RepoRequests : repoRequest'[s] = q \/ repoRequest'[s] = repoRequest[s]
  BY DEF RepoInv, TablesOK
<1>5. \A s \in RepoRequests : Sound(repoRequest'[s], named)
  BY <1>4 DEF RepoInv
<1> QED BY <1>1, <1>3, <1>5 DEF RepoInv

\* What a busy request holds.
LEMMA Held ==
  ASSUME RepoInv, NEW r \in RepoRequests, repoRequest[r].pc # "idle"
  PROVE  repoRequest[r] \in Busy /\ Sound(repoRequest[r], named)
BY DEF RepoInv, TablesOK, Idle

\* A stored repository.
LEMMA StoredRow ==
  ASSUME RepoInv, NEW k \in Stored
  PROVE  /\ k \in Keys
         /\ repositories[k] \in Repository
         /\ repositories[k].confidence \in 0 .. 100
         /\ Earned(k, repositories[k].confidence, named)
BY DEF RepoInv, TablesOK, Stored, RowsEarned, Repository

\* A request that begins, whatever its metadata.
LEMMA AskSafe ==
  ASSUME RepoConstants, RepoInv, NEW r \in RepoRequests,
         NEW header, NEW argument, NEW route \in {"tool", "status"},
         HeaderOK(header), MetadataOK(argument),
         AskWith(r, header, argument, route)
  PROVE  RepoInv'
<1> DEFINE input == InputOf(header, argument, route)
           headers == HeadersOf(header, route)
<1>1. \/ ResolveById(r, input, headers, route)
      \/ ResolveByIdentity(r, input, headers, route)
  BY DEF AskWith, InputOf, HeadersOf
<1>2. /\ UNCHANGED <<repositories, autoSaved>>
      /\ named' = IF Parses(input.url) THEN named \cup {input.url} ELSE named
  BY DEF AskWith, InputOf
<1>3. PICK pc, key, confidence :
        /\ pc \in {"insert", "save", "resolved"}
        /\ Start(r, headers, route, pc, key, confidence)
        /\ \/ /\ pc = "resolved"
              /\ key \in Stored
              /\ Parses(input.url) => key = IdentityKey(input)
              /\ confidence = repositories[key].confidence
           \/ /\ key = IdentityKey(input)
              /\ confidence = IdentityConfidence(input)
              /\ pc \in {"insert", "save"} => key # None
              /\ pc = "save" => key \in Stored
  <2>1. CASE ResolveById(r, input, headers, route)
    BY <2>1 DEF ResolveById
  <2>2. CASE ResolveByIdentity(r, input, headers, route)
    <3> DEFINE key == IdentityKey(input)
               pc == CASE key = None -> "resolved"
                       [] key \in Stored -> "save"
                       [] OTHER -> "insert"
    <3>1. key = None => key \notin Stored BY DEF Stored, RepoConstants
    <3>2. /\ pc \in {"insert", "save", "resolved"}
          /\ pc \in {"insert", "save"} => key # None
          /\ pc = "save" => key \in Stored
      <4>1. CASE key = None BY <4>1, <3>1
      <4>2. CASE key \in Stored BY <4>2, <3>1
      <4>3. CASE key # None /\ key \notin Stored BY <4>3
      <4> QED BY <4>1, <4>2, <4>3
    <3>3. Start(r, headers, route, pc, key, IdentityConfidence(input))
      BY <2>2 DEF ResolveByIdentity
    <3> QED BY <3>2, <3>3
  <2> QED BY <1>1, <2>1, <2>2
<1>4. input.basename \in Names \cup {None} BY InputTyped
<1> DEFINE origin == NormalizeOriginUrl(headers.origin_url)
<1>5. origin # None => Parses(input.url) /\ origin = input.url
  BY HeaderDecides DEF NormalizeOriginUrl
<1> HIDE DEF input
<1>6. /\ key \in Keys \cup {None}
      /\ confidence \in 0 .. 100
      /\ Parses(input.url) => key = input.url
  BY <1>3, <1>4, IdentityFits, StoredRow
<1>7. /\ named \subseteq named'
      /\ named' \subseteq Remotes
      /\ autoSaved' \subseteq named'
      /\ Parses(input.url) => input.url \in named'
  BY <1>2 DEF RepoInv, TablesOK, Parses
<1>8. key # None => Earned(key, confidence, named')
  BY <1>3, <1>4, <1>6, <1>7, IdentityFits, StoredRow DEF Earned
<1>9. pc = "save" => key \in Stored BY <1>3
<1>10. pc \in {"insert", "save"} => key \in Keys BY <1>3, <1>6
<1>11. origin # None => key = origin BY <1>5, <1>6
<1> DEFINE row == IF pc = "save" THEN repositories[key] ELSE NoRepository
           url == NormalizeOriginUrl(UrlOf(headers))
           q == [pc |-> pc, route |-> route, key |-> key, confidence |-> confidence,
                 row |-> row, headerOrigin |-> origin, headerUrl |-> url]
<1>12. repoRequest' = [repoRequest EXCEPT ![r] = q] BY <1>3 DEF Start
<1>13. /\ row \in Repository \cup {NoRepository}
       /\ pc = "save" => row \in Repository /\ Earned(key, row.confidence, named')
  BY <1>7, <1>9, StoredRow DEF Earned
<1>14. origin \in Remotes \cup {None} /\ url \in Remotes \cup {None}
  BY DEF NormalizeOriginUrl, Parses
<1> HIDE DEF row, origin, url, headers
<1>15. q \in Busy BY <1>3, <1>6, <1>13, <1>14 DEF Busy
<1>16. Sound(q, named')
  BY <1>8, <1>10, <1>11, <1>13 DEF Sound
<1> HIDE DEF q
<1> QED BY <1>2, <1>7, <1>12, <1>15, <1>16, RequestSafe

LEMMA InsertRepositorySafe ==
  ASSUME RepoConstants, RepoInv, NEW r \in RepoRequests, InsertRepository(r)
  PROVE  RepoInv'
<1> DEFINE q == repoRequest[r]
<1>1. q \in Busy /\ Sound(q, named) /\ q.pc = "insert" BY Held DEF InsertRepository
<1>2. q.key \in Keys /\ Earned(q.key, q.confidence, named)
  BY <1>1 DEF Sound, RepoConstants
<1>3. UNCHANGED <<autoSaved, named>> BY DEF InsertRepository
<1>4. CASE q.key \in Stored
  <2> DEFINE p == [q EXCEPT !.pc = "save", !.row = repositories[q.key]]
  <2>1. repoRequest' = [repoRequest EXCEPT ![r] = p] /\ UNCHANGED repositories
    BY <1>4 DEF InsertRepository
  <2>2. /\ repositories[q.key] \in Repository
        /\ Earned(q.key, repositories[q.key].confidence, named)
    BY <1>4, StoredRow
  <2> HIDE DEF q
  <2>3. p \in Busy BY <1>1, <2>2 DEF Busy
  <2>4. Sound(p, named) BY <1>1, <1>2, <2>2 DEF Sound, Busy
  <2> HIDE DEF p
  <2> QED BY <1>3, <2>1, <2>3, <2>4, RequestSafe DEF RepoInv, TablesOK
<1>5. CASE q.key \notin Stored
  <2> DEFINE p == [q EXCEPT !.pc = "resolved", !.key = q.key,
                            !.confidence = q.confidence, !.row = NoRepository]
             row == [active |-> TRUE, confidence |-> q.confidence]
  <2>1. /\ repositories' = [repositories EXCEPT ![q.key] = row]
        /\ repoRequest' = [repoRequest EXCEPT ![r] = p]
    BY <1>5 DEF InsertRepository, Resolved
  <2> HIDE DEF q
  <2>2. p \in Busy BY <1>1 DEF Busy
  <2>3. Sound(p, named) BY <1>1 DEF Sound, Busy
  <2>4. row \in Repository /\ Earned(q.key, row.confidence, named)
    BY <1>1, <1>2 DEF Busy, Repository
  <2> HIDE DEF p, row
  <2> QED BY <1>2, <1>3, <2>1, <2>2, <2>3, <2>4, RepositorySafe
<1> QED BY <1>4, <1>5

LEMMA SaveRepositorySafe ==
  ASSUME RepoConstants, RepoInv, NEW r \in RepoRequests, SaveRepository(r)
  PROVE  RepoInv'
<1> DEFINE q == repoRequest[r]
           confidence == IF q.row.confidence > q.confidence
                         THEN q.row.confidence ELSE q.confidence
           p == [q EXCEPT !.pc = "resolved", !.key = q.key,
                          !.confidence = confidence, !.row = NoRepository]
           row == [q.row EXCEPT !.confidence = confidence]
<1>1. q \in Busy /\ Sound(q, named) /\ q.pc = "save" BY Held DEF SaveRepository
<1>2. /\ repositories' = [repositories EXCEPT ![q.key] = row]
      /\ repoRequest' = [repoRequest EXCEPT ![r] = p]
      /\ UNCHANGED <<autoSaved, named>>
  BY DEF SaveRepository, Resolved
<1> HIDE DEF q
<1>3. q.key \in Keys /\ q.key # None BY <1>1 DEF Sound, RepoConstants
<1>4. /\ q.row \in Repository
      /\ Earned(q.key, q.row.confidence, named)
      /\ Earned(q.key, q.confidence, named)
  BY <1>1, <1>3 DEF Sound
<1>5. Earned(q.key, confidence, named) BY <1>4 DEF Earned
<1>6. confidence \in 0 .. 100 BY <1>1, <1>4 DEF Busy, Repository
<1> HIDE DEF confidence
<1>7. row \in Repository /\ Earned(q.key, row.confidence, named)
  BY <1>4, <1>5, <1>6 DEF Repository
<1>8. p \in Busy BY <1>1, <1>6 DEF Busy
<1>9. Sound(p, named) BY <1>1, <1>5 DEF Sound, Busy
<1> HIDE DEF p, row
<1> QED BY <1>2, <1>3, <1>7, <1>8, <1>9, RepositorySafe

\* Full confidence is that of a URL some request named.
LEMMA FullConfidence ==
  ASSUME RepoInv, NEW r \in RepoRequests, repoRequest[r].pc # "idle",
         HighConfidence(repoRequest[r])
  PROVE  repoRequest[r].key # None /\ repoRequest[r].key \in named
BY Held DEF Sound, HighConfidence, Earned

LEMMA SaveMemorySafe ==
  ASSUME RepoConstants, RepoInv, NEW r \in RepoRequests, SaveMemory(r)
  PROVE  RepoInv'
<1> DEFINE q == repoRequest[r]
<1>1. q.pc # "idle" BY DEF SaveMemory
<1>2. SavesToRepository(q) => q.key \in named
  BY <1>1, FullConfidence DEF SavesToRepository
<1>3. \/ SavesToRepository(q) /\ autoSaved' = autoSaved \cup {q.key}
      \/ autoSaved' = autoSaved
  BY DEF SaveMemory
<1> HIDE DEF q
<1>4. autoSaved' \subseteq named BY <1>2, <1>3 DEF RepoInv, TablesOK
<1> QED BY <1>4, IdleSound, RequestSafe DEF SaveMemory, RepoInv, TablesOK

LEMMA FinishSafe ==
  ASSUME RepoInv, NEW r \in RepoRequests, Finish(r)
  PROVE  RepoInv'
BY IdleSound, RequestSafe DEF Finish, RepoInv, TablesOK

LEMMA SwitchRepositorySafe ==
  ASSUME RepoInv, NEW k \in Keys, SwitchRepository(k)
  PROVE  RepoInv'
<1>1. /\ repositories[k] \in Repository
      /\ Earned(k, repositories[k].confidence, named)
  BY StoredRow DEF SwitchRepository
<1> DEFINE row == [repositories[k] EXCEPT !.active = ~@]
<1>2. row \in Repository /\ Earned(k, row.confidence, named)
  BY <1>1 DEF Repository
<1>3. /\ repositories' = [repositories EXCEPT ![k] = row]
      /\ UNCHANGED <<autoSaved, named, repoRequest>>
  BY DEF SwitchRepository
<1> HIDE DEF row
<1>4. TablesOK' BY <1>2, <1>3 DEF RepoInv, TablesOK
<1>5. \A j \in Keys : repositories'[j] = IF j = k THEN row ELSE repositories[j]
  BY <1>3 DEF RepoInv, TablesOK
<1>6. RowsEarned' BY <1>2, <1>3, <1>5 DEF RepoInv, RowsEarned, Stored
<1> QED BY <1>3, <1>4, <1>6 DEF RepoInv

LEMMA RepoInit == Init => RepoInv
BY DEF Init, RepoInv, TablesOK, RowsEarned, Stored, Sound, Idle

LEMMA RepoStep ==
  ASSUME RepoConstants, RepoInv, [Next]_vars
  PROVE  RepoInv'
<1>1. CASE UNCHANGED vars
  BY <1>1 DEF vars, RepoInv, TablesOK, RowsEarned, Stored
<1>2. ASSUME NEW r \in RepoRequests, Ask(r) PROVE RepoInv'
  <2>1. PICK header \in Headers, argument \in Arguments, route \in {"tool", "status"} :
          AskWith(r, header, argument, route)
    BY <1>2 DEF Ask
  <2>2. HeaderOK(header) /\ MetadataOK(argument) BY DEF RepoConstants
  <2> QED BY <2>1, <2>2, AskSafe
<1>3. ASSUME NEW r \in RepoRequests, InsertRepository(r) \/ SaveRepository(r)
      PROVE  RepoInv'
  BY <1>3, InsertRepositorySafe, SaveRepositorySafe
<1>4. ASSUME NEW r \in RepoRequests, SaveMemory(r) \/ Finish(r)
      PROVE  RepoInv'
  BY <1>4, SaveMemorySafe, FinishSafe
<1>5. ASSUME NEW k \in Keys, SwitchRepository(k) PROVE RepoInv'
  BY <1>5, SwitchRepositorySafe
<1> QED BY <1>1, <1>2, <1>3, <1>4, <1>5 DEF Next

-----------------------------------------------------------------------------
(* The theorems about repositories.                                        *)

\* A confidence that opens scope "auto" was earned by a named URL, in every
\* copy of a row that the table or a request holds.
THEOREM ConfidenceIsEarned ==
  ASSUME RepoConstants
  PROVE  Spec => []RepoInv
<1>1. Init => RepoInv BY RepoInit
<1>2. RepoInv /\ [Next]_vars => RepoInv' BY RepoStep
<1> QED BY <1>1, <1>2, PTL DEF Spec

\* What follows from the invariant, in any specification that keeps it.
LEMMA RepoInvShows ==
  ASSUME RepoConstants, RepoInv
  PROVE  TypeOK /\ AutoSavesWereNamed /\ HeaderOriginIsObeyed
<1>1. TypeOK
  <2>1. \A r \in RepoRequests : repoRequest[r].pc # "idle" =>
          /\ repoRequest[r].pc \in {"insert", "save", "resolved"}
          /\ repoRequest[r].key \in Keys \cup {None}
          /\ repoRequest[r].pc = "save" => repoRequest[r].row \in Repository
    BY Held DEF Busy, Sound
  <2> QED BY <2>1 DEF RepoInv, TablesOK, TypeOK, Keys
<1>2. AutoSavesWereNamed BY DEF RepoInv, TablesOK, AutoSavesWereNamed
<1>3. HeaderOriginIsObeyed BY DEF HeaderOriginIsObeyed, RepoInv, Sound
<1> QED BY <1>1, <1>2, <1>3

\* The types that the runs check.
THEOREM RepoTypesCorrect ==
  ASSUME RepoConstants
  PROVE  Spec => []TypeOK
<1>1. RepoInv => TypeOK BY RepoInvShows
<1> QED BY <1>1, ConfidenceIsEarned, PTL

\* Scope "auto" saves in a repository only if a request had named it by its
\* URL, however the reads and the writes of upsert_repository interleave.
THEOREM AutoSavesAreNamed ==
  ASSUME RepoConstants
  PROVE  Spec => []AutoSavesWereNamed
<1>1. RepoInv => AutoSavesWereNamed BY RepoInvShows
<1> QED BY <1>1, ConfidenceIsEarned, PTL

\* The origin_url of a request's headers decides.
THEOREM HeaderOriginsObeyed ==
  ASSUME RepoConstants
  PROVE  Spec => []HeaderOriginIsObeyed
<1>1. RepoInv => HeaderOriginIsObeyed BY RepoInvShows
<1> QED BY <1>1, ConfidenceIsEarned, PTL
-----------------------------------------------------------------------------
(* A session with the plugin.                                              *)

Clones == [inGit : BOOLEAN, origin : Origins \cup {None}]

HooksOK ==
  /\ workspace \in Workspaces
  /\ hook \in [RepoRequests ->
       {NoHook} \cup [kind : {"status"}, seen : Clones]
         \cup [kind : {"tool"}, seen : Clones, argument : Hints, ran : BOOLEAN]]
  /\ \A r \in RepoRequests : (hook[r].kind = "none") = (repoRequest[r].pc = "idle")

\* A key that is no fallback's is that of the clone's remote.
OfClone(key, seen) ==
  key # None /\ key \notin Fallbacks => seen.inGit /\ key = seen.origin

\* The request goes by what Git said, not by a hint of the agent.
GoesByGit(h) ==
  \/ h.kind = "status"
  \/ h.kind = "tool" /\ (h.ran \/ h.argument = NoFields)

\* The agent was told of the clone's repository, if of any.
ToldOfClone(told) ==
  told # NotSaid =>
    told.key \in Keys \ Fallbacks /\ told.seen.inGit /\ told.key = told.seen.origin

\* The inductive invariant: Git's word leads to the clone's repository or to
\* a fallback's, and no fallback's key was named by a URL, so that it has
\* no confidence.
HookInv ==
  /\ RepoInv
  /\ HooksOK
  /\ \A r \in RepoRequests :
       GoesByGit(hook[r]) => OfClone(repoRequest[r].key, hook[r].seen)
  /\ ToldOfClone(said)
  /\ named \cap Fallbacks = {}

\* What Git says of the clone.
LEMMA MetadataTyped ==
  ASSUME RepoConstants, PluginConstants, HooksOK,
         NEW rootKnown \in BOOLEAN, NEW originKnown \in BOOLEAN
  PROVE  LET m == Metadata(rootKnown, originKnown) IN
         /\ MetadataOK(m)
         /\ IdOf(m) = None /\ m.repo_id = None
         /\ UrlOf(m) = m.origin_url
         /\ m # NoFields
         /\ m.origin_url # None => workspace.inGit /\ m.origin_url = workspace.origin
<1> DEFINE m == Metadata(rootKnown, originKnown)
<1>1. /\ m.repo_id = None /\ m.repository_id = None /\ m.id = None
      /\ m.remote_origin_url = None /\ m.remote_url = None
      /\ m.git_root_basename = None /\ m.repo_slug = None
      /\ m.repository_path = None /\ m.path = None /\ m.repo_hint = None
      /\ m.origin_url = IF workspace.inGit /\ originKnown THEN workspace.origin ELSE None
      /\ m.git_root = IF workspace.inGit /\ rootKnown THEN Root ELSE None
      /\ m.repo_dir_name =
           IF workspace.inGit /\ rootKnown THEN BaseOf[Root] ELSE workspace.cwd
  BY DEF Metadata, NoFields, Fields
<1>2. workspace.cwd \in Names
  BY DEF HooksOK, Workspaces, PluginConstants
<1>3. m.repo_dir_name \in Names /\ m.git_root \in Names \cup {None}
  BY <1>1, <1>2 DEF RepoConstants, PluginConstants
<1> HIDE DEF m
<1>4. m.repo_dir_name # None BY <1>3 DEF RepoConstants
<1>5. NoFields.repo_dir_name = None BY DEF NoFields, Fields
<1>6. m # NoFields BY <1>4, <1>5
<1>7. MetadataOK(m) BY <1>1, <1>3 DEF MetadataOK
<1>8. Parsed(None) = None BY DEF Parsed
<1>9. IdOf(m) = None BY <1>1, <1>8 DEF IdOf, Or
<1>10. UrlOf(m) = m.origin_url BY <1>1 DEF UrlOf, Or
<1> QED BY <1>1, <1>6, <1>7, <1>9, <1>10 DEF m

\* A request without an id, whose URL is the clone's if it has one.
LEMMA AskedOfClone ==
  ASSUME RepoConstants, RepoInv, NEW r \in RepoRequests,
         NEW header, NEW argument, NEW route \in {"tool", "status"},
         HeaderOK(header), MetadataOK(argument),
         AskWith(r, header, argument, route),
         NEW seen,
         InputOf(header, argument, route).id = None,
         Parses(InputOf(header, argument, route).url) =>
           seen.inGit /\ InputOf(header, argument, route).url = seen.origin
  PROVE  OfClone(repoRequest'[r].key, seen)
<1> DEFINE input == InputOf(header, argument, route)
           headers == HeadersOf(header, route)
<1>1. \/ ResolveById(r, input, headers, route)
      \/ ResolveByIdentity(r, input, headers, route)
  BY DEF AskWith, InputOf, HeadersOf
<1>2. ~ResolveById(r, input, headers, route)
  BY DEF ResolveById, Stored, RepoConstants
<1>3. repoRequest'[r].key = IdentityKey(input)
  BY <1>1, <1>2 DEF ResolveByIdentity, Start, RepoInv, TablesOK
<1>4. input.basename \in Names \cup {None} BY InputTyped
<1>5. Parses(input.url) => seen.inGit /\ input.url = seen.origin OBVIOUS
<1> HIDE DEF input
<1> QED BY <1>3, <1>4, <1>5, IdentityFits DEF OfClone

\* The URL of a request is known from then on.
LEMMA AskNames ==
  ASSUME HookInv, NEW r, NEW header, NEW argument, NEW route,
         AskWith(r, header, argument, route),
         InputOf(header, argument, route).url \notin Fallbacks
  PROVE  named' \cap Fallbacks = {}
BY DEF AskWith, InputOf, HookInv

\* AskWith begins the request r and no other.
LEMMA AskBegins ==
  ASSUME RepoInv, NEW r \in RepoRequests,
         NEW header, NEW argument, NEW route, AskWith(r, header, argument, route)
  PROVE  /\ repoRequest[r].pc = "idle"
         /\ repoRequest'[r].pc # "idle"
         /\ \A s \in RepoRequests \ {r} : repoRequest'[s] = repoRequest[s]
<1> DEFINE input == InputOf(header, argument, route)
           headers == HeadersOf(header, route)
<1>1. /\ repoRequest[r].pc = "idle"
      /\ \/ ResolveById(r, input, headers, route)
         \/ ResolveByIdentity(r, input, headers, route)
  BY DEF AskWith, InputOf, HeadersOf
<1>2. PICK pc, key, confidence :
        /\ pc \in {"insert", "save", "resolved"}
        /\ Start(r, headers, route, pc, key, confidence)
  <2> HIDE DEF input, headers
  <2> QED BY <1>1 DEF ResolveById, ResolveByIdentity
<1> HIDE DEF headers
<1> QED BY <1>1, <1>2 DEF Start, RepoInv, TablesOK

\* A step of the request r alone, whose hook is then h.
LEMMA HookSafe ==
  ASSUME HookInv, RepoInv', NEW r \in RepoRequests,
         NEW h \in {NoHook} \cup [kind : {"status"}, seen : Clones]
           \cup [kind : {"tool"}, seen : Clones, argument : Hints, ran : BOOLEAN],
         hook' = [hook EXCEPT ![r] = h], UNCHANGED workspace,
         (h.kind = "none") = (repoRequest'[r].pc = "idle"),
         \A s \in RepoRequests \ {r} : repoRequest'[s] = repoRequest[s],
         GoesByGit(h) => OfClone(repoRequest'[r].key, h.seen),
         ToldOfClone(said'), named' \cap Fallbacks = {}
  PROVE  HookInv'
<1>1. /\ hook'[r] = h
      /\ \A s \in RepoRequests \ {r} : hook'[s] = hook[s]
  BY DEF HookInv, HooksOK
<1>2. HooksOK' BY <1>1 DEF HookInv, HooksOK
<1>3. \A s \in RepoRequests :
        GoesByGit(hook'[s]) => OfClone(repoRequest'[s].key, hook'[s].seen)
  BY <1>1 DEF HookInv
<1> QED BY <1>2, <1>3 DEF HookInv

\* What Git tells the hooks of a clone.
LEMMA CloneTyped ==
  ASSUME HookInv
  PROVE  Clone \in Clones /\ Clone.inGit = workspace.inGit
           /\ Clone.origin = workspace.origin
BY DEF Clone, Clones, HookInv, HooksOK, Workspaces

\* Metadata without a field, and headers that say nothing.
LEMMA NoFieldsOK ==
  /\ MetadataOK(NoFields) /\ IdOf(NoFields) = None /\ UrlOf(NoFields) = None
  /\ HeaderOK(NoHeaders)
  /\ \A f \in Fields : HeaderMetadata(NoHeaders)[f] = None
<1>1. \A f \in Fields : NoFields[f] = None BY DEF NoFields
<1>2. MetadataOK(NoFields) BY <1>1 DEF MetadataOK, Fields
<1>3. IdOf(NoFields) = None /\ UrlOf(NoFields) = None
  BY <1>1 DEF IdOf, UrlOf, Or, Parsed, Fields
<1>4. NoHeaders.json = NoFields /\ NoHeaders.plain = NoFields BY DEF NoHeaders
<1>5. HeaderOK(NoHeaders) BY <1>2, <1>4 DEF HeaderOK
<1>6. \A f \in Fields : HeaderMetadata(NoHeaders)[f] = None
  BY <1>1, <1>4, UpdatedOK DEF HeaderMetadata
<1> QED BY <1>2, <1>3, <1>5, <1>6

LEMMA SessionStartSafe ==
  ASSUME RepoConstants, PluginConstants, HookInv,
         NEW r \in RepoRequests, SessionStart(r)
  PROVE  HookInv'
<1> DEFINE h == [kind |-> "status", seen |-> Clone]
<1>1. PICK rootKnown \in BOOLEAN, originKnown \in BOOLEAN :
        AskWith(r, RequestHeaders(Metadata(rootKnown, originKnown)), NoFields, "status")
  BY DEF SessionStart
<1> DEFINE m == Metadata(rootKnown, originKnown)
           header == RequestHeaders(m)
<1>2. /\ MetadataOK(m) /\ m.repo_id = None
      /\ m.origin_url # None => workspace.inGit /\ m.origin_url = workspace.origin
  BY MetadataTyped DEF HookInv
<1>3. /\ header.json = NoFields
      /\ header.plain.repo_id = m.repo_id
      /\ header.plain.origin_url = m.origin_url
      /\ header.plain = [m EXCEPT !.repo_dir_name = None]
  BY DEF RequestHeaders, Metadata, NoFields, Fields
<1>4. MetadataOK(header.plain)
  <2>1. header.plain = [f \in Fields |-> IF f = "repo_dir_name" THEN None ELSE m[f]]
    BY DEF RequestHeaders, Metadata, NoFields
  <2> HIDE DEF m, header
  <2> QED BY <2>1, <1>2 DEF MetadataOK, Fields
<1>5. AskWith(r, header, NoFields, "status") BY <1>1
<1> HIDE DEF m, header
<1>6. HeaderOK(header) BY <1>3, <1>4, NoFieldsOK DEF HeaderOK
<1> DEFINE input == InputOf(header, NoFields, "status")
<1>7. input.id = None /\ input.url = m.origin_url
  BY <1>2, <1>3 DEF InputOf, StatusInput, Parsed
<1>8. Parses(input.url) => /\ Clone.inGit /\ input.url = Clone.origin
                           /\ input.url \in Origins
  BY <1>2, <1>7, CloneTyped DEF Parses, RepoConstants, Keys, HookInv, HooksOK, Workspaces
<1> HIDE DEF input
<1>9. input.url \notin Fallbacks
  BY <1>2, <1>7 DEF PluginConstants, RepoConstants, Keys, HookInv, HooksOK, Workspaces
<1>10. RepoInv' BY <1>5, <1>6, NoFieldsOK, AskSafe DEF HookInv
<1>11. OfClone(repoRequest'[r].key, Clone)
  BY <1>5, <1>6, <1>7, <1>8, NoFieldsOK, AskedOfClone DEF HookInv, input
<1>12. named' \cap Fallbacks = {} BY <1>5, <1>9, AskNames DEF input
<1>13. /\ repoRequest'[r].pc # "idle"
       /\ \A s \in RepoRequests \ {r} : repoRequest'[s] = repoRequest[s]
  BY <1>5, AskBegins DEF HookInv
<1>14. /\ hook' = [hook EXCEPT ![r] = h]
       /\ UNCHANGED <<workspace, said>>
  BY DEF SessionStart
<1>15. h \in [kind : {"status"}, seen : Clones] BY CloneTyped
<1>16. h.kind = "status" /\ h.seen = Clone OBVIOUS
<1>17. ToldOfClone(said') BY <1>14 DEF HookInv
<1> HIDE DEF h
<1> QED BY <1>10, <1>11, <1>12, <1>13, <1>14, <1>15, <1>16, <1>17, HookSafe

LEMMA TellAgentSafe ==
  ASSUME RepoConstants, PluginConstants, HookInv,
         NEW r \in RepoRequests, TellAgent(r)
  PROVE  HookInv'
<1>1. RepoInv' BY FinishSafe DEF TellAgent, HookInv
<1>2. /\ repoRequest'[r].pc = "idle"
      /\ \A s \in RepoRequests \ {r} : repoRequest'[s] = repoRequest[s]
  BY DEF TellAgent, Finish, HookInv, RepoInv, TablesOK, Idle
<1>3. ToldOfClone(said')
  <2> SUFFICES ASSUME said' # NotSaid
               PROVE  /\ said'.key \in Keys \ Fallbacks
                      /\ said'.seen.inGit /\ said'.key = said'.seen.origin
    BY DEF ToldOfClone
  <2>1. /\ repoRequest[r].pc = "resolved" /\ HighConfidence(repoRequest[r])
        /\ said' = [key |-> repoRequest[r].key, seen |-> hook[r].seen]
    BY DEF TellAgent
  <2>2. repoRequest[r].key # None /\ repoRequest[r].key \in Keys \ Fallbacks
    BY <2>1, FullConfidence DEF HookInv, RepoInv, TablesOK, Keys
  <2>3. OfClone(repoRequest[r].key, hook[r].seen)
    BY DEF TellAgent, HookInv, GoesByGit
  <2> QED BY <2>1, <2>2, <2>3 DEF OfClone
<1>4. NoHook.kind = "none" /\ ~GoesByGit(NoHook) BY DEF NoHook, GoesByGit
<1>5. hook' = [hook EXCEPT ![r] = NoHook] /\ UNCHANGED workspace BY DEF TellAgent
<1>6. named' \cap Fallbacks = {} BY DEF TellAgent, Finish, HookInv
<1> QED BY <1>1, <1>2, <1>3, <1>4, <1>5, <1>6, HookSafe

\* Git's metadata, or the agent's, in a tool call.
LEMMA ToolMetadata ==
  ASSUME RepoConstants, PluginConstants, HookInv,
         NEW argument \in Hints, NEW ran \in BOOLEAN,
         NEW rootKnown \in BOOLEAN, NEW originKnown \in BOOLEAN
  PROVE  LET metadata == IF ran THEN Metadata(rootKnown, originKnown) ELSE NoFields
             merged == MergeRepository(argument, metadata)
         IN /\ MetadataOK(merged)
            /\ UrlOf(merged) \notin Fallbacks
            /\ ran \/ argument = NoFields =>
                 /\ IdOf(merged) = None
                 /\ UrlOf(merged) # None =>
                      Clone.inGit /\ UrlOf(merged) = Clone.origin
<1> DEFINE m == Metadata(rootKnown, originKnown)
           merged == MergeRepository(argument, IF ran THEN m ELSE NoFields)
<1>1. /\ MetadataOK(m) /\ IdOf(m) = None /\ m # NoFields
      /\ UrlOf(m) # None => workspace.inGit /\ UrlOf(m) = workspace.origin
  BY MetadataTyped DEF HookInv
<1> HIDE DEF m
<1>2. UrlOf(m) \notin Fallbacks
  BY <1>1 DEF PluginConstants, RepoConstants, Keys, HookInv, HooksOK, Workspaces
<1>3. MetadataOK(argument) /\ UrlOf(argument) \notin Fallbacks BY DEF PluginConstants
<1>4. CASE ran
  <2>1. merged = m BY <1>4, <1>1 DEF MergeRepository
  <2> QED BY <2>1, <1>1, <1>2, CloneTyped DEF m
<1>5. CASE ~ran
  <2>1. merged = argument BY <1>5 DEF MergeRepository
  <2> QED BY <2>1, <1>3, <1>5, NoFieldsOK DEF m
<1> QED BY <1>4, <1>5

\* Without headers the argument is all there is.
LEMMA ArgumentAlone ==
  ASSUME NEW argument
  PROVE  /\ InputOf(NoHeaders, argument, "tool").id = IdOf(argument)
         /\ InputOf(NoHeaders, argument, "tool").url = UrlOf(argument)
<1> DEFINE m == Merged(NoHeaders, argument)
<1>1. \A f \in Fields : m[f] = argument[f] BY NoFieldsOK, UpdatedOK DEF Merged
<1> HIDE DEF m
<1>2. IdOf(m) = IdOf(argument) BY <1>1 DEF IdOf, Fields
<1>3. UrlOf(m) = UrlOf(argument) BY <1>1 DEF UrlOf, Fields
<1> QED BY <1>2, <1>3 DEF InputOf, ToolInput, m

LEMMA ToolCallSafe ==
  ASSUME RepoConstants, PluginConstants, HookInv,
         NEW r \in RepoRequests, ToolCall(r)
  PROVE  HookInv'
<1>1. PICK argument \in Hints, ran \in BOOLEAN,
           rootKnown \in BOOLEAN, originKnown \in BOOLEAN :
        /\ AskWith(r, NoHeaders,
                   MergeRepository(argument,
                     IF ran THEN Metadata(rootKnown, originKnown) ELSE NoFields),
                   "tool")
        /\ hook' = [hook EXCEPT ![r] =
             [kind |-> "tool", seen |-> Clone, argument |-> argument, ran |-> ran]]
  BY DEF ToolCall
<1> DEFINE merged == MergeRepository(argument,
                       IF ran THEN Metadata(rootKnown, originKnown) ELSE NoFields)
           h == [kind |-> "tool", seen |-> Clone, argument |-> argument, ran |-> ran]
           input == InputOf(NoHeaders, merged, "tool")
<1>2. /\ MetadataOK(merged)
      /\ UrlOf(merged) \notin Fallbacks
      /\ ran \/ argument = NoFields =>
           /\ IdOf(merged) = None
           /\ UrlOf(merged) # None => Clone.inGit /\ UrlOf(merged) = Clone.origin
  BY ToolMetadata
<1>3. AskWith(r, NoHeaders, merged, "tool") /\ hook' = [hook EXCEPT ![r] = h]
  BY <1>1
<1> HIDE DEF merged
<1>4. input.id = IdOf(merged) /\ input.url = UrlOf(merged) BY ArgumentAlone
<1>5. RepoInv' BY <1>2, <1>3, NoFieldsOK, AskSafe DEF HookInv
<1>6. /\ repoRequest'[r].pc # "idle"
      /\ \A s \in RepoRequests \ {r} : repoRequest'[s] = repoRequest[s]
  BY <1>3, AskBegins DEF HookInv
<1>7. ran \/ argument = NoFields => OfClone(repoRequest'[r].key, Clone)
  <2> SUFFICES ASSUME ran \/ argument = NoFields
               PROVE  OfClone(repoRequest'[r].key, Clone)
    OBVIOUS
  <2>1. input.id = None BY <1>2, <1>4
  <2>2. Parses(input.url) => Clone.inGit /\ input.url = Clone.origin
    BY <1>2, <1>4 DEF Parses, RepoConstants, Keys
  <2> HIDE DEF input
  <2> QED BY <1>2, <1>3, <2>1, <2>2, NoFieldsOK, AskedOfClone DEF HookInv, input
<1>8. named' \cap Fallbacks = {} BY <1>2, <1>3, <1>4, AskNames
<1>9. h \in [kind : {"tool"}, seen : Clones, argument : Hints, ran : BOOLEAN]
  BY CloneTyped
<1>10. h.kind = "tool" /\ h.seen = Clone /\ h.argument = argument /\ h.ran = ran
  OBVIOUS
<1>11. UNCHANGED <<workspace, said>> BY DEF ToolCall
<1>12. ToldOfClone(said') BY <1>11 DEF HookInv
<1> HIDE DEF h
<1>13. GoesByGit(h) => OfClone(repoRequest'[r].key, h.seen)
  BY <1>7, <1>10 DEF GoesByGit
<1> QED BY <1>3, <1>5, <1>6, <1>8, <1>9, <1>10, <1>11, <1>12, <1>13, HookSafe

LEMMA EndCallSafe ==
  ASSUME RepoConstants, PluginConstants, HookInv,
         NEW r \in RepoRequests, EndCall(r)
  PROVE  HookInv'
<1>1. RepoInv' BY FinishSafe DEF EndCall, HookInv
<1>2. /\ repoRequest'[r].pc = "idle"
      /\ \A s \in RepoRequests \ {r} : repoRequest'[s] = repoRequest[s]
  BY DEF EndCall, Finish, HookInv, RepoInv, TablesOK, Idle
<1>3. NoHook.kind = "none" /\ ~GoesByGit(NoHook) BY DEF NoHook, GoesByGit
<1>4. hook' = [hook EXCEPT ![r] = NoHook] /\ UNCHANGED <<workspace, said>>
  BY DEF EndCall
<1>5. ToldOfClone(said') /\ named' \cap Fallbacks = {}
  BY <1>4 DEF EndCall, Finish, HookInv
<1> QED BY <1>1, <1>2, <1>3, <1>4, <1>5, HookSafe

\* The backend keeps the keys of requests.
LEMMA BackendSafe ==
  ASSUME RepoConstants, PluginConstants, HookInv,
         NEW r \in RepoRequests, Backend(r)
  PROVE  HookInv'
<1>1. RepoInv'
  BY InsertRepositorySafe, SaveRepositorySafe DEF Backend, HookInv
<1>2. repoRequest[r].pc # "idle" /\ repoRequest[r] \in Busy
  BY Held DEF Backend, InsertRepository, SaveRepository, HookInv
<1>3. /\ repoRequest'[r].pc # "idle"
      /\ repoRequest'[r].key = repoRequest[r].key
      /\ \A s \in RepoRequests \ {r} : repoRequest'[s] = repoRequest[s]
  <2>1. CASE InsertRepository(r)
    <3> DEFINE q == repoRequest[r]
    <3>1. PICK p :
            /\ repoRequest' = [repoRequest EXCEPT ![r] = p]
            /\ p \in {[q EXCEPT !.pc = "save", !.row = repositories[q.key]],
                      [q EXCEPT !.pc = "resolved", !.key = q.key,
                                !.confidence = q.confidence, !.row = NoRepository]}
      BY <2>1 DEF InsertRepository, Resolved
    <3> HIDE DEF q
    <3>2. p.pc # "idle" /\ p.key = q.key BY <3>1, <1>2 DEF Busy, q
    <3> QED BY <3>1, <3>2 DEF HookInv, RepoInv, TablesOK, q
  <2>2. CASE SaveRepository(r)
    BY <2>2, <1>2 DEF SaveRepository, Resolved, HookInv, RepoInv, TablesOK, Busy
  <2> QED BY <2>1, <2>2 DEF Backend
<1>4. UNCHANGED <<workspace, hook, said, named>>
  BY DEF Backend, hookVars, InsertRepository, SaveRepository
<1>5. HooksOK' BY <1>2, <1>3, <1>4 DEF HookInv, HooksOK
<1>6. \A s \in RepoRequests :
        GoesByGit(hook'[s]) => OfClone(repoRequest'[s].key, hook'[s].seen)
  BY <1>3, <1>4 DEF HookInv
<1> QED BY <1>1, <1>4, <1>5, <1>6 DEF HookInv

LEMMA ChangeWorkspaceSafe ==
  ASSUME RepoConstants, HookInv, ChangeWorkspace
  PROVE  HookInv'
<1>1. RepoInv'
  BY RepoStep DEF ChangeWorkspace, HookInv, vars
<1>2. HooksOK'
  BY DEF ChangeWorkspace, HookInv, HooksOK
<1> QED BY <1>1, <1>2 DEF ChangeWorkspace, HookInv

LEMMA HookInit ==
  ASSUME PluginInit
  PROVE  HookInv
<1>1. RepoInv BY RepoInit DEF PluginInit
<1>2. HooksOK BY DEF PluginInit, Init, HooksOK, NoHook, Idle
<1>3. ~GoesByGit(NoHook) BY DEF NoHook, GoesByGit
<1> QED BY <1>1, <1>2, <1>3 DEF PluginInit, Init, HookInv, ToldOfClone

LEMMA HookStep ==
  ASSUME RepoConstants, PluginConstants, HookInv, [PluginNext]_<<vars, hookVars>>
  PROVE  HookInv'
<1>1. CASE UNCHANGED <<vars, hookVars>>
  <2>1. RepoInv' BY <1>1, RepoStep DEF HookInv
  <2> QED BY <1>1, <2>1 DEF vars, hookVars, HookInv, HooksOK
<1>2. ASSUME NEW r \in RepoRequests, SessionStart(r) PROVE HookInv'
  BY <1>2, SessionStartSafe
<1>3. ASSUME NEW r \in RepoRequests, TellAgent(r) PROVE HookInv'
  BY <1>3, TellAgentSafe
<1>4. ASSUME NEW r \in RepoRequests, ToolCall(r) PROVE HookInv'
  BY <1>4, ToolCallSafe
<1>5. ASSUME NEW r \in RepoRequests, Backend(r) PROVE HookInv'
  BY <1>5, BackendSafe
<1>6. ASSUME NEW r \in RepoRequests, EndCall(r) PROVE HookInv'
  BY <1>6, EndCallSafe
<1>7. CASE ChangeWorkspace BY <1>7, ChangeWorkspaceSafe
<1> QED BY <1>1, <1>2, <1>3, <1>4, <1>5, <1>6, <1>7 DEF PluginNext

-----------------------------------------------------------------------------
(* The theorems about a session with the plugin.                           *)

\* Git's word leads to the clone's repository only.
THEOREM GitDecides ==
  ASSUME RepoConstants, PluginConstants
  PROVE  PluginSpec => []HookInv
<1>1. PluginInit => HookInv BY HookInit
<1>2. HookInv /\ [PluginNext]_<<vars, hookVars>> => HookInv' BY HookStep
<1> QED BY <1>1, <1>2, PTL DEF PluginSpec

\* The origin_url of headers decides when the plugin's hooks make the
\* requests, too: session_status.py is told of the clone it asks about.
THEOREM PluginHeadersObeyed ==
  ASSUME RepoConstants, PluginConstants
  PROVE  PluginSpec => []HeaderOriginIsObeyed
<1>1. HookInv => HeaderOriginIsObeyed BY RepoInvShows DEF HookInv
<1> QED BY <1>1, GitDecides, PTL

\* What the invariant shows of the hooks.
LEMMA HookShows ==
  ASSUME RepoConstants, PluginConstants, HookInv
  PROVE  PluginTypeOK /\ SavesWhereTold
<1>1. PluginTypeOK BY DEF HookInv, HooksOK, ToldOfClone, PluginTypeOK, NoHook
<1>2. SavesWhereTold
  <2> SUFFICES ASSUME NEW r \in RepoRequests,
                      hook[r].kind = "tool", repoRequest[r].pc = "resolved",
                      SavesToRepository(repoRequest[r]),
                      said # NotSaid, hook[r].seen = said.seen,
                      hook[r].ran \/ hook[r].argument = NoFields
               PROVE  repoRequest[r].key = said.key
    BY DEF SavesWhereTold
  <2>1. repoRequest[r].key # None /\ repoRequest[r].key \notin Fallbacks
    BY FullConfidence DEF HookInv, SavesToRepository
  <2>2. repoRequest[r].key = hook[r].seen.origin
    BY <2>1 DEF HookInv, GoesByGit, OfClone
  <2>3. said.key = said.seen.origin BY DEF HookInv, ToldOfClone
  <2> QED BY <2>2, <2>3
<1> QED BY <1>1, <1>2

\* The types of the hooks' part.
THEOREM PluginTypesCorrect ==
  ASSUME RepoConstants, PluginConstants
  PROVE  PluginSpec => []PluginTypeOK
<1>1. HookInv => PluginTypeOK BY HookShows
<1> QED BY <1>1, GitDecides, PTL

\* Once the agent was told which repository the session is about, no save
\* with scope "auto" goes to another one while the clone is as it was.
THEOREM SavesGoWhereTold ==
  ASSUME RepoConstants, PluginConstants
  PROVE  PluginSpec => []SavesWhereTold
<1>1. HookInv => SavesWhereTold BY HookShows
<1> QED BY <1>1, GitDecides, PTL
=============================================================================
