------------------------------ MODULE Retrieval ------------------------------
(***************************************************************************)
(* app/services/memory_retrieval_service.py behind the MCP tools           *)
(* search_memories, list_memories and get_memory_context: two queries that *)
(* are not in one transaction, a merge, a ranking and two limits, while    *)
(* other requests write the bank.                                          *)
(*                                                                         *)
(* A text and a query are abstracted to their fit: the score that          *)
(* _score_memory gives the memory, and whether the SQL filter lists it     *)
(* (labels that are only in the metadata score, but the filter looks at    *)
(* the tag tables alone).                                                  *)
(***************************************************************************)
EXTENDS Naturals, FiniteSets

CONSTANTS Actors, Admins,      \* see Rbac
          Repo, Org,           \* the request's repository, the organization
          Memories,            \* ids of memory rows
          Fits,                \* how a text may fit the query
          MaxStamp,            \* bound: writes of memories
          MaxResults,          \* setting MAX_SEARCH_RESULTS
          CandidateMultiplier, MaxCandidates,
          PerScopeLimits       \* settings PER_SCOPE_SEARCH_RESULTS, 0 if unset

INSTANCE Rbac WITH SharedScopes <- {Repo, Org}

VARIABLES bank,     \* the table of memories
          clock,    \* the last updated_at
          search,   \* the request in flight
          touched   \* memories written since it started

vars == <<bank, clock, search, touched>>

NoRow == [status |-> "none", scope |-> Org, stamp |-> 0,
          fit |-> [score |-> 0, listed |-> FALSE]]
NoSearch == [pc |-> "idle", results |-> {}]

Init ==
  /\ bank = [m \in Memories |-> NoRow]
  /\ clock = 0
  /\ search = NoSearch
  /\ touched = {}

-----------------------------------------------------------------------------
(* Other requests write the bank.                                          *)

Write(m, row) ==
  /\ clock < MaxStamp
  /\ clock' = clock + 1
  /\ bank' = [bank EXCEPT ![m] = [row EXCEPT !.stamp = clock + 1]]
  /\ touched' = IF search.pc = "idle" THEN {} ELSE touched \cup {m}
  /\ UNCHANGED search

CreateMemory(m) ==
  /\ bank[m].status = "none"
  /\ \E scope \in Scopes, fit \in Fits :
       Write(m, [status |-> "approved", scope |-> scope, stamp |-> 0,
                 fit |-> fit])

UpdateMemory(m) ==
  /\ bank[m].status = "approved"
  /\ \E fit \in Fits \ {bank[m].fit} : Write(m, [bank[m] EXCEPT !.fit = fit])

ArchiveMemory(m) ==
  /\ bank[m].status = "approved"
  /\ Write(m, [bank[m] EXCEPT !.status = "archived"])

-----------------------------------------------------------------------------
(* The request: its scopes and its limits.                                 *)

\* The scope a tool call names; "auto" names none.
RequestedScopes(actor, scope) ==
  IF scope = "auto" THEN {}
  ELSE {[user |-> actor, org |-> Org, repo |-> Repo][scope]}

\* Confidence is that of the repository the call resolved to, "none"
\* without one.
IncludesRepo(scope, confidence) == scope = "auto" /\ confidence = "high"

SearchScopes(actor, scope, confidence) ==
  LET requested == RequestedScopes(actor, scope) IN
  IF requested # {} THEN requested
  ELSE {actor, Org} \cup (IF IncludesRepo(scope, confidence) THEN {Repo} ELSE {})

EffectiveLimit(asked) ==
  IF asked < 1 THEN 1 ELSE IF asked < MaxResults THEN asked ELSE MaxResults

CandidateLimit(limit) ==
  LET wanted == IF CandidateMultiplier > 1
                THEN limit * CandidateMultiplier ELSE limit
  IN IF wanted < MaxCandidates THEN wanted ELSE MaxCandidates

\* A repo call without a repository is refused.
StartSearch(actor) ==
  /\ search.pc = "idle"
  /\ \E scope \in {"auto", "user", "repo", "org"},
        confidence \in {"high", "low", "none"}, hasQuery \in BOOLEAN,
        asked \in 0 .. MaxResults + 1, perScope \in PerScopeLimits :
       /\ ~(scope = "repo" /\ confidence = "none")
       /\ search' = [pc |-> IF hasQuery THEN "match" ELSE "recent",
                     actor |-> actor, hasQuery |-> hasQuery,
                     scopes |-> SearchScopes(actor, scope, confidence),
                     limit |-> EffectiveLimit(asked),
                     perScope |-> perScope,
                     matched |-> {}, results |-> {}]
  /\ touched' = {}
  /\ UNCHANGED <<bank, clock>>

-----------------------------------------------------------------------------
(* Candidates: approved memories of the scopes, newest first.              *)

\* Mutant: the status filter is forgotten.
InScopeAnyStatus(row) == row.status # "none" /\ row.scope \in search.scopes
InScope(row) == row.status = "approved" /\ row.scope \in search.scopes
Listed(row) == InScope(row) /\ row.fit.listed

\* A list is a set of entries and their order, an entry's place the number
\* of entries before it.
First(n, list, IsBefore(_, _)) ==
  {one \in list : Cardinality({other \in list : IsBefore(other, one)}) < n}

Newer(a, b) == a.row.stamp > b.row.stamp

Fetch(query, ids) ==
  LET rows == {[id |-> m, row |-> bank[m], query |-> query] : m \in ids}
  IN First(CandidateLimit(search.limit), rows, Newer)

\* The first of the two queries, when there is a query text.
FetchMatching ==
  /\ search.pc = "match"
  /\ search' = [search EXCEPT !.pc = "recent",
                  !.matched = Fetch("match", {m \in Memories : Listed(bank[m])})]
  /\ UNCHANGED <<bank, clock, touched>>

\* The memories the query matched come first, then the recent ones.
\* Mutant: the other way round.
RecentBefore(a, b) ==
  IF a.query = b.query THEN Newer(a, b) ELSE a.query = "recent"
Before(a, b) ==
  IF a.query = b.query THEN Newer(a, b) ELSE a.query = "match"

\* Of two reads of one memory the first is kept.
\* Mutant: two reads are the same only if nothing changed.
DedupeRows(found) ==
  {one \in found : ~\E other \in found :
     other.id = one.id /\ other.row = one.row /\ Before(other, one)}
Dedupe(found) ==
  {one \in found : ~\E other \in found :
     other.id = one.id /\ Before(other, one)}

Candidates(matched, recent) ==
  First(CandidateLimit(search.limit), Dedupe(matched \cup recent), Before)

-----------------------------------------------------------------------------
(* Ranking and limits.                                                     *)

Score(row) == IF search.hasQuery THEN row.fit.score ELSE 1

Above(a, b) ==
  \/ Score(a.row) > Score(b.row)
  \/ Score(a.row) = Score(b.row) /\ a.row.stamp > b.row.stamp

Ranked(candidates) ==
  {one \in candidates :
     CanReadMemory(search.actor, one.row) /\ Score(one.row) > 0}

\* Each scope has its best ones kept, as many as the limit says.
PerScope(ranked) ==
  {one \in ranked :
     search.perScope # 0 =>
       Cardinality({other \in ranked : /\ other.row.scope = one.row.scope
                                       /\ Above(other, one)}) < search.perScope}

Results(candidates) ==
  First(search.limit, PerScope(Ranked(candidates)), Above)

\* The second query, the merge and the ranking.
FetchRecent ==
  /\ search.pc = "recent"
  /\ search' = [search EXCEPT !.pc = "done",
                  !.results = Results(Candidates(search.matched,
                    Fetch("recent", {m \in Memories : InScope(bank[m])})))]
  /\ UNCHANGED <<bank, clock, touched>>

Answer ==
  /\ search.pc = "done"
  /\ search' = NoSearch
  /\ touched' = {}
  /\ UNCHANGED <<bank, clock>>

Next ==
  \/ \E m \in Memories : CreateMemory(m) \/ UpdateMemory(m) \/ ArchiveMemory(m)
  \/ \E actor \in Actors : StartSearch(actor)
  \/ FetchMatching
  \/ FetchRecent
  \/ Answer

Spec == Init /\ [][Next]_vars

-----------------------------------------------------------------------------
(* Properties.                                                             *)

RowOK(row) ==
  /\ row.status \in {"none", "approved", "archived"}
  /\ row.scope \in Scopes
  /\ row.stamp \in 0 .. clock
  /\ row.fit \in Fits \cup {NoRow.fit}

\* The types of the bank and of the search in flight.
TypeOK ==
  /\ clock \in 0 .. MaxStamp
  /\ \A m \in Memories : RowOK(bank[m])
  /\ touched \subseteq Memories
  /\ search.pc \in {"idle", "match", "recent", "done"}
  /\ \A one \in search.results : one.id \in Memories /\ RowOK(one.row)

\* A memory that is edited between the two queries is read twice, with two
\* texts: it is still one result (_dedupe_candidates).
NoDuplicateResults ==
  \A one, other \in search.results : one.id = other.id => one = other

\* A result was approved, asked for and readable when it was read, and is
\* the memory as it is unless another request wrote it during the search:
\* what was archived or replaced before the search began is never shown.
ResultsAreCurrent ==
  \A one \in search.results :
    /\ one.row.status = "approved"
    /\ one.row.scope \in search.scopes
    /\ CanReadMemory(search.actor, one.row)
    /\ one.row = bank[one.id] \/ one.id \in touched

Fitting(row) ==
  /\ row.status = "approved"
  /\ row.scope \in search.scopes
  /\ search.hasQuery => row.fit.listed

Here(m) == [id |-> m, row |-> bank[m]]

\* Memories that may stand before m in a query's list.
Ahead(m) ==
  {n \in Memories \ {m} :
     \/ n \in touched
     \/ Fitting(bank[n]) /\ Newer(Here(n), Here(m))}

\* The candidate limit, the merge with recent memories, the limit per scope
\* and the result limit may hide a memory that fits, but only behind enough
\* others: a memory nobody wrote during the search and that the query lists is
\* returned, unless there are enough newer (or just written) ones to fill
\* the candidates, or enough results that rank above it.
BestMatchesReturned ==
  search.pc = "done" =>
    \A m \in Memories \ touched :
      LET above == {one \in search.results : Above(one, Here(m))}
          sameScope == {one \in above : one.row.scope = bank[m].scope}
      IN Fitting(bank[m]) =>
           \/ \E one \in search.results : one.id = m
           \/ Cardinality(Ahead(m)) >= CandidateLimit(search.limit)
           \/ search.perScope # 0 /\ Cardinality(sameScope) >= search.perScope
           \/ Cardinality(above) >= search.limit

-----------------------------------------------------------------------------
(* What the theorems ask of the constants.                                 *)

\* Limits are numbers.  A text that the SQL filter finds by one of the words
\* of the query has a score.
SearchConstants ==
  /\ IsFiniteSet(Memories)
  /\ {MaxStamp, MaxResults, CandidateMultiplier, MaxCandidates} \subseteq Nat
  /\ PerScopeLimits \subseteq Nat
  /\ \A fit \in Fits : fit.score \in Nat /\ (fit.listed => fit.score > 0)
=============================================================================
