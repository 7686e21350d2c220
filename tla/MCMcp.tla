------------------------------- MODULE MCMcp -------------------------------
(***************************************************************************)
(* The parts behind the MCP endpoint, instantiated for TLC: searching      *)
(* (Retrieval), lists read by pages (Listings), remembered session ids     *)
(* (McpSessions) and saving a batch (BatchSave).  They share no variable,  *)
(* so every behaviour of the whole is an interleaving of theirs; each      *)
(* behaviour here keeps to one of them, and the run explores their sum     *)
(* instead of their product.                                               *)
(***************************************************************************)
EXTENDS Naturals, TLC

CONSTANTS Actors, Searchers, Admins, Repo, Org, Memories, MaxStamp, MaxResults,
          CandidateMultiplier, MaxCandidates, PerScopeLimits,
          Processes, Workers, Names, Tokens, SessionIds, NoId,
          Clients, Attempts, MaxBatch, Key, NoKey, NoCall,
          Readers, MaxListStamp, PageSizes

VARIABLES focus,
          bank, clock, search, touched,
          remembered, live, answered, given, request,
          sent, proposals, facts, audit, attempt,
          listedMemories, listedProposals, listClock, walk

searchVars == <<bank, clock, search, touched>>
sessionVars == <<remembered, live, answered, given, request>>
saveVars == <<sent, proposals, facts, audit, attempt>>
listVars == <<listedMemories, listedProposals, listClock, walk>>
vars == <<focus, searchVars, sessionVars, saveVars, listVars>>

\* A text the query does not fit, one it fits by a label that is only in
\* the metadata, and one it fits by its words.
Fits == {[score |-> 0, listed |-> FALSE], [score |-> 1, listed |-> FALSE],
         [score |-> 2, listed |-> TRUE]}

\* Calls with a key, with one key twice, with facts stored directly, with a
\* fact that is refused, and the empty call.
Fact(review, key, ok) == [review |-> review, key |-> key, ok |-> ok]
Batches == {<<>>,
            <<Fact(TRUE, NoKey, TRUE)>>,
            <<Fact(TRUE, Key, TRUE), Fact(FALSE, NoKey, TRUE)>>,
            <<Fact(TRUE, Key, TRUE), Fact(TRUE, Key, TRUE)>>,
            <<Fact(FALSE, NoKey, FALSE), Fact(TRUE, Key, TRUE)>>}

Search == INSTANCE Retrieval WITH Actors <- Searchers
Sessions == INSTANCE McpSessions
Saves == INSTANCE BatchSave
Lists == INSTANCE Listings WITH Actors <- Readers, Rows <- Memories,
                                MaxStamp <- MaxListStamp,
                                memories <- listedMemories,
                                proposals <- listedProposals,
                                clock <- listClock

\* What the theorems about the parts ask of the constants.
ASSUME TheoremsApply ==
  /\ Search!SearchConstants
  /\ Saves!BatchConstants
  /\ Lists!ListConstants

\* The configuration gives sets of different components the same values,
\* so that one permutation serves each of them.
Symmetry == Permutations(Memories) \cup Permutations(Workers)

Init ==
  /\ focus \in {"search", "sessions", "saves", "memoryList", "proposalList"}
  /\ Search!Init
  /\ Sessions!Init
  /\ Saves!Init
  /\ Lists!Init

Next ==
  \/ /\ focus = "search"
     /\ Search!Next
     /\ UNCHANGED <<focus, sessionVars, saveVars, listVars>>
  \/ /\ focus = "sessions"
     /\ Sessions!Next
     /\ UNCHANGED <<focus, searchVars, saveVars, listVars>>
  \/ /\ focus = "saves"
     /\ Saves!Next
     /\ UNCHANGED <<focus, searchVars, sessionVars, listVars>>
  \/ /\ focus = "memoryList"
     /\ Lists!MemoryNext
     /\ UNCHANGED <<focus, searchVars, sessionVars, saveVars>>
  \/ /\ focus = "proposalList"
     /\ Lists!ProposalNext
     /\ UNCHANGED <<focus, searchVars, sessionVars, saveVars>>

Spec == Init /\ [][Next]_vars

-----------------------------------------------------------------------------
(* Properties.                                                             *)

\* The types of the components.
TypesOK == Search!TypeOK /\ Sessions!TypeOK /\ Saves!TypeOK /\ Lists!TypeOK

\* A memory edited between the two queries of a search is one result.
NoDuplicateResults == Search!NoDuplicateResults

\* Nothing archived or replaced before a search began is shown by it.
ResultsAreCurrent == Search!ResultsAreCurrent

\* The limits of a search hide a fitting memory only behind as many others
\* of its scope that come before it in the order of the limit: the newer ones
\* among the candidates, the better or newer ones among the results.
BestMatchesReturned == Search!BestMatchesReturned

\* A list shows what a single read would show.
ListedIsReadable == Lists!ListedIsReadable

\* Page after page misses nothing that stayed as it was and in its place.
WalkIsComplete == Lists!WalkIsComplete

\* An injected session id was an answer of this process to the same client.
InjectedIsKnown == Sessions!InjectedIsKnown

\* The answer to a batch tells what was stored.
AnswerIsTrue == Saves!AnswerIsTrue

\* Calls sent again agree on the proposal a key stands for.
RetriesAgree == Saves!RetriesAgree

\* Audit rows speak of stored rows only.
AuditFollowsStore == Saves!AuditFollowsStore
=============================================================================
