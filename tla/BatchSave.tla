------------------------------ MODULE BatchSave ------------------------------
(***************************************************************************)
(* The save_memories tool of app/routers/mcp_router.py: the facts of one   *)
(* call are stored one after the other, each on its own, and the answer    *)
(* lists what became of each.  A client that got no answer in time sends   *)
(* the same call again, while the first may still be running.              *)
(*                                                                         *)
(* A fact is a record of what decides its fate: whether its scope needs    *)
(* review, its idempotency key, and whether it passes validation, the      *)
(* permission check and the secret detector.  A row is named by the        *)
(* attempt and the index that stored it.                                   *)
(***************************************************************************)
EXTENDS Naturals, Sequences, FiniteSets, FiniteSetsExt

CONSTANTS Actors,
          Clients,      \* each sends one call, again and again
          Attempts,     \* the calls that reach the server
          Batches,      \* the lists of facts a client may send
          MaxBatch,     \* MAX_BATCH_MEMORY_FACTS
          NoKey, NoCall

VARIABLES sent,         \* the actor and the facts of each client's call
          proposals,    \* rows: [id, key, creator, applied]
          facts,        \* memories stored directly, their ids
          audit,        \* audit rows: the row each is about
          attempt

vars == <<sent, proposals, facts, audit, attempt>>

Init ==
  /\ sent = [c \in Clients |-> NoCall]
  /\ proposals = {}
  /\ facts = {}
  /\ audit = {}
  /\ attempt = [a \in Attempts |-> [pc |-> "idle"]]

\* The fact an attempt has reached, and the name of the row it may store.
Batch(a) == sent[attempt[a].client].facts
Fact(a) == Batch(a)[attempt[a].index]
Row(a) == <<a, attempt[a].index>>
Actor(a) == sent[attempt[a].client].actor

\* Mutant: a refused fact leaves no result.
SkipRefused(a, result) ==
  LET q == attempt[a]
      pc == IF q.index = Len(Batch(a)) THEN "answered" ELSE "item"
  IN attempt' = [attempt EXCEPT ![a] = [q EXCEPT !.index = @ + 1, !.pc = pc]]
\* The result of a fact; the loop goes on with the next, or answers.
Record(a, result) ==
  LET q == attempt[a]
      pc == IF q.index = Len(Batch(a)) THEN "answered" ELSE "item"
  IN attempt' = [attempt EXCEPT ![a] =
       [q EXCEPT !.results = Append(@, result), !.index = @ + 1, !.pc = pc]]

\* The result of a fact that was not stored.
Refused == [accepted |-> FALSE, memory |-> FALSE, proposal |-> FALSE]

-----------------------------------------------------------------------------
\* A client makes up its call.
Compose(c) ==
  /\ sent[c] = NoCall
  /\ \E actor \in Actors, batch \in Batches :
       sent' = [sent EXCEPT ![c] = [actor |-> actor, facts |-> batch]]
  /\ UNCHANGED <<proposals, facts, audit, attempt>>

\* The call arrives, for the first time or again.
Begin(a) ==
  /\ attempt[a].pc = "idle"
  /\ \E c \in Clients :
       /\ sent[c] # NoCall
       /\ attempt' = [attempt EXCEPT ![a] =
         [pc |-> IF Len(sent[c].facts) \in 1 .. MaxBatch THEN "item" ELSE "refused",
          client |-> c, index |-> 1, results |-> <<>>]]
  /\ UNCHANGED <<sent, proposals, facts, audit>>

\* The row a result will be about, until the audit row has been tried.
Found(a, row, memory, proposal) ==
  attempt' = [attempt EXCEPT ![a] =
    [pc |-> "audit", client |-> @.client, index |-> @.index,
     results |-> @.results, row |-> row,
     memory |-> memory, proposal |-> proposal]]

GoTo(a, pc) == attempt' = [attempt EXCEPT ![a].pc = pc]

\* Mutant: anybody's proposal with the key will do.
HeldByOthersUnchecked(p, actor) == FALSE
HeldByOthers(p, actor) == p.creator # actor

\* The scope is one whose memories are reviewed.
RequiresReview(fact) == fact.review

\* Validation, then the lookup of the key if a proposal is due: the
\* creator's own proposal is the answer, another's is a conflict.
CheckFact(a) ==
  /\ attempt[a].pc = "item"
  /\ LET fact == Fact(a)
         held == {p \in proposals : fact.key # NoKey /\ p.key = fact.key}
     IN \/ ~fact.ok /\ Record(a, Refused)
        \/ fact.ok /\ ~RequiresReview(fact) /\ GoTo(a, "direct")
        \/ fact.ok /\ RequiresReview(fact) /\ held = {} /\ GoTo(a, "propose")
        \/ /\ fact.ok /\ RequiresReview(fact)
           /\ \E p \in held :
                IF HeldByOthers(p, Actor(a))
                THEN Record(a, Refused)
                ELSE Found(a, p.id, p.applied, TRUE)
  /\ UNCHANGED <<sent, proposals, facts, audit>>

\* The unique constraint on idempotency_key; a missing key is free.
KeyTaken(key) == key # NoKey /\ \E p \in proposals : p.key = key

\* Mutant: no unique constraint on idempotency_key.
InsertAnyway(a) ==
  /\ attempt[a].pc = "propose"
  /\ proposals' = proposals \cup {[id |-> Row(a), key |-> Fact(a).key,
                                   creator |-> Actor(a), applied |-> FALSE]}
  /\ Found(a, Row(a), FALSE, TRUE)
  /\ UNCHANGED <<sent, facts, audit>>

\* The insert commits by itself; the unique key may have been taken since
\* the lookup.
InsertProposal(a) ==
  /\ attempt[a].pc = "propose"
  /\ IF KeyTaken(Fact(a).key)
     THEN Record(a, Refused) /\ UNCHANGED proposals
     ELSE /\ proposals' = proposals \cup
               {[id |-> Row(a), key |-> Fact(a).key,
                 creator |-> Actor(a), applied |-> FALSE]}
          /\ Found(a, Row(a), FALSE, TRUE)
  /\ UNCHANGED <<sent, facts, audit>>

\* A direct memory, its tags and its version commit together.
StoreFact(a) ==
  /\ attempt[a].pc = "direct"
  /\ facts' = facts \cup {Row(a)}
  /\ Found(a, Row(a), TRUE, FALSE)
  /\ UNCHANGED <<sent, proposals, audit>>

\* Mutant: the audit row is written whatever became of the fact.
FailAudited(a) ==
  /\ attempt[a].pc \in {"propose", "direct"}
  /\ Record(a, Refused)
  /\ audit' = audit \cup {Row(a)}
  /\ UNCHANGED <<sent, proposals, facts>>

\* The database fails: nothing is stored, or the row is and only the
\* acknowledgement of the commit is lost.  Only this fact is an error.
Fail(a) ==
  /\ attempt[a].pc \in {"propose", "direct"}
  /\ Record(a, Refused)
  /\ \/ UNCHANGED <<proposals, facts>>
     \/ /\ attempt[a].pc = "direct"
        /\ facts' = facts \cup {Row(a)}
        /\ UNCHANGED proposals
     \/ /\ attempt[a].pc = "propose" /\ ~KeyTaken(Fact(a).key)
        /\ proposals' = proposals \cup
             {[id |-> Row(a), key |-> Fact(a).key,
               creator |-> Actor(a), applied |-> FALSE]}
        /\ UNCHANGED facts
  /\ UNCHANGED <<sent, audit>>

\* The audit row is tried once; its failure is swallowed.
LogAudit(a) ==
  /\ attempt[a].pc = "audit"
  /\ audit' \in {audit, audit \cup {attempt[a].row}}
  /\ attempt' = [attempt EXCEPT ![a] =
       [pc |-> IF @.index = Len(Batch(a)) THEN "answered" ELSE "item",
        client |-> @.client, index |-> @.index + 1,
        results |-> Append(@.results,
          [accepted |-> TRUE, memory |-> @.memory,
           proposal |-> @.proposal, row |-> @.row])]]
  /\ UNCHANGED <<sent, proposals, facts>>

\* The process dies, or the call is cancelled: no answer.
Die(a) ==
  /\ attempt[a].pc \in {"item", "propose", "direct", "audit"}
  /\ GoTo(a, "gone")
  /\ UNCHANGED <<sent, proposals, facts, audit>>

\* A reviewer applies a proposal, which then has a memory of its own.
Apply ==
  /\ \E p \in proposals :
       /\ ~p.applied
       /\ proposals' = (proposals \ {p}) \cup {[p EXCEPT !.applied = TRUE]}
  /\ UNCHANGED <<sent, facts, audit, attempt>>

Next ==
  \/ \E a \in Attempts : Begin(a) \/ CheckFact(a) \/ InsertProposal(a)
                           \/ StoreFact(a) \/ Fail(a) \/ LogAudit(a) \/ Die(a)
  \/ \E c \in Clients : Compose(c)
  \/ Apply

Spec == Init /\ [][Next]_vars

-----------------------------------------------------------------------------
(* Properties.                                                             *)

Rows == {p.id : p \in proposals} \cup facts

\* The types of the tables and of the attempts.
TypeOK ==
  /\ facts \subseteq Attempts \X (1 .. MaxBatch)
  /\ \A p \in proposals : /\ p.id \in Attempts \X (1 .. MaxBatch)
                          /\ p.creator \in Actors
  /\ \A a \in Attempts :
       attempt[a].pc \notin {"idle", "refused"} =>
         /\ attempt[a].index \in 1 .. Len(Batch(a)) + 1
         /\ Len(attempt[a].results) = attempt[a].index - 1

\* The counts of the answer.
SavedCount(results) ==
  Quantify(DOMAIN results, LAMBDA i : results[i].memory /\ ~results[i].proposal)
ProposalCount(results) ==
  Quantify(DOMAIN results, LAMBDA i : results[i].proposal)
ErrorCount(results) ==
  Quantify(DOMAIN results, LAMBDA i : ~results[i].accepted)

Answered == {a \in Attempts : attempt[a].pc = "answered"}

\* What an answer says is so: the counts add up to the facts of the call,
\* each saved memory was stored by this very attempt, and each accepted
\* proposal is the caller's own, under the key of its fact.
AnswerIsTrue ==
  \A a \in Answered :
    LET results == attempt[a].results IN
    /\ SavedCount(results) + ProposalCount(results) + ErrorCount(results)
         = Len(Batch(a))
    /\ \A i \in DOMAIN results : results[i].accepted =>
         IF results[i].proposal
         THEN \E p \in proposals : /\ p.id = results[i].row
                                   /\ p.creator = Actor(a)
                                   /\ p.key = Batch(a)[i].key
         ELSE results[i].row = <<a, i>> /\ results[i].row \in facts

\* Calls sent again, overlapping or after a lost answer, agree on the
\* proposal a key stands for, and there is one: all that were told of a
\* proposal for their key were told of the same row.
RetriesAgree ==
  \A a, b \in Attempts :
    attempt[a].pc \notin {"idle", "refused"} /\ attempt[b].pc \notin {"idle", "refused"} =>
      \A i \in DOMAIN attempt[a].results, j \in DOMAIN attempt[b].results :
        LET one == attempt[a].results[i]
            other == attempt[b].results[j]
        IN /\ one.accepted /\ one.proposal /\ other.accepted /\ other.proposal
           /\ Batch(a)[i].key = Batch(b)[j].key /\ Batch(a)[i].key # NoKey
           => one.row = other.row

\* No audit row speaks of a memory or a proposal that was not stored,
\* although it is written after the commit and on its own.
AuditFollowsStore == audit \subseteq Rows

-----------------------------------------------------------------------------
(* What the theorems ask of the constants.                                 *)

Call == [actor : Actors, facts : Batches]

\* A batch has a length, and no call is the value for a missing one.
BatchConstants ==
  /\ MaxBatch \in Nat
  /\ \A batch \in Batches : Len(batch) \in Nat
  /\ NoCall \notin Call
=============================================================================
