-------------------------- MODULE BatchSaveProofs --------------------------
(***************************************************************************)
(* What BatchSave promises for any sets of actors, clients, attempts and   *)
(* batches.                                                                *)
(*                                                                         *)
(* An attempt is told of rows that it, or another attempt, has stored, and *)
(* tells its client much later.  What it was told stays true because rows  *)
(* are only added, and an applied proposal keeps its id, key and creator   *)
(* (RowsKept); that two attempts are told of one row is due to the unique  *)
(* key alone (KeysUnique).                                                 *)
(***************************************************************************)
EXTENDS BatchSave, FiniteSetTheorems, SequenceTheorems, TLAPS

RowIds == Attempts \X (1 .. MaxBatch)

Result ==
  [accepted : {FALSE}, memory : {FALSE}, proposal : {FALSE}]
    \cup [accepted : {TRUE}, memory : BOOLEAN, proposal : BOOLEAN, row : RowIds]

\* The attempts, at each place where they may be interleaved.
Working ==
  [pc : {"item", "propose", "direct", "answered", "refused", "gone"},
   client : Clients, index : Nat, results : Seq(Result)]
Auditing ==
  [pc : {"audit", "gone"}, client : Clients, index : Nat, results : Seq(Result),
   row : RowIds, memory : BOOLEAN, proposal : BOOLEAN]

IsProposal(p) ==
  /\ p = [id |-> p.id, key |-> p.key, creator |-> p.creator, applied |-> p.applied]
  /\ p.id \in RowIds
  /\ p.creator \in Actors
  /\ p.applied \in BOOLEAN

TablesOK ==
  /\ sent \in [Clients -> Call \cup {NoCall}]
  /\ \A p \in proposals : IsProposal(p)
  /\ facts \subseteq RowIds
  /\ attempt \in [Attempts -> {[pc |-> "idle"]} \cup Working \cup Auditing]

\* The unique constraint on idempotency_key.
KeysUnique ==
  \A p, q \in proposals : p.key = q.key /\ p.key # NoKey => p.id = q.id

\* There is a proposal of the actor under the key, stored as row, in ps.
StoredAs(ps, row, actor, key) ==
  \E p \in ps : p.id = row /\ p.creator = actor /\ p.key = key

\* What attempt a is told of fact i of a call, with the tables ps and fs.
Told(ps, fs, a, call, i, result) ==
  result.accepted =>
    IF result.proposal
    THEN StoredAs(ps, result.row, call.actor, call.facts[i].key)
    ELSE result.memory /\ result.row = <<a, i>> /\ result.row \in fs

\* An attempt knows a call that is not too long, and keeps count of it.
Counts(q, call) ==
  /\ Len(call.facts) \in 1 .. MaxBatch
  /\ q.index \in 1 .. Len(call.facts) + 1
  /\ Len(q.results) = q.index - 1
  /\ q.pc \in {"item", "propose", "direct", "audit"} => q.index <= Len(call.facts)
  /\ q.pc = "answered" => q.index = Len(call.facts) + 1

\* Whatever attempt a, in the state q, has been told is so.
Sound(ps, fs, a, call, q) ==
  q.pc # "idle" =>
    /\ call \in Call
    /\ q.pc # "refused" =>
         /\ Counts(q, call)
         /\ \A i \in 1 .. Len(q.results) : Told(ps, fs, a, call, i, q.results[i])
    /\ q.pc = "audit" => Told(ps, fs, a, call, q.index,
                              [accepted |-> TRUE, memory |-> q.memory,
                               proposal |-> q.proposal, row |-> q.row])

AttemptsSound ==
  \A a \in Attempts : Sound(proposals, facts, a, sent[attempt[a].client], attempt[a])

\* The inductive invariant.
SaveInv == TablesOK /\ KeysUnique /\ AuditFollowsStore /\ AttemptsSound

-----------------------------------------------------------------------------
(* Rows are only added.                                                    *)

RowsKept ==
  /\ facts \subseteq facts'
  /\ \A p \in proposals :
       \E q \in proposals' : q.id = p.id /\ q.key = p.key /\ q.creator = p.creator

\* What is told stays so.
LEMMA ToldStays ==
  ASSUME RowsKept, NEW a, NEW call, NEW i, NEW result,
         Told(proposals, facts, a, call, i, result)
  PROVE  Told(proposals', facts', a, call, i, result)
BY DEF RowsKept, Told, StoredAs

\* What an attempt relies on stays true while rows only grow.
LEMMA SoundStays ==
  ASSUME RowsKept, NEW a, NEW call, NEW q, Sound(proposals, facts, a, call, q)
  PROVE  Sound(proposals', facts', a, call, q)
BY ToldStays DEF Sound

\* No row goes.
LEMMA RowsGrow ==
  ASSUME RowsKept
  PROVE  Rows \subseteq Rows'
BY DEF RowsKept, Rows

\* A step that writes no row keeps them.
LEMMA SameRowsKept ==
  ASSUME UNCHANGED <<proposals, facts>>
  PROVE  RowsKept /\ Rows' = Rows
BY DEF RowsKept, Rows

\* The attempts, typed.
AttemptsOK == attempt \in [Attempts -> {[pc |-> "idle"]} \cup Working \cup Auditing]

\* What an attempt holds that has begun.
LEMMA Held ==
  ASSUME SaveInv, NEW a \in Attempts, attempt[a].pc # "idle"
  PROVE  /\ attempt[a] \in Working \cup Auditing
         /\ attempt[a].pc \in {"item", "propose", "direct", "answered", "refused"} =>
              attempt[a] \in Working
         /\ attempt[a].pc = "audit" => attempt[a] \in Auditing
         /\ attempt[a].client \in Clients
         /\ attempt[a].index \in Nat
         /\ attempt[a].results \in Seq(Result)
         /\ sent[attempt[a].client] \in Call
         /\ Sound(proposals, facts, a, sent[attempt[a].client], attempt[a])
<1>1. attempt[a] \in Working \cup Auditing BY DEF SaveInv, TablesOK
<1>2. Sound(proposals, facts, a, sent[attempt[a].client], attempt[a])
  BY DEF SaveInv, AttemptsSound
<1>3. sent[attempt[a].client] \in Call BY <1>2 DEF Sound
<1> QED BY <1>1, <1>2, <1>3 DEF Working, Auditing

\* A step of attempt a that leaves the calls alone.
LEMMA AttemptSafe ==
  ASSUME BatchConstants, SaveInv, RowsKept, UNCHANGED sent, AttemptsOK',
         \A p \in proposals' : IsProposal(p), facts' \subseteq RowIds, KeysUnique',
         audit' \subseteq Rows',
         NEW a \in Attempts,
         Sound(proposals', facts', a, sent[attempt'[a].client], attempt'[a]),
         \A b \in Attempts \ {a} : attempt'[b] = attempt[b]
  PROVE  SaveInv'
<1>1. TablesOK' BY DEF SaveInv, TablesOK, AttemptsOK
<1>2. AttemptsSound'
  <2> SUFFICES ASSUME NEW b \in Attempts
               PROVE  Sound(proposals', facts', b, sent'[attempt'[b].client], attempt'[b])
    BY DEF AttemptsSound
  <2>1. CASE b = a BY <2>1
  <2>2. CASE b # a
    <3>1. Sound(proposals, facts, b, sent[attempt[b].client], attempt[b])
      BY DEF SaveInv, AttemptsSound
    <3>2. Sound(proposals', facts', b, sent[attempt[b].client], attempt[b])
      BY <3>1, SoundStays
    <3> QED BY <2>2, <3>2
  <2> QED BY <2>1, <2>2
<1> QED BY <1>1, <1>2 DEF SaveInv, AuditFollowsStore

\* A step of attempt a that stores nothing.
LEMMA ReadingSafe ==
  ASSUME BatchConstants, SaveInv, UNCHANGED <<sent, proposals, facts, audit>>,
         AttemptsOK', NEW a \in Attempts,
         Sound(proposals, facts, a, sent[attempt'[a].client], attempt'[a]),
         \A b \in Attempts \ {a} : attempt'[b] = attempt[b]
  PROVE  SaveInv'
<1>1. RowsKept /\ Rows' = Rows BY SameRowsKept
<1>2. /\ \A p \in proposals' : IsProposal(p)
      /\ facts' \subseteq RowIds
      /\ KeysUnique'
  BY DEF SaveInv, TablesOK, KeysUnique
<1>3. audit' \subseteq Rows' BY <1>1 DEF SaveInv, AuditFollowsStore
<1>4. Sound(proposals', facts', a, sent[attempt'[a].client], attempt'[a]) OBVIOUS
<1> QED BY <1>1, <1>2, <1>3, <1>4, AttemptSafe

-----------------------------------------------------------------------------
(* The loop.                                                               *)

\* The attempt q has got its result for a fact of the call; it goes on to
\* the next, or answers.
Advanced(q, call, result) ==
  [pc |-> IF q.index = Len(call.facts) THEN "answered" ELSE "item",
   client |-> q.client, index |-> q.index + 1, results |-> Append(q.results, result)]

\* What recording a result does to the attempt.
LEMMA RecordAdvances ==
  ASSUME SaveInv, NEW a \in Attempts, NEW result,
         attempt[a].pc \in {"item", "propose", "direct"}, Record(a, result)
  PROVE  attempt' = [attempt EXCEPT
           ![a] = Advanced(attempt[a], sent[attempt[a].client], result)]
<1> DEFINE q == attempt[a]
           pc == IF q.index = Len(Batch(a)) THEN "answered" ELSE "item"
           p == [q EXCEPT !.results = Append(@, result), !.index = @ + 1, !.pc = pc]
<1>1. q \in Working BY Held
<1>2. attempt' = [attempt EXCEPT ![a] = p]
  BY DEF Record
<1>3. pc = IF q.index = Len(sent[q.client].facts) THEN "answered" ELSE "item"
  BY DEF Batch
<1> HIDE DEF q, pc
<1>4. /\ DOMAIN p = {"pc", "client", "index", "results"}
      /\ p.pc = pc /\ p.client = q.client /\ p.index = q.index + 1
      /\ p.results = Append(q.results, result)
  BY <1>1 DEF Working
<1>5. p = [x \in DOMAIN p |-> p[x]] OBVIOUS
<1> HIDE DEF p
<1>6. p = [pc |-> p.pc, client |-> p.client, index |-> p.index, results |-> p.results]
  BY <1>4, <1>5
<1> QED BY <1>2, <1>3, <1>4, <1>6 DEF Advanced, q

\* An attempt that is told the truth of its fact is sound when it goes on.
LEMMA AdvancedSound ==
  ASSUME MaxBatch \in Nat, NEW ps, NEW fs, NEW a \in Attempts, NEW call \in Call,
         NEW q \in Working \cup Auditing,
         q.pc \in {"item", "propose", "direct", "audit"},
         Sound(ps, fs, a, call, q),
         NEW result \in Result, Told(ps, fs, a, call, q.index, result)
  PROVE  /\ Advanced(q, call, result) \in Working
         /\ Sound(ps, fs, a, call, Advanced(q, call, result))
<1> DEFINE p == Advanced(q, call, result)
           n == Len(call.facts)
<1>1. /\ q.client \in Clients /\ q.index \in Nat /\ q.results \in Seq(Result)
  BY DEF Working, Auditing
<1>2. /\ p.pc = IF q.index = n THEN "answered" ELSE "item"
      /\ p.client = q.client /\ p.index = q.index + 1
      /\ p.results = Append(q.results, result)
  BY DEF Advanced
<1>3. p.results \in Seq(Result) BY <1>1, <1>2
<1>4. p \in Working
  <2>1. q.index + 1 \in Nat BY <1>1
  <2>2. Append(q.results, result) \in Seq(Result) BY <1>1
  <2> QED BY <1>1, <2>1, <2>2 DEF Advanced, Working
<1>5. /\ n \in 1 .. MaxBatch
      /\ q.index \in 1 .. n
      /\ Len(q.results) = q.index - 1
      /\ \A i \in 1 .. Len(q.results) : Told(ps, fs, a, call, i, q.results[i])
  BY <1>1 DEF Sound, Counts
<1>6. Len(p.results) = q.index BY <1>1, <1>2, <1>5
<1>7. \A i \in 1 .. Len(p.results) : Told(ps, fs, a, call, i, p.results[i])
  <2> SUFFICES ASSUME NEW i \in 1 .. Len(p.results)
               PROVE  Told(ps, fs, a, call, i, p.results[i])
    OBVIOUS
  <2>1. CASE i = q.index
    <3>1. p.results[i] = result BY <2>1, <1>1, <1>2, <1>5
    <3> QED BY <2>1, <3>1
  <2>2. CASE i # q.index
    <3>1. i \in 1 .. Len(q.results) BY <2>2, <1>5, <1>6
    <3>2. p.results[i] = q.results[i] BY <3>1, <1>1, <1>2
    <3> QED BY <3>1, <3>2, <1>5
  <2> QED BY <2>1, <2>2
<1>8. p.pc \in {"answered", "item"} BY <1>2
<1> HIDE DEF p
<1>9. Counts(p, call) BY <1>1, <1>2, <1>5, <1>6 DEF Counts
<1>10. Sound(ps, fs, a, call, p) BY <1>7, <1>8, <1>9 DEF Sound
<1> QED BY <1>4, <1>10 DEF p

\* So a step that ends a fact is safe.
LEMMA AdvanceSafe ==
  ASSUME BatchConstants, SaveInv, RowsKept, UNCHANGED sent,
         \A p \in proposals' : IsProposal(p), facts' \subseteq RowIds, KeysUnique',
         audit' \subseteq Rows',
         NEW a \in Attempts,
         attempt[a].pc \in {"item", "propose", "direct", "audit"},
         NEW result \in Result,
         Told(proposals', facts', a, sent[attempt[a].client], attempt[a].index, result),
         attempt' = [attempt EXCEPT
           ![a] = Advanced(attempt[a], sent[attempt[a].client], result)]
  PROVE  SaveInv'
<1> DEFINE q == attempt[a]
           call == sent[q.client]
           p == Advanced(q, call, result)
<1>1. /\ q \in Working \cup Auditing /\ call \in Call
      /\ Sound(proposals, facts, a, call, q)
  BY Held
<1>2. Sound(proposals', facts', a, call, q) BY <1>1, SoundStays
<1>3. p \in Working /\ Sound(proposals', facts', a, call, p)
  BY <1>1, <1>2, AdvancedSound DEF BatchConstants
<1>4. p.client = q.client BY DEF Advanced
<1>5. attempt' = [attempt EXCEPT ![a] = p] OBVIOUS
<1> HIDE DEF p
<1>6. /\ attempt'[a] = p
      /\ \A b \in Attempts \ {a} : attempt'[b] = attempt[b]
      /\ AttemptsOK'
  BY <1>3, <1>5 DEF SaveInv, TablesOK, AttemptsOK
<1> QED BY <1>3, <1>4, <1>6, AttemptSafe

\* A fact that is refused, nothing being stored.
LEMMA RefusedTold ==
  ASSUME NEW ps, NEW fs, NEW a, NEW call, NEW i
  PROVE  Refused \in Result /\ Told(ps, fs, a, call, i, Refused)
BY DEF Refused, Result, Told

\* A fact is refused.
LEMMA RecordRefusedSafe ==
  ASSUME BatchConstants, SaveInv, UNCHANGED <<sent, proposals, facts, audit>>,
         NEW a \in Attempts, attempt[a].pc \in {"item", "propose", "direct"},
         Record(a, Refused)
  PROVE  SaveInv'
<1>1. RowsKept /\ Rows' = Rows BY SameRowsKept
<1>2. /\ \A p \in proposals' : IsProposal(p)
      /\ facts' \subseteq RowIds
      /\ KeysUnique'
  BY DEF SaveInv, TablesOK, KeysUnique
<1>3. audit' \subseteq Rows' BY <1>1 DEF SaveInv, AuditFollowsStore
<1>4. attempt' = [attempt EXCEPT
        ![a] = Advanced(attempt[a], sent[attempt[a].client], Refused)]
  BY RecordAdvances
<1> QED BY <1>1, <1>2, <1>3, <1>4, RefusedTold, AdvanceSafe

\* An attempt that moves without a result: it is stored nowhere yet.
LEMMA GoToSafe ==
  ASSUME BatchConstants, SaveInv, UNCHANGED <<sent, proposals, facts, audit>>,
         NEW a \in Attempts, NEW pc, GoTo(a, pc),
         \/ attempt[a].pc = "item" /\ pc \in {"propose", "direct"}
         \/ attempt[a].pc \in {"item", "propose", "direct", "audit"} /\ pc = "gone"
  PROVE  SaveInv'
<1> DEFINE q == attempt[a]
           call == sent[q.client]
           p == [q EXCEPT !.pc = pc]
<1>1. /\ q \in Working \cup Auditing
      /\ Sound(proposals, facts, a, call, q)
      /\ q.pc = "item" => q \in Working
  BY Held
<1>2. attempt' = [attempt EXCEPT ![a] = p] BY DEF GoTo
<1>3. p.pc = pc /\ p.client = q.client /\ p.index = q.index /\ p.results = q.results
  BY <1>1 DEF Working, Auditing
<1>4. p \in Working \cup Auditing
  <2>1. CASE q \in Working BY <2>1 DEF Working
  <2>2. CASE q \in Auditing
    <3>1. pc = "gone" BY <2>2 DEF Auditing
    <3> QED BY <2>2, <3>1 DEF Auditing
  <2> QED BY <1>1, <2>1, <2>2
<1> HIDE DEF p
<1>5. Sound(proposals, facts, a, call, p) BY <1>1, <1>3 DEF Sound, Counts
<1>6. /\ attempt'[a] = p
      /\ \A b \in Attempts \ {a} : attempt'[b] = attempt[b]
      /\ AttemptsOK'
  BY <1>2, <1>4 DEF SaveInv, TablesOK, AttemptsOK
<1> QED BY <1>3, <1>5, <1>6, ReadingSafe

\* An attempt that was told the truth of its fact and will log it.
LEMMA FoundSafe ==
  ASSUME BatchConstants, SaveInv, RowsKept, UNCHANGED sent,
         \A p \in proposals' : IsProposal(p), facts' \subseteq RowIds, KeysUnique',
         audit' \subseteq Rows',
         NEW a \in Attempts, attempt[a].pc \in {"item", "propose", "direct"},
         NEW row \in RowIds, NEW memory \in BOOLEAN, NEW proposal \in BOOLEAN,
         Told(proposals', facts', a, sent[attempt[a].client], attempt[a].index,
              [accepted |-> TRUE, memory |-> memory, proposal |-> proposal, row |-> row]),
         Found(a, row, memory, proposal)
  PROVE  SaveInv'
<1> DEFINE q == attempt[a]
           call == sent[q.client]
           p == [pc |-> "audit", client |-> q.client, index |-> q.index,
                 results |-> q.results, row |-> row,
                 memory |-> memory, proposal |-> proposal]
<1>1. /\ q.client \in Clients /\ q.index \in Nat /\ q.results \in Seq(Result)
      /\ call \in Call
      /\ Sound(proposals, facts, a, call, q)
  BY Held
<1>2. attempt' = [attempt EXCEPT ![a] = p] BY DEF Found
<1>3. p \in Auditing BY <1>1 DEF Auditing
<1>4. Sound(proposals', facts', a, call, q) BY <1>1, SoundStays
<1>5. Sound(proposals', facts', a, call, p) BY <1>1, <1>4 DEF Sound, Counts
<1>6. p.client = q.client OBVIOUS
<1> HIDE DEF p
<1>7. /\ attempt'[a] = p
      /\ \A b \in Attempts \ {a} : attempt'[b] = attempt[b]
      /\ AttemptsOK'
  BY <1>2, <1>3 DEF SaveInv, TablesOK, AttemptsOK
<1> QED BY <1>5, <1>6, <1>7, AttemptSafe

\* The row and the fact of an attempt at work.
LEMMA AtWork ==
  ASSUME BatchConstants, SaveInv, NEW a \in Attempts,
         attempt[a].pc \in {"item", "propose", "direct", "audit"}
  PROVE  /\ Row(a) \in RowIds
         /\ Row(a) = <<a, attempt[a].index>>
         /\ Fact(a) = sent[attempt[a].client].facts[attempt[a].index]
         /\ Actor(a) = sent[attempt[a].client].actor
         /\ Actor(a) \in Actors
<1>1. /\ sent[attempt[a].client] \in Call
      /\ Sound(proposals, facts, a, sent[attempt[a].client], attempt[a])
  BY Held
<1>2. attempt[a].index \in 1 .. MaxBatch
  BY <1>1 DEF Sound, Counts, BatchConstants
<1> QED BY <1>1, <1>2 DEF Row, Fact, Actor, Batch, RowIds, Call

\* A new proposal under a free key.
LEMMA ProposalAdded ==
  ASSUME BatchConstants, SaveInv, NEW a \in Attempts,
         attempt[a].pc = "propose", ~KeyTaken(Fact(a).key),
         proposals' = proposals \cup {[id |-> Row(a), key |-> Fact(a).key,
                                       creator |-> Actor(a), applied |-> FALSE]},
         facts \subseteq facts'
  PROVE  /\ \A p \in proposals' : IsProposal(p)
         /\ KeysUnique'
         /\ RowsKept
         /\ StoredAs(proposals', Row(a), Actor(a), Fact(a).key)
<1> DEFINE new == [id |-> Row(a), key |-> Fact(a).key,
                   creator |-> Actor(a), applied |-> FALSE]
<1>1. /\ new.id = Row(a) /\ new.key = Fact(a).key /\ new.creator = Actor(a)
      /\ IsProposal(new)
  BY AtWork DEF IsProposal
<1>2. proposals' = proposals \cup {new} OBVIOUS
<1> HIDE DEF new
<1>3. \A p \in proposals' : IsProposal(p) BY <1>1, <1>2 DEF SaveInv, TablesOK
<1>4. KeysUnique' BY <1>1, <1>2 DEF SaveInv, KeysUnique, KeyTaken
<1>5. RowsKept BY <1>2 DEF RowsKept
<1>6. StoredAs(proposals', Row(a), Actor(a), Fact(a).key)
  BY <1>1, <1>2 DEF StoredAs
<1> QED BY <1>3, <1>4, <1>5, <1>6

\* A new memory.
LEMMA FactAdded ==
  ASSUME BatchConstants, SaveInv, NEW a \in Attempts,
         attempt[a].pc = "direct", facts' = facts \cup {Row(a)}, UNCHANGED proposals
  PROVE  /\ \A p \in proposals' : IsProposal(p)
         /\ facts' \subseteq RowIds
         /\ KeysUnique'
         /\ RowsKept
BY AtWork DEF SaveInv, TablesOK, KeysUnique, RowsKept

-----------------------------------------------------------------------------
(* The steps.                                                              *)

LEMMA ComposeSafe ==
  ASSUME BatchConstants, SaveInv, NEW c \in Clients, Compose(c)
  PROVE  SaveInv'
<1>1. PICK actor \in Actors, batch \in Batches :
        sent' = [sent EXCEPT ![c] = [actor |-> actor, facts |-> batch]]
  BY DEF Compose
<1>2. [actor |-> actor, facts |-> batch] \in Call BY DEF Call
<1>3. TablesOK' BY <1>1, <1>2 DEF Compose, SaveInv, TablesOK
<1>4. KeysUnique' /\ AuditFollowsStore'
  BY DEF Compose, SaveInv, KeysUnique, AuditFollowsStore, Rows
<1>5. AttemptsSound'
  <2> SUFFICES ASSUME NEW a \in Attempts
               PROVE  Sound(proposals, facts, a, sent'[attempt[a].client], attempt[a])
    BY DEF AttemptsSound, Compose
  <2>1. CASE attempt[a].pc = "idle" BY <2>1 DEF Sound
  <2>2. CASE attempt[a].pc # "idle"
    <3>1. /\ attempt[a].client \in Clients
          /\ sent[attempt[a].client] \in Call
          /\ Sound(proposals, facts, a, sent[attempt[a].client], attempt[a])
      BY <2>2, Held
    <3>2. sent[attempt[a].client] # NoCall BY <3>1 DEF BatchConstants
    <3>3. sent'[attempt[a].client] = sent[attempt[a].client]
      BY <1>1, <3>1, <3>2 DEF Compose, SaveInv, TablesOK
    <3> QED BY <3>1, <3>3
  <2> QED BY <2>1, <2>2
<1> QED BY <1>3, <1>4, <1>5 DEF SaveInv

LEMMA BeginSafe ==
  ASSUME BatchConstants, SaveInv, NEW a \in Attempts, Begin(a)
  PROVE  SaveInv'
<1>1. PICK c \in Clients :
        /\ sent[c] # NoCall
        /\ attempt' = [attempt EXCEPT ![a] =
             [pc |-> IF Len(sent[c].facts) \in 1 .. MaxBatch THEN "item" ELSE "refused",
              client |-> c, index |-> 1, results |-> <<>>]]
  BY DEF Begin
<1> DEFINE p == [pc |-> IF Len(sent[c].facts) \in 1 .. MaxBatch
                        THEN "item" ELSE "refused",
                 client |-> c, index |-> 1, results |-> <<>>]
<1>2. /\ p.pc = IF Len(sent[c].facts) \in 1 .. MaxBatch THEN "item" ELSE "refused"
      /\ p.client = c /\ p.index = 1 /\ p.results = <<>>
  OBVIOUS
<1>3. p \in Working
  <2>1. <<>> \in Seq(Result) OBVIOUS
  <2> QED BY <2>1 DEF Working
<1>4. attempt' = [attempt EXCEPT ![a] = p] BY <1>1
<1> HIDE DEF p
<1>5. sent[c] \in Call BY <1>1 DEF SaveInv, TablesOK
<1>6. Sound(proposals, facts, a, sent[c], p)
  <2>1. CASE Len(sent[c].facts) \in 1 .. MaxBatch
    <3>1. Counts(p, sent[c]) BY <2>1, <1>2 DEF Counts
    <3> QED BY <3>1, <2>1, <1>2, <1>5 DEF Sound
  <2>2. CASE Len(sent[c].facts) \notin 1 .. MaxBatch
    BY <2>2, <1>2, <1>5 DEF Sound
  <2> QED BY <2>1, <2>2
<1>7. /\ attempt'[a] = p
      /\ \A b \in Attempts \ {a} : attempt'[b] = attempt[b]
      /\ AttemptsOK'
  BY <1>3, <1>4 DEF SaveInv, TablesOK, AttemptsOK
<1> QED BY <1>2, <1>6, <1>7, ReadingSafe DEF Begin

LEMMA CheckFactSafe ==
  ASSUME BatchConstants, SaveInv, NEW a \in Attempts, CheckFact(a)
  PROVE  SaveInv'
<1>1. attempt[a].pc = "item" /\ UNCHANGED <<sent, proposals, facts, audit>>
  BY DEF CheckFact
<1>2. CASE Record(a, Refused) BY <1>1, <1>2, RecordRefusedSafe
<1>3. CASE GoTo(a, "direct") \/ GoTo(a, "propose") BY <1>1, <1>3, GoToSafe
<1>4. CASE \E p \in proposals :
             /\ p.key = Fact(a).key
             /\ ~HeldByOthers(p, Actor(a))
             /\ Found(a, p.id, p.applied, TRUE)
  <2>1. PICK p \in proposals :
          /\ p.key = Fact(a).key
          /\ ~HeldByOthers(p, Actor(a))
          /\ Found(a, p.id, p.applied, TRUE)
    BY <1>4
  <2>2. IsProposal(p) BY DEF SaveInv, TablesOK
  <2>3. p.id \in RowIds /\ p.applied \in BOOLEAN BY <2>2 DEF IsProposal
  <2>4. StoredAs(proposals, p.id, Actor(a), Fact(a).key)
    BY <2>1 DEF StoredAs, HeldByOthers
  <2>5. Told(proposals, facts, a, sent[attempt[a].client], attempt[a].index,
             [accepted |-> TRUE, memory |-> p.applied, proposal |-> TRUE, row |-> p.id])
    BY <1>1, <2>4, AtWork DEF Told
  <2>6. RowsKept /\ Rows' = Rows BY <1>1, SameRowsKept
  <2>7. /\ \A s \in proposals' : IsProposal(s)
        /\ facts' \subseteq RowIds
        /\ KeysUnique'
        /\ audit' \subseteq Rows'
    BY <1>1, <2>6 DEF SaveInv, TablesOK, KeysUnique, AuditFollowsStore
  <2>8. Told(proposals', facts', a, sent[attempt[a].client], attempt[a].index,
             [accepted |-> TRUE, memory |-> p.applied, proposal |-> TRUE, row |-> p.id])
    BY <1>1, <2>5
  <2>9. attempt[a].pc \in {"item", "propose", "direct"} /\ UNCHANGED sent BY <1>1
  <2> QED BY <2>1, <2>3, <2>6, <2>7, <2>8, <2>9, FoundSafe
<1> QED BY <1>2, <1>3, <1>4 DEF CheckFact

LEMMA InsertProposalSafe ==
  ASSUME BatchConstants, SaveInv, NEW a \in Attempts, InsertProposal(a)
  PROVE  SaveInv'
<1>1. attempt[a].pc = "propose" /\ UNCHANGED <<sent, facts, audit>>
  BY DEF InsertProposal
<1>2. CASE KeyTaken(Fact(a).key)
  BY <1>1, <1>2, RecordRefusedSafe DEF InsertProposal
<1>3. CASE ~KeyTaken(Fact(a).key)
  <2>1. /\ proposals' = proposals \cup {[id |-> Row(a), key |-> Fact(a).key,
                                         creator |-> Actor(a), applied |-> FALSE]}
        /\ Found(a, Row(a), FALSE, TRUE)
    BY <1>3 DEF InsertProposal
  <2>2. /\ \A p \in proposals' : IsProposal(p)
        /\ KeysUnique'
        /\ RowsKept
        /\ StoredAs(proposals', Row(a), Actor(a), Fact(a).key)
    BY <1>1, <1>3, <2>1, ProposalAdded
  <2>3. /\ facts' \subseteq RowIds
        /\ audit' \subseteq Rows'
    BY <1>1, <2>2, RowsGrow DEF SaveInv, TablesOK, AuditFollowsStore
  <2>4. Told(proposals', facts', a, sent[attempt[a].client], attempt[a].index,
             [accepted |-> TRUE, memory |-> FALSE, proposal |-> TRUE, row |-> Row(a)])
    BY <1>1, <2>2, AtWork DEF Told
  <2> QED BY <1>1, <2>1, <2>2, <2>3, <2>4, AtWork, FoundSafe
<1> QED BY <1>2, <1>3

LEMMA StoreFactSafe ==
  ASSUME BatchConstants, SaveInv, NEW a \in Attempts, StoreFact(a)
  PROVE  SaveInv'
<1>1. /\ attempt[a].pc = "direct" /\ UNCHANGED <<sent, proposals, audit>>
      /\ facts' = facts \cup {Row(a)}
      /\ Found(a, Row(a), TRUE, FALSE)
  BY DEF StoreFact
<1>2. /\ \A p \in proposals' : IsProposal(p)
      /\ facts' \subseteq RowIds
      /\ KeysUnique'
      /\ RowsKept
  BY <1>1, FactAdded
<1>3. audit' \subseteq Rows'
  BY <1>1, <1>2, RowsGrow DEF SaveInv, AuditFollowsStore
<1>4. Told(proposals', facts', a, sent[attempt[a].client], attempt[a].index,
           [accepted |-> TRUE, memory |-> TRUE, proposal |-> FALSE, row |-> Row(a)])
  BY <1>1, AtWork DEF Told
<1> QED BY <1>1, <1>2, <1>3, <1>4, AtWork, FoundSafe

LEMMA FailSafe ==
  ASSUME BatchConstants, SaveInv, NEW a \in Attempts, Fail(a)
  PROVE  SaveInv'
<1>1. /\ attempt[a].pc \in {"propose", "direct"} /\ Record(a, Refused)
      /\ UNCHANGED <<sent, audit>>
  BY DEF Fail
<1>2. CASE UNCHANGED <<proposals, facts>>
  BY <1>1, <1>2, RecordRefusedSafe
<1>3. ASSUME \A p \in proposals' : IsProposal(p), facts' \subseteq RowIds,
             KeysUnique', RowsKept
      PROVE  SaveInv'
  <2>1. audit' \subseteq Rows'
    BY <1>1, <1>3, RowsGrow DEF SaveInv, AuditFollowsStore
  <2>2. attempt' = [attempt EXCEPT
          ![a] = Advanced(attempt[a], sent[attempt[a].client], Refused)]
    BY <1>1, RecordAdvances
  <2> QED BY <1>1, <1>3, <2>1, <2>2, RefusedTold, AdvanceSafe
<1>4. CASE /\ attempt[a].pc = "direct"
           /\ facts' = facts \cup {Row(a)}
           /\ UNCHANGED proposals
  BY <1>4, <1>3, FactAdded
<1>5. CASE /\ attempt[a].pc = "propose" /\ ~KeyTaken(Fact(a).key)
           /\ proposals' = proposals \cup
                {[id |-> Row(a), key |-> Fact(a).key,
                  creator |-> Actor(a), applied |-> FALSE]}
           /\ UNCHANGED facts
  <2>1. facts' \subseteq RowIds BY <1>5 DEF SaveInv, TablesOK
  <2> QED BY <1>5, <1>3, <2>1, ProposalAdded
<1> QED BY <1>2, <1>4, <1>5 DEF Fail

LEMMA LogAuditSafe ==
  ASSUME BatchConstants, SaveInv, NEW a \in Attempts, LogAudit(a)
  PROVE  SaveInv'
<1> DEFINE q == attempt[a]
           call == sent[q.client]
           result == [accepted |-> TRUE, memory |-> q.memory,
                      proposal |-> q.proposal, row |-> q.row]
<1>1. /\ q.pc = "audit" /\ UNCHANGED <<sent, proposals, facts>>
      /\ audit' \in {audit, audit \cup {q.row}}
  BY DEF LogAudit
<1>2. q \in Auditing /\ Sound(proposals, facts, a, call, q) BY <1>1, Held
<1>3. Told(proposals, facts, a, call, q.index, result)
  BY <1>1, <1>2 DEF Sound
<1>4. result \in Result BY <1>2 DEF Auditing, Result
<1>5. attempt' = [attempt EXCEPT ![a] = Advanced(q, call, result)]
  BY DEF LogAudit, Advanced, Batch
<1>6. q.row \in Rows BY <1>3 DEF Told, StoredAs, Rows
<1>7. RowsKept /\ Rows' = Rows BY <1>1, SameRowsKept
<1>8. /\ \A p \in proposals' : IsProposal(p)
      /\ facts' \subseteq RowIds
      /\ KeysUnique'
      /\ audit' \subseteq Rows'
  BY <1>1, <1>6, <1>7 DEF SaveInv, TablesOK, KeysUnique, AuditFollowsStore
<1>9. Told(proposals', facts', a, call, q.index, result) BY <1>1, <1>3
<1> HIDE DEF result
<1> QED BY <1>1, <1>4, <1>5, <1>7, <1>8, <1>9, AdvanceSafe

LEMMA DieSafe ==
  ASSUME BatchConstants, SaveInv, NEW a \in Attempts, Die(a)
  PROVE  SaveInv'
BY GoToSafe DEF Die

LEMMA ApplySafe ==
  ASSUME BatchConstants, SaveInv, Apply
  PROVE  SaveInv'
<1>1. PICK p \in proposals :
        proposals' = (proposals \ {p}) \cup {[p EXCEPT !.applied = TRUE]}
  BY DEF Apply
<1> DEFINE new == [p EXCEPT !.applied = TRUE]
<1>2. IsProposal(p) BY DEF SaveInv, TablesOK
<1>3. /\ new.id = p.id /\ new.key = p.key /\ new.creator = p.creator
      /\ IsProposal(new)
  <2> DEFINE r == [id |-> p.id, key |-> p.key, creator |-> p.creator,
                   applied |-> p.applied]
  <2>1. p = r /\ p.id \in RowIds /\ p.creator \in Actors BY <1>2 DEF IsProposal
  <2>2. DOMAIN p = {"id", "key", "creator", "applied"} BY <2>1
  <2>3. /\ DOMAIN new = {"id", "key", "creator", "applied"}
        /\ new.id = p.id /\ new.key = p.key /\ new.creator = p.creator
        /\ new.applied = TRUE
    BY <2>2
  <2>4. new = [x \in DOMAIN new |-> new[x]] OBVIOUS
  <2> HIDE DEF new, r
  <2>5. new = [id |-> new.id, key |-> new.key, creator |-> new.creator,
               applied |-> new.applied]
    BY <2>3, <2>4
  <2> QED BY <2>1, <2>3, <2>5 DEF IsProposal
<1>4. proposals' = (proposals \ {p}) \cup {new} BY <1>1
<1> HIDE DEF new
<1>5. TablesOK' BY <1>3, <1>4 DEF Apply, SaveInv, TablesOK
<1>6. KeysUnique' BY <1>3, <1>4 DEF SaveInv, KeysUnique
<1>7. RowsKept BY <1>3, <1>4 DEF RowsKept, Apply
<1>8. AuditFollowsStore' BY <1>7, RowsGrow DEF Apply, SaveInv, AuditFollowsStore
<1>9. AttemptsSound'
  <2> SUFFICES ASSUME NEW a \in Attempts
               PROVE  Sound(proposals', facts', a, sent[attempt[a].client], attempt[a])
    BY DEF AttemptsSound, Apply
  <2> QED BY <1>7, SoundStays DEF SaveInv, AttemptsSound
<1> QED BY <1>5, <1>6, <1>8, <1>9 DEF SaveInv

LEMMA SaveInit == Init => SaveInv
<1> SUFFICES ASSUME Init PROVE SaveInv OBVIOUS
<1>1. TablesOK BY DEF Init, TablesOK
<1>2. AttemptsSound BY DEF Init, AttemptsSound, Sound
<1> QED BY <1>1, <1>2 DEF Init, SaveInv, KeysUnique, AuditFollowsStore

LEMMA SaveStep ==
  ASSUME BatchConstants, SaveInv, [Next]_vars
  PROVE  SaveInv'
<1>1. CASE UNCHANGED vars
  BY <1>1 DEF vars, SaveInv, TablesOK, KeysUnique, AuditFollowsStore, Rows,
              AttemptsSound
<1>2. ASSUME NEW a \in Attempts, Begin(a) \/ CheckFact(a) \/ InsertProposal(a)
      PROVE  SaveInv'
  BY <1>2, BeginSafe, CheckFactSafe, InsertProposalSafe
<1>3. ASSUME NEW a \in Attempts, StoreFact(a) \/ Fail(a) \/ LogAudit(a) \/ Die(a)
      PROVE  SaveInv'
  BY <1>3, StoreFactSafe, FailSafe, LogAuditSafe, DieSafe
<1>4. ASSUME NEW c \in Clients, Compose(c) PROVE SaveInv' BY <1>4, ComposeSafe
<1>5. CASE Apply BY <1>5, ApplySafe
<1> QED BY <1>1, <1>2, <1>3, <1>4, <1>5 DEF Next

-----------------------------------------------------------------------------
(* The theorems.                                                           *)

\* Whatever an attempt has been told of a row is so in every reachable state.
THEOREM AttemptsAreToldTheTruth ==
  ASSUME BatchConstants
  PROVE  Spec => []SaveInv
<1>1. Init => SaveInv BY SaveInit
<1>2. SaveInv /\ [Next]_vars => SaveInv' BY SaveStep
<1> QED BY <1>1, <1>2, PTL DEF Spec

\* No audit row speaks of a row that was not stored.
THEOREM AuditRowsFollow ==
  ASSUME BatchConstants
  PROVE  Spec => []AuditFollowsStore
<1>1. SaveInv => AuditFollowsStore BY DEF SaveInv
<1> QED BY <1>1, AttemptsAreToldTheTruth, PTL

\* The types that the runs check.
THEOREM SaveTypesCorrect ==
  ASSUME BatchConstants
  PROVE  Spec => []TypeOK
<1>1. SaveInv => TypeOK
  <2> SUFFICES ASSUME SaveInv PROVE TypeOK OBVIOUS
  <2>1. \A p \in proposals : p.id \in RowIds /\ p.creator \in Actors
    BY DEF SaveInv, TablesOK, IsProposal
  <2>2. facts \subseteq RowIds BY DEF SaveInv, TablesOK
  <2>3. ASSUME NEW a \in Attempts, attempt[a].pc \notin {"idle", "refused"}
        PROVE  /\ attempt[a].index \in 1 .. Len(Batch(a)) + 1
               /\ Len(attempt[a].results) = attempt[a].index - 1
    BY <2>3, Held DEF Sound, Counts, Batch
  <2> QED BY <2>1, <2>2, <2>3 DEF TypeOK, RowIds
<1> QED BY <1>1, AttemptsAreToldTheTruth, PTL

\* Calls sent again, overlapping or after a lost answer, agree on the
\* proposal that a key stands for: the unique key leaves one.
THEOREM RetriesAreTheSame ==
  ASSUME BatchConstants
  PROVE  Spec => []RetriesAgree
<1>1. SaveInv => RetriesAgree
  <2> SUFFICES ASSUME SaveInv,
                      NEW a \in Attempts, attempt[a].pc \notin {"idle", "refused"},
                      NEW b \in Attempts, attempt[b].pc \notin {"idle", "refused"},
                      NEW i \in DOMAIN attempt[a].results,
                      NEW j \in DOMAIN attempt[b].results,
                      attempt[a].results[i].accepted, attempt[a].results[i].proposal,
                      attempt[b].results[j].accepted, attempt[b].results[j].proposal,
                      Batch(a)[i].key = Batch(b)[j].key, Batch(a)[i].key # NoKey
               PROVE  attempt[a].results[i].row = attempt[b].results[j].row
    BY DEF RetriesAgree
  <2>1. ASSUME NEW c \in Attempts, attempt[c].pc \notin {"idle", "refused"},
               NEW k \in DOMAIN attempt[c].results,
               attempt[c].results[k].accepted, attempt[c].results[k].proposal
        PROVE  \E p \in proposals : /\ p.id = attempt[c].results[k].row
                                    /\ p.key = Batch(c)[k].key
    <3>1. /\ attempt[c].results \in Seq(Result)
          /\ Sound(proposals, facts, c, sent[attempt[c].client], attempt[c])
      BY <2>1, Held
    <3>2. k \in 1 .. Len(attempt[c].results) BY <3>1
    <3>3. Told(proposals, facts, c, sent[attempt[c].client], k, attempt[c].results[k])
      BY <2>1, <3>1, <3>2 DEF Sound
    <3> QED BY <2>1, <3>3 DEF Told, StoredAs, Batch
  <2>2. PICK p \in proposals : /\ p.id = attempt[a].results[i].row
                               /\ p.key = Batch(a)[i].key
    BY <2>1
  <2>3. PICK q \in proposals : /\ q.id = attempt[b].results[j].row
                               /\ q.key = Batch(b)[j].key
    BY <2>1
  <2> QED BY <2>2, <2>3 DEF SaveInv, KeysUnique
<1> QED BY <1>1, AttemptsAreToldTheTruth, PTL

\* The sizes of disjoint sets add up.
LEMMA DisjointSizes ==
  ASSUME NEW S, IsFiniteSet(S), NEW T, IsFiniteSet(T), S \cap T = {}
  PROVE  /\ IsFiniteSet(S \cup T)
         /\ Cardinality(S \cup T) = Cardinality(S) + Cardinality(T)
<1>1. /\ IsFiniteSet(S \cup T)
      /\ Cardinality(S \cup T) = Cardinality(S) + Cardinality(T) - Cardinality(S \cap T)
  BY FS_Union
<1>2. Cardinality(S \cap T) = 0 BY FS_EmptySet
<1>3. Cardinality(S) \in Nat /\ Cardinality(T) \in Nat BY FS_CardinalityType
<1> QED BY <1>1, <1>2, <1>3

\* Every result counts once: as a saved memory, a proposal or an error.
LEMMA ResultsCount ==
  ASSUME NEW n \in Nat, NEW results \in Seq(Result), Len(results) = n,
         \A i \in 1 .. n : results[i].accepted /\ ~results[i].proposal =>
                             results[i].memory
  PROVE  SavedCount(results) + ProposalCount(results) + ErrorCount(results) = n
<1> DEFINE saved == {i \in 1 .. n : results[i].memory /\ ~results[i].proposal}
           proposed == {i \in 1 .. n : results[i].proposal}
           errors == {i \in 1 .. n : ~results[i].accepted}
<1>1. DOMAIN results = 1 .. n OBVIOUS
<1>2. /\ SavedCount(results) = Cardinality(saved)
      /\ ProposalCount(results) = Cardinality(proposed)
      /\ ErrorCount(results) = Cardinality(errors)
  BY <1>1 DEF SavedCount, ProposalCount, ErrorCount, Quantify
<1>3. IsFiniteSet(1 .. n) /\ Cardinality(1 .. n) = n BY FS_Interval
<1>4. IsFiniteSet(saved) /\ IsFiniteSet(proposed) /\ IsFiniteSet(errors)
  BY <1>3, FS_Subset
<1>5. \A i \in 1 .. n : results[i] \in Result OBVIOUS
<1>6. \A i \in 1 .. n :
        /\ results[i].accepted \in BOOLEAN /\ results[i].proposal \in BOOLEAN
        /\ results[i].memory \in BOOLEAN
        /\ ~results[i].accepted => ~results[i].proposal /\ ~results[i].memory
  BY <1>5 DEF Result
<1>7. /\ saved \cap proposed = {}
      /\ (saved \cup proposed) \cap errors = {}
      /\ (saved \cup proposed) \cup errors = 1 .. n
  BY <1>6
<1> HIDE DEF saved, proposed, errors
<1>8. /\ IsFiniteSet(saved \cup proposed)
      /\ Cardinality(saved \cup proposed) = Cardinality(saved) + Cardinality(proposed)
  BY <1>4, <1>7, DisjointSizes
<1>9. Cardinality((saved \cup proposed) \cup errors) =
        Cardinality(saved \cup proposed) + Cardinality(errors)
  BY <1>4, <1>7, <1>8, DisjointSizes
<1> QED BY <1>2, <1>3, <1>4, <1>7, <1>8, <1>9, FS_CardinalityType

\* What an answer says is so, and its counts add up.
THEOREM AnswersAreTrue ==
  ASSUME BatchConstants
  PROVE  Spec => []AnswerIsTrue
<1>1. SaveInv => AnswerIsTrue
  <2> SUFFICES ASSUME SaveInv, NEW a \in Attempts, attempt[a].pc = "answered"
               PROVE  LET results == attempt[a].results IN
                      /\ SavedCount(results) + ProposalCount(results)
                           + ErrorCount(results) = Len(Batch(a))
                      /\ \A i \in DOMAIN results : results[i].accepted =>
                           IF results[i].proposal
                           THEN \E p \in proposals : /\ p.id = results[i].row
                                                     /\ p.creator = Actor(a)
                                                     /\ p.key = Batch(a)[i].key
                           ELSE results[i].row = <<a, i>> /\ results[i].row \in facts
    BY DEF AnswerIsTrue, Answered
  <2> DEFINE results == attempt[a].results
             call == sent[attempt[a].client]
  <2>1. results \in Seq(Result) /\ Sound(proposals, facts, a, call, attempt[a])
    BY Held
  <2>2. Len(call.facts) \in Nat /\ Len(results) = Len(call.facts)
    BY <2>1 DEF Sound, Counts
  <2>3. \A i \in 1 .. Len(results) : Told(proposals, facts, a, call, i, results[i])
    BY <2>1 DEF Sound
  <2>4. Batch(a) = call.facts /\ Actor(a) = call.actor BY DEF Batch, Actor
  <2> HIDE DEF results, call
  <2>5. \A i \in 1 .. Len(results) :
          results[i].accepted /\ ~results[i].proposal => results[i].memory
    BY <2>3 DEF Told
  <2>6. SavedCount(results) + ProposalCount(results) + ErrorCount(results)
          = Len(call.facts)
    BY <2>1, <2>2, <2>5, ResultsCount
  <2>7. \A i \in DOMAIN results : results[i].accepted =>
          IF results[i].proposal
          THEN \E p \in proposals : /\ p.id = results[i].row
                                    /\ p.creator = call.actor
                                    /\ p.key = call.facts[i].key
          ELSE results[i].row = <<a, i>> /\ results[i].row \in facts
    BY <2>1, <2>3 DEF Told, StoredAs
  <2> QED BY <2>4, <2>6, <2>7 DEF results
<1> QED BY <1>1, AttemptsAreToldTheTruth, PTL
=============================================================================
