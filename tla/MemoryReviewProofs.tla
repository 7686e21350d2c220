------------------------- MODULE MemoryReviewProofs -------------------------
(***************************************************************************)
(* What MemoryReview promises for any sets of users, requests, memories,   *)
(* proposals and texts.                                                    *)
(*                                                                         *)
(* The argument has one inductive invariant, Inv: everything is well typed *)
(* and what a request read from the rows it has locked is still what they  *)
(* hold.  The first part shows it inductive, one lemma per action.  The    *)
(* second derives the safety properties from it, the third what a review   *)
(* has done once it is decided.                                            *)
(***************************************************************************)
EXTENDS MemoryReview, SequenceTheorems, TLAPS

\* The inductive invariant.
Inv == TypeOK /\ LockedRowsCurrent

-----------------------------------------------------------------------------
(* Requests that do not move.                                              *)

\* The rows v has locked and read keep their values and their locks.
Undisturbed(v) ==
  LET t == tx[v] IN
  /\ t.op \in ReviewOps /\ t.pc \in {"lockFact", "stage", "commit"} =>
       proposalLock'[t.pid] = v /\ proposal'[t.pid] = proposal[t.pid]
  /\ t.pc \in {"stage", "commit"} /\ t.fid # NoFact =>
       /\ factLock'[t.fid] = v
       /\ fact'[t.fid] = fact[t.fid]
       /\ versions'[t.fid] = versions[t.fid]

\* A request that has ended is well typed.
LEMMA IdleTyped == Idle \in Requests
  BY DEF Idle, Requests, Pcs, Ops, NoProposalRow, NoFactRow, ProposalRows,
         FactRows, TagLocks

\* A request that has ended relies on nothing.
LEMMA IdleComplete == RequestComplete(Idle)
  BY DEF RequestComplete, Idle, ReviewOps, UserOps

\* A step of w is safe when w's new state is, and it disturbs nobody else.
LEMMA StepSafe ==
  ASSUME Inv, NEW w \in Workers, NEW r \in Requests,
         tx' = [tx EXCEPT ![w] = r], RequestComplete(r),
         LockedRowsOf(w)', RowsComplete',
         \A v \in Workers \ {w} : Undisturbed(v)
  PROVE  LockedRowsCurrent'
<1>1. tx'[w] = r
  BY DEF Inv, TypeOK
<1>2. ASSUME NEW v \in Workers, v # w
      PROVE  RequestComplete(tx'[v]) /\ LockedRowsOf(v)'
  <2>1. tx'[v] = tx[v] /\ RequestComplete(tx[v]) /\ LockedRowsOf(v)
    BY <1>2 DEF Inv, LockedRowsCurrent
  <2>2. Undisturbed(v)
    BY <1>2
  <2> QED
    BY <2>1, <2>2 DEF LockedRowsOf, Undisturbed
<1> QED
  BY <1>1, <1>2 DEF LockedRowsCurrent

\* A step that changes no row and no lock disturbs nobody.
LEMMA QuietUndisturbed ==
  ASSUME Inv, NEW v \in Workers,
         UNCHANGED <<fact, versions, proposal, factLock, proposalLock>>
  PROVE  Undisturbed(v)
  BY DEF Inv, LockedRowsCurrent, LockedRowsOf, Undisturbed

\* Idle workers hold nothing.
LEMMA IdleHoldsNothing ==
  ASSUME NEW w \in Workers, tx'[w] = Idle
  PROVE  LockedRowsOf(w)'
  BY DEF LockedRowsOf, Idle, ReviewOps

\* The end of w's request leaves locks and requests well typed, and frees
\* no lock of another worker.
LEMMA FinishTyped ==
  ASSUME Inv, NEW w \in Workers, Finish(w)
  PROVE  /\ factLock' \in [Facts -> Workers \cup {NoWorker}]
         /\ proposalLock' \in [Proposals -> Workers \cup {NoWorker}]
         /\ tx' \in [Workers -> Requests]
  BY IdleTyped DEF Inv, TypeOK, Finish, FreeLocks

\* The end of a request takes no lock away from another one.
LEMMA FinishFreesOwn ==
  ASSUME Inv, NEW w \in Workers, NEW v \in Workers \ {w}, FreeLocks(w)
  PROVE  LET t == tx[v] IN
         /\ t.op \in ReviewOps /\ t.pc \in {"lockFact", "stage", "commit"} =>
              t.pid \in Proposals /\ proposalLock'[t.pid] = v
         /\ t.pc \in {"stage", "commit"} /\ t.fid # NoFact =>
              t.fid \in Facts /\ factLock'[t.fid] = v
<1>1. tx[v] \in Requests /\ RequestComplete(tx[v]) /\ LockedRowsOf(v)
  BY DEF Inv, TypeOK, LockedRowsCurrent
<1> QED
  BY <1>1 DEF LockedRowsOf, RequestComplete, Requests, FreeLocks

\* A request that ends without a write.
LEMMA RollbackSafe ==
  ASSUME Inv, NEW w \in Workers, Rollback(w)
  PROVE  Inv'
<1>1. TypeOK'
  BY FinishTyped DEF Inv, TypeOK, Rollback, db
<1>2. RowsComplete'
  BY DEF Inv, LockedRowsCurrent, RowsComplete, Rollback, db
<1>3. \A v \in Workers \ {w} : Undisturbed(v)
  BY FinishFreesOwn DEF Rollback, Finish, db, Undisturbed
<1>4. tx' = [tx EXCEPT ![w] = Idle] /\ tx'[w] = Idle
  BY DEF Rollback, Finish, Inv, TypeOK
<1>5. LockedRowsCurrent'
  BY <1>2, <1>3, <1>4, IdleTyped, IdleComplete, IdleHoldsNothing, StepSafe
<1> QED
  BY <1>1, <1>5 DEF Inv

\* The same, of a request that holds no lock.
LEMMA ReturnSafe ==
  ASSUME Inv, NEW w \in Workers, tx' = [tx EXCEPT ![w] = Idle],
         UNCHANGED <<db, locks>>
  PROVE  Inv'
<1>1. TypeOK'
  BY IdleTyped DEF Inv, TypeOK, db, locks
<1>2. RowsComplete'
  BY DEF Inv, LockedRowsCurrent, RowsComplete, db
<1>3. \A v \in Workers \ {w} : Undisturbed(v)
  BY QuietUndisturbed DEF db, locks
<1>4. tx'[w] = Idle
  BY DEF Inv, TypeOK
<1>5. LockedRowsCurrent'
  BY <1>2, <1>3, <1>4, IdleTyped, IdleComplete, IdleHoldsNothing, StepSafe
<1> QED
  BY <1>1, <1>5 DEF Inv

-----------------------------------------------------------------------------
(* Arrivals.                                                               *)

\* w starts a request that has locked nothing yet.
LEMMA ReceiveSafe ==
  ASSUME Inv, NEW w \in Workers, NEW r \in Requests, Receive(w, r),
         RequestComplete(r), r.pc \notin {"stage", "commit"},
         r.op \in ReviewOps => r.pc = "lockProposal",
         UNCHANGED <<db, locks>>
  PROVE  Inv'
<1>1. TypeOK'
  BY DEF Inv, TypeOK, Receive, db, locks
<1>2. RowsComplete'
  BY DEF Inv, LockedRowsCurrent, RowsComplete, db
<1>3. \A v \in Workers \ {w} : Undisturbed(v)
  BY QuietUndisturbed DEF db, locks
<1>4. LockedRowsOf(w)'
  <2>1. tx'[w] = r
    BY DEF Inv, TypeOK, Receive
  <2> QED
    BY <2>1 DEF LockedRowsOf
<1>5. LockedRowsCurrent'
  BY <1>2, <1>3, <1>4, StepSafe DEF Receive
<1> QED
  BY <1>1, <1>5 DEF Inv

\* create_direct_memory holds the row it will insert, and locks no row.
LEMMA CreateDirectMemorySafe ==
  ASSUME Inv, NEW w \in Workers, NEW a \in Actors, NEW s \in Scopes,
         NEW c \in Contents, NEW ts \in SUBSET Tags,
         CreateDirectMemory(w, a, s, c, ts)
  PROVE  Inv'
<1> DEFINE row == [status |-> "approved", scope |-> s, content |-> c,
                   tags |-> ts]
           r   == [Idle EXCEPT !.pc = "commit", !.op = "createDirect",
                               !.actor = a, !.frow = row]
<1>1. /\ tx' = [tx EXCEPT ![w] = r]
      /\ s \notin ReviewedScopes
      /\ c \notin Secrets
      /\ UNCHANGED <<db, locks>>
  BY DEF CreateDirectMemory, Receive
<1>2. /\ row \in FactRows
      /\ row.status = "approved"
      /\ row.scope \in Scopes \ ReviewedScopes
      /\ row.content \in Contents \ Secrets
  BY <1>1 DEF FactRows, FactStatuses
<1> HIDE DEF row
<1>3. /\ r \in Requests
      /\ r.pc = "commit"
      /\ r.op = "createDirect"
      /\ r.fid = NoFact
      /\ r.pid = NoProposal
      /\ r.frow = row
  BY <1>2 DEF Idle, Requests, Pcs, Ops, NoProposalRow, ProposalRows, TagLocks
<1> HIDE DEF r
<1>4. RequestComplete(r)
  BY <1>2, <1>3 DEF RequestComplete, ReviewOps, UserOps
<1>5. TypeOK'
  BY <1>1, <1>3 DEF Inv, TypeOK, db, locks
<1>6. RowsComplete'
  BY <1>1 DEF Inv, LockedRowsCurrent, RowsComplete, db
<1>7. LockedRowsOf(w)'
  <2>1. tx'[w] = r
    BY <1>1 DEF Inv, TypeOK
  <2> QED
    BY <2>1, <1>3 DEF LockedRowsOf, ReviewOps
<1>8. \A v \in Workers \ {w} : Undisturbed(v)
  BY <1>1, QuietUndisturbed DEF db, locks
<1> QED
  BY <1>1, <1>3, <1>4, <1>5, <1>6, <1>7, <1>8, StepSafe DEF Inv

\* The step of create_memory also materialises tags.
LEMMA ProposeCreateSafe ==
  ASSUME Inv, NEW w \in Workers, NEW a \in Actors, NEW s \in Scopes,
         NEW c \in Contents, NEW ts \in SUBSET Tags,
         NEW k \in Keys \cup {NoKey}, ProposeCreate(w, a, s, c, ts, k)
  PROVE  Inv'
<1> DEFINE row == [NoProposalRow EXCEPT
                     !.status = "pending", !.type = "create", !.scope = s,
                     !.content = c, !.tags = ts, !.key = k, !.creator = a]
           r == [Idle EXCEPT !.pc = "insert", !.op = "create", !.actor = a,
                             !.prow = row]
<1>1. /\ row \in ProposalRows
      /\ row.status = "pending"
      /\ CompleteProposal(row)
  BY DEF ProposalRows, NoProposalRow, CompleteProposal
<1>2. /\ tx' = [tx EXCEPT ![w] = r]
      /\ tagRows' = tagRows \cup ts
      /\ UNCHANGED <<fact, versions, proposal, factTags, factLock,
                     proposalLock>>
  BY DEF ProposeCreate, Receive
<1> HIDE DEF row
<1>3. r \in Requests
  BY <1>1, IdleTyped DEF Requests, Pcs, Ops
<1>4. /\ r.pc = "insert"
      /\ r.op = "create"
      /\ r.prow = row
  BY IdleTyped DEF Requests
<1> HIDE DEF r
<1>5. RequestComplete(r)
  BY <1>1, <1>4 DEF RequestComplete, ReviewOps, UserOps
<1>6. TypeOK'
  BY <1>2, <1>3 DEF Inv, TypeOK
<1>7. RowsComplete'
  BY <1>2 DEF Inv, LockedRowsCurrent, RowsComplete
<1>8. LockedRowsOf(w)'
  <2>1. tx'[w] = r
    BY <1>2 DEF Inv, TypeOK
  <2> QED
    BY <2>1, <1>4 DEF LockedRowsOf
<1>9. \A v \in Workers \ {w} : Undisturbed(v)
  BY <1>2, QuietUndisturbed
<1> QED
  BY <1>2, <1>3, <1>5, <1>6, <1>7, <1>8, <1>9, StepSafe DEF Inv

\* A submitted update or deletion keeps the invariant.
LEMMA ProposeChangeSafe ==
  ASSUME Inv, NEW w \in Workers, NEW a \in Actors, NEW f \in Facts,
         NEW op \in Ops, NEW c \in Contents \cup {NoContent},
         op = "update" => c \in Contents,
         NEW ts \in SUBSET Tags, NEW k \in Keys \cup {NoKey},
         ProposeChange(w, a, op, f, c, ts, k)
  PROVE  Inv'
<1> DEFINE r == [Idle EXCEPT !.pc = "readFact", !.op = op, !.actor = a,
                   !.fid = f, !.content = c, !.tags = ts, !.key = k]
<1>1. r \in Requests
  BY IdleTyped DEF Requests, Pcs
<1>2. RequestComplete(r)
  BY IdleTyped
  DEF ProposeChange, Requests, RequestComplete, ReviewOps, UserOps
<1> QED
  BY <1>1, <1>2, IdleTyped, ReceiveSafe
  DEF ProposeChange, ReviewOps, Requests

\* approve_proposal and apply_edited_proposal keep it as they start.
LEMMA StartReviewSafe ==
  ASSUME Inv, NEW w \in Workers, NEW a \in Actors, NEW p \in Proposals,
         NEW op \in Ops, NEW c \in Contents \cup {NoContent},
         op = "applyEdited" => c \in Contents,
         NEW ts \in SUBSET Tags, StartReview(w, a, op, p, c, ts)
  PROVE  Inv'
<1> DEFINE r == [Idle EXCEPT !.pc = "lockProposal", !.op = op, !.actor = a,
                   !.pid = p, !.content = c, !.tags = ts]
<1>1. r \in Requests
  BY IdleTyped DEF Requests, Pcs
<1>2. RequestComplete(r)
  BY IdleTyped DEF StartReview, Requests, RequestComplete, ReviewOps, UserOps
<1> QED
  BY <1>1, <1>2, IdleTyped, ReceiveSafe DEF StartReview, Requests

\* reject_proposal keeps it as it loads the proposal.
LEMMA StartRejectionSafe ==
  ASSUME Inv, NEW w \in Workers, NEW a \in Actors, NEW p \in Proposals,
         StartRejection(w, a, p)
  PROVE  Inv'
<1> DEFINE r == [Idle EXCEPT !.pc = "saveRejection", !.op = "reject",
                   !.actor = a, !.pid = p, !.prow = proposal[p]]
<1>1. r \in Requests
  BY IdleTyped DEF Requests, Pcs, Ops, Inv, TypeOK
<1>2. proposal[p].status = "pending" /\ CompleteProposal(proposal[p])
  BY DEF StartRejection, Inv, LockedRowsCurrent, RowsComplete
<1>3. RequestComplete(r)
  BY <1>2, IdleTyped DEF Requests, RequestComplete, ReviewOps, UserOps
<1> QED
  BY <1>1, <1>3, IdleTyped, ReceiveSafe
  DEF StartRejection, ReviewOps, Requests

\* So does a direct archive or delete as it starts.
LEMMA StartUserStatusSafe ==
  ASSUME Inv, NEW w \in Workers, NEW a \in Actors, NEW f \in Facts,
         NEW op \in UserOps,
         Receive(w, [Idle EXCEPT !.pc = "lockFact", !.op = op, !.actor = a,
                                 !.fid = f]),
         UNCHANGED <<db, locks>>
  PROVE  Inv'
<1> DEFINE r == [Idle EXCEPT !.pc = "lockFact", !.op = op, !.actor = a,
                   !.fid = f]
<1>1. r \in Requests
  BY IdleTyped DEF Requests, Pcs, Ops, UserOps
<1>2. RequestComplete(r)
  BY DEF Idle, RequestComplete, ReviewOps, UserOps
<1> QED
  BY <1>1, <1>2, ReceiveSafe DEF Idle, ReviewOps, UserOps

\* So does the dashboard as it starts to attach or detach a tag.
LEMMA StartTaggingSafe ==
  ASSUME Inv, NEW w \in Workers, NEW a \in Actors, NEW f \in Facts,
         NEW op \in TagOps, NEW tag \in Tags, StartTagging(w, a, op, f, tag)
  PROVE  Inv'
<1> DEFINE r == [Idle EXCEPT !.pc = "writeTag", !.op = op, !.actor = a,
                   !.fid = f, !.tags = {tag}]
<1>1. r \in Requests
  BY IdleTyped DEF Requests, Pcs, Ops, TagOps
<1>2. RequestComplete(r)
  BY IdleTyped DEF Requests, RequestComplete, TagOps, ReviewOps, UserOps
<1> QED
  BY <1>1, <1>2, IdleTyped, ReceiveSafe
  DEF StartTagging, TagOps, ReviewOps, Requests

\* So does the deletion of a tag as it starts.
LEMMA StartDeleteTagSafe ==
  ASSUME Inv, NEW w \in Workers, NEW a \in Actors, NEW tag \in Tags,
         StartDeleteTag(w, a, tag)
  PROVE  Inv'
<1> DEFINE r == [Idle EXCEPT !.pc = "deleteTag", !.op = "deleteTag",
                   !.actor = a, !.tags = {tag}]
<1>1. r \in Requests
  BY IdleTyped DEF Requests, Pcs, Ops
<1>2. RequestComplete(r)
  BY IdleTyped DEF Requests, RequestComplete, ReviewOps, UserOps
<1> QED
  BY <1>1, <1>2, IdleTyped, ReceiveSafe
  DEF StartDeleteTag, ReviewOps, Requests

\* Whatever request arrives, the invariant is kept.
LEMMA ArriveSafe ==
  ASSUME Inv, NEW w \in Workers, Arrive(w)
  PROVE  Inv'
<1> USE DEF Ops
<1> PICK a \in Actors : Arrive(w)!(a)
  BY DEF Arrive
<1>1. CASE Arrive(w)!(a)!1
  BY <1>1, CreateDirectMemorySafe, ProposeCreateSafe
<1>2. CASE Arrive(w)!(a)!2
  <2> PICK f \in Facts, k \in Keys \cup {NoKey} : Arrive(w)!(a)!2!(f, k)
    BY <1>2
  <2> QED
    BY ProposeChangeSafe
<1>3. CASE Arrive(w)!(a)!3
  BY <1>3, StartReviewSafe, StartRejectionSafe
<1>4. CASE Arrive(w)!(a)!4
  <2> PICK f \in Facts : Arrive(w)!(a)!4!(f)
    BY <1>4
  <2>1. CASE StartDashboardDelete(w, a, f)
    BY <2>1, StartUserStatusSafe DEF StartDashboardDelete, UserOps
  <2>2. CASE StartArchive(w, a, f)
    BY <2>2, StartUserStatusSafe DEF StartArchive, UserOps
  <2>3. CASE \E op \in TagOps, tag \in Tags : StartTagging(w, a, op, f, tag)
    BY <2>3, StartTaggingSafe
  <2> QED
    BY <2>1, <2>2, <2>3
<1>5. CASE Arrive(w)!(a)!5
  BY <1>5, StartDeleteTagSafe
<1> QED
  BY <1>1, <1>2, <1>3, <1>4, <1>5

-----------------------------------------------------------------------------
(* Steps of a request, up to its writes.                                   *)

\* The unlocked read of create_update_proposal builds a complete proposal.
LEMMA ReadFactSafe ==
  ASSUME Inv, NEW w \in Workers, ReadFact(w)
  PROVE  Inv'
<1> DEFINE t   == tx[w]
           row == [NoProposalRow EXCEPT
                     !.status = "pending", !.type = t.op,
                     !.scope = fact[t.fid].scope, !.fact = t.fid,
                     !.content = t.content, !.tags = t.tags,
                     !.key = t.key, !.creator = t.actor]
           r   == [Idle EXCEPT !.pc = "insert", !.op = t.op,
                               !.actor = t.actor, !.prow = row]
<1>1. /\ t \in Requests
      /\ t.op \in {"update", "delete"}
      /\ t.fid \in Facts
      /\ t.op = "update" => t.content \in Contents
  BY DEF Inv, TypeOK, LockedRowsCurrent, RequestComplete, ReadFact
<1>2. CASE tx' = [tx EXCEPT ![w] = Idle]
  BY <1>2, ReturnSafe DEF ReadFact
<1>3. CASE tx' = [tx EXCEPT ![w] = r]
  <2>1. /\ fact[t.fid].scope \in Scopes \cup {NoActor}
        /\ t.content \in Contents \cup {NoContent}
        /\ t.tags \in SUBSET Tags
        /\ t.key \in Keys \cup {NoKey}
        /\ t.actor \in Actors \cup {NoActor}
    BY <1>1 DEF Inv, TypeOK, Requests, FactRows
  <2>2. /\ row \in ProposalRows
        /\ row.status = "pending"
        /\ row.type = t.op
        /\ row.content = t.content
        /\ row.fact = t.fid
    BY <1>1, <2>1 DEF ProposalRows, NoProposalRow
  <2>3. CompleteProposal(row)
    BY <1>1, <2>2 DEF CompleteProposal
  <2> HIDE DEF row
  <2>4. /\ r \in Requests
        /\ r.pc = "insert"
        /\ r.op = t.op
        /\ r.prow = row
    BY <1>1, <2>2, IdleTyped DEF Requests, Pcs
  <2> HIDE DEF r
  <2>5. RequestComplete(r)
    BY <1>1, <2>2, <2>3, <2>4 DEF RequestComplete, ReviewOps, UserOps
  <2>6. UNCHANGED <<db, locks>>
    BY DEF ReadFact
  <2>7. TypeOK'
    BY <1>3, <2>4, <2>6 DEF Inv, TypeOK, db, locks
  <2>8. RowsComplete'
    BY <2>6 DEF Inv, LockedRowsCurrent, RowsComplete, db
  <2>9. LockedRowsOf(w)'
    <3>1. tx'[w] = r
      BY <1>3 DEF Inv, TypeOK
    <3> QED
      BY <3>1, <1>1, <2>4 DEF LockedRowsOf
  <2>10. \A v \in Workers \ {w} : Undisturbed(v)
    BY <2>6, QuietUndisturbed DEF db, locks
  <2> QED
    BY <1>3, <2>4, <2>5, <2>7, <2>8, <2>9, <2>10, StepSafe DEF Inv
<1> QED
  BY <1>2, <1>3 DEF ReadFact

\* Nobody has locked the row that an insert fills.
LEMMA InsertProposalSafe ==
  ASSUME Inv, NEW w \in Workers, InsertProposal(w)
  PROVE  Inv'
<1>1. CASE UNCHANGED proposal
  BY <1>1, ReturnSafe DEF InsertProposal, db
<1>2. ASSUME NEW p \in Proposals, proposal[p].status = "none",
             proposal' = [proposal EXCEPT ![p] = tx[w].prow]
      PROVE  Inv'
  <2>1. tx[w] \in Requests /\ CompleteProposal(tx[w].prow)
    BY DEF Inv, TypeOK, LockedRowsCurrent, RequestComplete, InsertProposal
  <2>2. tx[w].prow \in ProposalRows
    BY <2>1 DEF Requests
  <2>3. TypeOK'
    BY <1>2, <2>2, IdleTyped DEF Inv, TypeOK, InsertProposal, locks
  <2>4. RowsComplete'
    BY <1>2, <2>1
    DEF Inv, TypeOK, LockedRowsCurrent, RowsComplete, InsertProposal
  <2>5. ASSUME NEW v \in Workers \ {w}
        PROVE  Undisturbed(v)
    <3>1. RequestComplete(tx[v]) /\ LockedRowsOf(v)
      BY DEF Inv, LockedRowsCurrent
    <3>2. tx[v].op \in ReviewOps
            /\ tx[v].pc \in {"lockFact", "stage", "commit"}
          => proposal'[tx[v].pid] = proposal[tx[v].pid]
      BY <3>1, <1>2
      DEF Inv, TypeOK, LockedRowsOf, RequestComplete, CanBeApplied
    <3> QED
      BY <3>1, <3>2 DEF LockedRowsOf, Undisturbed, InsertProposal, locks
  <2>6. tx' = [tx EXCEPT ![w] = Idle] /\ tx'[w] = Idle
    BY DEF Inv, TypeOK, InsertProposal
  <2> QED
    BY <2>3, <2>4, <2>5, <2>6, IdleTyped, IdleComplete, IdleHoldsNothing,
       StepSafe DEF Inv
<1> QED
  BY <1>1, <1>2 DEF InsertProposal

\* What _get_locked_proposal returns is current and passed its checks.
LEMMA LockProposalSafe ==
  ASSUME Inv, NEW w \in Workers, LockProposal(w)
  PROVE  Inv'
<1> DEFINE p == tx[w].pid
           pc == IF proposal[p].type = "create" THEN "commit" ELSE "lockFact"
           t == [tx[w] EXCEPT !.prow = proposal[p], !.fid = proposal[p].fact,
                              !.pc = pc]
<1>1. /\ tx[w] \in Requests
      /\ tx[w].op \in ReviewOps
      /\ p \in Proposals
      /\ tx[w].op = "applyEdited" => tx[w].content \in Contents
      /\ proposal[p] \in ProposalRows
  BY DEF Inv, TypeOK, LockedRowsCurrent, RequestComplete, LockProposal
<1>2. CASE tx' = [tx EXCEPT ![w] = Idle] /\ UNCHANGED proposalLock
  BY <1>2, ReturnSafe DEF LockProposal, locks
<1>3. CASE /\ CanBeApplied(t)
           /\ tx' = [tx EXCEPT ![w] = t]
           /\ proposalLock' = [proposalLock EXCEPT ![p] = w]
  <2>0. /\ pc \in Pcs
        /\ proposal[p].fact \in Facts \cup {NoFact}
    BY <1>1 DEF ProposalRows, Pcs
  <2> HIDE DEF pc
  <2>1. /\ t \in Requests
        /\ t.pc = pc
        /\ t.op = tx[w].op
        /\ t.pid = p
        /\ t.content = tx[w].content
        /\ t.prow = proposal[p]
        /\ t.fid = proposal[p].fact
    BY <1>1, <2>0 DEF Requests
  <2> HIDE DEF t
  <2>2. CompleteProposal(proposal[p]) /\ proposal[p].status = "pending"
    BY <1>1, <1>3, <2>1
    DEF Inv, LockedRowsCurrent, RowsComplete, CanBeApplied
  <2>3. RequestComplete(t)
    BY <1>1, <2>1, <2>2 DEF RequestComplete, ReviewOps, UserOps, pc
  <2>4. UNCHANGED <<fact, versions, proposal, tagRows, factTags, factLock>>
    BY DEF LockProposal, db
  <2>5. TypeOK'
    BY <1>1, <1>3, <2>1, <2>4 DEF Inv, TypeOK
  <2>6. RowsComplete'
    BY <2>4 DEF Inv, LockedRowsCurrent, RowsComplete
  <2>7. LockedRowsOf(w)'
    <3>1. tx'[w] = t /\ proposalLock'[p] = w
      BY <1>1, <1>3 DEF Inv, TypeOK
    <3>2. /\ t.pc = "commit" => t.fid = NoFact
          /\ t.pc # "stage"
          /\ t.prow.type = "create" => t.pc = "commit"
      BY <2>1, <2>2 DEF CompleteProposal, pc
    <3> QED
      BY <1>3, <2>1, <2>4, <3>1, <3>2 DEF LockedRowsOf
  <2>8. ASSUME NEW v \in Workers \ {w}
        PROVE  Undisturbed(v)
    <3>1. LockedRowsOf(v) /\ v # NoWorker
      BY ReviewAssumption DEF Inv, LockedRowsCurrent
    <3>2. proposalLock[p] # v
      BY <3>1 DEF LockProposal
    <3> QED
      BY <1>1, <1>3, <2>4, <3>1, <3>2
      DEF LockedRowsOf, Undisturbed, Inv, TypeOK
  <2> QED
    BY <1>3, <2>1, <2>3, <2>5, <2>6, <2>7, <2>8, StepSafe DEF Inv
<1> QED
  BY <1>2, <1>3 DEF LockProposal

\* So is what _get_locked_fact_for_proposal returns.
LEMMA LockFactSafe ==
  ASSUME Inv, NEW w \in Workers, LockFact(w)
  PROVE  Inv'
<1> DEFINE f == tx[w].fid
           r == [tx[w] EXCEPT !.pc = "stage", !.frow = fact[f]]
<1>1. /\ tx[w] \in Requests
      /\ RequestComplete(tx[w])
      /\ LockedRowsOf(w)
      /\ tx[w].pc = "lockFact"
  BY DEF Inv, TypeOK, LockedRowsCurrent, LockFact
<1>2. f \in Facts /\ fact[f] \in FactRows
  <2>1. CASE tx[w].op \in ReviewOps
    <3>1. proposal[tx[w].pid].status = "pending"
      BY <1>1, <2>1 DEF LockedRowsOf, CanBeApplied
    <3>2. CompleteProposal(proposal[tx[w].pid])
      BY <1>1, <2>1, <3>1
      DEF Inv, LockedRowsCurrent, RowsComplete, RequestComplete
    <3> QED
      BY <1>1, <2>1, <3>2 DEF LockedRowsOf, CompleteProposal, Inv, TypeOK
  <2>2. CASE tx[w].op \in UserOps
    BY <1>1, <2>2 DEF RequestComplete, Inv, TypeOK
  <2> QED
    BY <1>1, <2>1, <2>2 DEF RequestComplete
<1>3. CASE Rollback(w)
  BY <1>3, RollbackSafe
<1>4. CASE /\ FactAccepts(tx[w], fact[f])
           /\ tx' = [tx EXCEPT ![w] = r]
           /\ factLock' = [factLock EXCEPT ![f] = w]
           /\ UNCHANGED <<db, proposalLock>>
  <2>1. /\ r \in Requests
        /\ r.pc = "stage"
        /\ r.frow = fact[f]
        /\ r.op = tx[w].op
        /\ r.actor = tx[w].actor
        /\ r.pid = tx[w].pid
        /\ r.fid = f
        /\ r.content = tx[w].content
        /\ r.prow = tx[w].prow
    BY <1>1, <1>2 DEF Requests, Pcs
  <2> HIDE DEF r
  <2>2. RequestComplete(r)
    BY <1>1, <2>1 DEF RequestComplete
  <2>3. TypeOK'
    BY <1>4, <1>2, <2>1 DEF Inv, TypeOK, db
  <2>4. RowsComplete'
    BY <1>4 DEF Inv, LockedRowsCurrent, RowsComplete, db
  <2>5. LockedRowsOf(w)'
    <3>1. tx'[w] = r /\ factLock'[f] = w
      BY <1>2, <1>4 DEF Inv, TypeOK
    <3>2. FactAccepts(r, fact[f])
      BY <1>4, <2>1 DEF FactAccepts
    <3>3. CanBeApplied(tx[w]) => CanBeApplied(r)
      BY <2>1 DEF CanBeApplied, FinalContent
    <3> QED
      BY <1>1, <1>4, <2>1, <3>1, <3>2, <3>3 DEF LockedRowsOf, db
  <2>6. ASSUME NEW v \in Workers \ {w}
        PROVE  Undisturbed(v)
    <3>1. LockedRowsOf(v) /\ v # NoWorker
      BY ReviewAssumption DEF Inv, LockedRowsCurrent
    <3>2. factLock[f] # v
      BY <3>1 DEF LockFact
    <3> QED
      BY <1>2, <1>4, <3>1, <3>2 DEF LockedRowsOf, Undisturbed, Inv, TypeOK, db
  <2> QED
    BY <1>4, <2>1, <2>2, <2>3, <2>4, <2>5, <2>6, StepSafe DEF Inv
<1> QED
  BY <1>3, <1>4 DEF LockFact

\* Under the lock on its memory, a request reads the next version number.
LEMMA StageVersionSafe ==
  ASSUME Inv, NEW w \in Workers, StageVersion(w)
  PROVE  Inv'
<1> DEFINE n == Len(versions[tx[w].fid]) + 1
           r == [tx[w] EXCEPT !.pc = "commit", !.number = n]
<1>1. /\ tx[w] \in Requests
      /\ RequestComplete(tx[w])
      /\ LockedRowsOf(w)
      /\ tx[w].pc = "stage"
  BY DEF Inv, TypeOK, LockedRowsCurrent, StageVersion
<1>2. tx[w].fid \in Facts
  <2>1. CASE tx[w].op \in ReviewOps
    <3>1. proposal[tx[w].pid].status = "pending"
      BY <1>1, <2>1 DEF LockedRowsOf, CanBeApplied
    <3>2. CompleteProposal(proposal[tx[w].pid])
      BY <1>1, <2>1, <3>1
      DEF Inv, LockedRowsCurrent, RowsComplete, RequestComplete
    <3> QED
      BY <1>1, <2>1, <3>2 DEF LockedRowsOf, CompleteProposal
  <2>2. CASE tx[w].op \in UserOps
    BY <1>1, <2>2 DEF RequestComplete
  <2> QED
    BY <1>1, <2>1, <2>2 DEF RequestComplete
<1>3. n \in Nat
  BY <1>2 DEF Inv, TypeOK
<1> HIDE DEF n
<1>4. /\ tx' = [tx EXCEPT ![w] = r]
      /\ UNCHANGED <<db, locks>>
  BY DEF StageVersion, n, Inv, TypeOK
<1>5. /\ r \in Requests
      /\ r.pc = "commit"
      /\ r.number = n
      /\ r.frow = tx[w].frow
      /\ r.op = tx[w].op
      /\ r.actor = tx[w].actor
      /\ r.pid = tx[w].pid
      /\ r.fid = tx[w].fid
      /\ r.content = tx[w].content
      /\ r.prow = tx[w].prow
  BY <1>1, <1>3 DEF Requests, Pcs
<1> HIDE DEF r
<1>6. RequestComplete(r)
  BY <1>1, <1>5 DEF RequestComplete
<1>7. TypeOK'
  BY <1>4, <1>5 DEF Inv, TypeOK, db, locks
<1>8. RowsComplete'
  BY <1>4 DEF Inv, LockedRowsCurrent, RowsComplete, db
<1>9. LockedRowsOf(w)'
  <2>1. tx'[w] = r
    BY <1>4 DEF Inv, TypeOK
  <2>2. FactAccepts(tx[w], tx[w].frow) => FactAccepts(r, r.frow)
    BY <1>5 DEF FactAccepts
  <2>3. CanBeApplied(tx[w]) => CanBeApplied(r)
    BY <1>5 DEF CanBeApplied, FinalContent
  <2> QED
    BY <1>1, <1>4, <1>5, <2>1, <2>2, <2>3 DEF LockedRowsOf, db, locks, n
<1>10. \A v \in Workers \ {w} : Undisturbed(v)
  BY <1>4, QuietUndisturbed DEF db, locks
<1> QED
  BY <1>4, <1>5, <1>6, <1>7, <1>8, <1>9, <1>10, StepSafe DEF Inv

\* What a transaction has yet to write of tags are rows of tags and mappings.
LEMMA NeededTyped ==
  ASSUME Inv, NEW w \in Workers
  PROVE  Needed(tx[w]) \subseteq TagLocks
<1> DEFINE t == tx[w]
<1>1. /\ t.tags \in SUBSET Tags
      /\ t.frow.tags \in SUBSET Tags
      /\ t.prow.tags \in SUBSET Tags
  BY DEF Inv, TypeOK, Requests, FactRows, ProposalRows
<1> HIDE DEF t
<1>2. FinalTags(t) \in SUBSET Tags /\ UpdatedTags(t) \in SUBSET Tags
  BY <1>1 DEF FinalTags, UpdatedTags
<1>3. \A tags \in SUBSET Tags : SyncLocks(tags) \subseteq TagLocks
  BY DEF SyncLocks, TagLocks, NewTag, KeptTag
<1>4. {GoneTag(g) : g \in t.tags \cap tagRows} \subseteq TagLocks
  BY <1>1 DEF TagLocks, GoneTag
<1>5. Mappings \subseteq TagLocks
  BY DEF Mappings
<1>6. Needed(t) \subseteq TagLocks
  <2>1. SyncLocks(t.frow.tags) \subseteq TagLocks
    BY <1>1, <1>3
  <2>2. SyncLocks(FinalTags(t)) \subseteq TagLocks
    BY <1>2, <1>3
  <2>3. SyncLocks(UpdatedTags(t)) \subseteq TagLocks
    BY <1>2, <1>3
  <2> QED
    BY <1>4, <1>5, <2>1, <2>2, <2>3, ZenonT(30) DEF Needed
<1> QED
  BY <1>6 DEF t

\* Tags and mappings are no rows that a request has read and relies on.
LEMMA WriteTagRowSafe ==
  ASSUME Inv, NEW w \in Workers, WriteTagRow(w)
  PROVE  Inv'
<1> PICK l \in Needed(tx[w]) : /\ tx' = [tx EXCEPT ![w].held = @ \cup {l}]
                               /\ UNCHANGED <<db, locks>>
  BY DEF WriteTagRow
<1> DEFINE r == [tx[w] EXCEPT !.held = @ \cup {l}]
<1>1. /\ tx[w] \in Requests
      /\ RequestComplete(tx[w])
      /\ LockedRowsOf(w)
      /\ l \in TagLocks
  BY NeededTyped DEF Inv, TypeOK, LockedRowsCurrent
<1>2. tx' = [tx EXCEPT ![w] = r]
  BY DEF Inv, TypeOK
<1>3. /\ r \in Requests
      /\ r.pc = tx[w].pc
      /\ r.number = tx[w].number
      /\ r.frow = tx[w].frow
      /\ r.op = tx[w].op
      /\ r.actor = tx[w].actor
      /\ r.pid = tx[w].pid
      /\ r.fid = tx[w].fid
      /\ r.content = tx[w].content
      /\ r.prow = tx[w].prow
  BY <1>1 DEF Requests
<1> HIDE DEF r
<1>4. RequestComplete(r)
  BY <1>1, <1>3 DEF RequestComplete
<1>5. TypeOK'
  BY <1>2, <1>3 DEF Inv, TypeOK, db, locks
<1>6. RowsComplete'
  BY DEF Inv, LockedRowsCurrent, RowsComplete, db
<1>7. LockedRowsOf(w)'
  <2>1. tx'[w] = r
    BY <1>2 DEF Inv, TypeOK
  <2>2. FactAccepts(tx[w], tx[w].frow) => FactAccepts(r, r.frow)
    BY <1>3 DEF FactAccepts
  <2>3. CanBeApplied(tx[w]) => CanBeApplied(r)
    BY <1>3 DEF CanBeApplied, FinalContent
  <2> QED
    BY <1>1, <1>3, <2>1, <2>2, <2>3 DEF LockedRowsOf, db, locks
<1>8. \A v \in Workers \ {w} : Undisturbed(v)
  BY QuietUndisturbed DEF db, locks
<1> QED
  BY <1>2, <1>3, <1>4, <1>5, <1>6, <1>7, <1>8, StepSafe DEF Inv

-----------------------------------------------------------------------------
(* Writes.                                                                 *)

\* What a review knows of the proposal it has locked.
LEMMA LockedProposal ==
  ASSUME Inv, NEW w \in Workers, tx[w].op \in ReviewOps,
         tx[w].pc \in {"lockFact", "stage", "commit"}
  PROVE  LET t == tx[w] IN
         /\ t.pid \in Proposals
         /\ t.prow = proposal[t.pid]
         /\ t.prow \in ProposalRows
         /\ t.prow.status = "pending"
         /\ CompleteProposal(t.prow)
         /\ t.fid = t.prow.fact
         /\ FinalTags(t) \in SUBSET Tags
         /\ FinalContent(t) \in Contents \cup {NoContent}
         /\ t.prow.type # "delete" => FinalContent(t) \in Contents
         /\ t.actor \in Actors \cup {NoActor}
<1>1. /\ tx[w] \in Requests
      /\ RequestComplete(tx[w])
      /\ LockedRowsOf(w)
  BY DEF Inv, TypeOK, LockedRowsCurrent
<1>2. /\ tx[w].pid \in Proposals
      /\ tx[w].prow = proposal[tx[w].pid]
      /\ tx[w].prow \in ProposalRows
      /\ tx[w].prow.status = "pending"
      /\ tx[w].fid = tx[w].prow.fact
  BY <1>1
  DEF RequestComplete, LockedRowsOf, CanBeApplied, Inv, TypeOK
<1>3. CompleteProposal(tx[w].prow)
  BY <1>2 DEF Inv, LockedRowsCurrent, RowsComplete
<1>4. FinalTags(tx[w]) \in SUBSET Tags
  BY <1>1, <1>2 DEF FinalTags, Requests, ProposalRows
<1>5. FinalContent(tx[w]) \in Contents \cup {NoContent}
  BY <1>1, <1>2 DEF FinalContent, Requests, ProposalRows
<1>6. tx[w].prow.type # "delete" => FinalContent(tx[w]) \in Contents
  BY <1>1, <1>3 DEF FinalContent, RequestComplete, CompleteProposal
<1>7. tx[w].actor \in Actors \cup {NoActor}
  BY <1>1 DEF Requests
<1> QED
  BY <1>2, <1>3, <1>4, <1>5, <1>6, <1>7

\* What a request knows of the memory it has locked.
LEMMA LockedFact ==
  ASSUME Inv, NEW w \in Workers, tx[w].pc \in {"stage", "commit"},
         tx[w].fid # NoFact
  PROVE  LET t == tx[w] IN
         /\ t.fid \in Facts
         /\ t.frow = fact[t.fid]
         /\ t.frow \in FactRows
         /\ t.frow.status \in {"approved", "archived"}
         /\ t.frow.content \in Contents
         /\ t.pc = "commit" => t.number = Len(versions[t.fid]) + 1
<1>1. /\ tx[w] \in Requests
      /\ LockedRowsOf(w)
  BY DEF Inv, TypeOK, LockedRowsCurrent
<1>2. tx[w].fid \in Facts
  BY <1>1 DEF Requests
<1>3. /\ tx[w].frow = fact[tx[w].fid]
      /\ FactAccepts(tx[w], tx[w].frow)
      /\ tx[w].pc = "commit" =>
           tx[w].number = Len(versions[tx[w].fid]) + 1
  BY <1>1 DEF LockedRowsOf
<1>4. tx[w].frow.status \in {"approved", "archived"}
  BY <1>3 DEF FactAccepts
<1>5. tx[w].frow \in FactRows /\ tx[w].frow.content \in Contents
  BY <1>2, <1>3, <1>4 DEF Inv, TypeOK, LockedRowsCurrent, RowsComplete
<1> QED
  BY <1>2, <1>3, <1>4, <1>5

\* A lock has one holder.
LEMMA OneHolder ==
  ASSUME Inv, NEW w \in Workers, NEW v \in Workers \ {w}
  PROVE  /\ /\ tx[w].op \in ReviewOps /\ tx[v].op \in ReviewOps
            /\ tx[w].pc \in {"lockFact", "stage", "commit"}
            /\ tx[v].pc \in {"lockFact", "stage", "commit"}
            => tx[w].pid # tx[v].pid
         /\ /\ tx[w].pc \in {"stage", "commit"} /\ tx[w].fid # NoFact
            /\ tx[v].pc \in {"stage", "commit"} /\ tx[v].fid # NoFact
            => tx[w].fid # tx[v].fid
  BY DEF Inv, LockedRowsCurrent, LockedRowsOf

\* A step that fills the row of an unused memory disturbs nobody who holds
\* other locks.
LEMMA UnusedUndisturbed ==
  ASSUME Inv, NEW v \in Workers, NEW f \in Facts, fact[f].status = "none",
         \A g \in Facts \ {f} : /\ fact'[g] = fact[g]
                                /\ versions'[g] = versions[g]
  PROVE  tx[v].pc \in {"stage", "commit"} /\ tx[v].fid # NoFact =>
           /\ fact'[tx[v].fid] = fact[tx[v].fid]
           /\ versions'[tx[v].fid] = versions[tx[v].fid]
  BY LockedFact

\* The row _mark_proposal_applied saves is a complete proposal.
LEMMA AppliedRowTyped ==
  ASSUME Inv, NEW w \in Workers, tx[w].op \in ReviewOps,
         tx[w].pc \in {"lockFact", "stage", "commit"}, NEW f \in Facts
  PROVE  LET t == tx[w]
             row == AppliedRow(t, f)
         IN
         /\ row \in ProposalRows
         /\ row.status = "applied"
         /\ t.prow.type # "delete" => CompleteProposal(row)
<1> DEFINE t == tx[w]
           row == AppliedRow(t, f)
<1>1. /\ t.prow \in ProposalRows
      /\ FinalTags(t) \in SUBSET Tags
      /\ FinalContent(t) \in Contents \cup {NoContent}
      /\ t.prow.type # "delete" => FinalContent(t) \in Contents
      /\ t.actor \in Actors \cup {NoActor}
  BY LockedProposal
<1> HIDE DEF t
<1>2. /\ row \in ProposalRows
      /\ row.status = "applied"
      /\ row.type = t.prow.type
      /\ row.fact = f
      /\ row.content = FinalContent(t)
  BY <1>1 DEF AppliedRow, ProposalRows
<1>3. t.prow.type # "delete" => CompleteProposal(row)
  BY <1>1, <1>2 DEF CompleteProposal
<1> QED
  BY <1>2, <1>3 DEF t

\* The direct creation of a memory fills a row nobody has locked.
LEMMA CommitDirectSafe ==
  ASSUME Inv, NEW w \in Workers, CommitDirect(w)
  PROVE  Inv'
<1> DEFINE t == tx[w]
           version == [proposal |-> NoProposal, status |-> "approved",
                       content |-> t.frow.content]
<1>1. /\ t.op = "createDirect"
      /\ tagRows' = tagRows \cup InsertedTags(t)
      /\ Finish(w)
      /\ UNCHANGED proposal
  BY DEF CommitDirect
<1>2. PICK f \in Facts :
        /\ fact[f].status = "none"
        /\ fact' = [fact EXCEPT ![f] = t.frow]
        /\ versions' = [versions EXCEPT ![f] = <<version>>]
        /\ factTags' = [factTags EXCEPT ![f] = t.frow.tags]
  BY DEF CommitDirect
<1>3. t \in Requests /\ RequestComplete(t)
  BY DEF Inv, TypeOK, LockedRowsCurrent
<1>4. /\ t.frow \in FactRows
      /\ t.frow.content \in Contents
      /\ t.frow.tags \in SUBSET Tags
      /\ version \in VersionRows
  BY <1>1, <1>3
  DEF RequestComplete, Requests, FactRows, FactStatuses, VersionRows
<1>5. <<version>> \in Seq(VersionRows)
  BY <1>4
<1> HIDE DEF version
<1>6. TypeOK'
  BY <1>1, <1>2, <1>4, <1>5, FinishTyped DEF Inv, TypeOK, InsertedTags
<1>7. RowsComplete'
  BY <1>1, <1>2, <1>4 DEF Inv, TypeOK, LockedRowsCurrent, RowsComplete
<1>8. ASSUME NEW v \in Workers \ {w}
      PROVE  Undisturbed(v)
  <2>1. tx[v].pc \in {"stage", "commit"} /\ tx[v].fid # NoFact =>
          /\ fact'[tx[v].fid] = fact[tx[v].fid]
          /\ versions'[tx[v].fid] = versions[tx[v].fid]
    BY <1>2, UnusedUndisturbed DEF Inv, TypeOK
  <2> QED
    BY <1>1, <2>1, FinishFreesOwn DEF Undisturbed, Finish
<1>9. tx' = [tx EXCEPT ![w] = Idle] /\ tx'[w] = Idle
  BY <1>1 DEF Finish, Inv, TypeOK
<1> QED
  BY <1>6, <1>7, <1>8, <1>9, IdleTyped, IdleComplete, IdleHoldsNothing,
     StepSafe DEF Inv

\* Applying a CREATE proposal fills a row nobody has locked.
LEMMA CommitCreateSafe ==
  ASSUME Inv, NEW w \in Workers, CommitCreate(w)
  PROVE  Inv'
<1> DEFINE t == tx[w]
<1>1. /\ t.pc = "commit"
      /\ t.op \in ReviewOps
      /\ t.prow.type = "create"
      /\ tagRows' = tagRows \cup InsertedTags(t)
      /\ Finish(w)
  BY DEF CommitCreate
<1>2. /\ t.pid \in Proposals
      /\ t.prow \in ProposalRows
      /\ FinalTags(t) \in SUBSET Tags
      /\ FinalContent(t) \in Contents
  BY <1>1, LockedProposal
<1> DEFINE frow == [status |-> "approved", scope |-> t.prow.scope,
                    content |-> FinalContent(t), tags |-> FinalTags(t)]
           version == [proposal |-> t.pid, status |-> "approved",
                       content |-> FinalContent(t)]
<1>3. PICK f \in Facts :
        /\ fact[f].status = "none"
        /\ fact' = [fact EXCEPT ![f] = frow]
        /\ versions' = [versions EXCEPT ![f] = <<version>>]
        /\ factTags' = [factTags EXCEPT ![f] = FinalTags(t)]
        /\ proposal' = [proposal EXCEPT ![t.pid] = AppliedRow(t, f)]
  BY DEF CommitCreate
<1>4. /\ frow \in FactRows
      /\ frow.content \in Contents
      /\ version \in VersionRows
  BY <1>2 DEF FactRows, FactStatuses, VersionRows, ProposalRows
<1>5. <<version>> \in Seq(VersionRows)
  BY <1>4
<1>6. /\ AppliedRow(t, f) \in ProposalRows
      /\ CompleteProposal(AppliedRow(t, f))
  BY <1>1, AppliedRowTyped
<1> HIDE DEF frow, version
<1>7. TypeOK'
  BY <1>1, <1>2, <1>3, <1>4, <1>5, <1>6, FinishTyped
  DEF Inv, TypeOK, InsertedTags
<1>8. RowsComplete'
  BY <1>2, <1>3, <1>4, <1>6 DEF Inv, TypeOK, LockedRowsCurrent, RowsComplete
<1>9. ASSUME NEW v \in Workers \ {w}
      PROVE  Undisturbed(v)
  <2>1. tx[v].pc \in {"stage", "commit"} /\ tx[v].fid # NoFact =>
          /\ fact'[tx[v].fid] = fact[tx[v].fid]
          /\ versions'[tx[v].fid] = versions[tx[v].fid]
    BY <1>3, UnusedUndisturbed DEF Inv, TypeOK
  <2>2. tx[v].op \in ReviewOps
          /\ tx[v].pc \in {"lockFact", "stage", "commit"}
        => proposal'[tx[v].pid] = proposal[tx[v].pid]
    BY <1>1, <1>3, OneHolder, FinishFreesOwn DEF Inv, TypeOK, Finish
  <2> QED
    BY <1>1, <2>1, <2>2, FinishFreesOwn DEF Undisturbed, Finish
<1>10. tx' = [tx EXCEPT ![w] = Idle] /\ tx'[w] = Idle
  BY <1>1 DEF Finish, Inv, TypeOK
<1> QED
  BY <1>7, <1>8, <1>9, <1>10, IdleTyped, IdleComplete, IdleHoldsNothing,
     StepSafe DEF Inv

\* The memory a locked request saves, and the version it adds.
LEMMA ChangedFactTyped ==
  ASSUME Inv, NEW w \in Workers, tx[w].pc = "commit", tx[w].fid # NoFact
  PROVE  LET t   == tx[w]
             row == ChangedFact(t)
             v   == [proposal |-> t.pid, status |-> row.status,
                     content |-> row.content]
         IN
         /\ row \in FactRows
         /\ row.status \in FactStatuses
         /\ row.content \in Contents
         /\ v \in VersionRows
<1> DEFINE t == tx[w]
           row == ChangedFact(t)
<1>1. /\ t \in Requests
      /\ RequestComplete(t)
  BY DEF Inv, TypeOK, LockedRowsCurrent
<1>2. /\ t.frow \in FactRows
      /\ t.frow.status \in FactStatuses
      /\ t.frow.content \in Contents
  BY LockedFact DEF FactStatuses
<1>3. t.op \in ReviewOps =>
        /\ FinalTags(t) \in SUBSET Tags
        /\ t.prow.type # "delete" => FinalContent(t) \in Contents
  BY LockedProposal
<1>4. t.op \in ReviewOps \cup UserOps
  BY <1>1 DEF RequestComplete
<1> HIDE DEF t
<1>5. /\ row \in FactRows
      /\ row.status \in FactStatuses
      /\ row.content \in Contents
  <2>1. CASE t.op = "archiveUser"
    <3>1. row = [t.frow EXCEPT !.status = "archived"]
      BY <2>1 DEF ChangedFact, ReviewOps
    <3> QED
      BY <1>2, <3>1 DEF FactRows, FactStatuses
  <2>2. CASE \/ t.op = "deleteUser"
             \/ t.op \in ReviewOps /\ t.prow.type = "delete"
    <3>1. row = [t.frow EXCEPT !.status = "deleted"]
      BY <2>2 DEF ChangedFact, ReviewOps
    <3> QED
      BY <1>2, <3>1 DEF FactRows, FactStatuses
  <2>3. CASE t.op \in ReviewOps /\ t.prow.type # "delete"
    <3>1. row = [t.frow EXCEPT
                   !.content = FinalContent(t), !.tags = UpdatedTags(t)]
      BY <1>2, <2>3 DEF ChangedFact, FactRows, ReviewOps
    <3> QED
      BY <1>2, <1>3, <2>3, <3>1 DEF FactRows, UpdatedTags
  <2> QED
    BY <1>4, <2>1, <2>2, <2>3 DEF UserOps
<1>6. [proposal |-> t.pid, status |-> row.status, content |-> row.content]
        \in VersionRows
  BY <1>1, <1>5 DEF VersionRows, Requests
<1> QED
  BY <1>5, <1>6 DEF t

\* Saving the memory that w has locked disturbs nobody else's memory.
LEMMA SavedFactSafe ==
  ASSUME Inv, NEW w \in Workers, tx[w].pc = "commit", tx[w].fid # NoFact,
         fact' = [fact EXCEPT ![tx[w].fid] = ChangedFact(tx[w])],
         AddVersion(tx[w], ChangedFact(tx[w]))
  PROVE  /\ fact' \in [Facts -> FactRows]
         /\ versions' \in [Facts -> Seq(VersionRows)]
         /\ \A f \in Facts :
              fact'[f].status # "none" => fact'[f].content \in Contents
         /\ \A v \in Workers \ {w} :
              tx[v].pc \in {"stage", "commit"} /\ tx[v].fid # NoFact =>
                /\ fact'[tx[v].fid] = fact[tx[v].fid]
                /\ versions'[tx[v].fid] = versions[tx[v].fid]
<1> DEFINE t == tx[w]
           row == ChangedFact(t)
           e == [proposal |-> t.pid, status |-> row.status,
                 content |-> row.content]
<1>1. /\ row \in FactRows
      /\ row.content \in Contents
      /\ e \in VersionRows
      /\ t.fid \in Facts
  BY ChangedFactTyped, LockedFact
<1>2. versions' = [versions EXCEPT ![t.fid] = Append(versions[t.fid], e)]
  BY <1>1 DEF AddVersion, Inv, TypeOK
<1> HIDE DEF e, row
<1>3. fact' \in [Facts -> FactRows]
  BY <1>1 DEF Inv, TypeOK, row
<1>4. versions' \in [Facts -> Seq(VersionRows)]
  BY <1>1, <1>2 DEF Inv, TypeOK
<1>5. \A f \in Facts : fact'[f].status # "none" => fact'[f].content \in Contents
  BY <1>1 DEF Inv, TypeOK, LockedRowsCurrent, RowsComplete, row
<1>6. \A v \in Workers \ {w} :
        tx[v].pc \in {"stage", "commit"} /\ tx[v].fid # NoFact =>
          /\ fact'[tx[v].fid] = fact[tx[v].fid]
          /\ versions'[tx[v].fid] = versions[tx[v].fid]
  BY <1>1, <1>2, OneHolder, LockedFact DEF Inv, TypeOK
<1> QED
  BY <1>3, <1>4, <1>5, <1>6

\* Applying an UPDATE or DELETE writes rows nobody else has locked.
LEMMA CommitChangeSafe ==
  ASSUME Inv, NEW w \in Workers, CommitChange(w)
  PROVE  Inv'
<1> DEFINE t == tx[w]
           row == ChangedFact(t)
           upd == t.prow.type = "update"
           prow == IF upd THEN AppliedRow(t, t.fid)
                   ELSE [t.prow EXCEPT !.status = "applied",
                                       !.reviewer = t.actor]
<1>1. /\ t.pc = "commit"
      /\ t.op \in ReviewOps
      /\ t.prow.type # "create"
      /\ fact' = [fact EXCEPT ![t.fid] = row]
      /\ AddVersion(t, row)
      /\ proposal' = [proposal EXCEPT ![t.pid] = prow]
      /\ tagRows' = tagRows \cup InsertedTags(t)
      /\ factTags' = IF upd THEN [factTags EXCEPT ![t.fid] = row.tags]
                     ELSE factTags
      /\ Finish(w)
  BY DEF CommitChange
<1>2. /\ t.pid \in Proposals
      /\ t.prow \in ProposalRows
      /\ CompleteProposal(t.prow)
      /\ t.actor \in Actors \cup {NoActor}
      /\ t.fid \in Facts
  BY <1>1, LockedProposal DEF CompleteProposal
<1>3. t.fid # NoFact
  BY <1>2, ReviewAssumption
<1>4. prow \in ProposalRows /\ CompleteProposal(prow)
  <2>1. CASE upd
    BY <1>1, <1>2, <2>1, AppliedRowTyped
  <2>2. CASE ~upd
    BY <1>1, <1>2, <2>2 DEF ProposalRows, CompleteProposal
  <2> QED
    BY <2>1, <2>2
<1>5. row.tags \in SUBSET Tags
  BY <1>1, <1>3, ChangedFactTyped DEF FactRows
<1> HIDE DEF prow, row
<1>6. /\ fact' \in [Facts -> FactRows]
      /\ versions' \in [Facts -> Seq(VersionRows)]
      /\ \A f \in Facts :
           fact'[f].status # "none" => fact'[f].content \in Contents
      /\ \A v \in Workers \ {w} :
           tx[v].pc \in {"stage", "commit"} /\ tx[v].fid # NoFact =>
             /\ fact'[tx[v].fid] = fact[tx[v].fid]
             /\ versions'[tx[v].fid] = versions[tx[v].fid]
  BY <1>1, <1>3, SavedFactSafe DEF row
<1>7. TypeOK'
  <2>1. proposal' \in [Proposals -> ProposalRows]
    BY <1>1, <1>2, <1>4 DEF Inv, TypeOK
  <2>2. tagRows' \subseteq Tags /\ factTags' \in [Facts -> SUBSET Tags]
    BY <1>1, <1>5 DEF Inv, TypeOK, InsertedTags
  <2> QED
    BY <1>1, <1>6, <2>1, <2>2, FinishTyped DEF TypeOK
<1>8. RowsComplete'
  BY <1>1, <1>2, <1>4, <1>6
  DEF Inv, TypeOK, LockedRowsCurrent, RowsComplete
<1>9. ASSUME NEW v \in Workers \ {w}
      PROVE  Undisturbed(v)
  <2>1. tx[v].op \in ReviewOps
          /\ tx[v].pc \in {"lockFact", "stage", "commit"}
        => proposal'[tx[v].pid] = proposal[tx[v].pid]
    BY <1>1, OneHolder, FinishFreesOwn DEF Inv, TypeOK, Finish
  <2> QED
    BY <1>1, <1>6, <2>1, FinishFreesOwn DEF Undisturbed, Finish
<1>10. tx' = [tx EXCEPT ![w] = Idle] /\ tx'[w] = Idle
  BY <1>1 DEF Finish, Inv, TypeOK
<1> QED
  BY <1>7, <1>8, <1>9, <1>10, IdleTyped, IdleComplete, IdleHoldsNothing,
     StepSafe DEF Inv

\* So does a direct archive or delete.
LEMMA CommitUserStatusSafe ==
  ASSUME Inv, NEW w \in Workers, CommitUserStatus(w)
  PROVE  Inv'
<1>1. /\ tx[w].pc = "commit"
      /\ tx[w].op \in UserOps
      /\ fact' = [fact EXCEPT ![tx[w].fid] = ChangedFact(tx[w])]
      /\ AddVersion(tx[w], ChangedFact(tx[w]))
      /\ Finish(w)
      /\ UNCHANGED <<proposal, tagRows, factTags>>
  BY DEF CommitUserStatus
<1>2. tx[w].fid # NoFact
  BY <1>1, ReviewAssumption DEF Inv, LockedRowsCurrent, RequestComplete
<1>3. /\ fact' \in [Facts -> FactRows]
      /\ versions' \in [Facts -> Seq(VersionRows)]
      /\ \A f \in Facts :
           fact'[f].status # "none" => fact'[f].content \in Contents
      /\ \A v \in Workers \ {w} :
           tx[v].pc \in {"stage", "commit"} /\ tx[v].fid # NoFact =>
             /\ fact'[tx[v].fid] = fact[tx[v].fid]
             /\ versions'[tx[v].fid] = versions[tx[v].fid]
  BY <1>1, <1>2, SavedFactSafe
<1>4. TypeOK'
  BY <1>1, <1>3, FinishTyped DEF Inv, TypeOK
<1>5. RowsComplete'
  BY <1>1, <1>3 DEF Inv, LockedRowsCurrent, RowsComplete
<1>6. \A v \in Workers \ {w} : Undisturbed(v)
  BY <1>1, <1>3, FinishFreesOwn DEF Undisturbed, Finish
<1>7. tx' = [tx EXCEPT ![w] = Idle] /\ tx'[w] = Idle
  BY <1>1 DEF Finish, Inv, TypeOK
<1> QED
  BY <1>4, <1>5, <1>6, <1>7, IdleTyped, IdleComplete, IdleHoldsNothing,
     StepSafe DEF Inv

\* A rejection waits for the lock, so it changes no row a review has read.
LEMMA SaveRejectionSafe ==
  ASSUME Inv, NEW w \in Workers, SaveRejection(w)
  PROVE  Inv'
<1> DEFINE t == tx[w]
           row == [t.prow EXCEPT !.status = "rejected", !.reviewer = t.actor]
<1>1. /\ t \in Requests
      /\ CompleteProposal(t.prow)
      /\ t.pc = "saveRejection"
  BY DEF Inv, TypeOK, LockedRowsCurrent, RequestComplete, SaveRejection
<1>2. row \in ProposalRows /\ CompleteProposal(row)
  BY <1>1 DEF Requests, ProposalRows, CompleteProposal
<1>3. /\ proposalLock[t.pid] = NoWorker
      /\ proposal' = [proposal EXCEPT ![t.pid] = row]
      /\ tx' = [tx EXCEPT ![w] = Idle]
      /\ UNCHANGED <<fact, versions, tagRows, factTags, locks>>
  BY DEF SaveRejection
<1> HIDE DEF row
<1>4. TypeOK'
  BY <1>2, <1>3, IdleTyped DEF Inv, TypeOK, locks
<1>5. RowsComplete'
  BY <1>2, <1>3 DEF Inv, TypeOK, LockedRowsCurrent, RowsComplete
<1>6. ASSUME NEW v \in Workers \ {w}
      PROVE  Undisturbed(v)
  <2>1. LockedRowsOf(v) /\ RequestComplete(tx[v]) /\ v # NoWorker
    BY ReviewAssumption DEF Inv, LockedRowsCurrent
  <2> QED
    BY <1>3, <2>1
    DEF LockedRowsOf, RequestComplete, Undisturbed, Inv, TypeOK, locks
<1>7. tx'[w] = Idle
  BY <1>3 DEF Inv, TypeOK
<1> QED
  BY <1>3, <1>4, <1>5, <1>6, <1>7, IdleTyped, IdleComplete, IdleHoldsNothing,
     StepSafe DEF Inv

\* Attaching, detaching and deleting a tag touch no row that is locked.
LEMMA WriteTagSafe ==
  ASSUME Inv, NEW w \in Workers, AttachTag(w) \/ DetachTag(w) \/ DeleteTag(w)
  PROVE  Inv'
<1>1. /\ tx' = [tx EXCEPT ![w] = Idle]
      /\ UNCHANGED <<fact, versions, proposal, locks>>
  BY DEF AttachTag, DetachTag, DeleteTag
<1>2. tx[w].tags \in SUBSET Tags /\ tx[w].fid \in Facts \cup {NoFact}
  BY DEF Inv, TypeOK, Requests
<1>3. /\ tagRows' \subseteq Tags
      /\ factTags' \in [Facts -> SUBSET Tags]
  <2>1. CASE AttachTag(w) \/ DetachTag(w)
    BY <1>2, <2>1 DEF AttachTag, DetachTag, Inv, TypeOK
  <2>2. CASE DeleteTag(w)
    BY <1>2, <2>2 DEF DeleteTag, Inv, TypeOK
  <2> QED
    BY <2>1, <2>2
<1>4. TypeOK'
  BY <1>1, <1>3, IdleTyped DEF Inv, TypeOK, locks
<1>5. RowsComplete'
  BY <1>1 DEF Inv, LockedRowsCurrent, RowsComplete
<1>6. \A v \in Workers \ {w} : Undisturbed(v)
  BY <1>1, QuietUndisturbed DEF locks
<1>7. tx'[w] = Idle
  BY <1>1 DEF Inv, TypeOK
<1> QED
  BY <1>1, <1>4, <1>5, <1>6, <1>7, IdleTyped, IdleComplete, IdleHoldsNothing,
     StepSafe DEF Inv

\* Every next database call of a request keeps the invariant.
LEMMA AdvanceSafe ==
  ASSUME Inv, NEW w \in Workers, Advance(w) \/ Abort(w)
  PROVE  Inv'
  BY ReadFactSafe, InsertProposalSafe, LockProposalSafe, LockFactSafe,
     WriteTagRowSafe, StageVersionSafe, CommitDirectSafe, CommitCreateSafe,
     CommitChangeSafe, SaveRejectionSafe, CommitUserStatusSafe, WriteTagSafe,
     RollbackSafe
  DEF Advance, Abort, OutOfRows, DeadlockVictim

\* A new tag leaves every request where it is.
LEMMA CreateTagSafe ==
  ASSUME Inv, NEW a \in Actors, NEW tag \in Tags, CreateTag(a, tag)
  PROVE  Inv'
<1>1. UNCHANGED <<fact, versions, proposal, factTags, factLock, proposalLock,
                  tx>>
  BY DEF CreateTag, locks
<1>2. TypeOK'
  BY <1>1 DEF CreateTag, Inv, TypeOK
<1>3. LockedRowsCurrent'
  BY <1>1 DEF Inv, LockedRowsCurrent, RowsComplete, LockedRowsOf
<1> QED
  BY <1>2, <1>3 DEF Inv

\* The empty tables satisfy the invariant.
LEMMA InvInit == Init => Inv
<1> SUFFICES ASSUME Init PROVE Inv
  OBVIOUS
<1>1. TypeOK
  <2>1. NoFactRow \in FactRows /\ NoProposalRow \in ProposalRows
    BY DEF NoFactRow, FactRows, NoProposalRow, ProposalRows
  <2> QED
    BY <2>1, IdleTyped DEF Init, TypeOK
<1>2. RowsComplete
  BY DEF Init, RowsComplete, NoFactRow, NoProposalRow
<1>3. \A w \in Workers : RequestComplete(tx[w])
  BY IdleComplete DEF Init
<1>4. \A w \in Workers : LockedRowsOf(w)
  BY DEF Init, LockedRowsOf, Idle, ReviewOps
<1> QED
  BY <1>1, <1>2, <1>3, <1>4 DEF Inv, LockedRowsCurrent

\* Every step, of any request, keeps it.
LEMMA InvStep == Inv /\ [Next]_vars => Inv'
<1> SUFFICES ASSUME Inv, [Next]_vars PROVE Inv'
  OBVIOUS
<1>1. CASE Next
  BY <1>1, CreateTagSafe, ArriveSafe, AdvanceSafe DEF Next
<1>2. CASE UNCHANGED vars
  BY <1>2
  DEF vars, Inv, TypeOK, LockedRowsCurrent, RowsComplete, LockedRowsOf
<1> QED
  BY <1>1, <1>2

\* Every reachable state is well typed, and between a SELECT ... FOR UPDATE of
\* memory_service and the end of its transaction the row read stays the row
\* stored.
THEOREM LockedRows == Spec => []Inv
  BY InvInit, InvStep, PTL DEF Spec

\* The tables, the row locks and the requests being served keep their types.
THEOREM TypeCorrect == Spec => []TypeOK
  BY LockedRows, PTL DEF Inv

\* No approval, archive or delete acts on a stale row: see LockedRowsCurrent.
THEOREM NoStaleRow == Spec => []LockedRowsCurrent
  BY LockedRows, PTL DEF Inv

-----------------------------------------------------------------------------
(* Histories.  A step that writes a memory adds one version of it, on one  *)
(* of four grounds.                                                        *)

\* What no write changes of a proposal.
SameProposal(r, s) ==
  r.key = s.key /\ r.type = s.type /\ r.scope = s.scope /\ r.creator = s.creator

\* The version e of f was made by an admin's review that found e.proposal
\* pending, leaves it applied, and did what the row it leaves says...
Reviewed(f, e) ==
  /\ e.proposal \in Proposals
  /\ proposal[e.proposal].status = "pending"
  /\ \E r \in ProposalRows :
       /\ proposal' = [proposal EXCEPT ![e.proposal] = r]
       /\ r.status = "applied"
       /\ r.reviewer \in Admins
       /\ r.fact = f
       /\ SameProposal(r, proposal[e.proposal])
       /\ IF r.type = "delete" THEN e.status = "deleted"
          ELSE e.status = "approved" /\ e.content = r.content

\* ...or by a request that touches no proposal.
Unreviewed(e) == e.proposal = NoProposal /\ UNCHANGED proposal

\* Without a review, a memory is born in a scope that asks for none...
Born(f, e) ==
  /\ versions[f] = <<>>
  /\ e.status = "approved"
  /\ e.content \notin Secrets
  /\ \/ Reviewed(f, e)
     \/ Unreviewed(e) /\ fact'[f].scope \notin ReviewedScopes

Amended(f, e) ==
  /\ fact[f].status = "approved"
  /\ e.status = "approved"
  /\ e.content \notin Secrets
  /\ Reviewed(f, e)

\* ...and only a user's own memory is archived or deleted.
Archived(f, e) ==
  /\ fact[f].status = "approved"
  /\ fact[f].scope \in Actors
  /\ e.status = "archived"
  /\ e.content = fact[f].content
  /\ Unreviewed(e)

Deleted(f, e) ==
  /\ fact[f].status \in {"approved", "archived"}
  /\ e.status = "deleted"
  /\ e.content = fact[f].content
  /\ \/ Reviewed(f, e)
     \/ Unreviewed(e) /\ fact[f].scope \in Actors

NewVersion(f, e) ==
  /\ Born(f, e) \/ Amended(f, e) \/ Archived(f, e) \/ Deleted(f, e)
  /\ \E row \in FactRows :
       /\ fact' = [fact EXCEPT ![f] = row]
       /\ row.status = e.status
       /\ row.content = e.content
       /\ versions[f] # <<>> => row.scope = fact[f].scope
  /\ versions' = [versions EXCEPT ![f] = Append(versions[f], e)]

\* A memory without versions is one that was never inserted.
LEMMA UnusedHasNoHistory ==
  ASSUME Inv, HistoryMatchesFact, NEW f \in Facts, fact[f].status = "none"
  PROVE  versions[f] = <<>>
<1> SUFFICES ASSUME versions[f] # <<>> PROVE FALSE
  OBVIOUS
<1>1. versions[f] \in Seq(VersionRows)
  BY DEF Inv, TypeOK
<1>2. versions[f][Len(versions[f])] \in VersionRows
  BY <1>1
<1>3. fact[f].status = versions[f][Len(versions[f])].status
  BY DEF HistoryMatchesFact
<1> QED
  BY <1>2, <1>3 DEF VersionRows, FactStatuses

\* The first version of a memory is a history of one.
LEMMA AppendToEmpty ==
  ASSUME NEW e \in VersionRows
  PROVE  Append(<<>>, e) = <<e>>
  OBVIOUS

\* The commit of a direct creation opens one history and leaves the others.
LEMMA CommitDirectWrites ==
  ASSUME Inv, HistoryMatchesFact, NEW w \in Workers, CommitDirect(w)
  PROVE  \E f \in Facts, e \in VersionRows : NewVersion(f, e)
<1> DEFINE row == tx[w].frow
           e == [proposal |-> NoProposal, status |-> "approved",
                 content |-> row.content]
<1>1. PICK f \in Facts :
        /\ fact[f].status = "none"
        /\ fact' = [fact EXCEPT ![f] = row]
        /\ versions' = [versions EXCEPT ![f] = <<e>>]
  BY DEF CommitDirect
<1>2. /\ row \in FactRows
      /\ row.status = "approved"
      /\ row.scope \notin ReviewedScopes
      /\ row.content \in Contents
      /\ row.content \notin Secrets
      /\ UNCHANGED proposal
  BY DEF CommitDirect, Inv, TypeOK, Requests, LockedRowsCurrent,
         RequestComplete
<1> HIDE DEF row
<1>3. /\ e \in VersionRows
      /\ row.status = e.status
      /\ row.content = e.content
      /\ e.status = "approved"
      /\ e.proposal = NoProposal
  BY <1>2 DEF FactStatuses, VersionRows
<1> HIDE DEF e
<1>4. versions[f] = <<>> /\ Append(versions[f], e) = <<e>>
  BY <1>1, <1>3, UnusedHasNoHistory, AppendToEmpty
<1>5. fact'[f].scope \notin ReviewedScopes
  BY <1>1, <1>2 DEF Inv, TypeOK
<1>6. Born(f, e)
  BY <1>2, <1>3, <1>4, <1>5 DEF Born, Unreviewed
<1> QED
  BY <1>1, <1>2, <1>3, <1>4, <1>6 DEF NewVersion

\* The row a review saves is the proposal it locked, with an admin as its
\* reviewer and the text the review ended with.
LEMMA AppliedRowSays ==
  ASSUME Inv, NEW w \in Workers, tx[w].op \in ReviewOps,
         tx[w].pc \in {"lockFact", "stage", "commit"}, NEW f \in Facts
  PROVE  LET t == tx[w]
             row == AppliedRow(t, f)
         IN
         /\ t.actor \in Admins
         /\ row.reviewer = t.actor
         /\ row.fact = f
         /\ row.content = FinalContent(t)
         /\ row.type = t.prow.type
         /\ SameProposal(row, proposal[t.pid])
<1> DEFINE t == tx[w]
<1>1. t.prow \in ProposalRows /\ t.prow = proposal[t.pid]
  BY LockedProposal
<1>2. t.actor \in Admins
  BY DEF Inv, LockedRowsCurrent, LockedRowsOf, CanBeApplied, CanApproveMemory,
         IsAdmin
<1> HIDE DEF t
<1>3. /\ AppliedRow(t, f).reviewer = t.actor
      /\ AppliedRow(t, f).fact = f
      /\ AppliedRow(t, f).content = FinalContent(t)
      /\ AppliedRow(t, f).type = t.prow.type
      /\ SameProposal(AppliedRow(t, f), t.prow)
  BY <1>1 DEF AppliedRow, ProposalRows, SameProposal
<1> QED
  BY <1>1, <1>2, <1>3 DEF t

\* Applying a CREATE proposal opens one history with that proposal.
LEMMA CommitCreateWrites ==
  ASSUME Inv, HistoryMatchesFact, NEW w \in Workers, CommitCreate(w)
  PROVE  \E f \in Facts, e \in VersionRows : NewVersion(f, e)
<1> DEFINE t == tx[w]
           row == [status |-> "approved", scope |-> t.prow.scope,
                   content |-> FinalContent(t), tags |-> FinalTags(t)]
           e == [proposal |-> t.pid, status |-> "approved",
                 content |-> FinalContent(t)]
<1>1. PICK f \in Facts :
        /\ fact[f].status = "none"
        /\ fact' = [fact EXCEPT ![f] = row]
        /\ versions' = [versions EXCEPT ![f] = <<e>>]
        /\ proposal' = [proposal EXCEPT ![t.pid] = AppliedRow(t, f)]
  BY DEF CommitCreate
<1>2. /\ t.pc = "commit"
      /\ t.op \in ReviewOps
      /\ t.prow.type = "create"
  BY DEF CommitCreate
<1>3. /\ t.pid \in Proposals
      /\ proposal[t.pid].status = "pending"
      /\ t.prow \in ProposalRows
      /\ FinalTags(t) \in SUBSET Tags
      /\ FinalContent(t) \in Contents
  BY <1>2, LockedProposal
<1>4. FinalContent(t) \notin Secrets
  BY <1>2 DEF Inv, LockedRowsCurrent, LockedRowsOf, CanBeApplied
<1>5. /\ row \in FactRows
      /\ e \in VersionRows
      /\ row.status = e.status
      /\ row.content = e.content
      /\ e.status = "approved"
      /\ e.content = FinalContent(t)
      /\ e.proposal = t.pid
  BY <1>3 DEF FactRows, FactStatuses, VersionRows, ProposalRows
<1>6. /\ AppliedRow(t, f) \in ProposalRows
      /\ AppliedRow(t, f).status = "applied"
      /\ AppliedRow(t, f).reviewer \in Admins
      /\ AppliedRow(t, f).fact = f
      /\ AppliedRow(t, f).type = "create"
      /\ AppliedRow(t, f).content = FinalContent(t)
      /\ SameProposal(AppliedRow(t, f), proposal[t.pid])
  BY <1>2, AppliedRowTyped, AppliedRowSays
<1> HIDE DEF row, e
<1>7. versions[f] = <<>> /\ Append(versions[f], e) = <<e>>
  BY <1>1, <1>5, UnusedHasNoHistory, AppendToEmpty
<1>8. Reviewed(f, e)
  BY <1>1, <1>3, <1>5, <1>6 DEF Reviewed
<1>9. Born(f, e)
  BY <1>4, <1>5, <1>7, <1>8 DEF Born
<1> QED
  BY <1>1, <1>5, <1>7, <1>9 DEF NewVersion

\* A memory never leaves its scope.
LEMMA ChangedFactScope ==
  ASSUME NEW t, t.frow \in FactRows
  PROVE  ChangedFact(t).scope = t.frow.scope
BY DEF ChangedFact, FactRows

\* Applying an UPDATE or DELETE proposal amends or deletes one history.
LEMMA CommitChangeWrites ==
  ASSUME Inv, NEW w \in Workers, CommitChange(w)
  PROVE  \E f \in Facts, e \in VersionRows : NewVersion(f, e)
<1> DEFINE t == tx[w]
           row == ChangedFact(t)
           e == [proposal |-> t.pid, status |-> row.status,
                 content |-> row.content]
           prow == IF t.prow.type = "update" THEN AppliedRow(t, t.fid)
                   ELSE [t.prow EXCEPT !.status = "applied",
                                       !.reviewer = t.actor]
<1>1. /\ t.pc = "commit"
      /\ t.op \in ReviewOps
      /\ t.prow.type # "create"
      /\ fact' = [fact EXCEPT ![t.fid] = row]
      /\ AddVersion(t, row)
      /\ proposal' = [proposal EXCEPT ![t.pid] = prow]
  BY DEF CommitChange
<1>2. /\ t.pid \in Proposals
      /\ proposal[t.pid].status = "pending"
      /\ t.prow \in ProposalRows
      /\ t.fid \in Facts
      /\ t.actor \in Actors \cup {NoActor}
  BY <1>1, LockedProposal DEF CompleteProposal
<1>3. t.fid # NoFact
  BY <1>2, ReviewAssumption
<1>4. /\ prow \in ProposalRows
      /\ prow.status = "applied"
      /\ prow.reviewer \in Admins
      /\ prow.fact = t.fid
      /\ prow.type = t.prow.type
      /\ SameProposal(prow, proposal[t.pid])
      /\ t.prow.type # "delete" => prow.content = FinalContent(t)
  <2>1. /\ t.actor \in Admins
        /\ t.prow = proposal[t.pid]
        /\ t.fid = t.prow.fact
    BY <1>1, <1>2, AppliedRowSays, LockedProposal
  <2>2. CASE t.prow.type = "update"
    BY <1>1, <1>2, <2>1, <2>2, AppliedRowTyped, AppliedRowSays
  <2>3. CASE t.prow.type # "update"
    <3>1. t.prow.type = "delete"
      BY <1>1, <1>2, <2>3 DEF ProposalRows
    <3> QED
      BY <1>2, <2>1, <2>3, <3>1 DEF ProposalRows, SameProposal
  <2> QED
    BY <2>2, <2>3
<1>5. /\ row \in FactRows
      /\ e \in VersionRows
      /\ e.status = row.status
      /\ e.content = row.content
      /\ e.proposal = t.pid
  BY <1>1, <1>3, ChangedFactTyped
<1>6. versions' = [versions EXCEPT ![t.fid] = Append(versions[t.fid], e)]
  BY <1>1, <1>2 DEF AddVersion, Inv, TypeOK
<1>7. /\ t.frow = fact[t.fid]
      /\ t.frow \in FactRows
      /\ t.frow.status = "approved"
      /\ t.prow.type # "delete" => FinalContent(t) \notin Secrets
      /\ t.op # "archiveUser" /\ t.op # "deleteUser"
  <2>1. LockedRowsOf(w)
    BY DEF Inv, LockedRowsCurrent
  <2>2. t.op # "archiveUser" /\ t.op # "deleteUser" /\ t.op \notin UserOps
    BY <1>1 DEF ReviewOps, UserOps
  <2>3. t.prow.type # "delete" => FinalContent(t) \notin Secrets
    BY <1>1, <2>1 DEF LockedRowsOf, CanBeApplied
  <2>4. t.frow = fact[t.fid] /\ t.frow.status = "approved"
    BY <1>1, <1>3, <2>1, <2>2 DEF LockedRowsOf, FactAccepts
  <2> QED
    BY <1>1, <1>3, <2>2, <2>3, <2>4, LockedFact
<1>8. Amended(t.fid, e) \/ Deleted(t.fid, e)
  <2>1. ASSUME IF prow.type = "delete" THEN e.status = "deleted"
               ELSE e.status = "approved" /\ e.content = prow.content
        PROVE  Reviewed(t.fid, e)
    <3> HIDE DEF prow, e, row
    <3> QED
      BY <1>1, <1>2, <1>4, <1>5, <2>1 DEF Reviewed
  <2>2. CASE t.prow.type = "delete"
    <3>1. row = [t.frow EXCEPT !.status = "deleted"]
      BY <1>1, <1>7, <2>2 DEF ChangedFact
    <3>2. row.status = "deleted" /\ row.content = t.frow.content
      BY <1>7, <3>1 DEF FactRows
    <3>3. Reviewed(t.fid, e)
      BY <1>4, <1>5, <2>1, <2>2, <3>2
    <3>4. /\ fact[t.fid].status = "approved"
          /\ e.status = "deleted"
          /\ e.content = fact[t.fid].content
      BY <1>5, <1>7, <3>2
    <3> QED
      BY <3>3, <3>4 DEF Deleted
  <2>3. CASE t.prow.type # "delete"
    <3>1. row = [t.frow EXCEPT
                   !.content = FinalContent(t), !.tags = UpdatedTags(t)]
      BY <1>7, <2>3 DEF ChangedFact, FactRows
    <3>2. row.status = "approved" /\ row.content = FinalContent(t)
      BY <1>7, <3>1 DEF FactRows
    <3>3. Reviewed(t.fid, e)
      BY <1>4, <1>5, <2>1, <2>3, <3>2
    <3> QED
      BY <1>5, <1>7, <2>3, <3>2, <3>3 DEF Amended
  <2> QED
    BY <2>2, <2>3
<1>9. row.scope = fact[t.fid].scope
  BY <1>7, ChangedFactScope
<1> HIDE DEF row, e, prow
<1> QED
  BY <1>1, <1>2, <1>5, <1>6, <1>8, <1>9 DEF NewVersion

\* A direct archive or delete adds one version that no proposal made.
LEMMA CommitUserStatusWrites ==
  ASSUME Inv, NEW w \in Workers, CommitUserStatus(w)
  PROVE  \E f \in Facts, e \in VersionRows : NewVersion(f, e)
<1> DEFINE t == tx[w]
           row == ChangedFact(t)
           e == [proposal |-> t.pid, status |-> row.status,
                 content |-> row.content]
<1>1. /\ t.pc = "commit"
      /\ t.op \in UserOps
      /\ fact' = [fact EXCEPT ![t.fid] = row]
      /\ AddVersion(t, row)
      /\ UNCHANGED proposal
  BY DEF CommitUserStatus
<1>2. t.pid = NoProposal /\ t.fid \in Facts /\ t.fid # NoFact
  BY <1>1, ReviewAssumption DEF Inv, LockedRowsCurrent, RequestComplete
<1>3. /\ row \in FactRows
      /\ e \in VersionRows
      /\ e.status = row.status
      /\ e.content = row.content
      /\ e.proposal = t.pid
  BY <1>1, <1>2, ChangedFactTyped
<1>4. versions' = [versions EXCEPT ![t.fid] = Append(versions[t.fid], e)]
  BY <1>1, <1>2 DEF AddVersion, Inv, TypeOK
<1>5. /\ t.frow = fact[t.fid]
      /\ t.frow \in FactRows
      /\ FactAccepts(t, t.frow)
      /\ t.frow.scope \in Actors
  <2>1. LockedRowsOf(w)
    BY DEF Inv, LockedRowsCurrent
  <2> QED
    BY <1>1, <1>2, <2>1, LockedFact
    DEF LockedRowsOf, FactAccepts, ReviewOps, UserOps
<1>6. Unreviewed(e)
  BY <1>1, <1>2, <1>3 DEF Unreviewed
<1>7. Archived(t.fid, e) \/ Deleted(t.fid, e)
  <2>1. CASE t.op = "archiveUser"
    <3>1. t.frow.status = "approved"
      BY <1>5, <2>1 DEF FactAccepts, ReviewOps
    <3>2. row = [t.frow EXCEPT !.status = "archived"]
      BY <2>1 DEF ChangedFact, ReviewOps
    <3>3. row.status = "archived" /\ row.content = t.frow.content
      BY <1>5, <3>2 DEF FactRows
    <3> QED
      BY <1>3, <1>5, <1>6, <3>1, <3>3 DEF Archived
  <2>2. CASE t.op = "deleteUser"
    <3>1. t.frow.status \in {"approved", "archived"}
      BY <1>5, <2>2 DEF FactAccepts
    <3>2. row = [t.frow EXCEPT !.status = "deleted"]
      BY <2>2 DEF ChangedFact
    <3>3. row.status = "deleted" /\ row.content = t.frow.content
      BY <1>5, <3>2 DEF FactRows
    <3> QED
      BY <1>3, <1>5, <1>6, <3>1, <3>3 DEF Deleted
  <2> QED
    BY <1>1, <2>1, <2>2 DEF UserOps
<1>8. row.scope = fact[t.fid].scope
  BY <1>5, ChangedFactScope
<1> HIDE DEF row, e
<1> QED
  BY <1>1, <1>2, <1>3, <1>4, <1>7, <1>8 DEF NewVersion

\* A request that arrives writes nothing but missing tags.
LEMMA ArriveQuiet ==
  ASSUME NEW w \in Workers, Arrive(w)
  PROVE  /\ UNCHANGED <<fact, versions, proposal, factTags>>
         /\ tagRows \subseteq tagRows'
<1>1. PICK a \in Actors : Arrive(w)!(a)
  BY DEF Arrive
<1>2. CASE Arrive(w)!(a)!1
  BY <1>2 DEF CreateDirectMemory, ProposeCreate, db
<1>3. CASE Arrive(w)!(a)!2
  BY <1>3 DEF ProposeChange, db
<1>4. CASE Arrive(w)!(a)!3
  BY <1>4 DEF StartReview, StartRejection, db
<1>5. CASE Arrive(w)!(a)!4
  BY <1>5 DEF StartDashboardDelete, StartArchive, StartTagging, db
<1>6. CASE Arrive(w)!(a)!5
  BY <1>6 DEF StartDeleteTag, db
<1> QED
  BY <1>1, <1>2, <1>3, <1>4, <1>5, <1>6

\* All that a step does to the histories and to decided proposals.
LEMMA HistoryStep ==
  ASSUME Inv, HistoryMatchesFact, [Next]_vars
  PROVE  \/ \E f \in Facts, e \in VersionRows : NewVersion(f, e)
         \/ /\ UNCHANGED <<fact, versions>>
            /\ \/ UNCHANGED proposal
               \/ \E p \in Proposals, r \in ProposalRows :
                    /\ proposal' = [proposal EXCEPT ![p] = r]
                    /\ \/ proposal[p].status = "none" /\ r.status = "pending"
                       \/ r.status = "rejected"
<1>1. ASSUME NEW a \in Actors, NEW tag \in Tags, CreateTag(a, tag)
      PROVE  UNCHANGED <<fact, versions, proposal>>
  BY <1>1 DEF CreateTag
<1>2. ASSUME NEW w \in Workers, Arrive(w)
      PROVE  UNCHANGED <<fact, versions, proposal>>
  BY <1>2, ArriveQuiet
<1>3. ASSUME NEW w \in Workers, Advance(w) \/ Abort(w)
      PROVE  \/ UNCHANGED <<fact, versions, proposal>>
             \/ CommitDirect(w) \/ CommitCreate(w) \/ CommitChange(w)
             \/ CommitUserStatus(w) \/ InsertProposal(w) \/ SaveRejection(w)
  BY <1>3
  DEF Advance, Abort, OutOfRows, DeadlockVictim, Rollback, ReadFact,
      LockProposal, LockFact, WriteTagRow, StageVersion, AttachTag, DetachTag,
      DeleteTag, db
<1>4. ASSUME NEW w \in Workers, InsertProposal(w)
      PROVE  /\ UNCHANGED <<fact, versions>>
             /\ \/ UNCHANGED proposal
                \/ \E p \in Proposals, r \in ProposalRows :
                     /\ proposal' = [proposal EXCEPT ![p] = r]
                     /\ proposal[p].status = "none"
                     /\ r.status = "pending"
  <2>1. tx[w].prow \in ProposalRows /\ tx[w].prow.status = "pending"
    BY <1>4
    DEF InsertProposal, Inv, TypeOK, Requests, LockedRowsCurrent,
        RequestComplete
  <2> QED
    BY <1>4, <2>1 DEF InsertProposal
<1>5. ASSUME NEW w \in Workers, SaveRejection(w)
      PROVE  /\ UNCHANGED <<fact, versions>>
             /\ \/ UNCHANGED proposal
                \/ \E p \in Proposals, r \in ProposalRows :
                     /\ proposal' = [proposal EXCEPT ![p] = r]
                     /\ r.status = "rejected"
  <2> DEFINE r == [tx[w].prow EXCEPT !.status = "rejected",
                                     !.reviewer = tx[w].actor]
  <2>1. tx[w] \in Requests
    BY DEF Inv, TypeOK
  <2>2. r \in ProposalRows /\ r.status = "rejected"
    BY <2>1 DEF Requests, ProposalRows
  <2>3. /\ proposal' = [proposal EXCEPT ![tx[w].pid] = r]
        /\ UNCHANGED <<fact, versions>>
    BY <1>5 DEF SaveRejection
  <2> HIDE DEF r
  <2>4. CASE tx[w].pid \in Proposals
    BY <2>2, <2>3, <2>4
  <2>5. CASE tx[w].pid \notin Proposals
    BY <2>3, <2>5 DEF Inv, TypeOK
  <2> QED
    BY <2>3, <2>4, <2>5
<1>6. CASE UNCHANGED vars
  BY <1>6 DEF vars
<1> QED
  BY <1>1, <1>2, <1>3, <1>4, <1>5, <1>6, CommitDirectWrites,
     CommitCreateWrites, CommitChangeWrites, CommitUserStatusWrites DEF Next

-----------------------------------------------------------------------------
(* What follows for histories and reviews.                                 *)

\* One more element, at the end; the others stay.
LEMMA AppendedHistory ==
  ASSUME Inv, NEW f \in Facts, NEW e \in VersionRows, NewVersion(f, e)
  PROVE  /\ versions'[f] # <<>>
         /\ Len(versions'[f]) = Len(versions[f]) + 1
         /\ versions'[f][Len(versions'[f])] = e
         /\ \A i \in 1..Len(versions[f]) : versions'[f][i] = versions[f][i]
         /\ \A g \in Facts \ {f} : versions'[g] = versions[g]
<1>1. versions[f] \in Seq(VersionRows)
  BY DEF Inv, TypeOK
<1>2. versions'[f] = Append(versions[f], e)
  BY DEF NewVersion, Inv, TypeOK
<1>3. \A g \in Facts \ {f} : versions'[g] = versions[g]
  BY DEF NewVersion, Inv, TypeOK
<1>4. /\ Len(Append(versions[f], e)) = Len(versions[f]) + 1
      /\ Append(versions[f], e)[Len(versions[f]) + 1] = e
      /\ \A i \in 1..Len(versions[f]) :
           Append(versions[f], e)[i] = versions[f][i]
      /\ Append(versions[f], e) # <<>>
  BY <1>1
<1> QED
  BY <1>2, <1>3, <1>4

\* What is done of the proposal that a new version names, and of the others.
LEMMA DecidedProposals ==
  ASSUME Inv, NEW f \in Facts, NEW e \in VersionRows, NewVersion(f, e)
  PROVE  /\ e.proposal # NoProposal =>
              /\ e.proposal \in Proposals
              /\ proposal[e.proposal].status = "pending"
              /\ proposal'[e.proposal].status = "applied"
         /\ \A p \in Proposals :
              p # e.proposal => proposal'[p] = proposal[p]
  BY DEF NewVersion, Born, Amended, Archived, Deleted, Reviewed, Unreviewed,
     Inv, TypeOK

\* Every save of a memory comes with the version that says the same.
LEMMA HistoryMatchesStep ==
  ASSUME Inv, HistoryMatchesFact, [Next]_vars
  PROVE  HistoryMatchesFact'
<1>1. ASSUME NEW f \in Facts, NEW e \in VersionRows, NewVersion(f, e)
      PROVE  HistoryMatchesFact'
  <2>1. /\ fact'[f].status = e.status
        /\ fact'[f].content = e.content
        /\ \A g \in Facts \ {f} : fact'[g] = fact[g]
    BY <1>1 DEF NewVersion, Inv, TypeOK
  <2> QED
    BY <1>1, <2>1, AppendedHistory DEF HistoryMatchesFact
<1>2. CASE UNCHANGED <<fact, versions>>
  BY <1>2 DEF HistoryMatchesFact
<1> QED
  BY <1>1, <1>2, HistoryStep

\* The latest version of a memory is the memory: no memory_fact.save() undoes
\* what another request saved.
THEOREM HistoryMatches == Spec => []HistoryMatchesFact
<1>1. Init => HistoryMatchesFact
  BY DEF Init, HistoryMatchesFact, NoFactRow
<1> QED
  BY <1>1, HistoryMatchesStep, LockedRows, PTL DEF Spec

\* A version is made by the step that decides its proposal.
LEMMA PendingHasNoEffectStep ==
  ASSUME Inv, HistoryMatchesFact, PendingHasNoEffect, [Next]_vars
  PROVE  PendingHasNoEffect'
<1>1. ASSUME NEW f \in Facts, NEW e \in VersionRows, NewVersion(f, e)
      PROVE  PendingHasNoEffect'
  <2> SUFFICES ASSUME NEW g \in Facts, NEW i \in 1..Len(versions'[g]),
                      versions'[g][i].proposal # NoProposal
               PROVE  proposal'[versions'[g][i].proposal].status
                        \in {"applied", "rejected"}
    BY DEF PendingHasNoEffect
  <2>1. versions[f] \in Seq(VersionRows) /\ versions[g] \in Seq(VersionRows)
    BY DEF Inv, TypeOK
  <2>2. CASE g = f /\ i = Len(versions'[f])
    BY <1>1, <2>2, AppendedHistory, DecidedProposals
  <2>3. CASE ~(g = f /\ i = Len(versions'[f]))
    <3>1. i \in 1..Len(versions[g]) /\ versions'[g][i] = versions[g][i]
      BY <1>1, <2>1, <2>3, AppendedHistory
    <3>2. versions[g][i] \in VersionRows
      BY <2>1, <3>1
    <3>3. /\ versions[g][i].proposal \in Proposals
          /\ proposal[versions[g][i].proposal].status
               \in {"applied", "rejected"}
      BY <3>1, <3>2 DEF PendingHasNoEffect, VersionRows
    <3> QED
      BY <1>1, <3>1, <3>3, DecidedProposals
  <2> QED
    BY <2>2, <2>3
<1>2. CASE UNCHANGED versions /\ UNCHANGED proposal
  BY <1>2 DEF PendingHasNoEffect
<1>3. ASSUME NEW p \in Proposals, NEW r \in ProposalRows,
             UNCHANGED versions, proposal' = [proposal EXCEPT ![p] = r],
             \/ proposal[p].status = "none" /\ r.status = "pending"
             \/ r.status = "rejected"
      PROVE  PendingHasNoEffect'
  <2>1. \A q \in Proposals : proposal[q].status \in {"applied", "rejected"} =>
          proposal'[q].status \in {"applied", "rejected"}
    BY <1>3 DEF Inv, TypeOK
  <2>2. \A f \in Facts : \A i \in 1..Len(versions[f]) :
          versions[f][i].proposal \in Proposals \cup {NoProposal}
    <3> TAKE f \in Facts
    <3> TAKE i \in 1..Len(versions[f])
    <3>1. versions[f] \in Seq(VersionRows)
      BY DEF Inv, TypeOK
    <3>2. versions[f][i] \in VersionRows
      BY <3>1
    <3> QED
      BY <3>2 DEF VersionRows
  <2> QED
    BY <1>3, <2>1, <2>2 DEF PendingHasNoEffect
<1> QED
  BY <1>1, <1>2, <1>3, HistoryStep

\* Nothing a pending proposal asks for is ever in a history.
THEOREM PendingIsInert == Spec => []PendingHasNoEffect
<1>1. Init => PendingHasNoEffect
  BY DEF Init, PendingHasNoEffect
<1> QED
  BY <1>1, PendingHasNoEffectStep, LockedRows, HistoryMatches, PTL DEF Spec

\* The proposal that a new version names is in no history yet.
LEMMA NewProposalUnused ==
  ASSUME Inv, PendingHasNoEffect, NEW f \in Facts, NEW e \in VersionRows,
         NewVersion(f, e), e.proposal # NoProposal,
         NEW g \in Facts, NEW i \in 1..Len(versions[g])
  PROVE  versions[g][i].proposal # e.proposal
  BY DecidedProposals DEF PendingHasNoEffect

\* A proposal that has made a version makes no other.
LEMMA AppliedOnceStep ==
  ASSUME Inv, HistoryMatchesFact, PendingHasNoEffect, AppliedOnce,
         [Next]_vars
  PROVE  AppliedOnce'
<1>1. ASSUME NEW f \in Facts, NEW e \in VersionRows, NewVersion(f, e)
      PROVE  AppliedOnce'
  <2> SUFFICES ASSUME NEW g \in Facts, NEW h \in Facts,
                      NEW i \in 1..Len(versions'[g]),
                      NEW j \in 1..Len(versions'[h]),
                      versions'[g][i].proposal # NoProposal,
                      versions'[g][i].proposal = versions'[h][j].proposal
               PROVE  g = h /\ i = j
    BY DEF AppliedOnce
  <2>1. /\ Len(versions[f]) \in Nat
        /\ Len(versions[g]) \in Nat
        /\ Len(versions[h]) \in Nat
    BY DEF Inv, TypeOK
  <2> DEFINE New(k, n) == k = f /\ n = Len(versions'[f])
  <2>2. ~New(g, i) => /\ i \in 1..Len(versions[g])
                      /\ versions'[g][i] = versions[g][i]
    BY <1>1, <2>1, AppendedHistory
  <2>3. ~New(h, j) => /\ j \in 1..Len(versions[h])
                      /\ versions'[h][j] = versions[h][j]
    BY <1>1, <2>1, AppendedHistory
  <2>4. /\ New(g, i) => versions'[g][i] = e
        /\ New(h, j) => versions'[h][j] = e
    BY <1>1, AppendedHistory
  <2>5. CASE ~New(g, i) /\ ~New(h, j)
    BY <2>2, <2>3, <2>5 DEF AppliedOnce
  <2>6. CASE New(g, i) /\ ~New(h, j)
    BY <1>1, <2>3, <2>4, <2>6, NewProposalUnused
  <2>7. CASE ~New(g, i) /\ New(h, j)
    BY <1>1, <2>2, <2>4, <2>7, NewProposalUnused
  <2> QED
    BY <2>5, <2>6, <2>7
<1>2. CASE UNCHANGED versions
  BY <1>2 DEF AppliedOnce
<1> QED
  BY <1>1, <1>2, HistoryStep

\* However often it is approved, a proposal makes one version of one memory.
THEOREM AppliedAtMostOnce == Spec => []AppliedOnce
<1>1. Init => AppliedOnce
  BY DEF Init, AppliedOnce
<1> QED
  BY <1>1, AppliedOnceStep, LockedRows, HistoryMatches, PendingIsInert, PTL
  DEF Spec

\* A rejected proposal stays rejected and is never applied.
THEOREM RejectionIsFinal == Spec => RejectedIsFinal
<1> DEFINE Final ==
      \A p \in Proposals : proposal[p].status = "rejected" =>
        /\ proposal'[p].status = "rejected"
        /\ \A f \in Facts : Len(versions'[f]) > Len(versions[f]) =>
             versions'[f][Len(versions'[f])].proposal # p
<1>1. Inv /\ HistoryMatchesFact /\ [Next]_vars => Final
  <2> SUFFICES ASSUME Inv, HistoryMatchesFact, [Next]_vars,
                      NEW p \in Proposals, proposal[p].status = "rejected"
               PROVE  /\ proposal'[p].status = "rejected"
                      /\ \A f \in Facts : Len(versions'[f]) > Len(versions[f])
                           => versions'[f][Len(versions'[f])].proposal # p
    OBVIOUS
  <2>0. \A f \in Facts : Len(versions[f]) \in Nat
    BY DEF Inv, TypeOK
  <2>1. ASSUME NEW f \in Facts, NEW e \in VersionRows, NewVersion(f, e)
        PROVE  /\ proposal'[p].status = "rejected"
               /\ \A g \in Facts : Len(versions'[g]) > Len(versions[g])
                    => versions'[g][Len(versions'[g])].proposal # p
    <3>1. e.proposal # p
      BY <2>1, DecidedProposals, ReviewAssumption
    <3> QED
      BY <2>0, <2>1, <3>1, AppendedHistory, DecidedProposals
  <2>2. CASE UNCHANGED versions /\ UNCHANGED proposal
    BY <2>0, <2>2
  <2>3. ASSUME NEW q \in Proposals, NEW r \in ProposalRows,
               UNCHANGED versions, proposal' = [proposal EXCEPT ![q] = r],
               \/ proposal[q].status = "none" /\ r.status = "pending"
               \/ r.status = "rejected"
        PROVE  /\ proposal'[p].status = "rejected"
               /\ \A g \in Facts : ~(Len(versions'[g]) > Len(versions[g]))
    BY <2>0, <2>3 DEF Inv, TypeOK
  <2> QED
    BY <2>1, <2>2, <2>3, HistoryStep
<1>2. Inv /\ HistoryMatchesFact /\ [Next]_vars => [Final]_vars
  BY <1>1
<1>3. Spec => [][Final]_vars
  BY <1>2, LockedRows, HistoryMatches, PTL DEF Spec
<1> QED
  BY <1>3 DEF RejectedIsFinal

-----------------------------------------------------------------------------
(* The histories implement MemoryLedger.                                   *)

\* No version of any memory holds a text in which the detector sees a secret
\* (approved text is analysed before it is stored, never after).
NoSecretStored ==
  \A f \in Facts : \A i \in 1..Len(versions[f]) :
    versions[f][i].content \notin Secrets

\* The latest version of a stored memory, in the ledger's terms.
LEMMA LatestIsFact ==
  ASSUME Inv, HistoryMatchesFact, NEW f \in Facts, fact[f].status # "none"
  PROVE  /\ versions[f] # <<>>
         /\ Len(versions[f]) \in 1..Len(versions[f])
         /\ Ledger!Latest(f).status = fact[f].status
         /\ Ledger!Latest(f).content = fact[f].content
<1>1. versions[f] \in Seq(VersionRows)
  BY DEF Inv, TypeOK
<1>2. versions[f] # <<>>
  BY DEF HistoryMatchesFact
<1>3. Len(versions[f]) \in 1..Len(versions[f])
  BY <1>1, <1>2
<1> QED
  BY <1>2, <1>3 DEF HistoryMatchesFact, Ledger!Latest

\* A new version holds a checked text or the text of the one before.
LEMMA NewVersionHasNoSecret ==
  ASSUME Inv, HistoryMatchesFact, NoSecretStored,
         NEW f \in Facts, NEW e \in VersionRows, NewVersion(f, e)
  PROVE  e.content \notin Secrets
<1>1. CASE Born(f, e) \/ Amended(f, e)
  BY <1>1 DEF Born, Amended
<1>2. CASE Archived(f, e) \/ Deleted(f, e)
  <2>1. fact[f].status # "none" /\ e.content = fact[f].content
    BY <1>2 DEF Archived, Deleted
  <2> QED
    BY <2>1, LatestIsFact DEF NoSecretStored, Ledger!Latest
<1> QED
  BY <1>1, <1>2 DEF NewVersion

\* No step records a flagged text.
LEMMA NoSecretStep ==
  ASSUME Inv, HistoryMatchesFact, NoSecretStored, [Next]_vars
  PROVE  NoSecretStored'
<1>1. ASSUME NEW f \in Facts, NEW e \in VersionRows, NewVersion(f, e)
      PROVE  NoSecretStored'
  <2> SUFFICES ASSUME NEW g \in Facts, NEW i \in 1..Len(versions'[g])
               PROVE  versions'[g][i].content \notin Secrets
    BY DEF NoSecretStored
  <2>1. Len(versions[f]) \in Nat /\ Len(versions[g]) \in Nat
    BY DEF Inv, TypeOK
  <2>2. CASE g = f /\ i = Len(versions'[f])
    BY <1>1, <2>2, AppendedHistory, NewVersionHasNoSecret
  <2>3. CASE ~(g = f /\ i = Len(versions'[f]))
    <3>1. i \in 1..Len(versions[g]) /\ versions'[g][i] = versions[g][i]
      BY <1>1, <2>1, <2>3, AppendedHistory
    <3> QED
      BY <3>1 DEF NoSecretStored
  <2> QED
    BY <2>2, <2>3
<1>2. CASE UNCHANGED versions
  BY <1>2 DEF NoSecretStored
<1> QED
  BY <1>1, <1>2, HistoryStep

\* Whatever the detector flags is in no history.
THEOREM SecretsStayOut == Spec => []NoSecretStored
<1>1. Init => NoSecretStored
  BY DEF Init, NoSecretStored
<1> QED
  BY <1>1, NoSecretStep, LockedRows, HistoryMatches, PTL DEF Spec

\* Every new version is a step of the ledger.
LEMMA LedgerStep ==
  ASSUME Inv, HistoryMatchesFact, PendingHasNoEffect, NoSecretStored,
         [Next]_vars, versions' # versions
  PROVE  Ledger!Next
<1>1. PICK f \in Facts, e \in VersionRows : NewVersion(f, e)
  BY HistoryStep
<1>2. e \in Ledger!Entry
  BY DEF VersionRows, FactStatuses, Ledger!Entry
<1>3. Ledger!Record(f, e)
  <2>1. e.content \notin Secrets
    BY <1>1, NewVersionHasNoSecret
  <2>2. e.proposal # NoProposal => Ledger!Unused(e.proposal)
    BY <1>1, NewProposalUnused DEF Ledger!Unused
  <2>3. versions' = [versions EXCEPT ![f] = Append(versions[f], e)]
    BY <1>1 DEF NewVersion
  <2> QED
    BY <2>1, <2>2, <2>3 DEF Ledger!Record
<1>4. CASE Born(f, e)
  <2>1. Ledger!Open(f, e)
    BY <1>3, <1>4 DEF Born, Ledger!Open
  <2> QED
    BY <1>2, <2>1 DEF Ledger!Next
<1>5. CASE Amended(f, e)
  <2>1. e.proposal # NoProposal
    BY <1>5, ReviewAssumption DEF Amended, Reviewed
  <2>2. Ledger!Amend(f, e)
    BY <1>3, <1>5, <2>1, LatestIsFact DEF Amended, Ledger!Amend
  <2> QED
    BY <1>2, <2>2 DEF Ledger!Next
<1>6. CASE Archived(f, e)
  <2>1. Ledger!Archive(f, e)
    BY <1>3, <1>6, LatestIsFact DEF Archived, Ledger!Archive
  <2> QED
    BY <1>2, <2>1 DEF Ledger!Next
<1>7. CASE Deleted(f, e)
  <2>1. Ledger!Delete(f, e)
    BY <1>3, <1>7, LatestIsFact DEF Deleted, Ledger!Delete
  <2> QED
    BY <1>2, <2>1 DEF Ledger!Next
<1> QED
  BY <1>1, <1>4, <1>5, <1>6, <1>7 DEF NewVersion

\* The memory service implements the ledger: whatever requests interleave,
\* abort or find their work done already, each history grows as promised.
THEOREM ImplementsLedger == Spec => LedgerSpec
<1>1. Init => Ledger!Init
  BY DEF Init, Ledger!Init
<1>2. /\ Inv /\ HistoryMatchesFact /\ PendingHasNoEffect /\ NoSecretStored
      /\ [Next]_vars
      => [versions' # versions => Ledger!Next]_versions
  BY LedgerStep
<1>3. Spec => [][versions' # versions => Ledger!Next]_versions
  BY <1>2, LockedRows, HistoryMatches, PendingIsInert, SecretsStayOut, PTL
  DEF Spec
<1> QED
  BY <1>1, <1>3 DEF Spec, LedgerSpec

-----------------------------------------------------------------------------
(* The outcome of a review: what an applied proposal did, who reviewed it, *)
(* that a key is stored once and a memory mapped to existing tags.  It     *)
(* follows from the histories above and from two more invariants: a commit *)
(* that will map a tag holds that tag (TagLocksSound), and the one writer  *)
(* that takes no lock, the save of a rejection, writes back every column   *)
(* of a row that may have changed since it was read (RejectionsInformed).  *)

\* Who is about to save a rejection is an admin, and holds the proposal that
\* is stored in all that no write changes of it.
RejectionsInformed ==
  \A w \in Workers : tx[w].pc = "saveRejection" =>
    /\ tx[w].actor \in Admins
    /\ tx[w].pid \in Proposals
    /\ proposal[tx[w].pid].status # "none"
    /\ SameProposal(tx[w].prow, proposal[tx[w].pid])

\* p is stored by this step, under a key nobody has.
Inserted(p) ==
  /\ proposal[p].status = "none"
  /\ proposal'[p].status = "pending"
  /\ ~KeyTaken(proposal'[p].key)
  /\ \A q \in Proposals \ {p} : proposal'[q] = proposal[q]

\* p is decided, or decided again, by an admin, and stays the same proposal.
Decided(p) ==
  /\ proposal[p].status # "none"
  /\ proposal'[p].status \in {"applied", "rejected"}
  /\ proposal'[p].reviewer \in Admins
  /\ SameProposal(proposal'[p], proposal[p])

-----------------------------------------------------------------------------
(* What one step does to a proposal.                                       *)

\* A new version comes with the decision of the proposal it names.
LEMMA VersionDecides ==
  ASSUME Inv, NEW f \in Facts, NEW e \in VersionRows, NewVersion(f, e),
         e.proposal # NoProposal
  PROVE  /\ Reviewed(f, e)
         /\ Decided(e.proposal)
         /\ proposal'[e.proposal].status = "applied"
         /\ proposal'[e.proposal].fact = f
         /\ IF proposal'[e.proposal].type = "delete"
            THEN e.status = "deleted"
            ELSE /\ e.status = "approved"
                 /\ e.content = proposal'[e.proposal].content
<1>1. Reviewed(f, e)
  BY DEF NewVersion, Born, Amended, Archived, Deleted, Unreviewed
<1>2. PICK r \in ProposalRows :
        /\ proposal' = [proposal EXCEPT ![e.proposal] = r]
        /\ r.status = "applied"
        /\ r.reviewer \in Admins
        /\ r.fact = f
        /\ SameProposal(r, proposal[e.proposal])
        /\ IF r.type = "delete" THEN e.status = "deleted"
           ELSE e.status = "approved" /\ e.content = r.content
  BY <1>1 DEF Reviewed
<1>3. proposal'[e.proposal] = r
  BY <1>1, <1>2 DEF Reviewed, Inv, TypeOK
<1>4. proposal[e.proposal].status = "pending"
  BY <1>1 DEF Reviewed
<1> QED
  BY <1>1, <1>2, <1>3, <1>4 DEF Decided

\* A step without a new version stores a proposal, rejects one, or neither.
LEMMA OtherProposalWrites ==
  ASSUME Inv, HistoryMatchesFact, [Next]_vars, NEW p \in Proposals,
         ~ \E f \in Facts, e \in VersionRows : NewVersion(f, e)
  PROVE  \/ proposal'[p] = proposal[p]
         \/ Inserted(p)
         \/ \E w \in Workers : SaveRejection(w) /\ tx[w].pid = p
<1>1. ASSUME NEW a \in Actors, NEW tag \in Tags, CreateTag(a, tag)
      PROVE  UNCHANGED proposal
  BY <1>1 DEF CreateTag
<1>2. ASSUME NEW w \in Workers, Arrive(w)
      PROVE  UNCHANGED proposal
  BY <1>2, ArriveQuiet
<1>3. ASSUME NEW w \in Workers, Advance(w) \/ Abort(w)
      PROVE  \/ UNCHANGED proposal
             \/ InsertProposal(w) \/ SaveRejection(w)
  BY <1>3, CommitCreateWrites, CommitChangeWrites, CommitUserStatusWrites
  DEF Advance, Abort, OutOfRows, DeadlockVictim, Rollback, ReadFact,
      LockProposal, LockFact, WriteTagRow, StageVersion, CommitDirect,
      AttachTag, DetachTag, DeleteTag, db
<1>4. ASSUME NEW w \in Workers, InsertProposal(w), proposal' # proposal
      PROVE  proposal'[p] = proposal[p] \/ Inserted(p)
  <2>1. /\ ~KeyTaken(tx[w].prow.key)
        /\ tx[w].prow.status = "pending"
    BY <1>4 DEF InsertProposal, Inv, LockedRowsCurrent, RequestComplete
  <2>2. PICK q \in Proposals :
          /\ proposal[q].status = "none"
          /\ proposal' = [proposal EXCEPT ![q] = tx[w].prow]
    BY <1>4 DEF InsertProposal
  <2> QED
    BY <2>1, <2>2 DEF Inserted, Inv, TypeOK
<1>5. ASSUME NEW w \in Workers, SaveRejection(w)
      PROVE  proposal'[p] = proposal[p] \/ tx[w].pid = p
  BY <1>5 DEF SaveRejection, Inv, TypeOK
<1>6. CASE UNCHANGED vars
  BY <1>6 DEF vars
<1> QED
  BY <1>1, <1>2, <1>3, <1>4, <1>5, <1>6 DEF Next

\* The row a rejection saves.
LEMMA RejectionDecides ==
  ASSUME Inv, RejectionsInformed, NEW w \in Workers, SaveRejection(w)
  PROVE  Decided(tx[w].pid) /\ proposal'[tx[w].pid].status = "rejected"
<1> DEFINE t == tx[w]
           r == [t.prow EXCEPT !.status = "rejected", !.reviewer = t.actor]
<1>1. t.prow \in ProposalRows
  BY DEF Inv, TypeOK, Requests
<1>2. /\ t.actor \in Admins
      /\ t.pid \in Proposals
      /\ proposal[t.pid].status # "none"
      /\ SameProposal(t.prow, proposal[t.pid])
  BY DEF SaveRejection, RejectionsInformed
<1>3. /\ r.status = "rejected"
      /\ r.reviewer = t.actor
      /\ SameProposal(r, t.prow)
  BY <1>1 DEF ProposalRows, SameProposal
<1>4. proposal'[t.pid] = r
  BY <1>2 DEF SaveRejection, Inv, TypeOK
<1> HIDE DEF r
<1> QED
  BY <1>2, <1>3, <1>4 DEF Decided, SameProposal

\* All that a step does to a proposal.
LEMMA ProposalStep ==
  ASSUME Inv, HistoryMatchesFact, RejectionsInformed, [Next]_vars,
         NEW p \in Proposals
  PROVE  proposal'[p] = proposal[p] \/ Inserted(p) \/ Decided(p)
<1>1. ASSUME NEW f \in Facts, NEW e \in VersionRows, NewVersion(f, e)
      PROVE  proposal'[p] = proposal[p] \/ Decided(p)
  <2>1. CASE p = e.proposal
    BY <1>1, <2>1, VersionDecides, ReviewAssumption
  <2>2. CASE p # e.proposal
    BY <1>1, <2>2, DecidedProposals
  <2> QED
    BY <2>1, <2>2
<1> QED
  BY <1>1, OtherProposalWrites, RejectionDecides

\* A review that is about to commit an update.
Updating(t) == t.pc = "commit" /\ t.op \in ReviewOps /\ t.prow.type = "update"

\* It holds each tag it is going to map.
HoldsTags(t) ==
  \A g \in UpdatedTags(t) : KeptTag(g) \in t.held \/ NewTag(g) \in t.held

\* A request that arrives holds nothing yet; only a rejection is about to save
\* a proposal.
LEMMA ArriveReceives ==
  ASSUME NEW v \in Workers, Arrive(v)
  PROVE  \E r : /\ Receive(v, r)
                /\ r.held = {}
                /\ ~Updating(r)
                /\ r.pc = "saveRejection" =>
                     \E a \in Actors, p \in Proposals : StartRejection(v, a, p)
<1>1. PICK a \in Actors : Arrive(v)!(a)
  BY DEF Arrive
<1> DEFINE Harmless(r) == /\ r.held = {}
                          /\ ~Updating(r)
                          /\ r.pc # "saveRejection"
<1>2. ASSUME NEW r, Receive(v, r), Harmless(r)
      PROVE  \E q : /\ Receive(v, q)
                    /\ q.held = {}
                    /\ ~Updating(q)
                    /\ q.pc = "saveRejection" =>
                         \E b \in Actors, p \in Proposals :
                           StartRejection(v, b, p)
  BY <1>2
<1>3. ASSUME NEW p \in Proposals, StartRejection(v, a, p)
      PROVE  \E r : Receive(v, r) /\ r.held = {} /\ ~Updating(r)
  <2> DEFINE r == [Idle EXCEPT !.pc = "saveRejection", !.op = "reject",
                     !.actor = a, !.pid = p, !.prow = proposal[p]]
  <2>1. Receive(v, r)
    BY <1>3 DEF StartRejection
  <2>2. r.held = {} /\ ~Updating(r)
    BY DEF Idle, Updating
  <2> QED
    BY <2>1, <2>2
<1>4. ASSUME NEW s, NEW c, NEW ts, CreateDirectMemory(v, a, s, c, ts)
      PROVE  \E r : Receive(v, r) /\ Harmless(r)
  <2> DEFINE r == [Idle EXCEPT !.pc = "commit", !.op = "createDirect",
                     !.actor = a,
                     !.frow = [status |-> "approved", scope |-> s,
                               content |-> c, tags |-> ts]]
  <2>1. Receive(v, r)
    BY <1>4 DEF CreateDirectMemory
  <2>2. Harmless(r)
    BY DEF Idle, Updating, ReviewOps
  <2> QED
    BY <2>1, <2>2
<1>5. ASSUME NEW s, NEW c, NEW ts, NEW k, ProposeCreate(v, a, s, c, ts, k)
      PROVE  \E r : Receive(v, r) /\ Harmless(r)
  <2> DEFINE row == [NoProposalRow EXCEPT
                       !.status = "pending", !.type = "create",
                       !.scope = s, !.content = c, !.tags = ts, !.key = k,
                       !.creator = a]
             r == [Idle EXCEPT !.pc = "insert", !.op = "create",
                               !.actor = a, !.prow = row]
  <2>1. Receive(v, r)
    BY <1>5 DEF ProposeCreate
  <2> HIDE DEF row
  <2>2. Harmless(r)
    BY DEF Idle, Updating
  <2> QED
    BY <2>1, <2>2
<1>6. ASSUME NEW op, NEW f, NEW c, NEW ts, NEW k,
             ProposeChange(v, a, op, f, c, ts, k)
      PROVE  \E r : Receive(v, r) /\ Harmless(r)
  <2> DEFINE r == [Idle EXCEPT !.pc = "readFact", !.op = op, !.actor = a,
                     !.fid = f, !.content = c, !.tags = ts, !.key = k]
  <2>1. Receive(v, r)
    BY <1>6 DEF ProposeChange
  <2>2. Harmless(r)
    BY DEF Idle, Updating
  <2> QED
    BY <2>1, <2>2
<1>7. ASSUME NEW op, NEW p, NEW c, NEW ts, StartReview(v, a, op, p, c, ts)
      PROVE  \E r : Receive(v, r) /\ Harmless(r)
  <2> DEFINE r == [Idle EXCEPT !.pc = "lockProposal", !.op = op,
                     !.actor = a, !.pid = p, !.content = c, !.tags = ts]
  <2>1. Receive(v, r)
    BY <1>7 DEF StartReview
  <2>2. Harmless(r)
    BY DEF Idle, Updating
  <2> QED
    BY <2>1, <2>2
<1>8. ASSUME NEW f, StartDashboardDelete(v, a, f) \/ StartArchive(v, a, f)
      PROVE  \E r : Receive(v, r) /\ Harmless(r)
  <2>1. PICK op : Receive(v, [Idle EXCEPT !.pc = "lockFact", !.op = op,
                                          !.actor = a, !.fid = f])
    BY <1>8 DEF StartDashboardDelete, StartArchive
  <2> DEFINE r == [Idle EXCEPT !.pc = "lockFact", !.op = op, !.actor = a,
                               !.fid = f]
  <2>2. Harmless(r)
    BY DEF Idle, Updating
  <2> QED
    BY <2>1, <2>2
<1>9. ASSUME NEW op, NEW f, NEW tag, StartTagging(v, a, op, f, tag)
      PROVE  \E r : Receive(v, r) /\ Harmless(r)
  <2> DEFINE r == [Idle EXCEPT !.pc = "writeTag", !.op = op, !.actor = a,
                               !.fid = f, !.tags = {tag}]
  <2>1. Receive(v, r)
    BY <1>9 DEF StartTagging
  <2>2. Harmless(r)
    BY DEF Idle, Updating
  <2> QED
    BY <2>1, <2>2
<1>10. ASSUME NEW tag, StartDeleteTag(v, a, tag)
       PROVE  \E r : Receive(v, r) /\ Harmless(r)
  <2> DEFINE r == [Idle EXCEPT !.pc = "deleteTag", !.op = "deleteTag",
                     !.actor = a, !.tags = {tag}]
  <2>1. Receive(v, r)
    BY <1>10 DEF StartDeleteTag
  <2>2. Harmless(r)
    BY DEF Idle, Updating
  <2> QED
    BY <2>1, <2>2
<1> HIDE DEF Harmless
<1>11. CASE Arrive(v)!(a)!1
  BY <1>2, <1>4, <1>5, <1>11
<1>12. CASE Arrive(v)!(a)!2
  BY <1>2, <1>6, <1>12
<1>13. CASE Arrive(v)!(a)!3
  BY <1>2, <1>3, <1>7, <1>13
<1>14. CASE Arrive(v)!(a)!4
  BY <1>2, <1>8, <1>9, <1>14
<1>15. CASE Arrive(v)!(a)!5
  BY <1>2, <1>10, <1>15
<1> QED
  BY <1>1, <1>11, <1>12, <1>13, <1>14, <1>15

\* A call of a request leaves it the tags it holds, or none, or one more; it
\* commits an update once it holds each tag of it.
LEMMA AdvanceMoves ==
  ASSUME Inv, NEW v \in Workers, Advance(v) \/ Abort(v)
  PROVE  \E r : /\ tx' = [tx EXCEPT ![v] = r]
                /\ r.pc # "saveRejection"
                /\ Updating(r) => HoldsTags(r)
                /\ r.held = {} \/ r.held = tx[v].held \/ WriteTagRow(v)
<1> DEFINE Goal(r) == /\ tx' = [tx EXCEPT ![v] = r]
                      /\ r.pc # "saveRejection"
                      /\ Updating(r) => HoldsTags(r)
                      /\ r.held = {} \/ r.held = tx[v].held \/ WriteTagRow(v)
<1>1. tx[v] \in Requests
  BY DEF Inv, TypeOK
<1>2. CASE tx' = [tx EXCEPT ![v] = Idle]
  <2>1. Goal(Idle)
    BY <1>2 DEF Idle, Updating
  <2> QED
    BY <2>1
<1>3. CASE ReadFact(v)
  <2> DEFINE t == tx[v]
             row == [NoProposalRow EXCEPT
                       !.status = "pending", !.type = t.op,
                       !.scope = fact[t.fid].scope, !.fact = t.fid,
                       !.content = t.content, !.tags = t.tags,
                       !.key = t.key, !.creator = t.actor]
             r == [Idle EXCEPT !.pc = "insert", !.op = t.op,
                               !.actor = t.actor, !.prow = row]
  <2>1. tx' = [tx EXCEPT ![v] = r] \/ tx' = [tx EXCEPT ![v] = Idle]
    BY <1>3 DEF ReadFact
  <2> HIDE DEF row
  <2>2. r.pc = "insert" /\ r.held = {}
    BY DEF Idle
  <2> HIDE DEF r
  <2>3. tx' = [tx EXCEPT ![v] = r] => Goal(r)
    BY <2>2 DEF Updating
  <2> QED
    BY <1>2, <2>1, <2>3
<1>4. CASE LockProposal(v)
  <2> DEFINE pc == IF proposal[tx[v].pid].type = "create"
                   THEN "commit" ELSE "lockFact"
             t == [tx[v] EXCEPT !.prow = proposal[tx[v].pid],
                                !.fid  = proposal[tx[v].pid].fact,
                                !.pc   = pc]
  <2>1. /\ t.pc = pc
        /\ t.held = tx[v].held
        /\ t.prow.type = proposal[tx[v].pid].type
    BY <1>1 DEF Requests
  <2>2. tx' = [tx EXCEPT ![v] = t] \/ tx' = [tx EXCEPT ![v] = Idle]
    BY <1>4 DEF LockProposal
  <2> HIDE DEF t
  <2>3. tx' = [tx EXCEPT ![v] = t] => Goal(t)
    BY <2>1 DEF Updating
  <2> QED
    BY <1>2, <2>2, <2>3
<1>5. CASE LockFact(v)
  <2> DEFINE t == [tx[v] EXCEPT !.pc = "stage", !.frow = fact[tx[v].fid]]
  <2>1. t.pc = "stage" /\ t.held = tx[v].held
    BY <1>1 DEF Requests
  <2>2. tx' = [tx EXCEPT ![v] = t] \/ tx' = [tx EXCEPT ![v] = Idle]
    BY <1>5 DEF LockFact, Rollback, Finish
  <2> HIDE DEF t
  <2>3. tx' = [tx EXCEPT ![v] = t] => Goal(t)
    BY <2>1 DEF Updating
  <2> QED
    BY <1>2, <2>2, <2>3
<1>6. CASE WriteTagRow(v)
  <2>1. PICK l \in Needed(tx[v]) : tx' = [tx EXCEPT ![v].held = @ \cup {l}]
    BY <1>6 DEF WriteTagRow
  <2> DEFINE r == [tx[v] EXCEPT !.held = @ \cup {l}]
  <2>2. tx' = [tx EXCEPT ![v] = r]
    BY <2>1 DEF Inv, TypeOK
  <2>3. /\ r.pc = tx[v].pc
        /\ r.op = tx[v].op
        /\ r.prow = tx[v].prow
    BY <1>1 DEF Requests
  <2> HIDE DEF r
  <2>4. /\ tx[v].pc \in {"stage", "commit", "deleteTag"}
        /\ tx[v].pc = "commit" /\ tx[v].op \in ReviewOps =>
             tx[v].prow.type = "create"
    BY <2>1 DEF Needed, ReviewOps
  <2>5. Goal(r)
    BY <1>6, <2>2, <2>3, <2>4 DEF Updating
  <2> QED
    BY <2>5
<1>7. CASE StageVersion(v)
  <2> DEFINE t == tx[v]
             n == Len(versions[t.fid]) + 1
             r == [t EXCEPT !.pc = "commit", !.number = n]
  <2>1. /\ t.pc = "stage"
        /\ Needed(t) = {}
        /\ tx' = [tx EXCEPT ![v] = r]
    BY <1>7 DEF StageVersion, Inv, TypeOK
  <2> HIDE DEF n
  <2>2. /\ r.pc = "commit"
        /\ r.op = t.op
        /\ r.prow = t.prow
        /\ r.frow = t.frow
        /\ r.tags = t.tags
        /\ r.held = t.held
    BY <1>1 DEF Requests
  <2> HIDE DEF r
  <2>3. UpdatedTags(r) = UpdatedTags(t)
    BY <2>2 DEF UpdatedTags, FinalTags
  <2>4. ASSUME Updating(r)
        PROVE  HoldsTags(r)
    <3> DEFINE old == {l \in Mappings : l.fact = t.fid}
    <3>1. (IF old \subseteq t.held THEN SyncLocks(UpdatedTags(t)) ELSE old)
            \subseteq t.held
      BY <2>1, <2>2, <2>4 DEF Needed, Updating
    <3>2. SyncLocks(UpdatedTags(t)) \subseteq t.held
      BY <3>1
    <3> QED
      BY <2>2, <2>3, <3>2 DEF HoldsTags, SyncLocks
  <2>5. Goal(r)
    BY <2>1, <2>2, <2>4
  <2> QED
    BY <2>5
<1>8. CASE ~(ReadFact(v) \/ LockProposal(v) \/ LockFact(v) \/ WriteTagRow(v)
               \/ StageVersion(v))
  <2>1. tx' = [tx EXCEPT ![v] = Idle]
    BY <1>8
    DEF Advance, Abort, OutOfRows, DeadlockVictim, Rollback, Finish,
        InsertProposal, CommitDirect, CommitCreate, CommitChange,
        SaveRejection, CommitUserStatus, AttachTag, DetachTag, DeleteTag
  <2> QED
    BY <1>2, <2>1
<1> QED
  BY <1>3, <1>4, <1>5, <1>6, <1>7, <1>8

\* A request that is about to save a rejection has read the proposal now, or
\* has not moved.
LEMMA StartsRejection ==
  ASSUME Inv, [Next]_vars, NEW w \in Workers, tx'[w].pc = "saveRejection",
         tx'[w] # tx[w]
  PROVE  \E a \in Actors, p \in Proposals : StartRejection(w, a, p)
<1>1. (\E a \in Actors, tag \in Tags : CreateTag(a, tag)) => UNCHANGED tx
  BY DEF CreateTag
<1>2. ASSUME NEW v \in Workers, Arrive(v)
      PROVE  \E a \in Actors, p \in Proposals : StartRejection(w, a, p)
  <2>1. PICK r : /\ Receive(v, r)
                 /\ r.pc = "saveRejection" =>
                      \E a \in Actors, p \in Proposals : StartRejection(v, a, p)
    BY <1>2, ArriveReceives
  <2>2. v = w /\ r.pc = "saveRejection"
    BY <2>1 DEF Receive, Inv, TypeOK
  <2> QED
    BY <2>1, <2>2
<1>3. ASSUME NEW v \in Workers, Advance(v) \/ Abort(v)
      PROVE  FALSE
  <2>1. PICK r : tx' = [tx EXCEPT ![v] = r] /\ r.pc # "saveRejection"
    BY <1>3, AdvanceMoves
  <2> QED
    BY <2>1 DEF Inv, TypeOK
<1> QED
  BY <1>1, <1>2, <1>3 DEF Next, vars

\* The unlocked save of a rejection stays one of the proposal that is stored.
LEMMA RejectionsInformedStep ==
  ASSUME Inv, HistoryMatchesFact, RejectionsInformed, [Next]_vars
  PROVE  RejectionsInformed'
<1> SUFFICES ASSUME NEW w \in Workers, tx'[w].pc = "saveRejection"
             PROVE  /\ tx'[w].actor \in Admins
                    /\ tx'[w].pid \in Proposals
                    /\ proposal'[tx'[w].pid].status # "none"
                    /\ SameProposal(tx'[w].prow, proposal'[tx'[w].pid])
  BY DEF RejectionsInformed, SameProposal
<1>1. CASE tx'[w] = tx[w]
  <2> DEFINE p == tx[w].pid
  <2>1. /\ tx[w].actor \in Admins
        /\ p \in Proposals
        /\ proposal[p].status # "none"
        /\ SameProposal(tx[w].prow, proposal[p])
    BY <1>1 DEF RejectionsInformed
  <2>2. proposal'[p] = proposal[p] \/ Inserted(p) \/ Decided(p)
    BY <2>1, ProposalStep
  <2> HIDE DEF p
  <2>3. proposal'[p].status # "none" /\ SameProposal(tx[w].prow, proposal'[p])
    BY <2>1, <2>2 DEF Inserted, Decided, SameProposal
  <2> QED
    BY <1>1, <2>1, <2>3 DEF p
<1>2. CASE tx'[w] # tx[w]
  <2>1. PICK a \in Actors, p \in Proposals : StartRejection(w, a, p)
    BY <1>2, StartsRejection
  <2> DEFINE r == [Idle EXCEPT !.pc = "saveRejection", !.op = "reject",
                     !.actor = a, !.pid = p, !.prow = proposal[p]]
  <2>2. /\ tx'[w] = r
        /\ UNCHANGED proposal
        /\ proposal[p].status = "pending"
        /\ a \in Admins
    BY <2>1
    DEF StartRejection, Receive, Inv, TypeOK, db, CanApproveMemory, IsAdmin
  <2>3. r.actor = a /\ r.pid = p /\ r.prow = proposal[p]
    BY DEF Idle
  <2> HIDE DEF r
  <2> QED
    BY <2>2, <2>3 DEF SameProposal
<1> QED
  BY <1>1, <1>2

\* What a rejection writes back is the proposal that is stored, but for what
\* a review may have decided meanwhile.
THEOREM RejectionsKnow == Spec => []RejectionsInformed
<1>1. Init => RejectionsInformed
  BY DEF Init, RejectionsInformed, Idle
<1> QED
  BY <1>1, RejectionsInformedStep, LockedRows, HistoryMatches, PTL DEF Spec

-----------------------------------------------------------------------------
(* Keys.                                                                   *)

\* No save of a proposal moves a key, and no insert takes one twice.
THEOREM KeysStoredOnce == Spec => []OneProposalPerKey
<1>1. ASSUME Inv, HistoryMatchesFact, RejectionsInformed, OneProposalPerKey,
             [Next]_vars
      PROVE  OneProposalPerKey'
  <2> SUFFICES ASSUME NEW p \in Proposals, NEW q \in Proposals,
                      proposal'[p].key = proposal'[q].key,
                      proposal'[p].key # NoKey
               PROVE  p = q
    BY DEF OneProposalPerKey
  <2>1. ASSUME NEW x \in Proposals, ~Inserted(x)
        PROVE  proposal'[x].key = proposal[x].key
    BY <1>1, <2>1, ProposalStep DEF Decided, SameProposal
  <2>2. ASSUME NEW x \in Proposals, NEW y \in Proposals, Inserted(x), x # y
        PROVE  proposal'[x].key = NoKey \/ proposal'[x].key # proposal'[y].key
    BY <2>2 DEF Inserted, KeyTaken
  <2> QED
    BY <1>1, <2>1, <2>2 DEF OneProposalPerKey
<1>2. Init => OneProposalPerKey
  BY DEF Init, OneProposalPerKey, NoProposalRow
<1>3. /\ Inv /\ HistoryMatchesFact /\ RejectionsInformed
      /\ OneProposalPerKey /\ [Next]_vars
      => OneProposalPerKey'
  BY <1>1
<1> QED
  BY <1>2, <1>3, LockedRows, HistoryMatches, RejectionsKnow, PTL DEF Spec

-----------------------------------------------------------------------------
(* What an applied proposal did.                                           *)

\* A version of before the step is still there.
LEMMA VersionsStay ==
  ASSUME Inv, HistoryMatchesFact, [Next]_vars, NEW f \in Facts,
         NEW i \in 1..Len(versions[f])
  PROVE  i \in 1..Len(versions'[f]) /\ versions'[f][i] = versions[f][i]
<1>0. Len(versions[f]) \in Nat
  BY DEF Inv, TypeOK
<1>1. ASSUME NEW g \in Facts, NEW e \in VersionRows, NewVersion(g, e)
      PROVE  i \in 1..Len(versions'[f]) /\ versions'[f][i] = versions[f][i]
  BY <1>0, <1>1, AppendedHistory
<1> QED
  BY <1>1, HistoryStep

\* An applied proposal has the version it asked for, as long as it reads
\* applied.
THEOREM AppliedProposalsTookEffect == Spec => []AppliedTookEffect
<1> DEFINE Effect(p, f, i) ==
      /\ versions[f][i].proposal = p
      /\ IF proposal[p].type = "delete" THEN versions[f][i].status = "deleted"
         ELSE /\ versions[f][i].status = "approved"
              /\ versions[f][i].content = proposal[p].content
<1>1. ASSUME Inv, HistoryMatchesFact, RejectionsInformed, AppliedTookEffect,
             [Next]_vars
      PROVE  AppliedTookEffect'
  <2> SUFFICES ASSUME NEW p \in Proposals, proposal'[p].status = "applied"
               PROVE  /\ proposal'[p].fact # NoFact
                      /\ \E i \in 1..Len(versions'[proposal'[p].fact]) :
                           Effect(p, proposal[p].fact, i)'
    BY DEF AppliedTookEffect
  <2>1. CASE proposal'[p] = proposal[p]
    <3> DEFINE f == proposal[p].fact
    <3>1. f \in Facts
      BY <1>1, <2>1 DEF AppliedTookEffect, Inv, TypeOK, ProposalRows
    <3>2. PICK i \in 1..Len(versions[f]) : Effect(p, f, i)
      BY <1>1, <2>1 DEF AppliedTookEffect
    <3>3. i \in 1..Len(versions'[f]) /\ versions'[f][i] = versions[f][i]
      BY <1>1, <3>1, VersionsStay
    <3> QED
      BY <1>1, <2>1, <3>2, <3>3 DEF AppliedTookEffect
  <2>2. CASE proposal'[p] # proposal[p]
    <3>1. PICK f \in Facts, e \in VersionRows : NewVersion(f, e)
      BY <1>1, <2>2, OtherProposalWrites, RejectionDecides DEF Inserted
    <3>2. p = e.proposal /\ p # NoProposal
      BY <1>1, <2>2, <3>1, DecidedProposals, ReviewAssumption
    <3> DEFINE n == Len(versions'[f])
    <3>3. versions'[f][n] = e /\ n \in 1..n
      <4>1. Len(versions[f]) \in Nat
        BY <1>1 DEF Inv, TypeOK
      <4> QED
        BY <1>1, <3>1, <4>1, AppendedHistory
    <3>4. /\ proposal'[p].fact = f
          /\ IF proposal'[p].type = "delete" THEN e.status = "deleted"
             ELSE e.status = "approved" /\ e.content = proposal'[p].content
      BY <1>1, <3>1, <3>2, VersionDecides
    <3>5. f # NoFact
      BY ReviewAssumption
    <3> QED
      BY <3>2, <3>3, <3>4, <3>5
  <2> QED
    BY <2>1, <2>2
<1>2. Init => AppliedTookEffect
  BY DEF Init, AppliedTookEffect, NoProposalRow
<1>3. /\ Inv /\ HistoryMatchesFact /\ RejectionsInformed
      /\ AppliedTookEffect /\ [Next]_vars
      => AppliedTookEffect'
  BY <1>1
<1> QED
  BY <1>2, <1>3, LockedRows, HistoryMatches, RejectionsKnow, PTL DEF Spec

-----------------------------------------------------------------------------
(* Who decided.                                                            *)

\* A version that no proposal made is the first of a memory in a scope that
\* asks for no review, or of a user's own memory.
LEMMA UnreviewedVersion ==
  ASSUME Inv, HistoryMatchesFact, NEW f \in Facts, NEW e \in VersionRows,
         NewVersion(f, e), e.proposal = NoProposal
  PROVE  \/ versions[f] = <<>> /\ fact'[f].scope \notin ReviewedScopes
         \/ fact'[f].scope \in Actors
<1>1. ~Reviewed(f, e)
  BY ReviewAssumption DEF Reviewed
<1>2. CASE Born(f, e)
  BY <1>1, <1>2 DEF Born
<1>3. CASE ~Born(f, e)
  <2>1. fact[f].status # "none" /\ fact[f].scope \in Actors
    BY <1>1, <1>3 DEF NewVersion, Amended, Archived, Deleted
  <2>2. versions[f] # <<>>
    BY <2>1 DEF HistoryMatchesFact
  <2>3. fact'[f].scope = fact[f].scope
    BY <2>2 DEF NewVersion, Inv, TypeOK
  <2> QED
    BY <2>1, <2>3
<1> QED
  BY <1>2, <1>3

\* Whoever an admin's decision replaces, a reviewer of a decided proposal is
\* an admin.
LEMMA ReviewersStay ==
  ASSUME Inv, HistoryMatchesFact, RejectionsInformed, [Next]_vars,
         NEW p \in Proposals, proposal[p].status # "none",
         proposal[p].reviewer \in Admins
  PROVE  proposal'[p].reviewer \in Admins
BY ProposalStep DEF Inserted, Decided

\* Nothing becomes, changes or ends a memory of a shared scope but what an
\* admin reviewed, or a first text where the scope asks for no review.
THEOREM SharedMemoriesReviewed == Spec => []SharedIsReviewed
<1> DEFINE Good(f, i) ==
      IF versions[f][i].proposal = NoProposal
      THEN i = 1 /\ fact[f].scope \notin ReviewedScopes
      ELSE proposal[versions[f][i].proposal].reviewer \in Admins
<1>1. ASSUME Inv, HistoryMatchesFact, PendingHasNoEffect, RejectionsInformed,
             SharedIsReviewed, [Next]_vars
      PROVE  SharedIsReviewed'
  <2> SUFFICES ASSUME NEW f \in Facts, fact'[f].scope \in SharedScopes,
                      NEW i \in 1..Len(versions'[f])
               PROVE  Good(f, i)'
    BY DEF SharedIsReviewed
  <2>0. versions[f] \in Seq(VersionRows) /\ Len(versions[f]) \in Nat
    BY <1>1 DEF Inv, TypeOK
  <2>1. ASSUME i \in 1..Len(versions[f]), versions'[f][i] = versions[f][i],
               fact'[f].scope = fact[f].scope
        PROVE  Good(f, i)'
    <3> DEFINE p == versions[f][i].proposal
    <3>1. Good(f, i)
      BY <1>1, <2>1 DEF SharedIsReviewed
    <3>2. CASE p = NoProposal
      BY <2>1, <3>1, <3>2
    <3>3. CASE p # NoProposal
      <4>1. versions[f][i] \in VersionRows
        BY <2>0, <2>1
      <4>2. p \in Proposals
        BY <3>3, <4>1 DEF VersionRows
      <4>3. proposal[p].status \in {"applied", "rejected"}
        BY <1>1, <2>1, <3>3 DEF PendingHasNoEffect
      <4>4. proposal[p].reviewer \in Admins
        BY <3>1, <3>3
      <4>5. proposal'[p].reviewer \in Admins
        BY <1>1, <4>2, <4>3, <4>4, ReviewersStay
      <4> QED
        BY <2>1, <3>3, <4>5
    <3> QED
      BY <3>2, <3>3
  <2>2. ASSUME NEW g \in Facts, NEW e \in VersionRows, NewVersion(g, e)
        PROVE  Good(f, i)'
    <3>1. CASE g # f
      <4>1. fact'[f] = fact[f]
        BY <1>1, <2>2, <3>1 DEF NewVersion, Inv, TypeOK
      <4>2. versions'[f] = versions[f]
        BY <1>1, <2>2, <3>1, AppendedHistory
      <4> QED
        BY <2>1, <4>1, <4>2
    <3>2. CASE g = f /\ i # Len(versions'[f])
      <4>1. i \in 1..Len(versions[f]) /\ versions'[f][i] = versions[f][i]
        BY <1>1, <2>0, <2>2, <3>2, AppendedHistory
      <4>2. versions[f] # <<>>
        BY <2>0, <4>1
      <4>3. fact'[f].scope = fact[f].scope
        BY <1>1, <2>2, <3>2, <4>2 DEF NewVersion, Inv, TypeOK
      <4> QED
        BY <2>1, <4>1, <4>3
    <3>3. CASE g = f /\ i = Len(versions'[f])
      <4>1. versions'[f][i] = e /\ i = Len(versions[f]) + 1
        BY <1>1, <2>2, <3>3, AppendedHistory
      <4>2. CASE e.proposal = NoProposal
        <5>1. versions[f] = <<>> /\ fact'[f].scope \notin ReviewedScopes
          BY <1>1, <2>2, <3>3, <4>2, UnreviewedVersion, RbacAssumption
        <5>2. i = 1
          BY <4>1, <5>1
        <5> QED
          BY <4>1, <4>2, <5>1, <5>2
      <4>3. CASE e.proposal # NoProposal
        <5>1. proposal'[e.proposal].reviewer \in Admins
          BY <1>1, <2>2, <4>3, VersionDecides DEF Decided
        <5> QED
          BY <4>1, <4>3, <5>1
      <4> QED
        BY <4>2, <4>3
    <3> QED
      BY <3>1, <3>2, <3>3
  <2>3. CASE UNCHANGED <<fact, versions>>
    BY <2>1, <2>3
  <2> QED
    BY <1>1, <2>2, <2>3, HistoryStep
<1>2. Init => SharedIsReviewed
  BY DEF Init, SharedIsReviewed
<1>3. /\ Inv /\ HistoryMatchesFact /\ PendingHasNoEffect
      /\ RejectionsInformed /\ SharedIsReviewed /\ [Next]_vars
      => SharedIsReviewed'
  BY <1>1
<1> QED
  BY <1>2, <1>3, LockedRows, HistoryMatches, PendingIsInert, RejectionsKnow,
     PTL DEF Spec

-----------------------------------------------------------------------------
(* Tags.                                                                   *)

\* What requests hold of the tags: a tag that is kept is there, a review about
\* to commit an update holds each tag of it, and nobody holds what another
\* request would have waited for.
TagLocksSound ==
  /\ \A w \in Workers :
       /\ \A g \in Tags : KeptTag(g) \in tx[w].held => g \in tagRows
       /\ Updating(tx[w]) => HoldsTags(tx[w])
  /\ \A v, w \in Workers : v # w =>
       \A l \in tx[v].held, m \in tx[w].held : ~Conflict(l, m)

\* Two writers wait for one another's rows alike.
LEMMA ConflictSymmetric ==
  ASSUME NEW l, NEW m, Conflict(l, m)
  PROVE  Conflict(m, l)
  BY DEF Conflict

\* A tag that is kept was there.
LEMMA KeptTagsAreThere ==
  ASSUME NEW t, NEW g, KeptTag(g) \in Needed(t)
  PROVE  g \in tagRows
<1>1. \A tags : KeptTag(g) \in SyncLocks(tags) => g \in tagRows
  BY DEF SyncLocks, KeptTag, NewTag
<1>2. /\ KeptTag(g) \notin Mappings
      /\ \A h : KeptTag(g) # GoneTag(h)
  BY DEF Mappings, KeptTag, GoneTag
<1> QED
  BY <1>1, <1>2 DEF Needed

\* Nobody keeps a tag whose deletion is about to commit.
LEMMA DeletedTagsAreFree ==
  ASSUME TagLocksSound, NEW v \in Workers, DeleteTag(v), NEW w \in Workers,
         w # v, NEW g \in Tags, KeptTag(g) \in tx[w].held
  PROVE  g \notin tx[v].tags
<1> DEFINE t == tx[v]
           deleted == {GoneTag(h) : h \in t.tags \cap tagRows}
<1>1. deleted \subseteq t.held
  <2>1. ((IF deleted \subseteq t.held THEN {l \in Mappings : l.tag \in t.tags}
          ELSE deleted) \ t.held) = {}
    BY DEF DeleteTag, Needed
  <2> QED
    BY <2>1
<1>2. Conflict(KeptTag(g), GoneTag(g))
  BY DEF Conflict, KeptTag, GoneTag
<1>3. GoneTag(g) \notin t.held
  BY <1>2 DEF TagLocksSound
<1>4. g \in tagRows
  BY DEF TagLocksSound
<1> QED
  BY <1>1, <1>3, <1>4

\* A request whose tags stay as they are, or are freed, leaves the others'.
LEMMA HeldTagsStay ==
  ASSUME Inv, TagLocksSound, NEW w \in Workers, NEW r,
         tx' = [tx EXCEPT ![w] = r],
         r.held = {} \/ r.held = tx[w].held,
         Updating(r) => HoldsTags(r),
         \A v \in Workers, g \in Tags :
           KeptTag(g) \in tx'[v].held => g \in tagRows'
  PROVE  TagLocksSound'
<1>1. tx'[w] = r /\ \A v \in Workers \ {w} : tx'[v] = tx[v]
  BY DEF Inv, TypeOK
<1>2. \A v \in Workers : tx'[v].held \subseteq tx[v].held
  BY <1>1
<1>3. \A v \in Workers : Updating(tx'[v]) => HoldsTags(tx'[v])
  BY <1>1 DEF TagLocksSound
<1>4. \A u, v \in Workers : u # v =>
        \A l \in tx'[u].held, m \in tx'[v].held : ~Conflict(l, m)
  BY <1>2 DEF TagLocksSound
<1>5. \A v \in Workers : Updating(tx[v])' => HoldsTags(tx[v])'
  BY <1>3 DEF Updating, HoldsTags, UpdatedTags, FinalTags
<1> QED
  BY <1>4, <1>5 DEF TagLocksSound

\* Requests take tags only when nobody holds them in their way.
LEMMA TagLocksSoundStep ==
  ASSUME Inv, TagLocksSound, [Next]_vars
  PROVE  TagLocksSound'
<1>1. ASSUME NEW w \in Workers, NEW r, tx' = [tx EXCEPT ![w] = r],
             r.held = {} \/ r.held = tx[w].held,
             Updating(r) => HoldsTags(r),
             tagRows \subseteq tagRows'
      PROVE  TagLocksSound'
  <2>1. \A v \in Workers : tx'[v].held \subseteq tx[v].held
    BY <1>1 DEF Inv, TypeOK
  <2>2. \A v \in Workers, g \in Tags :
          KeptTag(g) \in tx'[v].held => g \in tagRows'
    BY <1>1, <2>1 DEF TagLocksSound
  <2> QED
    BY <1>1, <2>2, HeldTagsStay
<1>2. CASE UNCHANGED <<tx, tagRows>>
  BY <1>2
  DEF TagLocksSound, Updating, HoldsTags, UpdatedTags, FinalTags
<1>3. ASSUME NEW a \in Actors, NEW tag \in Tags, CreateTag(a, tag)
      PROVE  TagLocksSound'
  <2>1. UNCHANGED tx /\ tagRows \subseteq tagRows'
    BY <1>3 DEF CreateTag
  <2> QED
    BY <2>1 DEF TagLocksSound, Updating, HoldsTags, UpdatedTags, FinalTags
<1>4. ASSUME NEW w \in Workers, Arrive(w)
      PROVE  TagLocksSound'
  <2>1. PICK r : Receive(w, r) /\ r.held = {} /\ ~Updating(r)
    BY <1>4, ArriveReceives
  <2>2. tx' = [tx EXCEPT ![w] = r]
    BY <2>1 DEF Receive
  <2>3. tagRows \subseteq tagRows'
    BY <1>4, ArriveQuiet
  <2> QED
    BY <1>1, <2>1, <2>2, <2>3
<1>5. ASSUME NEW w \in Workers, DeleteTag(w)
      PROVE  TagLocksSound'
  <2>1. /\ tx' = [tx EXCEPT ![w] = Idle]
        /\ tagRows' = tagRows \ tx[w].tags
    BY <1>5 DEF DeleteTag
  <2>2. Idle.held = {} /\ ~Updating(Idle)
    BY DEF Idle, Updating
  <2>3. ASSUME NEW v \in Workers, NEW g \in Tags, KeptTag(g) \in tx'[v].held
        PROVE  g \in tagRows'
    <3>1. v # w /\ tx'[v] = tx[v]
      BY <2>1, <2>2, <2>3 DEF Inv, TypeOK
    <3>2. g \in tagRows
      BY <2>3, <3>1 DEF TagLocksSound
    <3> QED
      BY <1>5, <2>1, <2>3, <3>1, <3>2, DeletedTagsAreFree
  <2> QED
    BY <2>1, <2>2, <2>3, HeldTagsStay
<1>6. ASSUME NEW w \in Workers, WriteTagRow(w)
      PROVE  TagLocksSound'
  <2>1. PICK l \in Needed(tx[w]) :
          /\ FreeFor(w, l)
          /\ tx' = [tx EXCEPT ![w].held = @ \cup {l}]
          /\ UNCHANGED tagRows
    BY <1>6 DEF WriteTagRow, db
  <2> DEFINE r == [tx[w] EXCEPT !.held = @ \cup {l}]
  <2>2. /\ tx'[w] = r
        /\ \A v \in Workers \ {w} : tx'[v] = tx[v]
    BY <2>1 DEF Inv, TypeOK
  <2>3. /\ r.held = tx[w].held \cup {l}
        /\ r.pc = tx[w].pc
        /\ r.op = tx[w].op
        /\ r.prow = tx[w].prow
        /\ r.frow = tx[w].frow
        /\ r.tags = tx[w].tags
    BY DEF Inv, TypeOK, Requests
  <2> HIDE DEF r
  <2>4. \A v \in Workers, g \in Tags :
          KeptTag(g) \in tx'[v].held => g \in tagRows'
    BY <2>1, <2>2, <2>3, KeptTagsAreThere DEF TagLocksSound
  <2>5. \A u, v \in Workers : u # v =>
          \A k \in tx'[u].held, m \in tx'[v].held : ~Conflict(k, m)
    <3>1. \A v \in Workers \ {w} : \A m \in tx[v].held :
            ~Conflict(l, m) /\ ~Conflict(m, l)
      BY <2>1, ConflictSymmetric DEF FreeFor
    <3> QED
      BY <2>2, <2>3, <3>1 DEF TagLocksSound
  <2>6. \A v \in Workers : Updating(tx'[v]) => HoldsTags(tx'[v])
    <3>1. Updating(r) => HoldsTags(r)
      BY <2>3 DEF TagLocksSound, Updating, HoldsTags, UpdatedTags, FinalTags
    <3> QED
      BY <2>2, <3>1 DEF TagLocksSound
  <2>7. \A v \in Workers : Updating(tx[v])' => HoldsTags(tx[v])'
    BY <2>6 DEF Updating, HoldsTags, UpdatedTags, FinalTags
  <2> QED
    BY <2>4, <2>5, <2>7 DEF TagLocksSound
<1>7. ASSUME NEW w \in Workers, Advance(w) \/ Abort(w), ~DeleteTag(w),
             ~WriteTagRow(w)
      PROVE  TagLocksSound'
  <2>1. PICK r : /\ tx' = [tx EXCEPT ![w] = r]
                 /\ Updating(r) => HoldsTags(r)
                 /\ r.held = {} \/ r.held = tx[w].held
    BY <1>7, AdvanceMoves
  <2>2. tagRows \subseteq tagRows'
    BY <1>7
    DEF Advance, Abort, OutOfRows, DeadlockVictim, Rollback, ReadFact,
        InsertProposal, LockProposal, LockFact, StageVersion, CommitDirect,
        CommitCreate, CommitChange, SaveRejection, CommitUserStatus,
        AttachTag, DetachTag, db
  <2> QED
    BY <1>1, <2>1, <2>2
<1> QED
  BY <1>2, <1>3, <1>4, <1>5, <1>6, <1>7 DEF Next, vars

\* What a commit maps is there or inserted by it.
LEMMA SyncedTagsExist ==
  ASSUME NEW tags, NEW t, SyncLocks(tags) \subseteq t.held,
         tags \in SUBSET Tags
  PROVE  tags \subseteq tagRows \cup InsertedTags(t)
  BY DEF SyncLocks, InsertedTags

\* Reviews, the dashboard and the cascade of a deleted tag keep every mapping
\* on an existing tag.
THEOREM MappingsKeepTheirTags == Spec => []MappedTagsExist
<1>1. ASSUME Inv, TagLocksSound, MappedTagsExist, [Next]_vars
      PROVE  MappedTagsExist'
  <2> USE DEF MappedTagsExist, Inv, TypeOK
  <2>1. ASSUME NEW a, NEW tag, CreateTag(a, tag)
        PROVE  MappedTagsExist'
    BY <1>1, <2>1 DEF CreateTag
  <2>2. ASSUME NEW w \in Workers, Arrive(w)
        PROVE  /\ UNCHANGED factTags
               /\ tagRows \subseteq tagRows'
    BY <2>2, ArriveQuiet
  <2>3. ASSUME NEW w \in Workers, CommitDirect(w) \/ CommitCreate(w)
        PROVE  MappedTagsExist'
    <3> DEFINE t == tx[w]
               tags == IF t.op = "createDirect" THEN t.frow.tags
                       ELSE FinalTags(t)
    <3>1. PICK f \in Facts : factTags' = [factTags EXCEPT ![f] = tags]
      BY <2>3 DEF CommitDirect, CommitCreate, ReviewOps
    <3>2. tagRows' = tagRows \cup InsertedTags(t)
      BY <2>3 DEF CommitDirect, CommitCreate
    <3>3. SyncLocks(tags) \subseteq t.held
      BY <2>3 DEF CommitDirect, CommitCreate, Needed, ReviewOps
    <3>4. tags \in SUBSET Tags
      BY <1>1 DEF Requests, FactRows, ProposalRows, FinalTags
    <3> HIDE DEF tags
    <3>5. tags \subseteq tagRows'
      BY <3>2, <3>3, <3>4, SyncedTagsExist
    <3> QED
      BY <1>1, <3>1, <3>2, <3>5
  <2>4. ASSUME NEW w \in Workers, CommitChange(w)
        PROVE  MappedTagsExist'
    <3> DEFINE t == tx[w]
               row == ChangedFact(t)
    <3>1. /\ t.pc = "commit"
          /\ t.op \in ReviewOps
          /\ tagRows' = tagRows \cup InsertedTags(t)
          /\ factTags' = IF t.prow.type = "update"
                         THEN [factTags EXCEPT ![t.fid] = row.tags]
                         ELSE factTags
      BY <2>4 DEF CommitChange
    <3>2. CASE t.prow.type = "update"
      <4>1. t.fid \in Facts
        BY <1>1, <3>1, <3>2, LockedProposal DEF CompleteProposal
      <4>2. t.frow \in FactRows
        BY <1>1 DEF Requests
      <4>3. row.tags = UpdatedTags(t)
        BY <3>1, <3>2, <4>2 DEF ChangedFact, ReviewOps, FactRows
      <4>4. HoldsTags(t)
        BY <1>1, <3>1, <3>2 DEF TagLocksSound, Updating
      <4>5. UpdatedTags(t) \in SUBSET Tags
        BY <1>1, <4>2
        DEF Requests, FactRows, ProposalRows, UpdatedTags, FinalTags
      <4>6. row.tags \subseteq tagRows'
        BY <1>1, <3>1, <4>3, <4>4, <4>5
        DEF HoldsTags, InsertedTags, TagLocksSound
      <4> HIDE DEF row
      <4> QED
        BY <1>1, <3>1, <3>2, <4>1, <4>6
    <3>3. CASE t.prow.type # "update"
      BY <1>1, <3>1, <3>3
    <3> QED
      BY <3>2, <3>3
  <2>5. ASSUME NEW w \in Workers, AttachTag(w) \/ DetachTag(w)
        PROVE  MappedTagsExist'
    <3> DEFINE t == tx[w]
    <3>1. PICK tags :
            /\ tags \subseteq tagRows \cup factTags[t.fid]
            /\ \/ factTags' = factTags
               \/ factTags' = [factTags EXCEPT ![t.fid] = tags]
            /\ tagRows' = tagRows
      BY <2>5 DEF AttachTag, DetachTag
    <3>2. CASE t.fid \in Facts
      BY <1>1, <3>1, <3>2
    <3>3. CASE t.fid \notin Facts
      BY <1>1, <3>1, <3>3
    <3> QED
      BY <3>2, <3>3
  <2>6. ASSUME NEW w \in Workers, DeleteTag(w)
        PROVE  MappedTagsExist'
    BY <1>1, <2>6 DEF DeleteTag
  <2>7. ASSUME NEW w \in Workers, Advance(w) \/ Abort(w)
        PROVE  \/ UNCHANGED <<tagRows, factTags>>
               \/ CommitDirect(w) \/ CommitCreate(w) \/ CommitChange(w)
               \/ AttachTag(w) \/ DetachTag(w) \/ DeleteTag(w)
    BY <2>7
    DEF Advance, Abort, OutOfRows, DeadlockVictim, Rollback, ReadFact,
        InsertProposal, LockProposal, LockFact, WriteTagRow, StageVersion,
        SaveRejection, CommitUserStatus, db
  <2>8. CASE UNCHANGED <<tagRows, factTags>>
    BY <1>1, <2>8
  <2> QED
    BY <1>1, <2>1, <2>2, <2>3, <2>4, <2>5, <2>6, <2>7, <2>8 DEF Next, vars
<1>2. Init => MappedTagsExist /\ TagLocksSound
  BY DEF Init, MappedTagsExist, TagLocksSound, Idle, Updating
<1>3. Inv /\ TagLocksSound /\ MappedTagsExist /\ [Next]_vars
        => MappedTagsExist' /\ TagLocksSound'
  BY <1>1, TagLocksSoundStep
<1> QED
  BY <1>2, <1>3, LockedRows, PTL DEF Spec
=============================================================================
