---------------------------- MODULE MemoryReview ----------------------------
(***************************************************************************)
(* The write side of the memory bank: app/services/memory_service.py and   *)
(* the writes of dashboard_memory_service.py, over the tables of           *)
(* app/models/memory.py and app/models/review.py.                          *)
(*                                                                         *)
(* A worker is one HTTP or MCP request being served.  Requests interleave  *)
(* at every database call, in any number of server processes, so each      *)
(* call is a step.  Rows locked by SELECT ... FOR UPDATE make other        *)
(* lockers and writers of the row wait until the holder's transaction      *)
(* ends, and so do the writers of a tag or mapping that a transaction has  *)
(* written; what a transaction writes appears, all at once, at its commit  *)
(* (READ COMMITTED).  A plain read never waits.  Any request may die       *)
(* between two calls, and its open transaction is then rolled back; when   *)
(* requests wait for one another, PostgreSQL fails one of them.            *)
(***************************************************************************)
EXTENDS Naturals, Sequences, Rbac

CONSTANTS Workers, Facts, Proposals, Contents, Tags, Keys,
          Secrets,         \* the contents in which SafetyService sees a secret
          ReviewedScopes,  \* scopes with require_review_for_repo/org_memory on
          NoWorker, NoFact, NoProposal, NoContent, NoActor, NoKey

ASSUME ReviewAssumption ==
  /\ Secrets \subseteq Contents
  /\ ReviewedScopes \subseteq SharedScopes
  /\ NoWorker \notin Workers
  /\ NoFact \notin Facts
  /\ NoProposal \notin Proposals
  /\ NoContent \notin Contents
  /\ NoActor \notin Scopes
  /\ NoKey \notin Keys

VARIABLES fact,       \* engram_memory_facts
          versions,   \* engram_memory_fact_versions: of each fact, by number
          proposal,   \* engram_memory_proposals
          tagRows,    \* engram_tags, a tag being its slug
          factTags,   \* engram_memory_fact_tags
          factLock, proposalLock,  \* holders of the row locks
          tx          \* what each worker is doing

db    == <<fact, versions, proposal, tagRows, factTags>>
locks == <<factLock, proposalLock>>
vars  == <<fact, versions, proposal, tagRows, factTags,
           factLock, proposalLock, tx>>

-----------------------------------------------------------------------------
(* Rows.  A row that was never inserted has status "none".                 *)

FactStatuses == {"approved", "archived", "deleted"}

FactRows == [status  : FactStatuses \cup {"none"},
             scope   : Scopes \cup {NoActor},
             content : Contents \cup {NoContent},
             tags    : SUBSET Tags]         \* metadata["tags"]

VersionRows == [proposal : Proposals \cup {NoProposal},
                status   : FactStatuses,
                content  : Contents]

\* No code path writes the statuses APPROVED and CANCELLED, nor type MERGE.
ProposalRows == [status   : {"none", "pending", "applied", "rejected"},
                 type     : {"create", "update", "delete"},
                 scope    : Scopes \cup {NoActor},
                 fact     : Facts \cup {NoFact},
                 content  : Contents \cup {NoContent},
                 tags     : SUBSET Tags,
                 key      : Keys \cup {NoKey},      \* idempotency_key
                 creator  : Actors \cup {NoActor},
                 reviewer : Actors \cup {NoActor}]

NoFactRow == [status |-> "none", scope |-> NoActor,
              content |-> NoContent, tags |-> {}]

NoProposalRow == [status |-> "none", type |-> "create", scope |-> NoActor,
                  fact |-> NoFact, content |-> NoContent, tags |-> {},
                  key |-> NoKey, creator |-> NoActor, reviewer |-> NoActor]

(* A request: where it is (pc), its arguments, and the rows it holds in    *)
(* memory, which may be older than the tables.                             *)

Pcs == {"idle", "readFact", "insert", "lockProposal", "lockFact", "stage",
        "commit", "saveRejection", "writeTag", "deleteTag"}

Ops == {"none", "createDirect", "create", "update", "delete", "approve",
        "applyEdited", "reject", "archiveUser", "deleteUser", "attachTag",
        "detachTag", "deleteTag"}

\* What a transaction has written of tags and mappings, and locks by that: a
\* tag it inserted ("new"), a tag it mapped, which its foreign key keeps from
\* deletion ("kept"), a tag it deleted ("gone"), a mapping it deleted.
TagLocks == [kind : {"new", "kept", "gone", "mapping"},
             fact : Facts \cup {NoFact},
             tag  : Tags]

NewTag(g)  == [kind |-> "new",  fact |-> NoFact, tag |-> g]
KeptTag(g) == [kind |-> "kept", fact |-> NoFact, tag |-> g]
GoneTag(g) == [kind |-> "gone", fact |-> NoFact, tag |-> g]

Requests == [pc      : Pcs,
             op      : Ops,
             actor   : Actors \cup {NoActor},
             pid     : Proposals \cup {NoProposal},
             fid     : Facts \cup {NoFact},
             content : Contents \cup {NoContent},
             tags    : SUBSET Tags,
             key     : Keys \cup {NoKey},
             prow    : ProposalRows,   \* the MemoryProposal object
             frow    : FactRows,       \* the MemoryFact object
             number  : Nat,            \* the version number about to be used
             held    : SUBSET TagLocks]

Idle == [pc |-> "idle", op |-> "none", actor |-> NoActor,
         pid |-> NoProposal, fid |-> NoFact, content |-> NoContent,
         tags |-> {}, key |-> NoKey, prow |-> NoProposalRow,
         frow |-> NoFactRow, number |-> 0, held |-> {}]

ReviewOps == {"approve", "applyEdited"}
UserOps   == {"archiveUser", "deleteUser"}
TagOps    == {"attachTag", "detachTag"}

TypeOK ==
  /\ fact \in [Facts -> FactRows]
  /\ versions \in [Facts -> Seq(VersionRows)]
  /\ proposal \in [Proposals -> ProposalRows]
  /\ tagRows \subseteq Tags
  /\ factTags \in [Facts -> SUBSET Tags]
  /\ factLock \in [Facts -> Workers \cup {NoWorker}]
  /\ proposalLock \in [Proposals -> Workers \cup {NoWorker}]
  /\ tx \in [Workers -> Requests]

Init ==
  /\ fact = [f \in Facts |-> NoFactRow]
  /\ versions = [f \in Facts |-> <<>>]
  /\ proposal = [p \in Proposals |-> NoProposalRow]
  /\ tagRows = {}
  /\ factTags = [f \in Facts |-> {}]
  /\ factLock = [f \in Facts |-> NoWorker]
  /\ proposalLock = [p \in Proposals |-> NoWorker]
  /\ tx = [w \in Workers |-> Idle]

\* An idle worker takes the request r, whose missing fields are those of Idle.
Receive(w, r) ==
  /\ tx[w] = Idle
  /\ tx' = [tx EXCEPT ![w] = r]

\* The end of w's request and of its transaction, which frees its row locks.
FreeLocks(w) ==
  /\ factLock' = [f \in Facts |->
                    IF factLock[f] = w THEN NoWorker ELSE factLock[f]]
  /\ proposalLock' = [p \in Proposals |->
                    IF proposalLock[p] = w THEN NoWorker ELSE proposalLock[p]]

Finish(w) ==
  /\ tx' = [tx EXCEPT ![w] = Idle]
  /\ FreeLocks(w)

Rollback(w) == Finish(w) /\ UNCHANGED db

-----------------------------------------------------------------------------
(* The tags of a transaction.  It takes their locks one by one, in the     *)
(* order of a list that is the client's, and frees them when it ends.      *)

\* The text and tags a review would record: the reviewer's, when edited.
FinalContent(t) == IF t.op = "applyEdited" THEN t.content ELSE t.prow.content
FinalTags(t)    == IF t.op = "applyEdited" THEN t.tags ELSE t.prow.tags

\* The labels of a memory after an update: an update without tags keeps them.
UpdatedTags(t) == IF FinalTags(t) = {} THEN t.frow.tags ELSE FinalTags(t)

\* The rows of engram_memory_fact_tags, as what deleting them would lock.
Mappings == {l \in TagLocks : /\ l.kind = "mapping"
                              /\ l.fact \in Facts
                              /\ l.tag \in factTags[l.fact]}

\* Tag.get_or_create and the mapping of each tag: a tag that is there is kept,
\* another one is inserted.
SyncLocks(tags) ==
  {KeptTag(g) : g \in tags \cap tagRows} \cup {NewTag(g) : g \in tags \ tagRows}

\* What request t has yet to write of tags and mappings before it can go on.
\* _sync_fact_tags deletes the mappings of an updated memory before it makes
\* the new ones; the deletion of a tag cascades to its mappings.
Needed(t) ==
  CASE t.pc = "commit" /\ t.op = "createDirect" ->
         SyncLocks(t.frow.tags) \ t.held
    [] t.pc = "commit" /\ t.op \in ReviewOps /\ t.prow.type = "create" ->
         SyncLocks(FinalTags(t)) \ t.held
    [] t.pc = "stage" /\ t.op \in ReviewOps /\ t.prow.type = "update" ->
         LET old == {l \in Mappings : l.fact = t.fid} IN
         (IF old \subseteq t.held THEN SyncLocks(UpdatedTags(t)) ELSE old)
           \ t.held
    [] t.pc = "deleteTag" ->
         LET deleted == {GoneTag(g) : g \in t.tags \cap tagRows} IN
         (IF deleted \subseteq t.held THEN {l \in Mappings : l.tag \in t.tags}
          ELSE deleted) \ t.held
    [] OTHER -> {}

\* A second insert of a tag waits for the first, a mapping for a deletion of
\* its tag and the other way round, a deletion for one of the same row.
Conflict(l, m) ==
  /\ l.tag = m.tag
  /\ \/ l.kind = "new" /\ m.kind = "new"
     \/ l.kind = "kept" /\ m.kind = "gone"
     \/ l.kind = "gone" /\ m.kind \in {"kept", "gone"}
     \/ l.kind = "mapping" /\ m.kind = "mapping" /\ l.fact = m.fact

\* Nobody but w makes a writer of l wait.
FreeFor(w, l) ==
  \A v \in Workers \ {w} : \A m \in tx[v].held : ~Conflict(l, m)

WriteTagRow(w) ==
  \E l \in Needed(tx[w]) :
    /\ FreeFor(w, l)
    /\ tx' = [tx EXCEPT ![w].held = @ \cup {l}]
    /\ UNCHANGED <<db, locks>>

InsertedTags(t) == {g \in Tags : NewTag(g) \in t.held}

\* w cannot go on before v's transaction ends.
WaitsFor(w, v) ==
  /\ v # w
  /\ \/ tx[w].pc = "lockProposal" /\ proposalLock[tx[w].pid] = v
     \/ tx[w].pc = "lockFact" /\ factLock[tx[w].fid] = v
     \/ \E l \in Needed(tx[w]), m \in tx[v].held : Conflict(l, m)

\* Requests around w, each of which waits for the next one.
Deadlocked(w) ==
  \E S \in SUBSET Workers :
    /\ w \in S
    /\ \E next \in [S -> S] :
         /\ \A v \in S : WaitsFor(v, next[v])
         /\ \A u \in S : \E v \in S : next[v] = u

\* Mutant: the service runs the transaction of a deadlock's victim again.
RetryVictim(w) ==
  /\ Deadlocked(w)
  /\ tx' = [tx EXCEPT ![w] =
       IF tx[w].op \in ReviewOps
       THEN [tx[w] EXCEPT !.pc = "lockProposal", !.fid = NoFact,
                          !.prow = NoProposalRow, !.frow = NoFactRow,
                          !.number = 0, !.held = {}]
       ELSE [tx[w] EXCEPT !.held = {}]]
  /\ FreeLocks(w)
  /\ UNCHANGED db

\* PostgreSQL fails one of the requests that wait in a circle, and nothing in
\* the code tries it again.
DeadlockVictim(w) == Deadlocked(w) /\ Rollback(w)

-----------------------------------------------------------------------------
(* Direct creation and proposals.                                          *)

\* create_direct_memory opens a transaction and inserts the fact...
CreateDirectMemory(w, a, scope, content, tags) ==
  /\ scope \notin ReviewedScopes
  /\ CanCreateMemory(a, scope) \/ CanProposeMemory(a, scope)
  /\ content \notin Secrets
  /\ Receive(w, [Idle EXCEPT !.pc = "commit", !.op = "createDirect",
       !.actor = a,
       !.frow = [status |-> "approved", scope |-> scope,
                 content |-> content, tags |-> tags]])
  /\ UNCHANGED <<db, locks>>

\* ...then its tags and version 1, and commits.
CommitDirect(w) ==
  LET t == tx[w] IN
  /\ t.pc = "commit"
  /\ t.op = "createDirect"
  /\ Needed(t) = {}
  /\ \E f \in Facts :
       /\ fact[f].status = "none"
       /\ fact' = [fact EXCEPT ![f] = t.frow]
       /\ versions' = [versions EXCEPT ![f] =
            <<[proposal |-> NoProposal, status |-> "approved",
               content |-> t.frow.content]>>]
       /\ factTags' = [factTags EXCEPT ![f] = t.frow.tags]
  /\ tagRows' = tagRows \cup InsertedTags(t)
  /\ Finish(w)
  /\ UNCHANGED proposal

\* A key already in the table is answered without a write: a replay to its
\* creator, a conflict to anybody else.
KeyTaken(k) == k # NoKey /\ \E p \in Proposals : proposal[p].key = k

\* Nobody has inserted one of these tags without having committed yet.
NoneInserted(tags) ==
  \A w \in Workers, g \in tags : NewTag(g) \notin tx[w].held

\* create_memory for a scope under review, up to the insert of the proposal.
\* Each missing tag is inserted and committed on its own, and what others have
\* inserted is waited for, before the request is anything to anybody else.
ProposeCreate(w, a, scope, content, tags, k) ==
  /\ scope \in ReviewedScopes
  /\ CanProposeMemory(a, scope)
  /\ ~KeyTaken(k)
  /\ NoneInserted(tags)
  /\ Receive(w, [Idle EXCEPT !.pc = "insert", !.op = "create", !.actor = a,
       !.prow = [NoProposalRow EXCEPT
                   !.status = "pending", !.type = "create", !.scope = scope,
                   !.content = content, !.tags = tags, !.key = k,
                   !.creator = a]])
  /\ tagRows' = tagRows \cup tags
  /\ UNCHANGED <<fact, versions, proposal, factTags, factLock, proposalLock>>

\* The idempotency lookup comes before anything is checked.
ProposeChange(w, a, op, f, content, tags, k) ==
  /\ op \in {"update", "delete"}
  /\ fact[f].status # "none"
  /\ ~KeyTaken(k)
  /\ Receive(w, [Idle EXCEPT !.pc = "readFact", !.op = op, !.actor = a,
                   !.fid = f, !.content = content, !.tags = tags, !.key = k])
  /\ UNCHANGED <<db, locks>>

\* The fact is read without a lock; the proposal is built from what was read.
ReadFact(w) ==
  LET t   == tx[w]
      row == fact[t.fid]
  IN
  /\ t.pc = "readFact"
  /\ IF /\ CanReadMemory(t.actor, row)
        /\ row.status = "approved"
        /\ CanProposeMemory(t.actor, row.scope)
     THEN tx' = [tx EXCEPT ![w] = [Idle EXCEPT
            !.pc = "insert", !.op = t.op, !.actor = t.actor,
            !.prow = [NoProposalRow EXCEPT
                        !.status = "pending", !.type = t.op,
                        !.scope = row.scope, !.fact = t.fid,
                        !.content = t.content, !.tags = t.tags,
                        !.key = t.key, !.creator = t.actor]]]
     ELSE tx' = [tx EXCEPT ![w] = Idle]
  /\ UNCHANGED <<db, locks>>

\* Mutant: no UNIQUE constraint on idempotency_key.
InsertProposalTwice(w) ==
  /\ tx[w].pc = "insert"
  /\ tx' = [tx EXCEPT ![w] = Idle]
  /\ \E p \in Proposals :
       /\ proposal[p].status = "none"
       /\ proposal' = [proposal EXCEPT ![p] = tx[w].prow]
  /\ UNCHANGED <<fact, versions, tagRows, factTags, locks>>

\* The foreign key of the new row waits for a lock on its fact.  The column
\* idempotency_key is UNIQUE: a second insert of a key is an IntegrityError.
InsertProposal(w) ==
  /\ tx[w].pc = "insert"
  /\ tx[w].prow.fact # NoFact => factLock[tx[w].prow.fact] = NoWorker
  /\ tx' = [tx EXCEPT ![w] = Idle]
  /\ IF KeyTaken(tx[w].prow.key)
     THEN UNCHANGED proposal
     ELSE \E p \in Proposals :
            /\ proposal[p].status = "none"
            /\ proposal' = [proposal EXCEPT ![p] = tx[w].prow]
  /\ UNCHANGED <<fact, versions, tagRows, factTags, locks>>

-----------------------------------------------------------------------------
(* Review: approval, edited approval and rejection of a proposal.          *)

\* approve_proposal (no content) and apply_edited_proposal open a transaction.
StartReview(w, a, op, p, content, tags) ==
  /\ op \in ReviewOps
  /\ proposal[p].status # "none"
  /\ Receive(w, [Idle EXCEPT !.pc = "lockProposal", !.op = op, !.actor = a,
                   !.pid = p, !.content = content, !.tags = tags])
  /\ UNCHANGED <<db, locks>>

\* Mutant: APPLIED proposals are not answered as replays.
CanBeAppliedAgain(t) ==
  /\ CanApproveMemory(t.actor)
  /\ t.prow.status \in {"pending", "applied"}
  /\ t.op = "applyEdited" => t.prow.type # "delete"
  /\ t.prow.type # "delete" => FinalContent(t) \notin Secrets

\* Mutant: anybody who may propose may approve.
CanBeAppliedByAnyone(t) ==
  /\ t.prow.status = "pending"
  /\ t.op = "applyEdited" => t.prow.type # "delete"
  /\ t.prow.type # "delete" => FinalContent(t) \notin Secrets

\* The checks made on the locked proposal before anything is written.  An
\* applied proposal is answered as a replay, without a write.
CanBeApplied(t) ==
  /\ CanApproveMemory(t.actor)
  /\ t.prow.status = "pending"
  /\ t.op = "applyEdited" => t.prow.type # "delete"
  /\ t.prow.type # "delete" => FinalContent(t) \notin Secrets

\* Mutant: the proposal is read without FOR UPDATE.
ReadProposalUnlocked(w) ==
  LET t == [tx[w] EXCEPT !.prow = proposal[tx[w].pid],
                         !.fid  = proposal[tx[w].pid].fact,
                         !.pc   = IF proposal[tx[w].pid].type = "create"
                                  THEN "commit" ELSE "lockFact"]
  IN
  /\ tx[w].pc = "lockProposal"
  /\ tx' = [tx EXCEPT ![w] = IF CanBeApplied(t) THEN t ELSE Idle]
  /\ UNCHANGED <<db, locks>>

LockProposal(w) ==
  LET t == [tx[w] EXCEPT !.prow = proposal[tx[w].pid],
                         !.fid  = proposal[tx[w].pid].fact,
                         !.pc   = IF proposal[tx[w].pid].type = "create"
                                  THEN "commit" ELSE "lockFact"]
  IN
  /\ tx[w].pc = "lockProposal"
  /\ proposalLock[tx[w].pid] = NoWorker
  /\ IF CanBeApplied(t)
     THEN /\ tx' = [tx EXCEPT ![w] = t]
          /\ proposalLock' = [proposalLock EXCEPT ![t.pid] = w]
     ELSE /\ tx' = [tx EXCEPT ![w] = Idle]
          /\ UNCHANGED proposalLock
  /\ UNCHANGED <<db, factLock>>

\* Mutants: mark_applied sets the status APPROVED, sets none, or forgets the
\* reviewer's text.
AppliedRowApproved(t, f) ==
  [t.prow EXCEPT !.status = "approved", !.reviewer = t.actor, !.fact = f,
                 !.content = FinalContent(t), !.tags = FinalTags(t)]

AppliedRowPending(t, f) ==
  [t.prow EXCEPT !.reviewer = t.actor, !.fact = f,
                 !.content = FinalContent(t), !.tags = FinalTags(t)]

AppliedRowUnedited(t, f) ==
  [t.prow EXCEPT !.status = "applied", !.reviewer = t.actor, !.fact = f]

\* The row a review saves: status APPLIED, the reviewer, and what was edited.
AppliedRow(t, f) ==
  [t.prow EXCEPT !.status = "applied", !.reviewer = t.actor, !.fact = f,
                 !.content = FinalContent(t), !.tags = FinalTags(t)]

\* Approval of a CREATE proposal: new fact, version 1, proposal saved.
CommitCreate(w) ==
  LET t == tx[w] IN
  /\ t.pc = "commit"
  /\ t.op \in ReviewOps
  /\ t.prow.type = "create"
  /\ Needed(t) = {}
  /\ \E f \in Facts :
       /\ fact[f].status = "none"
       /\ fact' = [fact EXCEPT ![f] =
            [status |-> "approved", scope |-> t.prow.scope,
             content |-> FinalContent(t), tags |-> FinalTags(t)]]
       /\ versions' = [versions EXCEPT ![f] =
            <<[proposal |-> t.pid, status |-> "approved",
               content |-> FinalContent(t)]>>]
       /\ factTags' = [factTags EXCEPT ![f] = FinalTags(t)]
       /\ proposal' = [proposal EXCEPT ![t.pid] = AppliedRow(t, f)]
  /\ tagRows' = tagRows \cup InsertedTags(t)
  /\ Finish(w)

\* Mutant: an approval does not look at the status of the locked memory.
FactAcceptsAnyStatus(t, row) ==
  \/ t.op \in ReviewOps
  \/ /\ t.op \in UserOps
     /\ row.scope \in Actors
     /\ CanDeleteMemory(t.actor, row)
     /\ row.status \in {"approved", "archived"}

\* What a request may do to the fact row it has just locked.
FactAccepts(t, row) ==
  \/ t.op \in ReviewOps /\ row.status = "approved"
  \/ /\ t.op \in UserOps
     /\ row.scope \in Actors
     /\ CanDeleteMemory(t.actor, row)
     /\ \/ row.status = "approved"
        \/ row.status = "archived" /\ t.op = "deleteUser"

\* Mutant: the memory is read without FOR UPDATE.
ReadFactUnlocked(w) ==
  LET t == tx[w] IN
  /\ t.pc = "lockFact"
  /\ IF FactAccepts(t, fact[t.fid])
     THEN /\ tx' = [tx EXCEPT ![w] =
               [t EXCEPT !.pc = "stage", !.frow = fact[t.fid]]]
          /\ UNCHANGED <<db, locks>>
     ELSE Rollback(w)

\* A refused transition and a replayed one both end the request unchanged.
LockFact(w) ==
  LET t == tx[w] IN
  /\ t.pc = "lockFact"
  /\ factLock[t.fid] = NoWorker
  /\ IF FactAccepts(t, fact[t.fid])
     THEN /\ tx' = [tx EXCEPT ![w] =
               [t EXCEPT !.pc = "stage", !.frow = fact[t.fid]]]
          /\ factLock' = [factLock EXCEPT ![t.fid] = w]
          /\ UNCHANGED <<db, proposalLock>>
     ELSE Rollback(w)

\* Once the tags are written, _create_fact_version reads the highest number and
\* adds one.
StageVersion(w) ==
  /\ tx[w].pc = "stage"
  /\ Needed(tx[w]) = {}
  /\ tx' = [tx EXCEPT ![w].pc = "commit",
                      ![w].number = Len(versions[tx[w].fid]) + 1]
  /\ UNCHANGED <<db, locks>>

\* The fact row w saves: the object it read, changed.
ChangedFact(t) ==
  CASE t.op = "archiveUser" -> [t.frow EXCEPT !.status = "archived"]
    [] t.op = "deleteUser" \/ (t.op \in ReviewOps /\ t.prow.type = "delete")
         -> [t.frow EXCEPT !.status = "deleted"]
    [] OTHER -> [t.frow EXCEPT
                   !.content = FinalContent(t), !.tags = UpdatedTags(t)]

\* Mutant: the version row is built from the memory before its change.
AddOldVersion(t, row) ==
  /\ t.number > Len(versions[t.fid])
  /\ versions' = [versions EXCEPT ![t.fid] = Append(@,
       [proposal |-> t.pid, status |-> t.frow.status,
        content |-> t.frow.content])]

\* (fact, version_number) is UNIQUE: a number already used cannot commit.
AddVersion(t, row) ==
  /\ t.number > Len(versions[t.fid])
  /\ versions' = [versions EXCEPT ![t.fid] = Append(@,
       [proposal |-> t.pid, status |-> row.status, content |-> row.content])]

\* Approval of an UPDATE or DELETE proposal.
CommitChange(w) ==
  LET t   == tx[w]
      row == ChangedFact(t)
      upd == t.prow.type = "update"
  IN
  /\ t.pc = "commit"
  /\ t.op \in ReviewOps
  /\ t.prow.type # "create"
  /\ fact' = [fact EXCEPT ![t.fid] = row]
  /\ AddVersion(t, row)
  /\ proposal' = [proposal EXCEPT ![t.pid] =
       IF upd THEN AppliedRow(t, t.fid)
       ELSE [t.prow EXCEPT !.status = "applied", !.reviewer = t.actor]]
  /\ tagRows' = tagRows \cup InsertedTags(t)
  /\ factTags' = IF upd THEN [factTags EXCEPT ![t.fid] = row.tags]
                 ELSE factTags
  /\ Finish(w)

\* reject_proposal opens no transaction and takes no lock: it loads the row...
StartRejection(w, a, p) ==
  /\ proposal[p].status = "pending"
  /\ CanApproveMemory(a)
  /\ Receive(w, [Idle EXCEPT !.pc = "saveRejection", !.op = "reject",
                   !.actor = a, !.pid = p, !.prow = proposal[p]])
  /\ UNCHANGED <<db, locks>>

\* ...and writes every column of it back, once no transaction locks the row.
SaveRejection(w) ==
  LET t == tx[w] IN
  /\ t.pc = "saveRejection"
  /\ proposalLock[t.pid] = NoWorker
  /\ proposal' = [proposal EXCEPT ![t.pid] =
       [t.prow EXCEPT !.status = "rejected", !.reviewer = t.actor]]
  /\ tx' = [tx EXCEPT ![w] = Idle]
  /\ UNCHANGED <<fact, versions, tagRows, factTags, locks>>

-----------------------------------------------------------------------------
(* Direct archive and delete of user memories.                             *)

\* The dashboard reads the fact, then branches on its scope; a memory of a
\* shared scope gets a deletion proposal without a key (ProposeChange).
StartDashboardDelete(w, a, f) ==
  /\ CanReadMemory(a, fact[f])
  /\ fact[f].scope \in Actors
  /\ Receive(w, [Idle EXCEPT !.pc = "lockFact", !.op = "deleteUser",
                   !.actor = a, !.fid = f])
  /\ UNCHANGED <<db, locks>>

StartArchive(w, a, f) ==
  /\ fact[f].status # "none"
  /\ Receive(w, [Idle EXCEPT !.pc = "lockFact", !.op = "archiveUser",
                   !.actor = a, !.fid = f])
  /\ UNCHANGED <<db, locks>>

CommitUserStatus(w) ==
  LET t   == tx[w]
      row == ChangedFact(t)
  IN
  /\ t.pc = "commit"
  /\ t.op \in UserOps
  /\ fact' = [fact EXCEPT ![t.fid] = row]
  /\ AddVersion(t, row)
  /\ Finish(w)
  /\ UNCHANGED <<proposal, tagRows, factTags>>

-----------------------------------------------------------------------------
(* Tags of facts (dashboard) and the tag table, as far as facts see it.    *)

\* Fact and tag are read without a lock.
StartTagging(w, a, op, f, tag) ==
  /\ op \in TagOps
  /\ CanReadMemory(a, fact[f])
  /\ CanEditMemory(a, fact[f])
  /\ fact[f].status # "none"
  /\ tag \in tagRows
  /\ Receive(w, [Idle EXCEPT !.pc = "writeTag", !.op = op, !.actor = a,
                   !.fid = f, !.tags = {tag}])
  /\ UNCHANGED <<db, locks>>

\* The foreign keys of the new row wait for a lock on the fact or a deletion of
\* the tag, and fail when the tag is gone.
AttachTag(w) ==
  LET t == tx[w] IN
  /\ t.pc = "writeTag"
  /\ t.op = "attachTag"
  /\ factLock[t.fid] = NoWorker
  /\ \A g \in t.tags : FreeFor(w, KeptTag(g))
  /\ factTags' = IF t.tags \subseteq tagRows
                 THEN [factTags EXCEPT ![t.fid] = @ \cup t.tags]
                 ELSE factTags
  /\ tx' = [tx EXCEPT ![w] = Idle]
  /\ UNCHANGED <<fact, versions, proposal, tagRows, locks>>

DetachTag(w) ==
  LET t == tx[w] IN
  /\ t.pc = "writeTag"
  /\ t.op = "detachTag"
  /\ \A l \in Mappings : l.fact = t.fid /\ l.tag \in t.tags => FreeFor(w, l)
  /\ factTags' = [factTags EXCEPT ![t.fid] = @ \ t.tags]
  /\ tx' = [tx EXCEPT ![w] = Idle]
  /\ UNCHANGED <<fact, versions, proposal, tagRows, locks>>

CreateTag(a, tag) ==
  /\ CanManageTags(a)
  /\ tag \notin tagRows
  /\ NoneInserted({tag})
  /\ tagRows' = tagRows \cup {tag}
  /\ UNCHANGED <<fact, versions, proposal, factTags, locks, tx>>

\* The tag is read without a lock.  (A tag created again under the slug of a
\* deleted one is the same tag here; TagCatalog tells them apart.)
StartDeleteTag(w, a, tag) ==
  /\ CanManageTags(a)
  /\ tag \in tagRows
  /\ Receive(w, [Idle EXCEPT !.pc = "deleteTag", !.op = "deleteTag",
                   !.actor = a, !.tags = {tag}])
  /\ UNCHANGED <<db, locks>>

\* Mutant: no ON DELETE CASCADE from tags to mappings.
DeleteTagOnly(w) ==
  /\ tx[w].pc = "deleteTag"
  /\ Needed(tx[w]) = {}
  /\ tagRows' = tagRows \ tx[w].tags
  /\ tx' = [tx EXCEPT ![w] = Idle]
  /\ UNCHANGED <<fact, versions, proposal, factTags, locks>>

\* The mappings of a deleted tag go with it (ON DELETE CASCADE).
DeleteTag(w) ==
  /\ tx[w].pc = "deleteTag"
  /\ Needed(tx[w]) = {}
  /\ tagRows' = tagRows \ tx[w].tags
  /\ factTags' = [f \in Facts |-> factTags[f] \ tx[w].tags]
  /\ tx' = [tx EXCEPT ![w] = Idle]
  /\ UNCHANGED <<fact, versions, proposal, locks>>

-----------------------------------------------------------------------------

\* The client goes away, the process dies or a database call fails.
Abort(w) ==
  /\ tx[w] # Idle
  /\ Rollback(w)

\* Bound: the model has as many rows as Facts and Proposals.  A request that
\* needs one more ends like one whose database call failed.
OutOfRows(w) ==
  /\ \/ /\ tx[w].pc = "insert"
        /\ \A p \in Proposals : proposal[p].status # "none"
     \/ /\ tx[w].pc = "commit"
        /\ \/ tx[w].op = "createDirect"
           \/ tx[w].op \in ReviewOps /\ tx[w].prow.type = "create"
        /\ \A f \in Facts : fact[f].status # "none"
  /\ Abort(w)

\* What can arrive at an idle worker.
Arrive(w) ==
  \E a \in Actors :
    \/ \E s \in Scopes, c \in Contents, ts \in SUBSET Tags :
         \/ CreateDirectMemory(w, a, s, c, ts)
         \/ \E k \in Keys \cup {NoKey} : ProposeCreate(w, a, s, c, ts, k)
    \/ \E f \in Facts, k \in Keys \cup {NoKey} :
         \/ \E c \in Contents, ts \in SUBSET Tags :
              ProposeChange(w, a, "update", f, c, ts, k)
         \/ ProposeChange(w, a, "delete", f, NoContent, {}, k)
    \/ \E p \in Proposals :
         \/ StartReview(w, a, "approve", p, NoContent, {})
         \/ \E c \in Contents, ts \in SUBSET Tags :
              StartReview(w, a, "applyEdited", p, c, ts)
         \/ StartRejection(w, a, p)
    \/ \E f \in Facts :
         \/ StartDashboardDelete(w, a, f)
         \/ StartArchive(w, a, f)
         \/ \E op \in TagOps, tag \in Tags : StartTagging(w, a, op, f, tag)
    \/ \E tag \in Tags : StartDeleteTag(w, a, tag)

\* The next database call of a request being served.
Advance(w) ==
  \/ ReadFact(w)
  \/ InsertProposal(w)
  \/ LockProposal(w)
  \/ LockFact(w)
  \/ WriteTagRow(w)
  \/ StageVersion(w)
  \/ CommitDirect(w)
  \/ CommitCreate(w)
  \/ CommitChange(w)
  \/ SaveRejection(w)
  \/ CommitUserStatus(w)
  \/ AttachTag(w)
  \/ DetachTag(w)
  \/ DeleteTag(w)
  \/ OutOfRows(w)
  \/ DeadlockVictim(w)

Next == \/ \E a \in Actors, tag \in Tags : CreateTag(a, tag)
        \/ \E w \in Workers : Arrive(w) \/ Advance(w) \/ Abort(w)

Spec == Init /\ [][Next]_vars

\* PostgreSQL serves the waiters of a row lock in order and looks for deadlocks
\* when a wait is long, and the event loop resumes every request: a step that
\* keeps becoming possible is taken.
FairSpec == Spec /\ \A w \in Workers : SF_vars(Advance(w))

-----------------------------------------------------------------------------
(* Why the locks are enough: the inductive invariant behind the properties *)
(* below.                                                                  *)

\* A stored proposal says all that applying it needs.
CompleteProposal(r) ==
  /\ r.type # "delete" => r.content \in Contents
  /\ IF r.type = "create" THEN r.status = "pending" => r.fact = NoFact
     ELSE r.fact \in Facts

RowsComplete ==
  /\ \A f \in Facts : fact[f].status # "none" => fact[f].content \in Contents
  /\ \A p \in Proposals :
       proposal[p].status # "none" => CompleteProposal(proposal[p])

\* The arguments each stage of a request relies on.
RequestComplete(t) ==
  /\ t.pc = "readFact" =>
       /\ t.op \in {"update", "delete"}
       /\ t.fid \in Facts
       /\ t.op = "update" => t.content \in Contents
  /\ t.pc \in {"insert", "saveRejection"} =>
       t.prow.status = "pending" /\ CompleteProposal(t.prow)
  /\ t.pc = "lockProposal" => t.op \in ReviewOps
  /\ t.pc \in {"lockFact", "stage"} => t.op \in ReviewOps \cup UserOps
  /\ t.pc = "commit" => t.op \in ReviewOps \cup UserOps \cup {"createDirect"}
  /\ t.op = "createDirect" =>
       /\ t.pc = "commit"
       /\ t.fid = NoFact
       /\ t.pid = NoProposal
       /\ t.frow.status = "approved"
       /\ t.frow.scope \in Scopes \ ReviewedScopes
       /\ t.frow.content \in Contents \ Secrets
  /\ t.op \in ReviewOps =>
       t.pid \in Proposals /\ (t.op = "applyEdited" => t.content \in Contents)
  /\ t.op \in UserOps => t.fid \in Facts /\ t.pid = NoProposal

\* What w read from a row it has locked is what the row holds, and still
\* passes the checks made when it was read.
LockedRowsOf(w) ==
  LET t == tx[w] IN
  /\ t.op \in ReviewOps /\ t.pc \in {"lockFact", "stage", "commit"} =>
       /\ proposalLock[t.pid] = w
       /\ t.prow = proposal[t.pid]
       /\ CanBeApplied(t)
       /\ t.fid = t.prow.fact
       /\ t.prow.type = "create" => t.pc = "commit"
  /\ t.pc \in {"stage", "commit"} /\ t.fid # NoFact =>
       /\ factLock[t.fid] = w
       /\ t.frow = fact[t.fid]
       /\ FactAccepts(t, t.frow)
  /\ t.pc = "commit" /\ t.fid # NoFact =>
       t.number = Len(versions[t.fid]) + 1

\* No request acts on a stale row: from the lock to the commit, the rows of
\* memory_service's transactions are those the checks were made on.
LockedRowsCurrent ==
  /\ RowsComplete
  /\ \A w \in Workers : RequestComplete(tx[w]) /\ LockedRowsOf(w)

-----------------------------------------------------------------------------
(* Properties.                                                             *)

\* The last version of a fact is the fact: no save of a fact row overwrites
\* what another request saved after the row was read.
HistoryMatchesFact ==
  \A f \in Facts :
    IF versions[f] = <<>> THEN fact[f].status = "none"
    ELSE /\ fact[f].status = versions[f][Len(versions[f])].status
         /\ fact[f].content = versions[f][Len(versions[f])].content

\* However often a proposal is approved, by however many reviewers at once,
\* and even when a rejection overwrites it later, it makes one version only.
AppliedOnce ==
  \A f, g \in Facts :
    \A i \in 1..Len(versions[f]), j \in 1..Len(versions[g]) :
      /\ versions[f][i].proposal # NoProposal
      /\ versions[f][i].proposal = versions[g][j].proposal
      => f = g /\ i = j

\* A proposal changes a memory only in the step that decides it: nothing of a
\* pending proposal is ever in a history, so a review that dies leaves none.
PendingHasNoEffect ==
  \A f \in Facts : \A i \in 1..Len(versions[f]) :
    LET p == versions[f][i].proposal IN
    p # NoProposal => proposal[p].status \in {"applied", "rejected"}

\* An applied proposal did what it says: the fact it links to has a version
\* made by it, deleted or holding the text the proposal ended with.
AppliedTookEffect ==
  \A p \in Proposals :
    proposal[p].status = "applied" =>
      /\ proposal[p].fact # NoFact
      /\ \E i \in 1..Len(versions[proposal[p].fact]) :
           LET v == versions[proposal[p].fact][i] IN
           /\ v.proposal = p
           /\ IF proposal[p].type = "delete" THEN v.status = "deleted"
              ELSE v.status = "approved" /\ v.content = proposal[p].content

\* Nothing becomes, changes or ends a memory of a shared scope but a proposal
\* an admin reviewed; only a scope without review may start with direct text.
SharedIsReviewed ==
  \A f \in Facts : fact[f].scope \in SharedScopes =>
    \A i \in 1..Len(versions[f]) :
      LET p == versions[f][i].proposal IN
      IF p = NoProposal
      THEN i = 1 /\ fact[f].scope \notin ReviewedScopes
      ELSE proposal[p].reviewer \in Admins

\* Once a rejection is in the table, no review under way can still apply the
\* proposal (memory_service: "Rejected or cancelled proposals cannot be
\* applied").
RejectedIsFinal ==
  [][\A p \in Proposals : proposal[p].status = "rejected" =>
       /\ proposal'[p].status = "rejected"
       /\ \A f \in Facts : Len(versions'[f]) > Len(versions[f]) =>
            versions'[f][Len(versions'[f])].proposal # p]_vars

\* reject_proposal: "Reject a pending proposal without creating or mutating a
\* memory fact."  No version was made by a proposal that reads REJECTED.
RejectedHasNoEffect ==
  \A f \in Facts : \A i \in 1..Len(versions[f]) :
    LET p == versions[f][i].proposal IN
    p # NoProposal => proposal[p].status # "rejected"

\* However submissions with one idempotency key interleave, one is stored.
OneProposalPerKey ==
  \A p, q \in Proposals :
    proposal[p].key = proposal[q].key /\ proposal[p].key # NoKey => p = q

\* A fact is mapped to existing tags only, whatever is attached, detached,
\* deleted or materialised by reviews meanwhile.
MappedTagsExist == \A f \in Facts : factTags[f] \subseteq tagRows

\* The histories are the ledgers of MemoryLedger.
Ledger == INSTANCE MemoryLedger WITH ledger <- versions

\* This is Ledger!Spec, [A]_v being (v' # v => A): TLC then looks for the
\* ledger's action only in the steps that change a history.
LedgerSpec == Ledger!Init /\ [][versions' # versions => Ledger!Next]_versions

\* No two requests hold each other up for good.  Proposals and memories are
\* locked in one order, but a review that deletes a mapping and then keeps its
\* tag can meet the deletion of the tag, and two lists of new tags can be in
\* different orders: those circles are real, and end because every way in which
\* the victim's request can fail frees what it holds and none starts it again.
\* (It speaks of two requests at a time: mappings of one tag that overlap
\* without a gap can make a deletion of the tag wait, as they can in PostgreSQL.)
RequestsFinish ==
  \A w \in Workers : tx[w].pc # "idle" ~> tx[w].pc = "idle"
=============================================================================
