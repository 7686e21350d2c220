------------------------ MODULE AdministrationProofs ------------------------
(***************************************************************************)
(* What the two tables that admins write promise for any sets of rows and  *)
(* requests: the role assignments (RoleAssignments) and, in the second     *)
(* part, the tags (TagCatalog).                                            *)
(*                                                                         *)
(* Requests save a row as they read it, perhaps long before, and with all  *)
(* its columns.  Neither the lookups before the writes nor the constraints *)
(* of the tables are of use to the argument: it is that an UPDATE of a row *)
(* that is gone does nothing, and that ids are not used again, so that     *)
(* what is deleted has no row (RemovedGone, DeletedGone) for good.         *)
(***************************************************************************)
EXTENDS RoleAssignments, FiniteSetTheorems, TLAPS

Rows == [AssignmentIds -> Assignment \cup {NoAssignment}]

\* The requests, at each place where they may be interleaved.
Request ==
  [pc : {"idle"}]
    \cup [pc : {"insert", "again"}, scope : Scopes, note : Notes]
    \cup [pc : {"merge"}, assignment : AssignmentIds, row : Assignment]
    \cup [pc : {"delete"}, assignment : AssignmentIds]

TablesOK ==
  /\ assignments \in Rows
  /\ removed \subseteq AssignmentIds
  /\ roleRequest \in [RoleRequests -> Request]

\* Ids are not used again.
RemovedGone == \A a \in removed : assignments[a] = NoAssignment

\* The inductive invariant.
RoleInv == TablesOK /\ RemovedGone

-----------------------------------------------------------------------------
\* What a request holds where it is.
LEMMA Held ==
  ASSUME RoleInv, NEW r \in RoleRequests
  PROVE  /\ roleRequest[r] \in Request
         /\ roleRequest[r].pc \in {"insert", "again"} =>
              /\ roleRequest[r] \in
                   [pc : {"insert", "again"}, scope : Scopes, note : Notes]
              /\ roleRequest[r].scope \in Scopes
              /\ roleRequest[r].note \in Notes
         /\ roleRequest[r].pc = "merge" => roleRequest[r].row \in Assignment
         /\ roleRequest[r].pc \in {"merge", "delete"} =>
              roleRequest[r].assignment \in AssignmentIds
BY DEF RoleInv, TablesOK, Request

\* A request that has ended.
LEMMA IdleTyped == Idle \in Request
BY DEF Idle, Request

\* A stored row is typed, and not one of the deleted.
LEMMA StoredRow ==
  ASSUME RoleInv, NEW a \in Stored
  PROVE  /\ a \in AssignmentIds
         /\ assignments[a] \in Assignment
         /\ a \notin removed
BY DEF RoleInv, TablesOK, RemovedGone, Stored, Rows

\* Statements that write no row, and leave their request with q.
LEMMA ReadingSafe ==
  ASSUME RoleInv, UNCHANGED <<assignments, removed>>,
         NEW r \in RoleRequests, NEW q \in Request,
         roleRequest' = [roleRequest EXCEPT ![r] = q]
  PROVE  RoleInv'
BY DEF RoleInv, TablesOK, RemovedGone

\* Statements that write the row of one id and then are done: the row is of
\* an id that is not deleted, or is deleted now.
LEMMA WritingSafe ==
  ASSUME RoleInv, NEW r \in RoleRequests,
         roleRequest' = [roleRequest EXCEPT ![r] = Idle],
         NEW a \in AssignmentIds, NEW row \in Assignment \cup {NoAssignment},
         assignments' = [assignments EXCEPT ![a] = row],
         \/ removed' = removed /\ a \notin removed
         \/ removed' = removed \cup {a} /\ row = NoAssignment
  PROVE  RoleInv'
<1>1. TablesOK' BY IdleTyped DEF RoleInv, TablesOK, Rows
<1>2. /\ assignments'[a] = row
      /\ \A b \in AssignmentIds \ {a} : assignments'[b] = assignments[b]
  BY DEF RoleInv, TablesOK, Rows
<1>3. RemovedGone' BY <1>2 DEF RoleInv, TablesOK, RemovedGone
<1> QED BY <1>1, <1>3 DEF RoleInv

\* The SELECT of one row.
LEMMA ContinueSafe ==
  ASSUME RoleInv, UNCHANGED <<assignments, removed>>,
         NEW r \in RoleRequests, NEW scope \in Scopes, NEW note \in Notes,
         NEW ifNone \in Request,
         Continue(r, scope, note, ifNone)
  PROVE  RoleInv'
<1> DEFINE chosen == CHOOSE a \in InScope(scope) : TRUE
           notes == {note} \cup UNION {assignments[a].notes : a \in InScope(scope)}
           merge == [pc |-> "merge", assignment |-> chosen,
                     row |-> [scope |-> scope, notes |-> notes]]
<1>1. CASE Cardinality(InScope(scope)) = 1
  <2>1. InScope(scope) # {} BY <1>1, FS_EmptySet
  <2>2. chosen \in InScope(scope) BY <2>1
  <2>3. notes \in (SUBSET Notes) \ {{}}
    <3>1. \A b \in InScope(scope) : assignments[b].notes \subseteq Notes
      BY StoredRow DEF InScope, Assignment
    <3> QED BY <3>1
  <2>4. roleRequest' = [roleRequest EXCEPT ![r] = merge] BY <1>1, <2>1 DEF Continue
  <2> HIDE DEF chosen, notes
  <2>5. chosen \in Stored /\ assignments[chosen].scope = scope BY <2>2 DEF InScope
  <2>6. [scope |-> scope, notes |-> notes] \in Assignment
    BY <2>3 DEF Assignment
  <2>7. merge \in Request BY <2>5, <2>6, StoredRow DEF Request
  <2> QED BY <2>4, <2>7, ReadingSafe
<1>2. CASE Cardinality(InScope(scope)) # 1
  <2>1. \/ roleRequest' = [roleRequest EXCEPT ![r] = ifNone]
        \/ roleRequest' = [roleRequest EXCEPT ![r] = Idle]
    BY <1>2 DEF Continue
  <2> QED BY <2>1, IdleTyped, ReadingSafe
<1> QED BY <1>1, <1>2

-----------------------------------------------------------------------------
(* The steps.                                                              *)

LEMMA CreateAssignmentSafe ==
  ASSUME RoleInv, NEW r \in RoleRequests, CreateAssignment(r)
  PROVE  RoleInv'
<1>1. PICK scope \in Scopes, note \in Notes :
        Continue(r, scope, note, [pc |-> "insert", scope |-> scope, note |-> note])
  BY DEF CreateAssignment
<1>2. [pc |-> "insert", scope |-> scope, note |-> note] \in Request
  BY DEF Request
<1> QED BY <1>1, <1>2, ContinueSafe DEF CreateAssignment

LEMMA InsertAssignmentSafe ==
  ASSUME RoleInv, NEW r \in RoleRequests, InsertAssignment(r)
  PROVE  RoleInv'
<1> DEFINE q == roleRequest[r]
<1>1. /\ q \in [pc : {"insert", "again"}, scope : Scopes, note : Notes]
      /\ q.scope \in Scopes /\ q.note \in Notes
  BY Held DEF InsertAssignment
<1>2. CASE Inserts(q.scope)
  <2> DEFINE row == [scope |-> q.scope, notes |-> {q.note}]
  <2>1. PICK a \in AssignmentIds \ (Stored \cup removed) :
          assignments' = [assignments EXCEPT ![a] = row]
    BY <1>2 DEF InsertAssignment
  <2>2. row \in Assignment BY <1>1 DEF Assignment
  <2>3. roleRequest' = [roleRequest EXCEPT ![r] = Idle] /\ removed' = removed
    BY <1>2 DEF InsertAssignment
  <2> HIDE DEF row, q
  <2> QED BY <2>1, <2>2, <2>3, WritingSafe
<1>3. CASE ~Inserts(q.scope)
  <2>1. roleRequest' = [roleRequest EXCEPT ![r] = [q EXCEPT !.pc = "again"]]
    BY <1>3 DEF InsertAssignment
  <2>2. [q EXCEPT !.pc = "again"] \in Request BY <1>1 DEF Request
  <2>3. UNCHANGED <<assignments, removed>> BY <1>3 DEF InsertAssignment
  <2> HIDE DEF q
  <2> QED BY <2>1, <2>2, <2>3, ReadingSafe
<1> QED BY <1>2, <1>3

LEMMA SelectAgainSafe ==
  ASSUME RoleInv, NEW r \in RoleRequests, SelectAgain(r)
  PROVE  RoleInv'
<1>1. roleRequest[r].scope \in Scopes /\ roleRequest[r].note \in Notes
  BY Held DEF SelectAgain
<1> QED BY <1>1, IdleTyped, ContinueSafe DEF SelectAgain

LEMMA SaveMergedSafe ==
  ASSUME RoleInv, NEW r \in RoleRequests, SaveMerged(r)
  PROVE  RoleInv'
<1> DEFINE a == roleRequest[r].assignment
           row == roleRequest[r].row
<1>1. a \in AssignmentIds /\ row \in Assignment BY Held DEF SaveMerged
<1>2. roleRequest' = [roleRequest EXCEPT ![r] = Idle] /\ removed' = removed
  BY DEF SaveMerged
<1>3. assignments' = [assignments EXCEPT
                        ![a] = IF @ = NoAssignment THEN @ ELSE row]
  BY DEF SaveMerged
<1> HIDE DEF a, row
<1>4. CASE assignments[a] = NoAssignment
  <2>1. assignments' = assignments BY <1>1, <1>3, <1>4 DEF RoleInv, TablesOK, Rows
  <2> QED BY <2>1, <1>2, IdleTyped, ReadingSafe
<1>5. CASE assignments[a] # NoAssignment
  <2>1. a \notin removed BY <1>1, <1>5, StoredRow DEF Stored
  <2>2. assignments' = [assignments EXCEPT ![a] = row] BY <1>3, <1>5
  <2> QED BY <1>1, <1>2, <2>1, <2>2, WritingSafe
<1> QED BY <1>4, <1>5

LEMMA LoadAssignmentSafe ==
  ASSUME RoleInv, NEW r \in RoleRequests, LoadAssignment(r)
  PROVE  RoleInv'
<1>1. PICK a \in Stored :
        roleRequest' = [roleRequest EXCEPT ![r] = [pc |-> "delete", assignment |-> a]]
  BY DEF LoadAssignment
<1>2. [pc |-> "delete", assignment |-> a] \in Request BY StoredRow DEF Request
<1> QED BY <1>1, <1>2, ReadingSafe DEF LoadAssignment

LEMMA DeleteAssignmentSafe ==
  ASSUME RoleInv, NEW r \in RoleRequests, DeleteAssignment(r)
  PROVE  RoleInv'
<1>1. roleRequest[r].assignment \in AssignmentIds
  BY Held DEF DeleteAssignment
<1> QED BY <1>1, WritingSafe DEF DeleteAssignment

LEMMA RoleInit == Init => RoleInv
<1> SUFFICES ASSUME Init PROVE RoleInv OBVIOUS
<1>1. TablesOK BY IdleTyped DEF Init, TablesOK, Rows
<1>2. RemovedGone BY DEF Init, RemovedGone
<1> QED BY <1>1, <1>2 DEF RoleInv

LEMMA RoleStep ==
  ASSUME RoleInv, [Next]_vars
  PROVE  RoleInv'
<1>1. CASE UNCHANGED vars
  BY <1>1 DEF vars, RoleInv, TablesOK, RemovedGone
<1>2. ASSUME NEW r \in RoleRequests,
             CreateAssignment(r) \/ InsertAssignment(r) \/ SelectAgain(r)
      PROVE  RoleInv'
  BY <1>2, CreateAssignmentSafe, InsertAssignmentSafe, SelectAgainSafe
<1>3. ASSUME NEW r \in RoleRequests,
             SaveMerged(r) \/ LoadAssignment(r) \/ DeleteAssignment(r)
      PROVE  RoleInv'
  BY <1>3, SaveMergedSafe, LoadAssignmentSafe, DeleteAssignmentSafe
<1> QED BY <1>1, <1>2, <1>3 DEF Next

-----------------------------------------------------------------------------
(* The theorems about role assignments.                                    *)

\* The table and the requests are typed and deleted assignments have no row,
\* in every reachable state.
THEOREM RolesSound == Spec => []RoleInv
<1>1. Init => RoleInv BY RoleInit
<1>2. RoleInv /\ [Next]_vars => RoleInv' BY RoleStep
<1> QED BY <1>1, <1>2, PTL DEF Spec

\* The types that the runs check.
THEOREM RoleTypesCorrect == Spec => []TypeOK
<1>1. RoleInv => TypeOK
  BY DEF RoleInv, TablesOK, TypeOK, Request, Rows
<1> QED BY <1>1, RolesSound, PTL

\* A role that one admin took away does not come back because another was
\* about to add metadata to the assignment as it was before.
THEOREM RemovedRolesGone == Spec => RemovedStaysRemoved
<1>1. ASSUME RoleInv, RoleInv', Next
      PROVE  \A a \in removed : assignments'[a] = NoAssignment
  <2>1. removed \subseteq removed'
    BY <1>1 DEF Next, CreateAssignment, InsertAssignment, SelectAgain, SaveMerged,
                LoadAssignment, DeleteAssignment
  <2> QED BY <1>1, <2>1 DEF RoleInv, RemovedGone
<1>2. RoleInv /\ RoleInv' /\ [Next]_vars =>
        [\A a \in removed : assignments'[a] = NoAssignment]_vars
  BY <1>1
<1> QED BY <1>2, RolesSound, PTL DEF Spec, RemovedStaysRemoved

-----------------------------------------------------------------------------
(* Tags.                                                                   *)

CONSTANTS TagIds, Texts, SlugOf, EmptySlug, Looks, TagRequests, NoTag

VARIABLES tags, deleted, tagRequest

Tags == INSTANCE TagCatalog

\* The requests, at each place where they may be interleaved.
TagState ==
  [pc : {"idle"}]
    \cup [pc : {"insert"}, row : Tags!Row]
    \cup [pc : {"check", "save"}, tag : TagIds, row : Tags!Row]
    \cup [pc : {"delete"}, tag : TagIds]

TagsOK ==
  /\ tags \in [TagIds -> Tags!Row \cup {NoTag}]
  /\ deleted \subseteq TagIds
  /\ tagRequest \in [TagRequests -> TagState]

\* Ids are not used again.
DeletedGone == \A t \in deleted : tags[t] = NoTag

\* The inductive invariant.
TagInv == TagsOK /\ DeletedGone

-----------------------------------------------------------------------------
\* A request goes on, whatever it is then.
LEMMA RequestTyped ==
  ASSUME TagInv, NEW r \in TagRequests, NEW q \in TagState,
         tagRequest' = [tagRequest EXCEPT ![r] = q]
  PROVE  tagRequest' \in [TagRequests -> TagState]
BY DEF TagInv, TagsOK

\* Statements that write no tag keep the tables as they are.
LEMMA TagReadingSafe ==
  ASSUME TagInv, UNCHANGED <<tags, deleted>>,
         tagRequest' \in [TagRequests -> TagState]
  PROVE  TagInv'
BY DEF TagInv, TagsOK, DeletedGone

\* Statements that write the row of one tag: the tag is not deleted, or is
\* deleted now.
LEMMA TagWritingSafe ==
  ASSUME TagInv, NEW t \in TagIds, NEW row \in Tags!Row \cup {NoTag},
         tags' = [tags EXCEPT ![t] = row],
         row # NoTag => t \notin deleted',
         deleted \subseteq deleted', deleted' \subseteq deleted \cup {t},
         tagRequest' \in [TagRequests -> TagState]
  PROVE  TagInv'
<1>1. /\ tags'[t] = row
      /\ \A u \in TagIds \ {t} : tags'[u] = tags[u]
  BY DEF TagInv, TagsOK
<1>2. DeletedGone' BY <1>1 DEF TagInv, TagsOK, DeletedGone
<1> QED BY <1>2 DEF TagInv, TagsOK

\* What a request holds where it is.
LEMMA TagHeld ==
  ASSUME TagInv, NEW r \in TagRequests
  PROVE  /\ tagRequest[r] \in TagState
         /\ tagRequest[r].pc = "insert" => tagRequest[r].row \in Tags!Row
         /\ tagRequest[r].pc \in {"check", "save"} =>
              /\ tagRequest[r] \in [pc : {"check", "save"}, tag : TagIds, row : Tags!Row]
              /\ tagRequest[r].row \in Tags!Row
         /\ tagRequest[r].pc \in {"check", "save", "delete"} =>
              tagRequest[r].tag \in TagIds
BY DEF TagInv, TagsOK, TagState

\* A request that has ended.
LEMMA TagIdleTyped == Tags!Idle \in TagState
BY DEF Tags!Idle, TagState

\* A tag that is stored has a row.
LEMMA StoredTag ==
  ASSUME TagInv, NEW t \in Tags!Stored
  PROVE  t \in TagIds /\ tags[t] \in Tags!Row /\ t \notin deleted
BY DEF TagInv, TagsOK, Tags!Stored, DeletedGone

-----------------------------------------------------------------------------
(* The steps.                                                              *)

LEMMA CreateTagSafe ==
  ASSUME TagInv, NEW r \in TagRequests, Tags!CreateTag(r)
  PROVE  TagInv'
<1>1. PICK text \in Texts, look \in Looks :
        /\ Tags!HasSlug(text)
        /\ tagRequest' = [tagRequest EXCEPT ![r] =
             [pc |-> "insert", row |-> [slug |-> SlugOf[text], look |-> look]]]
  BY DEF Tags!CreateTag
<1>2. [slug |-> SlugOf[text], look |-> look] \in Tags!Row
  BY <1>1 DEF Tags!Row, Tags!Slugs, Tags!HasSlug
<1>3. [pc |-> "insert", row |-> [slug |-> SlugOf[text], look |-> look]] \in TagState
  BY <1>2 DEF TagState
<1> QED BY <1>1, <1>3, RequestTyped, TagReadingSafe DEF Tags!CreateTag

LEMMA InsertTagSafe ==
  ASSUME TagInv, NEW r \in TagRequests, Tags!InsertTag(r)
  PROVE  TagInv'
<1> DEFINE row == tagRequest[r].row
<1>1. PICK t \in TagIds \ (Tags!Stored \cup deleted) :
        tags' = [tags EXCEPT ![t] = IF Tags!SlugFits(row.slug, t) THEN row ELSE @]
  BY DEF Tags!InsertTag
<1>2. row \in Tags!Row BY TagHeld DEF Tags!InsertTag
<1>3. tags[t] = NoTag BY DEF Tags!Stored
<1>4. tagRequest' \in [TagRequests -> TagState]
  BY TagIdleTyped, RequestTyped DEF Tags!InsertTag
<1>5. deleted' = deleted BY DEF Tags!InsertTag
<1> HIDE DEF row
<1>6. CASE Tags!SlugFits(row.slug, t)
  BY <1>1, <1>2, <1>4, <1>5, <1>6, TagWritingSafe
<1>7. CASE ~Tags!SlugFits(row.slug, t)
  <2>1. tags' = [tags EXCEPT ![t] = NoTag] BY <1>1, <1>3, <1>7
  <2> QED BY <2>1, <1>4, <1>5, TagWritingSafe
<1> QED BY <1>6, <1>7

LEMMA UpdateTagSafe ==
  ASSUME TagInv, NEW r \in TagRequests, Tags!UpdateTag(r)
  PROVE  TagInv'
<1>1. PICK t \in Tags!Stored :
        \/ \E look \in Looks :
             tagRequest' = [tagRequest EXCEPT ![r] =
               [pc |-> "save", tag |-> t, row |-> [tags[t] EXCEPT !.look = look]]]
        \/ \E text \in Texts :
             /\ Tags!HasSlug(text)
             /\ tagRequest' = [tagRequest EXCEPT ![r] =
                  [pc |-> "check", tag |-> t,
                   row |-> [tags[t] EXCEPT !.slug = SlugOf[text]]]]
  BY DEF Tags!UpdateTag
<1>2. t \in TagIds /\ tags[t] \in Tags!Row BY StoredTag
<1>3. \A look \in Looks :
        [pc |-> "save", tag |-> t, row |-> [tags[t] EXCEPT !.look = look]] \in TagState
  BY <1>2 DEF TagState, Tags!Row
<1>4. \A text \in Texts : Tags!HasSlug(text) =>
        [pc |-> "check", tag |-> t, row |-> [tags[t] EXCEPT !.slug = SlugOf[text]]]
          \in TagState
  <2> SUFFICES ASSUME NEW text \in Texts, Tags!HasSlug(text)
               PROVE  [pc |-> "check", tag |-> t,
                       row |-> [tags[t] EXCEPT !.slug = SlugOf[text]]] \in TagState
    OBVIOUS
  <2>1. SlugOf[text] \in Tags!Slugs BY DEF Tags!Slugs, Tags!HasSlug
  <2>2. [tags[t] EXCEPT !.slug = SlugOf[text]] \in Tags!Row BY <1>2, <2>1 DEF Tags!Row
  <2> QED BY <1>2, <2>2 DEF TagState
<1>5. tagRequest' \in [TagRequests -> TagState]
  BY <1>1, <1>3, <1>4, RequestTyped
<1> QED BY <1>5, TagReadingSafe DEF Tags!UpdateTag

LEMMA CheckSlugSafe ==
  ASSUME TagInv, NEW r \in TagRequests, Tags!CheckSlug(r)
  PROVE  TagInv'
<1>1. tagRequest[r] \in [pc : {"check", "save"}, tag : TagIds, row : Tags!Row]
  BY TagHeld DEF Tags!CheckSlug
<1>2. [tagRequest[r] EXCEPT !.pc = "save"]
        \in [pc : {"check", "save"}, tag : TagIds, row : Tags!Row]
  BY <1>1
<1>3. [tagRequest[r] EXCEPT !.pc = "save"] \in TagState BY <1>2 DEF TagState
<1>4. \/ tagRequest' = [tagRequest EXCEPT ![r] = Tags!Idle]
      \/ tagRequest' = [tagRequest EXCEPT ![r] = [tagRequest[r] EXCEPT !.pc = "save"]]
  BY DEF Tags!CheckSlug
<1>5. tagRequest' \in [TagRequests -> TagState]
  BY <1>3, <1>4, TagIdleTyped, RequestTyped
<1> QED BY <1>5, TagReadingSafe DEF Tags!CheckSlug

LEMMA SaveTagSafe ==
  ASSUME TagInv, NEW r \in TagRequests, Tags!SaveTag(r)
  PROVE  TagInv'
<1> DEFINE t == tagRequest[r].tag
           row == tagRequest[r].row
<1>1. t \in TagIds /\ row \in Tags!Row BY TagHeld DEF Tags!SaveTag
<1>2. tags' = [tags EXCEPT ![t] =
                 IF @ # NoTag /\ Tags!SlugFits(row.slug, t) THEN row ELSE @]
  BY DEF Tags!SaveTag
<1>3. tagRequest' \in [TagRequests -> TagState]
  BY TagIdleTyped, RequestTyped DEF Tags!SaveTag
<1>4. deleted' = deleted BY DEF Tags!SaveTag
<1> HIDE DEF t, row
<1>5. CASE tags[t] # NoTag /\ Tags!SlugFits(row.slug, t)
  <2>1. t \notin deleted BY <1>1, <1>5, StoredTag DEF Tags!Stored
  <2>2. tags' = [tags EXCEPT ![t] = row] BY <1>2, <1>5
  <2> QED BY <2>1, <2>2, <1>1, <1>3, <1>4, <1>5, TagWritingSafe
<1>6. CASE ~(tags[t] # NoTag /\ Tags!SlugFits(row.slug, t))
  <2>1. tags' = tags BY <1>1, <1>2, <1>6 DEF TagInv, TagsOK
  <2> QED BY <2>1, <1>3, <1>4, TagReadingSafe
<1> QED BY <1>5, <1>6

LEMMA LoadToDeleteSafe ==
  ASSUME TagInv, NEW r \in TagRequests, Tags!LoadToDelete(r)
  PROVE  TagInv'
<1>1. PICK t \in Tags!Stored :
        tagRequest' = [tagRequest EXCEPT ![r] = [pc |-> "delete", tag |-> t]]
  BY DEF Tags!LoadToDelete
<1>2. [pc |-> "delete", tag |-> t] \in TagState BY StoredTag DEF TagState
<1> QED BY <1>1, <1>2, RequestTyped, TagReadingSafe DEF Tags!LoadToDelete

LEMMA DeleteTagSafe ==
  ASSUME TagInv, NEW r \in TagRequests, Tags!DeleteTag(r)
  PROVE  TagInv'
<1>1. tagRequest[r].tag \in TagIds BY TagHeld DEF Tags!DeleteTag
<1>2. tagRequest' \in [TagRequests -> TagState]
  BY TagIdleTyped, RequestTyped DEF Tags!DeleteTag
<1> QED BY <1>1, <1>2, TagWritingSafe DEF Tags!DeleteTag

LEMMA TagInit == Tags!Init => TagInv
BY TagIdleTyped DEF Tags!Init, TagInv, TagsOK, DeletedGone

LEMMA TagStep ==
  ASSUME TagInv, [Tags!Next]_Tags!vars
  PROVE  TagInv'
<1>1. CASE UNCHANGED Tags!vars
  BY <1>1, TagReadingSafe DEF Tags!vars, TagInv, TagsOK
<1>2. ASSUME NEW r \in TagRequests, Tags!CreateTag(r) PROVE TagInv'
  BY <1>2, CreateTagSafe
<1>3. ASSUME NEW r \in TagRequests, Tags!InsertTag(r) PROVE TagInv'
  BY <1>3, InsertTagSafe
<1>4. ASSUME NEW r \in TagRequests, Tags!UpdateTag(r) PROVE TagInv'
  BY <1>4, UpdateTagSafe
<1>5. ASSUME NEW r \in TagRequests, Tags!CheckSlug(r) PROVE TagInv'
  BY <1>5, CheckSlugSafe
<1>6. ASSUME NEW r \in TagRequests, Tags!SaveTag(r) PROVE TagInv'
  BY <1>6, SaveTagSafe
<1>7. ASSUME NEW r \in TagRequests, Tags!LoadToDelete(r) PROVE TagInv'
  BY <1>7, LoadToDeleteSafe
<1>8. ASSUME NEW r \in TagRequests, Tags!DeleteTag(r) PROVE TagInv'
  BY <1>8, DeleteTagSafe
<1> QED BY <1>1, <1>2, <1>3, <1>4, <1>5, <1>6, <1>7, <1>8 DEF Tags!Next

-----------------------------------------------------------------------------
(* The theorems about tags.                                                *)

\* The tables and the requests of TagService have their types and deleted
\* tags have no row, in every reachable state.
THEOREM TagsSound == Tags!Spec => []TagInv
<1>1. Tags!Init => TagInv BY TagInit
<1>2. TagInv /\ [Tags!Next]_Tags!vars => TagInv' BY TagStep
<1> QED BY <1>1, <1>2, PTL DEF Tags!Spec

\* The types that the runs check.
THEOREM TagTypesCorrect == Tags!Spec => []Tags!TypeOK
<1>1. TagInv => Tags!TypeOK
  BY DEF TagInv, TagsOK, Tags!TypeOK, TagState
<1> QED BY <1>1, TagsSound, PTL

\* A change that read a tag before its deletion does not bring it back.
THEOREM DeletedTagsGone == Tags!Spec => Tags!DeletedTagsStayGone
<1>1. ASSUME TagInv, TagInv', Tags!Next
      PROVE  \A t \in deleted : tags'[t] = NoTag
  <2>1. deleted \subseteq deleted'
    BY <1>1 DEF Tags!Next, Tags!CreateTag, Tags!InsertTag, Tags!UpdateTag,
                Tags!CheckSlug, Tags!SaveTag, Tags!LoadToDelete, Tags!DeleteTag
  <2> QED BY <1>1, <2>1 DEF TagInv, DeletedGone
<1>2. TagInv /\ TagInv' /\ [Tags!Next]_Tags!vars =>
        [\A t \in deleted : tags'[t] = NoTag]_Tags!vars
  BY <1>1
<1> QED BY <1>2, TagsSound, PTL DEF Tags!Spec, Tags!DeletedTagsStayGone
=============================================================================
