----------------------------- MODULE TagCatalog -----------------------------
(***************************************************************************)
(* TagService (app/services/tag_service.py): admins create, change and     *)
(* delete the tags of an organization.  Every method looks first and       *)
(* writes later, outside any transaction, so requests interleave between   *)
(* their statements; the table allows a slug once per organization.  The   *)
(* mappings of tags to memories are in MemoryReview.                       *)
(***************************************************************************)
EXTENDS FiniteSets

CONSTANTS TagIds,
          Texts,       \* labels and slugs as typed
          SlugOf,      \* _normalize_slug: text -> slug, EmptySlug if nothing is left
          EmptySlug,
          Looks,       \* descriptions, colours and metadata
          TagRequests, \* admins' requests in flight
          NoTag

VARIABLES tags,        \* engram_tags
          deleted,     \* history: ids of deleted rows
          tagRequest

vars == <<tags, deleted, tagRequest>>

Idle == [pc |-> "idle"]
Stored == {t \in TagIds : tags[t] # NoTag}
Slugs == {SlugOf[x] : x \in Texts} \ {EmptySlug}

Init ==
  /\ tags = [t \in TagIds |-> NoTag]
  /\ deleted = {}
  /\ tagRequest = [r \in TagRequests |-> Idle]

\* UNIQUE (org_id, slug), for the row of id t.
SlugFits(slug, t) == \A u \in Stored \ {t} : tags[u].slug # slug

\* A text that normalizes to nothing is refused.
\* Mutant: it is taken as it comes.
AnyText(text) == text \in Texts
HasSlug(text) == SlugOf[text] # EmptySlug

Taken(slug) == \E u \in Stored : tags[u].slug = slug

\* INSERT of a new row; a slug that is taken fails.
InsertTag(r) ==
  /\ tagRequest[r].pc = "insert"
  /\ LET row == tagRequest[r].row IN
     \E t \in TagIds \ (Stored \cup deleted) :
       tags' = [tags EXCEPT ![t] = IF SlugFits(row.slug, t) THEN row ELSE @]
  /\ tagRequest' = [tagRequest EXCEPT ![r] = Idle]
  /\ UNCHANGED deleted

\* UPDATE of every column of the row that was read: no row, no effect.
\* Mutant: a row that is gone is written again.
SaveTagBack(r) ==
  /\ tagRequest[r].pc = "save"
  /\ LET t == tagRequest[r].tag
         row == tagRequest[r].row
     IN tags' = [tags EXCEPT ![t] = IF SlugFits(row.slug, t) THEN row ELSE @]
  /\ tagRequest' = [tagRequest EXCEPT ![r] = Idle]
  /\ UNCHANGED deleted
SaveTag(r) ==
  /\ tagRequest[r].pc = "save"
  /\ LET t == tagRequest[r].tag
         row == tagRequest[r].row
     IN tags' = [tags EXCEPT
          ![t] = IF @ # NoTag /\ SlugFits(row.slug, t) THEN row ELSE @]
  /\ tagRequest' = [tagRequest EXCEPT ![r] = Idle]
  /\ UNCHANGED deleted

-----------------------------------------------------------------------------
(* The methods.                                                            *)

\* create_tag: an empty or a taken slug is refused.
CreateTag(r) ==
  /\ tagRequest[r].pc = "idle"
  /\ \E text \in Texts, look \in Looks :
       /\ HasSlug(text)
       /\ ~Taken(SlugOf[text])
       /\ tagRequest' = [tagRequest EXCEPT ![r] =
            [pc |-> "insert", row |-> [slug |-> SlugOf[text], look |-> look]]]
  /\ UNCHANGED <<tags, deleted>>

\* update_tag reads the tag; a new slug is looked up before the save.
UpdateTag(r) ==
  /\ tagRequest[r].pc = "idle"
  /\ \E t \in Stored :
       \/ \E look \in Looks :
            tagRequest' = [tagRequest EXCEPT ![r] =
              [pc |-> "save", tag |-> t, row |-> [tags[t] EXCEPT !.look = look]]]
       \/ \E text \in Texts :
            /\ HasSlug(text)
            /\ tagRequest' = [tagRequest EXCEPT ![r] =
                 [pc |-> "check", tag |-> t,
                  row |-> [tags[t] EXCEPT !.slug = SlugOf[text]]]]
  /\ UNCHANGED <<tags, deleted>>

CheckSlug(r) ==
  /\ tagRequest[r].pc = "check"
  /\ LET other == \E u \in Stored \ {tagRequest[r].tag} :
                    tags[u].slug = tagRequest[r].row.slug
     IN tagRequest' = [tagRequest EXCEPT ![r] =
          IF other THEN Idle ELSE [@ EXCEPT !.pc = "save"]]
  /\ UNCHANGED <<tags, deleted>>

LoadToDelete(r) ==
  /\ tagRequest[r].pc = "idle"
  /\ \E t \in Stored :
       tagRequest' = [tagRequest EXCEPT ![r] = [pc |-> "delete", tag |-> t]]
  /\ UNCHANGED <<tags, deleted>>

DeleteTag(r) ==
  /\ tagRequest[r].pc = "delete"
  /\ tags' = [tags EXCEPT ![tagRequest[r].tag] = NoTag]
  /\ deleted' = deleted \cup {tagRequest[r].tag}
  /\ tagRequest' = [tagRequest EXCEPT ![r] = Idle]

Next ==
  \E r \in TagRequests :
    \/ CreateTag(r)
    \/ InsertTag(r)
    \/ UpdateTag(r)
    \/ CheckSlug(r)
    \/ SaveTag(r)
    \/ LoadToDelete(r)
    \/ DeleteTag(r)

Spec == Init /\ [][Next]_vars

-----------------------------------------------------------------------------
(* Properties.                                                             *)

Row == [slug : Slugs, look : Looks]

\* The tables and the requests have the types the code gives them.
TypeOK ==
  /\ tags \in [TagIds -> Row \cup {NoTag}]
  /\ deleted \subseteq TagIds
  /\ \A r \in TagRequests :
       LET q == tagRequest[r] IN
       /\ q.pc \in {"idle", "insert", "check", "save", "delete"}
       /\ q.pc \in {"insert", "check", "save"} => q.row \in Row
       /\ q.pc \in {"check", "save", "delete"} => q.tag \in TagIds

\* A change that read a tag before its deletion does not bring it back.
DeletedTagsStayGone ==
  [][\A t \in deleted : tags'[t] = NoTag]_vars
=============================================================================
