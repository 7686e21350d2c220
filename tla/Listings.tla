------------------------------ MODULE Listings ------------------------------
(***************************************************************************)
(* Lists read page by page with limit and offset: list_memories and        *)
(* list_proposals of app/services/dashboard_memory_service.py, and the MCP *)
(* tool get_memory_review_status, which is the first page of the second.   *)
(* Each page is a query of its own, and other requests write the tables    *)
(* between two of them.  Memories are filtered by SQL before the limit,    *)
(* proposals by can_read_proposal after it.                                *)
(***************************************************************************)
EXTENDS Naturals, FiniteSets

CONSTANTS Actors, Admins,      \* see Rbac
          Repo, Org,           \* a repository, the organization
          Rows,                \* ids of memories and of proposals
          MaxStamp,            \* bound: writes
          PageSizes            \* values of limit

INSTANCE Rbac WITH SharedScopes <- {Repo, Org}

VARIABLES memories, proposals, \* the tables
          clock,               \* the last updated_at
          walk                 \* a client reading page after page

tables == <<memories, proposals, clock>>
vars == <<tables, walk>>

NoRow == [status |-> "none", stamp |-> 0]
NoWalk == [pc |-> "idle", shown |-> {}]

Init ==
  /\ memories = [i \in Rows |-> NoRow]
  /\ proposals = [i \in Rows |-> NoRow]
  /\ clock = 0
  /\ walk = NoWalk

-----------------------------------------------------------------------------
(* Filters.  A walk w names its list, actor, section and status ("any"     *)
(* where the request gives none).                                          *)

HasStatus(w, row) == row.status # "none" /\ w.status \in {"any", row.status}

\* Section "all" is for admins, see StartMemories.
InSection(w, row) ==
  CASE w.section = "my" -> row.scope = w.actor
    [] w.section = "repo" -> row.scope = Repo
    [] w.section = "org" -> row.scope = Org
    [] w.section = "all" -> TRUE

\* What the SQL filter takes for can_read_memory.
\* Mutant: for the scopes alone.
ReadableScope(actor, row) ==
  IsAdmin(actor) \/ row.scope \in {actor, Repo, Org}
Readable(actor, row) ==
  \/ IsAdmin(actor)
  \/ row.status = "approved" /\ row.scope \in {actor, Repo, Org}

CanReadProposal(actor, row) == row.creator = actor \/ IsAdmin(actor)

\* The rows the query of the walk is about.
Matches(w, row) ==
  /\ HasStatus(w, row)
  /\ w.list = "memories" => InSection(w, row) /\ Readable(w.actor, row)

-----------------------------------------------------------------------------
(* Writes: a new row, or a change that moves the row to the front.         *)

\* The walk remembers what was written, and whether anything left its list.
Noted(i, old, new) ==
  IF walk.pc = "idle" THEN walk
  ELSE [walk EXCEPT !.touched = @ \cup {i},
                    !.left = @ \/ (Matches(walk, old) /\ ~Matches(walk, new))]

CreateMemory(i, scope) ==
  /\ memories[i] = NoRow
  /\ memories' = [memories EXCEPT
       ![i] = [status |-> "approved", scope |-> scope, stamp |-> clock + 1]]

ChangeMemory(i, status) ==
  /\ memories[i].status = "approved"
  /\ memories' = [memories EXCEPT ![i].status = status, ![i].stamp = clock + 1]

WriteMemory ==
  /\ clock < MaxStamp
  /\ clock' = clock + 1
  /\ \E i \in Rows :
       /\ \/ \E scope \in Scopes : CreateMemory(i, scope)
          \/ \E status \in {"approved", "archived"} : ChangeMemory(i, status)
       /\ walk' = Noted(i, memories[i], memories'[i])
  /\ UNCHANGED proposals

SubmitProposal(i, creator) ==
  /\ proposals[i] = NoRow
  /\ proposals' = [proposals EXCEPT
       ![i] = [status |-> "pending", creator |-> creator, stamp |-> clock + 1]]

DecideProposal(i) ==
  /\ proposals[i].status = "pending"
  /\ proposals' = [proposals EXCEPT ![i].status = "decided",
                                    ![i].stamp = clock + 1]

WriteProposal ==
  /\ clock < MaxStamp
  /\ clock' = clock + 1
  /\ \E i \in Rows :
       /\ (\E creator \in Actors : SubmitProposal(i, creator)) \/ DecideProposal(i)
       /\ walk' = Noted(i, proposals[i], proposals'[i])
  /\ UNCHANGED memories

-----------------------------------------------------------------------------
(* Pages.                                                                  *)

Start(list, actor, section, status, size) ==
  walk' = [pc |-> "reading", list |-> list, actor |-> actor,
           section |-> section, status |-> status, size |-> size,
           offset |-> 0, shown |-> {}, touched |-> {}, left |-> FALSE]

\* _section_memory_filter refuses "all" to those who are not admins.
StartMemories ==
  /\ walk.pc = "idle"
  /\ \E actor \in Actors, section \in {"my", "repo", "org", "all"},
        status \in {"any", "approved"}, size \in PageSizes :
       /\ section = "all" => IsAdmin(actor)
       /\ Start("memories", actor, section, status, size)
  /\ UNCHANGED tables

StartProposals ==
  /\ walk.pc = "idle"
  /\ \E list \in {"proposals", "review_status"}, actor \in Actors,
        status \in {"any", "pending"}, size \in PageSizes :
       Start(list, actor, "all", status, size)
  /\ UNCHANGED tables

\* Mutant: what was written last comes last.
OldestFirst(a, b) == a.stamp < b.stamp
NewestFirst(a, b) == a.stamp > b.stamp

\* The rows of the list that come before a row.  No two rows have a stamp.
Ahead(w, table, row) ==
  {j \in Rows : Matches(w, table[j]) /\ NewestFirst(table[j], row)}

\* ORDER BY, OFFSET and LIMIT.
Page(table) ==
  LET Position(row) == Cardinality(Ahead(walk, table, row))
      InPage(row) == /\ Matches(walk, row)
                     /\ walk.offset <= Position(row)
                     /\ Position(row) < walk.offset + walk.size
  IN {[id |-> i, row |-> table[i]] : i \in {j \in Rows : InPage(table[j])}}

\* The client goes on until no row can be left; the tool asks once.
Show(page) ==
  walk' = [walk EXCEPT
    !.shown = @ \cup page,
    !.offset = @ + walk.size,
    !.pc = IF \/ walk.list = "review_status"
              \/ walk.offset + walk.size >= Cardinality(Rows)
           THEN "done" ELSE "reading"]

ListMemories ==
  /\ walk.pc = "reading"
  /\ walk.list = "memories"
  /\ Show(Page(memories))
  /\ UNCHANGED tables

ListProposals ==
  /\ walk.pc = "reading"
  /\ walk.list # "memories"
  /\ Show({one \in Page(proposals) : CanReadProposal(walk.actor, one.row)})
  /\ UNCHANGED tables

EndWalk ==
  /\ walk.pc = "done"
  /\ walk' = NoWalk
  /\ UNCHANGED tables

MemoryNext == WriteMemory \/ StartMemories \/ ListMemories \/ EndWalk
ProposalNext == WriteProposal \/ StartProposals \/ ListProposals \/ EndWalk
Next == MemoryNext \/ ProposalNext

Spec == Init /\ [][Next]_vars

-----------------------------------------------------------------------------
(* Properties.                                                             *)

\* The types of the tables and of the walk.
TypeOK ==
  /\ clock \in 0 .. MaxStamp
  /\ \A i \in Rows :
       /\ memories[i].status \in {"none", "approved", "archived"}
       /\ proposals[i].status \in {"none", "pending", "decided"}
       /\ {memories[i].stamp, proposals[i].stamp} \subseteq 0 .. clock
  /\ walk.pc \in {"idle", "reading", "done"}

\* What the permission checks, which single reads go by, let the actor see.
Permitted(w, row) ==
  IF w.list = "memories" THEN CanReadMemory(w.actor, row)
  ELSE CanReadProposal(w.actor, row)

\* A list shows only what a single read of the same row would have shown:
\* the SQL filter and the filter after the limit agree with the checks.
ListedIsReadable == \A one \in walk.shown : Permitted(walk, one.row)

Wanted(w, row) ==
  /\ HasStatus(w, row)
  /\ w.list = "memories" => InSection(w, row)
  /\ Permitted(w, row)

\* Reading page after page while others write misses no readable row that
\* nobody wrote, unless some row left the list meanwhile (a proposal that
\* was decided, a memory that was archived), which moves the later ones up.
\* One page of review status hides a proposal only behind newer ones.
WalkIsComplete ==
  walk.pc = "done" =>
    LET table == IF walk.list = "memories" THEN memories ELSE proposals IN
    \A i \in Rows \ walk.touched :
      Wanted(walk, table[i]) =>
        \/ \E one \in walk.shown : one.id = i
        \/ walk.left /\ walk.list # "review_status"
        \/ /\ walk.list = "review_status"
           /\ Cardinality({j \in Rows :
                             \/ j \in walk.touched
                             \/ /\ Matches(walk, table[j])
                                /\ table[j].stamp > table[i].stamp})
                >= walk.size

-----------------------------------------------------------------------------
(* What the theorems ask of the constants.                                 *)

\* Tables are finite, limits are numbers.
ListConstants == IsFiniteSet(Rows) /\ PageSizes \subseteq Nat /\ MaxStamp \in Nat
=============================================================================
