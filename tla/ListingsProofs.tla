--------------------------- MODULE ListingsProofs ---------------------------
(***************************************************************************)
(* What Listings promises for any finite tables, actors and page sizes.    *)
(*                                                                         *)
(* A list is read by offset while rows move to its front.  A row that      *)
(* nobody writes can only sink: until some row leaves the list, the rows   *)
(* before it stay before it, though they may change places (CaughtStays).  *)
(* So whatever stands before the offset has been shown, and this is the    *)
(* inductive invariant (Caught).  The definitions take the walk and the    *)
(* table as arguments, to speak of them before and after a step.           *)
(***************************************************************************)
EXTENDS Listings, FiniteSetTheorems, TLAPS

MemoryRow == [status : {"approved", "archived"}, scope : Scopes, stamp : Nat]
ProposalRow == [status : {"pending", "decided"}, creator : Actors, stamp : Nat]
Entry == [id : Rows, row : MemoryRow \cup ProposalRow]

Walk ==
  [pc : {"reading", "done"}, list : {"memories", "proposals", "review_status"},
   actor : Actors, section : {"my", "repo", "org", "all"},
   status : {"any", "approved", "pending"}, size : Nat, offset : Nat,
   shown : SUBSET Entry, touched : SUBSET Rows, left : BOOLEAN]

\* Stamps tell the rows of a table apart, and the last one is now.
Stamped(t, now) ==
  /\ \A i \in Rows : t[i].stamp \in 0 .. now
  /\ \A i, j \in Rows :
       t[i].status # "none" /\ t[j].status # "none" /\ t[i].stamp = t[j].stamp => i = j

TablesOK ==
  /\ clock \in 0 .. MaxStamp
  /\ memories \in [Rows -> MemoryRow \cup {NoRow}]
  /\ proposals \in [Rows -> ProposalRow \cup {NoRow}]
  /\ Stamped(memories, clock)
  /\ Stamped(proposals, clock)

\* The table a walk reads.
TableOf(w, ms, ps) == IF w.list = "memories" THEN ms ELSE ps

Found(w, i) == \E one \in w.shown : one.id = i

\* What one page of review status may hide row i behind.
Before(w, t, i) ==
  {j \in Rows : j \in w.touched \/ (Matches(w, t[j]) /\ t[j].stamp > t[i].stamp)}

\* Walk w of table t has shown whatever stands before its offset, unless a
\* row left the list; with one page, whatever is not behind a page of rows.
Caught(w, t) ==
  /\ w.list # "review_status" =>
       /\ ~w.left =>
            \A i \in Rows \ w.touched :
              /\ Wanted(w, t[i])
              /\ Cardinality(Ahead(w, t, t[i])) < w.offset
              => Found(w, i)
       /\ w.pc = "done" => w.offset >= Cardinality(Rows)
  /\ w.list = "review_status" =>
       /\ w.pc = "reading" => w.offset = 0
       /\ w.pc = "done" =>
            \A i \in Rows \ w.touched :
              Wanted(w, t[i]) => Found(w, i) \/ Cardinality(Before(w, t, i)) >= w.size

\* The inductive invariant.
ListInv ==
  /\ TablesOK
  /\ walk = NoWalk \/ walk \in Walk
  /\ ListedIsReadable
  /\ walk # NoWalk => Caught(walk, TableOf(walk, memories, proposals))

-----------------------------------------------------------------------------
(* Positions in a list.                                                    *)

\* The rows ahead of a row are finitely many.
LEMMA AheadFinite ==
  ASSUME ListConstants, NEW w, NEW t, NEW row
  PROVE  /\ Ahead(w, t, row) \subseteq Rows
         /\ IsFiniteSet(Ahead(w, t, row))
         /\ Cardinality(Ahead(w, t, row)) \in Nat
<1>1. Ahead(w, t, row) \subseteq Rows
  BY DEF Ahead
<1>2. IsFiniteSet(Rows)
  BY DEF ListConstants
<1> QED
  BY <1>1, <1>2, FS_Subset, FS_CardinalityType

\* So are those it may be hidden behind.
LEMMA BeforeFinite ==
  ASSUME ListConstants, NEW w, NEW t, NEW i
  PROVE  IsFiniteSet(Before(w, t, i)) /\ Cardinality(Before(w, t, i)) \in Nat
<1>1. Before(w, t, i) \subseteq Rows
  BY DEF Before
<1>2. IsFiniteSet(Rows)
  BY DEF ListConstants
<1> QED
  BY <1>1, <1>2, FS_Subset, FS_CardinalityType

\* What the actor wants to see, the query finds: it stands in the list.
LEMMA WantedMatches ==
  ASSUME NEW w, NEW row, Wanted(w, row)
  PROVE  Matches(w, row)
BY DEF Wanted, Matches, Permitted, CanReadMemory, Readable

\* No row stands behind as many rows as there are.
LEMMA PositionBounded ==
  ASSUME ListConstants, NEW w, NEW t, NEW i \in Rows, t[i].stamp \in Nat
  PROVE  Cardinality(Ahead(w, t, t[i])) < Cardinality(Rows)
<1>1. IsFiniteSet(Rows) /\ Cardinality(Rows) \in Nat
  BY FS_CardinalityType DEF ListConstants
<1>2. i \notin Ahead(w, t, t[i])
  BY DEF Ahead, NewestFirst
<1>3. Ahead(w, t, t[i]) \subseteq Rows /\ Cardinality(Ahead(w, t, t[i])) \in Nat
  BY AheadFinite
<1>4. Cardinality(Ahead(w, t, t[i])) <= Cardinality(Rows)
      /\ (Cardinality(Ahead(w, t, t[i])) = Cardinality(Rows) => Rows = Ahead(w, t, t[i]))
  BY <1>1, <1>3, FS_Subset
<1> QED
  BY <1>1, <1>2, <1>3, <1>4

-----------------------------------------------------------------------------
(* Writes while a client reads.                                            *)

\* The request of a walk stays the same; others write.
SameRequest(w, x) ==
  /\ x.pc = w.pc /\ x.list = w.list /\ x.actor = w.actor /\ x.section = w.section
  /\ x.status = w.status /\ x.size = w.size /\ x.offset = w.offset
  /\ x.shown = w.shown
  /\ w.touched \subseteq x.touched
  /\ w.left => x.left

\* The filters look at what a client asked for, not at how far it has read.
LEMMA SameFilters ==
  ASSUME NEW w, NEW x, SameRequest(w, x)
  PROVE  \A row : /\ Matches(x, row) <=> Matches(w, row)
                  /\ Permitted(x, row) <=> Permitted(w, row)
                  /\ Wanted(x, row) <=> Wanted(w, row)
BY DEF SameRequest, Matches, HasStatus, InSection, Permitted, Wanted

\* A row nobody writes sinks, and with it what is shown of it.
LEMMA CaughtStays ==
  ASSUME ListConstants, NEW w \in Walk, NEW x, NEW t, NEW u,
         SameRequest(w, x), Caught(w, t),
         \A i \in Rows \ x.touched :
           /\ u[i] = t[i]
           /\ ~x.left => Ahead(w, t, t[i]) \subseteq Ahead(w, u, t[i])
           /\ Before(w, t, i) \subseteq Before(x, u, i)
  PROVE  Caught(x, u)
<1>1. \A row : (Matches(x, row) <=> Matches(w, row)) /\ (Wanted(x, row) <=> Wanted(w, row))
  BY SameFilters
<1>2. /\ x.pc = w.pc /\ x.list = w.list /\ x.size = w.size /\ x.offset = w.offset
      /\ x.shown = w.shown /\ w.touched \subseteq x.touched /\ (w.left => x.left)
  BY DEF SameRequest
<1>3. \A i : Found(x, i) <=> Found(w, i)
  BY <1>2 DEF Found
<1>4. \A row : Ahead(x, u, row) = Ahead(w, u, row)
  BY <1>1 DEF Ahead
<1>5. w.offset \in Nat /\ w.size \in Nat
  BY DEF Walk
<1>6. ASSUME x.list # "review_status", ~x.left, NEW i \in Rows \ x.touched,
             Wanted(x, u[i]), Cardinality(Ahead(x, u, u[i])) < x.offset
      PROVE  Found(x, i)
  <2>1. u[i] = t[i] /\ Ahead(w, t, t[i]) \subseteq Ahead(w, u, t[i])
    BY <1>6
  <2>2. Cardinality(Ahead(w, t, t[i])) <= Cardinality(Ahead(w, u, t[i]))
    BY <2>1, AheadFinite, FS_Subset
  <2>3. Cardinality(Ahead(w, t, t[i])) < w.offset
    BY <1>2, <1>4, <1>5, <1>6, <2>1, <2>2, AheadFinite
  <2>4. Wanted(w, t[i]) /\ i \in Rows \ w.touched /\ ~w.left /\ w.list # "review_status"
    BY <1>1, <1>2, <1>6, <2>1
  <2> QED
    BY <1>3, <2>3, <2>4 DEF Caught
<1>7. ASSUME x.list = "review_status", x.pc = "done", NEW i \in Rows \ x.touched,
             Wanted(x, u[i])
      PROVE  Found(x, i) \/ Cardinality(Before(x, u, i)) >= x.size
  <2>1. u[i] = t[i] /\ Before(w, t, i) \subseteq Before(x, u, i)
    BY <1>7
  <2>2. Cardinality(Before(w, t, i)) <= Cardinality(Before(x, u, i))
    BY <2>1, BeforeFinite, FS_Subset
  <2>3. Wanted(w, t[i]) /\ i \in Rows \ w.touched /\ w.list = "review_status" /\ w.pc = "done"
    BY <1>1, <1>2, <1>7, <2>1
  <2>4. Found(w, i) \/ Cardinality(Before(w, t, i)) >= w.size
    BY <2>3 DEF Caught
  <2> QED
    BY <1>2, <1>3, <1>5, <2>2, <2>4, BeforeFinite
<1>8. /\ x.list # "review_status" /\ x.pc = "done" => x.offset >= Cardinality(Rows)
      /\ x.list = "review_status" /\ x.pc = "reading" => x.offset = 0
  BY <1>2 DEF Caught
<1> QED
  BY <1>6, <1>7, <1>8 DEF Caught

\* A write of the table itself: the row moves to the front, and the walk
\* notes if that takes it out of the list.
LEMMA WriteCaught ==
  ASSUME ListConstants, NEW w \in Walk, NEW x, NEW t, NEW u, NEW k \in Rows,
         NEW now \in Nat, SameRequest(w, x), x.touched = w.touched \cup {k},
         Caught(w, t), \A i \in Rows : t[i].stamp \in 0 .. now,
         \A i \in Rows \ {k} : u[i] = t[i],
         u[k].stamp = now + 1,
         Matches(w, t[k]) /\ ~Matches(w, u[k]) => x.left
  PROVE  Caught(x, u)
<1>1. ASSUME NEW i \in Rows \ x.touched
      PROVE  /\ u[i] = t[i]
             /\ ~x.left => Ahead(w, t, t[i]) \subseteq Ahead(w, u, t[i])
             /\ Before(w, t, i) \subseteq Before(x, u, i)
  <2>1. i # k /\ i \in Rows
    BY <1>1
  <2>2. u[i] = t[i]
    BY <2>1
  <2>3. ASSUME ~x.left, NEW j \in Ahead(w, t, t[i])
        PROVE  j \in Ahead(w, u, t[i])
    <3>1. j \in Rows /\ Matches(w, t[j]) /\ t[j].stamp > t[i].stamp
      BY <2>3 DEF Ahead, NewestFirst
    <3>2. CASE j # k
      BY <3>1, <3>2 DEF Ahead, NewestFirst
    <3>3. CASE j = k
      <4>1. Matches(w, u[j])
        BY <2>3, <3>1, <3>3
      <4>2. u[j].stamp > t[i].stamp
        BY <2>1, <3>3
      <4> QED
        BY <3>1, <4>1, <4>2 DEF Ahead, NewestFirst
    <3> QED
      BY <3>2, <3>3
  <2>4. ASSUME NEW j \in Before(w, t, i)
        PROVE  j \in Before(x, u, i)
    <3>1. j \in Rows /\ (j \in w.touched \/ (Matches(w, t[j]) /\ t[j].stamp > t[i].stamp))
      BY <2>4 DEF Before
    <3>2. CASE j \in x.touched
      BY <3>1, <3>2 DEF Before
    <3>3. CASE j \notin x.touched
      <4>1. j # k /\ Matches(w, t[j]) /\ t[j].stamp > t[i].stamp
        BY <3>1, <3>3
      <4>2. Matches(x, u[j]) /\ u[j].stamp > u[i].stamp
        BY <2>2, <3>1, <4>1, SameFilters
      <4> QED
        BY <3>1, <4>2 DEF Before
    <3> QED
      BY <3>2, <3>3
  <2> QED
    BY <2>2, <2>3, <2>4
<1> QED
  BY <1>1, CaughtStays

\* A write of the other table.
LEMMA WriteElsewhere ==
  ASSUME ListConstants, NEW w \in Walk, NEW x, NEW t, SameRequest(w, x), Caught(w, t)
  PROVE  Caught(x, t)
<1>1. \A i : Before(w, t, i) \subseteq Before(x, t, i)
  <2>1. \A row : Matches(x, row) <=> Matches(w, row)
    BY SameFilters
  <2>2. w.touched \subseteq x.touched
    BY DEF SameRequest
  <2> QED
    BY <2>1, <2>2 DEF Before
<1> QED
  BY <1>1, CaughtStays

-----------------------------------------------------------------------------
(* Pages.                                                                  *)

\* The walk after a page.
Shown(w, page) ==
  [w EXCEPT !.shown = w.shown \cup page,
            !.offset = w.offset + w.size,
            !.pc = IF \/ w.list = "review_status"
                      \/ w.offset + w.size >= Cardinality(Rows)
                   THEN "done" ELSE "reading"]

\* What a walk holds after a page.
LEMMA ShownWalk ==
  ASSUME NEW w \in Walk, NEW page \in SUBSET Entry
  PROVE  /\ Shown(w, page) \in Walk
         /\ Shown(w, page).list = w.list /\ Shown(w, page).actor = w.actor
         /\ Shown(w, page).section = w.section /\ Shown(w, page).status = w.status
         /\ Shown(w, page).size = w.size /\ Shown(w, page).touched = w.touched
         /\ Shown(w, page).left = w.left
         /\ Shown(w, page).shown = w.shown \cup page
         /\ Shown(w, page).offset = w.offset + w.size
         /\ Shown(w, page).pc = IF \/ w.list = "review_status"
                                   \/ w.offset + w.size >= Cardinality(Rows)
                                THEN "done" ELSE "reading"
<1> DEFINE pc == IF w.list = "review_status" \/ w.offset + w.size >= Cardinality(Rows)
                 THEN "done" ELSE "reading"
           offset == w.offset + w.size
           shown == w.shown \cup page
<1>1. Shown(w, page) = [w EXCEPT !.shown = shown, !.offset = offset, !.pc = pc]
  BY DEF Shown
<1>2. pc \in {"reading", "done"}
  OBVIOUS
<1>3. offset \in Nat /\ shown \in SUBSET Entry
  BY DEF Walk
<1> HIDE DEF pc, offset, shown
<1>4. /\ Shown(w, page) \in Walk
      /\ Shown(w, page).list = w.list /\ Shown(w, page).actor = w.actor
      /\ Shown(w, page).section = w.section /\ Shown(w, page).status = w.status
      /\ Shown(w, page).size = w.size /\ Shown(w, page).touched = w.touched
      /\ Shown(w, page).left = w.left
      /\ Shown(w, page).shown = shown
      /\ Shown(w, page).offset = offset
      /\ Shown(w, page).pc = pc
  BY <1>1, <1>2, <1>3 DEF Walk
<1> QED
  BY <1>4 DEF pc, offset, shown

\* A page that holds the wanted rows at its positions leaves none out.
LEMMA PageCaught ==
  ASSUME ListConstants, NEW w \in Walk, NEW t, NEW page \in SUBSET Entry, Caught(w, t),
         \A i \in Rows : t[i].stamp \in Nat,
         w.pc = "reading",
         \A i \in Rows :
           /\ Wanted(w, t[i])
           /\ w.offset <= Cardinality(Ahead(w, t, t[i]))
           /\ Cardinality(Ahead(w, t, t[i])) < w.offset + w.size
           => \E one \in page : one.id = i
  PROVE  Caught(Shown(w, page), t)
<1> DEFINE x == Shown(w, page)
<1>1. /\ x.list = w.list /\ x.actor = w.actor /\ x.section = w.section
      /\ x.status = w.status /\ x.size = w.size /\ x.touched = w.touched
      /\ x.left = w.left /\ x.shown = w.shown \cup page
      /\ x.offset = w.offset + w.size
      /\ x.pc = IF w.list = "review_status" \/ w.offset + w.size >= Cardinality(Rows)
                THEN "done" ELSE "reading"
  BY ShownWalk
<1> HIDE DEF x
<1>2. \A row : /\ Matches(x, row) <=> Matches(w, row)
               /\ Wanted(x, row) <=> Wanted(w, row)
  BY <1>1 DEF Matches, HasStatus, InSection, Permitted, Wanted
<1>3. \A row : Ahead(x, t, row) = Ahead(w, t, row)
  BY <1>2 DEF Ahead
<1>4. w.offset \in Nat /\ w.size \in Nat
  BY DEF Walk
<1>5. ASSUME x.list # "review_status", ~x.left, NEW i \in Rows \ x.touched,
             Wanted(x, t[i]), Cardinality(Ahead(x, t, t[i])) < x.offset
      PROVE  Found(x, i)
  <2>1. Wanted(w, t[i]) /\ i \in Rows \ w.touched /\ ~w.left /\ w.list # "review_status"
    BY <1>1, <1>2, <1>5
  <2>2. Cardinality(Ahead(w, t, t[i])) < w.offset + w.size
    BY <1>1, <1>3, <1>5
  <2>3. CASE Cardinality(Ahead(w, t, t[i])) < w.offset
    <3>1. Found(w, i)
      BY <2>1, <2>3 DEF Caught
    <3> QED
      BY <1>1, <3>1 DEF Found
  <2>4. CASE w.offset <= Cardinality(Ahead(w, t, t[i]))
    <3>1. \E one \in page : one.id = i
      BY <2>1, <2>2, <2>4
    <3> QED
      BY <1>1, <3>1 DEF Found
  <2> QED
    BY <1>4, <2>3, <2>4, AheadFinite
<1>6. ASSUME x.list = "review_status", NEW i \in Rows \ x.touched, Wanted(x, t[i])
      PROVE  Found(x, i) \/ Cardinality(Before(x, t, i)) >= x.size
  <2>1. w.offset = 0
    BY <1>1, <1>6 DEF Caught
  <2>2. Wanted(w, t[i])
    BY <1>2, <1>6
  <2>3. CASE Cardinality(Ahead(w, t, t[i])) < w.size
    <3>1. \E one \in page : one.id = i
      BY <1>4, <2>1, <2>2, <2>3, AheadFinite
    <3> QED
      BY <1>1, <3>1 DEF Found
  <2>4. CASE Cardinality(Ahead(w, t, t[i])) >= w.size
    <3>1. Ahead(w, t, t[i]) \subseteq Before(x, t, i)
      BY <1>2 DEF Ahead, Before, NewestFirst
    <3>2. Cardinality(Ahead(w, t, t[i])) <= Cardinality(Before(x, t, i))
      BY <3>1, BeforeFinite, FS_Subset
    <3> QED
      BY <1>1, <1>4, <2>4, <3>2, AheadFinite, BeforeFinite
  <2> QED
    BY <1>4, <2>3, <2>4, AheadFinite
<1>7. x.list # "review_status" /\ x.pc = "done" => x.offset >= Cardinality(Rows)
  BY <1>1
<1>8. ~(x.list = "review_status" /\ x.pc = "reading")
  BY <1>1
<1>9. Caught(x, t)
  BY <1>5, <1>6, <1>7, <1>8 DEF Caught
<1> QED
  BY <1>9 DEF x

\* A page holds rows of the table that the query finds.
LEMMA PageEntries ==
  ASSUME walk \in Walk, NEW t, NEW one \in Page(t),
         \A i \in Rows : t[i] \in MemoryRow \cup ProposalRow \cup {NoRow}
  PROVE  one \in Entry /\ Matches(walk, one.row)
<1>1. PICK i \in Rows : one = [id |-> i, row |-> t[i]] /\ Matches(walk, t[i])
  BY DEF Page
<1>2. t[i] # NoRow
  BY <1>1 DEF Matches, HasStatus, NoRow
<1> QED
  BY <1>1, <1>2 DEF Entry

\* And all of them at its positions.
LEMMA PageComplete ==
  ASSUME ListConstants, NEW t, NEW i \in Rows, Matches(walk, t[i]),
         walk.offset <= Cardinality(Ahead(walk, t, t[i])),
         Cardinality(Ahead(walk, t, t[i])) < walk.offset + walk.size
  PROVE  [id |-> i, row |-> t[i]] \in Page(t)
BY DEF Page

\* A row before another one stands at an earlier position.
LEMMA PositionsApart ==
  ASSUME ListConstants, NEW w, NEW t, NEW i \in Rows, NEW j \in Rows,
         \A k \in Rows : t[k].stamp \in Nat,
         Matches(w, t[i]), t[i].stamp > t[j].stamp
  PROVE  Cardinality(Ahead(w, t, t[i])) < Cardinality(Ahead(w, t, t[j]))
<1>1. Ahead(w, t, t[i]) \subseteq Ahead(w, t, t[j])
  BY DEF Ahead, NewestFirst
<1>2. i \in Ahead(w, t, t[j]) /\ i \notin Ahead(w, t, t[i])
  BY DEF Ahead, NewestFirst
<1>3. /\ Cardinality(Ahead(w, t, t[i])) <= Cardinality(Ahead(w, t, t[j]))
      /\ Cardinality(Ahead(w, t, t[i])) = Cardinality(Ahead(w, t, t[j])) =>
           Ahead(w, t, t[i]) = Ahead(w, t, t[j])
  BY <1>1, AheadFinite, FS_Subset
<1> QED
  BY <1>2, <1>3, AheadFinite

\* A page has at most as many rows as were asked for.
LEMMA PageFits ==
  ASSUME ListConstants, walk \in Walk, NEW t, NEW now \in Nat, Stamped(t, now)
  PROVE  IsFiniteSet(Page(t)) /\ Cardinality(Page(t)) <= walk.size
<1> DEFINE Position(row) == Cardinality(Ahead(walk, t, row))
           Positions == walk.offset .. walk.offset + walk.size - 1
           f == [one \in Page(t) |-> Position(one.row)]
<1>1. walk.offset \in Nat /\ walk.size \in Nat
  BY DEF Walk
<1>2. \A k \in Rows : t[k].stamp \in Nat
  BY DEF Stamped
<1>3. ASSUME NEW one \in Page(t)
      PROVE  /\ Position(one.row) \in Positions
             /\ \E i \in Rows : one = [id |-> i, row |-> t[i]] /\ Matches(walk, t[i])
  <2>1. PICK i \in Rows :
          /\ one = [id |-> i, row |-> t[i]] /\ Matches(walk, t[i])
          /\ walk.offset <= Position(t[i]) /\ Position(t[i]) < walk.offset + walk.size
    BY <1>3 DEF Page
  <2>2. Position(t[i]) \in Nat
    BY AheadFinite
  <2> QED
    BY <1>1, <2>1, <2>2
<1>4. ASSUME NEW one \in Page(t), NEW two \in Page(t),
             Position(one.row) = Position(two.row)
      PROVE  one = two
  <2>1. PICK i \in Rows : one = [id |-> i, row |-> t[i]] /\ Matches(walk, t[i])
    BY <1>3
  <2>2. PICK j \in Rows : two = [id |-> j, row |-> t[j]] /\ Matches(walk, t[j])
    BY <1>3
  <2>3. Position(t[i]) = Position(t[j]) /\ Position(t[i]) \in Nat
    BY <1>4, <2>1, <2>2, AheadFinite
  <2>4. ~(t[i].stamp > t[j].stamp)
    <3>1. SUFFICES ASSUME t[i].stamp > t[j].stamp PROVE FALSE
      OBVIOUS
    <3>2. Position(t[i]) < Position(t[j])
      BY <1>2, <2>1, <3>1, PositionsApart
    <3> QED
      BY <2>3, <3>2
  <2>a. ~(t[j].stamp > t[i].stamp)
    <3>1. SUFFICES ASSUME t[j].stamp > t[i].stamp PROVE FALSE
      OBVIOUS
    <3>2. Position(t[j]) < Position(t[i])
      BY <1>2, <2>2, <3>1, PositionsApart
    <3> QED
      BY <2>3, <3>2
  <2>5. t[i].stamp = t[j].stamp
    BY <1>2, <2>4, <2>a
  <2>6. t[i].status # "none" /\ t[j].status # "none"
    BY <2>1, <2>2 DEF Matches, HasStatus
  <2>7. i = j
    BY <2>5, <2>6 DEF Stamped
  <2> QED
    BY <2>1, <2>2, <2>7
<1> HIDE DEF Position, Positions
<1>5. f \in [Page(t) -> Positions]
  BY <1>3
<1>6. \A one, two \in Page(t) : f[one] = f[two] => one = two
  BY <1>4
<1>7. f \in Injection(Page(t), Positions)
  BY <1>5, <1>6 DEF Injection, IsInjective
<1>8. IsFiniteSet(Positions) /\ Cardinality(Positions) = walk.size
  <2> DEFINE last == walk.offset + walk.size - 1
  <2>1. walk.offset \in Int /\ last \in Int
    BY <1>1
  <2>2. /\ IsFiniteSet(walk.offset .. last)
        /\ Cardinality(walk.offset .. last) =
             IF walk.offset > last THEN 0 ELSE last - walk.offset + 1
    <3> HIDE DEF last
    <3> QED
      BY <2>1, FS_Interval
  <2> QED
    BY <1>1, <2>2 DEF Positions
<1> QED
  BY <1>7, <1>8, FS_Injection

-----------------------------------------------------------------------------
(* The actions keep the invariant.                                         *)

LEMMA InitListed ==
  ASSUME ListConstants, Init
  PROVE  ListInv
<1>1. memories \in [Rows -> MemoryRow \cup {NoRow}] /\ proposals \in [Rows -> ProposalRow \cup {NoRow}]
  BY DEF Init
<1>2. Stamped(memories, clock) /\ Stamped(proposals, clock)
  BY DEF Init, Stamped, NoRow
<1>3. clock \in 0 .. MaxStamp
  BY DEF Init, ListConstants
<1>4. ListedIsReadable
  BY DEF Init, NoWalk, ListedIsReadable
<1> QED
  BY <1>1, <1>2, <1>3, <1>4 DEF ListInv, TablesOK, Init

\* A walk that has begun has all its fields.
LEMMA WalkIdle ==
  ASSUME ListInv
  PROVE  /\ walk.pc = "idle" <=> walk = NoWalk
         /\ walk.pc # "idle" => walk \in Walk
BY DEF ListInv, Walk, NoWalk

\* A row put at the front keeps the stamps apart.
LEMMA StampedWrite ==
  ASSUME NEW t, NEW u, NEW now \in Nat, NEW k \in Rows, Stamped(t, now),
         \A i \in Rows \ {k} : u[i] = t[i],
         u[k].stamp = now + 1
  PROVE  Stamped(u, now + 1)
<1>1. \A i \in Rows \ {k} : u[i].stamp \in 0 .. now
  BY DEF Stamped
<1>2. \A i \in Rows : u[i].stamp \in 0 .. now + 1
  BY <1>1
<1>3. ASSUME NEW i \in Rows, NEW j \in Rows, u[i].status # "none", u[j].status # "none",
             u[i].stamp = u[j].stamp
      PROVE  i = j
  <2>1. CASE i = k \/ j = k
    BY <1>1, <1>3, <2>1
  <2>2. CASE i # k /\ j # k
    BY <1>3, <2>2 DEF Stamped
  <2> QED
    BY <2>1, <2>2
<1> QED
  BY <1>2, <1>3 DEF Stamped

\* Changed rows have their types.
LEMMA MemoryChanged ==
  ASSUME NEW row \in MemoryRow, NEW status \in {"approved", "archived"}, NEW stamp \in Nat
  PROVE  /\ [row EXCEPT !.status = status, !.stamp = stamp] \in MemoryRow
         /\ [row EXCEPT !.status = status, !.stamp = stamp].stamp = stamp
BY DEF MemoryRow

\* A decided proposal is a proposal.
LEMMA ProposalChanged ==
  ASSUME NEW row \in ProposalRow, NEW stamp \in Nat
  PROVE  /\ [row EXCEPT !.status = "decided", !.stamp = stamp] \in ProposalRow
         /\ [row EXCEPT !.status = "decided", !.stamp = stamp].stamp = stamp
BY DEF ProposalRow

\* Time may pass for a table that is not written.
LEMMA StampedLater ==
  ASSUME NEW t, NEW now \in Nat, Stamped(t, now)
  PROVE  Stamped(t, now + 1)
BY DEF Stamped

\* What a write of one table does to the walk, whichever table it reads.
LEMMA WriteListed ==
  ASSUME ListConstants, ListInv, NEW k \in Rows, NEW old, NEW new,
         NEW t, NEW u,
         walk' = Noted(k, old, new),
         walk # NoWalk =>
           \/ u = t
           \/ /\ old = t[k] /\ new = u[k]
              /\ u[k].stamp = clock + 1
              /\ \A i \in Rows \ {k} : u[i] = t[i]
              /\ \A i \in Rows : t[i].stamp \in 0 .. clock,
         walk # NoWalk => Caught(walk, t)
  PROVE  /\ walk' = NoWalk \/ walk' \in Walk
         /\ walk' = NoWalk <=> walk = NoWalk
         /\ ListedIsReadable'
         /\ walk' # NoWalk => Caught(walk', u) /\ walk'.list = walk.list
<1>1. clock \in Nat
  BY DEF ListInv, TablesOK, ListConstants
<1>2. CASE walk = NoWalk
  <2>1. walk' = NoWalk
    BY <1>2 DEF Noted, NoWalk
  <2> QED
    BY <1>2, <2>1 DEF ListedIsReadable, NoWalk
<1>3. CASE walk # NoWalk
  <2>1. walk \in Walk /\ walk.pc # "idle"
    BY <1>3, WalkIdle DEF ListInv
  <2>2. PICK l \in BOOLEAN :
          /\ l <=> walk.left \/ (Matches(walk, old) /\ ~Matches(walk, new))
          /\ walk' = [walk EXCEPT !.touched = walk.touched \cup {k}, !.left = l]
    <3> DEFINE l == walk.left \/ (Matches(walk, old) /\ ~Matches(walk, new))
    <3>1. walk' = [walk EXCEPT !.touched = walk.touched \cup {k}, !.left = l]
      BY <2>1 DEF Noted
    <3>2. l \in BOOLEAN
      OBVIOUS
    <3> HIDE DEF l
    <3>3. \E b \in BOOLEAN :
            (b <=> l) /\ walk' = [walk EXCEPT !.touched = walk.touched \cup {k}, !.left = b]
      BY <3>1, <3>2
    <3> QED
      BY <3>3 DEF l
  <2>3. /\ walk.left = TRUE => l = TRUE
        /\ walk' = [walk EXCEPT !.touched = walk.touched \cup {k}, !.left = l]
    BY <2>2
  <2>4. /\ walk' \in Walk
        /\ SameRequest(walk, walk')
        /\ walk'.touched = walk.touched \cup {k} /\ walk'.left = l
    <3> DEFINE touched == walk.touched \cup {k}
    <3>1. touched \in SUBSET Rows /\ walk.touched \subseteq touched
      BY <2>1 DEF Walk
    <3>2. walk' = [walk EXCEPT !.touched = touched, !.left = l]
      BY <2>3
    <3> HIDE DEF touched
    <3>3. walk' \in Walk /\ walk'.touched = touched /\ walk'.left = l
      BY <2>1, <3>1, <3>2 DEF Walk
    <3>4. SameRequest(walk, walk')
      BY <2>1, <2>3, <3>1, <3>2 DEF Walk, SameRequest
    <3> QED
      BY <3>3, <3>4 DEF touched
  <2>5. Caught(walk', u)
    <3>1. CASE u = t
      <4>1. Caught(walk, t)
        BY <1>3
      <4>2. Caught(walk', t)
        BY <2>1, <2>4, <4>1, WriteElsewhere
      <4> QED
        BY <3>1, <4>2
    <3>2. CASE u # t
      <4>1. /\ old = t[k] /\ new = u[k]
            /\ u[k].stamp = clock + 1
            /\ \A i \in Rows \ {k} : u[i] = t[i]
            /\ \A i \in Rows : t[i].stamp \in 0 .. clock
            /\ Caught(walk, t)
        BY <1>3, <3>2
      <4>2. Matches(walk, t[k]) /\ ~Matches(walk, u[k]) => walk'.left
        BY <2>2, <2>4, <4>1
      <4> QED
        BY <1>1, <2>1, <2>4, <4>1, <4>2, WriteCaught
    <3> QED
      BY <3>1, <3>2
  <2>6. ListedIsReadable'
    BY <2>4, SameFilters DEF SameRequest, ListInv, ListedIsReadable
  <2>7. walk' # NoWalk
    BY <2>4 DEF Walk, NoWalk
  <2>8. walk'.list = walk.list
    BY <2>4 DEF SameRequest
  <2> QED
    BY <1>3, <2>4, <2>5, <2>6, <2>7, <2>8
<1> QED
  BY <1>2, <1>3

LEMMA WriteMemoryListed ==
  ASSUME ListConstants, ListInv, WriteMemory
  PROVE  ListInv'
<1>0. TablesOK /\ clock \in Nat
  BY DEF ListInv, TablesOK, ListConstants
<1>1. clock' = clock + 1 /\ clock' \in 0 .. MaxStamp /\ proposals' = proposals
  BY <1>0 DEF WriteMemory, TablesOK, ListConstants
<1>2. PICK k \in Rows :
        /\ \/ \E scope \in Scopes : CreateMemory(k, scope)
           \/ \E status \in {"approved", "archived"} : ChangeMemory(k, status)
        /\ walk' = Noted(k, memories[k], memories'[k])
  BY DEF WriteMemory
<1>3. /\ memories' \in [Rows -> MemoryRow \cup {NoRow}]
      /\ memories'[k].stamp = clock + 1
      /\ \A i \in Rows \ {k} : memories'[i] = memories[i]
  <2>1. ASSUME NEW scope \in Scopes, CreateMemory(k, scope)
        PROVE  \E row \in MemoryRow :
                 row.stamp = clock + 1 /\ memories' = [memories EXCEPT ![k] = row]
    <3>1. [status |-> "approved", scope |-> scope, stamp |-> clock + 1] \in MemoryRow
      BY <1>0 DEF MemoryRow
    <3> QED
      BY <2>1, <3>1 DEF CreateMemory
  <2>2. ASSUME NEW status \in {"approved", "archived"}, ChangeMemory(k, status)
        PROVE  \E row \in MemoryRow :
                 row.stamp = clock + 1 /\ memories' = [memories EXCEPT ![k] = row]
    <3> DEFINE row == [memories[k] EXCEPT !.status = status, !.stamp = clock + 1]
    <3>1. memories[k] \in MemoryRow
      <4>1. memories[k] \in MemoryRow \cup {NoRow} /\ memories[k].status = "approved"
        BY <1>0, <2>2 DEF ChangeMemory, TablesOK
      <4> QED
        BY <4>1 DEF NoRow
    <3>2. row \in MemoryRow /\ row.stamp = clock + 1
      <4>1. clock + 1 \in Nat
        BY <1>0
      <4> QED
        BY <3>1, <4>1, MemoryChanged
    <3>3. memories' = [memories EXCEPT ![k] = row]
      BY <1>0, <2>2 DEF ChangeMemory, TablesOK
    <3> QED
      BY <3>2, <3>3
  <2>3. PICK row \in MemoryRow :
             row.stamp = clock + 1 /\ memories' = [memories EXCEPT ![k] = row]
    BY <1>2, <2>1, <2>2
  <2> QED
    BY <1>0, <2>3 DEF TablesOK
<1>4. Stamped(memories', clock + 1) /\ Stamped(proposals', clock + 1)
  BY <1>0, <1>1, <1>3, StampedWrite, StampedLater DEF TablesOK
<1>5. TablesOK'
  BY <1>0, <1>1, <1>3, <1>4 DEF TablesOK
<1>6. \A i \in Rows : memories[i].stamp \in 0 .. clock
  BY <1>0 DEF TablesOK, Stamped
<1> DEFINE t == TableOf(walk, memories, proposals)
           u == TableOf(walk, memories', proposals')
<1>7. walk # NoWalk =>
        \/ u = t
        \/ /\ memories[k] = t[k] /\ memories'[k] = u[k]
           /\ u[k].stamp = clock + 1
           /\ \A i \in Rows \ {k} : u[i] = t[i]
           /\ \A i \in Rows : t[i].stamp \in 0 .. clock
  BY <1>1, <1>3, <1>6 DEF TableOf
<1>8. walk # NoWalk => Caught(walk, t)
  BY DEF ListInv
<1> HIDE DEF t, u
<1>9. /\ walk' = NoWalk \/ walk' \in Walk
      /\ ListedIsReadable'
      /\ walk' # NoWalk => Caught(walk', u) /\ walk'.list = walk.list
  BY <1>2, <1>7, <1>8, WriteListed
<1>10. walk' # NoWalk => u = TableOf(walk', memories', proposals')
  BY <1>9 DEF u, TableOf
<1> QED
  BY <1>5, <1>9, <1>10 DEF ListInv

LEMMA WriteProposalListed ==
  ASSUME ListConstants, ListInv, WriteProposal
  PROVE  ListInv'
<1>0. TablesOK /\ clock \in Nat
  BY DEF ListInv, TablesOK, ListConstants
<1>1. clock' = clock + 1 /\ clock' \in 0 .. MaxStamp /\ memories' = memories
  BY <1>0 DEF WriteProposal, TablesOK, ListConstants
<1>2. PICK k \in Rows :
        /\ (\E creator \in Actors : SubmitProposal(k, creator)) \/ DecideProposal(k)
        /\ walk' = Noted(k, proposals[k], proposals'[k])
  BY DEF WriteProposal
<1>3. /\ proposals' \in [Rows -> ProposalRow \cup {NoRow}]
      /\ proposals'[k].stamp = clock + 1
      /\ \A i \in Rows \ {k} : proposals'[i] = proposals[i]
  <2>1. ASSUME NEW creator \in Actors, SubmitProposal(k, creator)
        PROVE  \E row \in ProposalRow :
                 row.stamp = clock + 1 /\ proposals' = [proposals EXCEPT ![k] = row]
    <3>1. [status |-> "pending", creator |-> creator, stamp |-> clock + 1] \in ProposalRow
      BY <1>0 DEF ProposalRow
    <3> QED
      BY <2>1, <3>1 DEF SubmitProposal
  <2>2. ASSUME DecideProposal(k)
        PROVE  \E row \in ProposalRow :
                 row.stamp = clock + 1 /\ proposals' = [proposals EXCEPT ![k] = row]
    <3> DEFINE row == [proposals[k] EXCEPT !.status = "decided", !.stamp = clock + 1]
    <3>1. proposals[k] \in ProposalRow
      <4>1. proposals[k] \in ProposalRow \cup {NoRow} /\ proposals[k].status = "pending"
        BY <1>0, <2>2 DEF DecideProposal, TablesOK
      <4> QED
        BY <4>1 DEF NoRow
    <3>2. row \in ProposalRow /\ row.stamp = clock + 1
      <4>1. clock + 1 \in Nat
        BY <1>0
      <4> QED
        BY <3>1, <4>1, ProposalChanged
    <3>3. proposals' = [proposals EXCEPT ![k] = row]
      BY <1>0, <2>2 DEF DecideProposal, TablesOK
    <3> QED
      BY <3>2, <3>3
  <2>3. PICK row \in ProposalRow :
             row.stamp = clock + 1 /\ proposals' = [proposals EXCEPT ![k] = row]
    BY <1>2, <2>1, <2>2
  <2> QED
    BY <1>0, <2>3 DEF TablesOK
<1>4. Stamped(proposals', clock + 1) /\ Stamped(memories', clock + 1)
  BY <1>0, <1>1, <1>3, StampedWrite, StampedLater DEF TablesOK
<1>5. TablesOK'
  BY <1>0, <1>1, <1>3, <1>4 DEF TablesOK
<1>6. \A i \in Rows : proposals[i].stamp \in 0 .. clock
  BY <1>0 DEF TablesOK, Stamped
<1> DEFINE t == TableOf(walk, memories, proposals)
           u == TableOf(walk, memories', proposals')
<1>7. walk # NoWalk =>
        \/ u = t
        \/ /\ proposals[k] = t[k] /\ proposals'[k] = u[k]
           /\ u[k].stamp = clock + 1
           /\ \A i \in Rows \ {k} : u[i] = t[i]
           /\ \A i \in Rows : t[i].stamp \in 0 .. clock
  BY <1>1, <1>3, <1>6 DEF TableOf
<1>8. walk # NoWalk => Caught(walk, t)
  BY DEF ListInv
<1> HIDE DEF t, u
<1>9. /\ walk' = NoWalk \/ walk' \in Walk
      /\ ListedIsReadable'
      /\ walk' # NoWalk => Caught(walk', u) /\ walk'.list = walk.list
  BY <1>2, <1>7, <1>8, WriteListed
<1>10. walk' # NoWalk => u = TableOf(walk', memories', proposals')
  BY <1>9 DEF u, TableOf
<1> QED
  BY <1>5, <1>9, <1>10 DEF ListInv

\* A walk that begins has nothing to have shown.
LEMMA StartListed ==
  ASSUME ListConstants, ListInv, UNCHANGED tables,
         NEW list \in {"memories", "proposals", "review_status"}, NEW actor \in Actors,
         NEW section \in {"my", "repo", "org", "all"},
         NEW status \in {"any", "approved", "pending"}, NEW size \in PageSizes,
         Start(list, actor, section, status, size)
  PROVE  ListInv'
<1> DEFINE w == [pc |-> "reading", list |-> list, actor |-> actor,
                section |-> section, status |-> status, size |-> size,
                offset |-> 0, shown |-> {}, touched |-> {}, left |-> FALSE]
<1>1. walk' = w
  BY DEF Start
<1>2. w \in Walk
  BY DEF Walk, ListConstants
<1>3. w.pc = "reading" /\ w.shown = {} /\ w.offset = 0
  OBVIOUS
<1> HIDE DEF w
<1>4. \A t : Caught(w, t)
  <2>1. \A t, row : ~(Cardinality(Ahead(w, t, row)) < w.offset)
    BY <1>3, AheadFinite
  <2> QED
    BY <1>3, <2>1 DEF Caught
<1>5. ListedIsReadable'
  BY <1>1, <1>3 DEF ListedIsReadable
<1>6. TablesOK'
  BY DEF ListInv, TablesOK, tables
<1> QED
  BY <1>1, <1>2, <1>4, <1>5, <1>6 DEF ListInv

\* A page of permitted rows with all wanted rows at its positions.
LEMMA ShowListed ==
  ASSUME ListConstants, ListInv, UNCHANGED tables, walk.pc = "reading",
         NEW page \in SUBSET Entry, Show(page),
         \A one \in page : Permitted(walk, one.row),
         \A i \in Rows :
           LET t == TableOf(walk, memories, proposals) IN
           /\ Wanted(walk, t[i])
           /\ walk.offset <= Cardinality(Ahead(walk, t, t[i]))
           /\ Cardinality(Ahead(walk, t, t[i])) < walk.offset + walk.size
           => \E one \in page : one.id = i
  PROVE  ListInv'
<1> DEFINE t == TableOf(walk, memories, proposals)
<1>1. walk \in Walk /\ walk # NoWalk
  BY WalkIdle
<1>2. walk' = Shown(walk, page)
  BY DEF Show, Shown
<1>3. \A i \in Rows : t[i].stamp \in Nat
  BY DEF ListInv, TablesOK, TableOf, Stamped
<1>4. Caught(walk, t)
  BY <1>1 DEF ListInv
<1> HIDE DEF t
<1>5. Caught(Shown(walk, page), t)
  BY <1>1, <1>3, <1>4, PageCaught DEF t
<1>6. walk' \in Walk /\ walk'.list = walk.list /\ walk'.actor = walk.actor
      /\ walk'.shown = walk.shown \cup page
  BY <1>1, <1>2, ShownWalk
<1>7. ListedIsReadable'
  BY <1>6 DEF ListInv, ListedIsReadable, Permitted
<1>8. TablesOK' /\ TableOf(walk', memories', proposals') = t
  BY <1>6 DEF ListInv, TablesOK, tables, TableOf, t
<1> QED
  BY <1>2, <1>5, <1>6, <1>7, <1>8 DEF ListInv

LEMMA ListMemoriesListed ==
  ASSUME ListConstants, ListInv, ListMemories
  PROVE  ListInv'
<1>1. walk.pc = "reading" /\ walk.list = "memories" /\ Show(Page(memories)) /\ UNCHANGED tables
  BY DEF ListMemories
<1>2. walk \in Walk
  BY <1>1, WalkIdle
<1>3. \A i \in Rows : memories[i] \in MemoryRow \cup ProposalRow \cup {NoRow}
  BY DEF ListInv, TablesOK
<1>4. \A one \in Page(memories) : one \in Entry /\ Matches(walk, one.row)
  BY <1>2, <1>3, PageEntries
<1>5. \A one \in Page(memories) : Permitted(walk, one.row)
  BY <1>1, <1>4 DEF Matches, Readable, Permitted, CanReadMemory
<1>6. ASSUME NEW i \in Rows, Wanted(walk, memories[i]),
             walk.offset <= Cardinality(Ahead(walk, memories, memories[i])),
             Cardinality(Ahead(walk, memories, memories[i])) < walk.offset + walk.size
      PROVE  \E one \in Page(memories) : one.id = i
  <2>1. [id |-> i, row |-> memories[i]] \in Page(memories)
    BY <1>6, WantedMatches, PageComplete
  <2> QED
    BY <2>1
<1>7. Page(memories) \in SUBSET Entry
  BY <1>4
<1>8. TableOf(walk, memories, proposals) = memories
  BY <1>1 DEF TableOf
<1> QED
  BY <1>1, <1>5, <1>6, <1>7, <1>8, ShowListed

LEMMA ListProposalsListed ==
  ASSUME ListConstants, ListInv, ListProposals
  PROVE  ListInv'
<1> DEFINE page == {one \in Page(proposals) : CanReadProposal(walk.actor, one.row)}
<1>1. walk.pc = "reading" /\ walk.list # "memories" /\ Show(page) /\ UNCHANGED tables
  BY DEF ListProposals
<1>2. walk \in Walk
  BY <1>1, WalkIdle
<1>3. \A i \in Rows : proposals[i] \in MemoryRow \cup ProposalRow \cup {NoRow}
  BY DEF ListInv, TablesOK
<1>4. \A one \in Page(proposals) : one \in Entry /\ Matches(walk, one.row)
  BY <1>2, <1>3, PageEntries
<1>5. \A one \in page : Permitted(walk, one.row)
  BY <1>1 DEF Permitted
<1>6. ASSUME NEW i \in Rows, Wanted(walk, proposals[i]),
             walk.offset <= Cardinality(Ahead(walk, proposals, proposals[i])),
             Cardinality(Ahead(walk, proposals, proposals[i])) < walk.offset + walk.size
      PROVE  \E one \in page : one.id = i
  <2>1. [id |-> i, row |-> proposals[i]] \in Page(proposals)
    BY <1>6, WantedMatches, PageComplete
  <2>2. CanReadProposal(walk.actor, proposals[i])
    BY <1>1, <1>6 DEF Wanted, Permitted
  <2> QED
    BY <2>1, <2>2
<1>7. page \in SUBSET Entry
  BY <1>4
<1>8. TableOf(walk, memories, proposals) = proposals
  BY <1>1 DEF TableOf
<1> HIDE DEF page
<1> QED
  BY <1>1, <1>5, <1>6, <1>7, <1>8, ShowListed

LEMMA ListStep ==
  ASSUME ListConstants, ListInv, [Next]_vars
  PROVE  ListInv'
<1>1. CASE UNCHANGED vars
  BY <1>1 DEF vars, tables, ListInv, TablesOK, ListedIsReadable
<1>2. CASE WriteMemory
  BY <1>2, WriteMemoryListed
<1>3. CASE WriteProposal
  BY <1>3, WriteProposalListed
<1>4. CASE StartMemories
  <2>1. PICK actor \in Actors, section \in {"my", "repo", "org", "all"},
             status \in {"any", "approved"}, size \in PageSizes :
          Start("memories", actor, section, status, size)
    BY <1>4 DEF StartMemories
  <2>2. UNCHANGED tables
    BY <1>4 DEF StartMemories
  <2> QED
    BY <2>1, <2>2, StartListed
<1>5. CASE StartProposals
  <2>1. PICK list \in {"proposals", "review_status"}, actor \in Actors,
             status \in {"any", "pending"}, size \in PageSizes :
          Start(list, actor, "all", status, size)
    BY <1>5 DEF StartProposals
  <2>2. UNCHANGED tables
    BY <1>5 DEF StartProposals
  <2> QED
    BY <2>1, <2>2, StartListed
<1>6. CASE ListMemories
  BY <1>6, ListMemoriesListed
<1>7. CASE ListProposals
  BY <1>7, ListProposalsListed
<1>8. CASE EndWalk
  <2>1. walk' = NoWalk /\ UNCHANGED tables
    BY <1>8 DEF EndWalk
  <2>2. ListedIsReadable'
    BY <2>1 DEF ListedIsReadable, NoWalk
  <2> QED
    BY <2>1, <2>2 DEF ListInv, TablesOK, tables
<1> QED
  BY <1>1, <1>2, <1>3, <1>4, <1>5, <1>6, <1>7, <1>8 DEF Next, MemoryNext, ProposalNext

-----------------------------------------------------------------------------
(* The theorems.                                                           *)

\* Whatever stands before the offset of a walk has been shown, unless a row
\* left the list; stamps tell the rows of a table apart.
THEOREM NothingIsSkipped ==
  ASSUME ListConstants
  PROVE  Spec => []ListInv
<1>1. Init => ListInv
  BY InitListed
<1>2. ListInv /\ [Next]_vars => ListInv'
  BY ListStep
<1> QED
  BY <1>1, <1>2, PTL DEF Spec

\* The tables and the walk keep their types.
THEOREM ListTypesCorrect ==
  ASSUME ListConstants
  PROVE  Spec => []TypeOK
<1>1. ASSUME ListInv
      PROVE  TypeOK
  <2>1. TablesOK
    BY <1>1 DEF ListInv
  <2>2. ASSUME NEW i \in Rows
        PROVE  /\ memories[i].status \in {"none", "approved", "archived"}
               /\ proposals[i].status \in {"none", "pending", "decided"}
    BY <2>1 DEF TablesOK, MemoryRow, ProposalRow, NoRow
  <2>3. ASSUME NEW i \in Rows
        PROVE  {memories[i].stamp, proposals[i].stamp} \subseteq 0 .. clock
    BY <2>1 DEF TablesOK, Stamped
  <2>4. walk.pc \in {"idle", "reading", "done"}
    BY <1>1 DEF ListInv, Walk, NoWalk
  <2> QED
    BY <2>1, <2>2, <2>3, <2>4 DEF TypeOK, TablesOK
<1> QED
  BY <1>1, NothingIsSkipped, PTL

\* The dashboard's lists and the review status show only what a single read
\* of the same row would have shown.
THEOREM ListsShowReadable ==
  ASSUME ListConstants
  PROVE  Spec => []ListedIsReadable
<1>1. ListInv => ListedIsReadable
  BY DEF ListInv
<1> QED
  BY <1>1, NothingIsSkipped, PTL

\* A page is no longer than its limit.
PagesFit ==
  walk # NoWalk =>
    /\ Cardinality(Page(memories)) <= walk.size
    /\ Cardinality(Page(proposals)) <= walk.size

\* A page of a list, and the review status, never hold more rows than the
\* limit: the order by updated_at has one row at each position.
THEOREM PagesHaveTheirSize ==
  ASSUME ListConstants
  PROVE  Spec => []PagesFit
<1>1. ListInv => PagesFit
  <2>1. ListInv => clock \in Nat
    BY DEF ListInv, TablesOK, ListConstants
  <2> QED
    BY <2>1, PageFits DEF ListInv, TablesOK, PagesFit
<1> QED
  BY <1>1, NothingIsSkipped, PTL

\* Reading page after page, with pages of any size and while any number of
\* others write, misses no readable row that nobody wrote, unless some row
\* left the list; one page of review status hides a proposal only behind as
\* many newer ones as it has room for.
THEOREM WalksAreComplete ==
  ASSUME ListConstants
  PROVE  Spec => []WalkIsComplete
<1>1. ASSUME ListInv, walk.pc = "done",
             NEW i \in Rows \ walk.touched,
             Wanted(walk, TableOf(walk, memories, proposals)[i])
      PROVE  \/ \E one \in walk.shown : one.id = i
             \/ walk.left /\ walk.list # "review_status"
             \/ /\ walk.list = "review_status"
                /\ Cardinality(Before(walk, TableOf(walk, memories, proposals), i)) >= walk.size
  <2> DEFINE t == TableOf(walk, memories, proposals)
  <2>1. walk \in Walk /\ walk # NoWalk /\ Caught(walk, t)
    BY <1>1, WalkIdle DEF ListInv, NoWalk
  <2>2. t[i].stamp \in Nat
    BY <1>1 DEF ListInv, TablesOK, Stamped, TableOf
  <2> HIDE DEF t
  <2>3. Cardinality(Ahead(walk, t, t[i])) < Cardinality(Rows)
    BY <2>2, PositionBounded
  <2>4. Cardinality(Rows) \in Nat /\ Cardinality(Ahead(walk, t, t[i])) \in Nat
        /\ walk.offset \in Nat
    BY <2>1, AheadFinite, FS_CardinalityType DEF ListConstants, Walk
  <2>5. CASE walk.list # "review_status" /\ ~walk.left
    <3>1. Cardinality(Ahead(walk, t, t[i])) < walk.offset
      BY <1>1, <2>1, <2>3, <2>4, <2>5 DEF Caught
    <3> QED
      BY <1>1, <2>1, <2>5, <3>1 DEF Caught, Found, t
  <2>6. CASE walk.list # "review_status" /\ walk.left
    BY <2>6
  <2>7. CASE walk.list = "review_status"
    BY <1>1, <2>1, <2>7 DEF Caught, Found, t
  <2> QED
    BY <2>5, <2>6, <2>7
<1>2. ListInv => WalkIsComplete
  BY <1>1 DEF WalkIsComplete, TableOf, Before
<1> QED
  BY <1>2, NothingIsSkipped, PTL
=============================================================================
