--------------------------- MODULE RoleAssignments ---------------------------
(***************************************************************************)
(* create_role_assignment and delete_role_assignment of AdminService       *)
(* (app/services/admin_service.py), for one user and one role: an          *)
(* assignment is found or created with get_or_create, and a found one gets *)
(* the request's metadata merged in.  A scope is a type and an id, each of *)
(* which may be missing without the other.  The table allows a complete    *)
(* scope once, but SQL does not compare missing values.                    *)
(***************************************************************************)
EXTENDS Naturals, FiniteSets

CONSTANTS AssignmentIds,
          ScopeTypes,
          ScopeIds,
          Null,          \* a missing scope_type or scope_id
          Notes,         \* keys of metadata
          RoleRequests,  \* admins' requests in flight
          NoAssignment

VARIABLES assignments,   \* engram_role_assignments
          removed,       \* history: ids of deleted rows
          roleRequest

vars == <<assignments, removed, roleRequest>>

Idle == [pc |-> "idle"]
Scopes == (ScopeTypes \cup {Null}) \X (ScopeIds \cup {Null})
Stored == {a \in AssignmentIds : assignments[a] # NoAssignment}
InScope(scope) == {a \in Stored : assignments[a].scope = scope}

Init ==
  /\ assignments = [a \in AssignmentIds |-> NoAssignment]
  /\ removed = {}
  /\ roleRequest = [r \in RoleRequests |-> Idle]

\* UNIQUE (org, user, role, scope_type, scope_id): NULL equals nothing.
Inserts(scope) == Null \in {scope[1], scope[2]} \/ InScope(scope) = {}

\* The row a SELECT of one row finds; several are an error, and so is none
\* after a failed INSERT.
Continue(r, scope, note, ifNone) ==
  roleRequest' = [roleRequest EXCEPT ![r] =
    CASE Cardinality(InScope(scope)) = 1 ->
           [pc |-> "merge", assignment |-> CHOOSE a \in InScope(scope) : TRUE,
            row |-> [scope |-> scope,
                     notes |-> {note} \cup
                       UNION {assignments[a].notes : a \in InScope(scope)}]]
      [] InScope(scope) = {} -> ifNone
      [] OTHER -> Idle]

\* get_or_create: SELECT ...
CreateAssignment(r) ==
  /\ roleRequest[r].pc = "idle"
  /\ \E scope \in Scopes, note \in Notes :
       Continue(r, scope, note,
                [pc |-> "insert", scope |-> scope, note |-> note])
  /\ UNCHANGED <<assignments, removed>>

\* ... else INSERT, and if that conflicts, SELECT again.
InsertAssignment(r) ==
  /\ roleRequest[r].pc = "insert"
  /\ LET q == roleRequest[r] IN
     IF Inserts(q.scope)
     THEN /\ \E a \in AssignmentIds \ (Stored \cup removed) :
               assignments' = [assignments EXCEPT
                 ![a] = [scope |-> q.scope, notes |-> {q.note}]]
          /\ roleRequest' = [roleRequest EXCEPT ![r] = Idle]
     ELSE /\ roleRequest' = [roleRequest EXCEPT ![r].pc = "again"]
          /\ UNCHANGED assignments
  /\ UNCHANGED removed

SelectAgain(r) ==
  /\ roleRequest[r].pc = "again"
  /\ Continue(r, roleRequest[r].scope, roleRequest[r].note, Idle)
  /\ UNCHANGED <<assignments, removed>>

\* The metadata is merged into the row as it was read, and all of it saved.
\* Mutant: a row that is gone is written again.
SaveMergedBack(r) ==
  /\ roleRequest[r].pc = "merge"
  /\ assignments' = [assignments EXCEPT
       ![roleRequest[r].assignment] = roleRequest[r].row]
  /\ roleRequest' = [roleRequest EXCEPT ![r] = Idle]
  /\ UNCHANGED removed
SaveMerged(r) ==
  /\ roleRequest[r].pc = "merge"
  /\ assignments' = [assignments EXCEPT
       ![roleRequest[r].assignment] =
         IF @ = NoAssignment THEN @ ELSE roleRequest[r].row]
  /\ roleRequest' = [roleRequest EXCEPT ![r] = Idle]
  /\ UNCHANGED removed

\* delete_role_assignment reads the row, then deletes it.
LoadAssignment(r) ==
  /\ roleRequest[r].pc = "idle"
  /\ \E a \in Stored :
       roleRequest' = [roleRequest EXCEPT ![r] = [pc |-> "delete", assignment |-> a]]
  /\ UNCHANGED <<assignments, removed>>

DeleteAssignment(r) ==
  /\ roleRequest[r].pc = "delete"
  /\ assignments' = [assignments EXCEPT ![roleRequest[r].assignment] = NoAssignment]
  /\ removed' = removed \cup {roleRequest[r].assignment}
  /\ roleRequest' = [roleRequest EXCEPT ![r] = Idle]

Next ==
  \E r \in RoleRequests :
    \/ CreateAssignment(r)
    \/ InsertAssignment(r)
    \/ SelectAgain(r)
    \/ SaveMerged(r)
    \/ LoadAssignment(r)
    \/ DeleteAssignment(r)

Spec == Init /\ [][Next]_vars

-----------------------------------------------------------------------------
(* Properties.                                                             *)

Assignment == [scope : Scopes, notes : (SUBSET Notes) \ {{}}]

\* The table and the requests have the types the code gives them.
TypeOK ==
  /\ assignments \in [AssignmentIds -> Assignment \cup {NoAssignment}]
  /\ removed \subseteq AssignmentIds
  /\ \A r \in RoleRequests :
       LET q == roleRequest[r] IN
       /\ q.pc \in {"idle", "insert", "again", "merge", "delete"}
       /\ q.pc \in {"merge", "delete"} => q.assignment \in AssignmentIds
       /\ q.pc = "merge" => q.row \in Assignment

\* A role that one admin took away does not come back because another was
\* about to add metadata to the assignment as it was before.
RemovedStaysRemoved ==
  [][\A a \in removed : assignments'[a] = NoAssignment]_vars
=============================================================================
