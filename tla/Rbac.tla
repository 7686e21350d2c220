-------------------------------- MODULE Rbac --------------------------------
(***************************************************************************)
(* The permission checks of app/services/rbac_service.py, for the actors   *)
(* of one organization.  A memory's scope is the pair (scope_type,         *)
(* scope_id) of the code: the actor that owns it when scope_type is USER,  *)
(* and a member of SharedScopes when it is REPO or ORG.                    *)
(***************************************************************************)

CONSTANTS Actors,        \* users of the organization
          Admins,        \* the actors whose roles hold "admin"
          SharedScopes   \* repository and organization scopes

ASSUME RbacAssumption == /\ Admins \subseteq Actors
                         /\ Actors \cap SharedScopes = {}

Scopes == Actors \cup SharedScopes

IsAdmin(a) == a \in Admins

\* Memories that are not approved are shown to admins only.
CanReadMemory(a, memory) ==
  \/ IsAdmin(a)
  \/ /\ memory.status = "approved"
     /\ memory.scope = a \/ memory.scope \in SharedScopes

CanCreateMemory(a, scope) == IsAdmin(a) \/ scope = a

CanProposeMemory(a, scope) ==
  IsAdmin(a) \/ scope = a \/ scope \in SharedScopes

CanApproveMemory(a) == IsAdmin(a)

CanEditMemory(a, memory) == IsAdmin(a) \/ memory.scope = a

CanDeleteMemory(a, memory) == IsAdmin(a) \/ memory.scope = a

CanManageTags(a) == IsAdmin(a)
=============================================================================
