----------------------------- MODULE MCDirectory -----------------------------
(***************************************************************************)
(* The parts that keep the organization's directory, instantiated for TLC: *)
(* tags (TagCatalog), role assignments (RoleAssignments), repositories     *)
(* (Repositories, by any client, or PluginHooks, by the plugin's hooks)    *)
(* and users (GoogleLogin).  The parts share no variable; as in MCMcp each *)
(* behaviour keeps to one of them.                                         *)
(***************************************************************************)
EXTENDS TLC

CONSTANTS TagIds, Looks, TagRequests, EmptySlug, NoTag,
          AssignmentIds, ScopeTypes, ScopeIds, Null, Notes, RoleRequests, NoAssignment,
          Malformed, None, RepoRequests, NoRepository, NotSaid,
          Browsers, Logins, Subjects, Emails, Callbacks, MaxCodes,
          AutoProvision, NoLogin, NoUser,
          Parts         \* the parts whose behaviours are explored

VARIABLES focus,
          tags, deleted, tagRequest,
          assignments, removed, roleRequest,
          repositories, autoSaved, named, repoRequest, workspace, hook, said,
          cookie, begun, codes, spent, users, identities, webSessions, callback

tagVars == <<tags, deleted, tagRequest>>
roleVars == <<assignments, removed, roleRequest>>
repoVars == <<repositories, autoSaved, named, repoRequest, workspace, hook, said>>
loginVars == <<cookie, begun, codes, spent, users, identities, webSessions, callback>>
vars == <<focus, tagVars, roleVars, repoVars, loginVars>>

\* Two spellings of one slug, another slug, and a text without a slug.
Texts == {"Build Tool", "build-tool", "Style", "!!"}
SlugOf == [text \in Texts |->
  CASE text \in {"Build Tool", "build-tool"} -> "build-tool"
    [] text = "Style" -> "style"
    [] text = "!!" -> EmptySlug]

\* Two remotes and one on a host with the name of the fallback's, and a
\* clone under the name of the first.
App == <<"git.org", "team", "app">>
Lib == <<"git.org", "team", "lib">>
Sham == <<"local-fallback", "unknown", "app">>
Remotes == {App, Lib, Sham}
Names == {"app", "lib", "/work/app", "/"}
BaseOf == [n \in Names |-> CASE n = "/work/app" -> "app"
                             [] n = "/" -> None
                             [] OTHER -> n]

\* Metadata with some fields.
Blank == [repo_id |-> None, repository_id |-> None, id |-> None,
          origin_url |-> None, remote_origin_url |-> None, remote_url |-> None,
          repo_dir_name |-> None, git_root_basename |-> None, repo_slug |-> None,
          git_root |-> None, repository_path |-> None, path |-> None,
          repo_hint |-> None]
Plain(metadata) == [json |-> Blank, plain |-> metadata]
Json(metadata) == [json |-> metadata, plain |-> Blank]
Headers == {Plain(Blank),
            Plain([Blank EXCEPT !.origin_url = App, !.git_root = "/work/app"]),
            Plain([Blank EXCEPT !.origin_url = Malformed, !.repo_hint = "app"]),
            Json([Blank EXCEPT !.remote_url = App, !.id = Malformed])}
Arguments == {Blank,
              [Blank EXCEPT !.origin_url = Lib, !.remote_url = App, !.path = "/"],
              [Blank EXCEPT !.remote_origin_url = Sham, !.repo_slug = "app"],
              [Blank EXCEPT !.repo_id = Malformed, !.repository_id = Sham]}

\* The plugin's clone, with a directory named like another repository, and
\* what its agent may pass.
Root == "/work/app"
Directories == {"lib"}
Origins == {App, Malformed}
Hints == {Blank, [Blank EXCEPT !.origin_url = Lib]}

\* The configuration gives the requests of all parts the same values, and
\* so browsers and logins, and accounts and addresses.
Symmetry == Permutations(Callbacks) \cup Permutations(Logins)
              \cup Permutations(Subjects)

Tags == INSTANCE TagCatalog
Roles == INSTANCE RoleAssignments
Repos == INSTANCE Repositories
Plugin == INSTANCE PluginHooks
Login == INSTANCE GoogleLogin

\* What the theorems about the parts ask of the constants.
ASSUME TheoremsApply ==
  /\ Repos!RepoConstants
  /\ Plugin!PluginConstants
  /\ Login!LoginConstants

Init ==
  /\ focus \in Parts
  /\ Tags!Init
  /\ Roles!Init
  /\ Plugin!PluginInit
  /\ Login!Init
  /\ focus # "login" => users = [e \in Emails |-> "none"]

Next ==
  \/ /\ focus = "tags"
     /\ Tags!Next
     /\ UNCHANGED <<focus, roleVars, repoVars, loginVars>>
  \/ /\ focus = "roles"
     /\ Roles!Next
     /\ UNCHANGED <<focus, tagVars, repoVars, loginVars>>
  \/ /\ focus = "repositories"
     /\ Repos!Next
     /\ UNCHANGED <<focus, tagVars, roleVars, workspace, hook, said, loginVars>>
  \/ /\ focus = "plugin"
     /\ Plugin!PluginNext
     /\ UNCHANGED <<focus, tagVars, roleVars, loginVars>>
  \/ /\ focus = "login"
     /\ Login!Next
     /\ UNCHANGED <<focus, tagVars, roleVars, repoVars>>

Spec == Init /\ [][Next]_vars

-----------------------------------------------------------------------------
(* Properties.                                                             *)

\* The types of the components.
TypesOK ==
  /\ Tags!TypeOK
  /\ Roles!TypeOK
  /\ Repos!TypeOK
  /\ focus = "plugin" => Plugin!PluginTypeOK
  /\ Login!TypeOK

\* A late save does not bring a deleted tag back.
DeletedTagsStayGone == Tags!DeletedTagsStayGone

\* A late save does not bring a removed role assignment back.
RemovedStaysRemoved == Roles!RemovedStaysRemoved

\* Scope "auto" saves in no repository that no URL had named.
AutoSavesWereNamed == Repos!AutoSavesWereNamed

\* The origin_url of the headers decides.
HeaderOriginIsObeyed == Repos!HeaderOriginIsObeyed

\* A remote URL in the headers, under any name, is not overridden.
HeaderUrlIsObeyed == Repos!HeaderUrlIsObeyed

\* The plugin saves automatically where it told the agent, or for the user.
SavesWhereTold == Plugin!SavesWhereTold

\* A remote named outside a clone reaches the backend.
NamedRemoteIsUsed == Plugin!NamedRemoteIsUsed

\* Sessions belong to the user of the account's identity.
SessionFollowsIdentity == Login!SessionFollowsIdentity

\* An account keeps its user.
SubjectKeepsUser == Login!SubjectKeepsUser

\* A session is in the browser that began the login it is from.
LoginStaysInBrowser == Login!LoginStaysInBrowser
=============================================================================
