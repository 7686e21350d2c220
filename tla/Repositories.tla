---------------------------- MODULE Repositories ----------------------------
(***************************************************************************)
(* From repository metadata to a repository row and to the scope of a      *)
(* memory.  McpContextService lays the headers of a request over the       *)
(* tool's argument, name by name, and reads each piece of metadata under   *)
(* the first of its names that is there; RepositoryResolver finds the      *)
(* repository or creates it; mcp_router decides by the row's confidence    *)
(* whether scope "auto" means the repository or the user.  The plugin      *)
(* status route passes plain headers to the resolver as they are           *)
(* (dependencies.py).  Requests interleave between their statements.       *)
(* Names stand for their lowercase form without ".git".                    *)
(***************************************************************************)
EXTENDS Naturals

CONSTANTS Remotes,        \* what URLs name: <<host, workspace, slug>>
          Names,          \* of directories, and paths
          BaseOf,         \* _basename: Names -> Names, None if nothing is left
          Headers,        \* headers a request may have: [json, plain]
          Arguments,      \* metadata the tool's argument may carry
          Malformed,      \* a URL or an id that cannot be parsed
          None,           \* a field that is missing or blank
          RepoRequests,   \* requests in flight
          NoRepository

VARIABLES repositories,   \* engram_repositories, by repository_key
          autoSaved,      \* repositories scope "auto" has saved a memory in
          named,          \* history: keys that URLs of requests have named
          repoRequest

vars == <<repositories, autoSaved, named, repoRequest>>

\* resolver_confidence and MIN_AUTO_REPO_RESOLVER_CONFIDENCE, in percent.
RemoteConfidence == 100
FallbackConfidence == 25
MinConfidence == 80

\* basename_fallback.  The key is that of a URL with such a host, too.
FallbackKey(basename) == <<"local-fallback", "unknown", basename>>

Fallbacks == {FallbackKey(n) : n \in Names}
Keys == Remotes \cup Fallbacks
Stored == {k \in Keys : repositories[k] # NoRepository}
Idle == [pc |-> "idle"]

Init ==
  /\ repositories = [k \in Keys |-> NoRepository]
  /\ autoSaved = {}
  /\ named = {}
  /\ repoRequest = [r \in RepoRequests |-> Idle]

-----------------------------------------------------------------------------
(* Which repository the metadata means.                                    *)

Fields == {"repo_id", "repository_id", "id",
           "origin_url", "remote_origin_url", "remote_url",
           "repo_dir_name", "git_root_basename", "repo_slug",
           "git_root", "repository_path", "path", "repo_hint"}

\* dict.update, of metadata without empty values.
Updated(metadata, other) ==
  [f \in Fields |-> IF other[f] # None THEN other[f] ELSE metadata[f]]

\* The JSON header, under the plain ones.
HeaderMetadata(header) == Updated(header.json, header.plain)

\* The argument, under what the headers say.
\* Mutant: the other way round.
ArgumentOverHeader(header, argument) == Updated(HeaderMetadata(header), argument)
Merged(header, argument) == Updated(argument, HeaderMetadata(header))

\* _metadata_str and _metadata_uuid: the first name that has a value counts,
\* for an id the first that can be parsed.
Or(value, other) == IF value # None THEN value ELSE other
Parsed(id) == IF id = Malformed THEN None ELSE id

IdOf(m) == Or(Parsed(m.repo_id), Or(Parsed(m.repository_id), Parsed(m.id)))
UrlOf(m) == Or(m.origin_url, Or(m.remote_origin_url, m.remote_url))
DirOf(m) == Or(m.repo_dir_name, Or(m.git_root_basename, m.repo_slug))
PathOf(m) == Or(m.git_root, Or(m.repository_path, Or(m.path, m.repo_hint)))

\* The directory's name if there is one, else the last part of a path.
BasenameHint(m) ==
  LET value == Or(DirOf(m), PathOf(m))
  IN IF value = None THEN None ELSE BaseOf[value]

\* RepositoryRemoteInput of a tool call and of the status route, which reads
\* plain headers and takes the path for the directory's name.
ToolInput(m) == [id |-> IdOf(m), url |-> UrlOf(m), basename |-> BasenameHint(m)]
StatusInput(plain) ==
  [id |-> Parsed(plain.repo_id), url |-> plain.origin_url, basename |-> plain.git_root]

\* normalize_origin_url: the remote a URL names.
Parses(url) == url \in Remotes
NormalizeOriginUrl(url) == IF Parses(url) THEN url ELSE None

\* The URL's key, else that of the fallback.
IdentityKey(input) ==
  CASE Parses(input.url) -> NormalizeOriginUrl(input.url)
    [] ~Parses(input.url) /\ input.basename # None ->
         FallbackKey(input.basename)
    [] OTHER -> None

IdentityConfidence(input) ==
  IF Parses(input.url) THEN RemoteConfidence ELSE FallbackConfidence

-----------------------------------------------------------------------------
(* RepositoryResolver.                                                     *)

Resolved(r, key, confidence) ==
  repoRequest' = [repoRequest EXCEPT
    ![r] = [@ EXCEPT !.pc = "resolved", !.key = key, !.confidence = confidence,
                     !.row = NoRepository]]

\* The request goes on with the state pc; its headers' URLs are history.
Start(r, headers, route, pc, key, confidence) ==
  repoRequest' = [repoRequest EXCEPT ![r] =
    [pc |-> pc, route |-> route, key |-> key, confidence |-> confidence,
     row |-> IF pc = "save" THEN repositories[key] ELSE NoRepository,
     headerOrigin |-> NormalizeOriginUrl(headers.origin_url),
     headerUrl |-> NormalizeOriginUrl(UrlOf(headers))]]

\* An id has to be an active repository's and to fit the URL, else 400.
ResolveById(r, input, headers, route) ==
  /\ input.id \in Stored
  /\ repositories[input.id].active
  /\ Parses(input.url) => input.id = IdentityKey(input)
  /\ Start(r, headers, route, "resolved", input.id,
           repositories[input.id].confidence)

\* The SELECT of get_or_create for the URL's key or the fallback's; with
\* neither there is no repository.
ResolveByIdentity(r, input, headers, route) ==
  LET key == IdentityKey(input) IN
  /\ input.id = None
  /\ Start(r, headers, route,
           CASE key = None -> "resolved"
             [] key \in Stored -> "save"
             [] OTHER -> "insert",
           key, IdentityConfidence(input))

\* A request with these headers, and an argument if it calls a tool.
AskWith(r, header, argument, route) ==
  LET headers == IF route = "tool" THEN HeaderMetadata(header) ELSE header.plain
      input == IF route = "tool" THEN ToolInput(Merged(header, argument))
                                 ELSE StatusInput(header.plain)
  IN /\ repoRequest[r].pc = "idle"
     /\ \/ ResolveById(r, input, headers, route)
        \/ ResolveByIdentity(r, input, headers, route)
     /\ named' = IF Parses(input.url) THEN named \cup {input.url} ELSE named
     /\ UNCHANGED <<repositories, autoSaved>>

Ask(r) ==
  \E header \in Headers, argument \in Arguments, route \in {"tool", "status"} :
    AskWith(r, header, argument, route)

\* The INSERT of get_or_create; on a conflict the row is read after all.
InsertRepository(r) ==
  /\ repoRequest[r].pc = "insert"
  /\ LET q == repoRequest[r] IN
     IF q.key \in Stored
     THEN /\ repoRequest' = [repoRequest EXCEPT
               ![r] = [q EXCEPT !.pc = "save", !.row = repositories[q.key]]]
          /\ UNCHANGED repositories
     ELSE /\ repositories' = [repositories EXCEPT
               ![q.key] = [active |-> TRUE, confidence |-> q.confidence]]
          /\ Resolved(r, q.key, q.confidence)
  /\ UNCHANGED <<autoSaved, named>>

\* A found row is saved with every column as it was read, the confidence
\* raised to the identity's.
SaveRepository(r) ==
  /\ repoRequest[r].pc = "save"
  /\ LET q == repoRequest[r]
         confidence == IF q.row.confidence > q.confidence
                       THEN q.row.confidence ELSE q.confidence
     IN /\ repositories' = [repositories EXCEPT
             ![q.key] = [q.row EXCEPT !.confidence = confidence]]
        /\ Resolved(r, q.key, confidence)
  /\ UNCHANGED <<autoSaved, named>>

-----------------------------------------------------------------------------
(* The scope of the call.                                                  *)

\* _has_high_confidence_repo_context, which search and status go by.
HighConfidence(q) == q.key # None /\ q.confidence >= MinConfidence

\* _memory_scope_for_save with scope "auto": the repository or the user.
\* Mutant: any repository will do.
AnyRepository(q) == q.key # None
SavesToRepository(q) == HighConfidence(q)

\* A tool that saves needs an active repository; other calls are refused.
SaveMemory(r) ==
  /\ repoRequest[r].pc = "resolved"
  /\ repoRequest[r].route = "tool"
  /\ autoSaved' =
       IF SavesToRepository(repoRequest[r]) /\ repositories[repoRequest[r].key].active
       THEN autoSaved \cup {repoRequest[r].key} ELSE autoSaved
  /\ repoRequest' = [repoRequest EXCEPT ![r] = Idle]
  /\ UNCHANGED <<repositories, named>>

\* A search, a status or a failed request leaves nothing behind.
Finish(r) ==
  /\ repoRequest[r].pc # "idle"
  /\ repoRequest' = [repoRequest EXCEPT ![r] = Idle]
  /\ UNCHANGED <<repositories, autoSaved, named>>

\* An operator switches a repository on or off.
SwitchRepository(k) ==
  /\ k \in Stored
  /\ repositories' = [repositories EXCEPT ![k].active = ~@]
  /\ UNCHANGED <<autoSaved, named, repoRequest>>

Next ==
  \/ \E r \in RepoRequests :
       Ask(r) \/ InsertRepository(r) \/ SaveRepository(r)
         \/ SaveMemory(r) \/ Finish(r)
  \/ \E k \in Keys : SwitchRepository(k)

Spec == Init /\ [][Next]_vars

-----------------------------------------------------------------------------
(* Properties.                                                             *)

Repository == [active : BOOLEAN, confidence : 0..100]

\* The table and the requests have the types the code gives them.
TypeOK ==
  /\ repositories \in [Keys -> Repository \cup {NoRepository}]
  /\ autoSaved \subseteq Keys
  /\ named \subseteq Remotes
  /\ \A r \in RepoRequests :
       LET q == repoRequest[r] IN
       /\ q.pc \in {"idle", "insert", "save", "resolved"}
       /\ q.pc # "idle" => q.key \in Keys \cup {None}
       /\ q.pc = "save" => q.row \in Repository

\* Scope "auto" saves in a repository only if some request, this one or one
\* before, had named it by its URL: a directory's name alone never earns the
\* confidence, however the reads and the full-row saves of upsert_repository
\* interleave, and whatever host the URL has.
AutoSavesWereNamed == autoSaved \subseteq named

\* The x-engram-repository-origin-url header, and the origin_url of the JSON
\* header, decide whatever the argument holds: an id, another spelling of
\* the URL's name, a directory.
HeaderOriginIsObeyed ==
  \A r \in RepoRequests :
    LET q == repoRequest[r] IN
    q.pc # "idle" /\ q.headerOrigin # None => q.key = q.headerOrigin

\* A remote URL in the headers, under any of its names, is not overridden by
\* the tool's argument, as the comment on the merge says.
HeaderUrlIsObeyed ==
  \A r \in RepoRequests :
    LET q == repoRequest[r] IN
    q.pc # "idle" /\ q.headerUrl # None => q.key = q.headerUrl

-----------------------------------------------------------------------------
(* What the theorems ask of the constants.                                 *)

\* Names of directories in metadata are names.
MetadataOK(m) ==
  /\ {m.repo_dir_name, m.git_root_basename, m.repo_slug} \subseteq Names \cup {None}
  /\ {m.git_root, m.repository_path, m.path, m.repo_hint} \subseteq Names \cup {None}

HeaderOK(header) == MetadataOK(header.json) /\ MetadataOK(header.plain)

\* What stands for a missing value is none.
RepoConstants ==
  /\ BaseOf \in [Names -> Names \cup {None}]
  /\ None \notin Names \cup Keys
  /\ NoRepository \notin Repository
  /\ \A header \in Headers : HeaderOK(header)
  /\ \A argument \in Arguments : MetadataOK(argument)
=============================================================================
