----------------------------- MODULE PluginHooks -----------------------------
(***************************************************************************)
(* An editor session with the plugin of integrations/engram-plugin, and    *)
(* the repositories its requests reach (Repositories).  SessionStart asks  *)
(* the backend, with headers made from Git, whether the repository is      *)
(* known and tells the agent; before each tool call another hook puts what *)
(* Git says then into the call.  Git commands and hooks may run out of     *)
(* time, and the workspace may change in between.                          *)
(***************************************************************************)
EXTENDS Repositories

CONSTANTS Origins,      \* remote URLs a clone may have: Remotes, Malformed
          Directories,  \* names of directories the session may stand in
          Root,         \* path of the clone
          Hints,        \* what the agent may pass as repository
          NotSaid

VARIABLES workspace,    \* the clone: [inGit, origin], and the directory
          hook,         \* per request: what the hook saw and made
          said          \* the last session status told to the agent

hookVars == <<workspace, hook, said>>

Workspaces == [inGit : BOOLEAN, origin : Origins \cup {None}, cwd : Directories]
NoHook == [kind |-> "none"]
NoFields == [f \in Fields |-> None]

PluginInit ==
  /\ Init
  /\ workspace \in {w \in Workspaces : ~w.inGit /\ w.origin = None}
  /\ hook = [r \in RepoRequests |-> NoHook]
  /\ said = NotSaid

\* The clone, wherever in it the session stands.
Clone == [inGit |-> workspace.inGit, origin |-> workspace.origin]

-----------------------------------------------------------------------------
(* The scripts.                                                            *)

\* resolve_repository_metadata, from the Git commands that answer in time.
\* Outside a clone the directory's name is all there is.
Metadata(rootKnown, originKnown) ==
  [NoFields EXCEPT
     !.origin_url = IF workspace.inGit /\ originKnown THEN workspace.origin ELSE None,
     !.git_root = IF workspace.inGit /\ rootKnown THEN Root ELSE None,
     !.repo_dir_name =
        IF workspace.inGit /\ rootKnown THEN BaseOf[Root] ELSE workspace.cwd]

\* The headers of session_status.py: plain ones, and no directory name.  A
\* tool call has none, its metadata is in the argument.
RequestHeaders(metadata) ==
  [json |-> NoFields, plain |-> [metadata EXCEPT !.repo_dir_name = None]]
NoHeaders == [json |-> NoFields, plain |-> NoFields]

\* What inject_repository_context.py makes of the agent's argument.
\* Mutant: the agent's argument is preferred.
ArgumentFirst(argument, metadata) ==
  IF argument # NoFields THEN argument ELSE metadata
MergeRepository(argument, metadata) ==
  IF metadata # NoFields THEN metadata ELSE argument

\* session_start.sh and session_status.py send the request.
SessionStart(r) ==
  /\ \A q \in RepoRequests : hook[q].kind = "none"
  /\ \E rootKnown, originKnown \in BOOLEAN :
       AskWith(r, RequestHeaders(Metadata(rootKnown, originKnown)), NoFields,
               "status")
  /\ hook' = [hook EXCEPT ![r] = [kind |-> "status", seen |-> Clone]]
  /\ UNCHANGED <<workspace, said>>

\* What main prints: the repository of the answer if it is resolved, or
\* that there is none, also when no answer came in time.
TellAgent(r) ==
  /\ hook[r].kind = "status"
  /\ LET q == repoRequest[r] IN
     \/ /\ q.pc = "resolved" /\ HighConfidence(q)
        /\ said' = [key |-> q.key, seen |-> hook[r].seen]
     \/ said' = NotSaid
  /\ hook' = [hook EXCEPT ![r] = NoHook]
  /\ Finish(r)
  /\ UNCHANGED workspace

\* A tool call, with the hook's metadata unless the hook fails: then the
\* call goes out as the agent made it.
ToolCall(r) ==
  /\ \A q \in RepoRequests : hook[q].kind # "status"
  /\ \E argument \in Hints, ran, rootKnown, originKnown \in BOOLEAN :
       LET metadata == IF ran THEN Metadata(rootKnown, originKnown) ELSE NoFields
       IN /\ AskWith(r, NoHeaders, MergeRepository(argument, metadata), "tool")
          /\ hook' = [hook EXCEPT ![r] =
               [kind |-> "tool", seen |-> Clone, argument |-> argument,
                ran |-> ran]]
  /\ UNCHANGED <<workspace, said>>

\* The call is over; what it saves is told by SavesToRepository.
EndCall(r) ==
  /\ hook[r].kind = "tool"
  /\ Finish(r)
  /\ hook' = [hook EXCEPT ![r] = NoHook]
  /\ UNCHANGED <<workspace, said>>

\* The backend's part of a request.
Backend(r) ==
  /\ InsertRepository(r) \/ SaveRepository(r)
  /\ UNCHANGED hookVars

\* Somebody changes directory, runs git init or sets another remote.
ChangeWorkspace ==
  /\ workspace' \in {w \in Workspaces : w.inGit \/ w.origin = None} \ {workspace}
  /\ UNCHANGED <<repositories, autoSaved, named, repoRequest, hook, said>>

PluginNext ==
  \/ \E r \in RepoRequests :
       SessionStart(r) \/ TellAgent(r) \/ ToolCall(r) \/ Backend(r) \/ EndCall(r)
  \/ ChangeWorkspace

PluginSpec == PluginInit /\ [][PluginNext]_<<vars, hookVars>>

-----------------------------------------------------------------------------
(* Properties.                                                             *)

\* The types of the hooks' part.
PluginTypeOK ==
  /\ workspace \in Workspaces
  /\ said # NotSaid => said.key \in Keys /\ said.seen.inGit
  /\ \A r \in RepoRequests :
       /\ hook[r].kind \in {"none", "status", "tool"}
       /\ (hook[r].kind = "none") = (repoRequest[r].pc = "idle")

\* Once the agent was told which repository the session is about, no save
\* with scope "auto" goes to another repository while the clone is as it
\* was: hooks that run out of time, directories and the agent's own hints
\* make it a save for the user at worst.  Only a hook that does not run at
\* all lets a hint of the agent through.
SavesWhereTold ==
  \A r \in RepoRequests :
    LET q == repoRequest[r]
        h == hook[r]
    IN /\ h.kind = "tool" /\ q.pc = "resolved" /\ SavesToRepository(q)
       /\ said # NotSaid /\ h.seen = said.seen
       /\ h.ran \/ h.argument = NoFields
       => q.key = said.key

\* Outside a clone the remote that the agent names in its argument reaches
\* the backend, as the hook's comment and the session's message say.
NamedRemoteIsUsed ==
  \A r \in RepoRequests :
    LET h == hook[r] IN
    h.kind = "tool" /\ ~h.seen.inGit /\ Parses(UrlOf(h.argument))
      => repoRequest[r].key = UrlOf(h.argument)

-----------------------------------------------------------------------------
(* What the theorems ask of the constants.                                 *)

\* The clone and the directories have names, and so has what an agent may
\* pass as repository.  No remote of the workspace or of a hint is on a host
\* called local-fallback: the resolver would take a directory's name for it.
PluginConstants ==
  /\ Root \in Names /\ BaseOf[Root] # None
  /\ Directories \subseteq Names
  /\ Origins \cap Fallbacks = {}
  /\ \A m \in Hints : MetadataOK(m) /\ UrlOf(m) \notin Fallbacks
=============================================================================
