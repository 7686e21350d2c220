# Engram backend: TLA+ models and proofs

Engram stores durable facts ("memories") for coding assistants. This directory
models the backend where its promises are kept or broken: the review workflow that
decides what becomes, changes or ends a memory; the sessions, tokens and
authorization codes that decide who may ask; what the MCP endpoint saves, finds and
remembers; and the directory of tags, roles, repositories and users around them. TLC
checks all of it on small instances, and TLAPS proves every safety property that is
checked and holds, for all sizes.

    tlc -workers 2 -config MCReviewHistory.cfg MCMemoryReview
    tlc -workers 2 -config MCMcp.cfg MCMcp
    tlapm MemoryReviewProofs.tla

Paths below are relative to `src/`.

## The system and its parts

FastAPI serves a dashboard API and mounts an MCP server (FastMCP) in the same
process; several processes may run. Every handler is an `async` function over
Tortoise ORM and PostgreSQL at the default isolation level, READ COMMITTED. Each
`await` of a database call is a point at which other requests run, in this
process or in another.

| Part | State | Operations | Correct when |
| --- | --- | --- | --- |
| Memory review (`app/services/memory_service.py`) | memory facts, versions, proposals, tags of facts | create directly, propose a creation, update or deletion, approve, approve with edits, reject, archive, delete | a proposal is applied once; a rejected one never; the latest version is the memory; the life cycle only moves forward; shared memories change by review only |
| Permissions (`rbac_service.py`) | none (roles of the actor) | `can_*` checks | each write makes the check its row calls for, on a row that is still current |
| Dashboard memory service | the same tables | delete by scope, attach and detach a tag, list memories and proposals by pages | no write bypasses review; mappings point to tags that exist; lists show what single reads show and skip nothing that stands still |
| Tag service | tags | create, update, delete | a deleted tag stays gone; the unique slug decides races |
| MCP tools (`routers/mcp_router.py`) | session ids remembered per client, in memory | save one memory or a batch, search, review status | an item that fails does not lose the others; the answer is true; an injected session id was answered to that client |
| Retrieval (`memory_retrieval_service.py`) | none | match, merge, rank, limit | nothing that was gone before; one result per memory; limits hide a memory only behind enough others |
| Repository resolver, request context | repositories | merge headers and argument, resolve, upsert | the headers decide; a repository earns its confidence by a URL; scope "auto" saves to no other |
| OAuth codes and clients | authorization codes, clients | authorize, redeem, register | a code gives at most one token, after it is marked used, to its owner; its redirect stays registered |
| Access tokens and sessions | personal access tokens, dashboard sessions | create, verify, revoke, log out | a revoked or expired credential opens nothing, ever again |
| Identity | users, identities, cookies | Google login | a session is for the user of the account's identity, in the browser that began the login |
| Administration | roles, assignments | assign, remove, list | what was removed stays removed |
| Safety detector | none | analyse a text | heuristics over text |
| Audit | audit rows | append, query | speaks of stored rows only; best effort, after the fact |
| Editor plugin | the clone it runs in, a counter file per session | session status, inject repository metadata, count prompts | scope "auto" saves where the agent was told, or for the user |

How they interact: routers build an `ActorContext` and call services; services
call `RbacService` and `SafetyService` as plain functions and share the database
tables. There are no queues and no callbacks. The MCP save tools and the
dashboard call the same `MemoryService` methods. The plugin's hooks run as short
processes in the editor; they talk to the backend through the headers and arguments
of requests.

What is hard:

- *Interleaving.* Only approvals and direct archive/delete take row locks
  (`SELECT ... FOR UPDATE`). Submissions, rejections, tag writes, token
  redemption and upserts read without a lock and write later.
- *Stale objects.* `save()` without `update_fields` writes every column of an
  object that may have been read several awaits ago.
- *Failure.* A request can end at any await: the client goes away, the process is
  killed, a constraint fails. Inside `in_transaction` that rolls everything back;
  outside, what was written stays.
- *Several statements that should see one state.* A search is two queries, a walk
  through a list one query per page, a lookup and the insert it decides two
  statements; `get_or_create` and the unique constraints settle some of these races.
- *State outside the database.* The remembered session ids live in one process, the
  login's state in a cookie, the plugin's knowledge in a prompt.
- *Retries.* MCP clients repeat calls. Proposals carry an `idempotency_key` with a
  unique constraint; approvals answer a repeat as a replay.

PROJECT.json lists each hazard at its line, with the properties that cover it or
the reason none does.

## Modules

| Module | What it is |
| --- | --- |
| `Rbac` | the permission checks, for one organization |
| `MemoryReview` | the write side of the memory bank, one step per database call |
| `MemoryLedger` | abstract specification: what every version history promises |
| `MCMemoryReview` | the symmetry set for TLC; the configurations give the constants |
| `MemoryReviewProofs` | what the review workflow promises, proved |
| `ConnectorAuth` | sessions, access tokens, authorization codes and client registration |
| `Credentials` | abstract specification: what a session or token promises over its life |
| `MCConnectorAuth` | the symmetry set of `ConnectorAuth` for TLC |
| `ConnectorAuthProofs` | what sessions, tokens and codes promise, proved |
| `Retrieval` | one search between other requests' writes |
| `Listings` | lists of memories and of proposals, page by page |
| `McpSessions` | the session ids the MCP middleware remembers |
| `BatchSave` | `save_memories`, sent again by clients without an answer |
| `MCMcp` | these four, instantiated for TLC |
| `ListingsProofs`, `BatchSaveProofs` | proofs about two of them |
| `McpProofs` | proofs about `McpSessions` and `Retrieval`, and what `MCMcp` as a whole promises |
| `TagCatalog` | creation, change and deletion of tags |
| `RoleAssignments` | giving and taking a role |
| `Repositories` | from request metadata to a repository row and a scope |
| `PluginHooks` | the editor plugin's hooks, on top of `Repositories` |
| `GoogleLogin` | the browser, the callback and the first login |
| `MCDirectory` | these five, instantiated for TLC |
| `AdministrationProofs`, `RepositoriesProofs` | proofs about tags and roles, and about repositories and the plugin |
| `DirectoryProofs` | proofs about `GoogleLogin`, and what `MCDirectory` as a whole promises |

`Rbac` is used by `MemoryReview`, `Retrieval` and `Listings`; `PluginHooks` extends
`Repositories`, whose actions are the backend's part of its requests. `MemoryReview`
takes a verified actor as given, and `ConnectorAuth` ends where the actor's request is
served, except for the requests that create or end a credential. `BatchSave` has
`MemoryReview`'s direct creation and proposal as its commits (`StoreFact`,
`InsertProposal`), `Retrieval` and `Listings` have its effects as their writes, and
`GoogleLogin` ends where `ConnectorAuth`'s sessions begin.

`MCMcp` and `MCDirectory` instantiate modules that share no variable, so that every
behaviour of the whole is an interleaving of independent behaviours and a property of
one part cannot depend on another. Each behaviour therefore keeps to one part (`focus`,
chosen at the start): TLC explores the sum of the parts and not their product.

### How MemoryReview corresponds to the code

`fact`, `versions`, `proposal`, `tagRows` and `factTags` are the tables
`engram_memory_facts`, `..._fact_versions`, `..._proposals`, `engram_tags` and
`engram_memory_fact_tags`, with the columns some decision depends on. `factLock`
and `proposalLock` say which request holds a row lock. `tx[w]` is the request
worker `w` serves: where it stands (`pc`), its arguments, and the ORM objects it
holds (`prow`, `frow`), which may be older than the tables.

| Code | Actions |
| --- | --- |
| `create_memory` without review, `create_direct_memory` | `CreateDirectMemory`, `WriteTagRow`, `CommitDirect` |
| `create_memory` with review, `create_memory_proposal` | `ProposeCreate`, `InsertProposal` |
| `create_update_proposal`, `create_deletion_proposal` | `ProposeChange`, `ReadFact`, `InsertProposal` |
| `approve_proposal`, `apply_edited_proposal` | `StartReview`, `LockProposal`, then `WriteTagRow`, `CommitCreate`, or `LockFact`, `WriteTagRow`, `StageVersion`, `CommitChange` |
| `reject_proposal` | `StartRejection`, `SaveRejection` |
| `archive_user_memory`, `delete_user_memory` | `StartArchive` or `StartDashboardDelete`, `LockFact`, `StageVersion`, `CommitUserStatus` |
| `attach_tag`, `detach_tag` | `StartTagging`, `AttachTag`, `DetachTag` |
| `create_tag`, `delete_tag` | `CreateTag`; `StartDeleteTag`, `WriteTagRow`, `DeleteTag` |
| PostgreSQL's deadlock detector | `DeadlockVictim` |
| a disconnect, a crash, a failing query | `Abort` |

What PostgreSQL contributes:

- A transaction's writes appear at its commit, so the writes of one transaction
  are one `Commit...` step. Its reads, and whatever it may have to wait for, are steps
  of their own before it.
- What a transaction writes of tags and mappings it also locks, one after the other
  (`WriteTagRow`): a tag it inserts (a second insert of the slug waits at the unique
  index), a tag it maps (the foreign key keeps the row from deletion), a tag it deletes
  and a mapping it deletes. `held` is what it has locked so, `Needed` what comes next,
  `Conflict` which pairs wait for each other. The order of the tags of one request is
  any, as it is the client's list.
- Requests that wait in a circle (`Deadlocked`) stay so until PostgreSQL fails one of
  them (`DeadlockVictim`), which no code tries again.
- A locked row makes other `FOR UPDATE` readers and writers wait (the guards
  `factLock[f] = NoWorker`, `proposalLock[p] = NoWorker`). A plain read does not
  wait. An insert that references a locked memory waits as well, since its
  foreign key takes a share lock on the referenced row.
- `UNIQUE (fact_id, version_number)` and `UNIQUE (idempotency_key)`: a commit that
  would break them is not possible (`AddVersion`) or stores nothing
  (`InsertProposal`).
- `ON DELETE CASCADE` from tags to their mappings (`DeleteTag`), whose rows the deletion
  locks after the tag.

What is abstracted, and why that is enough:

- A text is a model value that stands for the whole payload the detector analyses
  (content, summary, rationale, metadata). `Secrets` are the texts it flags. The
  model says where the verdict is asked, not how it is reached.
- Ids, timestamps, notes, hashes and provenance do not influence a decision here.
  `ReviewedScopes` are the scopes whose setting `require_review_for_*` is on.
- The tags of a request are a set. An edit whose metadata holds an explicitly
  empty `tags` list, which would clear the labels rather than keep them, is not
  among the inputs.
- The rows of a new memory are not locked in `CommitDirect` and `CommitCreate`: no other
  request can know them before the commit. In `ProposeCreate` the lookup of the key and
  the creation of missing tags, each committed on its own, are one step that waits for
  uncommitted tags of others (`NoneInserted`); the insert, where the race is, is another.
- A tag is its slug, and keeps it here: renaming a tag is in `TagCatalog` only. A tag
  created again after its deletion is the same tag here, and another one there.
- A replay, a refusal and a validation error end the request without a write and
  are the `ELSE` branches of the step that finds out, or are left out when nothing
  has been read yet.
- Audit rows are written outside the transaction, read by no one here, and left
  out; `BatchSave` has them.

### How ConnectorAuth corresponds to the code

`creds` holds the tables `engram_sessions` and `engram_personal_access_tokens`,
`codes` and `redirects` those of authorization codes and clients, `active` the flag
of users. `clientLock` is the lock that an update of a client's row keeps until its
transaction commits. `req[w]` is the request of worker `w`, with the ORM objects it
read (`row`, `crow`).

| Code | Actions |
| --- | --- |
| `resolve_actor_context`, `verify_session_token`, `verify_bearer_token` | `Present`, `Verify`, `SaveLastUsed` |
| `create_personal_access_token` | then `CreatePersonalAccessToken` |
| `revoke_personal_access_token`, `revoke_actor_session` | then `ReadTarget`, `SaveRevoked` |
| `authorize` | `StartAuthorize`, `CheckClient`, `Verify`, `SaveLastUsed`, `CreateAuthorizationCode` |
| `redeem_token` | `ReadCode`, `LockClient`, `SaveUsed` (the commit), `RecheckClient`, `CreateMcpAccessToken` |
| `register_client` | `FindClient`, `SaveClient` |
| `handle_callback` (Google login) | `ReadUser`, `CreateWebSession` |
| a disconnect, a crash, a failing query | `Abort` |
| time, operators | `Expire`, `ExpireCode`, `OperatorRevokes`, `Deactivate`, `Reactivate` |

Only `redeem_token` opens a transaction. It locks no row explicitly, but the update
of `last_seen_at` in `get_validated_client` makes any other update of that client
wait until the commit. Two redeemers of one code name the same client (the code is
checked against it), so they pass `LockClient` one after the other.

What is abstracted: hashes, signatures, names, prefixes and times. `expired` says
that `expires_at` has passed. `mcp` says that a token's scopes and client type let
it reach the MCP tools. A wrong `code_verifier` is refused like a wrong redirect and
has no input of its own. `code` in a token's row is not a column: it remembers the
code the token was obtained with, and no action reads it. Feature switches are on,
and the one organization is active.

### How Retrieval and Listings correspond to the code

`bank` holds approved and archived memories with their scope and the time of their last
update (`stamp`, a counter that stands for `updated_at`); `search` is one request.
`StartSearch` is `_scopes_for_request` and the limits, with every scope, confidence and
limit a call may carry. `FetchMatching` and `FetchRecent` are the two queries of
`_fetch_candidates`; the second ends with the merge, `_score_memory`, the ranking, the
limit per scope and the result limit, which read nothing more. Writes fall anywhere in
between. How a text meets a query is abstracted to `fit`: its score and whether the SQL
filter lists it. The scores are those of a text without a match, of one that matches
only by a label in the metadata (which the SQL filter does not see), and of one that
matches by its words. The tags that Tortoise loads with the rows count as part of the
query. The text the tools make of the results is left out.

A list is a set of entries with an order, and the place of an entry is the number of
entries before it: `First(n, list, IsBefore)` is what sorting by that order and cutting at
`n` keep, since no two rows have one `stamp`. An entry remembers which `query` read it, so
in the merged list the matches come first (`Before`), and of two reads of one memory
`Dedupe` keeps the first. Results are set out by score and time (`Above`).

In `Listings`, `walk` is a client that reads page after page: `ListMemories` and
`ListProposals` are one query each, with `OFFSET` and `LIMIT`. For memories the section,
status and readability filters are part of the query; for proposals `_can_read_proposal`
runs after the limit. A page is the rows whose position (the number of rows `Ahead` of
them) falls between offset and limit, which is what sorting and cutting give. A walk of
kind `review_status` is `get_memory_review_status`, which asks for the first page only. `left` and `touched` are history: what happened
during the walk. The other narrow filters of the lists (type, tags, repository) select
on columns in the same way and are left out.

### How McpSessions and BatchSave correspond to the code

| Code | Actions |
| --- | --- |
| `_mcp_http_compatibility_middleware`, to the first await | `Receive` |
| the body of a POST without an id has been read | `ReadBody` |
| `call_next`: the MCP library | `ServeSession`, `OpenSession`, `Refuse` |
| the answer | `Respond` |
| a cancelled request, a new process | `Disconnect`, `Restart` |
| `save_memories`, one call | `Begin` |
| per fact: validation and key lookup; insert or direct creation; audit; the error branch | `CheckFact`; `InsertProposal` or `StoreFact`; `LogAudit`; `Fail` |
| a crash; a reviewer | `Die`; `Apply` |

The MCP library is external: it opens a session for an `initialize` without an id,
serves ids it knows, and answers 404 or 400 otherwise. A client is a value of
`x-engram-client` with a bearer token; it may send any id that anybody was ever answered
with, as a client does that goes on with its session after its token was renewed.
`answered` and `given` are history. In `BatchSave` a fact is what decides its fate, and a
row is named by the attempt and the index that stored it, so that a property can say
whose row an answer speaks of. `Fail` includes the commit that took effect although its
acknowledgement was lost.

### How the directory modules correspond to the code

| Code | Actions |
| --- | --- |
| `create_tag` | `CreateTag` (the lookup), `InsertTag` |
| `update_tag` | `UpdateTag` (the read), `CheckSlug`, `SaveTag` |
| `delete_tag`, `delete_role_assignment` | `LoadToDelete`, `DeleteTag`; `LoadAssignment`, `DeleteAssignment` |
| `create_role_assignment` | `CreateAssignment`, `InsertAssignment`, `SelectAgain`, `SaveMerged` |
| `resolve_repository_context` of a tool call or of the plugin status route | `Ask`: merge, explicit id or identity, first `SELECT` |
| `upsert_repository` | `InsertRepository`, `SaveRepository` |
| `_memory_scope_for_save` | `SaveMemory` |
| `session_start.sh`, `session_status.py` | `SessionStart`, `TellAgent` |
| `inject_repository_context.py` | `ToolCall` (then `Backend`, `EndCall`) |
| `build_login_redirect` | `BuildLoginRedirect` |
| `handle_callback` | `HandleCallback`, `ExchangeCode`, `ValidateClaims`, ..., `CreateWebSession`, `Answer` |
| `resolve_google_identity`, `resolve_user` | `LookUpIdentity`, `LoadUser`, `SaveIdentity`; `ResolveUser`, `CreateUser`, `InsertIdentity` |
| operators, time, Google, the user | `SwitchRepository`, `SwitchOff`, `ExpireCookie`, `Consent`, `ChangeWorkspace` |

None of these services opens a transaction, so every statement is a step. `save()`
without `update_fields` writes the row as it was read (`SaveTag`, `SaveRepository`,
`SaveMerged`), and an `UPDATE` of a row that is gone has no effect. Unique constraints
are the guards `SlugFits`, `Inserts` and the conditions in `InsertRepository`,
`CreateUser` and `InsertIdentity`. Abstracted: how a label becomes a slug (`SlugOf`
names two spellings of one slug and a text without any), how a URL is parsed (a
remote is its host, workspace and slug; `Malformed` stands for what does not
parse), `BaseOf` for the last part of a path, signatures, and Google's answers, which
may be errors. A role assignment is for one user and one role, since others do not
interact with it. `begun`, `deleted`, `removed`, `named`, `headerOrigin`, `headerUrl` and
the `seen`, `ran` and `argument` of a hook are history.

Metadata keeps the names it comes under (`Fields`): the merge (`Updated`, `Merged`) is by
name, and only then is each piece read under the first of its names that has a value
(`UrlOf`, `IdOf`, `DirOf`, `PathOf`). A key is three parts whether it comes from a URL or
from a directory's name, so a URL on a host called `local-fallback` has the key of a
fallback; `Sham` is one in the run. A scope of an assignment is a type and an id, each of
which may be missing. A callback brings a code and a state of its own choice: the state is
compared with the cookie's, and the nonce of the cookie with that of the token
(`SameNonce`), which is the one of the login the code was given for. `Logins` are pairs of
a state and a nonce, and both cookies are set, deleted and expire together.

## The properties and the runs

Bounds are the sizes of the constant sets, and where something grows without end a
constant in the guard: `MaxStamp` and `MaxListStamp` (writes of rows), `MaxCodes` (codes
from Google), `MaxBatch` (a limit of the code itself, made small). In `MemoryReview`,
`Facts` and `Proposals` are pools of rows: a request that needs one more than there are
ends with an error (`OutOfRows`), so no run stops because the pool is used up. Each pool
is big enough for the interaction in question; every history is finite because a
memory's versions come from at most one direct creation, the proposals of the pool, one
archive and one delete. Workers serve any number of requests one after the other.

| Run | Instance | Properties | What it shows |
| --- | --- | --- | --- |
| `review_history` | 2 workers, 2 memories, 2 proposals, a plain and a flagged text | `TypeOK`, `LockedRowsCurrent`, `HistoryMatchesFact`, `PendingHasNoEffect`, `AppliedOnce`, `AppliedTookEffect`, `RejectedIsFinal`, `LedgerSpec` | every history implements `MemoryLedger`; nobody acts on a stale row; an undecided or rejected proposal has left nothing, an applied one its final text |
| `review_scopes` | 2 workers, 1 memory, 2 proposals, a user and an admin, a reviewed and an unreviewed shared scope, 1 key | `SharedIsReviewed`, `OneProposalPerKey` | shared memories change only through an admin's review; a key stores one proposal |
| `review_tags` | 2 workers, 1 memory, 1 proposal, 1 tag, fairness, no symmetry | `MappedTagsExist`, `RequestsFinish` | mappings never dangle; whoever waits for a proposal, a memory, a tag or a mapping goes on or is failed |
| `auth_credentials` | 2 workers, a user and an admin, 1 session, 1 token, 1 code, 1 client, every operation | `AuthTypeOK`, `CredentialSpec` | sessions and tokens implement `Credentials` |
| `auth_codes` | 2 workers, 1 session, 1 token, 1 code, 2 clients, 2 redirects; authorize, MCP calls, logout | `TokensFollowUse`, `UsedCodeAdmitsNobody`, `CodesStayRedeemable` | a token follows the commit that marks its code used, and after it nobody joins; registrations take no redirect away from a code |
| `auth_locks` | 3 workers, 1 code, 1 client, fairness, no symmetry | `AuthRequestsFinish` | nobody waits for ever for a client's row |
| `mcp` | a searcher and 3 memories with 3 writes; lists of 3 rows with 4 writes and pages of 1 and 2; 2 processes, 2 requests, 2 tokens, 2 session ids; 2 clients that send 5 kinds of batch in 2 attempts | `TypesOK`, `NoDuplicateResults`, `ResultsAreCurrent`, `BestMatchesReturned`, `ListedIsReadable`, `WalkIsComplete`, `InjectedIsKnown`, `AnswerIsTrue`, `RetriesAgree`, `AuditFollowsStore` | what a client of the MCP endpoint is told is so, however others write, retry or restart |
| `directory` | 2 requests per part; 3 tags, 2 slugs; 3 assignments, scopes complete, half missing and missing; 2 remotes and one named like a fallback, metadata under several names, a directory with a remote's name; 2 browsers, 2 logins, 2 accounts, 2 addresses, 2 codes | `TypesOK`, `DeletedTagsStayGone`, `RemovedStaysRemoved`, `AutoSavesWereNamed`, `HeaderOriginIsObeyed`, `SavesWhereTold`, `SessionFollowsIdentity`, `SubjectKeepsUser`, `LoginStaysInBrowser` | the unlocked lookups and saves of the directory bring nothing back and earn nothing; a login ends where it began |
| `reject_after_apply` | 2 workers, 1 memory, 2 proposals | `RejectedHasNoEffect` (violated) | see *Findings* |
| `code_single_use` | 2 workers, 1 session, 2 tokens, 1 code | `OneTokenPerCode` (violated) | see *Findings* |
| `header_alias_lost` | the repositories' part of `directory` | `HeaderUrlIsObeyed` (violated) | see *Findings* |
| `named_remote_lost` | the plugin's part of `directory` | `NamedRemoteIsUsed` (violated) | see *Findings* |

Why these sizes: a conflict over a lock, a unique key or a stale row needs two requests
on one row, and a third in `auth_locks` covers a request that arrives while one holds and
one waits. The constant `Operations` names the operations requests with a credential ask
for: all of them in `auth_credentials`, those that bear on codes in the other instances.
A proposal recorded in two histories needs two memories. One tag is enough for the circle
of a review, which deletes a mapping and then keeps the tag, and a deletion of the tag,
which goes the other way; the circle of two lists of new tags in opposite orders needs two
tags and ends by the same action (`DeadlockVictim`), which frees all that the victim holds.
`MappedTagsExist` is proved for any number. Two tokens of one client name,
and two processes, are what a shared map could confuse. Three memories with a candidate
limit of two and a result limit of two make every limit of a search bite. Three rows and
pages of one and two give walks of several pages. The rows of a batch that matter to one
another are two with one key, in one call or in two. Larger sets add copies of the same
situations; where there are proofs, they remove the bound.

The searcher of `mcp` is an admin on purpose: after the queries, `can_read_memory` drops
what another actor may not see, which would hide a query that returns too much. The
configurations of `mcp` and `directory` give sets of different parts the same values
(clients, workers and attempts; browsers and logins; accounts and addresses), so that
one permutation serves each of them. That is sound: no definition names one of these
values or chooses among them, and values shared by two sets are permuted in both.

Deadlock checking is on in the runs of `MemoryReview` and `ConnectorAuth`: a state without
a step would be reported. It is off in `mcp` and `directory` (and the two runs on its parts),
where the bounds on writes, codes and attempts run out.

Fairness (`FairSpec` of `MemoryReview` and `ConnectorAuth`): strong fairness of each
worker's next database call. A request's coroutine is resumed by the event loop when its
call returns, and PostgreSQL grants a row lock in the order of its wait queue, so a
waiter whose lock is free again and again gets it; it looks for a deadlock whenever a wait
is long, so a circle does not last. Arrivals, aborts, and the requests
modelled in one step are not assumed to happen. The other modules hold no lock and
promise no answer, so no fairness is assumed of them.

`RequestsFinish` does not say that there is no deadlock. Proposals and memories are locked
in one order and cannot be part of one on their own, but tags and mappings can, and do: the
run goes through states in which an approval and a tag deletion wait for each other. What
it says is that PostgreSQL's way out is one: the victim ends, what it held is free (its
transaction is rolled back as a whole), and nothing runs it again. The mutant that retries
the victim's transaction lets two requests fail each other for ever. It speaks of two
requests at a time: mappings of one tag that overlap without a gap can hold up its deletion
as long as they keep coming, in PostgreSQL as in the model.

### Findings

`reject_proposal` loads the proposal without a lock or a transaction, checks its
status, and saves the whole row. Run `reject_after_apply` shows an admin's rejection
loading a pending proposal, a second admin's approval committing, and the rejection
then writing its stale object: the proposal reads REJECTED without a memory, while
the memory and its version exist. The docstring ("Reject a pending proposal without
creating or mutating a memory fact.", `app/services/memory_service.py:551`) and the
checklist ("Proposal rejection does not create an approved fact.",
`docs/engram-implementation-checklist.md:557`) say otherwise. The reverse order is
safe: `RejectedIsFinal` shows that a stored rejection stands, because the approval
re-reads the status under its lock.

`redeem_token` reads the code without a lock. Run `code_single_use` shows two
redemptions that both read it unused; the second waits for the client's row, does not
read the code again, marks it used a second time and creates a second token. The plan
says "mark authorization codes single-use"
(`docs/claude-desktop-mcp-oauth-mvp-plan.md:826`) and "Ensure it is not expired or
already used." (line 399). `UsedCodeAdmitsNobody` is what does hold: only requests
that overlap the first commit get a token, and every token is the code owner's.

The hook `inject_repository_context.py` says of a workspace outside Git "Preserve an
explicitly supplied minimal fallback, such as origin_url, for the backend repository
resolver." (line 61), and the session message asks the agent to "provide only
repository.origin_url when you know the current Git remote"
(`session_status.py:228`). Run `named_remote_lost` shows that the argument is dropped:
`resolve_repository_metadata` always returns the name of the current directory, so what
it found is never empty and always preferred. What does hold is `SavesWhereTold`: the
low confidence of a directory name keeps such a call from saving to a repository on its
own.

The comment on the merge of repository metadata says "HTTP headers are client/hook-owned
transport context. A tool argument is only a fallback for runtimes without hooks and must
not override it." (`mcp_context_service.py:76`). Run `header_alias_lost` shows a JSON header
(`x-engram-repository`) with its remote under `remote_url` and an argument with another
under `origin_url`: the merge is by name, both survive, and `origin_url` is read first. What
does hold is `HeaderOriginIsObeyed`: a remote under the first name, which is the one the
plain header has, is never overridden, since no other name is read before it, an id has to
fit it and a directory comes after it.

The same full-row save of `reject_proposal` is why `SharedIsReviewed`, `AppliedOnce` and
`PendingHasNoEffect` speak of what a history records and of who reviewed it: they
hold even when a rejection has overwritten the proposal's status.

Smaller points where the code and its words differ, without a run of their own:

- A URL or a directory in the argument also outranks headers that have only a path.
- The fallback is "intentionally namespaced away from real Git remotes"
  (`repository_resolver.py:117`), but `https://local-fallback/unknown/app` is parsed like
  any other remote: its key is that of a directory `app`, and gives that row the confidence
  of a remote. `AutoSavesWereNamed` holds with it, because the row was named by a URL then;
  `SavesWhereTold` assumes that no remote of the workspace is on such a host.
- `upsert_repository` saves every column of the row it read: a racing one can take back the
  higher confidence another request gave it, or `is_active` that an operator cleared.
- `get_memory_review_status` describes "proposals created by the current actor"
  (`mcp_router.py:735`). It takes one page of everybody's proposals and then drops those
  the actor may not read: an admin sees all, and a user's own may be hidden behind newer
  ones of others. `WalkIsComplete` states how far.
- The plugin status route takes the path header as it is for the fallback name
  (`StatusInput`), while the tools take its last part, so the two may resolve to different
  fallback rows; "Local filesystem paths are never used as durable repository identity"
  says `docs/repository-scope-resolution.md:1021`. Both have low confidence.
- `scope_type` and `scope_id` of an assignment may be given without each other, and SQL does
  not compare NULLs: two racing creations with one of them missing store two rows, and then
  every further one fails, since `get_or_create` finds several (`Continue`). In a complete
  scope, as for slugs of tags, the unique constraint decides and the loser gets an error.
- Tags of a review are written in the order of the client's list, and the deletion of a tag
  locks in the opposite order of an update: deadlocks are possible, and end with one request
  answered by an error.
- A fact that `save_memories` answers with an error may have been stored, when only the
  answer of its commit or its audit row was lost.
- `create_direct_memory` does not read `idempotency_key`, an update's
  `current_content_hash` is never compared at approval, and `detach_tag` leaves the label
  in the metadata, from which the next applied update attaches it again. No text promises
  otherwise.

## What is proved

TLC checks small instances; the theorems below are for all sets of users, requests, rows,
processes and values, of any size. A theorem of an invariant is `Spec => []Invariant`.

| Module | Theorem | States |
| --- | --- | --- |
| `MemoryReviewProofs` | `TypeCorrect` | `TypeOK` |
| | `NoStaleRow` | `LockedRowsCurrent` |
| | `HistoryMatches` | `HistoryMatchesFact` |
| | `PendingIsInert` | `PendingHasNoEffect` |
| | `AppliedAtMostOnce` | `AppliedOnce` |
| | `RejectionIsFinal` | `RejectedIsFinal`, an action property |
| | `SecretsStayOut` | `NoSecretStored`: no version holds a flagged text |
| | `KeysStoredOnce` | `OneProposalPerKey` |
| | `AppliedProposalsTookEffect` | `AppliedTookEffect` |
| | `SharedMemoriesReviewed` | `SharedIsReviewed` |
| | `MappingsKeepTheirTags` | `MappedTagsExist` |
| | `ImplementsLedger` | `LedgerSpec`, the refinement of `MemoryLedger` |
| `ConnectorAuthProofs` | `AuthTypeCorrect` | `AuthTypeOK` |
| | `TokensFollow` | `TokensFollowUse` |
| | `CodesRedeemable` | `CodesStayRedeemable` |
| | `UsedCodes` | `UsedCodeAdmitsNobody`, an action property |
| | `ImplementsCredentials` | `CredentialSpec`, the refinement of `Credentials` |
| `McpProofs`, of `McpSessions` | `InjectedWasAnswered` | `InjectedIsKnown` |
| `McpProofs`, of `Retrieval` | `ResultsAreDistinct` | `NoDuplicateResults` |
| | `ResultsStayCurrent` | `ResultsAreCurrent` |
| | `SearchesReturnTheBest` | `BestMatchesReturned` |
| `BatchSaveProofs` | `AnswersAreTrue` | `AnswerIsTrue` |
| | `RetriesAreTheSame` | `RetriesAgree` |
| | `AuditRowsFollow` | `AuditFollowsStore` |
| `ListingsProofs` | `ListsShowReadable` | `ListedIsReadable` |
| | `WalksAreComplete` | `WalkIsComplete` |
| | `PagesHaveTheirSize` | `PagesFit`: no page is longer than its limit |
| `DirectoryProofs`, of `GoogleLogin` | `SessionsFollowIdentities` | `SessionFollowsIdentity` |
| | `LoginsStayInBrowsers` | `LoginStaysInBrowser` |
| | `SubjectsKeepUsers` | `SubjectKeepsUser`, an action property |
| `AdministrationProofs` | `RemovedRolesGone` | `RemovedStaysRemoved`, an action property |
| | `DeletedTagsGone` | `DeletedTagsStayGone`, an action property |
| `RepositoriesProofs` | `AutoSavesAreNamed` | `AutoSavesWereNamed` |
| | `HeaderOriginsObeyed` | `HeaderOriginIsObeyed` |
| | `PluginHeadersObeyed` | `HeaderOriginIsObeyed`, of `PluginSpec` |
| | `SavesGoWhereTold` | `SavesWhereTold`, of `PluginSpec` |
| `McpProofs`, of `MCMcp` | `EndpointInjectsKnownIds` | `InjectedIsKnown` |
| | `EndpointAnswersAreTrue` | `AnswerIsTrue` |
| | `EndpointRetriesAgree` | `RetriesAgree` |
| | `EndpointAuditFollows` | `AuditFollowsStore` |
| | `EndpointListsReadable` | `ListedIsReadable` |
| | `EndpointWalksComplete` | `WalkIsComplete` |
| | `EndpointResultsDistinct` | `NoDuplicateResults` |
| | `EndpointResultsCurrent` | `ResultsAreCurrent` |
| | `EndpointReturnsTheBest` | `BestMatchesReturned` |
| | `EndpointTypesCorrect` | `TypesOK` |
| `DirectoryProofs`, of `MCDirectory` | `DirectoryDeletedGone` | `DeletedTagsStayGone` |
| | `DirectoryRemovedRoles` | `RemovedStaysRemoved` |
| | `DirectorySessionsFollow` | `SessionFollowsIdentity` |
| | `DirectoryLoginsStay` | `LoginStaysInBrowser` |
| | `DirectorySubjectsKeep` | `SubjectKeepsUser` |
| | `DirectoryAutoNamed` | `AutoSavesWereNamed` |
| | `DirectoryHeaderOrigin` | `HeaderOriginIsObeyed` |
| | `DirectorySavesWhereTold` | `SavesWhereTold` |
| | `DirectoryTypesCorrect` | `TypesOK` |

Each module also has the theorem of its inductive invariant (`LockedRows`,
`RequestsRelyOnRows`, `MapsHoldAnswers`, `SearchesStaySound`, `AttemptsAreToldTheTruth`,
`NothingIsSkipped`, `CallbacksRelyOnRows`, `RolesSound`, `TagsSound`, `ConfidenceIsEarned`,
`GitDecides`) and of its type invariant.

*Assumptions.* `RbacAssumption`, `ReviewAssumption` and `AuthAssumption` are assumptions of
their modules; for the modules that TLC uses through `INSTANCE` the hypotheses are the
operators at their end (`LoginConstants`, `RepoConstants`, `PluginConstants`,
`SearchConstants`, `BatchConstants`, `ListConstants`), and `TheoremsApply` in `MCMcp` and
`MCDirectory` has TLC check that the instances satisfy them; it is `PartsApply` in the two
composition proofs. They say that a value for "nothing" is not one of the things, that
admins are users and flagged texts are texts, that limits are numbers and batches
sequences, that names in metadata are names, that a text the SQL filter finds has a score
(the filter and `_score_memory` look for the same words), and where something is counted
that the sets are finite. `PluginConstants` also asks that no remote of the workspace or of
the agent is on a host called `local-fallback` (see *Smaller points*), and
`AuthAssumption` that workers and credentials are different things, since `Redeemers`
counts both in one set. Tags, role assignments and session ids need no assumption.

### The arguments

No property is inductive as it stands, and where nothing is locked the question is each
time what a request may still rely on when others have written since it read.

*Review: nothing locked is stale.* `Inv` is `TypeOK` and `LockedRowsCurrent`: from the
step that locks a row to the commit, the object in memory equals the row, the lock is
held, the checks made on the row still hold, the staged version number is the next one,
and stored rows have what applying them needs. `StepSafe` reduces its preservation to the
worker that moves plus `Undisturbed` for all others, with one lemma per action. A write
to a row needs its lock or a row nobody has locked, which makes `Undisturbed` true.
`HistoryStep` then summarises what any step does to the histories: nothing, or one
`NewVersion`, a birth, an amendment, an archive or a deletion of one memory, together
with the row that goes with it. `AppliedOnce` needs `PendingHasNoEffect`: the proposal
about to be recorded is pending, so it is in no history yet. The refinement needs
`HistoryMatchesFact`, which turns the status of the locked row into the status of the
latest ledger entry.

*Review: what a stale rejection may overwrite.* `reject_proposal` saves every column of a
row that may have changed since. `RejectionsInformed` bounds the damage: the saver is an
admin, and its copy has the stored proposal's key, kind, scope and author, because
nothing ever writes those. So the save can take back the status, the text and the link to
a created memory, and put another admin for the reviewer, but it changes no key
(`OneProposalPerKey`), nor that an admin reviewed (`SharedIsReviewed`); and it makes the
proposal rejected, of which `AppliedTookEffect` says nothing.

*Review: a mapped tag is held.* `TagLocksSound`: a tag that a request keeps is there, a
review about to commit an update holds every tag it will map, as new or as kept, and no two
requests hold conflicting locks. So when a deletion commits, nobody is about to map the
tag, and the mappings that were there go with it (`MappingsKeepTheirTags`). Proof and model
take the conflicts of `Conflict` as PostgreSQL's.

*Tokens and codes: rows keep what identifies them.* Nothing in `ConnectorAuth` protects a
check from what follows it. `AuthInv` says what each request relies on at each place, and
`RowsKept` that every step leaves it so: owners, clients and redirects of rows are never
changed, `used` and `revoked` never taken back. `UsedCodeAdmitsNobody` compares finite
cardinalities: a request that leaves the redeemers makes room for the one token it
created, and a request that joins them has seen the code unused. The refinement maps each
request to an abstract use of a credential (`MovesAsPromised`), and the rows to the life
of it: `SaveLastUsed` names its columns, so a stale save writes no `revoked_at`.

*Session ids: who was answered lasts.* Maps are overwritten and ids removed at any time,
so `SessionInv` speaks of `answered`: what a process remembers for a client, and what it
injected into a request on its way, it has answered that client with since it started. It
does not say that nobody else has the id: a client that renews its token goes on with its
session, and then two keys of the map hold one id. `Restart` empties map and sessions of
one process together, and the requests it had, which is why no injected id outlives its
process.

*Batches: rows are only added.* What an attempt was told of a row (`Told`) stays true as
proposals and facts are added and applied (`RowsKept`); that two attempts told of one key
were told of one row is the unique constraint. The counts of an answer add up because
results are of three disjoint kinds (`DisjointSizes`, `ResultsCount`).

*Lists: rows that nobody writes only sink.* A write puts a row at the front. So as long as
no row leaves the list, the rows ahead of an unwritten one stay ahead of it
(`CaughtStays`) and its position only grows: it cannot slip from behind the offset to
before it. `Caught` says that what stands before the offset has been shown; at the end of
a walk that is everything.

*Searches: what was not read stands behind what was.* `SearchInv` says of a memory that
nobody wrote, and that fits, that the first query has read it or that as many memories as
the query may return stand before it, written since or still as they were. Those only
become more (`AheadGrows`), so the second query and the merge may go by them
(`FittingIsChosen`). Entries read at different times are compared by `stamp`, and two
entries with one stamp are one memory. The limits after that are one fact about counting:
of a finite list cut at `n`, an entry left out has `n` before it that were kept
(`FirstFills`). Its proof takes the earliest of the entries that are too late and what is
before that one, so it needs no induction over a sorted list. `HiddenBehindBetter` uses it
for the limit per scope and for the result limit: an entry that the first one drops has
enough better ones of its scope, and if the second one drops some of those in turn, enough
better ones of any scope.

*Logins.* `LoginInv`: a login stays the browser's that began it, a cookie is of such a
login, an identity keeps its user, and what a callback loaded is still the identity's. The
code and the state of a callback are unrelated until the nonce is compared; from then on
(`Claimed`) the code's login is the one whose nonce the callback holds, and that one was
begun in its browser.

*Roles and tags.* Ids are not used again and an `UPDATE` of a row that is gone writes
nothing, so no copy that a request holds can bring a row back, however old it is.

*Repositories.* `RepoInv` says that a confidence is earned (`Earned`): in a row, in the
copy of a row that a request will save and in the request itself, a confidence above that
of a directory's name is of a key in `named`, which only grows. The maximum of two earned
confidences is one of them, so the race of upserts, which can lower a confidence, can
never make one up. `HookInv`: what a hook sends is what Git said of the workspace, or less.

*The compositions.* The theorems about a part hold for every value of its constants.
`McpProofs` and `DirectoryProofs` carry them over to the specifications that TLC runs, so
that what a run checks and what is proved are one definition. Each behaviour of the
composition is a behaviour of the part (`SearchesKeepTo`, `SessionsKeepTo`,
`SavesKeepTo`, `ListsKeepTo`, `TagsKeepTo`, `RolesKeepTo`, `LoginsKeepTo`): its steps are steps of that part, or leave
its variables alone. The exception is `Repositories`, which `MCDirectory` runs in two
ways, with requests of any MCP client or with those of the plugin. `RepositoriesInv` is
an invariant of both: in the first nobody has a hook, in the second `HookInv` holds.

### Only model-checked

- `RequestsFinish` and `AuthRequestsFinish`: liveness under fairness, which TLAPS cannot
  reason about, since it has no rule for ENABLED.
- The four violated properties, which are TLC's to show.

Every invariant and action property, and both refinements, have theorems.

## Not modelled, and the plan

What the plan has left:

1. An update proposal stores the hash of the text it was written against and approval
   never compares it (`app/services/memory_service.py:707`). What that costs a reader,
   an approved update that replaces a text its author never saw, has no property, since no
   text of the repository promises otherwise.
2. The refinement between parts that now only name one another: the commits of
   `BatchSave` as commits of `MemoryReview`, its writes as those of `Retrieval`.

Left out, and why:

- The secret detector's regular expressions and entropy, token signatures and
  hashes, and Google's HTTP exchange: heuristics over text, cryptography and I/O.
  `MemoryReview` models where the detector is asked and what its verdict does.
- OAuth discovery documents, configuration and startup: documents and settings that are
  read and never change. Migrations: schema history.
- The audit rows of other operations than saving, written in the same way after the
  commit, and the audit, user, role and scope lists: reads without a later decision.
- The plugin's prompt counter, a file of one session whose prompts come one after the
  other, and the hook that advises against the editor's own memory files: no state that
  another part depends on, and nothing that interleaves.
- The wording, lengths and display fields of tool answers and dashboard responses.
