--------------------------- MODULE ConnectorAuth ---------------------------
(***************************************************************************)
(* Dashboard sessions, access tokens, and the authorization codes by which *)
(* a connector obtains a token: session_service.py,                        *)
(* personal_access_token_service.py, oauth_client_service.py and           *)
(* oauth_authorization_service.py of app/services, over the tables of      *)
(* app/models/identity.py and app/models/oauth.py.                         *)
(*                                                                         *)
(* A worker serves one request; each database call is a step.  Only the    *)
(* redemption of a code opens a transaction.  In it, the update of the     *)
(* client's last_seen_at locks the client's row until the commit.          *)
(***************************************************************************)
EXTENDS Naturals, FiniteSets

CONSTANTS Workers, Users,
          Admins,     \* users whose e-mail is in admin_emails
          Sessions,   \* rows of engram_sessions
          Tokens,     \* rows of engram_personal_access_tokens
          Codes,      \* rows of engram_oauth_authorization_codes
          Clients,    \* rows of engram_oauth_clients
          Redirects,  \* redirect URIs that pass validate_redirect_uris
          Operations, \* what requests with a credential ask for
          None

Creds == Sessions \cup Tokens

AllOperations ==
  {"call", "mcp", "logout", "revoke", "createToken", "authorize"}

ASSUME AuthAssumption ==
  /\ Operations \subseteq AllOperations
  /\ Admins \subseteq Users
  /\ Sessions \cap Tokens = {}
  /\ Workers \cap Creds = {}
  /\ IsFiniteSet(Workers) /\ IsFiniteSet(Creds)
  /\ None \notin Workers \cup Users \cup Creds \cup Codes \cup Clients
                   \cup Redirects

VARIABLES active,      \* users with is_active
          creds,       \* sessions and access tokens
          codes,       \* authorization codes
          redirects,   \* of each client, {} when it is not registered
          clientLock,  \* the worker whose transaction updated the client's row
          req          \* what each worker is doing

vars == <<active, creds, codes, redirects, clientLock, req>>

-----------------------------------------------------------------------------
(* Rows.  Hashes, names, prefixes and times are left out; expired says that *)
(* expires_at has passed, mcp that a token's scopes and client type admit   *)
(* it to the MCP tools.                                                     *)

NoCredRow == [owner |-> None, mcp |-> FALSE, expired |-> FALSE,
              revoked |-> FALSE, code |-> None]

\* code is not a column: it remembers which code a token was obtained with.
CredRows == {NoCredRow} \cup
            [owner   : Users,
             mcp     : BOOLEAN,
             expired : BOOLEAN,
             revoked : BOOLEAN,
             code    : Codes \cup {None}]

NoCodeRow == [owner |-> None, client |-> None, redirect |-> None,
              expired |-> FALSE, used |-> FALSE]

CodeRows == {NoCodeRow} \cup
            [owner    : Users,
             client   : Clients,
             redirect : Redirects,
             expired  : BOOLEAN,
             used     : BOOLEAN]

SessionRow(u) == [NoCredRow EXCEPT !.owner = u]

TokenRow(u, hasMcp, code) ==
  [NoCredRow EXCEPT !.owner = u, !.mcp = hasMcp, !.code = code]

Pcs == {"idle", "checkClient", "verify", "saveLastUsed", "act", "saveRevoked",
        "lockClient", "saveUsed", "recheckClient", "createToken",
        "saveClient", "createSession"}

Requests == [pc       : Pcs,
             op       : Operations \cup {"none"},
             cred     : Creds \cup {None},    \* presented
             row      : CredRows,             \* the object read for it
             target   : Creds \cup {None},    \* to be revoked
             user     : Users \cup {None},    \* logging in, or the actor
             client   : Clients \cup {None},
             redirect : Redirects \cup {None},
             uris     : SUBSET Redirects,     \* being registered
             code     : Codes \cup {None},    \* being redeemed
             crow     : CodeRows]             \* the object read for it

Idle == [pc |-> "idle", op |-> "none", cred |-> None, row |-> NoCredRow,
         target |-> None, user |-> None, client |-> None, redirect |-> None,
         uris |-> {}, code |-> None, crow |-> NoCodeRow]

AuthTypeOK ==
  /\ active \subseteq Users
  /\ creds \in [Creds -> CredRows]
  /\ codes \in [Codes -> CodeRows]
  /\ redirects \in [Clients -> SUBSET Redirects]
  /\ clientLock \in [Clients -> Workers \cup {None}]
  /\ req \in [Workers -> Requests]

Init ==
  /\ active = Users
  /\ creds = [c \in Creds |-> NoCredRow]
  /\ codes = [k \in Codes |-> NoCodeRow]
  /\ redirects = [c \in Clients |-> {}]
  /\ clientLock = [c \in Clients |-> None]
  /\ req = [w \in Workers |-> Idle]

\* The request of w is now r.
Become(w, r) == req' = [req EXCEPT ![w] = r]

Goto(w, pc) == Become(w, [req[w] EXCEPT !.pc = pc])

Receive(w, r) ==
  /\ req[w] = Idle
  /\ Become(w, r)
  /\ UNCHANGED <<active, creds, codes, redirects, clientLock>>

Issued(c) == creds[c] # NoCredRow

\* w inserts a row of table; the row is new, so nobody else knows it.
Insert(w, table, row) ==
  /\ \E c \in table : ~Issued(c) /\ creds' = [creds EXCEPT ![c] = row]
  /\ Become(w, Idle)
  /\ UNCHANGED <<active, codes, redirects, clientLock>>

\* Tables and locks stay; used by the steps that only read.
Reading == UNCHANGED <<active, creds, codes, redirects, clientLock>>

-----------------------------------------------------------------------------
(* Requests that present a session cookie or a bearer token.                *)

\* A credential nobody has issued is refused without a step of the model.
Present(w, op, c, target) ==
  /\ op # "authorize"
  /\ Issued(c)
  /\ target # None <=> op = "revoke"
  /\ Receive(w, [Idle EXCEPT !.pc = "verify", !.op = op, !.cred = c,
                             !.target = target])

\* authorize() validates the client before it looks at the session cookie.
StartAuthorize(w, c, client, redirect) ==
  /\ "authorize" \in Operations
  /\ c \in Sessions
  /\ Issued(c)
  /\ Receive(w, [Idle EXCEPT !.pc = "checkClient", !.op = "authorize",
                   !.cred = c, !.client = client, !.redirect = redirect])

Registered(t) == t.redirect \in redirects[t.client]

\* get_validated_client reads the client, refuses a redirect it does not
\* have, and saves last_seen_at: the save waits for a transaction that has
\* done the same.  The request then goes on at pc.
GetValidatedClient(w, pc) ==
  IF Registered(req[w])
  THEN clientLock[req[w].client] = None /\ Goto(w, pc)
  ELSE Become(w, Idle)

CheckClient(w) ==
  /\ req[w].pc = "checkClient"
  /\ GetValidatedClient(w, "verify")
  /\ Reading

\* What verify_session_token and verify_bearer_token check.
Accepts(t, row) ==
  /\ ~row.revoked
  /\ ~row.expired
  /\ row.owner \in active
  /\ t.op = "mcp" => row.mcp

Verify(w) ==
  LET t == req[w] IN
  /\ t.pc = "verify"
  /\ Become(w, IF Accepts(t, creds[t.cred])
               THEN [t EXCEPT !.pc = "saveLastUsed", !.row = creds[t.cred]]
               ELSE Idle)
  /\ Reading

\* Where an admitted request goes next, as its actor: an ordinary call is
\* served, and the dashboard's operations are for sessions.
AfterVerification(t) ==
  IF t.op \in {"call", "mcp"} \/ t.cred \notin Sessions THEN Idle
  ELSE [t EXCEPT !.pc = "act", !.user = t.row.owner, !.row = NoCredRow,
                 !.target = IF t.op = "logout" THEN t.cred ELSE @]

\* Mutant: token.save() without update_fields.
SaveWholeRow(w) ==
  /\ req[w].pc = "saveLastUsed"
  /\ creds' = [creds EXCEPT ![req[w].cred] = req[w].row]
  /\ Become(w, AfterVerification(req[w]))
  /\ UNCHANGED <<active, codes, redirects, clientLock>>

\* The save names its columns, last_used_at and updated_at, which the model
\* leaves out: nothing else of the row that was read is written back.
SaveLastUsed(w) ==
  /\ req[w].pc = "saveLastUsed"
  /\ Become(w, AfterVerification(req[w]))
  /\ Reading

-----------------------------------------------------------------------------
(* What an admitted dashboard request does.                                 *)

CreatePersonalAccessToken(w) ==
  /\ req[w].pc = "act"
  /\ req[w].op = "createToken"
  /\ \E hasMcp \in BOOLEAN :
       Insert(w, Tokens, TokenRow(req[w].user, hasMcp, None))

\* logout revokes the actor's own session; revocation is of a token, by its
\* owner or an admin.
MayRevoke(t, row) ==
  /\ row # NoCredRow
  /\ ~row.revoked
  /\ t.op = "revoke" => /\ t.target \in Tokens
                        /\ row.owner = t.user \/ t.user \in Admins

ReadTarget(w) ==
  LET t == req[w] IN
  /\ t.pc = "act"
  /\ t.op \in {"logout", "revoke"}
  /\ Become(w, IF MayRevoke(t, creds[t.target])
               THEN [t EXCEPT !.pc = "saveRevoked"] ELSE Idle)
  /\ Reading

SaveRevoked(w) ==
  /\ req[w].pc = "saveRevoked"
  /\ creds' = [creds EXCEPT ![req[w].target].revoked = TRUE]
  /\ Become(w, Idle)
  /\ UNCHANGED <<active, codes, redirects, clientLock>>

CreateAuthorizationCode(w) ==
  LET t == req[w] IN
  /\ t.pc = "act"
  /\ t.op = "authorize"
  /\ \E k \in Codes :
       /\ codes[k] = NoCodeRow
       /\ codes' = [codes EXCEPT ![k] =
            [NoCodeRow EXCEPT !.owner = t.user, !.client = t.client,
                              !.redirect = t.redirect]]
  /\ Become(w, Idle)
  /\ UNCHANGED <<active, creds, redirects, clientLock>>

-----------------------------------------------------------------------------
(* Redemption of a code.  Its reads, its last_seen_at and its used_at are   *)
(* one transaction; the token is created after the commit.                  *)

\* Mutant: used_at is not looked at.
RedeemsUsed(row, client, redirect) ==
  ~row.expired /\ row.client = client /\ row.redirect = redirect

\* A wrong code_verifier is refused in the same way as a wrong redirect.
Redeemable(row, client, redirect) ==
  ~row.used /\ ~row.expired /\ row.client = client /\ row.redirect = redirect

\* The code is read without a lock.
ReadCode(w, k, client, redirect) ==
  /\ Redeemable(codes[k], client, redirect)
  /\ Receive(w, [Idle EXCEPT !.pc = "lockClient", !.client = client,
                   !.redirect = redirect, !.code = k, !.crow = codes[k]])

LockClient(w) ==
  /\ req[w].pc = "lockClient"
  /\ GetValidatedClient(w, "saveUsed")
  /\ clientLock' = IF Registered(req[w])
                   THEN [clientLock EXCEPT ![req[w].client] = w]
                   ELSE clientLock
  /\ UNCHANGED <<active, creds, codes, redirects>>

FreeClients(w) ==
  clientLock' = [c \in Clients |-> IF clientLock[c] = w THEN None
                                   ELSE clientLock[c]]

\* Mutant: the code's row is not saved.
CommitWithoutUse(w) ==
  /\ req[w].pc = "saveUsed"
  /\ FreeClients(w)
  /\ Goto(w, "recheckClient")
  /\ UNCHANGED <<active, creds, codes, redirects>>

\* used_at is saved and the transaction commits.  Nobody else is updating the
\* code's row: whoever redeems the code has to hold the row of its client.
SaveUsed(w) ==
  /\ req[w].pc = "saveUsed"
  /\ codes' = [codes EXCEPT ![req[w].code].used = TRUE]
  /\ FreeClients(w)
  /\ Goto(w, "recheckClient")
  /\ UNCHANGED <<active, creds, redirects>>

RecheckClient(w) ==
  /\ req[w].pc = "recheckClient"
  /\ GetValidatedClient(w, "createToken")
  /\ Reading

\* Mutant: the token is made for the actor, and a redemption has none.
CreateTokenForActor(w) ==
  /\ req[w].pc = "createToken"
  /\ Insert(w, Tokens, TokenRow(req[w].user, TRUE, req[w].code))

CreateMcpAccessToken(w) ==
  /\ req[w].pc = "createToken"
  /\ Insert(w, Tokens, TokenRow(req[w].crow.owner, TRUE, req[w].code))

-----------------------------------------------------------------------------
(* Registration of clients, and login.                                      *)

\* Mutant: a client that shares a redirect URI is taken for the same.
OverlappingClients(uris) == {c \in Clients : redirects[c] \cap uris # {}}

SameClients(uris) == {c \in Clients : redirects[c] = uris}

FindClient(w, uris) ==
  LET found == SameClients(uris) IN
  \E c \in IF found = {} THEN {None} ELSE found :
    Receive(w, [Idle EXCEPT !.pc = "saveClient", !.client = c, !.uris = uris])

\* An update waits for a redemption that holds the row; a creation takes a
\* new row, also when an equal client was created meanwhile.
SaveClient(w) ==
  LET t == req[w] IN
  /\ t.pc = "saveClient"
  /\ \E c \in Clients :
       /\ IF t.client = None THEN redirects[c] = {} ELSE c = t.client
       /\ clientLock[c] = None
       /\ redirects' = [redirects EXCEPT ![c] = t.uris]
  /\ Become(w, Idle)
  /\ UNCHANGED <<active, creds, codes, clientLock>>

\* The user Google vouches for is read and found active.
ReadUser(w, u) ==
  /\ u \in active
  /\ Receive(w, [Idle EXCEPT !.pc = "createSession", !.user = u])

CreateWebSession(w) ==
  /\ req[w].pc = "createSession"
  /\ Insert(w, Sessions, SessionRow(req[w].user))

-----------------------------------------------------------------------------
(* What happens to requests and rows from outside.                          *)

\* Mutant: the transaction stays open when a request fails.
AbortKeepingLocks(w) ==
  /\ req[w].pc # "idle"
  /\ Become(w, Idle)
  /\ Reading

\* The request is cancelled, its process dies, or a database call fails.
Abort(w) ==
  /\ req[w].pc # "idle"
  /\ Become(w, Idle)
  /\ FreeClients(w)
  /\ UNCHANGED <<active, creds, codes, redirects>>

\* The pool of rows an insert draws from is a bound of the model.
OutOfRows(w) ==
  /\ LET at(op) == req[w].pc = "act" /\ req[w].op = op IN
     \/ /\ req[w].pc = "createSession"
        /\ \A c \in Sessions : Issued(c)
     \/ /\ req[w].pc = "createToken" \/ at("createToken")
        /\ \A c \in Tokens : Issued(c)
     \/ /\ at("authorize")
        /\ \A k \in Codes : codes[k] # NoCodeRow
     \/ /\ req[w].pc = "saveClient" /\ req[w].client = None
        /\ \A c \in Clients : redirects[c] # {}
  /\ Become(w, Idle)
  /\ Reading

Expire(c) ==
  /\ Issued(c)
  /\ creds' = [creds EXCEPT ![c].expired = TRUE]
  /\ UNCHANGED <<active, codes, redirects, clientLock, req>>

ExpireCode(k) ==
  /\ codes[k] # NoCodeRow
  /\ codes' = [codes EXCEPT ![k].expired = TRUE]
  /\ UNCHANGED <<active, creds, redirects, clientLock, req>>

\* docs/auth-operator-runbook.md, emergency database path.
OperatorRevokes(c) ==
  /\ c \in Tokens
  /\ Issued(c)
  /\ creds' = [creds EXCEPT ![c].revoked = TRUE]
  /\ UNCHANGED <<active, codes, redirects, clientLock, req>>

Deactivate(u) ==
  /\ active' = active \ {u}
  /\ UNCHANGED <<creds, codes, redirects, clientLock, req>>

Reactivate(u) ==
  /\ active' = active \cup {u}
  /\ UNCHANGED <<creds, codes, redirects, clientLock, req>>

-----------------------------------------------------------------------------
Arrive(w) ==
  \/ \E op \in Operations, c \in Creds, target \in Creds \cup {None} :
       Present(w, op, c, target)
  \/ \E c \in Creds, client \in Clients, redirect \in Redirects :
       StartAuthorize(w, c, client, redirect)
  \/ \E k \in Codes, client \in Clients, redirect \in Redirects :
       ReadCode(w, k, client, redirect)
  \/ \E uris \in (SUBSET Redirects) \ {{}} : FindClient(w, uris)
  \/ \E u \in Users : ReadUser(w, u)

\* The next database call of a request in progress.
Advance(w) ==
  \/ CheckClient(w)
  \/ Verify(w)
  \/ SaveLastUsed(w)
  \/ CreatePersonalAccessToken(w)
  \/ ReadTarget(w)
  \/ SaveRevoked(w)
  \/ CreateAuthorizationCode(w)
  \/ LockClient(w)
  \/ SaveUsed(w)
  \/ RecheckClient(w)
  \/ CreateMcpAccessToken(w)
  \/ SaveClient(w)
  \/ CreateWebSession(w)
  \/ OutOfRows(w)

Outside ==
  \/ \E c \in Creds : Expire(c) \/ OperatorRevokes(c)
  \/ \E k \in Codes : ExpireCode(k)
  \/ \E u \in Users : Deactivate(u) \/ Reactivate(u)

Next == Outside \/ \E w \in Workers : Arrive(w) \/ Advance(w) \/ Abort(w)

Spec == Init /\ [][Next]_vars

\* The event loop resumes a request whose call has returned, and PostgreSQL
\* grants a row lock in the order of its waiters.
FairSpec == Spec /\ \A w \in Workers : SF_vars(Advance(w))

-----------------------------------------------------------------------------
(* Properties.                                                              *)

Ended(row) == row.revoked \/ row.expired

Visit(t) ==
  CASE t.pc \in {"checkClient", "verify"} ->
         [cred |-> t.cred, verdict |-> "asked"]
    [] t.pc \in {"saveLastUsed", "act", "saveRevoked"} ->
         [cred |-> t.cred, verdict |-> "admitted"]
    [] OTHER -> [cred |-> None, verdict |-> "away"]

\* No row, an ended one, or one whose owner is or is not active.
Life(c) ==
  IF ~Issued(c) THEN "none"
  ELSE IF Ended(creds[c]) THEN "ended"
  ELSE IF creds[c].owner \in active THEN "live" ELSE "suspended"

Promise == INSTANCE Credentials WITH
  Requesters <- Workers,
  life <- [c \in Creds |-> Life(c)],
  visit <- [w \in Workers |-> Visit(req[w])]

\* Sessions and tokens keep the promise of Credentials: no write of
\* last_used_at, of a revocation or of a new row brings an ended credential
\* back, and none is admitted by a check that an earlier one made true.
CredentialSpec == Promise!Spec

\* A token obtained with a code is the code owner's MCP token, and the code is
\* already marked used: redeem_token issues nothing for a code whose
\* transaction was not committed.
TokensFollowUse ==
  \A c \in Creds : LET k == creds[c].code IN
    k # None => /\ codes[k].used
                /\ creds[c].owner = codes[k].owner
                /\ creds[c].mcp

\* Tokens obtained with k, and requests that may still obtain one.
Redeemers(k) == {c \in Creds : creds[c].code = k}
                  \cup {w \in Workers : req[w].code = k}

\* From the commit of used_at on, nobody joins the redeemers of a code: it
\* yields at most as many tokens as requests had read it before.
UsedCodeAdmitsNobody ==
  [][\A k \in Codes : codes[k].used =>
       Cardinality(Redeemers(k)') <= Cardinality(Redeemers(k))]_vars

\* The redirect a code was issued for stays registered for its client, so no
\* registration by somebody else makes redeem_token refuse the code.
CodesStayRedeemable ==
  \A k \in Codes : codes[k] # NoCodeRow =>
    codes[k].redirect \in redirects[codes[k].client]

\* docs/claude-desktop-mcp-oauth-mvp-plan.md: "mark authorization codes
\* single-use".  A code yields one token.
OneTokenPerCode ==
  \A c, d \in Creds :
    creds[c].code # None /\ creds[c].code = creds[d].code => c = d

\* No request waits for ever for the row of a client.
AuthRequestsFinish ==
  \A w \in Workers : req[w].pc # "idle" ~> req[w].pc = "idle"
=============================================================================
