------------------------ MODULE ConnectorAuthProofs ------------------------
(***************************************************************************)
(* What ConnectorAuth promises for any sets of users, requests, sessions,  *)
(* tokens, codes and clients.                                              *)
(*                                                                         *)
(* Nothing here is protected by a lock: the argument is that rows keep     *)
(* what identifies them (RowsKept), so that what a request once read of a  *)
(* row's owner, client or redirect is still true when it acts on it.  The  *)
(* inductive invariant AuthInv says what each request relies on.           *)
(***************************************************************************)
EXTENDS ConnectorAuth, FiniteSetTheorems, TLAPS

\* From the first read of a code to the insert of its token.
Redeeming == {"lockClient", "saveUsed", "recheckClient", "createToken"}

\* The request presents a credential that somebody was issued.
Presents(t) ==
  t.pc \in {"checkClient", "verify", "saveLastUsed", "act", "saveRevoked"} =>
    t.cred \in Creds /\ Issued(t.cred)

\* A request to authorize names a client and, once checked, a redirect of it.
Authorizes(t) ==
  t.op = "authorize" =>
    /\ t.pc \in {"checkClient", "verify", "saveLastUsed", "act"} =>
         t.client \in Clients /\ t.redirect \in Redirects
    /\ t.pc \in {"verify", "saveLastUsed", "act"} =>
         t.redirect \in redirects[t.client]

\* The actor is a user, and a revocation has a row to revoke.
Acts(t) ==
  /\ t.pc = "checkClient" => t.op = "authorize"
  /\ t.pc = "saveLastUsed" => t.row.owner \in Users
  /\ t.pc \in {"act", "createSession"} => t.user \in Users
  /\ t.op = "revoke" => t.target \in Creds
  /\ t.pc = "act" /\ t.op = "logout" => t.target \in Creds
  /\ t.pc = "saveRevoked" => t.target \in Creds /\ Issued(t.target)

\* A redemption has the owner of its code, and is past used_at after the
\* commit; nobody else holds a code.
Redeems(t) ==
  /\ t.pc \in Redeeming =>
       /\ t.code \in Codes
       /\ codes[t.code] # NoCodeRow
       /\ t.crow.owner = codes[t.code].owner
       /\ t.client \in Clients
  /\ t.pc \in {"recheckClient", "createToken"} => codes[t.code].used
  /\ t.pc \notin Redeeming => t.code = None

\* A registration that found an equal client changes nothing of it.
Registers(t) ==
  t.pc = "saveClient" =>
    /\ t.uris # {}
    /\ t.client # None => /\ t.client \in Clients
                          /\ redirects[t.client] = t.uris

Sound(t) ==
  Presents(t) /\ Authorizes(t) /\ Acts(t) /\ Redeems(t) /\ Registers(t)

RequestsSound == \A w \in Workers : Sound(req[w])

\* The inductive invariant.
AuthInv ==
  AuthTypeOK /\ RequestsSound /\ TokensFollowUse /\ CodesStayRedeemable

-----------------------------------------------------------------------------
(* Rows keep what identifies them.                                         *)

CredsKept ==
  \A c \in Creds : Issued(c) =>
    /\ creds'[c] # NoCredRow
    /\ creds'[c].owner = creds[c].owner
    /\ creds'[c].mcp = creds[c].mcp
    /\ creds'[c].code = creds[c].code

CodesKept ==
  \A k \in Codes : codes[k] # NoCodeRow =>
    /\ codes'[k] # NoCodeRow
    /\ codes'[k].owner = codes[k].owner
    /\ codes'[k].client = codes[k].client
    /\ codes'[k].redirect = codes[k].redirect
    /\ codes[k].used => codes'[k].used

ClientsKept ==
  \A c \in Clients : redirects[c] # {} => redirects'[c] = redirects[c]

RowsKept == CredsKept /\ CodesKept /\ ClientsKept

\* A request that has ended is well typed and relies on nothing.
LEMMA IdleSound == Idle \in Requests /\ Sound(Idle)
<1>1. Idle \in Requests
  BY DEF Idle, Requests, Pcs, CredRows, CodeRows
<1>2. Sound(Idle)
  BY DEF Idle, Sound, Presents, Authorizes, Acts, Redeems, Redeeming, Registers
<1> QED
  BY <1>1, <1>2

\* What a request relies on survives every step that keeps the rows.
LEMMA SoundStays ==
  ASSUME AuthInv, RowsKept, NEW v \in Workers, req'[v] = req[v]
  PROVE  Sound(req[v])'
<1>1. req[v] \in Requests /\ Sound(req[v])
  BY DEF AuthInv, AuthTypeOK, RequestsSound
<1>2. Presents(req[v])'
  BY <1>1 DEF Sound, Presents, Issued, RowsKept, CredsKept
<1>3. Authorizes(req[v])'
  BY <1>1 DEF Sound, Authorizes, RowsKept, ClientsKept
<1>4. Acts(req[v])'
  BY <1>1 DEF Sound, Acts, Issued, RowsKept, CredsKept
<1>5. Redeems(req[v])'
  BY <1>1 DEF Sound, Redeems, Redeeming, RowsKept, CodesKept
<1>6. Registers(req[v])'
  BY <1>1 DEF Sound, Registers, RowsKept, ClientsKept
<1> QED
  BY <1>2, <1>3, <1>4, <1>5, <1>6 DEF Sound

\* Rows that stay as they were, and sound new ones, keep the promises about
\* codes.
LEMMA RowsSafe ==
  ASSUME AuthInv, AuthTypeOK', RowsKept,
         \A c \in Creds : ~Issued(c) /\ creds'[c].code # None =>
           /\ codes'[creds'[c].code].used
           /\ creds'[c].owner = codes'[creds'[c].code].owner
           /\ creds'[c].mcp,
         \A k \in Codes : codes[k] = NoCodeRow /\ codes'[k] # NoCodeRow =>
           codes'[k].redirect \in redirects'[codes'[k].client]
  PROVE  TokensFollowUse' /\ CodesStayRedeemable'
<1>1. TokensFollowUse'
  <2> SUFFICES ASSUME NEW c \in Creds, creds'[c].code # None
               PROVE  /\ codes'[creds'[c].code].used
                      /\ creds'[c].owner = codes'[creds'[c].code].owner
                      /\ creds'[c].mcp
    BY DEF TokensFollowUse
  <2>1. CASE ~Issued(c)
    BY <2>1
  <2>2. CASE Issued(c)
    <3>1. /\ creds'[c].code = creds[c].code
          /\ creds'[c].owner = creds[c].owner
          /\ creds'[c].mcp = creds[c].mcp
      BY <2>2 DEF RowsKept, CredsKept
    <3>2. /\ creds[c].code \in Codes
          /\ creds[c].owner \in Users
          /\ codes[creds[c].code].used
          /\ creds[c].owner = codes[creds[c].code].owner
          /\ creds[c].mcp
      BY <2>2, <3>1
      DEF AuthInv, AuthTypeOK, TokensFollowUse, Issued, CredRows
    <3>3. codes[creds[c].code] # NoCodeRow
      BY <3>2, AuthAssumption DEF NoCodeRow
    <3> QED
      BY <3>1, <3>2, <3>3 DEF RowsKept, CodesKept
  <2> QED
    BY <2>1, <2>2
<1>2. CodesStayRedeemable'
  <2> SUFFICES ASSUME NEW k \in Codes, codes'[k] # NoCodeRow
               PROVE  codes'[k].redirect \in redirects'[codes'[k].client]
    BY DEF CodesStayRedeemable
  <2>1. CASE codes[k] = NoCodeRow
    BY <2>1
  <2>2. CASE codes[k] # NoCodeRow
    <3>1. /\ codes'[k].redirect = codes[k].redirect
          /\ codes'[k].client = codes[k].client
      BY <2>2 DEF RowsKept, CodesKept
    <3>2. /\ codes[k].client \in Clients
          /\ codes[k].redirect \in redirects[codes[k].client]
      BY <2>2 DEF AuthInv, AuthTypeOK, CodesStayRedeemable, CodeRows
    <3> QED
      BY <3>1, <3>2 DEF RowsKept, ClientsKept
  <2> QED
    BY <2>1, <2>2
<1> QED
  BY <1>1, <1>2

\* A step of w that keeps the rows is safe when w's new state is, and so are
\* the rows it adds.
LEMMA StepSafe ==
  ASSUME AuthInv, AuthTypeOK', RowsKept,
         NEW w \in Workers, NEW r, req' = [req EXCEPT ![w] = r],
         Sound(req[w])',
         \A c \in Creds : ~Issued(c) /\ creds'[c].code # None =>
           /\ codes'[creds'[c].code].used
           /\ creds'[c].owner = codes'[creds'[c].code].owner
           /\ creds'[c].mcp,
         \A k \in Codes : codes[k] = NoCodeRow /\ codes'[k] # NoCodeRow =>
           codes'[k].redirect \in redirects'[codes'[k].client]
  PROVE  AuthInv'
<1>1. RequestsSound'
  <2>1. ASSUME NEW v \in Workers, v # w PROVE Sound(req[v])'
    BY <2>1, SoundStays DEF AuthInv, AuthTypeOK
  <2> QED
    BY <2>1 DEF RequestsSound
<1> QED
  BY <1>1, RowsSafe DEF AuthInv

\* A step of w that writes no row is safe when its new state is.
LEMMA ReadingSafe ==
  ASSUME AuthInv, NEW w \in Workers, NEW r \in Requests, Sound(r),
         Become(w, r), UNCHANGED <<active, creds, codes, redirects>>,
         clientLock' \in [Clients -> Workers \cup {None}]
  PROVE  AuthInv'
<1>1. req' = [req EXCEPT ![w] = r] /\ req'[w] = r
  BY DEF Become, AuthInv, AuthTypeOK
<1>2. AuthTypeOK'
  BY <1>1 DEF AuthInv, AuthTypeOK
<1>3. RowsKept
  BY DEF RowsKept, CredsKept, CodesKept, ClientsKept, Issued
<1>4. Sound(req[w])'
  BY <1>1 DEF Sound, Presents, Authorizes, Acts, Redeems, Registers, Issued
<1>5. \A c \in Creds : ~Issued(c) => creds'[c].code = None
  BY DEF Issued, NoCredRow
<1> QED
  BY <1>1, <1>2, <1>3, <1>4, <1>5, StepSafe

-----------------------------------------------------------------------------
(* The steps that write no row.                                            *)

\* A request may always end.
LEMMA EndSafe ==
  ASSUME AuthInv, NEW w \in Workers, Become(w, Idle), Reading
  PROVE  AuthInv'
BY IdleSound, ReadingSafe DEF Reading, AuthInv, AuthTypeOK

\* A request arrives relying on what it has just read, or on nothing.
LEMMA ArriveSafe ==
  ASSUME AuthInv, NEW w \in Workers, Arrive(w)
  PROVE  AuthInv'
<1> USE DEF AuthInv, AuthTypeOK
<1>0. Idle \in Requests
  BY IdleSound
<1>1. ASSUME NEW op \in Operations, NEW c \in Creds,
             NEW target \in Creds \cup {None}, Present(w, op, c, target)
      PROVE  AuthInv'
  <2> DEFINE r == [Idle EXCEPT !.pc = "verify", !.op = op, !.cred = c,
                               !.target = target]
  <2>1. r \in Requests
    BY <1>0 DEF Idle, Requests, Pcs
  <2>2. Sound(r)
    BY <1>1, AuthAssumption
    DEF Present, Idle, Sound, Presents, Authorizes, Acts, Redeems, Redeeming,
        Registers, AllOperations
  <2> QED
    BY <1>1, <2>1, <2>2, ReadingSafe DEF Present, Receive
<1>2. ASSUME NEW c \in Creds, NEW client \in Clients,
             NEW redirect \in Redirects,
             StartAuthorize(w, c, client, redirect)
      PROVE  AuthInv'
  <2> DEFINE r == [Idle EXCEPT !.pc = "checkClient", !.op = "authorize",
                     !.cred = c, !.client = client, !.redirect = redirect]
  <2>1. r \in Requests
    BY <1>0, <1>2 DEF StartAuthorize, Idle, Requests, Pcs
  <2>2. Sound(r)
    BY <1>2 DEF StartAuthorize, Idle, Sound, Presents, Authorizes, Acts,
                Redeems, Redeeming, Registers
  <2> QED
    BY <1>2, <2>1, <2>2, ReadingSafe DEF StartAuthorize, Receive
<1>3. ASSUME NEW k \in Codes, NEW client \in Clients,
             NEW redirect \in Redirects, ReadCode(w, k, client, redirect)
      PROVE  AuthInv'
  <2> DEFINE r == [Idle EXCEPT !.pc = "lockClient", !.client = client,
                     !.redirect = redirect, !.code = k, !.crow = codes[k]]
  <2>1. r \in Requests
    BY <1>0 DEF Idle, Requests, Pcs
  <2>2. codes[k] # NoCodeRow
    BY <1>3, AuthAssumption DEF ReadCode, Redeemable, NoCodeRow
  <2>3. Sound(r)
    BY <2>2 DEF Idle, Sound, Presents, Authorizes, Acts, Redeems, Redeeming,
                Registers
  <2> QED
    BY <1>3, <2>1, <2>3, ReadingSafe DEF ReadCode, Receive
<1>4. ASSUME NEW uris \in (SUBSET Redirects) \ {{}}, FindClient(w, uris)
      PROVE  AuthInv'
  <2>1. PICK c \in Clients \cup {None} :
          /\ c # None => redirects[c] = uris
          /\ Receive(w, [Idle EXCEPT !.pc = "saveClient", !.client = c,
                                     !.uris = uris])
    BY <1>4 DEF FindClient, SameClients
  <2> DEFINE r == [Idle EXCEPT !.pc = "saveClient", !.client = c,
                               !.uris = uris]
  <2>2. r \in Requests
    BY <1>0 DEF Idle, Requests, Pcs
  <2>3. Sound(r)
    BY <2>1 DEF Idle, Sound, Presents, Authorizes, Acts, Redeems, Redeeming,
                Registers
  <2> QED
    BY <2>1, <2>2, <2>3, ReadingSafe DEF Receive
<1>5. ASSUME NEW u \in Users, ReadUser(w, u)
      PROVE  AuthInv'
  <2> DEFINE r == [Idle EXCEPT !.pc = "createSession", !.user = u]
  <2>1. r \in Requests
    BY <1>0 DEF Idle, Requests, Pcs
  <2>2. Sound(r)
    BY DEF Idle, Sound, Presents, Authorizes, Acts, Redeems, Redeeming,
           Registers
  <2> QED
    BY <1>5, <2>1, <2>2, ReadingSafe DEF ReadUser, Receive
<1> QED
  BY <1>1, <1>2, <1>3, <1>4, <1>5 DEF Arrive

\* Looking a client up, whether it goes on at pc or ends.
LEMMA ClientSteps ==
  ASSUME AuthInv, NEW w \in Workers,
         CheckClient(w) \/ LockClient(w) \/ RecheckClient(w)
  PROVE  AuthInv'
<1> USE DEF AuthInv, AuthTypeOK
<1>0. req[w] \in Requests /\ Sound(req[w])
  BY DEF RequestsSound
<1>1. CASE CheckClient(w)
  <2>1. CASE Registered(req[w])
    <3>1. [req[w] EXCEPT !.pc = "verify"] \in Requests
      BY <1>0 DEF Requests, Pcs
    <3>2. Sound([req[w] EXCEPT !.pc = "verify"])
      BY <1>0, <1>1, <2>1
      DEF CheckClient, Registered, Sound, Presents, Authorizes, Acts, Redeems,
          Redeeming, Registers, Requests
    <3> QED
      BY <1>1, <2>1, <3>1, <3>2, ReadingSafe
      DEF CheckClient, GetValidatedClient, Goto, Reading
  <2> QED
    BY <1>1, <2>1, EndSafe DEF CheckClient, GetValidatedClient
<1>2. CASE RecheckClient(w)
  <2>1. CASE Registered(req[w])
    <3>1. [req[w] EXCEPT !.pc = "createToken"] \in Requests
      BY <1>0 DEF Requests, Pcs
    <3>2. Sound([req[w] EXCEPT !.pc = "createToken"])
      BY <1>0, <1>2
      DEF RecheckClient, Sound, Presents, Authorizes, Acts, Redeems,
          Redeeming, Registers, Requests
    <3> QED
      BY <1>2, <2>1, <3>1, <3>2, ReadingSafe
      DEF RecheckClient, GetValidatedClient, Goto, Reading
  <2> QED
    BY <1>2, <2>1, EndSafe DEF RecheckClient, GetValidatedClient
<1>3. CASE LockClient(w)
  <2>1. CASE Registered(req[w])
    <3>1. [req[w] EXCEPT !.pc = "saveUsed"] \in Requests
      BY <1>0 DEF Requests, Pcs
    <3>2. Sound([req[w] EXCEPT !.pc = "saveUsed"])
      BY <1>0, <1>3
      DEF LockClient, Sound, Presents, Authorizes, Acts, Redeems, Redeeming,
          Registers, Requests
    <3>3. clientLock' \in [Clients -> Workers \cup {None}]
      BY <1>3 DEF LockClient
    <3> QED
      BY <1>3, <2>1, <3>1, <3>2, <3>3, ReadingSafe
      DEF LockClient, GetValidatedClient, Goto
  <2> QED
    BY <1>3, <2>1, EndSafe DEF LockClient, GetValidatedClient, Reading
<1> QED
  BY <1>1, <1>2, <1>3

\* Checking a credential, and the last read before an admitted request acts.
LEMMA CredentialSteps ==
  ASSUME AuthInv, NEW w \in Workers,
         Verify(w) \/ SaveLastUsed(w) \/ ReadTarget(w)
  PROVE  AuthInv'
<1> USE DEF AuthInv, AuthTypeOK
<1>0. req[w] \in Requests /\ Sound(req[w])
  BY DEF RequestsSound
<1>1. CASE Verify(w)
  <2> DEFINE r == [req[w] EXCEPT !.pc = "saveLastUsed",
                                 !.row = creds[req[w].cred]]
  <2>1. CASE Accepts(req[w], creds[req[w].cred])
    <3>1. req[w].cred \in Creds
      BY <1>0, <1>1 DEF Verify, Sound, Presents
    <3>2. creds[req[w].cred] \in CredRows
      BY <3>1
    <3>3. r \in Requests
      BY <1>0, <3>2 DEF Requests, Pcs
    <3>4. creds[req[w].cred].owner \in Users
      BY <2>1 DEF Accepts
    <3>5. Presents(r) /\ Acts(r)
      BY <1>0, <1>1, <3>4 DEF Verify, Sound, Presents, Acts, Requests
    <3>6. Authorizes(r) /\ Redeems(r) /\ Registers(r)
      BY <1>0, <1>1
      DEF Verify, Sound, Authorizes, Redeems, Redeeming, Registers, Requests
    <3> QED
      BY <1>1, <2>1, <3>3, <3>5, <3>6, ReadingSafe DEF Sound, Verify, Reading
  <2> QED
    BY <1>1, <2>1, EndSafe DEF Verify
<1>2. CASE SaveLastUsed(w)
  <2> DEFINE t == req[w]
             r == AfterVerification(t)
  <2>1. CASE t.op \in {"call", "mcp"} \/ t.cred \notin Sessions
    BY <1>2, <2>1, EndSafe DEF SaveLastUsed, AfterVerification
  <2>2. CASE ~(t.op \in {"call", "mcp"} \/ t.cred \notin Sessions)
    <3>1. r = [t EXCEPT !.pc = "act", !.user = t.row.owner,
                        !.row = NoCredRow,
                        !.target = IF t.op = "logout" THEN t.cred ELSE @]
      BY <2>2 DEF AfterVerification
    <3>2. t.row.owner \in Users /\ t.cred \in Creds
      BY <1>0, <1>2 DEF SaveLastUsed, Sound, Acts, Presents
    <3>3. r \in Requests
      BY <1>0, <3>1, <3>2 DEF Requests, Pcs, CredRows
    <3>4. Presents(r) /\ Acts(r)
      BY <1>0, <1>2, <3>1, <3>2
      DEF SaveLastUsed, Sound, Presents, Acts, Requests
    <3>5. Authorizes(r) /\ Redeems(r) /\ Registers(r)
      BY <1>0, <1>2, <3>1
      DEF SaveLastUsed, Sound, Authorizes, Redeems, Redeeming, Registers,
          Requests
    <3> QED
      BY <1>2, <3>3, <3>4, <3>5, ReadingSafe DEF Sound, SaveLastUsed, Reading
  <2> QED
    BY <2>1, <2>2
<1>3. CASE ReadTarget(w)
  <2> DEFINE r == [req[w] EXCEPT !.pc = "saveRevoked"]
  <2>1. CASE MayRevoke(req[w], creds[req[w].target])
    <3>1. r \in Requests
      BY <1>0 DEF Requests, Pcs
    <3>2. Sound(r)
      BY <1>0, <1>3, <2>1
      DEF ReadTarget, MayRevoke, Issued, Sound, Presents, Authorizes, Acts,
          Redeems, Redeeming, Registers, Requests
    <3> QED
      BY <1>3, <2>1, <3>1, <3>2, ReadingSafe DEF ReadTarget, Reading
  <2> QED
    BY <1>3, <2>1, EndSafe DEF ReadTarget
<1> QED
  BY <1>1, <1>2, <1>3

\* A request that fails leaves nothing behind.
LEMMA AbortSafe ==
  ASSUME AuthInv, NEW w \in Workers, Abort(w)
  PROVE  AuthInv'
<1>1. clientLock' \in [Clients -> Workers \cup {None}]
  BY DEF Abort, FreeClients, AuthInv, AuthTypeOK
<1> QED
  BY <1>1, IdleSound, ReadingSafe DEF Abort

-----------------------------------------------------------------------------
(* The steps that write rows.                                              *)

\* The request that has ended relies on nothing, whatever it wrote.
LEMMA EndedSound ==
  ASSUME NEW w \in Workers, AuthTypeOK, req' = [req EXCEPT ![w] = Idle]
  PROVE  Sound(req[w])'
<1>1. req'[w] = Idle
  BY DEF AuthTypeOK
<1> QED
  BY <1>1, IdleSound
  DEF Idle, Sound, Presents, Authorizes, Acts, Redeems, Redeeming, Registers

\* A new row that is no code's token, or its owner's, is safe.
LEMMA InsertSafe ==
  ASSUME AuthInv, NEW w \in Workers, NEW table \in SUBSET Creds,
         NEW row \in CredRows, row # NoCredRow, Insert(w, table, row),
         row.code # None => /\ codes[row.code].used
                            /\ row.owner = codes[row.code].owner
                            /\ row.mcp
  PROVE  AuthInv'
<1> USE DEF AuthInv, AuthTypeOK
<1>1. PICK c \in Creds : ~Issued(c) /\ creds' = [creds EXCEPT ![c] = row]
  BY DEF Insert
<1>2. req' = [req EXCEPT ![w] = Idle]
  BY DEF Insert, Become
<1>3. AuthTypeOK'
  BY <1>1, <1>2, IdleSound DEF Insert
<1>4. RowsKept
  BY <1>1 DEF Insert, RowsKept, CredsKept, CodesKept, ClientsKept, Issued
<1>5. ASSUME NEW d \in Creds, ~Issued(d), creds'[d].code # None
      PROVE  /\ codes'[creds'[d].code].used
             /\ creds'[d].owner = codes'[creds'[d].code].owner
             /\ creds'[d].mcp
  <2>1. d = c
    BY <1>1, <1>5 DEF Issued, NoCredRow
  <2> QED
    BY <1>1, <1>5, <2>1 DEF Insert
<1>6. \A k \in Codes : codes[k] = NoCodeRow => codes'[k] = NoCodeRow
  BY DEF Insert
<1> QED
  BY <1>2, <1>3, <1>4, <1>5, <1>6, EndedSound, StepSafe

\* The three ways to obtain a credential.
LEMMA InsertSteps ==
  ASSUME AuthInv, NEW w \in Workers,
         \/ CreatePersonalAccessToken(w)
         \/ CreateMcpAccessToken(w)
         \/ CreateWebSession(w)
  PROVE  AuthInv'
<1>0. req[w] \in Requests /\ Sound(req[w])
  BY DEF AuthInv, AuthTypeOK, RequestsSound
<1>1. Tokens \in SUBSET Creds /\ Sessions \in SUBSET Creds
  BY DEF Creds
<1>2. CASE CreatePersonalAccessToken(w)
  <2>1. PICK hasMcp \in BOOLEAN :
          Insert(w, Tokens, TokenRow(req[w].user, hasMcp, None))
    BY <1>2 DEF CreatePersonalAccessToken
  <2> DEFINE row == TokenRow(req[w].user, hasMcp, None)
  <2>2. req[w].user \in Users
    BY <1>0, <1>2 DEF CreatePersonalAccessToken, Sound, Acts
  <2>3. row \in CredRows /\ row # NoCredRow /\ row.code = None
    BY <2>2, AuthAssumption DEF TokenRow, NoCredRow, CredRows
  <2> QED
    BY <1>1, <2>1, <2>3, InsertSafe
<1>3. CASE CreateMcpAccessToken(w)
  <2> DEFINE row == TokenRow(req[w].crow.owner, TRUE, req[w].code)
  <2>1. /\ req[w].code \in Codes
        /\ codes[req[w].code] # NoCodeRow
        /\ req[w].crow.owner = codes[req[w].code].owner
        /\ codes[req[w].code].used
    BY <1>0, <1>3 DEF CreateMcpAccessToken, Sound, Redeems, Redeeming
  <2>2. req[w].crow.owner \in Users
    BY <2>1 DEF AuthInv, AuthTypeOK, CodeRows
  <2>3. row \in CredRows /\ row # NoCredRow
    BY <2>1, <2>2, AuthAssumption DEF TokenRow, NoCredRow, CredRows
  <2>4. row.code = req[w].code /\ row.owner = req[w].crow.owner /\ row.mcp
    BY DEF TokenRow, NoCredRow
  <2> QED
    BY <1>1, <1>3, <2>1, <2>3, <2>4, InsertSafe DEF CreateMcpAccessToken
<1>4. CASE CreateWebSession(w)
  <2> DEFINE row == SessionRow(req[w].user)
  <2>1. req[w].user \in Users
    BY <1>0, <1>4 DEF CreateWebSession, Sound, Acts
  <2>2. row \in CredRows /\ row # NoCredRow /\ row.code = None
    BY <2>1, AuthAssumption DEF SessionRow, NoCredRow, CredRows
  <2> QED
    BY <1>1, <1>4, <2>2, InsertSafe DEF CreateWebSession
<1> QED
  BY <1>2, <1>3, <1>4

\* A revocation, a new code, and the commit of a code's used_at.
LEMMA SaveRevokedSafe ==
  ASSUME AuthInv, NEW w \in Workers, SaveRevoked(w)
  PROVE  AuthInv'
<1> USE DEF AuthInv, AuthTypeOK
<1> DEFINE c == req[w].target
<1>1. c \in Creds /\ Issued(c)
  BY DEF SaveRevoked, RequestsSound, Sound, Acts
<1>2. req' = [req EXCEPT ![w] = Idle]
  BY DEF SaveRevoked, Become
<1>3. creds[c] \in CredRows /\ creds[c] # NoCredRow
  BY <1>1 DEF Issued
<1>4. /\ [creds[c] EXCEPT !.revoked = TRUE] \in CredRows
      /\ [creds[c] EXCEPT !.revoked = TRUE] # NoCredRow
  BY <1>3 DEF CredRows, NoCredRow
<1>5. AuthTypeOK'
  BY <1>2, <1>4, IdleSound DEF SaveRevoked
<1>6. RowsKept
  BY <1>3, <1>4
  DEF SaveRevoked, RowsKept, CredsKept, CodesKept, ClientsKept, Issued,
      CredRows
<1>7. \A d \in Creds : ~Issued(d) => creds'[d].code = None
  BY <1>1 DEF SaveRevoked, Issued, NoCredRow
<1>8. \A k \in Codes : codes[k] = NoCodeRow => codes'[k] = NoCodeRow
  BY DEF SaveRevoked
<1> QED
  BY <1>2, <1>5, <1>6, <1>7, <1>8, EndedSound, StepSafe

\* A new code has a redirect that the authorization checked, which is still
\* registered.
LEMMA CreateAuthorizationCodeSafe ==
  ASSUME AuthInv, NEW w \in Workers, CreateAuthorizationCode(w)
  PROVE  AuthInv'
<1> USE DEF AuthInv, AuthTypeOK
<1> DEFINE t == req[w]
           row == [NoCodeRow EXCEPT !.owner = t.user, !.client = t.client,
                                    !.redirect = t.redirect]
<1>1. PICK k \in Codes :
        codes[k] = NoCodeRow /\ codes' = [codes EXCEPT ![k] = row]
  BY DEF CreateAuthorizationCode
<1>2. req' = [req EXCEPT ![w] = Idle]
  BY DEF CreateAuthorizationCode, Become
<1>3. /\ t.user \in Users
      /\ t.client \in Clients
      /\ t.redirect \in Redirects
      /\ t.redirect \in redirects[t.client]
  BY DEF CreateAuthorizationCode, RequestsSound, Sound, Acts, Authorizes
<1>4. row \in CodeRows
  BY <1>3 DEF NoCodeRow, CodeRows
<1>5. AuthTypeOK'
  BY <1>1, <1>2, <1>4, IdleSound DEF CreateAuthorizationCode
<1>6. RowsKept
  BY <1>1
  DEF CreateAuthorizationCode, RowsKept, CredsKept, CodesKept, ClientsKept,
      Issued
<1>7. \A c \in Creds : ~Issued(c) => creds'[c].code = None
  BY DEF CreateAuthorizationCode, Issued, NoCredRow
<1>8. ASSUME NEW j \in Codes, codes[j] = NoCodeRow, codes'[j] # NoCodeRow
      PROVE  codes'[j].redirect \in redirects'[codes'[j].client]
  <2>1. codes'[j] = row
    BY <1>1, <1>8
  <2>2. row.client = t.client /\ row.redirect = t.redirect
    BY DEF NoCodeRow
  <2> QED
    BY <1>3, <2>1, <2>2 DEF CreateAuthorizationCode
<1> QED
  BY <1>2, <1>5, <1>6, <1>7, <1>8, EndedSound, StepSafe

\* The commit that marks a code used, and releases the client's row.
LEMMA SaveUsedSafe ==
  ASSUME AuthInv, NEW w \in Workers, SaveUsed(w)
  PROVE  AuthInv'
<1> USE DEF AuthInv, AuthTypeOK
<1> DEFINE t == req[w]
           k == t.code
           r == [t EXCEPT !.pc = "recheckClient"]
<1>0. t \in Requests /\ Sound(t)
  BY DEF RequestsSound
<1>1. k \in Codes /\ codes[k] \in CodeRows /\ codes[k] # NoCodeRow
  BY <1>0 DEF SaveUsed, Sound, Redeems, Redeeming
<1>2. req' = [req EXCEPT ![w] = r] /\ req'[w] = r
  BY DEF SaveUsed, Goto, Become
<1>3. r \in Requests
  BY <1>0 DEF Requests, Pcs
<1>4. /\ [codes[k] EXCEPT !.used = TRUE] \in CodeRows
      /\ [codes[k] EXCEPT !.used = TRUE] # NoCodeRow
  BY <1>1 DEF CodeRows, NoCodeRow
<1>5. AuthTypeOK'
  BY <1>2, <1>3, <1>4 DEF SaveUsed, FreeClients
<1>6. RowsKept
  BY <1>1, <1>4
  DEF SaveUsed, RowsKept, CredsKept, CodesKept, ClientsKept, Issued, CodeRows
<1>7. Sound(req[w])'
  <2>1. Presents(req[w])' /\ Authorizes(req[w])' /\ Registers(req[w])'
    BY <1>0, <1>2
    DEF SaveUsed, Requests, Sound, Presents, Authorizes, Registers
  <2>2. Acts(req[w])'
    BY <1>0, <1>2 DEF Requests, Sound, Acts
  <2>3. Redeems(req[w])'
    <3>1. /\ codes'[k].used
          /\ codes'[k] # NoCodeRow
          /\ codes'[k].owner = codes[k].owner
      BY <1>1, <1>4 DEF SaveUsed, CodeRows
    <3>2. req'[w].code = k /\ req'[w].crow = t.crow /\ req'[w].client = t.client
      BY <1>0, <1>2 DEF Requests
    <3>3. req'[w].pc = "recheckClient"
      BY <1>0, <1>2 DEF Requests
    <3> QED
      BY <1>0, <1>1, <3>1, <3>2, <3>3
      DEF SaveUsed, Sound, Redeems, Redeeming
  <2> QED
    BY <2>1, <2>2, <2>3 DEF Sound
<1>8. \A c \in Creds : ~Issued(c) => creds'[c].code = None
  BY DEF SaveUsed, Issued, NoCredRow
<1>9. \A j \in Codes : codes[j] = NoCodeRow => codes'[j] = NoCodeRow
  BY <1>1 DEF SaveUsed
<1> QED
  BY <1>2, <1>5, <1>6, <1>7, <1>8, <1>9, StepSafe

\* A registration takes a new row, or writes back what the row has.
LEMMA SaveClientSafe ==
  ASSUME AuthInv, NEW w \in Workers, SaveClient(w)
  PROVE  AuthInv'
<1> USE DEF AuthInv, AuthTypeOK
<1> DEFINE t == req[w]
<1>0. t \in Requests /\ Registers(t) /\ t.pc = "saveClient"
  BY DEF SaveClient, RequestsSound, Sound
<1>1. PICK c \in Clients :
        /\ IF t.client = None THEN redirects[c] = {} ELSE c = t.client
        /\ redirects' = [redirects EXCEPT ![c] = t.uris]
  BY DEF SaveClient
<1>2. req' = [req EXCEPT ![w] = Idle]
  BY DEF SaveClient, Become
<1>3. t.uris \in SUBSET Redirects
  BY <1>0 DEF Requests
<1>4. AuthTypeOK'
  BY <1>1, <1>2, <1>3, IdleSound DEF SaveClient
<1>5. ClientsKept
  BY <1>0, <1>1 DEF Registers, ClientsKept
<1>6. CredsKept /\ CodesKept
  BY DEF SaveClient, CredsKept, CodesKept, Issued
<1>7. \A d \in Creds : ~Issued(d) => creds'[d].code = None
  BY DEF SaveClient, Issued, NoCredRow
<1>8. \A k \in Codes : codes[k] = NoCodeRow => codes'[k] = NoCodeRow
  BY DEF SaveClient
<1> QED
  BY <1>2, <1>4, <1>5, <1>6, <1>7, <1>8, EndedSound, StepSafe DEF RowsKept

\* Time, the operator and the dashboard's users change no request.
LEMMA OutsideKeeps ==
  ASSUME AuthInv, Outside
  PROVE  /\ AuthTypeOK' /\ RowsKept /\ req' = req
         /\ \A c \in Creds : ~Issued(c) => creds'[c].code = None
         /\ \A k \in Codes : codes[k] = NoCodeRow => codes'[k] = NoCodeRow
<1> USE DEF AuthInv, AuthTypeOK
<1>1. ASSUME NEW c \in Creds, Expire(c) \/ OperatorRevokes(c)
      PROVE  /\ AuthTypeOK' /\ RowsKept /\ req' = req
             /\ \A d \in Creds : ~Issued(d) => creds'[d].code = None
             /\ codes' = codes
  <2>1. PICK row : /\ creds' = [creds EXCEPT ![c] = row]
                   /\ row \in {[creds[c] EXCEPT !.expired = TRUE],
                               [creds[c] EXCEPT !.revoked = TRUE]}
    BY <1>1 DEF Expire, OperatorRevokes
  <2>2. creds[c] \in CredRows /\ creds[c] # NoCredRow
    BY <1>1 DEF Expire, OperatorRevokes, Issued
  <2>3. row \in CredRows /\ row # NoCredRow
    <3>1. CASE row = [creds[c] EXCEPT !.expired = TRUE]
      BY <2>2, <3>1 DEF CredRows, NoCredRow
    <3>2. CASE row = [creds[c] EXCEPT !.revoked = TRUE]
      BY <2>2, <3>2 DEF CredRows, NoCredRow
    <3> QED
      BY <2>1, <3>1, <3>2
  <2>4. /\ row.owner = creds[c].owner
        /\ row.mcp = creds[c].mcp
        /\ row.code = creds[c].code
    BY <2>1, <2>2 DEF CredRows
  <2>5. UNCHANGED <<active, codes, redirects, clientLock, req>>
    BY <1>1 DEF Expire, OperatorRevokes
  <2>6. AuthTypeOK'
    BY <2>1, <2>3, <2>5
  <2>7. RowsKept
    BY <2>1, <2>3, <2>4, <2>5
    DEF RowsKept, CredsKept, CodesKept, ClientsKept, Issued
  <2>8. \A d \in Creds : ~Issued(d) => creds'[d].code = None
    BY <2>1, <2>2 DEF Issued, NoCredRow
  <2> QED
    BY <2>5, <2>6, <2>7, <2>8
<1>2. ASSUME NEW k \in Codes, ExpireCode(k)
      PROVE  /\ AuthTypeOK' /\ RowsKept /\ req' = req
             /\ creds' = creds
             /\ \A j \in Codes : codes[j] = NoCodeRow => codes'[j] = NoCodeRow
  <2> DEFINE row == [codes[k] EXCEPT !.expired = TRUE]
  <2>1. codes[k] \in CodeRows /\ codes[k] # NoCodeRow
    BY <1>2 DEF ExpireCode
  <2>2. row \in CodeRows /\ row # NoCodeRow
    BY <2>1 DEF CodeRows, NoCodeRow
  <2>3. AuthTypeOK'
    BY <1>2, <2>2 DEF ExpireCode
  <2>4. RowsKept
    BY <1>2, <2>1, <2>2
    DEF ExpireCode, RowsKept, CredsKept, CodesKept, ClientsKept, Issued,
        CodeRows
  <2>5. \A j \in Codes : codes[j] = NoCodeRow => codes'[j] = NoCodeRow
    BY <1>2, <2>1 DEF ExpireCode
  <2> QED
    BY <1>2, <2>3, <2>4, <2>5 DEF ExpireCode
<1>3. ASSUME NEW u \in Users, Deactivate(u) \/ Reactivate(u)
      PROVE  /\ AuthTypeOK' /\ RowsKept /\ req' = req
             /\ creds' = creds /\ codes' = codes
  BY <1>3 DEF Deactivate, Reactivate, RowsKept, CredsKept, CodesKept,
              ClientsKept, Issued
<1>4. (\A c \in Creds : ~Issued(c) => creds[c].code = None)
  BY DEF Issued, NoCredRow
<1> QED
  BY <1>1, <1>2, <1>3, <1>4 DEF Outside

\* Time and operators.
LEMMA OutsideSafe ==
  ASSUME AuthInv, Outside
  PROVE  AuthInv'
<1>1. RequestsSound'
  BY OutsideKeeps, SoundStays DEF RequestsSound
<1> QED
  BY <1>1, OutsideKeeps, RowsSafe DEF AuthInv

-----------------------------------------------------------------------------
(* The invariant, and what it contains.                                    *)

\* The invariant holds initially.
LEMMA AuthInit == Init => AuthInv
<1> SUFFICES ASSUME Init PROVE AuthInv
  OBVIOUS
<1> USE DEF Init
<1>1. AuthTypeOK
  BY IdleSound DEF AuthTypeOK, CredRows, CodeRows
<1>2. RequestsSound
  BY IdleSound DEF RequestsSound
<1>3. TokensFollowUse /\ CodesStayRedeemable
  BY DEF TokensFollowUse, CodesStayRedeemable, NoCredRow
<1> QED
  BY <1>1, <1>2, <1>3 DEF AuthInv

\* Every step of the system keeps the invariant.
LEMMA AuthStep == AuthInv /\ [Next]_vars => AuthInv'
<1> SUFFICES ASSUME AuthInv, [Next]_vars PROVE AuthInv'
  OBVIOUS
<1>1. CASE Outside
  BY <1>1, OutsideSafe
<1>2. ASSUME NEW w \in Workers, Arrive(w)
      PROVE  AuthInv'
  BY <1>2, ArriveSafe
<1>3. ASSUME NEW w \in Workers, Advance(w)
      PROVE  AuthInv'
  <2>1. CASE OutOfRows(w)
    BY <2>1, EndSafe DEF OutOfRows
  <2> QED
    BY <1>3, <2>1, ClientSteps, CredentialSteps, InsertSteps, SaveRevokedSafe,
       CreateAuthorizationCodeSafe, SaveUsedSafe, SaveClientSafe DEF Advance
<1>4. ASSUME NEW w \in Workers, Abort(w)
      PROVE  AuthInv'
  BY <1>4, AbortSafe
<1>5. CASE UNCHANGED vars
  <2>1. RequestsSound'
    BY <1>5 DEF AuthInv, RequestsSound, Sound, Presents, Authorizes, Acts,
                Redeems, Registers, Issued, vars
  <2> QED
    BY <1>5, <2>1
    DEF AuthInv, AuthTypeOK, TokensFollowUse, CodesStayRedeemable, vars
<1> QED
  BY <1>1, <1>2, <1>3, <1>4, <1>5 DEF Next

\* What requests rely on is true when they act on it, although no lock keeps
\* it so.
THEOREM RequestsRelyOnRows == Spec => []AuthInv
BY AuthInit, AuthStep, PTL DEF Spec

\* Rows, locks and requests have the shape the tables and handlers give them.
THEOREM AuthTypeCorrect == Spec => []AuthTypeOK
BY RequestsRelyOnRows, PTL DEF AuthInv

\* A token obtained with a code is its owner's MCP token, and the code was
\* marked used before: redeem_token creates it after the commit.
THEOREM TokensFollow == Spec => []TokensFollowUse
BY RequestsRelyOnRows, PTL DEF AuthInv

\* No registration takes the redirect of a code away from its client.
THEOREM CodesRedeemable == Spec => []CodesStayRedeemable
BY RequestsRelyOnRows, PTL DEF AuthInv

-----------------------------------------------------------------------------
(* What one step means to a request and to a credential.                   *)

Nowhere == [cred |-> None, verdict |-> "away"]

\* The request moves as Credentials allows a requester to.
MovesAsPromised(t, r) ==
  \/ Visit(r) = Visit(t)
  \/ Visit(r) = Nowhere
  \/ \E c \in Creds : /\ Life(c) # "none"
                      /\ Visit(t) = Nowhere
                      /\ Visit(r) = [cred |-> c, verdict |-> "asked"]
  \/ /\ Visit(t).verdict = "asked"
     /\ Visit(t).cred \in Creds
     /\ Life(Visit(t).cred) = "live"
     /\ Visit(r) = [Visit(t) EXCEPT !.verdict = "admitted"]

\* It takes up no code that is marked used.
TakesUnusedCode(t, r) ==
  r.code \in {t.code, None} \/ ~codes[r.code].used

\* What one step of a request does to the codes and the credentials.
LEMMA RequestStep ==
  ASSUME AuthInv, NEW w \in Workers, Arrive(w) \/ Advance(w) \/ Abort(w)
  PROVE  \E r : /\ Become(w, r)
                /\ MovesAsPromised(req[w], r)
                /\ TakesUnusedCode(req[w], r)
<1> DEFINE t == req[w]
           Goal == \E r : /\ Become(w, r)
                          /\ MovesAsPromised(t, r)
                          /\ TakesUnusedCode(t, r)
<1>0. t \in Requests /\ Sound(t)
  BY DEF AuthInv, AuthTypeOK, RequestsSound
<1>1. ASSUME Become(w, Idle)
      PROVE  Goal
  <2>1. Visit(Idle) = Nowhere /\ Idle.code = None
    BY DEF Visit, Idle, Nowhere
  <2> QED
    BY <1>1, <2>1 DEF MovesAsPromised, TakesUnusedCode
<1>2. ASSUME Arrive(w)
      PROVE  Goal
  <2>1. ASSUME NEW op \in Operations, NEW c \in Creds,
               NEW target \in Creds \cup {None}, Present(w, op, c, target)
        PROVE  Goal
    <3> DEFINE r == [Idle EXCEPT !.pc = "verify", !.op = op, !.cred = c,
                                 !.target = target]
    <3>1. t = Idle /\ Become(w, r) /\ Life(c) # "none"
      BY <2>1 DEF Present, Receive, Life
    <3>2. /\ Visit(t) = Nowhere
          /\ Visit(r) = [cred |-> c, verdict |-> "asked"]
          /\ r.code = None
      BY <3>1 DEF Visit, Idle, Nowhere
    <3> QED
      BY <3>1, <3>2 DEF MovesAsPromised, TakesUnusedCode
  <2>2. ASSUME NEW c \in Creds, NEW client \in Clients,
               NEW redirect \in Redirects,
               StartAuthorize(w, c, client, redirect)
        PROVE  Goal
    <3> DEFINE r == [Idle EXCEPT !.pc = "checkClient", !.op = "authorize",
                       !.cred = c, !.client = client, !.redirect = redirect]
    <3>1. t = Idle /\ Become(w, r) /\ Life(c) # "none"
      BY <2>2 DEF StartAuthorize, Receive, Life
    <3>2. /\ Visit(t) = Nowhere
          /\ Visit(r) = [cred |-> c, verdict |-> "asked"]
          /\ r.code = None
      BY <3>1 DEF Visit, Idle, Nowhere
    <3> QED
      BY <3>1, <3>2 DEF MovesAsPromised, TakesUnusedCode
  <2>3. ASSUME NEW k \in Codes, NEW client \in Clients,
               NEW redirect \in Redirects, ReadCode(w, k, client, redirect)
        PROVE  Goal
    <3> DEFINE r == [Idle EXCEPT !.pc = "lockClient", !.client = client,
                       !.redirect = redirect, !.code = k, !.crow = codes[k]]
    <3>1. Become(w, r) /\ ~codes[k].used
      BY <2>3 DEF ReadCode, Redeemable, Receive
    <3>2. Visit(r) = Nowhere /\ r.code = k
      BY DEF Visit, Idle, Nowhere
    <3> QED
      BY <3>1, <3>2 DEF MovesAsPromised, TakesUnusedCode
  <2>4. ASSUME NEW uris \in SUBSET Redirects, FindClient(w, uris)
        PROVE  Goal
    <3>1. PICK c : Receive(w, [Idle EXCEPT !.pc = "saveClient",
                                           !.client = c, !.uris = uris])
      BY <2>4 DEF FindClient
    <3> DEFINE r == [Idle EXCEPT !.pc = "saveClient", !.client = c,
                                 !.uris = uris]
    <3>2. Visit(r) = Nowhere /\ r.code = None
      BY DEF Visit, Idle, Nowhere
    <3> QED
      BY <3>1, <3>2 DEF Receive, MovesAsPromised, TakesUnusedCode
  <2>5. ASSUME NEW u \in Users, ReadUser(w, u)
        PROVE  Goal
    <3> DEFINE r == [Idle EXCEPT !.pc = "createSession", !.user = u]
    <3>1. Visit(r) = Nowhere /\ r.code = None
      BY DEF Visit, Idle, Nowhere
    <3> QED
      BY <2>5, <3>1 DEF ReadUser, Receive, MovesAsPromised, TakesUnusedCode
  <2> QED
    BY <1>2, <2>1, <2>2, <2>3, <2>4, <2>5 DEF Arrive
<1>3. ASSUME NEW pc, Goto(w, pc),
             Visit([t EXCEPT !.pc = pc]) = Visit(t)
      PROVE  Goal
  <2>1. [t EXCEPT !.pc = pc].code = t.code
    BY <1>0 DEF Requests
  <2> QED
    BY <1>3, <2>1 DEF Goto, MovesAsPromised, TakesUnusedCode
<1>4. CASE CheckClient(w) \/ LockClient(w) \/ RecheckClient(w) \/ SaveUsed(w)
  BY <1>0, <1>1, <1>3, <1>4
  DEF CheckClient, LockClient, RecheckClient, SaveUsed, GetValidatedClient,
      Visit, Requests
<1>5. CASE Verify(w)
  <2>1. CASE Accepts(t, creds[t.cred])
    <3> DEFINE r == [t EXCEPT !.pc = "saveLastUsed", !.row = creds[t.cred]]
    <3>1. Become(w, r) /\ t.pc = "verify"
      BY <1>5, <2>1 DEF Verify
    <3>2. t.cred \in Creds /\ Life(t.cred) = "live"
      BY <1>0, <2>1, <3>1 DEF Sound, Presents, Accepts, Life, Ended
    <3>3. /\ Visit(t) = [cred |-> t.cred, verdict |-> "asked"]
          /\ Visit(r) = [cred |-> t.cred, verdict |-> "admitted"]
          /\ r.code = t.code
      BY <1>0, <3>1 DEF Visit, Requests
    <3>4. /\ Visit(t).verdict = "asked" /\ Visit(t).cred = t.cred
          /\ Visit(r) = [Visit(t) EXCEPT !.verdict = "admitted"]
      BY <3>3
    <3> QED
      BY <3>1, <3>2, <3>3, <3>4 DEF MovesAsPromised, TakesUnusedCode
  <2> QED
    BY <1>1, <1>5, <2>1 DEF Verify
<1>6. CASE SaveLastUsed(w)
  <2>1. CASE t.op \in {"call", "mcp"} \/ t.cred \notin Sessions
    BY <1>1, <1>6, <2>1 DEF SaveLastUsed, AfterVerification
  <2>2. CASE ~(t.op \in {"call", "mcp"} \/ t.cred \notin Sessions)
    <3> DEFINE r == [t EXCEPT !.pc = "act", !.user = t.row.owner,
                              !.row = NoCredRow,
                              !.target = IF t.op = "logout" THEN t.cred ELSE @]
    <3>1. Become(w, r) /\ t.pc = "saveLastUsed"
      BY <1>6, <2>2 DEF SaveLastUsed, AfterVerification
    <3>2. Visit(r) = Visit(t) /\ r.code = t.code
      BY <1>0, <3>1 DEF Visit, Requests
    <3> QED
      BY <3>1, <3>2 DEF MovesAsPromised, TakesUnusedCode
  <2> QED
    BY <2>1, <2>2
<1>7. CASE ReadTarget(w)
  <2>1. CASE MayRevoke(t, creds[t.target])
    <3>1. Goto(w, "saveRevoked") /\ t.pc = "act"
      BY <1>7, <2>1 DEF ReadTarget, Goto
    <3>2. Visit([t EXCEPT !.pc = "saveRevoked"]) = Visit(t)
      BY <1>0, <3>1 DEF Visit, Requests
    <3> QED
      BY <1>3, <3>1, <3>2
  <2> QED
    BY <1>1, <1>7, <2>1 DEF ReadTarget
<1>8. CASE \/ CreatePersonalAccessToken(w) \/ CreateMcpAccessToken(w)
           \/ CreateWebSession(w) \/ SaveRevoked(w) \/ SaveClient(w)
           \/ CreateAuthorizationCode(w) \/ OutOfRows(w) \/ Abort(w)
  BY <1>1, <1>8
  DEF CreatePersonalAccessToken, CreateMcpAccessToken, CreateWebSession,
      Insert, SaveRevoked, SaveClient, CreateAuthorizationCode, OutOfRows,
      Abort
<1> QED
  BY <1>2, <1>4, <1>5, <1>6, <1>7, <1>8 DEF Advance

\* A credential is left alone, issued, or ended; only a redemption issues one
\* that has a code.
LEMMA CredStep ==
  ASSUME AuthInv, [Next]_vars, NEW c \in Creds
  PROVE  \/ creds'[c] = creds[c]
         \/ /\ ~Issued(c) /\ Issued(c)' /\ ~Ended(creds'[c])
            /\ creds'[c].code # None =>
                 \E w \in Workers : CreateMcpAccessToken(w)
         \/ /\ Issued(c) /\ Issued(c)' /\ Ended(creds'[c])
            /\ creds'[c].code = creds[c].code
<1> USE DEF AuthInv, AuthTypeOK
<1> DEFINE Goal == \/ creds'[c] = creds[c]
                   \/ /\ ~Issued(c) /\ Issued(c)' /\ ~Ended(creds'[c])
                      /\ creds'[c].code # None =>
                           \E w \in Workers : CreateMcpAccessToken(w)
                   \/ /\ Issued(c) /\ Issued(c)' /\ Ended(creds'[c])
                      /\ creds'[c].code = creds[c].code
<1>1. ASSUME NEW w, NEW table, NEW row, Insert(w, table, row),
             row # NoCredRow, ~row.revoked, ~row.expired,
             row.code # None => \E v \in Workers : CreateMcpAccessToken(v)
      PROVE  Goal
  BY <1>1 DEF Insert, Issued, Ended
<1>2. ASSUME NEW d \in Creds, Issued(d),
             \/ creds' = [creds EXCEPT ![d].revoked = TRUE]
             \/ creds' = [creds EXCEPT ![d].expired = TRUE]
      PROVE  Goal
  <2>1. creds[d] \in CredRows /\ creds[d] # NoCredRow
    BY <1>2 DEF Issued
  <2>2. CASE creds' = [creds EXCEPT ![d].revoked = TRUE]
    BY <2>1, <2>2 DEF CredRows, NoCredRow, Issued, Ended
  <2>3. CASE creds' = [creds EXCEPT ![d].expired = TRUE]
    BY <2>1, <2>3 DEF CredRows, NoCredRow, Issued, Ended
  <2> QED
    BY <1>2, <2>2, <2>3
<1>3. CASE Outside
  BY <1>2, <1>3 DEF Outside, Expire, OperatorRevokes, ExpireCode, Deactivate,
                    Reactivate
<1>4. ASSUME NEW w \in Workers, Arrive(w) \/ Advance(w) \/ Abort(w)
      PROVE  Goal
  <2>0. req[w] \in Requests /\ Sound(req[w])
    BY DEF RequestsSound
  <2>1. CASE CreatePersonalAccessToken(w)
    <3>1. PICK hasMcp \in BOOLEAN :
            Insert(w, Tokens, TokenRow(req[w].user, hasMcp, None))
      BY <2>1 DEF CreatePersonalAccessToken
    <3>2. req[w].user \in Users
      BY <2>0, <2>1 DEF CreatePersonalAccessToken, Sound, Acts
    <3> DEFINE row == TokenRow(req[w].user, hasMcp, None)
    <3>3. row # NoCredRow /\ ~row.revoked /\ ~row.expired /\ row.code = None
      BY <3>2, AuthAssumption DEF TokenRow, NoCredRow
    <3> QED
      BY <1>1, <3>1, <3>3
  <2>2. CASE CreateMcpAccessToken(w)
    <3>1. /\ req[w].code \in Codes
          /\ codes[req[w].code] # NoCodeRow
          /\ req[w].crow.owner = codes[req[w].code].owner
      BY <2>0, <2>2 DEF CreateMcpAccessToken, Sound, Redeems, Redeeming
    <3>2. req[w].crow.owner \in Users
      BY <3>1 DEF CodeRows
    <3> DEFINE row == TokenRow(req[w].crow.owner, TRUE, req[w].code)
    <3>3. row # NoCredRow /\ ~row.revoked /\ ~row.expired
      BY <3>2, AuthAssumption DEF TokenRow, NoCredRow
    <3> QED
      BY <1>1, <2>2, <3>3 DEF CreateMcpAccessToken
  <2>3. CASE CreateWebSession(w)
    <3>1. req[w].user \in Users
      BY <2>0, <2>3 DEF CreateWebSession, Sound, Acts
    <3> QED
      BY <1>1, <2>3, <3>1, AuthAssumption
      DEF CreateWebSession, SessionRow, NoCredRow
  <2>4. CASE SaveRevoked(w)
    BY <1>2, <2>0, <2>4 DEF SaveRevoked, Sound, Acts
  <2> QED
    BY <1>4, <2>1, <2>2, <2>3, <2>4
    DEF Arrive, Present, StartAuthorize, ReadCode, FindClient, ReadUser,
        Receive, Advance, CheckClient, Verify, SaveLastUsed, ReadTarget,
        CreateAuthorizationCode, LockClient, SaveUsed, RecheckClient,
        SaveClient, OutOfRows, Abort, Reading
<1> QED
  BY <1>3, <1>4 DEF Next, vars

-----------------------------------------------------------------------------
(* What used_at guarantees.                                                *)

\* A step of another kind than the insert of a code's token adds nobody.
LEMMA NobodyJoins ==
  ASSUME AuthInv, [Next]_vars, NEW k \in Codes, codes[k].used,
         ~ \E w \in Workers : CreateMcpAccessToken(w)
  PROVE  Redeemers(k)' \subseteq Redeemers(k)
<1>1. ASSUME NEW c \in Creds, creds'[c].code = k
      PROVE  creds[c].code = k
  BY <1>1, CredStep, AuthAssumption
<1>2. ASSUME NEW v \in Workers, req'[v].code = k
      PROVE  req[v].code = k
  <2>1. CASE req' = req
    BY <1>2, <2>1
  <2>2. ASSUME NEW w \in Workers, Arrive(w) \/ Advance(w) \/ Abort(w)
        PROVE  req[v].code = k
    <3>1. PICK r : Become(w, r) /\ TakesUnusedCode(req[w], r)
      BY <2>2, RequestStep
    <3> QED
      BY <1>2, <3>1, AuthAssumption
      DEF Become, TakesUnusedCode, AuthInv, AuthTypeOK
  <2>3. Outside => req' = req
    BY OutsideKeeps
  <2> QED
    BY <2>1, <2>2, <2>3 DEF Next, vars
<1> QED
  BY <1>1, <1>2 DEF Redeemers

\* The insert of a code's token replaces the request by the token.
LEMMA TokenReplacesRequest ==
  ASSUME AuthInv, NEW k \in Codes, NEW w \in Workers, CreateMcpAccessToken(w)
  PROVE  \/ Redeemers(k)' \subseteq Redeemers(k)
         \/ /\ w \in Redeemers(k)
            /\ \E c \in Creds :
                 Redeemers(k)' \subseteq (Redeemers(k) \ {w}) \cup {c}
<1> DEFINE row == TokenRow(req[w].crow.owner, TRUE, req[w].code)
<1>1. PICK c \in Creds : creds' = [creds EXCEPT ![c] = row]
  BY DEF CreateMcpAccessToken, Insert, Creds
<1>2. row.code = req[w].code
  BY DEF TokenRow, NoCredRow
<1>3. req' = [req EXCEPT ![w] = Idle] /\ Idle.code = None
  BY DEF CreateMcpAccessToken, Insert, Become, Idle
<1>4. /\ \A d \in Creds : d # c => creds'[d] = creds[d]
      /\ creds'[c] = row
      /\ \A v \in Workers : v # w => req'[v] = req[v]
      /\ req'[w] = Idle
  BY <1>1, <1>3 DEF AuthInv, AuthTypeOK
<1>5. w \notin Creds /\ k # None
  BY AuthAssumption
<1>6. CASE req[w].code = k
  BY <1>2, <1>3, <1>4, <1>5, <1>6 DEF Redeemers
<1>7. CASE req[w].code # k
  BY <1>2, <1>3, <1>4, <1>5, <1>7 DEF Redeemers
<1> QED
  BY <1>6, <1>7

\* A code that is marked used admits nobody: the tokens it may still yield
\* are those of the requests that had read it before.
THEOREM UsedCodes == Spec => UsedCodeAdmitsNobody
<1>1. ASSUME AuthInv, [Next]_vars, NEW k \in Codes, codes[k].used
      PROVE  Cardinality(Redeemers(k)') <= Cardinality(Redeemers(k))
  <2> DEFINE R == Redeemers(k)
             S == Redeemers(k)'
  <2>1. IsFiniteSet(R)
    <3>1. Redeemers(k) \in SUBSET (Creds \cup Workers)
      BY DEF Redeemers
    <3> QED
      BY <3>1, AuthAssumption, FS_Union, FS_Subset
  <2>2. CASE S \subseteq R
    BY <2>1, <2>2, FS_Subset
  <2>3. ASSUME NEW w \in R, NEW c, S \subseteq (R \ {w}) \cup {c}
        PROVE  Cardinality(S) <= Cardinality(R)
    <3> DEFINE T == R \ {w}
    <3>1. /\ IsFiniteSet(T) /\ Cardinality(T) = Cardinality(R) - 1
          /\ Cardinality(R) \in Nat
      BY <2>1, FS_RemoveElement, FS_CardinalityType
    <3>2. /\ IsFiniteSet(T \cup {c})
          /\ Cardinality(T \cup {c}) \in Nat
          /\ Cardinality(T \cup {c}) <= Cardinality(R)
      <4>1. /\ IsFiniteSet(T \cup {c})
            /\ Cardinality(T \cup {c}) =
                 IF c \in T THEN Cardinality(T) ELSE Cardinality(T) + 1
        BY <3>1, FS_AddElement
      <4>2. Cardinality(T \cup {c}) \in Nat
        BY <4>1, FS_CardinalityType
      <4> HIDE DEF R, T
      <4> QED
        BY <3>1, <4>1, <4>2
    <3>3. Cardinality(S) \in Nat /\ Cardinality(S) <= Cardinality(T \cup {c})
      BY <2>3, <3>2, FS_Subset, FS_CardinalityType
    <3> HIDE DEF R, S, T
    <3> QED
      BY <3>1, <3>2, <3>3
  <2>4. ASSUME NEW w \in Workers, CreateMcpAccessToken(w)
        PROVE  Cardinality(S) <= Cardinality(R)
    BY <1>1, <2>2, <2>3, <2>4, TokenReplacesRequest
  <2> QED
    BY <1>1, <2>2, <2>4, NobodyJoins
<1>2. AuthInv /\ [Next]_vars =>
        [\A k \in Codes : codes[k].used =>
           Cardinality(Redeemers(k)') <= Cardinality(Redeemers(k))]_vars
  BY <1>1
<1> QED
  BY <1>2, RequestsRelyOnRows, PTL DEF Spec, UsedCodeAdmitsNobody

-----------------------------------------------------------------------------
(* The abstract specification.                                             *)

\* A credential lives once.
LEMMA LifeStep ==
  ASSUME AuthInv, [Next]_vars, NEW c \in Creds
  PROVE  \/ Life(c)' = Life(c)
         \/ Life(c) = "none" /\ Life(c)' \in {"live", "suspended"}
         \/ Life(c) = "live" /\ Life(c)' \in {"suspended", "ended"}
         \/ Life(c) = "suspended" /\ Life(c)' \in {"live", "ended"}
BY CredStep DEF Life, Issued, Ended

\* A requester asks, is admitted by one look at a live credential, or leaves.
LEMMA VisitStep ==
  ASSUME AuthInv, [Next]_vars, NEW v \in Workers
  PROVE  MovesAsPromised(req[v], req'[v])
<1>1. ASSUME req'[v] = req[v]
      PROVE  MovesAsPromised(req[v], req'[v])
  BY <1>1 DEF MovesAsPromised
<1>2. ASSUME NEW w \in Workers, Arrive(w) \/ Advance(w) \/ Abort(w)
      PROVE  MovesAsPromised(req[v], req'[v])
  <2>1. PICK r : Become(w, r) /\ MovesAsPromised(req[w], r)
    BY <1>2, RequestStep
  <2>2. req'[v] = IF v = w THEN r ELSE req[v]
    BY <2>1 DEF Become, AuthInv, AuthTypeOK
  <2> QED
    BY <1>1, <2>1, <2>2
<1>3. Outside => req' = req
  BY OutsideKeeps
<1> QED
  BY <1>1, <1>2, <1>3 DEF Next, vars

\* Sessions and tokens keep the promise of Credentials: an ended credential
\* stays ended, and a request is admitted by one look at a live one, taken
\* after it arrived.
THEOREM ImplementsCredentials == Spec => CredentialSpec
<1>1. Init => Promise!Init
  BY DEF Init, Promise!Init, Promise!Away, Life, Issued, Visit, Idle
<1>2. ASSUME AuthInv, [Next]_vars
      PROVE  Promise!Next
  <2>1. \A c \in Creds :
          [x \in Creds |-> Life(x)]'[c] = [x \in Creds |-> Life(x)][c]
            \/ Promise!LifeStep(c)
    BY <1>2, LifeStep DEF Promise!LifeStep
  <2>2. ASSUME NEW v \in Workers
        PROVE  [x \in Workers |-> Visit(req[x])]'[v] =
                 [x \in Workers |-> Visit(req[x])][v]
               \/ Promise!Ask(v) \/ Promise!Admit(v) \/ Promise!Leave(v)
    BY <1>2, VisitStep
    DEF MovesAsPromised, Nowhere, Promise!Ask, Promise!Admit, Promise!Leave,
        Promise!Away
  <2> QED
    BY <2>1, <2>2 DEF Promise!Next
<1>3. AuthInv /\ [Next]_vars =>
        [Promise!Next]_<<[c \in Creds |-> Life(c)],
                         [w \in Workers |-> Visit(req[w])]>>
  BY <1>2
<1> QED
  BY <1>1, <1>3, RequestsRelyOnRows, PTL
  DEF Spec, CredentialSpec, Promise!Spec
=============================================================================
