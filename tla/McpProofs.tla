----------------------------- MODULE McpProofs -----------------------------
(***************************************************************************)
(* What the parts behind the MCP endpoint promise together, as MCMcp       *)
(* composes them, for any sets of requests, rows, clients and processes.   *)
(* The first parts prove what McpSessions and Retrieval promise;           *)
(* BatchSaveProofs and ListingsProofs prove the same of the others, and    *)
(* the last part shows that in MCMcp each keeps to its specification.      *)
(*                                                                         *)
(* The middleware of McpSessions reads its map, waits, and reads and       *)
(* writes it again, so what the map holds says nothing of what it held.    *)
(* What lasts is who was answered with an id: the ids of a map, and those  *)
(* it gave to requests on their way, are among them (SessionInv).          *)
(*                                                                         *)
(* A search reads twice and ranks what it has read.  What lasts is that a  *)
(* memory nobody wrote is among what was read, unless enough stood before  *)
(* it, and those are written or still before it (SearchInv); and that of a *)
(* ranking cut off at n, what is left out has n before it (FirstFills).    *)
(***************************************************************************)
EXTENDS MCMcp, FiniteSetTheorems, WellFoundedInduction, TLAPS

\* Requests before and after the library has answered.
Waiting ==
  [pc : {"body", "call_next"}, process : Processes, client : Sessions!McpClients,
   method : {"initialize", "call", "get", "delete"}, id : Sessions!Ids, injected : BOOLEAN]
Answering ==
  [pc : {"answered"}, process : Processes, client : Sessions!McpClients, id : Sessions!Ids,
   notFound : BOOLEAN]

TablesOK ==
  /\ remembered \in [Processes -> [Sessions!McpClients -> Sessions!Ids]]
  /\ live \in [Processes -> SUBSET SessionIds]
  /\ answered \in [Processes -> [Sessions!McpClients -> SUBSET SessionIds]]
  /\ given \subseteq SessionIds
  /\ request \in [Workers -> {Sessions!NoRequest} \cup Waiting \cup Answering]

\* A map holds ids its process has answered the client with.
MapsSound ==
  \A p \in Processes, c \in Sessions!McpClients :
    remembered[p][c] # NoId => remembered[p][c] \in answered[p][c]

\* So does r, on its way to the library, if its id is from a map.  The table
\* is an argument.
Carries(r, answers) == r.injected => r.id \in answers[r.process][r.client]

CarriedSound ==
  \A w \in Workers : request[w] \in Waiting => Carries(request[w], answered)

\* The inductive invariant.
SessionInv == TablesOK /\ MapsSound /\ CarriedSound

-----------------------------------------------------------------------------
(* What the actions rely on.                                               *)

\* Maps are kept by client.
LEMMA KeysAreClients == {Sessions!ClientKey(c) : c \in Sessions!McpClients} = Sessions!McpClients
BY DEF Sessions!ClientKey

\* The place of a request tells what it holds.
LEMMA Held ==
  ASSUME TablesOK, NEW w \in Workers
  PROVE  /\ request[w].pc = "idle" <=> request[w] = Sessions!NoRequest
         /\ request[w].pc \in {"body", "call_next"} <=> request[w] \in Waiting
         /\ request[w].pc = "answered" <=> request[w] \in Answering
<1>1. request[w] \in {Sessions!NoRequest} \cup Waiting \cup Answering
  BY DEF TablesOK
<1>2. Sessions!NoRequest.pc = "idle"
  BY DEF Sessions!NoRequest
<1>3. \A r \in Waiting : r.pc \in {"body", "call_next"}
  BY DEF Waiting
<1>4. \A r \in Answering : r.pc = "answered"
  BY DEF Answering
<1> QED
  BY <1>1, <1>2, <1>3, <1>4

\* The fields of a request on its way to the library.
LEMMA WaitingFields ==
  ASSUME NEW r \in Waiting
  PROVE  /\ r.process \in Processes /\ r.client \in Sessions!McpClients /\ r.id \in Sessions!Ids
         /\ r.method \in {"initialize", "call", "get", "delete"}
         /\ r.injected \in BOOLEAN
BY DEF Waiting

\* The fields of a request that was answered.
LEMMA AnsweringFields ==
  ASSUME NEW r \in Answering
  PROVE  r.process \in Processes /\ r.client \in Sessions!McpClients /\ r.id \in Sessions!Ids
BY DEF Answering

\* Where one request changes, the others stay.
LEMMA OthersStay ==
  ASSUME TablesOK, NEW w \in Workers, NEW r,
         request' = [request EXCEPT ![w] = r]
  PROVE  /\ request'[w] = r
         /\ \A v \in Workers \ {w} : request'[v] = request[v]
         /\ r \in {Sessions!NoRequest} \cup Waiting \cup Answering =>
              request' \in [Workers -> {Sessions!NoRequest} \cup Waiting \cup Answering]
BY DEF TablesOK

\* A request that waits again, with an id it may carry, is sound where the
\* table stays; one that is answered or over disturbs nobody.
LEMMA GoesOn ==
  ASSUME SessionInv, NEW w \in Workers,
         NEW r \in {Sessions!NoRequest} \cup Waiting \cup Answering,
         request' = [request EXCEPT ![w] = r],
         r \in Waiting => Carries(r, answered), UNCHANGED answered
  PROVE  CarriedSound'
<1>1. request'[w] = r /\ \A v \in Workers \ {w} : request'[v] = request[v]
  BY OthersStay DEF SessionInv
<1>2. ASSUME NEW v \in Workers, request'[v] \in Waiting
      PROVE  Carries(request'[v], answered)
  BY <1>1, <1>2 DEF SessionInv, CarriedSound
<1> QED
  BY <1>2 DEF CarriedSound

-----------------------------------------------------------------------------
(* The actions keep the invariant.                                         *)

LEMMA InitSound ==
  ASSUME Sessions!Init
  PROVE  SessionInv
<1> USE DEF Sessions!Init
<1>1. TablesOK
  BY KeysAreClients DEF TablesOK, Sessions!Ids
<1>2. MapsSound
  BY KeysAreClients DEF MapsSound
<1>3. \A w \in Workers : request[w] \notin Waiting /\ request[w] \notin Answering
  BY DEF Sessions!NoRequest, Waiting, Answering
<1>4. CarriedSound
  BY <1>3 DEF CarriedSound
<1> QED
  BY <1>1, <1>2, <1>4 DEF SessionInv

LEMMA ReceiveSound ==
  ASSUME SessionInv, NEW w \in Workers, Sessions!Receive(w)
  PROVE  SessionInv'
<1>1. UNCHANGED <<remembered, live, answered, given>>
  BY DEF Sessions!Receive
<1>2. PICK p \in Processes, c \in Sessions!McpClients,
           method \in {"initialize", "call", "get", "delete"} :
      \E own \in given \cup {NoId} :
        LET id == IF own # NoId THEN own ELSE remembered[p][c]
        IN request' = [request EXCEPT ![w] =
             IF method = "get" /\ id = NoId THEN Sessions!NoRequest
             ELSE [pc |-> IF method \in {"initialize", "call"} /\ id = NoId
                          THEN "body" ELSE "call_next",
                   process |-> p, client |-> c, id |-> id,
                   method |-> IF id # NoId /\ method # "delete" THEN "call"
                              ELSE method,
                   injected |-> own = NoId /\ id # NoId]]
  BY DEF Sessions!Receive, Sessions!ClientKey
<1>3. PICK own \in given \cup {NoId} :
        LET id == IF own # NoId THEN own ELSE remembered[p][c]
        IN request' = [request EXCEPT ![w] =
             IF method = "get" /\ id = NoId THEN Sessions!NoRequest
             ELSE [pc |-> IF method \in {"initialize", "call"} /\ id = NoId
                          THEN "body" ELSE "call_next",
                   process |-> p, client |-> c, id |-> id,
                   method |-> IF id # NoId /\ method # "delete" THEN "call"
                              ELSE method,
                   injected |-> own = NoId /\ id # NoId]]
  BY <1>2
<1> DEFINE id == IF own # NoId THEN own ELSE remembered[p][c]
           next == [pc |-> IF method \in {"initialize", "call"} /\ id = NoId
                          THEN "body" ELSE "call_next",
                    process |-> p, client |-> c, id |-> id,
                    method |-> IF id # NoId /\ method # "delete" THEN "call"
                               ELSE method,
                    injected |-> own = NoId /\ id # NoId]
<1>4. request' = [request EXCEPT ![w] = IF method = "get" /\ id = NoId THEN Sessions!NoRequest ELSE next]
  BY <1>3
<1>5. id \in Sessions!Ids
  BY DEF SessionInv, TablesOK, Sessions!Ids
<1>6. next \in Waiting
  BY <1>5 DEF Waiting
<1>7. own = NoId /\ id # NoId => id \in answered[p][c]
  BY DEF SessionInv, MapsSound
<1>8. next.process = p /\ next.client = c /\ next.id = id
      /\ next.injected = (own = NoId /\ id # NoId)
  OBVIOUS
<1>9. Carries(next, answered)
  BY <1>7, <1>8 DEF Carries
<1>10. TablesOK /\ MapsSound
  BY DEF SessionInv
<1> HIDE DEF id, next
<1>11. ASSUME NEW r \in {Sessions!NoRequest} \cup Waiting, r \in Waiting => Carries(r, answered),
              request' = [request EXCEPT ![w] = r]
       PROVE  SessionInv'
  <2>1. CarriedSound'
    BY <1>1, <1>11, GoesOn
  <2>2. TablesOK' /\ MapsSound'
    BY <1>1, <1>10, <1>11, OthersStay DEF TablesOK, MapsSound
  <2> QED
    BY <2>1, <2>2 DEF SessionInv
<1>12. Sessions!NoRequest \notin Waiting
  BY DEF Sessions!NoRequest, Waiting
<1> QED
  BY <1>4, <1>6, <1>9, <1>11, <1>12

LEMMA ReadBodySound ==
  ASSUME SessionInv, NEW w \in Workers, Sessions!ReadBody(w)
  PROVE  SessionInv'
<1> DEFINE r == request[w]
           stale == remembered[r.process][r.client]
<1>0. TablesOK /\ MapsSound
  BY DEF SessionInv
<1>1. r.pc = "body" /\ UNCHANGED <<live, answered, given>>
  BY DEF Sessions!ReadBody
<1>2. r \in Waiting
  BY <1>0, <1>1, Held
<1>3. r.process \in Processes /\ r.client \in Sessions!McpClients
  BY <1>2, WaitingFields
<1>4. stale \in Sessions!Ids
  BY <1>0, <1>3 DEF TablesOK
<1>5. CASE r.method = "call" /\ stale # NoId
  <2> DEFINE next == [r EXCEPT !.pc = "call_next", !.id = stale, !.injected = TRUE]
  <2>1. remembered' = [remembered EXCEPT ![r.process][r.client] = NoId]
        /\ request' = [request EXCEPT ![w] = next]
    BY <1>5 DEF Sessions!ReadBody, Sessions!ClientKey
  <2>2. next \in Waiting
    BY <1>2, <1>4 DEF Waiting
  <2>3. next.process = r.process /\ next.client = r.client /\ next.id = stale
    BY <1>2 DEF Waiting
  <2>4. stale \in answered[r.process][r.client]
    BY <1>0, <1>3, <1>5 DEF MapsSound
  <2>5. Carries(next, answered)
    BY <2>3, <2>4 DEF Carries
  <2> HIDE DEF next
  <2>6. CarriedSound'
    BY <1>1, <2>1, <2>2, <2>5, GoesOn
  <2> HIDE DEF r
  <2>7. \A p \in Processes, c \in Sessions!McpClients :
          remembered'[p][c] = IF p = r.process /\ c = r.client THEN NoId
                              ELSE remembered[p][c]
    BY <1>0, <1>3, <2>1 DEF TablesOK
  <2>8. remembered' \in [Processes -> [Sessions!McpClients -> Sessions!Ids]]
    BY <1>0, <1>3, <2>1 DEF TablesOK, Sessions!Ids
  <2>9. TablesOK'
    BY <1>0, <1>1, <2>1, <2>2, <2>8, OthersStay DEF TablesOK
  <2>10. MapsSound'
    BY <1>0, <1>1, <2>7 DEF MapsSound
  <2> QED
    BY <2>6, <2>9, <2>10 DEF SessionInv
<1>6. CASE ~(r.method = "call" /\ stale # NoId)
  <2> DEFINE next == [r EXCEPT !.pc = "call_next"]
  <2>1. UNCHANGED remembered /\ request' = [request EXCEPT ![w].pc = "call_next"]
    BY <1>6 DEF Sessions!ReadBody, Sessions!ClientKey
  <2>2. request' = [request EXCEPT ![w] = next]
    BY <2>1
  <2>3. next \in Waiting
    BY <1>2 DEF Waiting
  <2>4. next.process = r.process /\ next.client = r.client /\ next.id = r.id
        /\ next.injected = r.injected
    BY <1>2 DEF Waiting
  <2>5. Carries(r, answered)
    BY <1>2 DEF SessionInv, CarriedSound
  <2>6. Carries(next, answered)
    BY <2>4, <2>5 DEF Carries
  <2> HIDE DEF next
  <2>7. CarriedSound'
    BY <1>1, <2>2, <2>3, <2>6, GoesOn
  <2>8. TablesOK' /\ MapsSound'
    BY <1>0, <1>1, <2>1, <2>2, <2>3, OthersStay DEF TablesOK, MapsSound
  <2> QED
    BY <2>7, <2>8 DEF SessionInv
<1> QED
  BY <1>5, <1>6

\* The map and the history of answers are written together.
LEMMA RespondSound ==
  ASSUME SessionInv, NEW w \in Workers, Sessions!Respond(w)
  PROVE  SessionInv'
<1> DEFINE r == request[w]
           ids == answered[r.process][r.client] \cup (IF r.id # NoId THEN {r.id} ELSE {})
           new == IF r.id # NoId THEN r.id
                  ELSE IF r.notFound THEN NoId ELSE remembered[r.process][r.client]
<1>0. TablesOK /\ MapsSound /\ CarriedSound
  BY DEF SessionInv
<1>1. r \in Answering
  BY <1>0, Held DEF Sessions!Respond
<1>2. r.process \in Processes /\ r.client \in Sessions!McpClients /\ r.id \in Sessions!Ids
  BY <1>1, AnsweringFields
<1>3. request' = [request EXCEPT ![w] = Sessions!NoRequest] /\ UNCHANGED live
  BY DEF Sessions!Respond
<1>4. remembered' = [remembered EXCEPT ![r.process][r.client] = new]
  BY <1>0, <1>2 DEF Sessions!Respond, Sessions!ClientKey, TablesOK
<1>5. answered' = [answered EXCEPT ![r.process][r.client] = ids]
  BY <1>0, <1>2 DEF Sessions!Respond, TablesOK
<1>6. given' \subseteq SessionIds
  BY <1>0, <1>2 DEF Sessions!Respond, Sessions!Ids, TablesOK
<1>7. request' \in [Workers -> {Sessions!NoRequest} \cup Waiting \cup Answering]
      /\ \A v \in Workers : request'[v] \in {Sessions!NoRequest, request[v]}
  BY <1>0, <1>3, OthersStay
<1>8. /\ ids \in SUBSET SessionIds
      /\ new \in Sessions!Ids
      /\ answered[r.process][r.client] \subseteq ids
      /\ new # NoId => new \in ids
  BY <1>0, <1>2 DEF TablesOK, MapsSound, Sessions!Ids
<1> HIDE DEF r, ids, new
<1>9. /\ remembered' \in [Processes -> [Sessions!McpClients -> Sessions!Ids]]
      /\ \A p \in Processes, c \in Sessions!McpClients :
           remembered'[p][c] = IF p = r.process /\ c = r.client THEN new ELSE remembered[p][c]
  BY <1>0, <1>2, <1>4, <1>8 DEF TablesOK
<1> DEFINE row == [answered[r.process] EXCEPT ![r.client] = ids]
<1>10. /\ row \in [Sessions!McpClients -> SUBSET SessionIds]
       /\ \A c \in Sessions!McpClients :
            row[c] = IF c = r.client THEN ids ELSE answered[r.process][c]
  BY <1>0, <1>2, <1>8 DEF TablesOK
<1>11. answered' = [answered EXCEPT ![r.process] = row]
  BY <1>5
<1> HIDE DEF row
<1>12. /\ answered' \in [Processes -> [Sessions!McpClients -> SUBSET SessionIds]]
       /\ \A p \in Processes : answered'[p] = IF p = r.process THEN row ELSE answered[p]
  BY <1>0, <1>2, <1>10, <1>11 DEF TablesOK
<1>13. \A p \in Processes, c \in Sessions!McpClients :
         /\ answered'[p][c] = IF p = r.process /\ c = r.client THEN ids ELSE answered[p][c]
         /\ answered[p][c] \subseteq answered'[p][c]
  BY <1>8, <1>10, <1>12
<1>14. TablesOK'
  BY <1>0, <1>3, <1>6, <1>7, <1>9, <1>12 DEF TablesOK
<1>15. MapsSound'
  BY <1>0, <1>8, <1>9, <1>13 DEF MapsSound
<1>16. CarriedSound'
  <2>1. ASSUME NEW v \in Workers, request'[v] \in Waiting
        PROVE  Carries(request'[v], answered')
    <3>1. request'[v] = request[v]
      BY <1>7, <2>1 DEF Waiting, Sessions!NoRequest
    <3>2. request[v].process \in Processes /\ request[v].client \in Sessions!McpClients
      BY <2>1, <3>1, WaitingFields
    <3>3. Carries(request[v], answered)
      BY <1>0, <2>1, <3>1 DEF CarriedSound
    <3> QED
      BY <1>13, <3>1, <3>2, <3>3 DEF Carries
  <2> QED
    BY <2>1 DEF CarriedSound
<1> QED
  BY <1>14, <1>15, <1>16 DEF SessionInv

\* The library answers, and nothing but its sessions changes.
LEMMA LibrarySound ==
  ASSUME SessionInv, NEW w \in Workers, request[w] \in Waiting,
         NEW id \in Sessions!Ids, NEW notFound \in BOOLEAN, Sessions!Reply(w, id, notFound),
         UNCHANGED <<remembered, answered, given>>,
         live' \in [Processes -> SUBSET SessionIds]
  PROVE  SessionInv'
<1> DEFINE r == [pc |-> "answered", process |-> request[w].process,
                client |-> request[w].client, id |-> id, notFound |-> notFound]
<1>1. request[w].process \in Processes /\ request[w].client \in Sessions!McpClients
  BY WaitingFields
<1>2. r \in Answering /\ r \notin Waiting
  BY <1>1 DEF Answering, Waiting
<1>3. request' = [request EXCEPT ![w] = r]
  BY DEF Sessions!Reply
<1> HIDE DEF r
<1>4. CarriedSound'
  BY <1>2, <1>3, GoesOn
<1>5. TablesOK' /\ MapsSound'
  BY <1>2, <1>3, OthersStay DEF SessionInv, TablesOK, MapsSound
<1> QED
  BY <1>4, <1>5 DEF SessionInv

LEMMA ServeSessionSound ==
  ASSUME SessionInv, NEW w \in Workers, Sessions!ServeSession(w)
  PROVE  SessionInv'
<1>1. request[w] \in Waiting
  BY Held DEF SessionInv, Sessions!ServeSession
<1>2. request[w].process \in Processes /\ request[w].id \in Sessions!Ids
  BY <1>1, WaitingFields
<1>3. live' \in [Processes -> SUBSET SessionIds]
  BY <1>2 DEF Sessions!ServeSession, SessionInv, TablesOK
<1> QED
  BY <1>1, <1>2, <1>3, LibrarySound DEF Sessions!ServeSession

LEMMA OpenSessionSound ==
  ASSUME SessionInv, NEW w \in Workers, Sessions!OpenSession(w)
  PROVE  SessionInv'
<1>1. request[w] \in Waiting
  BY Held DEF SessionInv, Sessions!OpenSession
<1>2. request[w].process \in Processes
  BY <1>1, WaitingFields
<1>3. PICK id \in SessionIds :
        /\ live' = [live EXCEPT ![request[w].process] = @ \cup {id}]
        /\ Sessions!Reply(w, id, FALSE)
  BY DEF Sessions!OpenSession
<1>4. id \in Sessions!Ids
  BY DEF Sessions!Ids
<1>5. live' \in [Processes -> SUBSET SessionIds]
  BY <1>2, <1>3 DEF SessionInv, TablesOK
<1> QED
  BY <1>1, <1>3, <1>4, <1>5, LibrarySound DEF Sessions!OpenSession

LEMMA RefuseSound ==
  ASSUME SessionInv, NEW w \in Workers, Sessions!Refuse(w)
  PROVE  SessionInv'
<1> DEFINE unknown == request[w].id # NoId
<1>1. request[w] \in Waiting
  BY Held DEF SessionInv, Sessions!Refuse
<1>2. NoId \in Sessions!Ids /\ unknown \in BOOLEAN /\ Sessions!Reply(w, NoId, unknown)
  BY DEF Sessions!Refuse, Sessions!Ids
<1> HIDE DEF unknown
<1> QED
  BY <1>1, <1>2, LibrarySound DEF Sessions!Refuse, SessionInv, TablesOK

LEMMA DisconnectSound ==
  ASSUME SessionInv, NEW w \in Workers, Sessions!Disconnect(w)
  PROVE  SessionInv'
<1>1. request' = [request EXCEPT ![w] = Sessions!NoRequest]
      /\ UNCHANGED <<remembered, live, answered, given>>
  BY DEF Sessions!Disconnect
<1>2. Sessions!NoRequest \notin Waiting
  BY DEF Sessions!NoRequest, Waiting
<1>3. CarriedSound'
  BY <1>1, <1>2, GoesOn
<1>4. TablesOK' /\ MapsSound'
  BY <1>1, OthersStay DEF SessionInv, TablesOK, MapsSound
<1> QED
  BY <1>3, <1>4 DEF SessionInv

\* A restart forgets the answers of a process together with its map and its
\* requests.
LEMMA RestartSound ==
  ASSUME SessionInv, NEW p \in Processes, Sessions!Restart(p)
  PROVE  SessionInv'
<1>0. TablesOK /\ MapsSound /\ CarriedSound
  BY DEF SessionInv
<1>1. /\ remembered' = [remembered EXCEPT ![p] = [k \in Sessions!McpClients |-> NoId]]
      /\ live' = [live EXCEPT ![p] = {}]
      /\ answered' = [answered EXCEPT ![p] = [c \in Sessions!McpClients |-> {}]]
      /\ given' = given
  BY KeysAreClients DEF Sessions!Restart
<1>2. request' = [w \in Workers |->
        IF request[w].pc # "idle" /\ request[w].process = p
        THEN Sessions!NoRequest ELSE request[w]]
  BY DEF Sessions!Restart
<1>3. ASSUME NEW w \in Workers, request'[w] \in Waiting
      PROVE  request'[w] = request[w] /\ request[w].process # p
  <2>1. request'[w] # Sessions!NoRequest
    BY <1>3 DEF Sessions!NoRequest, Waiting
  <2>2. request'[w] = request[w]
    BY <1>2, <2>1
  <2>3. request[w].pc # "idle"
    BY <1>0, <2>1, <2>2, Held
  <2> QED
    BY <1>2, <2>1, <2>2, <2>3
<1>4. TablesOK'
  <2>1. remembered' \in [Processes -> [Sessions!McpClients -> Sessions!Ids]]
    BY <1>0, <1>1 DEF TablesOK, Sessions!Ids
  <2>2. /\ live' \in [Processes -> SUBSET SessionIds]
        /\ answered' \in [Processes -> [Sessions!McpClients -> SUBSET SessionIds]]
    BY <1>0, <1>1 DEF TablesOK
  <2>3. request' \in [Workers -> {Sessions!NoRequest} \cup Waiting \cup Answering]
    BY <1>0, <1>2 DEF TablesOK
  <2> QED
    BY <1>0, <1>1, <2>1, <2>2, <2>3 DEF TablesOK
<1>5. MapsSound'
  <2>1. \A q \in Processes \ {p} : remembered'[q] = remembered[q] /\ answered'[q] = answered[q]
    BY <1>0, <1>1 DEF TablesOK
  <2>2. \A c \in Sessions!McpClients : remembered'[p][c] = NoId
    BY <1>0, <1>1 DEF TablesOK
  <2> QED
    BY <1>0, <2>1, <2>2 DEF MapsSound
<1>6. CarriedSound'
  <2>1. ASSUME NEW w \in Workers, request'[w] \in Waiting
        PROVE  Carries(request'[w], answered')
    <3>1. request'[w] = request[w] /\ request[w].process # p
      BY <1>3, <2>1
    <3>2. request[w].process \in Processes
      BY <2>1, <3>1, WaitingFields
    <3>3. answered'[request[w].process] = answered[request[w].process]
      BY <1>0, <1>1, <3>1, <3>2 DEF TablesOK
    <3>4. Carries(request[w], answered)
      BY <1>0, <2>1, <3>1 DEF CarriedSound
    <3> QED
      BY <3>1, <3>3, <3>4 DEF Carries
  <2> QED
    BY <2>1 DEF CarriedSound
<1> QED
  BY <1>4, <1>5, <1>6 DEF SessionInv

LEMMA NextSound ==
  ASSUME SessionInv, [Sessions!Next]_Sessions!vars
  PROVE  SessionInv'
<1>1. CASE UNCHANGED Sessions!vars
  BY <1>1 DEF Sessions!vars, SessionInv, TablesOK, MapsSound, CarriedSound
<1>2. ASSUME NEW w \in Workers, Sessions!Receive(w) PROVE SessionInv'
  BY <1>2, ReceiveSound
<1>3. ASSUME NEW w \in Workers, Sessions!ReadBody(w) PROVE SessionInv'
  BY <1>3, ReadBodySound
<1>4. ASSUME NEW w \in Workers, Sessions!Respond(w) PROVE SessionInv'
  BY <1>4, RespondSound
<1>5. ASSUME NEW w \in Workers, Sessions!ServeSession(w) PROVE SessionInv'
  BY <1>5, ServeSessionSound
<1>6. ASSUME NEW w \in Workers, Sessions!OpenSession(w) PROVE SessionInv'
  BY <1>6, OpenSessionSound
<1>7. ASSUME NEW w \in Workers, Sessions!Refuse(w) PROVE SessionInv'
  BY <1>7, RefuseSound
<1>8. ASSUME NEW w \in Workers, Sessions!Disconnect(w) PROVE SessionInv'
  BY <1>8, DisconnectSound
<1>9. ASSUME NEW p \in Processes, Sessions!Restart(p) PROVE SessionInv'
  BY <1>9, RestartSound
<1> QED
  BY <1>1, <1>2, <1>3, <1>4, <1>5, <1>6, <1>7, <1>8, <1>9 DEF Sessions!Next

-----------------------------------------------------------------------------
(* The theorems.                                                           *)

\* Ids in maps, and those that requests carry from maps, are ids that this
\* run of the process has answered the same client with.
THEOREM MapsHoldAnswers == Sessions!Spec => []SessionInv
<1>1. Sessions!Init => SessionInv
  BY InitSound
<1>2. SessionInv /\ [Sessions!Next]_Sessions!vars => SessionInv'
  BY NextSound
<1> QED
  BY <1>1, <1>2, PTL DEF Sessions!Spec

\* The maps, the sessions and the requests keep their types.
THEOREM SessionTypesCorrect == Sessions!Spec => []Sessions!TypeOK
<1>1. SessionInv => Sessions!TypeOK
  <2>1. ASSUME TablesOK, NEW w \in Workers
        PROVE  /\ request[w].pc \in {"idle", "body", "call_next", "answered"}
               /\ request[w].pc # "idle" => /\ request[w].process \in Processes
                                           /\ request[w].client \in Sessions!McpClients
                                           /\ request[w].id \in Sessions!Ids
    <3>1. request[w] \in {Sessions!NoRequest} \cup Waiting \cup Answering
      BY <2>1 DEF TablesOK
    <3> QED
      BY <3>1 DEF Sessions!NoRequest, Waiting, Answering
  <2> QED
    BY <2>1 DEF SessionInv, TablesOK, Sessions!TypeOK, Sessions!ClientKey
<1> QED
  BY <1>1, MapsHoldAnswers, PTL

\* The id the middleware adds to a request is one that this run of this
\* process has answered the same client with.
THEOREM InjectedWasAnswered == Sessions!Spec => []Sessions!InjectedIsKnown
<1>1. SessionInv => Sessions!InjectedIsKnown
  BY Held DEF SessionInv, CarriedSound, Carries, Sessions!InjectedIsKnown
<1> QED
  BY <1>1, MapsHoldAnswers, PTL

-----------------------------------------------------------------------------
(* Facts about counting that the ranking of a search rests on.             *)

\* A set of numbers has a least one.
LEMMA LeastOne ==
  ASSUME NEW T \in SUBSET Nat, T # {}
  PROVE  \E x \in T : \A y \in T : x <= y
<1>1. \E x \in T : \A y \in T : ~(<<y, x>> \in OpToRel(<, Nat))
  BY NatLessThanWellFounded, WFMin
<1>2. PICK x \in T : \A y \in T : ~(<<y, x>> \in OpToRel(<, Nat))
  BY <1>1
<1>3. ASSUME NEW y \in T PROVE x <= y
  <2>1. ~(<<y, x>> \in OpToRel(<, Nat)) BY <1>2
  <2>2. ~(y < x) BY <2>1 DEF OpToRel
  <2> QED BY <2>2
<1> QED BY <1>3

\* An entry of a list with n entries before it has n before it that are
\* among the first n.  up[a] is what stands before a.
LEMMA FirstFills ==
  ASSUME NEW list, IsFiniteSet(list), NEW up \in [list -> SUBSET list],
         NEW n \in Nat, NEW x \in list,
         \A a \in list : a \notin up[a],
         \A a, b, c \in list : a \in up[b] /\ b \in up[c] => a \in up[c],
         \A a, b \in list : a = b \/ a \in up[b] \/ b \in up[a],
         Cardinality(up[x]) >= n
  PROVE  \E early \in SUBSET up[x] :
           /\ Cardinality(early) >= n
           /\ \A a \in early : Cardinality(up[a]) < n
<1> DEFINE size == [a \in list |-> Cardinality(up[a])]
           late == {a \in list : size[a] >= n}
<1>1. ASSUME NEW a \in list
      PROVE  IsFiniteSet(up[a]) /\ size[a] = Cardinality(up[a]) /\ size[a] \in Nat
  BY FS_Subset, FS_CardinalityType
<1> HIDE DEF size
<1>2. \E s \in {size[a] : a \in late} : \A t \in {size[a] : a \in late} : s <= t
  <2>1. {size[a] : a \in late} \in SUBSET Nat BY <1>1
  <2>2. x \in late BY <1>1
  <2>3. {size[a] : a \in late} # {} BY <2>2
  <2> QED BY <2>1, <2>3, LeastOne
<1>3. PICK first \in late : \A a \in late : size[first] <= size[a]
  BY <1>2
<1>4. first \in list /\ Cardinality(up[first]) >= n BY <1>1, <1>3
<1>5. ASSUME NEW a \in up[first] PROVE a \in list /\ Cardinality(up[a]) < n
  <2>1. a \in list BY <1>4
  <2>2. up[a] \subseteq up[first] /\ a \notin up[a] BY <1>4, <2>1
  <2>3. /\ Cardinality(up[a]) <= Cardinality(up[first])
        /\ Cardinality(up[a]) # Cardinality(up[first])
    BY <1>1, <1>4, <1>5, <2>2, FS_Subset
  <2>4. size[a] < size[first] BY <1>1, <1>4, <2>1, <2>3
  <2>5. size[a] \in Nat /\ size[first] \in Nat /\ size[a] = Cardinality(up[a])
    BY <1>1, <1>4, <2>1
  <2>6. a \notin late BY <1>3, <2>4, <2>5
  <2> QED BY <2>1, <2>5, <2>6
<1>6. up[first] \subseteq up[x]
  <2>1. x \notin up[first]
    <3>1. Cardinality(up[x]) \in Nat BY <1>1
    <3> QED BY <1>5, <3>1
  <2>2. x = first \/ first \in up[x] BY <1>4, <2>1
  <2> QED BY <1>4, <2>2
<1> QED BY <1>4, <1>5, <1>6

\* The images of the elements of a set are not more than it has.
LEMMA ImageSize ==
  ASSUME NEW S, IsFiniteSet(S), NEW f
  PROVE  LET image == {f[x] : x \in S}
         IN  /\ IsFiniteSet(image)
             /\ Cardinality(image) <= Cardinality(S)
             /\ Cardinality(image) \in Nat
             /\ Cardinality(S) \in Nat
<1> DEFINE image == {f[x] : x \in S}
           g == [x \in S |-> f[x]]
<1>1. g \in Surjection(S, image)
  BY DEF Surjection
<1> HIDE DEF image, g
<1>2. IsFiniteSet(image) /\ Cardinality(image) <= Cardinality(S)
  BY <1>1, FS_Surjection
<1> QED BY <1>2, FS_CardinalityType DEF image

-----------------------------------------------------------------------------
(* Searching: what a request has read, and what stands before what.        *)

SearchRow ==
  [status : {"none", "approved", "archived"}, scope : Search!Scopes,
   stamp : Nat, fit : Fits \cup {Search!NoRow.fit}]
Entry == [id : Memories, row : SearchRow, query : {"match", "recent"}]
Searching ==
  [pc : {"match", "recent", "done"}, actor : Searchers, hasQuery : BOOLEAN,
   scopes : SUBSET Search!Scopes, limit : Nat, perScope : Nat,
   matched : SUBSET Entry, results : SUBSET Entry]

\* No two rows have a stamp.
BankSound ==
  /\ clock \in 0 .. MaxStamp
  /\ bank \in [Memories -> SearchRow]
  /\ touched \in SUBSET Memories
  /\ \A m \in Memories : bank[m].stamp <= clock
  /\ \A m, n \in Memories :
       m # n /\ bank[m].status # "none" => bank[n].stamp # bank[m].stamp

\* An entry was approved and asked for when it was read, is the row unless
\* that was written since, and is of another time than all other rows.
Current(one) ==
  /\ one.row.status = "approved"
  /\ one.row.scope \in search.scopes
  /\ one.row.stamp <= clock
  /\ one.row = bank[one.id] \/ one.id \in touched
  /\ \A n \in Memories \ {one.id} : bank[n].stamp # one.row.stamp

Limit == Search!CandidateLimit(search.limit)
AsRead(m, query) == [id |-> m, row |-> bank[m], query |-> query]

MatchedSound ==
  /\ IsFiniteSet(search.matched)
  /\ search.pc = "match" => search.hasQuery
  /\ ~search.hasQuery => search.matched = {}
  /\ \A one \in search.matched :
       /\ Current(one)
       /\ one.query = "match"
       /\ Cardinality({other \in search.matched :
                         other.row.stamp > one.row.stamp}) < Limit
  /\ \A one, other \in search.matched :
       one.id = other.id \/ one.row.stamp = other.row.stamp => one = other

\* What the first query has not found, it has found no place for.
MatchedComplete ==
  search.pc = "recent" /\ search.hasQuery =>
    \A m \in Memories \ touched :
      Search!Fitting(bank[m]) =>
        \/ AsRead(m, "match") \in search.matched
        \/ Cardinality(Search!Ahead(m)) >= Limit

ResultsSound ==
  /\ search.pc # "done" => search.results = {}
  /\ \A one \in search.results :
       Current(one) /\ Search!CanReadMemory(search.actor, one.row)
  /\ Search!NoDuplicateResults

\* The inductive invariant of a search.
SearchSound ==
  /\ search \in Searching
  /\ search.scopes \subseteq {search.actor, Repo, Org}
  /\ MatchedSound
  /\ MatchedComplete
  /\ ResultsSound
  /\ Search!BestMatchesReturned

SearchInv == BankSound /\ (search = Search!NoSearch \/ SearchSound)

-----------------------------------------------------------------------------
(* Writes during a search.                                                 *)

\* Retrieval counts as this module does.
LEMMA SameCount == \A S : Search!Cardinality(S) = Cardinality(S)
BY DEF Search!Cardinality, Cardinality

\* The limits are numbers, the memories finitely many.
LEMMA LimitIsNumber ==
  ASSUME Search!SearchConstants, NEW limit \in Nat
  PROVE  Search!CandidateLimit(limit) \in Nat
BY DEF Search!SearchConstants, Search!CandidateLimit

LEMMA FinitelyMany ==
  Search!SearchConstants => IsFiniteSet(Memories)
BY DEF Search!SearchConstants, Search!IsFiniteSet, IsFiniteSet

\* Memories that may stand before one only become more.
LEMMA AheadGrows ==
  ASSUME Search!SearchConstants, BankSound, NEW m \in Memories, NEW row,
         Search!Write(m, row), search.pc # "idle", NEW k \in Memories \ touched', 
         search' = search
  PROVE  /\ bank'[k] = bank[k] /\ k \notin touched /\ k # m
         /\ Search!Ahead(k) \subseteq Search!Ahead(k)'
         /\ Cardinality(Search!Ahead(k)) <= Cardinality(Search!Ahead(k)')
<1>1. /\ touched' = touched \cup {m}
      /\ \A n \in Memories \ {m} : bank'[n] = bank[n]
      /\ bank'[k] = bank[k] /\ k \notin touched /\ k # m
  BY DEF Search!Write, BankSound
<1>2. ASSUME NEW n \in Search!Ahead(k) PROVE n \in Search!Ahead(k)'
  BY <1>1, <1>2
  DEF Search!Ahead, Search!Fitting, Search!Newer, Search!Here
<1>3. Search!Ahead(k)' \subseteq Memories BY DEF Search!Ahead
<1>4. IsFiniteSet(Search!Ahead(k)') BY <1>3, FinitelyMany, FS_Subset
<1> QED BY <1>1, <1>2, <1>4, FS_Subset

\* A row that is written gets a time of its own.
LEMMA WriteKeepsBank ==
  ASSUME Search!SearchConstants, BankSound, NEW m \in Memories,
         NEW row \in SearchRow, Search!Write(m, row)
  PROVE  BankSound'
<1>1. /\ clock \in Nat /\ MaxStamp \in Nat /\ clock < MaxStamp
      /\ clock' = clock + 1
  BY DEF BankSound, Search!Write, Search!SearchConstants
<1>2. bank' = [bank EXCEPT ![m] = [row EXCEPT !.stamp = clock + 1]]
  BY DEF Search!Write
<1>3. [row EXCEPT !.stamp = clock + 1] \in SearchRow
  BY <1>1 DEF SearchRow
<1>4. bank' \in [Memories -> SearchRow] BY <1>2, <1>3 DEF BankSound
<1>5. /\ bank'[m].stamp = clock + 1
      /\ \A n \in Memories \ {m} : bank'[n] = bank[n]
  BY <1>2 DEF BankSound, SearchRow
<1>6. touched' \in SUBSET Memories BY DEF BankSound, Search!Write
<1>7. \A n \in Memories : bank[n].stamp \in Nat /\ bank[n].stamp <= clock
  BY DEF BankSound, SearchRow
<1>8. \A n \in Memories : bank'[n].stamp <= clock'
  BY <1>1, <1>5, <1>7
<1>9. ASSUME NEW n \in Memories, NEW k \in Memories, n # k,
             bank'[n].status # "none"
      PROVE  bank'[k].stamp # bank'[n].stamp
  BY <1>1, <1>5, <1>7, <1>9 DEF BankSound
<1> QED BY <1>1, <1>4, <1>6, <1>8, <1>9 DEF BankSound

LEMMA WriteKeepsCurrent ==
  ASSUME Search!SearchConstants, BankSound, NEW m \in Memories,
         NEW row \in SearchRow, Search!Write(m, row), search.pc # "idle",
         NEW one \in Entry, Current(one)
  PROVE  Current(one)'
<1>1. /\ clock \in Nat /\ clock' = clock + 1 /\ search' = search
      /\ touched' = touched \cup {m}
      /\ bank'[m].stamp = clock + 1
      /\ \A n \in Memories \ {m} : bank'[n] = bank[n]
  BY DEF BankSound, Search!Write, SearchRow
<1>2. one.row.stamp \in Nat /\ one.id \in Memories BY DEF Entry, SearchRow
<1> QED BY <1>1, <1>2 DEF Current

LEMMA WriteSafe ==
  ASSUME Search!SearchConstants, SearchInv, NEW m \in Memories,
         NEW row \in SearchRow, Search!Write(m, row)
  PROVE  SearchInv'
<1>1. BankSound' /\ search' = search
  BY WriteKeepsBank DEF SearchInv, Search!Write
<1>2. CASE search = Search!NoSearch BY <1>1, <1>2 DEF SearchInv, Search!NoSearch
<1>3. CASE search # Search!NoSearch
  <2>1. BankSound /\ SearchSound BY <1>3 DEF SearchInv
  <2>2. search \in Searching /\ search.pc # "idle"
    BY <2>1 DEF SearchSound, Searching
  <2>3. \A one \in Entry : Current(one) => Current(one)'
    BY <2>1, <2>2, WriteKeepsCurrent
  <2>4. search.matched \subseteq Entry /\ search.results \subseteq Entry
    BY <2>2 DEF Searching
  <2>5. Limit \in Nat /\ Limit' = Limit
    BY <1>1, <2>2, LimitIsNumber DEF Limit, Searching, Search!CandidateLimit
  <2>6. MatchedSound'
    BY <1>1, <2>1, <2>3, <2>4, <2>5 DEF SearchSound, MatchedSound
  <2>7. ASSUME NEW k \in Memories \ touched'
        PROVE  /\ bank'[k] = bank[k] /\ k \notin touched
               /\ Cardinality(Search!Ahead(k)) \in Nat
               /\ Cardinality(Search!Ahead(k)') \in Nat
               /\ Cardinality(Search!Ahead(k)) <= Cardinality(Search!Ahead(k)')
    <3>1. /\ Search!Ahead(k) \subseteq Memories
          /\ Search!Ahead(k)' \subseteq Memories
      BY DEF Search!Ahead
    <3>2. /\ Cardinality(Search!Ahead(k)) \in Nat
          /\ Cardinality(Search!Ahead(k)') \in Nat
      BY <3>1, FinitelyMany, FS_Subset, FS_CardinalityType
    <3> QED BY <1>1, <2>1, <2>2, <3>2, AheadGrows
  <2>8. MatchedComplete'
    <3>1. ASSUME NEW k \in Memories \ touched', search.pc = "recent",
                 search.hasQuery, Search!Fitting(bank[k])'
          PROVE  \/ AsRead(k, "match")' \in search'.matched
                 \/ Cardinality(Search!Ahead(k)') >= Limit'
      <4>1. Search!Fitting(bank[k])
        BY <1>1, <2>7, <3>1 DEF Search!Fitting
      <4>2. \/ AsRead(k, "match") \in search.matched
            \/ Cardinality(Search!Ahead(k)) >= Limit
        BY <2>1, <2>7, <3>1, <4>1 DEF SearchSound, MatchedComplete
      <4> QED BY <1>1, <2>5, <2>7, <4>2 DEF AsRead
    <3> QED BY <1>1, <3>1 DEF MatchedComplete
  <2>9. ResultsSound'
    <3>1. Search!NoDuplicateResults'
      BY <1>1, <2>1 DEF SearchSound, ResultsSound, Search!NoDuplicateResults
    <3>2. ASSUME NEW one \in search'.results
          PROVE  /\ Current(one)'
                 /\ Search!CanReadMemory(search.actor, one.row)'
      BY <1>1, <2>1, <2>3, <2>4
      DEF SearchSound, ResultsSound, Search!CanReadMemory, Search!IsAdmin
    <3> QED BY <1>1, <2>1, <3>1, <3>2 DEF SearchSound, ResultsSound
  <2>10. Search!BestMatchesReturned'
    <3>1. ASSUME NEW k \in Memories \ touched', search.pc = "done"
          PROVE  /\ Search!Fitting(bank[k])' = Search!Fitting(bank[k])
                 /\ \A one \in search.results :
                      Search!Above(one, Search!Here(k))'
                        <=> Search!Above(one, Search!Here(k))
                 /\ bank'[k] = bank[k] /\ k \in Memories \ touched
      BY <1>1, <2>7, <3>1
      DEF Search!Fitting, Search!Above, Search!Here, Search!Score
    <3> QED
      BY <1>1, <2>1, <2>5, <2>7, <3>1, SameCount
      DEF SearchSound, Search!BestMatchesReturned, Limit
  <2>11. search'.scopes \subseteq {search'.actor, Repo, Org}
    BY <1>1, <2>1 DEF SearchSound
  <2> QED BY <1>1, <2>2, <2>6, <2>8, <2>9, <2>10, <2>11 DEF SearchInv, SearchSound
<1> QED BY <1>2, <1>3

\* Creating, changing and archiving a memory are writes of a row.
LEMMA WritingSafe ==
  ASSUME Search!SearchConstants, SearchInv, NEW m \in Memories,
         \/ Search!CreateMemory(m)
         \/ Search!UpdateMemory(m)
         \/ Search!ArchiveMemory(m)
  PROVE  SearchInv'
<1>1. bank \in [Memories -> SearchRow] BY DEF SearchInv, BankSound
<1>2. CASE Search!CreateMemory(m)
  <2>1. PICK scope \in Search!Scopes, fit \in Fits :
          Search!Write(m, [status |-> "approved", scope |-> scope,
                           stamp |-> 0, fit |-> fit])
    BY <1>2 DEF Search!CreateMemory
  <2>2. [status |-> "approved", scope |-> scope, stamp |-> 0, fit |-> fit]
          \in SearchRow
    BY DEF SearchRow
  <2> QED BY <2>1, <2>2, WriteSafe
<1>3. CASE Search!UpdateMemory(m)
  <2>1. PICK fit \in Fits : Search!Write(m, [bank[m] EXCEPT !.fit = fit])
    BY <1>3 DEF Search!UpdateMemory
  <2>2. [bank[m] EXCEPT !.fit = fit] \in SearchRow BY <1>1 DEF SearchRow
  <2> QED BY <2>1, <2>2, WriteSafe
<1>4. CASE Search!ArchiveMemory(m)
  <2>1. [bank[m] EXCEPT !.status = "archived"] \in SearchRow
    BY <1>1 DEF SearchRow
  <2> QED BY <1>4, <2>1, WriteSafe DEF Search!ArchiveMemory
<1> QED BY <1>2, <1>3, <1>4

-----------------------------------------------------------------------------
(* The request.                                                            *)

LEMMA StartSafe ==
  ASSUME Search!SearchConstants, SearchInv, NEW actor \in Searchers,
         Search!StartSearch(actor)
  PROVE  SearchInv'
<1>1. PICK scope \in {"auto", "user", "repo", "org"},
           confidence \in {"high", "low", "none"}, hasQuery \in BOOLEAN,
           asked \in 0 .. MaxResults + 1, perScope \in PerScopeLimits :
        /\ ~(scope = "repo" /\ confidence = "none")
        /\ search' = [pc |-> IF hasQuery THEN "match" ELSE "recent",
                      actor |-> actor, hasQuery |-> hasQuery,
                      scopes |-> Search!SearchScopes(actor, scope, confidence),
                      limit |-> Search!EffectiveLimit(asked),
                      perScope |-> perScope,
                      matched |-> {}, results |-> {}]
  BY DEF Search!StartSearch
<1>2. Search!SearchScopes(actor, scope, confidence) \subseteq {actor, Repo, Org}
  BY DEF Search!SearchScopes, Search!RequestedScopes, Search!IncludesRepo
<1>3. {actor, Repo, Org} \subseteq Search!Scopes
  BY DEF Search!Scopes
<1>4. Search!EffectiveLimit(asked) \in Nat /\ perScope \in Nat
  <2>1. MaxResults \in Nat /\ PerScopeLimits \subseteq Nat
    BY DEF Search!SearchConstants
  <2> QED BY <2>1 DEF Search!EffectiveLimit
<1>5. search' \in Searching
  BY <1>1, <1>2, <1>3, <1>4 DEF Searching
<1>6. search'.scopes \subseteq {search'.actor, Repo, Org} BY <1>1, <1>2
<1>7. BankSound'
  BY DEF SearchInv, BankSound, Search!StartSearch
<1>8. MatchedSound' BY <1>1, FS_EmptySet DEF MatchedSound
<1>9. MatchedComplete' BY <1>1 DEF MatchedComplete
<1>10. ResultsSound'
  BY <1>1 DEF ResultsSound, Search!NoDuplicateResults
<1>11. Search!BestMatchesReturned' BY <1>1 DEF Search!BestMatchesReturned
<1> QED
  BY <1>5, <1>6, <1>7, <1>8, <1>9, <1>10, <1>11 DEF SearchInv, SearchSound

LEMMA AnswerSafe ==
  ASSUME SearchInv, Search!Answer
  PROVE  SearchInv'
BY DEF SearchInv, BankSound, Search!Answer

\* Reads of the memories in ids, and those that are newer than one of them.
LEMMA Reads ==
  ASSUME Search!SearchConstants, BankSound, NEW ids \in SUBSET Memories,
         NEW query \in {"match", "recent"},
         \A m \in ids : bank[m].status = "approved"
  PROVE  LET rows == {AsRead(m, query) : m \in ids} IN
         /\ IsFiniteSet(rows)
         /\ rows \subseteq Entry
         /\ \A one, other \in rows :
              one.id = other.id \/ one.row.stamp = other.row.stamp
                => one = other
         /\ \A m \in ids :
              LET newer == {other \in rows : other.row.stamp > bank[m].stamp}
                  ahead == {n \in ids : bank[n].stamp > bank[m].stamp}
              IN /\ IsFiniteSet(newer) /\ Cardinality(newer) \in Nat
                 /\ Cardinality(ahead) \in Nat
                 /\ Cardinality(newer) <= Cardinality(ahead)
<1> DEFINE rows == {AsRead(m, query) : m \in ids}
           f == [m \in ids |-> AsRead(m, query)]
<1>1. IsFiniteSet(rows)
  <2>1. IsFiniteSet(ids) BY FinitelyMany, FS_Subset
  <2>2. rows = {f[m] : m \in ids} OBVIOUS
  <2> HIDE DEF f, rows
  <2> QED BY <2>1, <2>2, ImageSize
<1>2. rows \subseteq Entry BY DEF Entry, AsRead, BankSound
<1>3. \A one, other \in rows :
        one.id = other.id \/ one.row.stamp = other.row.stamp => one = other
  BY DEF AsRead, BankSound
<1>4. ASSUME NEW m \in ids
      PROVE  LET newer == {other \in rows : other.row.stamp > bank[m].stamp}
                 ahead == {n \in ids : bank[n].stamp > bank[m].stamp}
             IN /\ IsFiniteSet(newer) /\ Cardinality(newer) \in Nat
                /\ Cardinality(ahead) \in Nat
                /\ Cardinality(newer) <= Cardinality(ahead)
  <2> DEFINE newer == {other \in rows : other.row.stamp > bank[m].stamp}
             ahead == {n \in ids : bank[n].stamp > bank[m].stamp}
  <2>1. newer = {f[n] : n \in ahead}
    <3>1. \A n \in ahead : f[n] \in newer BY DEF AsRead
    <3>2. ASSUME NEW other \in newer PROVE \E n \in ahead : other = f[n]
      <4>1. PICK n \in ids : other = AsRead(n, query) BY <3>2
      <4>2. n \in ahead BY <3>2, <4>1 DEF AsRead
      <4> QED BY <4>1, <4>2
    <3> QED BY <3>1, <3>2
  <2>2. ahead \subseteq Memories OBVIOUS
  <2>3. IsFiniteSet(ahead)
    <3> HIDE DEF ahead
    <3> QED BY <2>2, FinitelyMany, FS_Subset
  <2> HIDE DEF newer, ahead, f
  <2>4. /\ IsFiniteSet(newer) /\ Cardinality(newer) \in Nat
        /\ Cardinality(ahead) \in Nat
        /\ Cardinality(newer) <= Cardinality(ahead)
    BY <2>1, <2>3, ImageSize
  <2> QED BY <2>4 DEF newer, ahead
<1> HIDE DEF rows
<1> QED BY <1>1, <1>2, <1>3, <1>4 DEF rows

\* A query's rows are those with less than Limit newer ones.
LEMMA FetchIs ==
  ASSUME NEW query, NEW ids
  PROVE  Search!Fetch(query, ids) =
           {one \in {AsRead(m, query) : m \in ids} :
              Cardinality({other \in {AsRead(m, query) : m \in ids} :
                             other.row.stamp > one.row.stamp}) < Limit}
BY SameCount DEF Search!Fetch, Search!First, Search!Newer, AsRead, Limit


\* The first query.
LEMMA FetchMatchingSafe ==
  ASSUME Search!SearchConstants, SearchInv, Search!FetchMatching
  PROVE  SearchInv'
<1> DEFINE ids == {m \in Memories : Search!Listed(bank[m])}
           rows == {AsRead(m, "match") : m \in ids}
<1>1. BankSound /\ SearchSound /\ search.pc = "match" /\ search.hasQuery
  <2>1. search # Search!NoSearch BY DEF Search!FetchMatching, Search!NoSearch
  <2> QED BY <2>1 DEF SearchInv, SearchSound, MatchedSound, Search!FetchMatching
<1>2. search \in Searching BY <1>1 DEF SearchSound
<1>3. /\ search' = [search EXCEPT !.pc = "recent",
                                  !.matched = Search!Fetch("match", ids)]
      /\ bank' = bank /\ clock' = clock /\ touched' = touched
  BY DEF Search!FetchMatching
<1>4. Search!Fetch("match", ids) =
        {one \in rows : Cardinality({other \in rows :
                          other.row.stamp > one.row.stamp}) < Limit}
  BY FetchIs
<1>5. \A m \in ids : /\ bank[m].status = "approved"
                     /\ bank[m].scope \in search.scopes
                     /\ bank[m].fit.listed
  BY DEF Search!Listed, Search!InScope
<1>6. /\ IsFiniteSet(rows) /\ rows \subseteq Entry
      /\ \A one, other \in rows :
           one.id = other.id \/ one.row.stamp = other.row.stamp => one = other
      /\ \A m \in ids :
           LET newer == {other \in rows : other.row.stamp > bank[m].stamp}
               ahead == {n \in ids : bank[n].stamp > bank[m].stamp}
           IN /\ IsFiniteSet(newer) /\ Cardinality(newer) \in Nat
              /\ Cardinality(ahead) \in Nat
              /\ Cardinality(newer) <= Cardinality(ahead)
  <2> HIDE DEF ids
  <2>1. ids \in SUBSET Memories BY DEF ids
  <2> QED BY <1>1, <1>5, <2>1, Reads
<1>7. \A one \in rows : Current(one) /\ one.query = "match"
  BY <1>1, <1>5 DEF Current, AsRead, BankSound
<1> DEFINE found == Search!Fetch("match", ids)
<1>8. found \subseteq rows BY <1>4
<1>9. Limit \in Nat /\ Limit' = Limit
  BY <1>2, <1>3, LimitIsNumber DEF Limit, Searching, Search!CandidateLimit
<1>10. /\ search' \in Searching
       /\ search'.matched = found /\ search'.pc = "recent"
       /\ search'.hasQuery = search.hasQuery /\ search'.scopes = search.scopes
       /\ search'.actor = search.actor /\ search'.results = search.results
  <2> HIDE DEF found
  <2>1. found \in SUBSET Entry BY <1>6, <1>8
  <2> QED BY <1>2, <1>3, <2>1 DEF Searching, found
<1>11. \A one : Current(one)' <=> Current(one)
  BY <1>3, <1>10 DEF Current
<1>12. MatchedSound'
  <2>1. ASSUME NEW one \in found
        PROVE  Cardinality({other \in found :
                              other.row.stamp > one.row.stamp}) < Limit
    <3> DEFINE all == {other \in rows : other.row.stamp > one.row.stamp}
               some == {other \in found : other.row.stamp > one.row.stamp}
    <3>1. Cardinality(all) < Limit BY <1>4, <2>1
    <3>2. some \subseteq all /\ all \subseteq rows BY <1>8
    <3> HIDE DEF all, some
    <3>3. IsFiniteSet(all) BY <1>6, <3>2, FS_Subset
    <3>4. /\ Cardinality(some) <= Cardinality(all) /\ Cardinality(all) \in Nat
          /\ Cardinality(some) \in Nat
      BY <3>2, <3>3, FS_Subset, FS_CardinalityType
    <3>5. Cardinality(some) < Limit BY <1>9, <3>1, <3>4
    <3> QED BY <3>5 DEF some
  <2> HIDE DEF found, rows
  <2>2. IsFiniteSet(found) BY <1>6, <1>8, FS_Subset
  <2> QED
    BY <1>1, <1>6, <1>7, <1>8, <1>9, <1>10, <1>11, <2>1, <2>2 DEF MatchedSound
<1>13. MatchedComplete'
  <2>1. ASSUME NEW m \in Memories \ touched, Search!Fitting(bank[m])'
        PROVE  AsRead(m, "match")' \in found \/ Cardinality(Search!Ahead(m)') >= Limit
    <3>1. m \in ids
      BY <1>1, <1>3, <1>10, <2>1
      DEF Search!Fitting, Search!Listed, Search!InScope
    <3> DEFINE newer == {other \in rows : other.row.stamp > bank[m].stamp}
               ahead == {n \in ids : bank[n].stamp > bank[m].stamp}
    <3>2. /\ Cardinality(newer) \in Nat /\ Cardinality(ahead) \in Nat
          /\ Cardinality(newer) <= Cardinality(ahead)
      BY <1>6, <3>1
    <3>3. CASE Cardinality(newer) < Limit
      <4>1. AsRead(m, "match") \in rows /\ AsRead(m, "match").row = bank[m]
        BY <3>1 DEF AsRead
      <4>2. AsRead(m, "match") \in found BY <1>4, <3>3, <4>1
      <4>3. AsRead(m, "match")' = AsRead(m, "match") BY <1>3 DEF AsRead
      <4> QED BY <4>2, <4>3
    <3>4. CASE ~(Cardinality(newer) < Limit)
      <4>1. ASSUME NEW n \in ahead PROVE n \in Search!Ahead(m)'
        <5>1. n \in Memories /\ bank[n].stamp > bank[m].stamp /\ n # m
          BY <1>1, <3>1 DEF BankSound, SearchRow
        <5>2. Search!Fitting(bank[n])'
          BY <1>3, <1>5, <1>10, <4>1 DEF Search!Fitting
        <5> QED
          BY <1>3, <5>1, <5>2 DEF Search!Ahead, Search!Newer, Search!Here
      <4>2. Search!Ahead(m)' \subseteq Memories BY DEF Search!Ahead
      <4> HIDE DEF ahead, newer
      <4>3. /\ Cardinality(ahead) <= Cardinality(Search!Ahead(m)')
            /\ Cardinality(Search!Ahead(m)') \in Nat
        BY <4>1, <4>2, FinitelyMany, FS_Subset, FS_CardinalityType
      <4> QED BY <1>9, <3>2, <3>4, <4>3
    <3> QED BY <3>3, <3>4
  <2> HIDE DEF found
  <2> QED BY <1>3, <1>9, <1>10, <2>1 DEF MatchedComplete
<1>14. ResultsSound'
  <2>1. search.results = {} BY <1>1 DEF SearchSound, ResultsSound
  <2> QED
    BY <1>10, <2>1 DEF ResultsSound, Search!NoDuplicateResults
<1>15. Search!BestMatchesReturned' BY <1>10 DEF Search!BestMatchesReturned
<1>16. BankSound' BY <1>1, <1>3 DEF BankSound
<1>17. search'.scopes \subseteq {search'.actor, Repo, Org}
  BY <1>1, <1>10 DEF SearchSound
<1> QED
  BY <1>10, <1>12, <1>13, <1>14, <1>15, <1>16, <1>17 DEF SearchInv, SearchSound


\* Ranking is an order of entries of different times.
LEMMA AboveIsOrder ==
  ASSUME Search!SearchConstants, search \in Searching,
         NEW list \in SUBSET Entry,
         \A a, b \in list : a.row.stamp = b.row.stamp => a = b
  PROVE  /\ \A a \in list : ~Search!Above(a, a)
         /\ \A a, b, c \in list :
              Search!Above(a, b) /\ Search!Above(b, c) => Search!Above(a, c)
         /\ \A a, b \in list :
              a = b \/ Search!Above(a, b) \/ Search!Above(b, a)
<1>1. \A fit \in Fits \cup {Search!NoRow.fit} : fit.score \in Nat
  BY DEF Search!SearchConstants, Search!NoRow
<1>2. \A a \in list : Search!Score(a.row) \in Nat /\ a.row.stamp \in Nat
  BY <1>1 DEF Search!Score, Entry, SearchRow
<1> QED BY <1>2 DEF Search!Above

\* What a limit leaves out of a ranking stands behind as many as it lets
\* through.
LEMMA LimitFills ==
  ASSUME Search!SearchConstants, search \in Searching,
         NEW list \in SUBSET Entry, IsFiniteSet(list), NEW n \in Nat,
         \A a, b \in list : a.row.stamp = b.row.stamp => a = b,
         NEW x \in list,
         ~(Cardinality({b \in list : Search!Above(b, x)}) < n)
  PROVE  \E early \in SUBSET list :
           /\ Cardinality(early) >= n
           /\ \A a \in early :
                /\ Search!Above(a, x)
                /\ Cardinality({b \in list : Search!Above(b, a)}) < n
<1> DEFINE up == [a \in list |-> {b \in list : Search!Above(b, a)}]
<1>1. /\ up \in [list -> SUBSET list]
      /\ \A a, b \in list : b \in up[a] <=> Search!Above(b, a)
  OBVIOUS
<1>2. \A a \in list : Cardinality(up[a])
                        = Cardinality({b \in list : Search!Above(b, a)})
  OBVIOUS
<1> HIDE DEF up
<1>3. /\ \A a \in list : a \notin up[a]
      /\ \A a, b, c \in list : a \in up[b] /\ b \in up[c] => a \in up[c]
      /\ \A a, b \in list : a = b \/ a \in up[b] \/ b \in up[a]
  BY <1>1, AboveIsOrder
<1>4. Cardinality(up[x]) >= n
  <2>1. up[x] \in SUBSET list BY <1>1
  <2>2. Cardinality(up[x]) \in Nat BY <2>1, FS_Subset, FS_CardinalityType
  <2> QED BY <1>2, <2>2
<1>5. PICK early \in SUBSET up[x] :
        Cardinality(early) >= n /\ \A a \in early : Cardinality(up[a]) < n
  BY <1>1, <1>3, <1>4, FirstFills
<1>6. \A a \in early : a \in list /\ Search!Above(a, x) BY <1>1
<1> QED BY <1>2, <1>5, <1>6

\* The limit per scope and the limit of results.
Bounded(ranked) == Search!PerScope(ranked)
Shown(ranked) == Search!First(search.limit, Bounded(ranked), Search!Above)

\* What the two limits keep of a ranking.
LEMMA ShownIs ==
  ASSUME NEW ranked
  PROVE  /\ Bounded(ranked) =
              {one \in ranked : search.perScope # 0 =>
                 Cardinality({other \in ranked :
                                /\ other.row.scope = one.row.scope
                                /\ Search!Above(other, one)}) < search.perScope}
         /\ Shown(ranked) =
              {one \in Bounded(ranked) :
                 Cardinality({other \in Bounded(ranked) :
                                Search!Above(other, one)}) < search.limit}
<1>1. Bounded(ranked) =
        {one \in ranked : search.perScope # 0 =>
           Cardinality({other \in ranked :
                          /\ other.row.scope = one.row.scope
                          /\ Search!Above(other, one)}) < search.perScope}
  BY SameCount DEF Bounded, Search!PerScope
<1>2. Shown(ranked) =
        {one \in Bounded(ranked) :
           Cardinality({other \in Bounded(ranked) :
                          Search!Above(other, one)}) < search.limit}
  BY SameCount DEF Shown, Search!First
<1> QED BY <1>1, <1>2

\* What is not shown of a ranking stands behind as many that are shown as a
\* limit says.
LEMMA HiddenBehindBetter ==
  ASSUME Search!SearchConstants, search \in Searching,
         NEW ranked \in SUBSET Entry, IsFiniteSet(ranked),
         \A a, b \in ranked : a.row.stamp = b.row.stamp => a = b,
         NEW c \in ranked
  PROVE  \/ c \in Shown(ranked)
         \/ /\ search.perScope # 0
            /\ Cardinality({r \in Shown(ranked) :
                 r.row.scope = c.row.scope /\ Search!Above(r, c)})
                 >= search.perScope
         \/ Cardinality({r \in Shown(ranked) : Search!Above(r, c)})
              >= search.limit
<1>1. search.limit \in Nat /\ search.perScope \in Nat BY DEF Searching
<1>2. /\ Bounded(ranked) \subseteq ranked
      /\ Shown(ranked) \subseteq Bounded(ranked)
  BY ShownIs
<1>3. /\ IsFiniteSet(Bounded(ranked)) /\ Bounded(ranked) \in SUBSET Entry
      /\ IsFiniteSet(Shown(ranked))
  BY <1>2, FS_Subset
<1>4. \A a, b \in Bounded(ranked) : a.row.stamp = b.row.stamp => a = b
  BY <1>2
<1>5. \A T \in SUBSET Shown(ranked) :
        IsFiniteSet(T) /\ Cardinality(T) \in Nat
  BY <1>3, FS_Subset, FS_CardinalityType
<1>6. ASSUME NEW x \in Bounded(ranked), x \notin Shown(ranked)
      PROVE  Cardinality({r \in Shown(ranked) : Search!Above(r, x)})
               >= search.limit
  <2>1. ~(Cardinality({b \in Bounded(ranked) : Search!Above(b, x)})
            < search.limit)
    BY <1>6, ShownIs
  <2>2. PICK early \in SUBSET Bounded(ranked) :
          /\ Cardinality(early) >= search.limit
          /\ \A a \in early :
               /\ Search!Above(a, x)
               /\ Cardinality({b \in Bounded(ranked) : Search!Above(b, a)})
                    < search.limit
    BY <1>1, <1>3, <1>4, <2>1, LimitFills
  <2>3. early \subseteq Shown(ranked) BY <2>2, ShownIs
  <2> DEFINE above == {r \in Shown(ranked) : Search!Above(r, x)}
  <2>4. early \subseteq above BY <2>2, <2>3
  <2>5. IsFiniteSet(above) /\ Cardinality(above) \in Nat
    <3>1. above \in SUBSET Shown(ranked) OBVIOUS
    <3> HIDE DEF above
    <3> QED BY <1>5, <3>1
  <2>6. Cardinality(early) \in Nat BY <1>5, <2>3
  <2> HIDE DEF above
  <2>7. Cardinality(early) <= Cardinality(above) BY <2>4, <2>5, FS_Subset
  <2>8. Cardinality(above) >= search.limit BY <1>1, <2>2, <2>5, <2>6, <2>7
  <2> QED BY <2>8 DEF above
<1>7. CASE c \in Bounded(ranked) BY <1>6, <1>7
<1>8. CASE c \notin Bounded(ranked)
  <2> DEFINE same == {r \in ranked : r.row.scope = c.row.scope}
             better == {r \in Shown(ranked) :
                          r.row.scope = c.row.scope /\ Search!Above(r, c)}
             above == {r \in Shown(ranked) : Search!Above(r, c)}
  <2>1. \A a \in same : {b \in same : Search!Above(b, a)}
          = {other \in ranked : /\ other.row.scope = a.row.scope
                                /\ Search!Above(other, a)}
    OBVIOUS
  <2>2. /\ search.perScope # 0
        /\ ~(Cardinality({b \in same : Search!Above(b, c)}) < search.perScope)
    BY <1>8, ShownIs
  <2>3. /\ same \in SUBSET Entry /\ IsFiniteSet(same)
        /\ \A a, b \in same : a.row.stamp = b.row.stamp => a = b
        /\ c \in same
    <3>1. same \in SUBSET ranked OBVIOUS
    <3>2. IsFiniteSet(same)
      <4> HIDE DEF same
      <4> QED BY <3>1, FS_Subset
    <3> QED BY <3>2
  <2>4. PICK early \in SUBSET same :
          /\ Cardinality(early) >= search.perScope
          /\ \A a \in early :
               /\ Search!Above(a, c)
               /\ Cardinality({b \in same : Search!Above(b, a)})
                    < search.perScope
    <3> HIDE DEF same
    <3> QED BY <1>1, <2>2, <2>3, LimitFills
  <2>5. ASSUME NEW a \in early PROVE a \in Bounded(ranked)
    <3>1. a \in ranked OBVIOUS
    <3>2. Cardinality({other \in ranked : /\ other.row.scope = a.row.scope
                                          /\ Search!Above(other, a)})
            < search.perScope
      BY <2>1, <2>4
    <3> QED BY <3>1, <3>2, ShownIs
  <2>6. /\ better \in SUBSET Shown(ranked) /\ above \in SUBSET Shown(ranked)
    OBVIOUS
  <2>7. CASE early \subseteq Shown(ranked)
    <3>1. early \subseteq better BY <2>4, <2>7
    <3> HIDE DEF better
    <3>2. Cardinality(early) <= Cardinality(better)
      BY <1>5, <2>6, <3>1, FS_Subset
    <3>3. Cardinality(better) \in Nat /\ Cardinality(early) \in Nat
      BY <1>5, <2>6, <2>7
    <3>4. Cardinality(better) >= search.perScope
      BY <1>1, <2>4, <3>2, <3>3
    <3> QED BY <2>2, <3>4 DEF better
  <2>8. CASE ~(early \subseteq Shown(ranked))
    <3>1. PICK a \in early : a \notin Shown(ranked) BY <2>8
    <3> DEFINE higher == {r \in Shown(ranked) : Search!Above(r, a)}
    <3>2. Cardinality(higher) >= search.limit BY <1>6, <2>5, <3>1
    <3>3. higher \subseteq above
      BY <1>2, <2>4, AboveIsOrder
    <3>4. higher \in SUBSET Shown(ranked) OBVIOUS
    <3> HIDE DEF higher, above
    <3>5. Cardinality(higher) <= Cardinality(above)
      BY <1>5, <2>6, <3>3, FS_Subset
    <3>6. Cardinality(above) >= search.limit
      BY <1>1, <1>5, <2>6, <3>2, <3>4, <3>5
    <3> QED BY <3>6 DEF above
  <2> QED BY <2>7, <2>8
<1> QED BY <1>7, <1>8


-----------------------------------------------------------------------------
(* The second query, the merge and the ranking.                            *)

Recent == Search!Fetch("recent", {m \in Memories : Search!InScope(bank[m])})
Merged == Search!Dedupe(search.matched \cup Recent)
Chosen == Search!Candidates(search.matched, Recent)

\* What the second query returns.
LEMMA RecentIs ==
  ASSUME Search!SearchConstants, BankSound, search \in Searching
  PROVE  /\ IsFiniteSet(Recent)
         /\ \A one \in Recent :
              /\ one \in Entry
              /\ one = AsRead(one.id, "recent")
              /\ Current(one)
         /\ \A m \in Memories \ touched :
              Search!InScope(bank[m]) =>
                LET ahead == {n \in Memories : Search!InScope(bank[n])
                                                /\ bank[n].stamp > bank[m].stamp}
                    newer == {one \in Recent : one.row.stamp > bank[m].stamp}
                IN /\ Cardinality(newer) \in Nat /\ Cardinality(ahead) \in Nat
                   /\ Cardinality(newer) <= Cardinality(ahead)
                   /\ Cardinality(ahead) < Limit => AsRead(m, "recent") \in Recent
<1> DEFINE ids == {m \in Memories : Search!InScope(bank[m])}
           rows == {AsRead(m, "recent") : m \in ids}
<1>1. \A m \in ids : bank[m].status = "approved" /\ bank[m].scope \in search.scopes
  BY DEF Search!InScope
<1>2. /\ IsFiniteSet(rows) /\ rows \subseteq Entry
      /\ \A m \in ids :
           LET newer == {other \in rows : other.row.stamp > bank[m].stamp}
               ahead == {n \in ids : bank[n].stamp > bank[m].stamp}
           IN /\ IsFiniteSet(newer) /\ Cardinality(newer) \in Nat
              /\ Cardinality(ahead) \in Nat
              /\ Cardinality(newer) <= Cardinality(ahead)
  <2>1. ids \in SUBSET Memories OBVIOUS
  <2> HIDE DEF ids
  <2> QED BY <1>1, <2>1, Reads
<1>3. Recent = {one \in rows : Cardinality({other \in rows :
                  other.row.stamp > one.row.stamp}) < Limit}
  BY FetchIs DEF Recent
<1>4. Recent \subseteq rows BY <1>3
<1>5. IsFiniteSet(Recent)
  <2> HIDE DEF rows
  <2> QED BY <1>2, <1>4, FS_Subset
<1>6. \A one \in rows : one = AsRead(one.id, "recent") /\ Current(one)
  BY <1>1 DEF AsRead, Current, BankSound
<1>7. ASSUME NEW m \in ids
      PROVE  LET ahead == {n \in ids : bank[n].stamp > bank[m].stamp}
                 newer == {one \in Recent : one.row.stamp > bank[m].stamp}
             IN /\ Cardinality(newer) \in Nat /\ Cardinality(ahead) \in Nat
                /\ Cardinality(newer) <= Cardinality(ahead)
                /\ Cardinality(ahead) < Limit => AsRead(m, "recent") \in Recent
  <2> DEFINE ahead == {n \in ids : bank[n].stamp > bank[m].stamp}
             newer == {one \in Recent : one.row.stamp > bank[m].stamp}
             all == {one \in rows : one.row.stamp > bank[m].stamp}
  <2>1. /\ IsFiniteSet(all) /\ Cardinality(all) \in Nat
        /\ Cardinality(ahead) \in Nat
        /\ Cardinality(all) <= Cardinality(ahead)
    BY <1>2
  <2>2. newer \subseteq all BY <1>4
  <2>3. Limit \in Nat BY LimitIsNumber DEF Limit, Searching
  <2>4. ASSUME Cardinality(ahead) < Limit PROVE AsRead(m, "recent") \in Recent
    <3>1. AsRead(m, "recent") \in rows /\ AsRead(m, "recent").row = bank[m]
      BY DEF AsRead
    <3>2. Cardinality(all) < Limit
      <4> HIDE DEF all, ahead
      <4> QED BY <2>1, <2>3, <2>4
    <3> QED BY <1>3, <3>1, <3>2
  <2> HIDE DEF newer, all, ahead
  <2>5. Cardinality(newer) <= Cardinality(all) /\ Cardinality(newer) \in Nat
    BY <2>1, <2>2, FS_Subset, FS_CardinalityType
  <2>6. /\ Cardinality(newer) \in Nat /\ Cardinality(ahead) \in Nat
        /\ Cardinality(newer) <= Cardinality(ahead)
    BY <2>1, <2>5
  <2> QED BY <2>4, <2>6 DEF newer, ahead
<1>8. ASSUME NEW m \in Memories, Search!InScope(bank[m])
      PROVE  {n \in Memories : Search!InScope(bank[n]) /\ bank[n].stamp > bank[m].stamp}
               = {n \in ids : bank[n].stamp > bank[m].stamp} /\ m \in ids
  BY <1>8
<1> HIDE DEF ids
<1> QED BY <1>2, <1>4, <1>5, <1>6, <1>7, <1>8

\* The merged list has each memory once.
LEMMA MergedSound ==
  ASSUME Search!SearchConstants, BankSound, search \in Searching, MatchedSound
  PROVE  /\ IsFiniteSet(Merged)
         /\ Merged \subseteq search.matched \cup Recent
         /\ \A one \in Merged : one \in Entry /\ Current(one)
         /\ \A one, other \in Merged :
              one.id = other.id \/ one.row.stamp = other.row.stamp => one = other
<1>1. IsFiniteSet(search.matched \cup Recent)
  BY RecentIs, FS_Union DEF MatchedSound
<1>2. Merged \subseteq search.matched \cup Recent BY DEF Merged, Search!Dedupe
<1>3. IsFiniteSet(Merged) BY <1>1, <1>2, FS_Subset
<1>4. \A one \in search.matched \cup Recent : one \in Entry /\ Current(one)
  BY RecentIs DEF MatchedSound, Searching
<1>5. \A one \in search.matched : one.query = "match" BY DEF MatchedSound
<1>6. ASSUME NEW one \in Recent
      PROVE  one.query = "recent" /\ one.row = bank[one.id]
  <2>1. one = AsRead(one.id, "recent") BY RecentIs
  <2>2. /\ AsRead(one.id, "recent").query = "recent"
        /\ AsRead(one.id, "recent").row = bank[one.id]
    BY DEF AsRead
  <2> QED BY <2>1, <2>2
<1> DEFINE all == search.matched \cup Recent
<1>7. \A one \in Merged : one \in all /\ ~\E other \in all :
        other.id = one.id /\ Search!Before(other, one)
  BY DEF Merged, Search!Dedupe
<1>8. ASSUME NEW one \in Merged, NEW other \in Merged, one.id = other.id
      PROVE  one = other
  <2>1. CASE one \in search.matched /\ other \in search.matched
    BY <1>8, <2>1 DEF MatchedSound
  <2>2. CASE one \in Recent /\ other \in Recent
    BY <1>8, <2>2, RecentIs
  <2>3. CASE one \in search.matched /\ other \in Recent
    <3>1. one.query = "match" /\ other.query = "recent"
      BY <1>5, <1>6, <2>3
    <3> QED BY <1>7, <1>8, <3>1 DEF Search!Before
  <2>4. CASE one \in Recent /\ other \in search.matched
    <3>1. one.query = "recent" /\ other.query = "match"
      BY <1>5, <1>6, <2>4
    <3> QED BY <1>7, <1>8, <3>1 DEF Search!Before
  <2> QED BY <1>2, <2>1, <2>2, <2>3, <2>4
<1>9. ASSUME NEW one \in Merged, NEW other \in Merged,
             one.row.stamp = other.row.stamp, one.id # other.id
      PROVE  one = other
  <2>1. /\ one \in Entry /\ other \in Entry /\ Current(one) /\ Current(other)
    BY <1>2, <1>4
  <2>2. CASE one \in search.matched /\ other \in search.matched
    BY <1>9, <2>2 DEF MatchedSound
  <2>3. CASE one \in Recent
    <3>1. one.row = bank[one.id] BY <1>6, <2>3
    <3> QED BY <1>9, <2>1, <3>1 DEF Current, Entry
  <2>4. CASE other \in Recent
    <3>1. other.row = bank[other.id] BY <1>6, <2>4
    <3> QED BY <1>9, <2>1, <3>1 DEF Current, Entry
  <2> QED BY <1>2, <2>2, <2>3, <2>4
<1> QED BY <1>2, <1>3, <1>4, <1>8, <1>9


\* A memory that fits and that nobody wrote is chosen, where no more stand
\* before it than are read.
LEMMA FittingIsChosen ==
  ASSUME Search!SearchConstants, BankSound, SearchSound, search.pc = "recent",
         NEW m \in Memories \ touched, Search!Fitting(bank[m]),
         ~(Cardinality(Search!Ahead(m)) >= Limit)
  PROVE  \E one \in Chosen : one.id = m /\ one.row = bank[m]
<1>1. search \in Searching /\ MatchedSound /\ MatchedComplete BY DEF SearchSound
<1>2. Chosen = {one \in Merged :
        Cardinality({other \in Merged : Search!Before(other, one)}) < Limit}
  BY SameCount DEF Chosen, Merged, Search!Candidates, Search!First, Limit
<1>3. Merged = {one \in search.matched \cup Recent :
        ~\E other \in search.matched \cup Recent :
           other.id = one.id /\ Search!Before(other, one)}
  BY DEF Merged, Search!Dedupe
<1>4. \A one \in search.matched : one.query = "match"
  BY <1>1 DEF MatchedSound
<1>5. ASSUME NEW one \in Recent PROVE one.query = "recent"
  <2>1. one = AsRead(one.id, "recent") BY <1>1, <1>5, RecentIs
  <2>2. AsRead(one.id, "recent").query = "recent" BY DEF AsRead
  <2> QED BY <2>1, <2>2
<1>6. /\ Limit \in Nat
      /\ IsFiniteSet(Search!Ahead(m)) /\ Cardinality(Search!Ahead(m)) \in Nat
  <2>1. Search!Ahead(m) \in SUBSET Memories BY DEF Search!Ahead
  <2> QED
    BY <1>1, <2>1, LimitIsNumber, FinitelyMany, FS_Subset, FS_CardinalityType
    DEF Limit, Searching
<1>7. ASSUME NEW one \in Merged, NEW newer, IsFiniteSet(newer),
             \A other \in Merged : Search!Before(other, one) => other \in newer,
             ~(Cardinality(newer) >= Limit)
      PROVE  one \in Chosen
  <2> DEFINE before == {other \in Merged : Search!Before(other, one)}
  <2>1. before \in SUBSET newer BY <1>7
  <2> HIDE DEF before
  <2>2. /\ Cardinality(before) <= Cardinality(newer)
        /\ Cardinality(before) \in Nat /\ Cardinality(newer) \in Nat
    BY <1>7, <2>1, FS_Subset, FS_CardinalityType
  <2>3. Cardinality(before) < Limit BY <1>6, <1>7, <2>2
  <2> QED BY <1>2, <2>3 DEF before
<1>8. CASE search.hasQuery
  <2> DEFINE mine == AsRead(m, "match")
             newer == {other \in search.matched : other.row.stamp > mine.row.stamp}
  <2>1. mine.id = m /\ mine.row = bank[m] /\ mine.query = "match" BY DEF AsRead
  <2>2. mine \in search.matched BY <1>1, <1>8 DEF MatchedComplete
  <2> HIDE DEF mine
  <2>3. mine \in Merged
    <3>1. ASSUME NEW other \in search.matched \cup Recent,
                 other.id = mine.id, Search!Before(other, mine)
          PROVE  FALSE
      <4>1. other \in search.matched
        BY <1>5, <2>1, <3>1 DEF Search!Before
      <4>2. other = mine BY <1>1, <2>2, <3>1, <4>1 DEF MatchedSound
      <4>3. mine.row.stamp \in Nat BY <1>1, <2>2 DEF Searching, Entry, SearchRow
      <4> QED BY <3>1, <4>2, <4>3 DEF Search!Before, Search!Newer
    <3> QED BY <1>3, <2>2, <3>1
  <2>4. \A other \in Merged : Search!Before(other, mine) => other \in newer
    BY <1>3, <1>5, <2>1 DEF Search!Before, Search!Newer
  <2>5. IsFiniteSet(newer) /\ Cardinality(newer) < Limit
    <3>1. newer \in SUBSET search.matched OBVIOUS
    <3>2. Cardinality(newer) < Limit BY <1>1, <2>2 DEF MatchedSound
    <3> HIDE DEF newer
    <3>3. IsFiniteSet(newer) BY <1>1, <3>1, FS_Subset DEF MatchedSound
    <3> QED BY <3>2, <3>3
  <2> HIDE DEF newer
  <2>6. Cardinality(newer) \in Nat BY <2>5, FS_CardinalityType
  <2>7. mine \in Chosen BY <1>6, <1>7, <2>3, <2>4, <2>5, <2>6
  <2> QED BY <2>1, <2>7
<1>9. CASE ~search.hasQuery
  <2> DEFINE mine == AsRead(m, "recent")
             newer == {one \in Recent : one.row.stamp > bank[m].stamp}
             ahead == {n \in Memories : Search!InScope(bank[n])
                                          /\ bank[n].stamp > bank[m].stamp}
  <2>1. mine.id = m /\ mine.row = bank[m] /\ mine.query = "recent" BY DEF AsRead
  <2>2. search.matched = {} BY <1>1, <1>9 DEF MatchedSound
  <2>3. Search!InScope(bank[m]) BY DEF Search!Fitting, Search!InScope
  <2>4. /\ Cardinality(newer) \in Nat /\ Cardinality(ahead) \in Nat
        /\ Cardinality(newer) <= Cardinality(ahead)
        /\ Cardinality(ahead) < Limit => mine \in Recent
    BY <1>1, <2>3, RecentIs
  <2>5. IsFiniteSet(newer)
    <3>1. newer \in SUBSET Recent OBVIOUS
    <3> HIDE DEF newer
    <3> QED BY <1>1, <3>1, RecentIs, FS_Subset
  <2>6. ahead \subseteq Search!Ahead(m)
    <3>1. ASSUME NEW n \in ahead PROVE n \in Search!Ahead(m)
      <4>1. n \in Memories /\ bank[n].stamp > bank[m].stamp /\ n # m
        BY DEF BankSound, SearchRow
      <4>2. Search!Fitting(bank[n])
        BY <1>9, <3>1 DEF Search!Fitting, Search!InScope
      <4> QED BY <4>1, <4>2 DEF Search!Ahead, Search!Newer, Search!Here
    <3> QED BY <3>1
  <2> HIDE DEF mine, newer, ahead
  <2>7. Cardinality(ahead) <= Cardinality(Search!Ahead(m))
    BY <1>6, <2>6, FS_Subset
  <2>8. mine \in Recent /\ ~(Cardinality(newer) >= Limit)
    BY <1>6, <2>4, <2>7
  <2>9. \A other \in Recent : Search!Before(other, mine) => other \in newer
    BY <1>5, <2>1 DEF Search!Before, Search!Newer, newer
  <2>10. mine \in Merged
    <3>1. ASSUME NEW other \in Recent, other.id = mine.id,
                 Search!Before(other, mine)
          PROVE  FALSE
      <4>1. other \in newer BY <2>9, <3>1
      <4>2. other.row = bank[m] /\ bank[m].stamp \in Nat
        <5>1. other = AsRead(other.id, "recent") BY <1>1, RecentIs
        <5>2. AsRead(other.id, "recent").row = bank[other.id] BY DEF AsRead
        <5> QED BY <2>1, <3>1, <5>1, <5>2 DEF BankSound, SearchRow
      <4> QED BY <4>1, <4>2 DEF newer
    <3> QED BY <1>3, <2>2, <2>8, <3>1
  <2>11. \A other \in Merged : Search!Before(other, mine) => other \in newer
    BY <1>3, <2>2, <2>9
  <2>12. mine \in Chosen BY <1>7, <2>5, <2>8, <2>10, <2>11
  <2> QED BY <2>1, <2>12
<1> QED BY <1>8, <1>9


\* A memory that fits is one the actor may read, and has a score.
LEMMA FittingIsRanked ==
  ASSUME Search!SearchConstants, search.scopes \subseteq {search.actor, Repo, Org},
         NEW row \in SearchRow, Search!Fitting(row)
  PROVE  Search!CanReadMemory(search.actor, row) /\ Search!Score(row) > 0
<1>1. Search!CanReadMemory(search.actor, row)
  BY DEF Search!Fitting, Search!CanReadMemory
<1>2. row.fit.listed => row.fit.score > 0
  BY DEF SearchRow, Search!SearchConstants, Search!NoRow
<1> QED BY <1>1, <1>2 DEF Search!Fitting, Search!Score

\* The second query and all that follows it.
LEMMA FetchRecentSafe ==
  ASSUME Search!SearchConstants, SearchInv, Search!FetchRecent
  PROVE  SearchInv'
<1> DEFINE ranked == Search!Ranked(Chosen)
           shown == Shown(ranked)
<1>1. BankSound /\ SearchSound /\ search.pc = "recent"
  <2>1. search # Search!NoSearch BY DEF Search!FetchRecent, Search!NoSearch
  <2> QED BY <2>1 DEF SearchInv, Search!FetchRecent
<1>2. search \in Searching /\ MatchedSound BY <1>1 DEF SearchSound
<1>3. /\ search' = [search EXCEPT !.pc = "done", !.results = shown]
      /\ bank' = bank /\ clock' = clock /\ touched' = touched
  BY DEF Search!FetchRecent, Shown, Bounded, Chosen, Recent, Search!Results
<1>4. Chosen \subseteq Merged
  BY DEF Chosen, Merged, Search!Candidates, Search!First
<1>5. /\ ranked \subseteq Chosen
      /\ \A one \in ranked : Search!CanReadMemory(search.actor, one.row)
  BY DEF Search!Ranked
<1>6. shown \subseteq ranked BY ShownIs
<1>7. /\ IsFiniteSet(Merged)
      /\ \A one \in Merged : one \in Entry /\ Current(one)
      /\ \A one, other \in Merged :
           one.id = other.id \/ one.row.stamp = other.row.stamp => one = other
  BY <1>1, <1>2, MergedSound
<1> HIDE DEF ranked, shown
<1>8. IsFiniteSet(ranked) /\ ranked \in SUBSET Entry
  BY <1>4, <1>5, <1>7, FS_Subset
<1>9. /\ search' \in Searching
      /\ search'.pc = "done" /\ search'.results = shown
      /\ search'.matched = search.matched
      /\ search'.hasQuery = search.hasQuery /\ search'.scopes = search.scopes
      /\ search'.actor = search.actor /\ search'.limit = search.limit
      /\ search'.perScope = search.perScope
  BY <1>2, <1>3, <1>6, <1>8 DEF Searching
<1>10. \A one : Current(one)' <=> Current(one)
  BY <1>3, <1>9 DEF Current
<1>11. Limit' = Limit BY <1>9 DEF Limit, Search!CandidateLimit
<1>12. MatchedSound' BY <1>2, <1>9, <1>10, <1>11 DEF MatchedSound
<1>13. MatchedComplete' BY <1>9 DEF MatchedComplete
<1>14. ResultsSound'
  <2>1. Search!NoDuplicateResults'
    BY <1>4, <1>5, <1>6, <1>7, <1>9 DEF Search!NoDuplicateResults
  <2>2. ASSUME NEW one \in shown
        PROVE  Current(one)' /\ Search!CanReadMemory(search.actor, one.row)'
    BY <1>4, <1>5, <1>6, <1>7, <1>9, <1>10
    DEF Search!CanReadMemory, Search!IsAdmin
  <2> QED BY <1>9, <2>1, <2>2 DEF ResultsSound
<1>15. Search!BestMatchesReturned'
  <2>1. ASSUME NEW m \in Memories \ touched, Search!Fitting(bank[m]),
               ~(Cardinality(Search!Ahead(m)) >= Limit)
        PROVE  \/ \E one \in shown : one.id = m
               \/ /\ search.perScope # 0
                  /\ Cardinality({r \in shown :
                       r.row.scope = bank[m].scope
                         /\ Search!Above(r, Search!Here(m))}) >= search.perScope
               \/ Cardinality({r \in shown : Search!Above(r, Search!Here(m))})
                    >= search.limit
    <3>1. PICK one \in Chosen : one.id = m /\ one.row = bank[m]
      BY <1>1, <2>1, FittingIsChosen
    <3>2. one \in ranked
      <4>1. bank[m] \in SearchRow BY <1>1 DEF BankSound
      <4>2. /\ Search!CanReadMemory(search.actor, bank[m])
            /\ Search!Score(bank[m]) > 0
        BY <1>1, <2>1, <4>1, FittingIsRanked DEF SearchSound
      <4> QED BY <3>1, <4>2 DEF ranked, Search!Ranked
    <3>3. \A r : Search!Above(r, one) <=> Search!Above(r, Search!Here(m))
      BY <3>1 DEF Search!Above, Search!Here
    <3>4. \/ one \in shown
          \/ /\ search.perScope # 0
             /\ Cardinality({r \in shown :
                  r.row.scope = one.row.scope /\ Search!Above(r, one)})
                  >= search.perScope
          \/ Cardinality({r \in shown : Search!Above(r, one)}) >= search.limit
      <4>1. \A a, b \in ranked : a.row.stamp = b.row.stamp => a = b
        BY <1>4, <1>5, <1>7
      <4> QED BY <1>2, <1>8, <3>2, <4>1, HiddenBehindBetter DEF shown
    <3>5. /\ {r \in shown : r.row.scope = one.row.scope /\ Search!Above(r, one)}
               = {r \in shown : r.row.scope = bank[m].scope
                                  /\ Search!Above(r, Search!Here(m))}
          /\ {r \in shown : Search!Above(r, one)}
               = {r \in shown : Search!Above(r, Search!Here(m))}
      BY <3>1, <3>3
    <3> QED BY <3>1, <3>4, <3>5
  <2>2. \A m \in Memories \ touched :
          /\ Search!Fitting(bank[m])' <=> Search!Fitting(bank[m])
          /\ Search!Ahead(m)' = Search!Ahead(m)
          /\ \A r : Search!Above(r, Search!Here(m))'
                      <=> Search!Above(r, Search!Here(m))
    BY <1>3, <1>9
    DEF Search!Fitting, Search!Ahead, Search!Above, Search!Here, Search!Score,
        Search!Newer
  <2>3. ASSUME NEW m \in Memories \ touched, Search!Fitting(bank[m])'
        PROVE  LET above == {one \in shown : Search!Above(one, Search!Here(m))'}
                   sameScope == {one \in above : one.row.scope = bank[m].scope}
               IN \/ \E one \in shown : one.id = m
                  \/ Cardinality(Search!Ahead(m)') >= Limit'
                  \/ /\ search.perScope # 0
                     /\ Cardinality(sameScope) >= search.perScope
                  \/ Cardinality(above) >= search.limit
    <3>1. {one \in shown : Search!Above(one, Search!Here(m))'}
            = {one \in shown : Search!Above(one, Search!Here(m))}
      BY <2>2
    <3>2. {one \in {r \in shown : Search!Above(r, Search!Here(m))} :
             one.row.scope = bank[m].scope}
            = {r \in shown : r.row.scope = bank[m].scope
                               /\ Search!Above(r, Search!Here(m))}
      OBVIOUS
    <3> QED BY <1>11, <2>1, <2>2, <2>3, <3>1, <3>2
  <2> QED
    BY <1>3, <1>9, <2>3, SameCount DEF Search!BestMatchesReturned, Limit
<1>16. BankSound' BY <1>1, <1>3 DEF BankSound
<1>17. search'.scopes \subseteq {search'.actor, Repo, Org}
  BY <1>1, <1>9 DEF SearchSound
<1> QED
  BY <1>9, <1>12, <1>13, <1>14, <1>15, <1>16, <1>17 DEF SearchInv, SearchSound

\* The invariant holds at first, and every step keeps it.
LEMMA SearchInit ==
  Search!SearchConstants /\ Search!Init => SearchInv
<1>1. ASSUME Search!SearchConstants, Search!Init PROVE SearchInv
  <2>1. MaxStamp \in Nat BY <1>1 DEF Search!SearchConstants
  <2>2. Search!NoRow \in SearchRow
    BY DEF SearchRow, Search!NoRow, Search!Scopes
  <2> QED
    BY <1>1, <2>1, <2>2 DEF Search!Init, SearchInv, BankSound, Search!NoRow
<1> QED BY <1>1

LEMMA SearchStep ==
  ASSUME Search!SearchConstants, SearchInv, [Search!Next]_Search!vars
  PROVE  SearchInv'
<1>1. ASSUME NEW m \in Memories,
             \/ Search!CreateMemory(m)
             \/ Search!UpdateMemory(m)
             \/ Search!ArchiveMemory(m)
      PROVE  SearchInv'
  BY <1>1, WritingSafe
<1>2. ASSUME NEW actor \in Searchers, Search!StartSearch(actor)
      PROVE  SearchInv'
  BY <1>2, StartSafe
<1>3. CASE Search!FetchMatching BY <1>3, FetchMatchingSafe
<1>4. CASE Search!FetchRecent BY <1>4, FetchRecentSafe
<1>5. CASE Search!Answer BY <1>5, AnswerSafe
<1>6. CASE UNCHANGED Search!vars
  <2>1. bank' = bank /\ clock' = clock /\ search' = search /\ touched' = touched
    BY <1>6 DEF Search!vars
  <2>2. BankSound' <=> BankSound BY <2>1 DEF BankSound
  <2>3. MatchedSound' <=> MatchedSound
    BY <2>1 DEF MatchedSound, Current, Limit, Search!CandidateLimit
  <2>4. MatchedComplete' <=> MatchedComplete
    BY <2>1
    DEF MatchedComplete, AsRead, Limit, Search!CandidateLimit, Search!Ahead,
        Search!Fitting, Search!Newer, Search!Here
  <2>5. ResultsSound' <=> ResultsSound
    BY <2>1
    DEF ResultsSound, Current, Search!NoDuplicateResults,
        Search!CanReadMemory, Search!IsAdmin
  <2>6. Search!BestMatchesReturned' <=> Search!BestMatchesReturned
    BY <2>1
    DEF Search!BestMatchesReturned, Search!CandidateLimit, Search!Ahead,
        Search!Fitting, Search!Newer, Search!Here, Search!Above, Search!Score
  <2> QED
    BY <2>1, <2>2, <2>3, <2>4, <2>5, <2>6 DEF SearchInv, SearchSound
<1> QED BY <1>1, <1>2, <1>3, <1>4, <1>5, <1>6 DEF Search!Next

\* What a search has read, and what it shows, is so in every state.
THEOREM SearchesStaySound ==
  ASSUME Search!SearchConstants
  PROVE  Search!Spec => []SearchInv
<1>1. Search!Init => SearchInv BY SearchInit
<1>2. SearchInv /\ [Search!Next]_Search!vars => SearchInv' BY SearchStep
<1> QED BY <1>1, <1>2, PTL DEF Search!Spec

\* The types of the bank and of the search.
THEOREM SearchTypesCorrect ==
  ASSUME Search!SearchConstants
  PROVE  Search!Spec => []Search!TypeOK
<1>1. SearchInv => Search!TypeOK
  <2>1. ASSUME SearchInv PROVE Search!TypeOK
    <3>1. clock \in Nat /\ clock \in 0 .. MaxStamp
      BY <2>1 DEF SearchInv, BankSound, Search!SearchConstants
    <3>2. \A row \in SearchRow : row.stamp <= clock => Search!RowOK(row)
      BY <3>1 DEF SearchRow, Search!RowOK
    <3>3. /\ \A m \in Memories : Search!RowOK(bank[m])
          /\ touched \subseteq Memories
      BY <2>1, <3>2 DEF SearchInv, BankSound
    <3>4. CASE search = Search!NoSearch
      BY <3>1, <3>3, <3>4 DEF Search!TypeOK, Search!NoSearch
    <3>5. CASE SearchSound
      <4>1. search \in Searching /\ ResultsSound BY <3>5 DEF SearchSound
      <4>2. ASSUME NEW one \in search.results
            PROVE  one.id \in Memories /\ Search!RowOK(one.row)
        <5>1. one \in Entry /\ Current(one)
          BY <4>1 DEF Searching, ResultsSound
        <5> QED BY <3>2, <5>1 DEF Entry, Current
      <4> QED BY <3>1, <3>3, <4>1, <4>2 DEF Search!TypeOK, Searching
    <3> QED BY <2>1, <3>4, <3>5 DEF SearchInv
  <2> QED BY <2>1
<1> QED BY <1>1, SearchesStaySound, PTL

\* A memory edited between the two queries is one result.
THEOREM ResultsAreDistinct ==
  ASSUME Search!SearchConstants
  PROVE  Search!Spec => []Search!NoDuplicateResults
<1>1. SearchInv => Search!NoDuplicateResults
  BY DEF SearchInv, SearchSound, ResultsSound, Search!NoDuplicateResults,
         Search!NoSearch
<1> QED BY <1>1, SearchesStaySound, PTL

\* What was archived or replaced before a search began is not shown by it.
THEOREM ResultsStayCurrent ==
  ASSUME Search!SearchConstants
  PROVE  Search!Spec => []Search!ResultsAreCurrent
<1>1. SearchInv => Search!ResultsAreCurrent
  BY DEF SearchInv, SearchSound, ResultsSound, Current,
         Search!ResultsAreCurrent, Search!NoSearch
<1> QED BY <1>1, SearchesStaySound, PTL

\* What a search leaves out stands behind better ones.
THEOREM SearchesReturnTheBest ==
  ASSUME Search!SearchConstants
  PROVE  Search!Spec => []Search!BestMatchesReturned
<1>1. SearchInv => Search!BestMatchesReturned
  BY DEF SearchInv, SearchSound, Search!BestMatchesReturned, Search!NoSearch
<1> QED BY <1>1, SearchesStaySound, PTL

-----------------------------------------------------------------------------
(* The parts together.                                                     *)

SavesPart == INSTANCE BatchSaveProofs
ListsPart == INSTANCE ListingsProofs
               WITH Actors <- Readers, Rows <- Memories,
                    MaxStamp <- MaxListStamp,
                    memories <- listedMemories, proposals <- listedProposals,
                    clock <- listClock

\* The sessions of the composition keep to McpSessions.
LEMMA SessionsKeepTo == Spec => Sessions!Spec
<1>1. Init => Sessions!Init BY DEF Init
<1>2. [Next]_vars => [Sessions!Next]_Sessions!vars
  BY DEF Next, vars, sessionVars, Sessions!vars
<1> QED BY <1>1, <1>2, PTL DEF Spec, Sessions!Spec

\* So do its searches.
LEMMA SearchesKeepTo == Spec => Search!Spec
<1>1. Init => Search!Init BY DEF Init
<1>2. [Next]_vars => [Search!Next]_Search!vars
  BY DEF Next, vars, searchVars, Search!vars
<1> QED BY <1>1, <1>2, PTL DEF Spec, Search!Spec

\* BatchSave and the module it is proved in are the same specification.
LEMMA SameSaves ==
  /\ Saves!Init <=> SavesPart!Init
  /\ Saves!Next <=> SavesPart!Next
  /\ Saves!vars = SavesPart!vars
BY DEF Saves!Init, SavesPart!Init, Saves!Next, SavesPart!Next, Saves!vars,
       SavesPart!vars, Saves!Batch, SavesPart!Batch, Saves!Fact,
       SavesPart!Fact, Saves!Row, SavesPart!Row, Saves!Actor, SavesPart!Actor,
       Saves!Record, SavesPart!Record, Saves!Refused, SavesPart!Refused,
       Saves!Compose, SavesPart!Compose, Saves!Begin, SavesPart!Begin,
       Saves!Found, SavesPart!Found, Saves!GoTo, SavesPart!GoTo,
       Saves!HeldByOthers, SavesPart!HeldByOthers, Saves!RequiresReview,
       SavesPart!RequiresReview, Saves!CheckFact, SavesPart!CheckFact,
       Saves!KeyTaken, SavesPart!KeyTaken, Saves!InsertProposal,
       SavesPart!InsertProposal, Saves!StoreFact, SavesPart!StoreFact,
       Saves!Fail, SavesPart!Fail, Saves!LogAudit, SavesPart!LogAudit,
       Saves!Die, SavesPart!Die, Saves!Apply, SavesPart!Apply

\* Its calls and attempts keep to BatchSave.
LEMMA SavesKeepTo == Spec => SavesPart!Spec
<1>1. Init => SavesPart!Init BY SameSaves DEF Init
<1>2. [Next]_vars => [SavesPart!Next]_SavesPart!vars
  BY SameSaves DEF Next, vars, saveVars, Saves!vars, SavesPart!vars
<1> QED BY <1>1, <1>2, PTL DEF Spec, SavesPart!Spec

\* Listings and the module it is proved in are the same specification.
LEMMA SameLists ==
  /\ Lists!Init <=> ListsPart!Init
  /\ Lists!MemoryNext <=> ListsPart!MemoryNext
  /\ Lists!ProposalNext <=> ListsPart!ProposalNext
  /\ Lists!vars = ListsPart!vars
BY DEF Lists!NoRow, ListsPart!NoRow, Lists!NoWalk, ListsPart!NoWalk,
       Lists!HasStatus, ListsPart!HasStatus, Lists!InSection,
       ListsPart!InSection, Lists!Readable, ListsPart!Readable, Lists!IsAdmin,
       ListsPart!IsAdmin, Lists!CanReadProposal, ListsPart!CanReadProposal,
       Lists!Matches, ListsPart!Matches, Lists!Noted, ListsPart!Noted,
       Lists!Scopes, ListsPart!Scopes, Lists!CreateMemory,
       ListsPart!CreateMemory, Lists!ChangeMemory, ListsPart!ChangeMemory,
       Lists!WriteMemory, ListsPart!WriteMemory, Lists!SubmitProposal,
       ListsPart!SubmitProposal, Lists!DecideProposal,
       ListsPart!DecideProposal, Lists!WriteProposal, ListsPart!WriteProposal,
       Lists!Start, ListsPart!Start, Lists!StartMemories,
       ListsPart!StartMemories, Lists!StartProposals,
       ListsPart!StartProposals, Lists!NewestFirst, ListsPart!NewestFirst,
       Lists!Ahead, ListsPart!Ahead, Lists!Page, ListsPart!Page, Lists!Show,
       ListsPart!Show, Lists!ListMemories, ListsPart!ListMemories,
       Lists!ListProposals, ListsPart!ListProposals, Lists!EndWalk,
       ListsPart!EndWalk, Lists!MemoryNext, ListsPart!MemoryNext,
       Lists!ProposalNext, ListsPart!ProposalNext, Lists!Init, ListsPart!Init,
       Lists!tables, ListsPart!tables, Lists!vars, ListsPart!vars,
       Lists!Cardinality, ListsPart!Cardinality

\* Its tables and walks keep to Listings.
LEMMA ListsKeepTo == Spec => ListsPart!Spec
<1>1. Init => ListsPart!Init BY SameLists DEF Init
<1>2. [Next]_vars => [ListsPart!Next]_ListsPart!vars
  BY SameLists
  DEF Next, vars, listVars, Lists!vars, Lists!tables, ListsPart!vars,
      ListsPart!tables, ListsPart!Next
<1> QED BY <1>1, <1>2, PTL DEF Spec, ListsPart!Spec

\* The properties are those of the modules the proofs are in.
LEMMA SameSaveProperties ==
  /\ SavesPart!AnswerIsTrue <=> AnswerIsTrue
  /\ SavesPart!RetriesAgree <=> RetriesAgree
  /\ SavesPart!AuditFollowsStore <=> AuditFollowsStore
BY DEF AnswerIsTrue, RetriesAgree, AuditFollowsStore,
       Saves!AnswerIsTrue, SavesPart!AnswerIsTrue, Saves!RetriesAgree,
       SavesPart!RetriesAgree, Saves!AuditFollowsStore,
       SavesPart!AuditFollowsStore, Saves!Answered, SavesPart!Answered,
       Saves!SavedCount, SavesPart!SavedCount, Saves!ProposalCount,
       SavesPart!ProposalCount, Saves!ErrorCount, SavesPart!ErrorCount,
       Saves!Batch, SavesPart!Batch, Saves!Actor, SavesPart!Actor, Saves!Rows,
       SavesPart!Rows, Saves!Quantify, SavesPart!Quantify, Saves!Cardinality,
       SavesPart!Cardinality

\* The same for the lists.
LEMMA SameListProperties ==
  /\ ListsPart!ListedIsReadable <=> ListedIsReadable
  /\ ListsPart!WalkIsComplete <=> WalkIsComplete
BY DEF ListedIsReadable, WalkIsComplete,
       Lists!ListedIsReadable, ListsPart!ListedIsReadable,
       Lists!WalkIsComplete, ListsPart!WalkIsComplete, Lists!Permitted,
       ListsPart!Permitted, Lists!Readable, ListsPart!Readable,
       Lists!CanReadMemory, ListsPart!CanReadMemory, Lists!CanReadProposal,
       ListsPart!CanReadProposal, Lists!IsAdmin, ListsPart!IsAdmin,
       Lists!Scopes, ListsPart!Scopes, Lists!Wanted, ListsPart!Wanted,
       Lists!HasStatus, ListsPart!HasStatus, Lists!InSection,
       ListsPart!InSection, Lists!Matches, ListsPart!Matches,
       Lists!NewestFirst, ListsPart!NewestFirst, Lists!Cardinality,
       ListsPart!Cardinality

\* The hypotheses of the theorems about the parts.
LEMMA PartsApply ==
  /\ Search!SearchConstants
  /\ SavesPart!BatchConstants
  /\ ListsPart!ListConstants
BY TheoremsApply
   DEF TheoremsApply, Saves!BatchConstants, SavesPart!BatchConstants, Saves!Call,
       SavesPart!Call, Lists!ListConstants, ListsPart!ListConstants,
       Lists!IsFiniteSet, ListsPart!IsFiniteSet

\* The middleware puts no id into a request but one that this run of this
\* process has answered the same client with.
THEOREM EndpointInjectsKnownIds == Spec => []InjectedIsKnown
<1>1. Sessions!Spec => []Sessions!InjectedIsKnown
  BY PartsApply, InjectedWasAnswered
<1> QED BY <1>1, SessionsKeepTo, PTL DEF InjectedIsKnown

\* What save_memories answers is what was stored.
THEOREM EndpointAnswersAreTrue == Spec => []AnswerIsTrue
<1>1. SavesPart!Spec => []SavesPart!AnswerIsTrue
  BY PartsApply, SavesPart!AnswersAreTrue
<1> QED BY <1>1, SavesKeepTo, SameSaveProperties, PTL

\* A call sent again is told of the same proposals.
THEOREM EndpointRetriesAgree == Spec => []RetriesAgree
<1>1. SavesPart!Spec => []SavesPart!RetriesAgree
  BY PartsApply, SavesPart!RetriesAreTheSame
<1> QED BY <1>1, SavesKeepTo, SameSaveProperties, PTL

\* The audit log of saves speaks of stored rows.
THEOREM EndpointAuditFollows == Spec => []AuditFollowsStore
<1>1. SavesPart!Spec => []SavesPart!AuditFollowsStore
  BY PartsApply, SavesPart!AuditRowsFollow
<1> QED BY <1>1, SavesKeepTo, SameSaveProperties, PTL

\* Lists show what single reads show.
THEOREM EndpointListsReadable == Spec => []ListedIsReadable
<1>1. ListsPart!Spec => []ListsPart!ListedIsReadable
  BY PartsApply, ListsPart!ListsShowReadable
<1> QED BY <1>1, ListsKeepTo, SameListProperties, PTL

\* Reading on, a client misses nothing that stood still in a list that
\* nothing left.
THEOREM EndpointWalksComplete == Spec => []WalkIsComplete
<1>1. ListsPart!Spec => []ListsPart!WalkIsComplete
  BY PartsApply, ListsPart!WalksAreComplete
<1> QED BY <1>1, ListsKeepTo, SameListProperties, PTL

\* A memory that is edited during a search is one result of it.
THEOREM EndpointResultsDistinct == Spec => []NoDuplicateResults
<1>1. Search!Spec => []Search!NoDuplicateResults
  BY PartsApply, ResultsAreDistinct
<1> QED BY <1>1, SearchesKeepTo, PTL DEF NoDuplicateResults

\* A search shows nothing that was archived or replaced before it began.
THEOREM EndpointResultsCurrent == Spec => []ResultsAreCurrent
<1>1. Search!Spec => []Search!ResultsAreCurrent
  BY PartsApply, ResultsStayCurrent
<1> QED BY <1>1, SearchesKeepTo, PTL DEF ResultsAreCurrent

\* Its limits hide a memory that fits only behind better ones.
THEOREM EndpointReturnsTheBest == Spec => []BestMatchesReturned
<1>1. Search!Spec => []Search!BestMatchesReturned
  BY PartsApply, SearchesReturnTheBest
<1> QED BY <1>1, SearchesKeepTo, PTL DEF BestMatchesReturned

\* The types of all parts.
THEOREM EndpointTypesCorrect == Spec => []TypesOK
<1>1. Search!Spec => []Search!TypeOK BY PartsApply, SearchTypesCorrect
<1>2. Sessions!Spec => []Sessions!TypeOK BY PartsApply, SessionTypesCorrect
<1>3. SavesPart!Spec => []SavesPart!TypeOK
  BY PartsApply, SavesPart!SaveTypesCorrect
<1>4. ListsPart!Spec => []ListsPart!TypeOK
  BY PartsApply, ListsPart!ListTypesCorrect
<1>5. SavesPart!TypeOK <=> Saves!TypeOK
  BY DEF Saves!TypeOK, SavesPart!TypeOK, Saves!Batch, SavesPart!Batch
<1>6. ListsPart!TypeOK <=> Lists!TypeOK
  BY DEF Lists!TypeOK, ListsPart!TypeOK
<1>7. Search!TypeOK /\ Sessions!TypeOK /\ SavesPart!TypeOK /\ ListsPart!TypeOK
        => TypesOK
  BY <1>5, <1>6 DEF TypesOK
<1> QED
  BY <1>1, <1>2, <1>3, <1>4, <1>7, SearchesKeepTo, SessionsKeepTo, SavesKeepTo,
     ListsKeepTo, PTL
=============================================================================
