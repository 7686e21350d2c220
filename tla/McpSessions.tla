----------------------------- MODULE McpSessions -----------------------------
(***************************************************************************)
(* _mcp_http_compatibility_middleware of app/routers/mcp_router.py: each   *)
(* server process remembers, per client name and bearer token, the last    *)
(* MCP session id it saw in an answer, and adds it to requests that carry  *)
(* none.  The MCP library behind the middleware opens sessions, ends them  *)
(* and answers 404 for the ids it does not know.  Requests of one client   *)
(* overlap, and a process may restart with an empty map.                   *)
(***************************************************************************)
EXTENDS FiniteSets

CONSTANTS Processes,    \* server processes, each with a map of its own
          Workers,      \* requests in flight
          Names,        \* values of x-engram-client
          Tokens,       \* values of authorization
          SessionIds,
          NoId

VARIABLES remembered,   \* _mcp_session_ids_by_client of each process
          live,         \* sessions the library of each process has open
          answered,     \* ids this run of a process has answered each client with
          given,        \* ids any process ever answered anybody with
          request

vars == <<remembered, live, answered, given, request>>

McpClients == Names \X Tokens
NoRequest == [pc |-> "idle"]

\* Mutant: the token is left out of the key.
KeyWithoutToken(client) == client[1]
ClientKey(client) == client

Init ==
  /\ remembered = [p \in Processes |-> [k \in {ClientKey(c) : c \in McpClients} |-> NoId]]
  /\ live = [p \in Processes |-> {}]
  /\ answered = [p \in Processes |-> [c \in McpClients |-> {}]]
  /\ given = {}
  /\ request = [w \in Workers |-> NoRequest]

-----------------------------------------------------------------------------
(* The middleware.                                                         *)

\* Up to the first await: the map is read, its id injected if the request
\* has none.  An id of its own may come from anybody's answer: a client keeps
\* its session when its token is renewed.  A GET without an id is answered
\* by the probe stream; with an id, the library treats all but DELETE alike.
Receive(w) ==
  /\ request[w].pc = "idle"
  /\ \E p \in Processes, c \in McpClients,
        method \in {"initialize", "call", "get", "delete"} :
     \E own \in given \cup {NoId} :
       LET id == IF own # NoId THEN own ELSE remembered[p][ClientKey(c)]
       IN request' = [request EXCEPT ![w] =
            IF method = "get" /\ id = NoId THEN NoRequest
            ELSE [pc |-> IF method \in {"initialize", "call"} /\ id = NoId
                         THEN "body" ELSE "call_next",
                  process |-> p, client |-> c, id |-> id,
                  method |-> IF id # NoId /\ method # "delete" THEN "call"
                             ELSE method,
                  injected |-> own = NoId /\ id # NoId]]
  /\ UNCHANGED <<remembered, live, answered, given>>

\* The body of a POST without an id has arrived.  Unless it initializes, it
\* takes an id that was remembered meanwhile out of the map.
ReadBody(w) ==
  /\ request[w].pc = "body"
  /\ LET r == request[w]
         stale == remembered[r.process][ClientKey(r.client)]
     IN IF r.method = "call" /\ stale # NoId
        THEN /\ remembered' = [remembered EXCEPT
                  ![r.process][ClientKey(r.client)] = NoId]
             /\ request' = [request EXCEPT ![w] =
                  [r EXCEPT !.pc = "call_next", !.id = stale,
                            !.injected = TRUE]]
        ELSE /\ request' = [request EXCEPT ![w].pc = "call_next"]
             /\ UNCHANGED remembered
  /\ UNCHANGED <<live, answered, given>>

\* An answer with an id is remembered, a 404 without one forgets.
Respond(w) ==
  /\ request[w].pc = "answered"
  /\ LET r == request[w] IN
     /\ remembered' = [remembered EXCEPT ![r.process][ClientKey(r.client)] =
          IF r.id # NoId THEN r.id ELSE IF r.notFound THEN NoId ELSE @]
     /\ IF r.id # NoId
        THEN /\ answered' = [answered EXCEPT ![r.process][r.client] = @ \cup {r.id}]
             /\ given' = given \cup {r.id}
        ELSE UNCHANGED <<answered, given>>
  /\ request' = [request EXCEPT ![w] = NoRequest]
  /\ UNCHANGED live

-----------------------------------------------------------------------------
(* The MCP library and the process.                                        *)

Reply(w, id, notFound) ==
  request' = [request EXCEPT ![w] =
    [pc |-> "answered", process |-> request[w].process,
     client |-> request[w].client, id |-> id, notFound |-> notFound]]

\* A known session answers with its id, also to the DELETE that ends it.
ServeSession(w) ==
  /\ request[w].pc = "call_next"
  /\ LET r == request[w] IN
     /\ r.id \in live[r.process]
     /\ live' = [live EXCEPT ![r.process] =
                   IF r.method = "delete" THEN @ \ {r.id} ELSE @]
     /\ Reply(w, r.id, FALSE)
  /\ UNCHANGED <<remembered, answered, given>>

\* Initialize without an id opens a session.
OpenSession(w) ==
  /\ request[w].pc = "call_next"
  /\ request[w].id = NoId
  /\ request[w].method = "initialize"
  /\ \E id \in SessionIds :
       /\ \A p \in Processes : id \notin live[p]
       /\ id \notin given
       /\ \A v \in Workers : request[v].pc = "answered" => request[v].id # id
       /\ live' = [live EXCEPT ![request[w].process] = @ \cup {id}]
       /\ Reply(w, id, FALSE)
  /\ UNCHANGED <<remembered, answered, given>>

\* An id it does not know is a 404, no id where one is needed a 400.
Refuse(w) ==
  /\ request[w].pc = "call_next"
  /\ request[w].id \notin live[request[w].process]
  /\ request[w].id = NoId => request[w].method # "initialize"
  /\ Reply(w, NoId, request[w].id # NoId)
  /\ UNCHANGED <<remembered, live, answered, given>>

\* The client hangs up and the middleware is cancelled where it waits.
Disconnect(w) ==
  /\ request[w].pc # "idle"
  /\ request' = [request EXCEPT ![w] = NoRequest]
  /\ UNCHANGED <<remembered, live, answered, given>>

\* Mutant: the map is kept somewhere a restart does not reach.
RestartKeepingMap(p) ==
  /\ live' = [live EXCEPT ![p] = {}]
  /\ answered' = [answered EXCEPT ![p] = [c \in McpClients |-> {}]]
  /\ request' = [w \in Workers |->
       IF request[w].pc # "idle" /\ request[w].process = p
       THEN NoRequest ELSE request[w]]
  /\ UNCHANGED <<remembered, given>>
Restart(p) ==
  /\ remembered' = [remembered EXCEPT ![p] =
                      [k \in {ClientKey(c) : c \in McpClients} |-> NoId]]
  /\ live' = [live EXCEPT ![p] = {}]
  /\ answered' = [answered EXCEPT ![p] = [c \in McpClients |-> {}]]
  /\ request' = [w \in Workers |->
       IF request[w].pc # "idle" /\ request[w].process = p
       THEN NoRequest ELSE request[w]]
  /\ UNCHANGED given

Next ==
  \/ \E w \in Workers : Receive(w) \/ ReadBody(w) \/ Respond(w)
                          \/ ServeSession(w) \/ OpenSession(w) \/ Refuse(w)
                          \/ Disconnect(w)
  \/ \E p \in Processes : Restart(p)

Spec == Init /\ [][Next]_vars
-----------------------------------------------------------------------------
(* Properties.                                                             *)

Ids == SessionIds \cup {NoId}

\* The types of the maps, the sessions and the requests.
TypeOK ==
  /\ \A p \in Processes :
       /\ \A c \in McpClients : remembered[p][ClientKey(c)] \in Ids
       /\ live[p] \subseteq SessionIds
  /\ given \subseteq SessionIds
  /\ \A w \in Workers :
       /\ request[w].pc \in {"idle", "body", "call_next", "answered"}
       /\ request[w].pc # "idle" => /\ request[w].process \in Processes
                                   /\ request[w].client \in McpClients
                                   /\ request[w].id \in Ids

\* The id the middleware adds to a request is one that this run of this
\* process has answered the same name and token with, none from before a
\* restart and none it answered others only with, however requests of
\* several clients overlap with ends of sessions and restarts.
InjectedIsKnown ==
  \A w \in Workers :
    request[w].pc = "call_next" /\ request[w].injected =>
      request[w].id \in answered[request[w].process][request[w].client]

=============================================================================
