---------------------------- MODULE MemoryServer ----------------------------
(***************************************************************************)
(* The front of the memory server (internal/memory/mcp_server.go): its     *)
(* WebSocket clients, each read by a goroutine that answers one request    *)
(* after the other, the map of clients with its lock, the broadcast to     *)
(* them and the stop of the server.  What a tool does to the graph is in   *)
(* MemoryGraph; here it succeeds or fails.                                 *)
(***************************************************************************)
EXTENDS Naturals, FiniteSets

CONSTANTS Conns,      \* WebSocket connections
          MaxAsked    \* bound on the requests of a connection

VARIABLES serving,    \* "running", "closing" (connections closed), "stopped"
          clients,    \* s.clients
          conn        \* conn[c]: its goroutine, its socket, its peer, its requests

serverVars == <<serving, clients, conn>>

Methods == {"tools/list", "tools/call", "tools/call without tool", "other"}

Init ==
    /\ serving = "running"
    /\ clients = {}
    /\ conn = [c \in Conns |-> [pc |-> "none", open |-> FALSE, peer |-> TRUE, method |-> "", asked |-> 0, answered |-> 0]]

(***************************************************************************)
(* websocketHandler: upgrade, enter the map, welcome, start the reader.    *)
(* When the welcome cannot be sent the handler returns with the client in  *)
(* the map.                                                                *)
(***************************************************************************)
Upgrade(c) ==
    /\ serving # "stopped"
    /\ conn[c].pc = "none"
    /\ clients' = clients \cup {c}
    /\ conn' = [conn EXCEPT ![c].pc = "welcome", ![c].open = TRUE]
    /\ UNCHANGED serving

\* A write reaches the peer or, when one side has closed, fails.
CanWrite(c) == conn[c].open /\ conn[c].peer

Welcome(c) ==
    /\ conn[c].pc = "welcome"
    /\ conn' = [conn EXCEPT ![c].pc = IF CanWrite(c) THEN "reading" ELSE "abandoned"]
    /\ UNCHANGED <<serving, clients>>

(***************************************************************************)
(* handleWebSocketMessages.                                                *)
(***************************************************************************)
ReadRequest(c) ==
    /\ conn[c].pc = "reading"
    /\ CanWrite(c)
    /\ conn[c].asked < MaxAsked
    /\ \E m \in Methods :
           conn' = [conn EXCEPT ![c].pc = "handling", ![c].method = m, ![c].asked = @ + 1]
    /\ UNCHANGED <<serving, clients>>

MutReadFails(c) ==
    /\ conn[c].pc = "reading"
    /\ conn[c].open
    /\ ~conn[c].peer
    /\ conn[c].asked < MaxAsked
    /\ conn' = [conn EXCEPT ![c].asked = @ + 1]
    /\ UNCHANGED <<serving, clients>>

\* A message that is not a request, or a connection that is closed on either
\* side, ends the loop.
ReadFails(c) ==
    /\ conn[c].pc = "reading"
    /\ conn' = [conn EXCEPT ![c].pc = "ending"]
    /\ UNCHANGED <<serving, clients>>

\* The answer to tools/list and to a call, a result or an error, must be
\* written; a call without a tool is not answered at all; when the answer to an
\* unknown method cannot be written the loop goes on.
Answer(c) ==
    /\ conn[c].pc = "handling"
    /\ \/ /\ conn[c].method \in {"tools/list", "tools/call"}
          /\ conn' = IF CanWrite(c)
                     THEN [conn EXCEPT ![c].pc = "reading", ![c].answered = @ + 1]
                     ELSE [conn EXCEPT ![c].pc = "ending"]
       \/ /\ conn[c].method = "tools/call without tool"
          /\ conn' = [conn EXCEPT ![c].pc = "reading"]
       \/ /\ conn[c].method = "other"
          /\ conn' = [conn EXCEPT ![c].pc = "reading",
                                  ![c].answered = IF CanWrite(c) THEN @ + 1 ELSE @]
    /\ UNCHANGED <<serving, clients>>

\* The deferred clean-up.
Cleanup(c) ==
    /\ conn[c].pc = "ending"
    /\ clients' = clients \ {c}
    /\ conn' = [conn EXCEPT ![c].pc = "ended", ![c].open = FALSE]
    /\ UNCHANGED serving

PeerLeaves(c) ==
    /\ conn[c].open
    /\ conn[c].peer
    /\ conn' = [conn EXCEPT ![c].peer = FALSE]
    /\ UNCHANGED <<serving, clients>>

(***************************************************************************)
(* The operations on all clients.                                          *)
(***************************************************************************)
Close(set) == conn' = [c \in Conns |-> IF c \in set THEN [conn[c] EXCEPT !.open = FALSE] ELSE conn[c]]

BroadcastToClients ==
    LET dead == {c \in clients : ~CanWrite(c)}
    IN  /\ dead # {}
        /\ clients' = clients \ dead
        /\ Close(dead)
        /\ UNCHANGED serving

Stop ==
    /\ serving = "running"
    /\ serving' = "closing"
    /\ clients' = {}
    /\ Close(clients)

\* Shutdown refuses new requests and waits for the handlers, at most five
\* seconds; it does not know of the connections that were upgraded.
Shutdown ==
    /\ serving = "closing"
    /\ serving' = "stopped"
    /\ UNCHANGED <<clients, conn>>

handleWebSocketMessages(c) == ReadRequest(c) \/ ReadFails(c) \/ Answer(c) \/ Cleanup(c)

websocketHandler(c) == Upgrade(c) \/ Welcome(c)

Next ==
    \/ \E c \in Conns : websocketHandler(c) \/ handleWebSocketMessages(c) \/ PeerLeaves(c)
    \/ BroadcastToClients \/ Stop \/ Shutdown

\* The goroutines of a connection run; a read returns when the connection is
\* closed or the peer has left.
Fairness ==
    \A c \in Conns :
        /\ WF_serverVars(Welcome(c))
        /\ WF_serverVars(ReadFails(c) /\ ~CanWrite(c))
        /\ WF_serverVars(Answer(c))
        /\ WF_serverVars(Cleanup(c))

Spec == Init /\ [][Next]_serverVars /\ Fairness

(***************************************************************************)
(* Properties.                                                             *)
(***************************************************************************)
\* A welcomed client whose connection is closed on either side leaves the map,
\* its goroutine ends and its socket is closed: by the reader, a broadcast or
\* the stop, in any order.
GoneClientIsRemoved ==
    \A c \in Conns :
        (conn[c].pc \in {"reading", "handling"} /\ ~CanWrite(c))
            ~> (conn[c].pc = "ended" /\ c \notin clients /\ ~conn[c].open)
=============================================================================
