---------------------------- MODULE ToolRouting ----------------------------
(***************************************************************************)
(* How the proxy finds the server for a request.  POST /name is a tool     *)
(* call when the tool cache knows the name, and goes to the server of that *)
(* name otherwise.  The cache is replaced as a whole by discoverTools,     *)
(* which asks the connected servers one after another; the five-minute     *)
(* loop runs it, and so does every request that meets an empty or expired  *)
(* cache, so that several discoveries may be under way and end in another  *)
(* order than they began.                                                  *)
(*                                                                         *)
(* The connections are the connection manager's: here they come, go and    *)
(* change as they please.  A tool may have the name of a server.           *)
(***************************************************************************)
EXTENDS Integers, FiniteSets

CONSTANTS Servers, Tools, Requests,
          SSEServers, StreamServers,   \* the others speak plain HTTP
          MaxChanges        \* changes of the servers and reloads

VARIABLES
    server,      \* the MCPConnection of each server and the server behind it
    toolCache,   \* ToolCache
    discovery,   \* the discoverTools under way: of the loop and of requests
    request,     \* ServeHTTP
    loop,        \* toolDiscoveryLoop: "waiting", "discovering", "over"
    stop,        \* ProxyHandler.Stop
    changes      \* counts to MaxChanges

vars == <<server, toolCache, discovery, request, loop, stop, changes>>

None == "none"
Nowhere == [t \in Tools |-> None]
Absent == [status |-> "absent", tools |-> {}]
Idle == [todo |-> {}, fresh |-> Nowhere]
NoRequest == [at |-> "none", name |-> None, server |-> None, first |-> TRUE,
              discovered |-> FALSE, answer |-> None]
Actors == Requests \cup {"loop"}

Init ==
    /\ server = [s \in Servers |-> Absent]
    /\ toolCache = [tools |-> Nowhere, expired |-> TRUE]
    /\ discovery = [a \in Actors |-> Idle]
    /\ request = [r \in Requests |-> NoRequest]
    /\ loop = "waiting"
    /\ stop = "running"
    /\ changes = 0

Protocol(s) == CASE s \in SSEServers -> "sse" [] s \in StreamServers -> "http-stream"
                 [] OTHER -> "http"

\* GetConnection: the server is known and its status is "connected"; that of
\* one that no longer answers is so still.
GetConnection(s) == s \in Servers /\ server[s].status \in {"connected", "hung"}
Up(s) == server[s].status = "connected"

-----------------------------------------------------------------------------
(* Discovery *)

\* parseToolsFromMCPResponse after initialize, the notification and tools/list:
\* over every protocol, within thirty seconds; nothing of a server that fails.
makeToolsListRequest(s) == IF Up(s) THEN server[s].tools ELSE {}

\* discoverServerTools, of the OpenAPI documents: up to three attempts; over
\* SSE the tools come back in a shape parseToolsResponse does not read, and
\* "http-stream" is an unknown protocol.
discoverServerTools(s) ==
    IF Up(s) /\ Protocol(s) = "http" THEN server[s].tools ELSE {}

\* discoverTools begins with the connections there are.
BeginDiscovery(a) ==
    discovery' = [discovery EXCEPT ![a] =
        [todo |-> {s \in Servers : server[s].status # "absent"}, fresh |-> Nowhere]]

Discovers(a) == IF a = "loop" THEN loop = "discovering" ELSE request[a].at = "discovering"

\* discoverK8sServerTools of the next server, in the order of a map; the
\* connection's status is read only now.
discoverK8sServerTools(a, s) ==
    /\ Discovers(a) /\ s \in discovery[a].todo
    /\ discovery' = [discovery EXCEPT
           ![a].todo = @ \ {s},
           ![a].fresh = [t \in Tools |-> IF t \in makeToolsListRequest(s) THEN s ELSE @[t]]]
    /\ UNCHANGED <<server, toolCache, request, loop, stop, changes>>

MutEndDiscovery(a) ==
    /\ Discovers(a) /\ discovery[a].todo = {}
    /\ toolCache' = [tools |-> [t \in Tools |-> IF discovery[a].fresh[t] = None THEN toolCache.tools[t]
                                               ELSE discovery[a].fresh[t]], expired |-> FALSE]
    /\ discovery' = [discovery EXCEPT ![a] = Idle]
    /\ IF a = "loop" THEN loop' = "waiting" /\ UNCHANGED request
       ELSE request' = [request EXCEPT ![a].at = "lookup", ![a].discovered = TRUE] /\ UNCHANGED loop
    /\ UNCHANGED <<server, stop, changes>>

\* replace: the cache is what this discovery found, for ten minutes.
EndDiscovery(a) ==
    /\ Discovers(a) /\ discovery[a].todo = {}
    /\ toolCache' = [tools |-> discovery[a].fresh, expired |-> FALSE]
    /\ discovery' = [discovery EXCEPT ![a] = Idle]
    /\ IF a = "loop" THEN loop' = "waiting" /\ UNCHANGED request
       ELSE request' = [request EXCEPT ![a].at = "lookup", ![a].discovered = TRUE] /\ UNCHANGED loop
    /\ UNCHANGED <<server, stop, changes>>

\* toolDiscoveryLoop: of a tick and the end, either is taken when both are there.
Tick ==
    /\ loop = "waiting"
    /\ loop' = "discovering"
    /\ BeginDiscovery("loop")
    /\ UNCHANGED <<server, toolCache, request, stop, changes>>

LoopEnds ==
    /\ loop = "waiting" /\ stop # "running"
    /\ loop' = "over"
    /\ UNCHANGED <<server, toolCache, discovery, request, stop, changes>>

Expires ==
    /\ ~toolCache.expired
    /\ toolCache' = [toolCache EXCEPT !.expired = TRUE]
    /\ UNCHANGED <<server, discovery, request, loop, stop, changes>>

-----------------------------------------------------------------------------
(* Requests *)

\* ServeHTTP, past the public paths, authentication and the API.
Arrives(r, name) ==
    /\ request[r] = NoRequest
    /\ request' = [request EXCEPT ![r].at = "find", ![r].name = name]
    /\ UNCHANGED <<server, toolCache, discovery, loop, stop, changes>>

\* FindServerForTool, as far as the check of the cache.
FindServerForTool(r) ==
    /\ request[r].at = "find"
    /\ IF toolCache.tools = Nowhere \/ toolCache.expired
       THEN /\ request' = [request EXCEPT ![r].at = "discovering"]
            /\ BeginDiscovery(r)
       ELSE /\ request' = [request EXCEPT ![r].at = "lookup", ![r].discovered = FALSE]
            /\ UNCHANGED discovery
    /\ UNCHANGED <<server, toolCache, loop, stop, changes>>

Answer(r, a) == request' = [request EXCEPT ![r].at = "done", ![r].answer = a]

\* The lookup.  ServeHTTP asks whether the name is a tool and throws the answer
\* away: handleDirectToolCall asks again.  A name that is no tool may be a
\* server's.
Lookup(r) ==
    LET q == request[r]
        found == IF q.name \in Tools THEN toolCache.tools[q.name] ELSE None
    IN  /\ q.at = "lookup"
        /\ \/ found # None /\ q.first /\ request' = [request EXCEPT ![r].first = FALSE, ![r].at = "find"]
           \/ found # None /\ q.first /\ Answer(r, "invalid request body")
           \/ found # None /\ ~q.first
              /\ request' = [request EXCEPT ![r].at = "call", ![r].server = found]
           \/ found = None /\ ~q.first /\ Answer(r, "tool not found")
           \/ found = None /\ q.first /\ GetConnection(q.name)
              /\ request' = [request EXCEPT ![r].at = "forward", ![r].server = q.name]
           \/ found = None /\ q.first /\ ~GetConnection(q.name) /\ Answer(r, "tool or server not found")
        /\ UNCHANGED <<server, toolCache, discovery, loop, stop, changes>>

\* The rest of handleDirectToolCall.
handleDirectToolCall(r) ==
    LET s == request[r].server
    IN  /\ request[r].at = "call"
        /\ Answer(r, CASE ~GetConnection(s) -> "server not available"
                       [] GetConnection(s) /\ Protocol(s) = "http-stream" -> "unsupported protocol"
                       [] OTHER -> IF ~Up(s) THEN "tool execution failed"
                                   ELSE IF request[r].name \in server[s].tools THEN "result" ELSE "error")
        /\ UNCHANGED <<server, toolCache, discovery, loop, stop, changes>>

\* handleServerForward of a request of the protocol: over SSE the server is
\* asked for its tools, whatever the request was.
handleServerForward(r) ==
    LET s == request[r].server
    IN  /\ request[r].at = "forward"
        /\ Answer(r, CASE ~GetConnection(s) -> "server not available"
                       [] GetConnection(s) /\ Protocol(s) = "http-stream" -> "unsupported protocol"
                       [] OTHER -> IF ~Up(s) THEN "call failed"
                                   ELSE IF Protocol(s) = "sse" THEN "tools" ELSE "response")
        /\ UNCHANGED <<server, toolCache, discovery, loop, stop, changes>>

\* handleOpenAPISpec: a path for every tool of the servers that can be asked.
handleOpenAPISpec(r) ==
    /\ request[r] = NoRequest
    /\ request' = [request EXCEPT ![r].at = "done",
           ![r].answer = IF (UNION {discoverServerTools(s) : s \in Servers}) = {} THEN "no paths" ELSE "paths"]
    /\ UNCHANGED <<server, toolCache, discovery, loop, stop, changes>>

-----------------------------------------------------------------------------
(* The life of the proxy *)

\* A connection is made, lost or dropped; a server changes its tools or fails.
ServerChanges(s) ==
    /\ changes < MaxChanges /\ stop # "over"
    /\ changes' = changes + 1
    /\ \E c \in [status : {"connected"}, tools : SUBSET Tools]
              \cup {[server[s] EXCEPT !.status = x] : x \in {"hung", "error"}} \cup {Absent} :
           c # server[s] /\ server' = [server EXCEPT ![s] = c]
    /\ UNCHANGED <<toolCache, discovery, request, loop, stop>>

\* handleAPIReload: the cache is emptied.
handleAPIReload ==
    /\ changes < MaxChanges
    /\ changes' = changes + 1
    /\ toolCache' = [tools |-> Nowhere, expired |-> TRUE]
    /\ UNCHANGED <<server, discovery, request, loop, stop>>

\* Stop: the end is announced to the loop, ...
Stop ==
    /\ stop = "running"
    /\ stop' = "waiting"
    /\ UNCHANGED <<server, toolCache, discovery, request, loop, changes>>

MutStopConnections ==
    /\ stop = "waiting"
    /\ stop' = "over"
    /\ server' = [s \in Servers |-> Absent]
    /\ UNCHANGED <<toolCache, discovery, request, loop, changes>>

\* ... waited for, and the connections are closed.
StopConnections ==
    /\ stop = "waiting" /\ loop = "over"
    /\ stop' = "over"
    /\ server' = [s \in Servers |-> Absent]
    /\ UNCHANGED <<toolCache, discovery, request, loop, changes>>

DiscoveryStep(a) == (\E s \in Servers : discoverK8sServerTools(a, s)) \/ EndDiscovery(a)

RequestStep(r) ==
    \/ FindServerForTool(r) \/ Lookup(r) \/ handleDirectToolCall(r) \/ handleServerForward(r)
    \/ DiscoveryStep(r)

LoopStep == Tick \/ LoopEnds \/ DiscoveryStep("loop")

Next ==
    \/ \E r \in Requests, name \in Tools \cup Servers : Arrives(r, name)
    \/ \E r \in Requests : handleOpenAPISpec(r)
    \/ \E r \in Requests : RequestStep(r)
    \/ LoopStep
    \/ Expires \/ handleAPIReload
    \/ \E s \in Servers : ServerChanges(s)
    \/ Stop \/ StopConnections

-----------------------------------------------------------------------------
Offers(s, t) == s \in Servers /\ t \in makeToolsListRequest(s)

\* Once the servers change no more, the cache comes to name a server that has
\* the tool for every tool some server has, and no server for any other tool,
\* whatever discoveries were under way and in whatever order they ended.
RoutesConverge ==
    \/ <>(stop # "running")
    \/ <>[](\A t \in Tools : IF \E s \in Servers : Offers(s, t) THEN Offers(toolCache.tools[t], t)
                             ELSE toolCache.tools[t] = None)

\* Stop comes to its end, however many ticks are waiting, and the connections
\* are not closed under a discovery of the loop.
StopEndsTheLoop ==
    (stop = "waiting" ~> stop = "over") /\ [](stop = "over" => loop = "over")
============================================================================
