------------------------------ MODULE MCProxy ------------------------------
(***************************************************************************)
(* The parts of the proxy that share no state, side by side: a behaviour   *)
(* is one of `part', and the others stay as they began.                    *)
(***************************************************************************)
EXTENDS Integers, Sequences, FiniteSets

CONSTANTS Clients, MaxSubs,                       \* notifications
          Requests, Workers,                      \* sampling
          Conns, BufferSize, ErrorSize, MaxSent,  \* WebSocket
          Calls, Sessions, Ids,                   \* relay
          Servers, Tools, Callers, SSEServers, StreamServers, MaxChanges

\* No client's name is the one that stands for none.
ASSUME ProxyAssumption == MaxSubs \in Nat /\ "none" \notin Clients

VARIABLES part,
          subs, clients, update,
          listeners, tools, known,
          requests, handlers, worker, handled,
          initialized, roots, watchers, called,
          serving, listed, conn,
          channels, call, waiter,
          server, toolCache, discovery, request, loop, stop, changes,
          seq, session, stream

Sub  == INSTANCE Subscriptions
Chg  == INSTANCE ChangeNotifications
Smp  == INSTANCE SamplingRequests
Rts  == INSTANCE Roots
Ws   == INSTANCE WebSocketServer
Rel  == INSTANCE Relay
Rte  == INSTANCE ToolRouting WITH Requests <- Callers
Brg  == INSTANCE ProtocolBridge

subVars == <<subs, clients, update>>
chgVars == <<listeners, tools, known>>
smpVars == <<requests, handlers, worker, handled>>
rtsVars == <<initialized, roots, watchers, called>>
wsVars  == <<serving, listed, conn>>
relVars == <<channels, call, waiter>>
rteVars == <<server, toolCache, discovery, request, loop, stop, changes>>
brgVars == <<seq, session, stream>>
vars == <<part, subVars, chgVars, smpVars, rtsVars, wsVars, relVars, rteVars, brgVars>>

Parts == {"subscriptions", "changes", "sampling", "roots", "websocket", "relay",
          "routing", "bridge"}

Init ==
    /\ part \in Parts
    /\ Sub!Init /\ Chg!Init /\ Smp!Init /\ Rts!Init
    /\ Ws!Init /\ Rel!Init /\ Rte!Init /\ Brg!Init

\* A step of one part.
In(p) ==
    /\ part = p
    /\ UNCHANGED part
    /\ p # "subscriptions" => UNCHANGED subVars
    /\ p # "changes" => UNCHANGED chgVars
    /\ p # "sampling" => UNCHANGED smpVars
    /\ p # "roots" => UNCHANGED rtsVars
    /\ p # "websocket" => UNCHANGED wsVars
    /\ p # "relay" => UNCHANGED relVars
    /\ p # "routing" => UNCHANGED rteVars
    /\ p # "bridge" => UNCHANGED brgVars

Next ==
    \/ In("subscriptions") /\ Sub!Next
    \/ In("changes") /\ Chg!Next
    \/ In("sampling") /\ Smp!Next
    \/ In("roots") /\ Rts!Next
    \/ In("websocket") /\ Ws!Next
    \/ In("relay") /\ Rel!Next
    \/ In("routing") /\ Rte!Next
    \/ In("bridge") /\ Brg!Next

\* The three goroutines of a WebSocket connection run.
WebSocketFairness ==
    \A k \in Conns :
        /\ WF_wsVars(part = "websocket" /\ Ws!ReadLoop(k))
        /\ WF_wsVars(part = "websocket" /\ Ws!WriteLoop(k))
        /\ WF_wsVars(part = "websocket" /\ Ws!Handler(k))

\* The discovery loop, which has a ticker, and the handlers run, and of a tick
\* and the end the loop's select takes the end at last.
RoutingFairness ==
    /\ WF_rteVars(part = "routing" /\ Rte!LoopStep)
    /\ \A r \in Callers : WF_rteVars(part = "routing" /\ Rte!RequestStep(r))
    /\ WF_rteVars(part = "routing" /\ Rte!StopConnections)
    /\ SF_rteVars(part = "routing" /\ Rte!LoopEnds)

\* Requests are sent and time out.
BridgeFairness == WF_brgVars(part = "bridge" /\ Brg!Step)

Spec == Init /\ [][Next]_vars /\ WebSocketFairness /\ RoutingFairness /\ BridgeFairness

-----------------------------------------------------------------------------
\* The bookkeeping of listeners: the indexes of subscriptions agree, whoever
\* holds a subscription for an update is told of it, and listeners know the
\* tools (subscriptions.go, change_notifications.go).
NotificationsReach == Sub!IndexesAgree /\ Sub!HoldersAreTold /\ Chg!ListenersKnowTheTools

\* Of sampling.go: no handler gets a request that waits for its review or was
\* turned down.
ReviewDecides == Smp!ReviewDecides

\* Of roots.go and standard_methods.go: no initialize opens a path for
\* writing, and what is watched is a managed root.
InitializeOpensNothing == [][part = "roots" => Rts!OpensNothing]_vars

\* Of bidirectional_relay.go and protocol_bridge.go: a server's request is
\* answered at most once, and no list is asked for before initialize.
ProtocolIsKept == Rel!AnsweredOnce /\ Brg!ListFollowsInitialize

\* The inductive invariant: the one of every part.
ProxyInv ==
    /\ Sub!SubInv /\ Chg!ChgInv /\ Smp!SmpInv /\ Rts!RootsInv
    /\ Rel!RelayInv /\ Brg!BridgeInv

\* Of tool_discovery.go and tool_cache.go: the routes follow the servers.
RoutesConverge == part = "routing" => Rte!RoutesConverge

\* What the proxy starts comes to an end: the goroutines of a WebSocket
\* connection that is over (websocket.go), the discovery of a server that never
\* answers and the reading of a stream, which ends with its first reply
\* (protocol_bridge.go) and, before the connections are closed, the discovery
\* loop of a proxy that stops (k8s_proxy.go).
ProxyLoopsEnd ==
    /\ Ws!ConnectionsEnd /\ Rte!StopEndsTheLoop
    /\ Brg!DiscoveryEnds /\ []Brg!FirstReplyIsTaken
============================================================================
