---------------------------- MODULE MCServices ----------------------------
(***************************************************************************)
(* The services that keep running and share no state, side by side: a      *)
(* behaviour is one of `part', and the others stay as they began.          *)
(***************************************************************************)
EXTENDS Integers, Sequences, FiniteSets

CONSTANTS Conns, MaxAsked,                                  \* memory server
          Callers, Names, PoolSize, MaxCalls,               \* memory graph
          Loggers, MaxEntries, MaxFailures, BufferSize, FileSize, MaxBackups,
          Providers, Default, Fallbacks, Malformed, Claudes, Ollamas, ChannelSize, Chunks,
          MaxTurns, MaxTools,                               \* agent
          near, far                                             \* fallback providers

MCFallbacks == <<near, far>>

VARIABLES part,
          serving, clients, conn,
          graph, op, calls,
          storage, trail, volatile, store, fate,
          up, current, check, chat, flow,
          agent, history, errors, expired, ran

Srv == INSTANCE MemoryServer
Mem == INSTANCE MemoryGraph
Aud == INSTANCE AuditLog
Prv == INSTANCE ProviderManager
Agt == INSTANCE AgentRunner

ASSUME ServicesAssumption == Aud!AuditAssumption /\ Prv!ProviderAssumption /\ Agt!AgentAssumption

srvVars == <<serving, clients, conn>>
memVars == <<graph, op, calls>>
audVars == <<storage, trail, volatile, store, fate>>
prvVars == <<up, current, check, chat, flow>>
agtVars == <<agent, history, errors, expired, ran>>
servicesVars == <<part, srvVars, memVars, audVars, prvVars, agtVars>>

Parts == {"server", "memory", "audit", "providers", "agent"}

\* A part that does not run stays in one of its initial states.
ServicesInit ==
    /\ part \in Parts
    /\ Srv!Init /\ Agt!Init
    /\ Mem!Init /\ (part # "memory" => graph = Mem!Empty)
    /\ Aud!Init /\ (part # "audit" => storage = "memory")
    /\ Prv!Init /\ (part # "providers" => up = {})

\* A step of one part.
In(p) ==
    /\ part = p
    /\ UNCHANGED part
    /\ p # "server" => UNCHANGED srvVars
    /\ p # "memory" => UNCHANGED memVars
    /\ p # "audit" => UNCHANGED audVars
    /\ p # "providers" => UNCHANGED prvVars
    /\ p # "agent" => UNCHANGED agtVars

ServicesNext ==
    \/ In("server") /\ Srv!Next
    \/ In("memory") /\ Mem!Next
    \/ In("audit") /\ Aud!Next
    \/ In("providers") /\ Prv!Next
    \/ In("agent") /\ Agt!Next

\* The goroutine of a connection runs: its reads fail once the peer is gone.
ServerFairness ==
    \A k \in Conns :
        /\ WF_srvVars(part = "server" /\ Srv!Welcome(k))
        /\ WF_srvVars(part = "server" /\ Srv!ReadFails(k) /\ ~Srv!CanWrite(k))
        /\ WF_srvVars(part = "server" /\ Srv!Answer(k))
        /\ WF_srvVars(part = "server" /\ Srv!Cleanup(k))

\* A tool call under way goes on: nothing but the pool holds it up.
MemoryFairness ==
    \A k \in Callers : WF_memVars(part = "memory" /\ Mem!Step(k) /\ UNCHANGED calls)

\* The tickers of the audit log fire and its writers run.
AuditFairness ==
    /\ WF_audVars(part = "audit" /\ Aud!flushBuffer)
    /\ WF_audVars(part = "audit" /\ Aud!flushInserts)
    /\ \A k \in Loggers : WF_audVars(part = "audit" /\ Aud!bufferEntry(k))

\* The ticker of the health checks fires and a check ends; the gateway answers
\* or times out, so that the agent's loop goes on.
LoopFairness ==
    /\ WF_prvVars(part = "providers" /\ (Prv!checkHealth \/ Prv!checkHealthSets))
    /\ WF_agtVars(/\ part = "agent"
                  /\ \/ Agt!executeAgent \/ Agt!BeginTurn \/ Agt!callOpenRouterGateway
                     \/ Agt!executeRealLLMAgent \/ Agt!EndTurn \/ Agt!Return)

ServicesSpec ==
    /\ ServicesInit /\ [][ServicesNext]_servicesVars
    /\ ServerFairness /\ MemoryFairness /\ AuditFairness /\ LoopFairness

-----------------------------------------------------------------------------
\* Of memory_store.go: the tables of the graph refer to one another, whatever
\* fails or is interleaved.
GraphIsWhole == Mem!GraphIsWhole

\* Of audit/*.go: an entry that Store acknowledged is kept until its time is
\* up.
AcknowledgedIsKept == Aud!AcknowledgedIsKept

\* Of ai/*.go: thoughts are not shown as the answer.
ThoughtsAreKeptApart == Prv!ThoughtsAreKeptApart

\* Of mcp/tools_agent.go: the model is told of each tool what it returned.
ModelIsToldTheTruth == Agt!ModelIsToldTheTruth

\* What is called comes to an end: tool calls of the memory server do not wait
\* for one another's database connections for ever (memory_store.go), a client
\* that is gone leaves the server's map (memory/mcp_server.go), and the agent's
\* loop returns (mcp/tools_agent.go).
CallsEnd ==
    /\ Mem!OperationsEnd
    /\ Srv!GoneClientIsRemoved
    /\ part = "agent" => Agt!AgentReturns

\* What failed and is back is used again: the backlog of a database is written
\* (audit/*.go), and a provider of the preferred ones is current (ai/manager.go).
OutagesHeal == Aud!BacklogDrains /\ Prv!ProviderRecovers
============================================================================
