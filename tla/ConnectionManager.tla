------------------------- MODULE ConnectionManager -------------------------
(***************************************************************************)
(* Service discovery and the connections of the proxy: the informer of     *)
(* K8sServiceDiscovery delivers Service events in order to                 *)
(* DynamicConnectionManager, which keeps one MCPConnection per server; the *)
(* initialisers, health checks, keep-alives and the recovery loop are      *)
(* goroutines of their own.                                                *)
(*                                                                         *)
(* Sources: internal/discovery/service_discovery.go and                    *)
(* connection_manager.go, Start and Stop of internal/server/k8s_proxy.go.  *)
(* The cluster and the servers are external.  "sse" stands for sse and     *)
(* http-stream, which the manager treats alike; "other" for a protocol it  *)
(* does not support.  The goroutines of a connection that left the map     *)
(* work on an object nobody finds again, and are left out.                 *)
(***************************************************************************)
EXTENDS Integers, Sequences

CONSTANTS Servers,
          Urls,             \* a Service's URL: its name and first port
          Protocols,        \* \subseteq {"http", "sse", "other"}
          Relabels,         \* whether Services gain and lose the role label
          LosesDeletes,     \* whether a deletion can reach us as a tombstone
          MaxRetries, MaxConsecutiveFailures,
          MaxChanges,       \* bound: changes of Services
          MaxInits,         \* bound: initialisers at work on a connection
          None

Inits == 1..MaxInits

Object == [url : Urls, protocol : Protocols, role : BOOLEAN]

VARIABLES
    svc,        \* the cluster's Services, None if there is none
    up,         \* servers that answer
    events,     \* informer events not yet handled
    changes,    \* changes of Services so far
    services,   \* sd.services
    discovering,\* sd.running
    conn,       \* dcm.connections, None if there is none
    setup,       \* the initialisers of a connection
    probe,      \* its health check or keep-alive in flight (bound: one)
    recover,    \* servers the recovery loop has decided to recover
    listed,     \* what Start's List returned and has not yet added
    phase,      \* of dcm.Start: "new", "adding", "started"
    running,    \* dcm.ctx is not cancelled
    stuck       \* the event handler waits for dcm.mu, which it holds

cluster == <<svc, up, changes>>
manager == <<listed, phase, running>>
vars == <<svc, up, events, changes, services, discovering, conn, setup, probe,
          recover, listed, phase, running, stuck>>

Event == [type : {"ADDED", "MODIFIED", "DELETED"}, name : Servers,
          object : Object]

Status == {"connecting", "connected", "failed", "unhealthy", "disconnected"}

\* ErrorCount and ConsecutiveFailures are only compared with their limits:
\* they saturate one past them.
Errors == 0..(MaxRetries + 1)
Failures == 0..MaxConsecutiveFailures
Url == Urls \cup {None}

Connection ==
    [endpoint : Urls, protocol : Protocols,
     http : Url, sse : Url,       \* BaseURL
     status : Status, errors : Errors, failures : Failures,
     recent : BOOLEAN]      \* LastUsed is less than 5 minutes ago

\* An initialiser: what it is about to do, and what it has read.
Pc == {"idle", "read", "write", "status", "retry"}
Protocol == Protocols \cup {None}
Setup == [pc : Pc, url : Url, protocol : Protocol]

\* A check in flight and what it sends to.
Check == [kind : {"none", "health", "ping"},
          target : Urls \cup {None, "no", "any"}]

ASSUME ConnectionAssumption ==
    /\ Protocols \subseteq {"http", "sse", "other"}
    /\ Relabels \in BOOLEAN /\ LosesDeletes \in BOOLEAN
    /\ MaxRetries \in Nat /\ MaxConsecutiveFailures \in Nat \ {0}
    /\ MaxChanges \in Nat /\ MaxInits \in Nat \ {0}
    /\ None \notin Urls /\ "any" \notin Urls /\ "new" \notin Urls
    /\ None \notin Object \cup Connection

Idle == [pc |-> "idle", url |-> None, protocol |-> None]
NoInits == [i \in Inits |-> Idle]
NoProbe == [kind |-> "none", target |-> None]

TypeOK ==
    /\ svc \in [Servers -> Object \cup {None}] /\ up \subseteq Servers
    /\ changes \in 0..MaxChanges
    /\ services \in [Servers -> Object \cup {None}]
    /\ conn \in [Servers -> Connection \cup {None}]
    /\ events \in Seq(Event)
    /\ setup \in [Servers -> [Inits -> Setup]]
    /\ probe \in [Servers -> Check]
    /\ recover \subseteq Servers /\ phase \in {"new", "adding", "started"}
    /\ {running, stuck, discovering} \subseteq BOOLEAN
    /\ listed \in [Servers -> Object \cup {None}]

Init ==
    /\ svc = [s \in Servers |-> None] /\ up = Servers /\ changes = 0
    /\ events = <<>> /\ services = [s \in Servers |-> None]
    /\ discovering = TRUE
    /\ conn = [s \in Servers |-> None]
    /\ setup = [s \in Servers |-> NoInits]
    /\ probe = [s \in Servers |-> NoProbe]
    /\ recover = {} /\ listed = [s \in Servers |-> None]
    /\ phase = "new" /\ running = TRUE /\ stuck = FALSE

-----------------------------------------------------------------------------
(* The cluster, its informer and the servers (external) *)

Objects == {o \in Object : o.role \/ Relabels}

Emit(type, s, o) ==
    events' = IF discovering
              THEN Append(events, [type |-> type, name |-> s, object |-> o])
              ELSE events

ChangeService(s) ==
    /\ changes < MaxChanges /\ changes' = changes + 1
    /\ \/ \E o \in Objects :
             /\ o # svc[s] /\ svc' = [svc EXCEPT ![s] = o]
             /\ Emit(IF svc[s] = None THEN "ADDED" ELSE "MODIFIED", s, o)
       \/ /\ svc[s] # None /\ svc' = [svc EXCEPT ![s] = None]
          /\ \/ Emit("DELETED", s, svc[s])
             \* DeletedFinalStateUnknown is not a *corev1.Service: ignored
             \/ LosesDeletes /\ events' = events
    /\ UNCHANGED <<up, services, discovering, conn, setup, probe, recover,
                   manager, stuck>>

\* The factory's resync calls UpdateFunc for every Service in the cache.
\* Bound: it starts when the events before it are handled.
Resync(s) ==
    /\ discovering /\ events = <<>> /\ svc[s] # None
    /\ Emit("MODIFIED", s, svc[s])
    /\ UNCHANGED <<cluster, services, discovering, conn, setup, probe, recover,
                   manager, stuck>>

ServerGoesUpOrDown(s) ==
    /\ up' = IF s \in up THEN up \ {s} ELSE up \cup {s}
    /\ UNCHANGED <<svc, changes, events, services, discovering, conn, setup,
                   probe, recover, manager, stuck>>

-----------------------------------------------------------------------------
(* The connection manager's handlers, under dcm.mu *)

NewConnection(o) ==
    [endpoint |-> o.url, protocol |-> o.protocol, http |-> None, sse |-> None,
     status |-> "connecting", errors |-> 0, failures |-> 0, recent |-> TRUE]

\* go dcm.initializeConnection(conn)
CanInitialize(s) == \E i \in Inits : setup[s][i].pc = "idle"
WithInitializer(inits) ==
    LET free == CHOOSE i \in Inits : inits[i].pc = "idle"
    IN  [inits EXCEPT ![free] = [Idle EXCEPT !.pc = "read"]]

OnServiceAdded(s, o) ==
    IF conn[s] # None THEN UNCHANGED <<conn, setup, probe>>
    ELSE /\ conn' = [conn EXCEPT ![s] = NewConnection(o)]
         /\ setup' = [setup EXCEPT ![s] = WithInitializer(NoInits)]
         /\ probe' = [probe EXCEPT ![s] = NoProbe]

closeConnection(c) ==
    [c EXCEPT !.http = None, !.sse = None, !.status = "disconnected"]

\* Mutant: the connection is closed and nothing initialises it again.
MutReinitialize(s, c) ==
    conn' = [conn EXCEPT ![s] = closeConnection(c)] /\ setup' = setup

\* closeConnection(conn); go initializeConnection(conn)
Reinitialize(s, c) ==
    /\ CanInitialize(s)
    /\ conn' = [conn EXCEPT ![s] = closeConnection(c)]
    /\ setup' = [setup EXCEPT ![s] = WithInitializer(@)]

OnServiceModified(s, o) ==
    LET c == [conn[s] EXCEPT !.endpoint = o.url, !.protocol = o.protocol]
    IN  IF c.http # None /\ c.http # o.url
        THEN Reinitialize(s, c) /\ probe' = probe
        ELSE conn' = [conn EXCEPT ![s] = c] /\ UNCHANGED <<setup, probe>>

Forget(S) ==
    /\ conn' = [s \in Servers |-> IF s \in S THEN None ELSE conn[s]]
    /\ setup' = [s \in Servers |-> IF s \in S THEN NoInits ELSE setup[s]]
    /\ probe' = [s \in Servers |-> IF s \in S THEN NoProbe ELSE probe[s]]
    /\ recover' = recover \ S

-----------------------------------------------------------------------------
(* The informer's handlers: one event after the other *)

Handling(type) ==
    /\ discovering /\ ~stuck /\ events # <<>> /\ Head(events).type = type
    /\ events' = Tail(events)

\* buildServiceEndpoint returns nil for a Service without the role label.
handleServiceAdded ==
    /\ Handling("ADDED")
    /\ LET s == Head(events).name  o == Head(events).object
       IN  IF ~o.role THEN UNCHANGED <<services, conn, setup, probe>>
           ELSE /\ services' = [services EXCEPT ![s] = o]
                /\ OnServiceAdded(s, o)
    /\ UNCHANGED <<cluster, discovering, recover, manager, stuck>>

\* For an unknown server OnServiceModified calls OnServiceAdded, which locks
\* dcm.mu a second time: the goroutine waits for itself.
handleServiceModified ==
    /\ Handling("MODIFIED")
    /\ LET s == Head(events).name  o == Head(events).object
       IN  IF ~o.role THEN UNCHANGED <<services, conn, setup, probe, stuck>>
           ELSE /\ services' = [services EXCEPT ![s] = o]
                /\ IF conn[s] = None
                   THEN stuck' = TRUE /\ UNCHANGED <<conn, setup, probe>>
                   ELSE stuck' = stuck /\ OnServiceModified(s, o)
    /\ UNCHANGED <<cluster, discovering, recover, manager>>

handleServiceDeleted ==
    /\ Handling("DELETED")
    /\ services' = [services EXCEPT ![Head(events).name] = None]
    /\ Forget({Head(events).name})
    /\ UNCHANGED <<cluster, discovering, manager, stuck>>

-----------------------------------------------------------------------------
(* Start and Stop *)

\* DiscoverMCPServers: the informers already run.
StartList ==
    /\ phase = "new" /\ phase' = "adding"
    /\ listed' = [s \in Servers |-> IF svc[s] = None THEN None
                                    ELSE IF svc[s].role THEN svc[s] ELSE None]
    /\ UNCHANGED <<cluster, events, services, discovering, conn, setup, probe,
                   recover, running, stuck>>

StartAdd(s) ==
    /\ phase = "adding" /\ ~stuck /\ listed[s] # None
    /\ OnServiceAdded(s, listed[s])
    /\ listed' = [listed EXCEPT ![s] = None]
    /\ UNCHANGED <<cluster, events, services, discovering, recover, phase,
                   running, stuck>>

Started ==
    /\ phase = "adding" /\ \A s \in Servers : listed[s] = None
    /\ phase' = "started"
    /\ UNCHANGED <<cluster, events, services, discovering, conn, setup, probe,
                   recover, listed, running, stuck>>

\* ProxyHandler.Stop stops the manager first, then discovery.
StopManager ==
    /\ phase = "started" /\ running /\ ~stuck
    /\ running' = FALSE /\ Forget(Servers)
    /\ UNCHANGED <<cluster, events, services, discovering, listed, phase,
                   stuck>>

StopDiscovery ==
    /\ ~running /\ discovering /\ discovering' = FALSE /\ events' = <<>>
    /\ UNCHANGED <<cluster, services, conn, setup, probe, recover, manager,
                   stuck>>

-----------------------------------------------------------------------------
(* initializeConnection *)

\* Endpoint and Protocol are read, and the transport written, without a lock.
InitRead(s, i) ==
    /\ setup[s][i].pc = "read"
    /\ setup' = [setup EXCEPT ![s][i] = [pc |-> "write", url |-> conn[s].endpoint,
                                       protocol |-> conn[s].protocol]]
    /\ UNCHANGED <<cluster, events, services, discovering, conn, probe,
                   recover, manager, stuck>>

InitWrite(s, i) ==
    /\ setup[s][i].pc = "write"
    /\ conn' = CASE setup[s][i].protocol = "http" ->
                      [conn EXCEPT ![s].http = setup[s][i].url]
                 [] setup[s][i].protocol = "sse" ->
                      [conn EXCEPT ![s].sse = setup[s][i].url]
                 [] OTHER -> conn
    /\ setup' = [setup EXCEPT ![s][i].pc = "status", ![s][i].url = None]
    /\ UNCHANGED <<cluster, events, services, discovering, probe, recover,
                   manager, stuck>>

\* What a check of the connection sends to: a URL, "no" transport at all, or
\* "any" for a protocol that is assumed to be healthy.
Target(c) ==
    LET url == IF c.protocol = "http" THEN c.http ELSE c.sse
    IN  IF c.protocol = "other" THEN "any" ELSE IF url = None THEN "no" ELSE url

Probe(kind, c) == [kind |-> kind, target |-> Target(c)]

Saturate(n, limit) == IF n < limit THEN n + 1 ELSE n

\* Mutant: a failed connection is tried again for ever, whatever the count.
MutRetriesLeft(errors) == TRUE

RetriesLeft(errors) == errors <= MaxRetries

\* The first health check starts at once (bound: when no other is in flight).
InitSucceeds(s, i) ==
    /\ setup[s][i].pc = "status" /\ setup[s][i].protocol # "other"
    /\ conn' = [conn EXCEPT ![s].status = "connected", ![s].errors = 0,
                            ![s].failures = 0]
    /\ probe' = [probe EXCEPT ![s] =
                    IF @ = NoProbe THEN Probe("health", conn[s]) ELSE @]
    /\ setup' = [setup EXCEPT ![s][i] = Idle]
    /\ UNCHANGED <<cluster, events, services, discovering, recover, manager,
                   stuck>>

InitFails(s, i) ==
    /\ setup[s][i].pc = "status" /\ setup[s][i].protocol = "other"
    /\ LET errors == Saturate(conn[s].errors, MaxRetries + 1)
       IN  /\ conn' = [conn EXCEPT ![s].status = "failed", ![s].errors = errors]
           /\ setup' = [setup EXCEPT ![s][i] =
                          IF RetriesLeft(errors)
                          THEN [Idle EXCEPT !.pc = "retry"] ELSE Idle]
    /\ UNCHANGED <<cluster, events, services, discovering, probe, recover,
                   manager, stuck>>

\* scheduleRetry
Retry(s, i) ==
    /\ setup[s][i].pc = "retry"
    /\ \/ setup' = [setup EXCEPT ![s][i].pc = "read"]
       \/ ~running /\ setup' = [setup EXCEPT ![s][i] = Idle]
    /\ UNCHANGED <<cluster, events, services, discovering, conn, probe,
                   recover, manager, stuck>>

-----------------------------------------------------------------------------
(* Health checks, keep-alive, recovery *)

\* performHealthChecks and performKeepAlive: the loops are alive and the map
\* can be read; a keep-alive is sent to a connected server only.
ProbeStart(s, kind) ==
    /\ running /\ ~stuck /\ conn[s] # None /\ probe[s] = NoProbe
    /\ kind = "ping" => conn[s].status = "connected"
    /\ probe' = [probe EXCEPT ![s] = Probe(kind, conn[s])]
    /\ UNCHANGED <<cluster, events, services, discovering, conn, setup,
                   recover, manager, stuck>>

\* The server answers at the URL its Service has now.
Answers(s, target) ==
    \/ target = "any"
    \/ s \in up /\ svc[s] # None /\ svc[s].url = target

\* Mutant: a successful check leaves an unhealthy connection as it is.
MutApplyHealth(c, healthy) ==
    IF healthy
    THEN [c EXCEPT !.failures = 0, !.errors = 0]
    ELSE LET f == Saturate(c.failures, MaxConsecutiveFailures)
         IN  [c EXCEPT !.failures = f,
                       !.errors = Saturate(@, MaxRetries + 1),
                       !.status = IF f >= MaxConsecutiveFailures
                                  THEN "unhealthy" ELSE @]

ApplyHealth(c, healthy) ==
    IF healthy
    THEN [c EXCEPT !.failures = 0, !.errors = 0,
                   !.status = IF @ = "unhealthy" THEN "connected" ELSE @]
    ELSE LET f == Saturate(c.failures, MaxConsecutiveFailures)
         IN  [c EXCEPT !.failures = f,
                       !.errors = Saturate(@, MaxRetries + 1),
                       !.status = IF f >= MaxConsecutiveFailures
                                  THEN "unhealthy" ELSE @]

ApplyPing(c, success) ==
    [c EXCEPT !.failures = IF success THEN 0
                           ELSE Saturate(@, MaxConsecutiveFailures)]

ProbeEnd(s) ==
    /\ probe[s] # NoProbe
    /\ LET ok == Answers(s, probe[s].target)
       IN  conn' = [conn EXCEPT ![s] = IF probe[s].kind = "ping"
                                       THEN ApplyPing(@, ok)
                                       ELSE ApplyHealth(@, ok)]
    /\ probe' = [probe EXCEPT ![s] = NoProbe]
    /\ UNCHANGED <<cluster, events, services, discovering, setup, recover,
                   manager, stuck>>

ShouldRecover(c) ==
    c.status \in {"failed", "unhealthy"} /\ c.errors > MaxRetries /\ ~c.recent

\* attemptConnectionRecovery decides under a read lock ...
RecoveryDecides(s) ==
    /\ running /\ ~stuck /\ conn[s] # None /\ s \notin recover
    /\ ShouldRecover(conn[s])
    /\ recover' = recover \cup {s}
    /\ UNCHANGED <<cluster, events, services, discovering, conn, setup, probe,
                   manager, stuck>>

\* ... and acts later, whatever happened to the connection in between.
RecoveryActs(s) ==
    /\ s \in recover /\ recover' = recover \ {s} /\ CanInitialize(s)
    /\ conn' = [conn EXCEPT ![s].errors = 0, ![s].failures = 0,
                            ![s].status = "connecting"]
    /\ setup' = [setup EXCEPT ![s] = WithInitializer(@)]
    /\ UNCHANGED <<cluster, events, services, discovering, probe, manager,
                   stuck>>

GetConnection(s) ==
    /\ ~stuck /\ conn[s] # None
    /\ conn[s].status = "connected" /\ ~conn[s].recent
    /\ conn' = [conn EXCEPT ![s].recent = TRUE]
    /\ UNCHANGED <<cluster, events, services, discovering, setup, probe,
                   recover, manager, stuck>>

FiveMinutesPass(s) ==
    /\ conn[s] # None /\ conn[s].recent
    /\ conn' = [conn EXCEPT ![s].recent = FALSE]
    /\ UNCHANGED <<cluster, events, services, discovering, setup, probe,
                   recover, manager, stuck>>

-----------------------------------------------------------------------------

HandleEvent ==
    handleServiceAdded \/ handleServiceModified \/ handleServiceDeleted

Initializer(s, i) ==
    \/ InitRead(s, i) \/ InitWrite(s, i) \/ InitSucceeds(s, i)
    \/ InitFails(s, i) \/ Retry(s, i)

Next ==
    \/ HandleEvent \/ StartList \/ Started \/ StopManager \/ StopDiscovery
    \/ \E s \in Servers :
          \/ ChangeService(s) \/ Resync(s) \/ ServerGoesUpOrDown(s)
          \/ StartAdd(s)
          \/ \E i \in Inits : Initializer(s, i)
          \/ \E kind \in {"health", "ping"} : ProbeStart(s, kind)
          \/ ProbeEnd(s)
          \/ RecoveryDecides(s) \/ RecoveryActs(s)
          \/ GetConnection(s) \/ FiveMinutesPass(s)

Spec == Init /\ [][Next]_vars

\* The informer, the goroutines and the manager's three loops keep running,
\* and time passes.  Nothing is assumed of the cluster, of the callers of
\* GetConnection and of Stop.  Fairness is strong where one of the model's
\* bounds (one probe, MaxInits initialisers) makes a step wait.
FairSpec ==
    /\ Spec
    /\ SF_vars(HandleEvent) /\ WF_vars(StartList) /\ WF_vars(Started)
    /\ \A s \in Servers :
          /\ WF_vars(StartAdd(s)) /\ WF_vars(Resync(s))
          /\ \A i \in Inits : WF_vars(Initializer(s, i))
          /\ SF_vars(ProbeStart(s, "health")) /\ WF_vars(ProbeEnd(s))
          /\ WF_vars(RecoveryDecides(s)) /\ SF_vars(RecoveryActs(s))
          /\ WF_vars(FiveMinutesPass(s))

-----------------------------------------------------------------------------
(* Properties *)

AtWork(s) == \E i \in Inits : setup[s][i].pc # "idle"

\* What GetConnection hands out can be used: a registered connection of a
\* supported protocol that is "connected" has a transport, or an initialiser
\* is about to give it one, however events, initialisers, checks and the
\* recovery loop interleave.
ConnectedHasTransport ==
    \A s \in Servers :
        (conn[s] # None /\ conn[s].status = "connected")
            => conn[s].http # None \/ conn[s].sse # None \/ AtWork(s)

\* Goroutines work on registered connections only, and an initialiser that is
\* about to write holds a URL and a protocol of the resource.
WorkersInv ==
    \A s \in Servers :
        /\ conn[s] = None =>
              setup[s] = NoInits /\ probe[s] = NoProbe /\ s \notin recover
        /\ \A i \in Inits : setup[s][i].pc = "write" =>
              setup[s][i].url \in Urls /\ setup[s][i].protocol \in Protocols

\* A connection has a transport unless an initialiser has yet to write it.
\* One that has written and not yet reported does not count: an event may have
\* closed the connection in between, and then it started another.
Unwritten(s) == \E i \in Inits : setup[s][i].pc \in {"read", "write"}

TransportInv ==
    \A s \in Servers : conn[s] # None =>
        conn[s].http # None \/ conn[s].sse # None \/ Unwritten(s)

\* The inductive invariant.  A protocol the manager does not support leaves a
\* connection without a transport, and a check that assumes it healthy may
\* call it connected.
ConnectionInv ==
    TypeOK /\ WorkersInv /\ ("other" \notin Protocols => TransportInv)

\* A server that is labelled, up and supported from some time on.
Served(s) ==
    /\ running /\ s \in up /\ svc[s] # None
    /\ svc[s].role /\ svc[s].protocol # "other"

Usable(s) ==
    /\ svc[s] # None /\ conn[s] # None /\ conn[s].status = "connected"
    /\ conn[s].protocol = svc[s].protocol /\ Target(conn[s]) = svc[s].url

\* Whatever happened before (a changed port or protocol, an unsupported
\* protocol, an outage, the unlocked reads of the initialiser), a server that
\* stays up ends with a connection that is connected to where it is now.
EventuallyUsable ==
    \A s \in Servers : <>[]Served(s) => <>[]Usable(s)

\* After the proxy's Stop the goroutines of the manager come to an end.
GoroutinesEnd ==
    ~discovering ~> \A s \in Servers : ~AtWork(s) /\ probe[s] = NoProbe

\* "Service didn't exist before, add it" (connection_manager.go:254): the
\* handler adds it and goes on to the next event.
ModifiedAddsService == ~stuck

=============================================================================
