------------------------ MODULE ResourceControllers ------------------------
(***************************************************************************)
(* The reconcilers of MCPServer, MCPProxy, MCPMemory and MCPPostgres: the  *)
(* objects each one owns, the order in which a reconcile writes them, what *)
(* it compares before it updates one, and its phases and error paths.      *)
(*                                                                         *)
(* A behaviour is about one resource, of any of the four kinds.  A spec is *)
(* a function from its parts to versions, and an owned object holds the    *)
(* parts of the spec it was built from: `buildContainer' is the set of     *)
(* parts the code copies into the container.  The versions of `replicas'   *)
(* are numbers of pods; version 2 of a switch (ingress, postgres) is on.   *)
(*                                                                         *)
(* The API server, the garbage collector, the pods, the cache and the work *)
(* queue are external.  The reconciler reads a cache that lags, its        *)
(* updates are refused when its version is old, and any call may fail.     *)
(* The phases Failed and Terminating of MCPMemory are set by no code and   *)
(* have no action.                                                         *)
(***************************************************************************)
EXTENDS Integers, Sequences, FiniteSets

CONSTANTS Kinds,           \* the kinds of resource to look at
          MaxDisturbances, \* bound: edits, failing calls, losses, re-creations
          MaxUid           \* bound: times a resource of the name is created

ASSUME ResourceAssumption ==
    /\ Kinds \subseteq {"server", "proxy", "memory", "postgres"}
    /\ MaxDisturbances \in Nat /\ MaxUid \in Nat \ {0}

VARIABLES
    kind,         \* the kind of the resource (never changes)
    res,          \* the resource at the API server
    cache,        \* what the controller's cache holds of it
    cacheFresh,   \* ... is the latest version
    snap,         \* the object the reconcile works on
    snapFresh,    \* ... carries the latest resourceVersion
    todo,         \* the steps the reconcile has still to take
    seen,         \* pods of the Deployment that CreateOrUpdate returned
    dirty,        \* the work queue holds the resource
    child,        \* owned objects by name
    pods, pgpods, \* 0 none, 1 created, 2 ready, for Postgres some ready, 3 all
    peer,         \* a Service of another MCP server is in the namespace
    disturbances

apiVars == <<res, cache, cacheFresh>>
local == <<snap, snapFresh, todo, seen>>
clusterVars == <<child, pods, pgpods, peer>>
resourceVars == <<kind, apiVars, local, dirty, clusterVars, disturbances>>

Versions == 1..2
Uids == 1..MaxUid
NoPhase == ""
NoError == ""
Phases == {NoPhase, "Pending", "Creating", "Starting", "Running", "Degraded",
           "Failed", "Terminating"}

-----------------------------------------------------------------------------
(* The parts of each spec and the objects built from them *)

Parts(k) == CASE k = "server"   -> {"labels", "pod", "port"}
              [] k = "proxy"    -> {"replicas", "pod", "type", "ingress",
                                    "selector"}
              [] k = "memory"   -> {"pod", "password", "postgres"}
              [] k = "postgres" -> {"replicas", "version", "pod", "password", "port"}

\* Names of owned objects.
Names == {"deployment", "service", "ingress", "configmap", "pdb", "secret",
          "pvc", "pgdeployment"}

\* MCPServer.  Protocol and labels are part of the Deployment's selector.
buildLabels == {"labels"}
setContainer == {"pod", "port"}
setContainerSecurity == {"pod"}
buildPodSpec == {"pod"}
buildDeploymentSpec == buildLabels \cup setContainer \cup setContainerSecurity
                       \cup buildPodSpec
buildServiceSpec == {"labels", "port"}

\* MCPProxy.  The port is among the arguments, the environment and the rest
\* of what `pod' stands for.
proxyContainer == {"pod"}
proxyDeployment == {"replicas"} \cup proxyContainer
proxyService == {"pod", "type"}
proxyIngress == {"pod"}
buildProxyConfig == {"pod"}
buildYAMLConfig == {"pod"}
proxyConfigMap == buildProxyConfig \cup buildYAMLConfig
proxyPDB == {}

\* MCPMemory.  DATABASE_URL holds the password when Postgres is on; its PVC
\* and its Service, both created and never updated, are one object here.
buildMemoryEnvVars == {"pod", "postgres", "password"}
buildMemoryPodSpec == {"pod"}
memoryDeployment == buildMemoryEnvVars \cup buildMemoryPodSpec
memorySecret == {"password"}
generateMemoryConfig == {"pod", "postgres"}
memoryService == {"pod"}
postgresPVC == {}
postgresService == {"pod"}
buildPostgresPodSpec == {"pod"}
memoryPostgresDeployment == buildPostgresPodSpec

\* MCPPostgres.
getEnvVars == {"pod"}
getResourceRequirements == {"pod"}
getSecurityContext == {"pod"}
postgresDeployment == {"replicas", "version", "port"} \cup getEnvVars
                      \cup getResourceRequirements \cup getSecurityContext
postgresSecret == {"password"}
postgresOwnService == {"port"}

\* The parts of the spec that an owned object is built from.
Built(k, c) ==
    CASE k = "server" /\ c = "deployment"   -> buildDeploymentSpec
      [] k = "server" /\ c = "service"      -> buildServiceSpec
      [] k = "proxy" /\ c = "deployment"    -> proxyDeployment
      [] k = "proxy" /\ c = "service"       -> proxyService
      [] k = "proxy" /\ c = "ingress"       -> proxyIngress
      [] k = "proxy" /\ c = "configmap"     -> proxyConfigMap
      [] k = "proxy" /\ c = "pdb"           -> proxyPDB
      [] k = "memory" /\ c = "deployment"   -> memoryDeployment
      [] k = "memory" /\ c = "configmap"    -> generateMemoryConfig
      [] k = "memory" /\ c = "secret"       -> memorySecret
      [] k = "memory" /\ c = "service"      -> memoryService
      [] k = "memory" /\ c = "pvc"          -> postgresPVC \cup postgresService
      [] k = "memory" /\ c = "pgdeployment" -> memoryPostgresDeployment
      [] k = "postgres" /\ c = "deployment" -> postgresDeployment
      [] k = "postgres" /\ c = "service"    -> postgresOwnService
      [] k = "postgres" /\ c = "secret"     -> postgresSecret
      [] OTHER                              -> {}

\* The parts whose difference makes the code update the object: a Deployment
\* of a proxy is taken for equal when its replicas are, Services of a memory
\* server and all PVCs are created and never updated.
deploymentEqual == {"replicas"}
proxyServiceNeedsUpdate == {"type"}
needsDeploymentUpdate == {"replicas", "version"}
Compared(k, c) ==
    CASE k = "proxy" /\ c = "deployment"              -> deploymentEqual
      [] k = "proxy" /\ c = "service"                 -> proxyServiceNeedsUpdate
      [] k = "memory" /\ c \in {"service", "pvc"} -> {}
      [] k = "postgres" /\ c = "deployment"           -> needsDeploymentUpdate
      [] OTHER                                        -> Built(k, c)

Desired(k, c, spec) == [p \in Built(k, c) |-> spec[p]]

-----------------------------------------------------------------------------
Specs(k) == [Parts(k) -> Versions]
NoChild == [uid |-> 0, built |-> <<>>]
NoOwner == MaxUid + 1
Gone(k) == [exists |-> FALSE, uid |-> 0, deleting |-> FALSE, fin |-> FALSE,
            phase |-> NoPhase, spec |-> [p \in Parts(k) |-> 1], error |-> NoError,
            healthy |-> FALSE, discovered |-> FALSE, gen |-> 1,
            status |-> [pods |-> 0, gen |-> 0]]
Fresh(k, uid, spec) ==
    [Gone(k) EXCEPT !.exists = TRUE, !.uid = uid, !.spec = spec]

IsResource(r) ==
    /\ r.exists \in BOOLEAN /\ r.deleting \in BOOLEAN /\ r.fin \in BOOLEAN
    /\ r.healthy \in BOOLEAN /\ r.discovered \in BOOLEAN
    /\ r.uid \in 0..MaxUid /\ r.phase \in Phases /\ r.spec \in Specs(kind)
    /\ r.error \in Names \cup {NoError}

ResourceTypeOK ==
    /\ kind \in Kinds
    /\ IsResource(res) /\ IsResource(cache) /\ IsResource(snap)
    /\ cacheFresh \in BOOLEAN /\ snapFresh \in BOOLEAN /\ dirty \in BOOLEAN
    /\ seen \in 0..3 /\ pods \in 0..3 /\ pgpods \in 0..2
    /\ DOMAIN child = Names
    /\ \A c \in Names : child[c].uid \in 0..MaxUid
    /\ peer \in BOOLEAN /\ disturbances \in 0..MaxDisturbances

ResourceInit ==
    /\ kind \in Kinds
    /\ res = Gone(kind) /\ cache = Gone(kind) /\ cacheFresh = TRUE
    /\ snap = Gone(kind) /\ snapFresh = FALSE /\ todo = <<>> /\ seen = 0
    /\ dirty = FALSE /\ child = [c \in Names |-> NoChild]
    /\ pods = 0 /\ pgpods = 0 /\ peer = FALSE /\ disturbances = 0

Has(c) == child[c].uid # 0
AllReady == IF kind = "postgres" THEN 3 ELSE 2
ScaledDown == kind = "proxy" /\ Has("deployment")
              /\ child["deployment"].built["replicas"] = 0
Disturb == disturbances < MaxDisturbances /\ disturbances' = disturbances + 1

-----------------------------------------------------------------------------
(* The API server, the garbage collector and the pods *)

\* A write that changes the object makes the cache old.
Write(new) == res' = new /\ cacheFresh' = (cacheFresh /\ new = res)

\* Delete waits for the finalizer, if there is one.
Deleted(r) == IF r.fin THEN [r EXCEPT !.deleting = TRUE] ELSE Gone(kind)

CacheCatchesUp ==
    /\ ~cacheFresh /\ cache' = res /\ cacheFresh' = TRUE /\ dirty' = TRUE
    /\ UNCHANGED <<kind, res, local, clusterVars, disturbances>>

\* A user applies another spec.
EditSpec ==
    /\ res.exists /\ ~res.deleting /\ Disturb
    /\ \E p \in Parts(kind), v \in Versions :
          res.spec[p] # v /\ Write([res EXCEPT !.spec[p] = v, !.gen = @ + 1])
    /\ snapFresh' = FALSE
    /\ UNCHANGED <<kind, cache, snap, todo, seen, dirty, clusterVars>>

\* Objects whose owner is gone are deleted, in any order; the event of an
\* owned object queues the resource its owner reference names.
GarbageCollect(c) ==
    /\ Has(c) /\ child[c].uid # NoOwner
    /\ ~res.exists \/ child[c].uid # res.uid
    /\ child' = [child EXCEPT ![c] = NoChild] /\ dirty' = TRUE
    /\ pods' = (IF c = "deployment" THEN 0 ELSE pods)
    /\ pgpods' = (IF c = "pgdeployment" THEN 0 ELSE pgpods)
    /\ UNCHANGED <<kind, apiVars, local, peer, disturbances>>

\* Pods come up; they become unready, or the Deployment is deleted by hand.
PodsProgress ==
    /\ \/ /\ Has("deployment") /\ ~ScaledDown /\ pods < AllReady /\ pods' = pods + 1
          /\ UNCHANGED pgpods
       \/ /\ Has("pgdeployment") /\ pgpods < 2 /\ pgpods' = pgpods + 1
          /\ UNCHANGED pods
    /\ dirty' = TRUE
    /\ UNCHANGED <<kind, apiVars, local, child, peer, disturbances>>

PodsLost ==
    /\ Disturb /\ dirty' = TRUE
    /\ \/ /\ pods > 1 /\ pods' = 1 /\ UNCHANGED <<child, pgpods>>
       \/ /\ Has("deployment") /\ pods' = 0
          /\ child' = [child EXCEPT !["deployment"] = NoChild]
          /\ UNCHANGED pgpods
    /\ UNCHANGED <<kind, apiVars, local, peer>>

\* mapToMCPProxyRequests: another server queues every proxy.
PeerAppears ==
    /\ kind = "proxy" /\ ~peer /\ Disturb /\ peer' = TRUE /\ dirty' = TRUE
    /\ UNCHANGED <<kind, apiVars, local, child, pods, pgpods>>

-----------------------------------------------------------------------------
(* Reconcile *)

Return(requeue) ==
    /\ todo' = <<>> /\ snap' = Gone(kind) /\ snapFresh' = FALSE /\ seen' = 0
    /\ dirty' = (dirty \/ requeue)

\* Update and Status().Update: no conflict, and the object is still there.
Accepted == snapFresh /\ res.exists

\* Mutant: the reconcile returns to let a finalizer be added that nobody adds.
MutServerSteps(o) ==
    IF o.deleting THEN <<"unfinalize">>
    ELSE IF ~o.fin THEN <<>>
    ELSE (IF o.phase = NoPhase THEN <<"pending">> ELSE <<>>)
         \o <<"deployment", "service", "status">>

\* The steps of a reconcile of object o; each kind has its own.
ServerSteps(o) ==
    IF o.deleting THEN <<"unfinalize">>
    ELSE IF ~o.fin THEN <<"finalize">>
    ELSE (IF o.phase = NoPhase THEN <<"pending">> ELSE <<>>)
         \o <<"deployment", "service", "status">>

ProxySteps(o) ==
    (IF o.phase \notin {"Creating", "Running"} THEN <<"creating">> ELSE <<>>)
    \o <<"deployment", "service">>
    \o (IF o.spec["ingress"] = 2 THEN <<"ingress">> ELSE <<>>)
    \o <<"configmap">>
    \o (IF o.spec["replicas"] > 1 THEN <<"pdb">> ELSE <<>>)
    \o <<"discover", "status">>

\* Mutant: the Deployment first.
MutMemoryCreating(o) ==
    <<"deployment", "secret", "configmap", "service">>
    \o (IF o.spec["postgres"] = 2
        THEN <<"pvc", "pgdeployment">> ELSE <<>>)
    \o <<"starting">>

MemoryCreating(o) ==
    (IF o.spec["postgres"] = 2
     THEN <<"pvc", "pgdeployment">> ELSE <<>>)
    \o <<"secret", "configmap", "service", "deployment", "starting">>

MemorySteps(o) ==
    CASE o.phase = NoPhase    -> <<"pending", "creating">>
      [] o.phase = "Pending"  -> <<"creating">>
      [] o.phase = "Creating" -> MemoryCreating(o)
      [] o.phase = "Starting" -> <<"startup">>
      [] o.phase = "Running"  -> <<"deployment", "health">>

PostgresSteps(o) ==
    IF o.deleting THEN <<"terminating", "unfinalize">>
    ELSE IF ~o.fin THEN <<"finalize">>
    ELSE (IF o.phase = NoPhase THEN <<"creating">> ELSE <<>>)
         \o <<"secret", "pvc", "service", "deployment", "status">>

Steps(o) == CASE kind = "server"   -> ServerSteps(o)
              [] kind = "proxy"    -> ProxySteps(o)
              [] kind = "memory"   -> MemorySteps(o)
              [] kind = "postgres" -> PostgresSteps(o)

\* fetchInstance reads the cache; "not found" ends the reconcile.
fetchInstance ==
    /\ todo = <<>> /\ dirty /\ dirty' = FALSE
    /\ IF cache.exists
       THEN /\ todo' = Steps(cache) /\ snap' = cache
            /\ snapFresh' = cacheFresh /\ UNCHANGED seen
       ELSE UNCHANGED local
    /\ UNCHANGED <<kind, apiVars, clusterVars, disturbances>>

At(steps) == todo # <<>> /\ Head(todo) \in steps

\* A status update in the middle of a reconcile, which goes on with the new
\* phase; a refused one is an error.
PhaseOf == [pending |-> "Pending", creating |-> "Creating",
            terminating |-> "Terminating"]
SetPhaseAndGoOn ==
    /\ At(DOMAIN PhaseOf) /\ Len(todo) > 1
    /\ IF Accepted
       THEN /\ Write([res EXCEPT !.phase = PhaseOf[Head(todo)]])
            /\ snap' = [snap EXCEPT !.phase = PhaseOf[Head(todo)]]
            /\ todo' = Tail(todo) /\ UNCHANGED <<snapFresh, seen, dirty>>
       ELSE UNCHANGED <<res, cacheFresh>> /\ Return(TRUE)
    /\ UNCHANGED <<kind, cache, clusterVars, disturbances>>

\* Status().Update with the phase p as the last step of a reconcile.
SetPhase(p, requeue) ==
    IF Accepted THEN Write([res EXCEPT !.phase = p]) /\ Return(requeue)
                ELSE UNCHANGED <<res, cacheFresh>> /\ Return(TRUE)

\* AddFinalizer and RemoveFinalizer, each with its Update.
Finalizer ==
    /\ At({"finalize", "unfinalize"})
    /\ IF Accepted
       THEN /\ Write(IF Head(todo) = "finalize" THEN [res EXCEPT !.fin = TRUE]
                     ELSE Gone(kind))
            /\ Return(FALSE)
       ELSE UNCHANGED <<res, cacheFresh>> /\ Return(TRUE)
    /\ UNCHANGED <<kind, cache, clusterVars, disturbances>>

\* What the error of a step leads to.  A proxy that cannot have its
\* Deployment, Service or Ingress becomes Failed if the update is accepted;
\* updateStatusAndRequeue of Postgres records the error and does not requeue.
ReturnError(c) ==
    CASE kind = "proxy" /\ c \in {"deployment", "service", "ingress"} ->
            /\ IF Accepted THEN Write([res EXCEPT !.phase = "Failed"])
                           ELSE UNCHANGED <<res, cacheFresh>>
            /\ Return(TRUE)
      [] kind = "postgres" ->
            IF Accepted
            THEN Write([res EXCEPT !.phase = "Failed", !.error = c]) /\ Return(FALSE)
            ELSE UNCHANGED <<res, cacheFresh>> /\ Return(TRUE)
      [] OTHER -> UNCHANGED <<res, cacheFresh>> /\ Return(TRUE)

\* The server's CreateOrUpdate meets an object of another owner, or a
\* Deployment whose selector the new labels would change.
Refused(c) ==
    /\ kind = "server" /\ c \in Names /\ Has(c)
    /\ \/ child[c].uid # snap.uid
       \/ c = "deployment" /\ child[c].built["labels"] # snap.spec["labels"]

\* Mutant: the owner reference is not set.
MutreconcileResource(c) ==
    LET new == Desired(kind, c, snap.spec) IN
    IF Has(c) THEN child[c] ELSE [uid |-> NoOwner, built |-> new]

\* Create what is not there, owned by the resource; update what compares as
\* different.  reconcileResource leaves the owner of a found object alone.
reconcileResource(c) ==
    LET new == Desired(kind, c, snap.spec)
        old == child[c] IN
    IF ~Has(c) THEN [uid |-> snap.uid, built |-> new]
    ELSE IF \E p \in Compared(kind, c) : old.built[p] # new[p]
         THEN [old EXCEPT !.built = new]
         ELSE old

Ensure ==
    /\ At(Names) /\ ~Refused(Head(todo))
    /\ child' = [child EXCEPT ![Head(todo)] = reconcileResource(Head(todo))]
    /\ todo' = Tail(todo) /\ dirty' = (dirty \/ child' # child)
    /\ seen' = (IF Head(todo) = "deployment" THEN pods ELSE seen)
    /\ UNCHANGED <<kind, apiVars, snap, snapFresh, pods, pgpods, peer, disturbances>>

\* The server selector of the proxy leaves the other server out.
shouldIncludeService(o) == o.spec["selector"] = 1

\* reconcileServiceDiscovery and reconcileCrossControllerIntegration put what
\* they find into the status of the reconcile's own object.
discover ==
    /\ At({"discover"}) /\ todo' = Tail(todo)
    /\ snap' = [snap EXCEPT !.discovered = peer /\ shouldIncludeService(snap)]
    /\ UNCHANGED <<kind, apiVars, snapFresh, seen, dirty, clusterVars, disturbances>>

EnsureFails ==
    /\ At(Names \cup {"discover"})
    /\ IF Refused(Head(todo)) THEN UNCHANGED disturbances ELSE Disturb
    /\ ReturnError(Head(todo))
    /\ UNCHANGED <<kind, cache, clusterVars>>

\* updateStatus of the server: from the Deployment that CreateOrUpdate
\* returned; the resource is queued again after 30 seconds.
serverStatus ==
    /\ kind = "server" /\ At({"status"})
    /\ SetPhase(CASE seen > 1 -> "Running" [] seen = 1 -> "Starting"
                  [] OTHER -> "Creating", TRUE)
    /\ UNCHANGED <<kind, cache, clusterVars, disturbances>>

\* updateDeploymentStatus of the proxy: written only when the phase, the
\* replicas or the observed generation changed.
proxyStatus ==
    /\ kind = "proxy" /\ At({"status"})
    /\ LET p == IF pods > 1 THEN "Running" ELSE "Starting"
           new == [pods |-> pods, gen |-> snap.gen] IN
       IF ~Has("deployment") \/ (snap.phase = p /\ snap.status = new)
       THEN UNCHANGED <<res, cacheFresh>> /\ Return(~Has("deployment"))
       ELSE IF Accepted
       THEN /\ Write([res EXCEPT !.phase = p, !.status = new,
                                !.discovered = snap.discovered])
            /\ Return(FALSE)
       ELSE UNCHANGED <<res, cacheFresh>> /\ Return(TRUE)
    /\ UNCHANGED <<kind, cache, clusterVars, disturbances>>

\* checkAndUpdateStatus of Postgres.
postgresStatus ==
    /\ kind = "postgres" /\ At({"status"})
    /\ IF Has("deployment")
       THEN IF Accepted
            THEN /\ Write([res EXCEPT !.error = NoError, !.phase =
                             CASE pods = 3 -> "Running" [] pods = 2 -> "Degraded"
                               [] OTHER -> "Creating"])
                 /\ Return(FALSE)
            ELSE UNCHANGED <<res, cacheFresh>> /\ Return(TRUE)
       ELSE ReturnError("deployment")
    /\ UNCHANGED <<kind, cache, clusterVars, disturbances>>

\* reconcilePending and the last step of reconcileCreating.
memoryPhase ==
    /\ kind = "memory" /\ At({"creating", "starting"}) /\ Len(todo) = 1
    /\ IF Head(todo) = "creating" THEN SetPhase("Creating", TRUE)
                                  ELSE SetPhase("Starting", FALSE)
    /\ UNCHANGED <<kind, cache, clusterVars, disturbances>>

\* reconcileStarting: an error of isPostgresReady and a Deployment without
\* ready pods end the reconcile, and nothing queues it again.
reconcileStarting ==
    /\ kind = "memory" /\ At({"startup"})
    /\ IF snap.spec["postgres"] = 2 /\ (~Has("pgdeployment") \/ pgpods < 2)
       THEN /\ UNCHANGED <<res, cacheFresh>>
            /\ Return(Has("pgdeployment") /\ ~Accepted)
       ELSE IF ~Has("deployment") THEN SetPhase("Creating", TRUE)
       ELSE IF pods > 1 THEN SetPhase("Running", FALSE)
       ELSE UNCHANGED <<res, cacheFresh>> /\ Return(FALSE)
    /\ UNCHANGED <<kind, cache, clusterVars, disturbances>>

\* The health check of reconcileRunning.
reconcileRunning ==
    /\ kind = "memory" /\ At({"health"})
    /\ IF ~Has("deployment")
       THEN UNCHANGED <<res, cacheFresh>> /\ Return(FALSE)
       ELSE IF Accepted
       THEN Write([res EXCEPT !.healthy = pods > 1]) /\ Return(FALSE)
       ELSE UNCHANGED <<res, cacheFresh>> /\ Return(TRUE)
    /\ UNCHANGED <<kind, cache, clusterVars, disturbances>>

\* The controller process stops and starts: the cache and the queue are new.
ControllerRestarts ==
    /\ Disturb /\ cache' = res /\ cacheFresh' = TRUE /\ dirty' = TRUE
    /\ todo' = <<>> /\ snap' = Gone(kind) /\ snapFresh' = FALSE /\ seen' = 0
    /\ UNCHANGED <<kind, res, clusterVars>>

ReconcileStep ==
    \/ fetchInstance \/ SetPhaseAndGoOn \/ Finalizer \/ Ensure
    \/ discover \/ serverStatus \/ proxyStatus \/ postgresStatus
    \/ memoryPhase \/ reconcileStarting \/ reconcileRunning

Refusal == EnsureFails /\ UNCHANGED disturbances

Cluster ==
    \/ CacheCatchesUp \/ EditSpec \/ PodsProgress \/ PodsLost
    \/ PeerAppears \/ EnsureFails \/ ControllerRestarts
    \/ \E c \in Names : GarbageCollect(c)
=============================================================================
