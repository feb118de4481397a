-------------------------- MODULE ComposeCommands --------------------------
(***************************************************************************)
(* The commands of `matey' (K8sComposer, the managers of the memory server *)
(* and of the task scheduler, `matey postgres', the proxy command) against *)
(* the controllers of ResourceControllers.                                 *)
(*                                                                         *)
(* A Get and the Update that follows carry the resourceVersion: together   *)
(* they are one step, or they are refused and change nothing.  Commands    *)
(* run one at a time; a wait of theirs may end by its timeout at any       *)
(* moment, so it needs no action.                                          *)
(***************************************************************************)
EXTENDS ResourceControllers

VARIABLES
    cmd,     \* steps the running command has still to take
    created, \* times the resource was created
    intent   \* what the last command that returned nil was for

allVars == <<resourceVars, cmd, created, intent>>

CommandSteps == {"delete", "deldep", "delsvc", "wait", "start"}

CommandTypeOK ==
    /\ ResourceTypeOK
    /\ \A i \in 1..Len(cmd) : cmd[i] \in CommandSteps
    /\ created \in 0..MaxUid /\ intent \in {"none", "up", "down"}

CommandInit == ResourceInit /\ cmd = <<>> /\ created = 0 /\ intent = "none"

-----------------------------------------------------------------------------
(* The specs the commands come with, for version v of the configuration *)

\* A server without image and build is converted to nil and skipped.
convertServerConfigToMCPServer(v) == [p \in Parts("server") |-> v]

\* The port, the API key and OAuth come from the configuration; one replica,
\* NodePort and the Ingress do not.
proxySpec(v) == [replicas |-> 1, pod |-> v, type |-> 1, ingress |-> 2,
                 selector |-> 1]

createMemoryResource(v) == [p \in Parts("memory") |-> v]

\* `matey postgres enable' asks for version 15, the others for 15-alpine.
postgresSpec(v) == [replicas |-> 1, version |-> v, pod |-> 1, password |-> 1,
                    port |-> 1]

Configured(v) ==
    CASE kind = "server"   -> convertServerConfigToMCPServer(v)
      [] kind = "proxy"    -> proxySpec(v)
      [] kind = "memory"   -> createMemoryResource(v)
      [] kind = "postgres" -> postgresSpec(v)

Create(spec) ==
    /\ created < MaxUid /\ created' = created + 1
    /\ Write(Fresh(kind, created + 1, spec))

\* The converted object has no finalizers: the Update takes ours away, and
\* on an object that is being deleted this ends the deletion.
startMCPServer(spec) ==
    IF ~res.exists THEN Create(spec)
    ELSE /\ Write(IF res.deleting THEN Gone(kind)
                  ELSE [res EXCEPT !.spec = spec, !.fin = FALSE])
         /\ UNCHANGED created

\* createMCPProxyResource and enablePostgresService do the same.
startProxyService(spec) ==
    IF ~res.exists THEN Create(spec)
    ELSE Write([res EXCEPT !.spec = spec,
                           !.gen = IF res.spec = spec THEN @ ELSE @ + 1])
         /\ UNCHANGED created
enablePostgresService(spec) == startProxyService(spec)

\* An MCPMemory that exists is left as it is, whatever its phase.
memoryStart(spec) ==
    IF ~res.exists THEN Create(spec) ELSE UNCHANGED <<res, cacheFresh, created>>

\* `matey up', `matey start', `matey postgres', `matey proxy'.
Start(spec) ==
    CASE kind = "server"   -> startMCPServer(spec)
      [] kind = "proxy"    -> startProxyService(spec)
      [] kind = "memory"   -> memoryStart(spec)
      [] kind = "postgres" -> enablePostgresService(spec)

Up ==
    /\ cmd = <<>> /\ (IF res.exists THEN Disturb ELSE UNCHANGED disturbances)
    /\ \E v \in Versions : Start(Configured(v))
    /\ intent' = "up" /\ snapFresh' = (snapFresh /\ res' = res)
    /\ UNCHANGED <<kind, cache, snap, todo, seen, dirty, clusterVars, cmd>>

\* `matey install' and `matey postgres': what is there already stays.
install ==
    /\ cmd = <<>> /\ kind \in {"proxy", "postgres"} /\ ~res.exists
    /\ Create([p \in Parts(kind) |-> 1]) /\ intent' = "up" /\ snapFresh' = FALSE
    /\ UNCHANGED <<kind, cache, snap, todo, seen, dirty, clusterVars, cmd,
                   disturbances>>

StopSteps == IF kind = "server" THEN <<"delete", "deldep", "delsvc">>
             ELSE <<"delete">>

\* stopSpecificServices and stopAllServices.  No command deletes the
\* proxy, `down' neither.
Stop ==
    /\ cmd = <<>> /\ kind # "proxy" /\ res.exists /\ Disturb /\ cmd' = StopSteps
    /\ UNCHANGED <<kind, apiVars, local, dirty, clusterVars, created, intent>>

\* Restart of a server or of the memory server.
Restart ==
    /\ cmd = <<>> /\ kind \in {"server", "memory"} /\ res.exists /\ Disturb
    /\ cmd' = StopSteps \o <<"wait", "start">>
    /\ UNCHANGED <<kind, apiVars, local, dirty, clusterVars, created, intent>>

\* The command ends with its last step.
Finish(what) == /\ cmd' = Tail(cmd)
                /\ intent' = IF Tail(cmd) = <<>> THEN what ELSE intent

DeleteCR ==
    /\ cmd # <<>> /\ Head(cmd) = "delete"
    /\ IF res.exists THEN Write(Deleted(res)) ELSE UNCHANGED <<res, cacheFresh>>
    /\ snapFresh' = (snapFresh /\ res' = res) /\ Finish("down")
    /\ UNCHANGED <<kind, cache, snap, todo, seen, dirty, clusterVars, created,
                   disturbances>>

\* The clean-up by hand of stopMCPServer, after at most a second.
DeleteOwned ==
    /\ cmd # <<>> /\ Head(cmd) \in {"deldep", "delsvc"}
    /\ LET c == IF Head(cmd) = "deldep" THEN "deployment" ELSE "service" IN
       /\ child' = [child EXCEPT ![c] = NoChild]
       /\ pods' = (IF c = "deployment" THEN 0 ELSE pods)
       /\ dirty' = (dirty \/ Has(c))
    /\ Finish("down")
    /\ UNCHANGED <<kind, apiVars, local, pgpods, peer, created, disturbances>>

\* waitForDeploymentDeleted gives up after 10 seconds.
waitForDeploymentDeleted ==
    /\ cmd # <<>> /\ Head(cmd) = "wait" /\ cmd' = Tail(cmd)
    /\ UNCHANGED <<resourceVars, created, intent>>

StartAgain ==
    /\ cmd # <<>> /\ Head(cmd) = "start" /\ Start(res.spec) /\ Finish("up")
    /\ snapFresh' = (snapFresh /\ res' = res)
    /\ UNCHANGED <<kind, cache, snap, todo, seen, dirty, clusterVars,
                   disturbances>>

\* startSystemService and stopSystemService of the proxy.
Scale(n) ==
    /\ child' = [child EXCEPT !["deployment"].built["replicas"] = n]
    /\ pods' = (IF n = 0 THEN 0 ELSE pods)
startSystemService == Scale(1)
stopSystemService == Scale(0)

\* restartSystemService: an annotation rolls the pods.
restartSystemService == UNCHANGED child /\ pods' \in {1, pods}

SystemService ==
    /\ cmd = <<>> /\ kind = "proxy" /\ Has("deployment") /\ Disturb
    /\ startSystemService \/ stopSystemService \/ restartSystemService
    /\ dirty' = TRUE
    /\ UNCHANGED <<kind, apiVars, local, pgpods, peer, cmd, created, intent>>

-----------------------------------------------------------------------------
(* What `matey ps' says *)

getSystemServiceStatus ==
    IF ~Has("deployment") THEN "not-found"
    ELSE IF ScaledDown \/ pods = 0 THEN "stopped"
    ELSE IF pods = 1 THEN "starting" ELSE "running"

\* The deployment and the pods; the phase when there is no Deployment.
getMCPServerStatus ==
    IF Has("deployment")
    THEN CASE pods = 0 -> "pending" [] pods = 1 -> "starting" [] OTHER -> "running"
    ELSE IF res.exists /\ res.phase # NoPhase THEN res.phase ELSE "stopped"

postgresPhaseStatus ==
    IF ~res.exists \/ res.phase = NoPhase THEN "stopped"
    ELSE IF res.phase = "Running" THEN "running" ELSE res.phase

memoryStatus ==
    IF Has("deployment") /\ pods > 0
    THEN IF pods > 1 THEN "running" ELSE "starting"
    ELSE IF ~res.exists THEN "not-found"
    ELSE IF res.phase = "Running" THEN (IF res.healthy THEN "running" ELSE "starting")
    ELSE res.phase

ComposeStatus ==
    CASE kind = "server"   -> getMCPServerStatus
      [] kind = "proxy"    -> getSystemServiceStatus
      [] kind = "memory"   -> memoryStatus
      [] kind = "postgres" -> postgresPhaseStatus

-----------------------------------------------------------------------------
Command == \/ Up \/ install \/ Stop \/ Restart \/ SystemService
CommandStep == DeleteCR \/ DeleteOwned \/ waitForDeploymentDeleted \/ StartAgain

Controller == ReconcileStep /\ UNCHANGED <<cmd, created, intent>>
RefusedStep == Refusal /\ UNCHANGED <<cmd, created, intent>>
ClusterStep == Cluster /\ UNCHANGED <<cmd, created, intent>>
CacheStep == CacheCatchesUp /\ UNCHANGED <<cmd, created, intent>>
PodStep == PodsProgress /\ UNCHANGED <<cmd, created, intent>>
CollectStep(c) == GarbageCollect(c) /\ UNCHANGED <<cmd, created, intent>>

CommandNext == Command \/ CommandStep \/ Controller \/ ClusterStep

\* A controller works off its queue, watches deliver, pods come up, orphans
\* are collected, and a command goes on.
CommandSpec ==
    /\ CommandInit /\ [][CommandNext]_allVars
    /\ WF_allVars(Controller) /\ WF_allVars(RefusedStep)
    /\ WF_allVars(CacheStep) /\ WF_allVars(PodStep) /\ WF_allVars(CommandStep)
    /\ \A c \in Names : WF_allVars(CollectStep(c))

-----------------------------------------------------------------------------
\* reconcileCreating writes the Deployment last: a memory server never
\* starts, and its phase never says that it does or runs, without the Secret,
\* ConfigMap and Service it mounts and is reached by.  A resource created
\* again before the old objects are collected is left out: the README tells
\* what becomes of it.
MemoryDeploymentLast ==
    (/\ kind = "memory" /\ created = 1 /\ res.exists
     /\ Has("deployment") \/ res.phase \in {"Starting", "Running"})
        => \A c \in {"secret", "configmap", "service"} : Has(c)

Follows(c) ==
    /\ child[c].uid = res.uid
    /\ \A p \in Compared(kind, c) : child[c].built[p] = res.spec[p]

\* What the controller of each kind makes of a spec at rest.  A server whose
\* labels changed keeps the old Deployment (its selector cannot change), a
\* Postgres that failed is left alone, a memory server has its Deployment
\* followed and the rest only created.
AtRest ==
    CASE kind = "server"   -> \/ Follows("deployment") /\ Follows("service")
                              \/ /\ Has("deployment")
                                 /\ child["deployment"].built["labels"] # res.spec["labels"]
      [] kind = "proxy"    -> /\ \A c \in {"deployment", "service", "configmap"} : Follows(c)
                              /\ res.spec["ingress"] = 2 => Follows("ingress")
                              /\ res.spec["replicas"] = 2 => Follows("pdb")
      [] kind = "memory"   -> created = 1 /\ res.phase = "Running" => Follows("deployment")
      [] kind = "postgres" -> res.phase # "Failed" =>
                              \A c \in {"secret", "pvc", "service", "deployment"} : Follows(c)

Settled ==
    /\ ~res.deleting
    /\ res.exists => /\ AtRest
                     /\ pods = AllReady /\ res.phase # "Failed" => ComposeStatus = "running"

\* What the controllers and the commands hold is what they rely on: the memory
\* server's Deployment is made after the objects it needs (compose.go,
\* mcpmemory_controller.go).
ResourcesAreSound == CommandTypeOK /\ MemoryDeploymentLast

\* When users and failures leave the system alone, the owned objects come to
\* follow the spec, through stale caches, refused updates, failing calls,
\* restarts of the controller and lost Deployments; deletions end; and `ps'
\* shows a resource whose pods are ready as running.
SpecsAreFollowed == <>[]Settled

\* A Stop is final: a reconcile that still works on its copy of the deleted
\* resource may create the Deployment again, but nothing stays.
StoppedIsGone == <>[](~res.exists => \A c \in Names : ~Has(c))

-----------------------------------------------------------------------------
(* The invariant that ResourcesAreSound follows from *)

Resource(k) ==
    [exists : BOOLEAN, uid : 0..MaxUid, deleting : BOOLEAN, fin : BOOLEAN,
     phase : Phases, spec : Specs(k), error : Names \cup {NoError},
     healthy : BOOLEAN, discovered : BOOLEAN, gen : Nat,
     status : [pods : 0..3, gen : Nat]]

StateType ==
    /\ kind \in Kinds
    /\ res \in Resource(kind) /\ cache \in Resource(kind) /\ snap \in Resource(kind)
    /\ cacheFresh \in BOOLEAN /\ snapFresh \in BOOLEAN /\ dirty \in BOOLEAN
    /\ seen \in 0..3 /\ pods \in 0..3 /\ pgpods \in 0..2
    /\ DOMAIN child = Names /\ child = [c \in Names |-> child[c]]
    /\ \A c \in Names : /\ child[c].uid \in 0..MaxUid
                        /\ child[c] = [uid |-> child[c].uid, built |-> child[c].built]
    /\ peer \in BOOLEAN /\ disturbances \in 0..MaxDisturbances
    /\ cmd \in Seq(CommandSteps) /\ created \in 0..MaxUid
    /\ intent \in {"none", "up", "down"}

\* Only what was created has a uid, and a reconcile works on such a copy.
UidInv ==
    /\ \A r \in {res, cache, snap} : r.uid <= created /\ (r.exists <=> r.uid # 0)
    /\ \A c \in Names : child[c].uid <= created
    /\ todo # <<>> => snap.exists

\* The plan of a reconcile of a memory server in each phase, and the steps of
\* it that are left.
MemoryPlan(p) ==
    CASE p = NoPhase    -> <<"pending", "creating">>
      [] p = "Pending"  -> <<"creating">>
      [] p = "Creating" -> <<"pvc", "pgdeployment", "secret", "configmap", "service",
                             "deployment", "starting">>
      [] p = "Starting" -> <<"startup">>
      [] p = "Running"  -> <<"deployment", "health">>
MemoryPhases == {NoPhase, "Pending", "Creating", "Starting", "Running"}
Rest(s, plan) ==
    /\ Len(s) <= Len(plan)
    /\ \A i \in 1..Len(s) : s[i] = plan[Len(plan) - Len(s) + i]

ReconcileSteps == Names \cup {"pending", "creating", "terminating", "starting",
    "startup", "health", "finalize", "unfinalize", "discover", "status"}

\* Each kind takes its own steps.
PlanInv ==
    /\ todo \in Seq(ReconcileSteps)
    /\ kind = "postgres" => \A i \in 1..Len(todo) : todo[i] # "discover"
    /\ kind = "memory" =>
          /\ \A r \in {res, cache, snap} : r.phase \in MemoryPhases
          /\ Rest(todo, MemoryPlan(snap.phase))
    /\ kind # "server" => \A i \in 1..Len(cmd) : cmd[i] \notin {"deldep", "delsvc"}

Needed == {"secret", "configmap", "service"}
Prepared == \A c \in Needed : Has(c)

\* What the phases of a memory server or its Deployment say was made is there,
\* and a reconcile that creates has made what its plan has before the step it
\* is at.
MemoryStages ==
    /\ \A r \in {res, cache, snap} :
          r.exists /\ r.phase \in {"Starting", "Running"} => Prepared
    /\ Has("deployment") => Prepared
    /\ todo # <<>> /\ snap.phase = "Creating" =>
          /\ Len(todo) < 5 => Has("secret")
          /\ Len(todo) < 4 => Has("configmap")
          /\ Len(todo) < 3 => Has("service")

\* While its first resource is there nothing of its objects is collected.
FirstMemory == kind = "memory" /\ created = 1 /\ res.exists
MemoryInv == FirstMemory => MemoryStages

ResourceInv == StateType /\ UidInv /\ PlanInv /\ MemoryInv
=============================================================================
