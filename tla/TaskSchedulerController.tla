---------------------- MODULE TaskSchedulerController ----------------------
(***************************************************************************)
(* The reconciler of MCPTaskScheduler: the phases of the resource, the     *)
(* workflow scheduler and event watcher it starts, and the manual          *)
(* executions that the workflow tool requests with an annotation.  The     *)
(* reconciler reads a cache that lags behind the API server, and its       *)
(* updates are refused when the version it read is not the latest.         *)
(*                                                                         *)
(* Sources: internal/controllers/mcptaskscheduler_controller.go and        *)
(* base_reconciler.go, ExecuteWorkflowManually of internal/scheduler and   *)
(* executeWorkflowViaMCP of internal/mcp/tools_workflow.go.  The API       *)
(* server, the cache, the work queue and Deployments are external.  Event  *)
(* triggers are configured and auto-scaling, which only rewrites the       *)
(* ConfigMap, is left out.                                                 *)
(* No code sets the phases Failed and Terminating, so reconcileFailed and  *)
(* reconcileTerminating never run and have no action here.                 *)
(***************************************************************************)
EXTENDS Integers

CONSTANTS Workflows,
          InProcess,     \* no Kubernetes executor: the engine runs it here
          MaxRequests,   \* bound: manual executions requested
          MaxOthers,     \* bound: status updates by job monitors
          MaxRestarts,   \* bound: restarts of the controller
          MaxLosses      \* bound: deletions of the Deployment and of workflows

ASSUME ControllerAssumption ==
    /\ InProcess \in BOOLEAN
    /\ MaxRequests \in Nat /\ MaxOthers \in Nat
    /\ MaxRestarts \in Nat /\ MaxLosses \in Nat

Requests == 1..MaxRequests
MaxRuns == 2                \* bound: runs counted

VARIABLES
    res,        \* the resource: phase, workflows, pending request of each
    cache,      \* what the controller's cache holds of it
    cacheFresh, \* cache is the latest version
    pc,         \* where the reconcile is
    snap,       \* the object it works on
    snapFresh,  \* ... carries the latest resourceVersion
    pending,    \* annotations handleManualExecutions has not looked at
    processed,  \* annotationsToRemove
    dirty,      \* the work queue holds the resource
    deployment, \* unseen: it exists, the controller's cache lacks it
    scheduling, \* a workflow scheduler with its cron engine runs
    watching,   \* an event watcher runs
    target,     \* request -> its workflow
    issued,     \* requests issued
    runs,       \* request -> times it was executed
    others, restarts, losses

requestVars == <<target, issued>>
local == <<pc, snap, snapFresh, pending, processed>>
vars == <<res, cache, cacheFresh, pc, snap, snapFresh, pending, processed,
          dirty, deployment, scheduling, watching, target, issued, runs,
          others, restarts, losses>>

Phases == {"", "Pending", "Creating", "Starting", "Running"}
Resource == [exists : BOOLEAN, phase : Phases, workflows : SUBSET Workflows,
             request : [Workflows -> 0..MaxRequests]]   \* 0: no annotation

TypeOK ==
    /\ res \in Resource /\ cache \in Resource /\ snap \in Resource
    /\ cacheFresh \in BOOLEAN /\ snapFresh \in BOOLEAN /\ dirty \in BOOLEAN
    /\ scheduling \in BOOLEAN /\ watching \in BOOLEAN
    /\ pc \in {"idle", "phase", "manual", "status"}
    /\ pending \subseteq Workflows /\ processed \subseteq Workflows
    /\ deployment \in {"none", "unseen", "seen", "ready"}
    /\ target \in [Requests -> Workflows] /\ issued \in 0..MaxRequests
    /\ runs \in [Requests -> 0..MaxRuns]
    /\ others \in 0..MaxOthers /\ restarts \in 0..MaxRestarts
    /\ losses \in 0..MaxLosses

New == [exists |-> TRUE, phase |-> "", workflows |-> Workflows,
        request |-> [w \in Workflows |-> 0]]

Init ==
    /\ res = New /\ cache = New /\ cacheFresh = TRUE
    /\ pc = "idle" /\ snap = New /\ snapFresh = FALSE
    /\ pending = {} /\ processed = {} /\ dirty = TRUE
    /\ deployment = "none" /\ scheduling = FALSE /\ watching = FALSE
    /\ target \in [Requests -> Workflows] /\ issued = 0
    /\ runs = [r \in Requests |-> 0] /\ others = 0 /\ restarts = 0
    /\ losses = 0

-----------------------------------------------------------------------------
(* The API server and others *)

\* Every write makes the cache and the reconciler's copy old.
Write(new) == res' = new /\ cacheFresh' = FALSE

\* A watch event: the cache has the latest version, the queue the resource.
CacheCatchesUp ==
    /\ ~cacheFresh /\ cache' = res /\ cacheFresh' = TRUE /\ dirty' = TRUE
    /\ UNCHANGED <<res, local, deployment, scheduling, watching, requestVars,
                   runs, others, restarts, losses>>

\* executeWorkflowViaMCP: the annotation of the workflow takes the new
\* execution ID.  A conflict is an error for the caller: nothing was issued.
RequestExecution ==
    /\ res.exists /\ issued < MaxRequests /\ issued' = issued + 1
    /\ target[issued + 1] \in res.workflows
    /\ Write([res EXCEPT !.request[target[issued + 1]] = issued + 1])
    /\ snapFresh' = FALSE
    /\ UNCHANGED <<cache, pc, snap, pending, processed, dirty, deployment,
                   scheduling, watching, target, runs, others, restarts, losses>>

\* A job monitor appends to the execution history.
OtherStatusUpdate ==
    /\ res.exists /\ others < MaxOthers /\ others' = others + 1
    /\ Write(res) /\ snapFresh' = FALSE
    /\ UNCHANGED <<cache, pc, snap, pending, processed, dirty, deployment,
                   scheduling, watching, requestVars, runs, restarts, losses>>

DeleteResource ==
    /\ res.exists /\ Write([res EXCEPT !.exists = FALSE])
    /\ snapFresh' = FALSE
    /\ UNCHANGED <<cache, pc, snap, pending, processed, dirty, deployment,
                   scheduling, watching, requestVars, runs, others, restarts, losses>>

\* deleteWorkflow: the definition goes, its annotation stays.
WorkflowDeleted(w) ==
    /\ res.exists /\ w \in res.workflows
    /\ losses < MaxLosses /\ losses' = losses + 1
    /\ Write([res EXCEPT !.workflows = @ \ {w}]) /\ snapFresh' = FALSE
    /\ UNCHANGED <<cache, pc, snap, pending, processed, dirty, deployment,
                   scheduling, watching, requestVars, runs, others, restarts>>

\* The Deployment is owned: its events queue the resource.
DeploymentEvent ==
    /\ \/ /\ deployment = "unseen" /\ deployment' = "seen"
          /\ losses' = losses
       \/ /\ deployment = "seen" /\ deployment' = "ready"
          /\ losses' = losses
       \/ /\ deployment # "none" /\ deployment' = "none"
          /\ losses < MaxLosses /\ losses' = losses + 1
    /\ dirty' = TRUE
    /\ UNCHANGED <<res, cache, cacheFresh, local, scheduling, watching,
                   requestVars, runs, others, restarts>>

ControllerRestarts ==
    /\ restarts < MaxRestarts /\ restarts' = restarts + 1
    /\ cache' = res /\ cacheFresh' = TRUE /\ dirty' = TRUE
    /\ pc' = "idle" /\ snap' = New /\ snapFresh' = FALSE
    /\ pending' = {} /\ processed' = {}
    /\ scheduling' = FALSE /\ watching' = FALSE
    /\ deployment' = IF deployment = "unseen" THEN "seen" ELSE deployment
    /\ UNCHANGED <<res, requestVars, runs, others, losses>>

-----------------------------------------------------------------------------
(* Reconcile *)

\* Mutant: errors are logged and nothing is queued.
MutReturn(requeue) ==
    /\ pc' = "idle" /\ snap' = New /\ snapFresh' = FALSE
    /\ pending' = {} /\ processed' = {} /\ dirty' = dirty

\* The end of a reconcile; an error or a RequeueAfter queues the resource.
Return(requeue) ==
    /\ pc' = "idle" /\ snap' = New /\ snapFresh' = FALSE
    /\ pending' = {} /\ processed' = {}
    /\ dirty' = (dirty \/ requeue)

\* Update and Status().Update: no conflict, and the object is still there.
Accepted == snapFresh /\ res.exists

\* fetchInstance reads the cache; "not found" ends the reconcile.
Fetch ==
    /\ pc = "idle" /\ dirty /\ dirty' = FALSE
    /\ IF cache.exists THEN pc' = "phase" /\ snap' = cache /\ snapFresh' = cacheFresh
                       ELSE UNCHANGED <<pc, snap, snapFresh>>
    /\ UNCHANGED <<res, cache, cacheFresh, pending, processed, deployment,
                   scheduling, watching, requestVars, runs, others, restarts, losses>>

\* Status().Update with a new phase; a refused update is an error.  A status
\* update leaves the annotations alone.
SetPhase(new, requeue) ==
    IF Accepted
    THEN Write([res EXCEPT !.phase = new]) /\ Return(requeue)
    ELSE UNCHANGED <<res, cacheFresh>> /\ Return(TRUE)

\* An empty phase becomes Pending, and the same reconcile goes on with it.
EmptyPhase ==
    /\ pc = "phase" /\ snap.phase = ""
    /\ IF Accepted
       THEN /\ Write([res EXCEPT !.phase = "Pending"])
            /\ snap' = [snap EXCEPT !.phase = "Pending"]
            /\ UNCHANGED <<pc, snapFresh, pending, processed, dirty>>
       ELSE UNCHANGED <<res, cacheFresh>> /\ Return(TRUE)
    /\ UNCHANGED <<cache, deployment, scheduling, watching, requestVars,
                   runs, others, restarts, losses>>

reconcilePending ==
    /\ pc = "phase" /\ snap.phase = "Pending" /\ SetPhase("Creating", TRUE)
    /\ UNCHANGED <<cache, deployment, scheduling, watching, requestVars,
                   runs, others, restarts, losses>>

\* reconcileDeployment creates what Get does not find: the cache.
Ensured == IF deployment = "none" THEN "unseen" ELSE deployment

\* ConfigMap, Service, Deployment, phase.  Create of a Deployment that the
\* cache has not seen is refused.
reconcileCreating ==
    /\ pc = "phase" /\ snap.phase = "Creating" /\ deployment # "unseen"
    /\ deployment' = Ensured /\ SetPhase("Starting", FALSE)
    /\ UNCHANGED <<cache, scheduling, watching, requestVars, runs, others,
                   restarts, losses>>

\* ReadyReplicas > 0, else look again in 10 seconds.  A Deployment that is
\* not found ends the reconcile with nothing queued.
reconcileStarting ==
    /\ pc = "phase" /\ snap.phase = "Starting"
    /\ IF deployment = "ready" THEN SetPhase("Running", TRUE)
       ELSE Return(deployment = "seen") /\ UNCHANGED <<res, cacheFresh>>
    /\ UNCHANGED <<cache, deployment, scheduling, watching, requestVars,
                   runs, others, restarts, losses>>

\* A write that the API server fails, of a child or of the status, is an
\* error: it ends the reconcile and queues the resource again.
ReconcileFails ==
    /\ pc \in {"phase", "status"} /\ Return(TRUE)
    /\ deployment' \in IF pc = "phase" /\ snap.phase \in {"Creating", "Running"}
                       THEN {deployment, Ensured} ELSE {deployment}
    /\ UNCHANGED <<res, cache, cacheFresh, scheduling, watching,
                   requestVars, runs, others, restarts, losses>>

\* reconcileRunning: the Deployment, then setupEventWatching replaces the
\* watcher, and reconcileWorkflows gets or creates the workflow scheduler,
\* starts it and syncs the workflows.  A Start that fails to list them has
\* started the cron engine; the annotations wait for the next reconcile.
reconcileRunning ==
    /\ pc = "phase" /\ snap.phase = "Running" /\ deployment # "unseen"
    /\ deployment' = Ensured /\ watching' = TRUE /\ scheduling' = TRUE
    /\ \/ /\ pc' = "manual"
          /\ pending' = {w \in Workflows : snap.request[w] # 0}
       \/ pc' = "status" /\ pending' = {}
    /\ UNCHANGED <<res, cache, cacheFresh, snap, snapFresh, processed, dirty,
                   requestVars, runs, others, restarts, losses>>

Count(r) == [runs EXCEPT ![r] = IF @ < MaxRuns THEN @ + 1 ELSE @]

\* ExecuteWorkflowManually.  The Job's name comes from the execution ID: the
\* second Create of the same request fails.  An error keeps the annotation;
\* it may come after the work was done (an answer lost, a failed workflow).
\* A request for a workflow that is not defined is dropped.
Execute(w) ==
    LET r == snap.request[w]
    IN  /\ pc = "manual" /\ w \in pending /\ pending' = pending \ {w}
        /\ \/ /\ w \notin snap.workflows
              /\ runs' = runs /\ processed' = processed \cup {w}
           \/ /\ w \in snap.workflows /\ (InProcess \/ runs[r] = 0)
              /\ runs' = Count(r) /\ processed' = processed \cup {w}
           \/ /\ w \in snap.workflows /\ processed' = processed
              /\ \/ runs' = runs
                 \/ (InProcess \/ runs[r] = 0) /\ runs' = Count(r)
        /\ UNCHANGED <<res, cache, cacheFresh, pc, snap, snapFresh, dirty,
                       deployment, scheduling, watching, requestVars, others,
                       restarts, losses>>

\* Mutant: the annotations go before the executions have succeeded.
MutRemovable == {w \in Workflows : snap.request[w] # 0}

Removable == processed

\* Update of a copy without the processed annotations; a refused update is
\* logged.  The reconciler goes on with its own, now outdated, object.
RemoveAnnotations ==
    /\ pc = "manual" /\ pending = {} /\ pc' = "status"
    /\ IF Removable # {} /\ Accepted
       THEN /\ Write([res EXCEPT !.request =
                        [w \in Workflows |-> IF w \in Removable THEN 0
                                             ELSE snap.request[w]]])
            /\ snapFresh' = FALSE
       ELSE UNCHANGED <<res, cacheFresh, snapFresh>>
    /\ processed' = {}
    /\ UNCHANGED <<cache, snap, pending, dirty, deployment, scheduling,
                   watching, requestVars, runs, others, restarts, losses>>

\* Mutant: a Deployment that is not ready takes the resource back.
MutFinishRunning ==
    /\ pc = "status"
    /\ IF deployment \in {"seen", "ready"}
       THEN SetPhase(IF deployment = "ready" THEN snap.phase ELSE "Starting",
                     TRUE)
       ELSE Return(FALSE) /\ UNCHANGED <<res, cacheFresh>>
    /\ UNCHANGED <<cache, deployment, scheduling, watching, requestVars,
                   runs, others, restarts, losses>>

\* Health and statistics, with the phase it read; then every 2 minutes.  A
\* Deployment that is not in the cache yet ends it with nothing queued.
FinishRunning ==
    /\ pc = "status"
    /\ IF deployment \in {"seen", "ready"} THEN SetPhase(snap.phase, TRUE)
       ELSE Return(FALSE) /\ UNCHANGED <<res, cacheFresh>>
    /\ UNCHANGED <<cache, deployment, scheduling, watching, requestVars,
                   runs, others, restarts, losses>>

ReconcileStep ==
    \/ Fetch \/ EmptyPhase \/ reconcilePending \/ reconcileCreating
    \/ reconcileStarting \/ reconcileRunning \/ RemoveAnnotations
    \/ FinishRunning

Next ==
    \/ CacheCatchesUp \/ RequestExecution \/ OtherStatusUpdate
    \/ DeleteResource \/ DeploymentEvent \/ ControllerRestarts
    \/ \E w \in Workflows : WorkflowDeleted(w)
    \/ ReconcileStep \/ ReconcileFails
    \/ \E w \in Workflows : Execute(w)

Spec == Init /\ [][Next]_vars

\* The controller's worker runs, its cache catches up, the Deployment becomes
\* ready, and a call to the API server does not fail for ever.
FairSpec ==
    /\ Spec
    /\ WF_vars(CacheCatchesUp)
    /\ WF_vars(DeploymentEvent /\ losses' = losses)
    /\ SF_vars(EmptyPhase) /\ SF_vars(reconcilePending)
    /\ SF_vars(reconcileCreating) /\ SF_vars(reconcileStarting)
    /\ SF_vars(reconcileRunning /\ pc' = "manual") /\ WF_vars(ReconcileStep)
    /\ \A w \in Workflows :
          /\ WF_vars(Execute(w))
          /\ SF_vars(Execute(w) /\ processed' # processed)

-----------------------------------------------------------------------------
(* Properties *)

\* There is nothing to run any more.
Gone(r) == ~res.exists \/ target[r] \notin res.workflows
Superseded(r) == \E q \in (r + 1)..issued : target[q] = target[r]

\* A request is still annotated until it was executed, whatever was read from
\* the cache, whoever wrote in between and wherever the controller crashed;
\* only a newer request for the same workflow may take its place.
RequestNotLost ==
    \A r \in 1..issued :
        \/ runs[r] > 0 \/ res.request[target[r]] = r
        \/ Superseded(r) \/ Gone(r)

Rank(phase) == CASE phase = "" -> 0 [] phase = "Pending" -> 1
                 [] phase = "Creating" -> 2 [] phase = "Starting" -> 3
                 [] phase = "Running" -> 4 [] OTHER -> 5

\* The phase never goes back, though the reconciler reads an old cache.
PhaseAdvances == [][Rank(res'.phase) >= Rank(res.phase)]_vars

\* A request that is not superseded is executed, from any phase and after
\* any failure, if the Deployment is not taken away while it starts.
LatestRequestRuns ==
    <>[](deployment # "none") =>
        \A r \in Requests :
            (r <= issued) ~> (runs[r] > 0 \/ Superseded(r) \/ Gone(r))

=============================================================================
