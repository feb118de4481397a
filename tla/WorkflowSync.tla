---------------------------- MODULE WorkflowSync ----------------------------
(***************************************************************************)
(* Where a workflow definition lives, and how its copies are kept in step: *)
(*   - the MCPTaskScheduler resource, which users edit (service and MCP    *)
(*     tools: create, delete, pause/resume, kubectl edit);                 *)
(*   - the PostgreSQL workflow store of the scheduler server, written by   *)
(*     the server's startup and by its 30 s poll of the resource;          *)
(*   - the cron registry of the scheduler server, filled at startup;       *)
(*   - the cron registry of the task scheduler controller, filled by       *)
(*     SyncWorkflow on every reconcile.                                    *)
(*                                                                         *)
(* Sources: internal/scheduler/workflow_scheduler.go and workflow_store.go *)
(* with scripts/init_db.sql, reconcileWorkflows of the controller, the     *)
(* edits of internal/service/task_scheduler.go and internal/mcp            *)
(* /tools_workflow.go.  An edit is Get, change, Update with an optimistic  *)
(* version check: it takes effect in one step or not at all.  The list is  *)
(* modelled with distinct names, as the MCP tool enforces.                 *)
(***************************************************************************)
EXTENDS Integers, FiniteSets

CONSTANTS Names,        \* workflow names
          Schedules,    \* cron expressions
          Bodies,       \* what else a definition has: steps, retry policy...
          PlainBody,    \* the body a definition has when it is created
          Storable,     \* bodies without dependsOn: its JSON is no TEXT[]
          StoredBody(_),\* a body read back from the database
          None,
          MaxVersion,   \* bound: resourceVersions
          MaxRestarts   \* bound: server processes started

Definition == [sched : Schedules, enabled : BOOLEAN, body : Bodies]
Job == [sched : Schedules, body : Bodies]

\* What the constants have to be.
SyncAssumption ==
    /\ None \notin Definition /\ None \notin Job /\ PlainBody \in Bodies
    /\ Storable \subseteq Bodies
    /\ \A b \in Bodies : StoredBody(b) \in Bodies
    /\ MaxVersion \in Nat \ {0} /\ MaxRestarts \in Nat

VARIABLES
    crd,        \* Spec.Workflows: name -> definition
    version,    \* the resource's resourceVersion
    wanted,     \* names the users have created and not deleted
    row,        \* name -> the row of table workflows (name is UNIQUE)
    pc,         \* the server's sync: where Start or the poll is
    starting,   \* the sync in progress is Start's
    listed,     \* ListWorkflows' answer
    snap,       \* the resource as Get returned it
    seen,       \* lastResourceVersion of the poll, 0 before the first
    serverJobs, \* the server's cron registry
    restarts,   \* server processes started so far
    ctlSeen,    \* the version of the last reconcile, 0 before the first
    ctlJobs     \* the controller's cron registry

resource == <<crd, version>>
server == <<pc, starting, listed, snap, seen, serverJobs, restarts>>
controller == <<ctlSeen, ctlJobs>>
vars == <<crd, version, wanted, row, pc, starting, listed, snap, seen,
          serverJobs, restarts, ctlSeen, ctlJobs>>

Row == [status : {"none", "active", "deleted"}, def : Definition \cup {None}]
MaybeDefs == [Names -> Definition \cup {None}]
Snapshot == [version : 0..MaxVersion, crd : MaybeDefs]

NoDefs == [n \in Names |-> None]
NoSnap == [version |-> 0, crd |-> NoDefs]

TypeOK ==
    /\ crd \in MaybeDefs /\ version \in 1..MaxVersion
    /\ wanted \subseteq Names
    /\ row \in [Names -> Row]
    /\ pc \in {"down", "list", "update", "get", "sync", "apply", "schedule",
               "idle", "failed"}
    /\ starting \in BOOLEAN
    /\ listed \in MaybeDefs /\ snap \in Snapshot
    /\ seen \in 0..MaxVersion
    /\ serverJobs \in [Names -> Job \cup {None}]
    /\ restarts \in 0..MaxRestarts
    /\ ctlSeen \in 0..MaxVersion
    /\ ctlJobs \in [Names -> Job \cup {None}]

Init ==
    /\ crd = NoDefs /\ version = 1 /\ wanted = {}
    /\ row = [n \in Names |-> [status |-> "none", def |-> None]]
    /\ pc = "down" /\ starting = FALSE
    /\ listed = NoDefs /\ snap = NoSnap /\ seen = 0
    /\ serverJobs = NoDefs /\ restarts = 0
    /\ ctlSeen = 0 /\ ctlJobs = NoDefs

-----------------------------------------------------------------------------
(* Edits of the resource *)

Edit(n, d) ==
    /\ version < MaxVersion
    /\ crd' = [crd EXCEPT ![n] = d] /\ version' = version + 1
    /\ UNCHANGED <<row, server, controller>>

createWorkflow(n, s) ==
    /\ crd[n] = None
    /\ Edit(n, [sched |-> s, enabled |-> TRUE, body |-> PlainBody])
    /\ wanted' = wanted \cup {n}

deleteWorkflow(n) ==
    /\ crd[n] # None
    /\ Edit(n, None)
    /\ wanted' = wanted \ {n}

SetWorkflowEnabled(n, b) ==
    /\ crd[n] # None /\ crd[n].enabled # b
    /\ Edit(n, [crd[n] EXCEPT !.enabled = b])
    /\ wanted' = wanted

\* kubectl edit: another schedule or another body.
EditDefinition(n, s, b) ==
    /\ crd[n] # None /\ <<s, b>> # <<crd[n].sched, crd[n].body>>
    /\ Edit(n, [crd[n] EXCEPT !.sched = s, !.body = b])
    /\ wanted' = wanted

-----------------------------------------------------------------------------
(* The workflow store *)

\* Mutant: the list leaves out the paused workflows.
MutListWorkflows ==
    [n \in Names |-> IF row[n].status = "active" /\ row[n].def.enabled
                     THEN row[n].def ELSE None]

\* Mutant: the list has the soft-deleted workflows, too.
MutListWorkflowsDeleted == [n \in Names |-> row[n].def]

ListWorkflows ==
    [n \in Names |-> IF row[n].status = "active" THEN row[n].def ELSE None]

\* ToCRDWorkflowDefinition
ToCRD(d) == IF d = None THEN None ELSE [d EXCEPT !.body = StoredBody(@)]

\* Mutant: a NULL body is stored for what cannot be stored.
MutCreateWorkflow(r, d) ==
    IF r.status = "none"
    THEN [status |-> "active",
          def |-> IF d.body \in Storable THEN d
                  ELSE [sched |-> d.sched, enabled |-> d.enabled,
                        body |-> None]]
    ELSE r

\* The INSERT fails if a row of that name exists, deleted or not, and if a
\* dependsOn list has to be stored.
CreateWorkflow(r, d) ==
    IF r.status = "none" /\ d.body \in Storable
    THEN [status |-> "active", def |-> d] ELSE r

\* syncWorkflowsToPostgreSQL for one name: d is its definition in the
\* resource as read, old its row as listed before.
SyncRow(r, d, old) ==
    IF d # None THEN CreateWorkflow(r, d)
    ELSE IF old # None /\ r.status = "active"
         THEN [r EXCEPT !.status = "deleted"] ELSE r

-----------------------------------------------------------------------------
(* The scheduler server *)

StartServer ==
    /\ pc = "down" /\ restarts < MaxRestarts
    /\ restarts' = restarts + 1
    /\ pc' = "list" /\ starting' = TRUE
    /\ UNCHANGED <<resource, wanted, row, listed, snap, seen, serverJobs,
                   controller>>

\* syncWorkflowsFromPostgreSQLToCRD: nothing to do, or the query fails.
ListStored ==
    /\ pc = "list"
    /\ \/ listed' = ListWorkflows /\ listed' # NoDefs /\ pc' = "update"
       \/ listed' = NoDefs /\ pc' = "get"
    /\ UNCHANGED <<resource, wanted, row, starting, snap, seen, serverJobs,
                   restarts, controller>>

Overwrite == [n \in Names |-> ToCRD(listed[n])]

UpdateResource ==
    /\ pc = "update"
    /\ pc' = "get"
    /\ \/ UNCHANGED resource
       \/ /\ version < MaxVersion
          /\ crd' = Overwrite
          /\ version' = IF crd' = crd THEN version ELSE version + 1
    /\ UNCHANGED <<wanted, row, starting, listed, snap, seen, serverJobs,
                   restarts, controller>>

\* Start's Get: on an error Start fails, and nothing starts it again.
GetResource ==
    /\ pc = "get"
    /\ \/ /\ snap' = [version |-> version, crd |-> crd]
          /\ pc' = "sync"
       \/ pc' = "failed" /\ snap' = snap
    /\ UNCHANGED <<resource, wanted, row, starting, listed, seen, serverJobs,
                   restarts, controller>>

\* checkCRDChanges: the poll's Get and version check.
Poll ==
    /\ pc = "idle" /\ seen # version
    /\ snap' = [version |-> version, crd |-> crd]
    /\ pc' = "sync" /\ starting' = FALSE
    /\ UNCHANGED <<resource, wanted, row, listed, seen, serverJobs, restarts,
                   controller>>

\* The list the deletions work from; a failing query ends the sync.
ListExisting ==
    /\ pc = "sync"
    /\ \/ listed' = ListWorkflows /\ pc' = "apply"
       \/ listed' = listed /\ pc' = IF starting THEN "schedule" ELSE "idle"
    /\ UNCHANGED <<resource, wanted, row, starting, snap, seen, serverJobs,
                   restarts, controller>>

\* Statements that fail are logged and skipped: the sync counts as done.
ApplySync(ok) ==
    /\ pc = "apply"
    /\ row' = [n \in Names |->
                  IF n \in ok THEN SyncRow(row[n], snap.crd[n], listed[n])
                  ELSE row[n]]
    /\ pc' = IF starting THEN "schedule" ELSE "idle"
    /\ seen' = IF starting THEN seen ELSE snap.version
    /\ UNCHANGED <<resource, wanted, starting, listed, snap, serverJobs,
                   restarts, controller>>

JobOf(d) == [sched |-> d.sched, body |-> d.body]

\* The rest of syncWorkflowsFromCRD, and the end of Start.
ScheduleAll ==
    /\ pc = "schedule"
    /\ serverJobs' = [n \in Names |->
                        IF snap.crd[n] # None /\ snap.crd[n].enabled
                        THEN JobOf(snap.crd[n]) ELSE serverJobs[n]]
    /\ pc' = "idle" /\ seen' = 0
    /\ UNCHANGED <<resource, wanted, row, starting, listed, snap, restarts,
                   controller>>

\* The process ends at any point; what it kept in memory is gone.
Crash ==
    /\ pc # "down"
    /\ pc' = "down" /\ listed' = NoDefs /\ snap' = NoSnap /\ seen' = 0
    /\ serverJobs' = NoDefs /\ starting' = FALSE
    /\ UNCHANGED <<resource, wanted, row, restarts, controller>>

-----------------------------------------------------------------------------
(* The controller *)

\* Mutant: a job that exists is left alone.
MutSyncWorkflow(job, d) ==
    IF job # None THEN job ELSE IF d.enabled THEN JobOf(d) ELSE None

\* SyncWorkflow: a registered job has Enabled = true.
SyncWorkflow(job, d) ==
    IF job # None /\ job.sched = d.sched /\ d.enabled THEN job
    ELSE IF d.enabled THEN JobOf(d) ELSE None

\* reconcileWorkflows: Start schedules the enabled workflows the first time,
\* then each workflow of the resource is synchronised.
Reconcile ==
    /\ ctlSeen # version
    /\ LET started == IF ctlSeen = 0
                      THEN [n \in Names |-> IF crd[n] # None /\ crd[n].enabled
                                            THEN JobOf(crd[n]) ELSE None]
                      ELSE ctlJobs
       IN ctlJobs' = [n \in Names |-> IF crd[n] = None THEN started[n]
                                      ELSE SyncWorkflow(started[n], crd[n])]
    /\ ctlSeen' = version
    /\ UNCHANGED <<resource, wanted, row, server>>

\* cleanupWorkflowScheduler, or a restart of the controller manager.
ControllerRestart ==
    /\ ctlSeen # 0
    /\ ctlSeen' = 0 /\ ctlJobs' = NoDefs
    /\ UNCHANGED <<resource, wanted, row, server>>

UserStep ==
    \E n \in Names :
        \/ \E s \in Schedules : createWorkflow(n, s)
        \/ deleteWorkflow(n)
        \/ \E b \in BOOLEAN : SetWorkflowEnabled(n, b)
        \/ \E s \in Schedules, b \in Bodies : EditDefinition(n, s, b)

ServerStep ==
    \/ StartServer \/ ListStored \/ UpdateResource \/ GetResource \/ Poll
    \/ ListExisting
    \/ \E ok \in SUBSET Names : ApplySync(ok)
    \/ ScheduleAll \/ Crash

ControllerStep == Reconcile \/ ControllerRestart

Next == UserStep \/ ServerStep \/ ControllerStep

Spec == Init /\ [][Next]_vars
-----------------------------------------------------------------------------
(* Properties *)

\* Once the controller has reconciled the resource's current version, a
\* workflow in it has a cron job exactly if it is enabled, and the job has
\* the workflow's schedule: whatever edits were folded into the reconcile.
ReconciledJobsMatch ==
    ctlSeen = version =>
        \A n \in Names : crd[n] # None =>
            IF crd[n].enabled
            THEN ctlJobs[n] # None /\ ctlJobs[n].sched = crd[n].sched
            ELSE ctlJobs[n] = None

\* A workflow that a user has created and not deleted, and that has reached
\* the store, is in the resource: restarts of the server, which overwrite the
\* resource from the store, do not lose it.
StoredWorkflowIsKept ==
    \A n \in wanted : row[n].status = "active" => crd[n] # None

\* A workflow that users have deleted is back in the resource only as long
\* as the store still has it: a deletion that was synchronised is final.
SyncedDeletionIsFinal ==
    \A n \in Names \ wanted : crd[n] # None => row[n].status = "active"

\* A row that is active holds a definition; what Start writes back is what the
\* store has; what users did since the server's Get shows in `wanted'.  The
\* versions that were seen are not ahead of the resource's.
SyncInv ==
    /\ TypeOK
    /\ ctlSeen <= version
    /\ \A n \in Names : row[n].status = "active" => row[n].def # None
    /\ pc = "update" => listed = ListWorkflows
    /\ pc \in {"sync", "apply"} =>
          \A n \in Names : IF n \in wanted THEN snap.crd[n] # None => crd[n] # None
                                          ELSE snap.crd[n] = None => crd[n] = None
    /\ ReconciledJobsMatch /\ StoredWorkflowIsKept /\ SyncedDeletionIsFinal

=============================================================================
