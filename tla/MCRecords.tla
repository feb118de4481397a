----------------------------- MODULE MCRecords -----------------------------
(***************************************************************************)
(* What is recorded of workflows, side by side: the definitions in the     *)
(* resource, the database and the cron registries, and the executions in   *)
(* the resource's status.  A behaviour is one of `part', and the other     *)
(* stays as it began.                                                      *)
(*                                                                         *)
(* Body b1 is plain, b3 has dependencies, which the store cannot keep.     *)
(***************************************************************************)
EXTENDS Integers, FiniteSets, TLC

CONSTANTS Names, Schedules, Bodies, PlainBody, Storable, StoredBody(_), MaxVersion, MaxRestarts,
          Workflows, LongNames, MaxExecs, BackoffLimit, HistoryLimit,
          None

VARIABLES part,
          crd, version, wanted, row, pc, starting, listed, snap, seen,
          serverJobs, restarts, ctlSeen, ctlJobs,
          of, job, failed, monitor, verdict, snapshot, fresh, history, running

Syn == INSTANCE WorkflowSync
Mon == INSTANCE JobMonitor

ASSUME RecordsAssumption == Syn!SyncAssumption /\ Mon!MonitorAssumption

synVars == <<crd, version, wanted, row, pc, starting, listed, snap, seen,
             serverJobs, restarts, ctlSeen, ctlJobs>>
monVars == <<of, job, failed, monitor, verdict, snapshot, fresh, history, running>>
vars == <<part, synVars, monVars>>

\* The bodies of the run are stored as they are.
MCStoredBody(b) == b

NameSymmetry == Permutations(Names)

Init == part \in {"sync", "monitor"} /\ Syn!Init /\ Mon!Init

Next ==
    \/ part = "sync" /\ Syn!Next /\ UNCHANGED <<part, monVars>>
    \/ part = "monitor" /\ Mon!Next /\ UNCHANGED <<part, synVars>>

Spec == Init /\ [][Next]_vars

-----------------------------------------------------------------------------
\* Of workflow_scheduler.go, workflow_store.go and service/task_scheduler.go:
\* the copies of a definition agree as far as each has caught up, whatever is
\* edited, synchronised and restarted in whatever order.
CopiesAgree ==
    part = "sync" =>
        /\ Syn!TypeOK
        /\ Syn!ReconciledJobsMatch /\ Syn!StoredWorkflowIsKept /\ Syn!SyncedDeletionIsFinal

\* Of workflow_scheduler.go: the status tells the truth about an execution, and
\* tells it once.
HistoryIsTrue ==
    part = "monitor" =>
        Mon!TypeOK /\ Mon!RecordedSuccessIsTrue /\ Mon!RecordedAtMostOnce

\* Of workflow_scheduler.go: no monitor overwrites what others recorded.
MonitorUpdateKeepsOthers ==
    [][part = "monitor" => Mon!UpdateKeepsOthers]_vars
============================================================================
