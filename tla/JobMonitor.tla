----------------------------- MODULE JobMonitor -----------------------------
(***************************************************************************)
(* A scheduled workflow run as a Kubernetes Job, and what is recorded of   *)
(* it: the cron handler of scheduleWorkflow submits the Job, a goroutine   *)
(* (monitorJobAndUpdateStatus) polls its status and appends the result to  *)
(* Status.WorkflowExecutions of the MCPTaskScheduler resource with         *)
(* updateWorkflowExecutionStatus; the controller rewrites the same list on *)
(* every reconcile (updateWorkflowStatus).                                 *)
(*                                                                         *)
(* Sources: internal/scheduler/workflow_scheduler.go and                   *)
(* k8s_workflow_executor.go, internal/task_scheduler/k8s_job_manager.go.   *)
(* The Job controller of Kubernetes is external.                           *)
(***************************************************************************)
EXTENDS Integers, Sequences, FiniteSets, SequencesExt

CONSTANTS Workflows,
          LongNames,      \* workflows whose executionID is over 20 characters
          MaxExecs,       \* bound: Jobs submitted
          BackoffLimit,   \* Spec.BackoffLimit of the Jobs
          HistoryLimit,   \* executions kept per workflow, 10 in the code
          None

Execs == 1..MaxExecs

\* What the constants have to be.
MonitorAssumption ==
    /\ LongNames \subseteq Workflows /\ None \notin Workflows
    /\ MaxExecs \in Nat /\ BackoffLimit \in Nat /\ HistoryLimit \in Nat \ {0}

VARIABLES
    of,         \* execution -> its workflow, None if not submitted
    job,        \* execution -> the Job's state
    failed,     \* execution -> the Job's Status.Failed
    monitor,    \* execution -> where its monitor goroutine is
    verdict,    \* execution -> the status the monitor is about to record
    snapshot,   \* execution -> the list its Get returned
    fresh,      \* executions whose snapshot is still the latest version
    history,    \* Status.WorkflowExecutions, workflow by workflow
    running     \* the scheduler's context is not cancelled

vars == <<of, job, failed, monitor, verdict, snapshot, fresh, history, running>>
jobVars == <<of, job, failed>>

\* pending: no pod yet; active: a pod runs; backoff: a pod failed and the
\* next one is not yet created.
JobState == {"none", "pending", "active", "backoff", "succeeded", "failed"}
Phases == {"Pending", "Succeeded", "Failed"}

\* An execution recorded by a monitor, or (exec 0) made up by the controller.
Entry == [exec : 0..MaxExecs, phase : Phases]
Histories == [Workflows -> Seq(Entry)]
NoHistory == [w \in Workflows |-> <<>>]

TypeOK ==
    /\ of \in [Execs -> Workflows \cup {None}]
    /\ job \in [Execs -> JobState]
    /\ failed \in [Execs -> 0..(BackoffLimit + 1)]
    /\ monitor \in [Execs -> {"none", "watch", "record", "update", "done"}]
    /\ verdict \in [Execs -> Phases \cup {"None"}]
    /\ fresh \subseteq Execs /\ running \in BOOLEAN
    /\ history \in Histories /\ snapshot \in [Execs -> Histories]
    /\ \A w \in Workflows : Len(history[w]) <= HistoryLimit

Init ==
    /\ of = [e \in Execs |-> None]
    /\ job = [e \in Execs |-> "none"] /\ failed = [e \in Execs |-> 0]
    /\ monitor = [e \in Execs |-> "none"]
    /\ verdict = [e \in Execs |-> "None"]
    /\ snapshot = [e \in Execs |-> NoHistory]
    /\ fresh = {} /\ history = NoHistory /\ running = TRUE

-----------------------------------------------------------------------------
(* The cron handler *)

\* ExecuteWorkflowAsJob and go monitorJobAndUpdateStatus.  A Create that
\* fails returns an error to the cron engine and leaves nothing behind.
Submit(e, w) ==
    /\ running /\ of[e] = None
    /\ \A f \in Execs : f < e => of[f] # None
    /\ of' = [of EXCEPT ![e] = w]
    /\ job' = [job EXCEPT ![e] = "pending"]
    /\ monitor' = [monitor EXCEPT ![e] = "watch"]
    /\ UNCHANGED <<failed, verdict, snapshot, fresh, history, running>>

\* The Job is created but the answer to Create is lost: the handler returns
\* an error, the cron engine retries it with another executionID, and this
\* Job has no monitor.
SubmitAnswerLost(e, w) ==
    /\ running /\ of[e] = None
    /\ \A f \in Execs : f < e => of[f] # None
    /\ of' = [of EXCEPT ![e] = w]
    /\ job' = [job EXCEPT ![e] = "pending"]
    /\ monitor' = [monitor EXCEPT ![e] = "done"]
    /\ UNCHANGED <<failed, verdict, snapshot, fresh, history, running>>

-----------------------------------------------------------------------------
(* The Job controller of Kubernetes (external) *)

JobStep(e) ==
    /\ \/ /\ job[e] \in {"pending", "backoff"}
          /\ job' = [job EXCEPT ![e] = "active"] /\ failed' = failed
       \/ /\ job[e] = "active"
          /\ job' = [job EXCEPT ![e] = "succeeded"] /\ failed' = failed
       \/ /\ job[e] = "active"
          /\ failed' = [failed EXCEPT ![e] = @ + 1]
          /\ job' = [job EXCEPT ![e] = IF failed[e] < BackoffLimit
                                       THEN "backoff" ELSE "failed"]
    /\ UNCHANGED <<of, monitor, verdict, snapshot, fresh, history, running>>

\* activeDeadlineSeconds
JobDeadline(e) ==
    /\ job[e] \in {"active", "backoff"}
    /\ job' = [job EXCEPT ![e] = "failed"]
    /\ failed' = [failed EXCEPT ![e] = IF @ = 0 THEN 1 ELSE @]
    /\ UNCHANGED <<of, monitor, verdict, snapshot, fresh, history, running>>

-----------------------------------------------------------------------------
(* The monitor *)

\* Mutant: Succeeded is read off a Job that has no running pod.
MutPhaseOf(e) ==
    IF job[e] = "active" THEN "Running"
    ELSE IF job[e] \in {"succeeded", "backoff"} THEN "Succeeded"
    ELSE IF failed[e] > 0 THEN "Failed"
    ELSE "Pending"

\* GetTaskStatus: Active > 0, Succeeded > 0, Failed > 0, in this order.
PhaseOf(e) ==
    IF job[e] = "active" THEN "Running"
    ELSE IF job[e] = "succeeded" THEN "Succeeded"
    ELSE IF failed[e] > 0 THEN "Failed"
    ELSE "Pending"

\* The Job carries the shortened task ID as its label, the lookup uses the
\* full one.
JobIsFound(e) == of[e] \notin LongNames

PollJob(e) ==
    /\ monitor[e] = "watch" /\ JobIsFound(e)
    /\ PhaseOf(e) \in {"Succeeded", "Failed"}
    /\ verdict' = [verdict EXCEPT ![e] = PhaseOf(e)]
    /\ monitor' = [monitor EXCEPT ![e] = "record"]
    /\ UNCHANGED <<jobVars, snapshot, fresh, history, running>>

\* "Job monitoring timed out"; the Job goes on.
MonitorTimeout(e) ==
    /\ monitor[e] = "watch"
    /\ verdict' = [verdict EXCEPT ![e] = "Failed"]
    /\ monitor' = [monitor EXCEPT ![e] = "record"]
    /\ UNCHANGED <<jobVars, snapshot, fresh, history, running>>

\* <-ctx.Done(): the engine was stopped; nothing is recorded.
MonitorCancelled(e) ==
    /\ monitor[e] = "watch" /\ ~running
    /\ monitor' = [monitor EXCEPT ![e] = "done"]
    /\ UNCHANGED <<jobVars, verdict, snapshot, fresh, history, running>>

\* updateWorkflowExecutionStatus: Get; an error (a cancelled context, too)
\* is logged and the execution is not recorded.
GetStatus(e) ==
    /\ monitor[e] = "record"
    /\ \/ /\ running
          /\ monitor' = [monitor EXCEPT ![e] = "update"]
          /\ snapshot' = [snapshot EXCEPT ![e] = history]
          /\ fresh' = fresh \cup {e}
          /\ verdict' = verdict
       \/ /\ monitor' = [monitor EXCEPT ![e] = "done"]
          /\ verdict' = [verdict EXCEPT ![e] = "None"]
          /\ UNCHANGED <<snapshot, fresh>>
    /\ UNCHANGED <<jobVars, history, running>>

\* The last 10 entries of a workflow.
Trim(s) ==
    IF Len(s) > HistoryLimit
    THEN SubSeq(s, Len(s) - HistoryLimit + 1, Len(s)) ELSE s

WithEntry(h, e) ==
    [h EXCEPT ![of[e]] = Trim(Append(@, [exec |-> e, phase |-> verdict[e]]))]

\* Mutant: the update is forced, whatever happened since the Get.
MutUpdateAccepted(e) == TRUE

\* Status().Update fails with a conflict unless the snapshot is the latest,
\* and with a cancelled context.
UpdateAccepted(e) == e \in fresh /\ running

\* Mutant: a monitor goes on watching after it has recorded a result.
MutUpdateStatus(e) ==
    /\ monitor[e] = "update"
    /\ IF UpdateAccepted(e)
       THEN history' = WithEntry(snapshot[e], e) /\ fresh' = {}
       ELSE UNCHANGED <<history, fresh>>
    /\ monitor' = [monitor EXCEPT ![e] = "watch"]
    /\ snapshot' = [snapshot EXCEPT ![e] = NoHistory]
    /\ verdict' = [verdict EXCEPT ![e] = "None"]
    /\ UNCHANGED <<jobVars, running>>

\* A conflict is logged; the monitor ends either way.
UpdateStatus(e) ==
    /\ monitor[e] = "update"
    /\ IF UpdateAccepted(e)
       THEN history' = WithEntry(snapshot[e], e) /\ fresh' = {}
       ELSE UNCHANGED <<history, fresh>>
    /\ monitor' = [monitor EXCEPT ![e] = "done"]
    /\ snapshot' = [snapshot EXCEPT ![e] = NoHistory]
    /\ verdict' = [verdict EXCEPT ![e] = "None"]
    /\ UNCHANGED <<jobVars, running>>

-----------------------------------------------------------------------------
(* Others *)

\* updateWorkflowStatus of the controller: one entry per job registered with
\* its own cron engine, in place of the whole list; a job that has run there
\* is assumed to have succeeded.
ControllerReplacesHistory ==
    /\ \E jobs \in SUBSET Workflows : \E ran \in SUBSET jobs :
          history' = [w \in Workflows |->
                        IF w \notin jobs THEN <<>>
                        ELSE <<[exec |-> 0, phase |-> IF w \in ran
                                                     THEN "Succeeded"
                                                     ELSE "Pending"]>>]
    /\ fresh' = {}
    /\ UNCHANGED <<jobVars, monitor, verdict, snapshot, running>>

\* Stop of the scheduler, or the end of its process.
StopScheduler ==
    /\ running /\ running' = FALSE
    /\ UNCHANGED <<jobVars, monitor, verdict, snapshot, fresh, history>>

MonitorStep(e) ==
    \/ PollJob(e) \/ MonitorTimeout(e) \/ MonitorCancelled(e)
    \/ GetStatus(e) \/ UpdateStatus(e)

Next ==
    \/ \E e \in Execs : \/ \E w \in Workflows : \/ Submit(e, w)
                                                \/ SubmitAnswerLost(e, w)
                        \/ JobStep(e) \/ JobDeadline(e)
                        \/ MonitorStep(e)
    \/ ControllerReplacesHistory \/ StopScheduler

Spec == Init /\ [][Next]_vars

-----------------------------------------------------------------------------
(* Properties *)

Recorded(e, phase) ==
    \E w \in Workflows : \E i \in DOMAIN history[w] :
        history[w][i] = [exec |-> e, phase |-> phase]

\* An execution is recorded as Succeeded only if its Job has succeeded.
RecordedSuccessIsTrue ==
    \A e \in Execs : Recorded(e, "Succeeded") => job[e] = "succeeded"

\* An execution has at most one entry, under its own workflow, whatever the
\* monitor ran into.
RecordedAtMostOnce ==
    \A w \in Workflows : \A i, j \in DOMAIN history[w] :
        /\ history[w][i].exec > 0 => of[history[w][i].exec] = w
        /\ (history[w][i].exec = history[w][j].exec /\ i # j)
              => history[w][i].exec = 0

\* The read-modify-write of a monitor loses nothing that others recorded
\* since its read: the other workflows keep their entries, and its own
\* workflow loses at most the oldest.
UpdateKeepsOthers ==
    \A e \in Execs : UpdateStatus(e) /\ history' # history =>
        \A w \in Workflows : \A i \in 2..Len(history[w]) :
            history[w][i] \in Range(history'[w])

\* What is in the list was put there by a monitor that is done, and is true.
EntriesAreTrue ==
    \A w \in Workflows : \A i \in DOMAIN history[w] :
        LET x == history[w][i] IN
        x.exec > 0 => /\ of[x.exec] = w /\ monitor[x.exec] = "done"
                      /\ x.phase = "Succeeded" => job[x.exec] = "succeeded"

EntriesDiffer ==
    \A w \in Workflows : \A i, j \in DOMAIN history[w] :
        history[w][i].exec = history[w][j].exec /\ i # j => history[w][i].exec = 0

\* A verdict is held from the poll to the update, and says Succeeded only of a
\* Job that has; a snapshot that the update may replace the list with is the
\* list.
MonitorInv ==
    /\ TypeOK
    /\ \A e \in Execs :
          /\ of[e] = None <=> monitor[e] = "none"
          /\ of[e] = None => job[e] = "none"
          /\ job[e] # "failed" => failed[e] <= BackoffLimit
          /\ monitor[e] \in {"record", "update"} => verdict[e] \in Phases
          /\ verdict[e] = "Succeeded" => job[e] = "succeeded"
          /\ e \in fresh /\ monitor[e] = "update" => snapshot[e] = history
    /\ EntriesAreTrue /\ EntriesDiffer
=============================================================================
