---------------------------- MODULE RecordsProofs ----------------------------
(***************************************************************************)
(* The invariants of WorkflowSync and JobMonitor, proved for any names,    *)
(* schedules, bodies and workflows, any number of versions, restarts and   *)
(* executions, and any limit of the history.                               *)
(***************************************************************************)
EXTENDS MCRecords, Sequences, TLAPS

-----------------------------------------------------------------------------
(* The copies of a definition *)

USE RecordsAssumption DEF RecordsAssumption

\* Types of what the operators of WorkflowSync return.
LEMMA ToCRDType ==
    ASSUME NEW d \in Syn!Definition \cup {None}
    PROVE  /\ Syn!ToCRD(d) \in Syn!Definition \cup {None}
           /\ Syn!ToCRD(d) = None <=> d = None
    BY DEF Syn!ToCRD, Syn!Definition, Syn!SyncAssumption

\* The cron job of a definition has its schedule.
LEMMA JobOfType ==
    ASSUME NEW d \in Syn!Definition
    PROVE  Syn!JobOf(d) \in Syn!Job /\ Syn!JobOf(d) # None /\ Syn!JobOf(d).sched = d.sched
    BY DEF Syn!JobOf, Syn!Job, Syn!Definition, Syn!SyncAssumption

\* SyncWorkflow leaves a job exactly for an enabled workflow, with its schedule.
LEMMA SyncWorkflowType ==
    ASSUME NEW job0 \in Syn!Job \cup {None}, NEW d \in Syn!Definition
    PROVE  /\ Syn!SyncWorkflow(job0, d) \in Syn!Job \cup {None}
           /\ IF d.enabled THEN /\ Syn!SyncWorkflow(job0, d) # None
                                /\ Syn!SyncWorkflow(job0, d).sched = d.sched
                           ELSE Syn!SyncWorkflow(job0, d) = None
    BY JobOfType DEF Syn!SyncWorkflow, Syn!Definition

\* At first the resource, the store and the registry are empty.
LEMMA SyncInit == Syn!Init => Syn!SyncInv
<1> SUFFICES ASSUME Syn!Init PROVE Syn!SyncInv
    OBVIOUS
<1>1. Syn!TypeOK
    <2>1. row \in [Names -> Syn!Row]
        BY DEF Syn!Init, Syn!Row
    <2>2. snap \in Syn!Snapshot
        BY DEF Syn!Init, Syn!NoDefs, Syn!NoSnap, Syn!Snapshot, Syn!MaybeDefs, Syn!SyncAssumption
    <2>3. /\ crd \in Syn!MaybeDefs /\ listed \in Syn!MaybeDefs
          /\ serverJobs \in [Names -> Syn!Job \cup {None}]
          /\ ctlJobs \in [Names -> Syn!Job \cup {None}]
        BY DEF Syn!Init, Syn!NoDefs, Syn!MaybeDefs
    <2>4. /\ version \in 1..MaxVersion /\ seen \in 0..MaxVersion /\ ctlSeen \in 0..MaxVersion
          /\ restarts \in 0..MaxRestarts
        BY DEF Syn!Init, Syn!SyncAssumption
    <2>5. QED
        BY <2>1, <2>2, <2>3, <2>4 DEF Syn!Init, Syn!TypeOK
<1>2. QED
    BY <1>1 DEF Syn!Init, Syn!SyncInv, Syn!NoDefs, Syn!NoSnap, Syn!ReconciledJobsMatch,
                Syn!StoredWorkflowIsKept, Syn!SyncedDeletionIsFinal, Syn!SyncAssumption
\* Every step keeps the inductive invariant.
LEMMA SyncStep == Syn!SyncInv /\ [Syn!Next]_synVars => Syn!SyncInv'
<1> SUFFICES ASSUME Syn!SyncInv, [Syn!Next]_synVars PROVE Syn!SyncInv'
    OBVIOUS
<1> USE DEF Syn!SyncInv, Syn!TypeOK, Syn!MaybeDefs, Syn!Snapshot, Syn!SyncAssumption,
            Syn!ReconciledJobsMatch, Syn!StoredWorkflowIsKept, Syn!SyncedDeletionIsFinal,
            Syn!ListWorkflows, Syn!NoDefs, Syn!NoSnap, Syn!resource, Syn!server, Syn!controller
<1>1. ASSUME NEW n \in Names, NEW s \in Schedules, Syn!createWorkflow(n, s) PROVE Syn!SyncInv'
    <2>1. [sched |-> s, enabled |-> TRUE, body |-> PlainBody] \in Syn!Definition
        BY DEF Syn!Definition
    <2>2. Syn!TypeOK'
        BY <1>1, <2>1 DEF Syn!createWorkflow, Syn!Edit
    <2>3. /\ crd'[n] # None /\ wanted' = wanted \cup {n}
          /\ \A m \in Names \ {n} : crd'[m] = crd[m]
        BY <1>1, <2>1 DEF Syn!createWorkflow, Syn!Edit
    <2>4. ctlSeen' < version' /\ UNCHANGED <<row, pc, listed, snap>>
        BY <1>1 DEF Syn!createWorkflow, Syn!Edit
    <2>5. QED
        BY <2>2, <2>3, <2>4
<1>2. ASSUME NEW n \in Names, Syn!deleteWorkflow(n) PROVE Syn!SyncInv'
    BY <1>2 DEF Syn!deleteWorkflow, Syn!Edit
<1>3. ASSUME NEW n \in Names, NEW b \in BOOLEAN, Syn!SetWorkflowEnabled(n, b) PROVE Syn!SyncInv'
    BY <1>3 DEF Syn!SetWorkflowEnabled, Syn!Edit, Syn!Definition
<1>4. ASSUME NEW n \in Names, NEW s \in Schedules, NEW b \in Bodies, Syn!EditDefinition(n, s, b)
      PROVE Syn!SyncInv'
    <2>1. crd[n] \in Syn!Definition
        BY <1>4 DEF Syn!EditDefinition
    <2>2. [crd[n] EXCEPT !.sched = s, !.body = b] \in Syn!Definition
        BY <2>1 DEF Syn!Definition
    <2>3. QED
        BY <1>4, <2>2 DEF Syn!EditDefinition, Syn!Edit
<1>5. CASE Syn!StartServer
    BY <1>5 DEF Syn!StartServer
<1>6. CASE Syn!ListStored
    BY <1>6 DEF Syn!ListStored, Syn!Row
<1>7. CASE Syn!UpdateResource
    BY <1>7, ToCRDType DEF Syn!UpdateResource, Syn!Overwrite
<1>8. CASE Syn!GetResource
    BY <1>8 DEF Syn!GetResource
<1>9. CASE Syn!Poll
    <2>1. snap' \in Syn!Snapshot
        BY <1>9 DEF Syn!Poll
    <2>2. QED
        BY <1>9, <2>1 DEF Syn!Poll
<1>10. CASE Syn!ListExisting
    BY <1>10 DEF Syn!ListExisting, Syn!Row
<1>11. ASSUME NEW ok \in SUBSET Names, Syn!ApplySync(ok) PROVE Syn!SyncInv'
    BY <1>11 DEF Syn!ApplySync, Syn!SyncRow, Syn!CreateWorkflow, Syn!Row
<1>12. CASE Syn!ScheduleAll
    BY <1>12, JobOfType DEF Syn!ScheduleAll
<1>13. CASE Syn!Crash
    <2>1. snap' \in Syn!Snapshot
        BY <1>13 DEF Syn!Crash
    <2>2. QED
        BY <1>13, <2>1 DEF Syn!Crash
<1>14. CASE Syn!Reconcile
    BY <1>14, JobOfType, SyncWorkflowType DEF Syn!Reconcile
<1>15. CASE Syn!ControllerRestart
    BY <1>15 DEF Syn!ControllerRestart
<1>16. CASE UNCHANGED synVars
    BY <1>16 DEF synVars
<1>17. QED
    BY <1>1, <1>2, <1>3, <1>4, <1>5, <1>6, <1>7, <1>8, <1>9, <1>10, <1>11, <1>12, <1>13,
       <1>14, <1>15, <1>16
       DEF Syn!Next, Syn!UserStep, Syn!ServerStep, Syn!ControllerStep
-----------------------------------------------------------------------------
(* What is recorded of executions *)

\* The last HistoryLimit entries of a list that has grown by x: x is the last,
\* those before it are the list's, in order, and the oldest is dropped at most.
LEMMA TrimShape ==
    ASSUME NEW s \in Seq(Mon!Entry), NEW x \in Mon!Entry, Len(s) <= HistoryLimit
    PROVE  /\ Mon!Trim(Append(s, x)) \in Seq(Mon!Entry)
           /\ Len(Mon!Trim(Append(s, x))) \in 1..HistoryLimit
           /\ Mon!Trim(Append(s, x))[Len(Mon!Trim(Append(s, x)))] = x
           /\ \E k \in 0..1 :
                 /\ \A i \in 1..(Len(Mon!Trim(Append(s, x))) - 1) :
                       i + k \in 1..Len(s) /\ Mon!Trim(Append(s, x))[i] = s[i + k]
                 /\ \A j \in 2..Len(s) : /\ j - k \in 1..Len(Mon!Trim(Append(s, x)))
                                         /\ s[j] = Mon!Trim(Append(s, x))[j - k]
<1> DEFINE t == Mon!Trim(Append(s, x))
<1>1. /\ Append(s, x) \in Seq(Mon!Entry) /\ Len(Append(s, x)) = Len(s) + 1
      /\ Append(s, x)[Len(s) + 1] = x
      /\ \A i \in 1..Len(s) : Append(s, x)[i] = s[i]
    OBVIOUS
<1>2. HistoryLimit \in Nat \ {0} /\ Len(s) \in Nat
    BY DEF Mon!MonitorAssumption
<1>3. CASE Len(s) < HistoryLimit
    <2>1. t = Append(s, x)
        BY <1>1, <1>2, <1>3 DEF Mon!Trim
    <2> HIDE DEF t
    <2>2. t \in Seq(Mon!Entry) /\ Len(t) = Len(s) + 1 /\ t[Len(t)] = x
        BY <1>1, <2>1
    <2>3. \A i \in 1..Len(s) : t[i] = s[i]
        BY <1>1, <2>1
    <2>4. /\ \A i \in 1..(Len(t) - 1) : i + 0 \in 1..Len(s) /\ t[i] = s[i + 0]
          /\ \A j \in 2..Len(s) : j - 0 \in 1..Len(t) /\ s[j] = t[j - 0]
        BY <1>2, <2>2, <2>3
    <2>5. Len(t) \in 1..HistoryLimit
        BY <1>2, <1>3, <2>2
    <2>6. QED
        BY <2>2, <2>4, <2>5 DEF t
<1>4. CASE Len(s) = HistoryLimit
    <2>1. t = SubSeq(Append(s, x), 2, Len(s) + 1)
        BY <1>1, <1>2, <1>4 DEF Mon!Trim
    <2> HIDE DEF t
    <2>2. t \in Seq(Mon!Entry) /\ Len(t) = Len(s)
        BY <1>1, <1>2, <1>4, <2>1
    <2>3. \A i \in 1..Len(s) : t[i] = Append(s, x)[i + 1]
        BY <1>1, <1>2, <1>4, <2>1
    <2>4. t[Len(t)] = x
        BY <1>1, <1>2, <1>4, <2>2, <2>3
    <2>5. /\ \A i \in 1..(Len(t) - 1) : i + 1 \in 1..Len(s) /\ t[i] = s[i + 1]
          /\ \A j \in 2..Len(s) : j - 1 \in 1..Len(t) /\ s[j] = t[j - 1]
        BY <1>1, <1>2, <2>2, <2>3
    <2>6. Len(t) \in 1..HistoryLimit
        BY <1>2, <1>4, <2>2
    <2>7. QED
        BY <2>2, <2>4, <2>5, <2>6 DEF t
<1>5. Len(s) < HistoryLimit \/ Len(s) = HistoryLimit
    BY <1>2
<1>6. QED
    BY <1>3, <1>4, <1>5

\* At first nothing was submitted or recorded.
LEMMA MonitorInit == Mon!Init => Mon!MonitorInv
<1> SUFFICES ASSUME Mon!Init PROVE Mon!MonitorInv
    OBVIOUS
<1> USE DEF Mon!Init, Mon!NoHistory, Mon!MonitorAssumption
<1>1. history \in Mon!Histories /\ snapshot \in [Mon!Execs -> Mon!Histories]
    BY DEF Mon!Histories
<1>2. failed \in [Mon!Execs -> 0..(BackoffLimit + 1)] /\ job \in [Mon!Execs -> Mon!JobState]
    BY DEF Mon!JobState
<1>3. Mon!TypeOK
    BY <1>1, <1>2 DEF Mon!TypeOK
<1>4. QED
    BY <1>3 DEF Mon!MonitorInv, Mon!EntriesAreTrue, Mon!EntriesDiffer

\* The entry a monitor adds is its own and there is no other of its execution.
LEMMA UpdateKeepsEntries ==
    ASSUME Mon!MonitorInv, NEW e \in Mon!Execs, Mon!UpdateStatus(e), Mon!UpdateAccepted(e)
    PROVE  /\ history' \in Mon!Histories
           /\ \A w \in Workflows : Len(history'[w]) <= HistoryLimit
           /\ Mon!EntriesAreTrue' /\ Mon!EntriesDiffer'
           /\ \A w \in Workflows : \A i \in 2..Len(history[w]) :
                 history[w][i] \in Mon!Range(history'[w])
<1> DEFINE x == [exec |-> e, phase |-> verdict[e]]
           own == of[e]
           old == history[own]
           new == Mon!Trim(Append(old, x))
<1>1. /\ snapshot[e] = history /\ monitor[e] = "update" /\ own \in Workflows
      /\ verdict[e] = "Succeeded" => job[e] = "succeeded"
    BY DEF Mon!UpdateStatus, Mon!UpdateAccepted, Mon!MonitorInv, Mon!TypeOK
<1>2. x \in Mon!Entry
    BY <1>1 DEF Mon!Entry, Mon!Execs, Mon!MonitorAssumption, Mon!MonitorInv, Mon!TypeOK
<1>3. history \in Mon!Histories /\ history' = [history EXCEPT ![own] = new]
    BY <1>1 DEF Mon!UpdateStatus, Mon!WithEntry, Mon!MonitorInv, Mon!TypeOK
<1>4. \A w \in Workflows : /\ history[w] \in Seq(Mon!Entry) /\ Len(history[w]) <= HistoryLimit
                           /\ DOMAIN history[w] = 1..Len(history[w])
    BY <1>3 DEF Mon!Histories, Mon!MonitorInv, Mon!TypeOK
<1>5. /\ new \in Seq(Mon!Entry) /\ Len(new) \in 1..HistoryLimit /\ new[Len(new)] = x
      /\ \E k \in 0..1 : /\ \A i \in 1..(Len(new) - 1) : i + k \in 1..Len(old) /\ new[i] = old[i + k]
                         /\ \A j \in 2..Len(old) : j - k \in 1..Len(new) /\ old[j] = new[j - k]
    <2>1. old \in Seq(Mon!Entry) /\ Len(old) <= HistoryLimit
        BY <1>1, <1>4
    <2> HIDE DEF x, old
    <2>2. QED
        BY <1>2, <2>1, TrimShape
<1>6. PICK k \in 0..1 : /\ \A i \in 1..(Len(new) - 1) : i + k \in 1..Len(old) /\ new[i] = old[i + k]
                        /\ \A j \in 2..Len(old) : j - k \in 1..Len(new) /\ old[j] = new[j - k]
    BY <1>5
<1>7. DOMAIN new = 1..Len(new) /\ Len(new) \in Nat
    BY <1>5
<1> HIDE DEF new
<1>8. /\ history'[own] = new
      /\ \A w \in Workflows \ {own} : history'[w] = history[w]
    BY <1>1, <1>3 DEF Mon!Histories
<1>9. history' \in Mon!Histories /\ \A w \in Workflows : Len(history'[w]) <= HistoryLimit
    <2>1. history' \in Mon!Histories
        BY <1>1, <1>3, <1>5 DEF Mon!Histories
    <2>2. ASSUME NEW w \in Workflows PROVE Len(history'[w]) <= HistoryLimit
        BY <1>4, <1>5, <1>8, <2>2 DEF Mon!MonitorAssumption
    <2>3. QED
        BY <2>1, <2>2
<1>10. \A w \in Workflows : \A i \in DOMAIN history[w] :
          history[w][i].exec \in 0..MaxExecs /\ history[w][i].exec # e
    <2> SUFFICES ASSUME NEW w \in Workflows, NEW i \in DOMAIN history[w]
                 PROVE  history[w][i].exec \in 0..MaxExecs /\ history[w][i].exec # e
        OBVIOUS
    <2>1. history[w][i] \in Mon!Entry
        BY <1>4
    <2>2. history[w][i].exec \in 0..MaxExecs
        BY <2>1 DEF Mon!Entry
    <2>3. e \in 1..MaxExecs
        BY DEF Mon!Execs
    <2>4. history[w][i].exec > 0 => monitor[history[w][i].exec] = "done"
        BY DEF Mon!MonitorInv, Mon!EntriesAreTrue
    <2>5. QED
        BY <1>1, <2>2, <2>3, <2>4 DEF Mon!MonitorAssumption
<1>11. /\ \A f \in 1..MaxExecs : monitor'[f] = IF f = e THEN "done" ELSE monitor[f]
       /\ UNCHANGED <<of, job>>
    BY DEF Mon!UpdateStatus, Mon!jobVars, Mon!Execs, Mon!MonitorInv, Mon!TypeOK
\* Every entry of the new list is the new one or one of the old list.
<1>12. ASSUME NEW w \in Workflows, NEW i \in DOMAIN history'[w], ~(w = own /\ i = Len(new))
       PROVE  \E j \in DOMAIN history[w] : history'[w][i] = history[w][j]
    <2>1. CASE w # own
        BY <1>8, <2>1
    <2>2. CASE w = own
        <3>1. i \in 1..(Len(new) - 1)
            BY <1>7, <1>8, <1>12, <2>2
        <3>2. QED
            BY <1>1, <1>4, <1>6, <1>8, <2>2, <3>1
    <2>3. QED
        BY <2>1, <2>2
<1>13. Mon!EntriesAreTrue'
    <2> SUFFICES ASSUME NEW w \in Workflows, NEW i \in DOMAIN history'[w], history'[w][i].exec > 0
                 PROVE  /\ of[history'[w][i].exec] = w /\ monitor'[history'[w][i].exec] = "done"
                        /\ history'[w][i].phase = "Succeeded" => job[history'[w][i].exec] = "succeeded"
        BY <1>11 DEF Mon!EntriesAreTrue
    <2>1. CASE w = own /\ i = Len(new)
        BY <1>1, <1>5, <1>8, <1>11, <2>1 DEF Mon!Execs
    <2>2. CASE ~(w = own /\ i = Len(new))
        <3>1. PICK j \in DOMAIN history[w] : history'[w][i] = history[w][j]
            BY <1>12, <2>2
        <3>2. history[w][j].exec \in 1..MaxExecs
            BY <1>10, <3>1 DEF Mon!MonitorAssumption
        <3>3. QED
            BY <1>10, <1>11, <3>1, <3>2 DEF Mon!MonitorInv, Mon!EntriesAreTrue
    <2>3. QED
        BY <2>1, <2>2
<1>14. Mon!EntriesDiffer'
    <2> SUFFICES ASSUME NEW w \in Workflows, NEW i \in DOMAIN history'[w], NEW j \in DOMAIN history'[w],
                        history'[w][i].exec = history'[w][j].exec, i # j
                 PROVE  history'[w][i].exec = 0
        BY DEF Mon!EntriesDiffer
    <2>1. CASE w # own
        BY <1>8, <2>1 DEF Mon!MonitorInv, Mon!EntriesDiffer
    <2>2. CASE w = own
        <3>1. i \in 1..Len(new) /\ j \in 1..Len(new)
            BY <1>7, <1>8, <2>2
        <3>2. i = Len(new) => j # Len(new) /\ history'[w][j].exec # e
            BY <1>10, <1>12, <2>2
        <3>3. j = Len(new) => i # Len(new) /\ history'[w][i].exec # e
            BY <1>10, <1>12, <2>2
        <3>4. new[Len(new)].exec = e
            BY <1>5
        <3>5. i \in 1..(Len(new) - 1) /\ j \in 1..(Len(new) - 1)
            BY <1>7, <1>8, <2>2, <3>1, <3>2, <3>3, <3>4
        <3>6. /\ i + k \in DOMAIN old /\ j + k \in DOMAIN old
              /\ new[i] = old[i + k] /\ new[j] = old[j + k] /\ i + k # j + k
            <4>1. DOMAIN old = 1..Len(old)
                BY <1>1, <1>4
            <4>2. i + k \in 1..Len(old) /\ new[i] = old[i + k]
                BY <1>6, <3>5
            <4>3. j + k \in 1..Len(old) /\ new[j] = old[j + k]
                BY <1>6, <3>5
            <4>4. i + k # j + k
                BY <3>5, <1>7
            <4>5. QED
                BY <4>1, <4>2, <4>3, <4>4
        <3>7. \A m, l \in DOMAIN old : old[m].exec = old[l].exec /\ m # l => old[m].exec = 0
            BY <1>1 DEF Mon!MonitorInv, Mon!EntriesDiffer
        <3>8. QED
            BY <1>8, <2>2, <3>6, <3>7
    <2>3. QED
        BY <2>1, <2>2
<1>15. ASSUME NEW w \in Workflows, NEW i \in 2..Len(history[w])
       PROVE  history[w][i] \in Mon!Range(history'[w])
    <2>1. \E j \in DOMAIN history'[w] : history[w][i] = history'[w][j]
        <3>1. CASE w # own
            BY <1>4, <1>8, <3>1
        <3>2. CASE w = own
            BY <1>6, <1>7, <1>8, <3>2
        <3>3. QED
            BY <3>1, <3>2
    <2>2. QED
        BY <2>1 DEF Mon!Range
<1>16. QED
    BY <1>9, <1>13, <1>14, <1>15

\* Every step keeps the inductive invariant.
LEMMA MonitorStep == Mon!MonitorInv /\ [Mon!Next]_monVars => Mon!MonitorInv'
<1> SUFFICES ASSUME Mon!MonitorInv, [Mon!Next]_monVars PROVE Mon!MonitorInv'
    OBVIOUS
<1> USE DEF Mon!Execs, Mon!MonitorAssumption
\* The steps that leave the list alone: the entries stay true as long as the
\* monitors that are done stay so, and Jobs that have succeeded.
<1>0. ASSUME UNCHANGED history, Mon!MonitorInv,
             \A e \in Mon!Execs : monitor[e] = "done" => monitor'[e] = "done" /\ of'[e] = of[e],
             \A e \in Mon!Execs : job[e] = "succeeded" => job'[e] = "succeeded"
      PROVE  /\ history' \in Mon!Histories /\ \A w \in Workflows : Len(history'[w]) <= HistoryLimit
             /\ Mon!EntriesAreTrue' /\ Mon!EntriesDiffer'
    <2>1. history \in Mon!Histories /\ \A w \in Workflows : Len(history[w]) <= HistoryLimit
        BY <1>0 DEF Mon!MonitorInv, Mon!TypeOK
    <2>2. Mon!EntriesDiffer'
        BY <1>0 DEF Mon!MonitorInv, Mon!EntriesDiffer
    <2>3. \A w \in Workflows : \A i \in DOMAIN history[w] : history[w][i].exec \in 0..MaxExecs
        <3>1. \A w \in Workflows : history[w] \in Seq(Mon!Entry)
            BY <2>1 DEF Mon!Histories
        <3>2. \A w \in Workflows : \A i \in DOMAIN history[w] : history[w][i] \in Mon!Entry
            BY <3>1
        <3>3. QED
            BY <3>2 DEF Mon!Entry
    <2>4. Mon!EntriesAreTrue'
        BY <1>0, <2>3 DEF Mon!MonitorInv, Mon!EntriesAreTrue
    <2>5. QED
        BY <1>0, <2>1, <2>2, <2>4
<1>1. ASSUME NEW e \in Mon!Execs, NEW w \in Workflows, Mon!Submit(e, w) \/ Mon!SubmitAnswerLost(e, w)
      PROVE  Mon!MonitorInv'
    <2>1. monitor[e] = "none" /\ job[e] = "none" /\ verdict[e] # "Succeeded" /\ UNCHANGED history
        BY <1>1 DEF Mon!Submit, Mon!SubmitAnswerLost, Mon!MonitorInv
    <2>2. \A f \in Mon!Execs : /\ monitor[f] = "done" => monitor'[f] = "done" /\ of'[f] = of[f]
                               /\ job[f] = "succeeded" => job'[f] = "succeeded"
        BY <1>1, <2>1 DEF Mon!Submit, Mon!SubmitAnswerLost, Mon!MonitorInv, Mon!TypeOK
    <2>3. /\ history' \in Mon!Histories /\ \A v \in Workflows : Len(history'[v]) <= HistoryLimit
          /\ Mon!EntriesAreTrue' /\ Mon!EntriesDiffer'
        BY <1>0, <2>1, <2>2
    <2>4. \E m \in {"watch", "done"} :
             /\ of' = [of EXCEPT ![e] = w] /\ job' = [job EXCEPT ![e] = "pending"]
             /\ monitor' = [monitor EXCEPT ![e] = m]
             /\ UNCHANGED <<failed, verdict, snapshot, fresh, history, running>>
        BY <1>1 DEF Mon!Submit, Mon!SubmitAnswerLost
    <2>5. Mon!TypeOK'
        BY <2>3, <2>4 DEF Mon!MonitorInv, Mon!TypeOK, Mon!JobState
    <2>6. w # None
        BY <1>1
    <2>7. QED
        BY <2>1, <2>3, <2>4, <2>5, <2>6 DEF Mon!MonitorInv, Mon!TypeOK
<1>2. ASSUME NEW e \in Mon!Execs, Mon!JobStep(e) \/ Mon!JobDeadline(e) PROVE Mon!MonitorInv'
    <2>1. /\ UNCHANGED <<of, monitor, verdict, snapshot, fresh, history, running>>
          /\ \A f \in Mon!Execs : /\ job[f] = "succeeded" => job'[f] = "succeeded"
                                  /\ job[f] = "none" => job'[f] = "none"
        BY <1>2 DEF Mon!JobStep, Mon!JobDeadline, Mon!MonitorInv, Mon!TypeOK
    <2>2. job' \in [Mon!Execs -> Mon!JobState]
        BY <1>2 DEF Mon!JobStep, Mon!JobDeadline, Mon!MonitorInv, Mon!TypeOK, Mon!JobState
    <2>3. failed' \in [Mon!Execs -> 0..(BackoffLimit + 1)]
        <3>1. CASE Mon!JobStep(e)
            <4>1. /\ failed[e] \in 0..(BackoffLimit + 1)
                  /\ job[e] # "failed" => failed[e] <= BackoffLimit
                BY DEF Mon!MonitorInv, Mon!TypeOK
            <4>2. QED
                BY <3>1, <4>1 DEF Mon!JobStep, Mon!MonitorInv, Mon!TypeOK
        <3>2. CASE Mon!JobDeadline(e)
            BY <3>2 DEF Mon!JobDeadline, Mon!MonitorInv, Mon!TypeOK
        <3>3. QED
            BY <1>2, <3>1, <3>2
    <2>4. \A f \in Mon!Execs : job'[f] # "failed" => failed'[f] <= BackoffLimit
        BY <1>2 DEF Mon!JobStep, Mon!JobDeadline, Mon!MonitorInv, Mon!TypeOK
    <2>5. QED
        BY <1>0, <2>1, <2>2, <2>3, <2>4 DEF Mon!MonitorInv, Mon!TypeOK
<1>3. ASSUME NEW e \in Mon!Execs, Mon!PollJob(e) PROVE Mon!MonitorInv'
    BY <1>0, <1>3 DEF Mon!PollJob, Mon!PhaseOf, Mon!jobVars, Mon!Phases, Mon!MonitorInv, Mon!TypeOK
<1>4. ASSUME NEW e \in Mon!Execs, Mon!MonitorTimeout(e) PROVE Mon!MonitorInv'
    BY <1>0, <1>4 DEF Mon!MonitorTimeout, Mon!jobVars, Mon!Phases, Mon!MonitorInv, Mon!TypeOK
<1>5. ASSUME NEW e \in Mon!Execs, Mon!MonitorCancelled(e) PROVE Mon!MonitorInv'
    BY <1>0, <1>5 DEF Mon!MonitorCancelled, Mon!jobVars, Mon!MonitorInv, Mon!TypeOK
<1>6. ASSUME NEW e \in Mon!Execs, Mon!GetStatus(e) PROVE Mon!MonitorInv'
    <2>1. /\ monitor[e] = "record" /\ UNCHANGED <<of, job, failed, history, running>>
          /\ \A f \in Mon!Execs : monitor[f] = "done" => monitor'[f] = "done" /\ of'[f] = of[f]
        BY <1>6 DEF Mon!GetStatus, Mon!jobVars, Mon!MonitorInv, Mon!TypeOK
    <2>2. history \in Mon!Histories /\ snapshot \in [Mon!Execs -> Mon!Histories]
        BY DEF Mon!MonitorInv, Mon!TypeOK
    <2>3. snapshot' \in [Mon!Execs -> Mon!Histories]
        BY <1>6, <2>2 DEF Mon!GetStatus
    <2>4. Mon!TypeOK'
        BY <1>0, <1>6, <2>1, <2>3 DEF Mon!GetStatus, Mon!MonitorInv, Mon!TypeOK
    <2>5. /\ Mon!EntriesAreTrue' /\ Mon!EntriesDiffer'
        BY <1>0, <2>1
    <2>6. \A f \in Mon!Execs : f \in fresh' /\ monitor'[f] = "update" => snapshot'[f] = history'
        BY <1>6, <2>2 DEF Mon!GetStatus, Mon!MonitorInv, Mon!TypeOK
    <2>7. \A f \in Mon!Execs : /\ of[f] = None <=> monitor'[f] = "none"
                               /\ monitor'[f] \in {"record", "update"} => verdict'[f] \in Mon!Phases
                               /\ verdict'[f] = "Succeeded" => job[f] = "succeeded"
        BY <1>6 DEF Mon!GetStatus, Mon!MonitorInv, Mon!TypeOK
    <2>8. QED
        BY <2>1, <2>4, <2>5, <2>6, <2>7 DEF Mon!MonitorInv
<1>7. ASSUME NEW e \in Mon!Execs, Mon!UpdateStatus(e) PROVE Mon!MonitorInv'
    <2>1. /\ monitor[e] = "update" /\ UNCHANGED <<of, job, failed, running>>
          /\ \A f \in Mon!Execs : monitor[f] = "done" => monitor'[f] = "done" /\ of'[f] = of[f]
        BY <1>7 DEF Mon!UpdateStatus, Mon!jobVars, Mon!MonitorInv, Mon!TypeOK
    <2>2. /\ history' \in Mon!Histories /\ \A w \in Workflows : Len(history'[w]) <= HistoryLimit
          /\ Mon!EntriesAreTrue' /\ Mon!EntriesDiffer'
        <3>1. CASE Mon!UpdateAccepted(e)
            BY <1>7, <3>1, UpdateKeepsEntries
        <3>2. CASE ~Mon!UpdateAccepted(e)
            BY <1>0, <1>7, <2>1, <3>2 DEF Mon!UpdateStatus
        <3>3. QED
            BY <3>1, <3>2
    <2>3. snapshot' \in [Mon!Execs -> Mon!Histories]
        <3>1. Mon!NoHistory \in Mon!Histories
            BY DEF Mon!NoHistory, Mon!Histories
        <3>2. QED
            BY <1>7, <3>1 DEF Mon!UpdateStatus, Mon!MonitorInv, Mon!TypeOK
    <2>4. Mon!TypeOK'
        BY <1>7, <2>1, <2>2, <2>3 DEF Mon!UpdateStatus, Mon!MonitorInv, Mon!TypeOK
    <2>5. \A f \in Mon!Execs : f \in fresh' /\ monitor'[f] = "update" => snapshot'[f] = history'
        BY <1>7 DEF Mon!UpdateStatus, Mon!MonitorInv, Mon!TypeOK
    <2>6. QED
        BY <1>7, <2>1, <2>2, <2>4, <2>5 DEF Mon!UpdateStatus, Mon!MonitorInv, Mon!TypeOK
<1>8. CASE Mon!ControllerReplacesHistory
    <2>1. ASSUME NEW w \in Workflows
          PROVE  history'[w] = <<>> \/ \E p \in Mon!Phases : history'[w] = <<[exec |-> 0, phase |-> p]>>
        BY <1>8 DEF Mon!ControllerReplacesHistory, Mon!Phases
    <2>2. \A w \in Workflows : /\ history'[w] \in Seq(Mon!Entry) /\ Len(history'[w]) <= 1
                               /\ \A i \in DOMAIN history'[w] : history'[w][i].exec = 0
        <3>1. \A p \in Mon!Phases : [exec |-> 0, phase |-> p] \in Mon!Entry
            BY DEF Mon!Entry
        <3>2. ASSUME NEW p \in Mon!Phases
              PROVE  /\ <<[exec |-> 0, phase |-> p]>> \in Seq(Mon!Entry)
                     /\ Len(<<[exec |-> 0, phase |-> p]>>) = 1
                     /\ \A i \in DOMAIN <<[exec |-> 0, phase |-> p]>> :
                           <<[exec |-> 0, phase |-> p]>>[i].exec = 0
            BY <3>1
        <3>3. ASSUME NEW w \in Workflows
              PROVE  /\ history'[w] \in Seq(Mon!Entry) /\ Len(history'[w]) <= 1
                     /\ \A i \in DOMAIN history'[w] : history'[w][i].exec = 0
            <4>1. CASE history'[w] = <<>>
                BY <4>1
            <4>2. CASE history'[w] # <<>>
                <5>1. PICK p \in Mon!Phases : history'[w] = <<[exec |-> 0, phase |-> p]>>
                    BY <2>1, <4>2
                <5>2. QED
                    BY <3>2, <5>1
            <4>3. QED
                BY <4>1, <4>2
        <3>4. QED
            BY <3>3
    <2>3. history' \in Mon!Histories
        <3>1. history' = [w \in Workflows |-> history'[w]]
            BY <1>8 DEF Mon!ControllerReplacesHistory
        <3>2. QED
            BY <2>2, <3>1 DEF Mon!Histories
    <2>4. \A w \in Workflows : Len(history'[w]) <= HistoryLimit
        BY <2>2
    <2>5. Mon!EntriesAreTrue' /\ Mon!EntriesDiffer'
        BY <2>2 DEF Mon!EntriesAreTrue, Mon!EntriesDiffer
    <2>6. QED
        BY <1>8, <2>3, <2>4, <2>5 DEF Mon!ControllerReplacesHistory, Mon!jobVars, Mon!MonitorInv, Mon!TypeOK
<1>9. CASE Mon!StopScheduler
    BY <1>0, <1>9 DEF Mon!StopScheduler, Mon!jobVars, Mon!MonitorInv, Mon!TypeOK
<1>10. CASE UNCHANGED monVars
    BY <1>0, <1>10 DEF monVars, Mon!MonitorInv, Mon!TypeOK
<1>11. QED
    BY <1>1, <1>2, <1>3, <1>4, <1>5, <1>6, <1>7, <1>8, <1>9, <1>10 DEF Mon!Next, Mon!MonitorStep

\* An accepted update loses nothing that others recorded.
LEMMA MonitorUpdates == Mon!MonitorInv => Mon!UpdateKeepsOthers
    BY UpdateKeepsEntries DEF Mon!UpdateKeepsOthers, Mon!UpdateStatus

\* The invariant says what the run checks.
LEMMA MonitorInvImplies ==
    Mon!MonitorInv => Mon!TypeOK /\ Mon!RecordedSuccessIsTrue /\ Mon!RecordedAtMostOnce
<1> SUFFICES ASSUME Mon!MonitorInv
             PROVE  Mon!RecordedSuccessIsTrue /\ Mon!RecordedAtMostOnce
    BY DEF Mon!MonitorInv
<1>1. Mon!RecordedSuccessIsTrue
    BY DEF Mon!MonitorInv, Mon!EntriesAreTrue, Mon!RecordedSuccessIsTrue, Mon!Recorded, Mon!Execs,
           Mon!MonitorAssumption
<1>2. Mon!RecordedAtMostOnce
    BY DEF Mon!MonitorInv, Mon!EntriesAreTrue, Mon!EntriesDiffer, Mon!RecordedAtMostOnce
<1>3. QED
    BY <1>1, <1>2

-----------------------------------------------------------------------------
(* The two together *)

\* Both invariants hold of every state: the part that does not run stays as it
\* began.
THEOREM RecordsInvariant == Spec => [](Syn!SyncInv /\ Mon!MonitorInv)
<1>1. Init => Syn!SyncInv /\ Mon!MonitorInv
    BY SyncInit, MonitorInit DEF Init
<1>2. Syn!SyncInv /\ Mon!MonitorInv /\ [Next]_vars => (Syn!SyncInv /\ Mon!MonitorInv)'
    BY SyncStep, MonitorStep DEF Next, vars
<1>3. QED
    BY <1>1, <1>2, PTL DEF Spec

\* Of workflow_scheduler.go, workflow_store.go and service/task_scheduler.go:
\* the copies of a definition agree as far as each has caught up, for any
\* edits, synchronisations and restarts.
THEOREM CopiesAlwaysAgree == Spec => []CopiesAgree
<1>1. Syn!SyncInv => CopiesAgree
    BY DEF Syn!SyncInv, CopiesAgree
<1>2. QED
    BY <1>1, RecordsInvariant, PTL

\* Of monitorJobAndUpdateStatus and updateWorkflowExecutionStatus: whatever Jobs
\* and the controller do, what the status says of an execution is true and is
\* said once.
THEOREM HistoryIsAlwaysTrue == Spec => []HistoryIsTrue
<1>1. Mon!MonitorInv => HistoryIsTrue
    BY MonitorInvImplies DEF HistoryIsTrue
<1>2. QED
    BY <1>1, RecordsInvariant, PTL

\* Of updateWorkflowExecutionStatus: the resource version makes the
\* read-modify-write of a monitor lose nothing but the oldest entry of its own
\* workflow.
THEOREM MonitorsLoseNothing == Spec => MonitorUpdateKeepsOthers
<1>1. Mon!MonitorInv /\ [Next]_vars => [part = "monitor" => Mon!UpdateKeepsOthers]_vars
    BY MonitorUpdates
<1>2. QED
    BY <1>1, RecordsInvariant, PTL DEF Spec, MonitorUpdateKeepsOthers
=============================================================================
