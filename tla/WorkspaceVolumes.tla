-------------------------- MODULE WorkspaceVolumes --------------------------
(***************************************************************************)
(* The volumes of workflow runs: the job manager makes a claim and a Job   *)
(* for a run, a clean-up routine removes expired claims, old Jobs are      *)
(* removed, and two managers (of the scheduler and of the tool server)     *)
(* show a claim to an agent under a directory.                             *)
(*                                                                         *)
(* A run has two names that matter: "task", the claim the job manager      *)
(* makes, and "workspace", the claim that mounts and clean-up look for.    *)
(* Claims of the second name come from outside.                            *)
(***************************************************************************)
EXTENDS Integers, FiniteSets

CONSTANTS Runs,
          Submitted,   \* runs that the job manager gets
          LongNames,   \* runs with an executionID over 20 characters
          Retained,    \* runs whose workflow retains its workspace
          MaxFailures  \* failures of the API server in all

Managers == {"scheduler", "tools"}
ClaimNames == {"task", "workspace"}

VARIABLES
    jobOf,     \* run -> its Job
    claim,     \* run -> name -> the claim
    sweep,     \* claims the clean-up routine has listed and not yet looked at
    mounted,   \* manager -> runs in activeMounts
    dirs,      \* directory -> the run its marker names
    reader,    \* one call of the workspace tools
    failures

volumeVars == <<jobOf, claim, sweep, mounted, dirs, reader, failures>>
jobVolumeVars == <<jobOf, claim>>
mountVars == <<mounted, dirs, reader>>

NoClaim == [phase |-> "none", autoDelete |-> FALSE, expired |-> FALSE]
NoJob == [at |-> "none", failed |-> FALSE]
NoRead == [at |-> "idle", run |-> "none", dir |-> <<>>, shows |-> "none"]

Init ==
    /\ jobOf = [r \in Runs |-> NoJob]
    /\ claim = [r \in Runs |-> [n \in ClaimNames |-> NoClaim]]
    /\ sweep = {} /\ failures = 0
    /\ mounted = [m \in Managers |-> {}]
    /\ dirs = [d \in Managers \X Runs |-> "none"]
    /\ reader = NoRead

Fails == failures < MaxFailures /\ failures' = failures + 1

-----------------------------------------------------------------------------
(* The job manager *)

\* createPVCForTask: a claim that is there is used again.
createPVCForTask(r) ==
    /\ r \in Submitted /\ jobOf[r].at = "none"
    /\ jobOf' = [jobOf EXCEPT ![r].at = "claimed"]
    /\ claim' = [claim EXCEPT ![r]["task"] =
           IF @.phase = "bound" THEN @
           ELSE [phase |-> "bound", autoDelete |-> r \notin Retained, expired |-> FALSE]]
    /\ UNCHANGED <<sweep, failures>> /\ UNCHANGED mountVars

\* The Job of a task: it runs its pod again when the pod fails, and mounts the
\* claim of the task.
createJobSpec(r) == [at |-> "active", failed |-> FALSE]

\* The Job is made behind the claim; when that fails the claim stays.
SubmitTask(r) ==
    /\ jobOf[r].at = "claimed"
    /\ \/ jobOf' = [jobOf EXCEPT ![r] = createJobSpec(r)] /\ UNCHANGED failures
       \/ jobOf' = [jobOf EXCEPT ![r].at = "refused"] /\ Fails
    /\ UNCHANGED <<claim, sweep>> /\ UNCHANGED mountVars

\* The Job controller.
PodFails(r) ==
    /\ jobOf[r].at = "active" /\ ~jobOf[r].failed
    /\ jobOf' = [jobOf EXCEPT ![r].failed = TRUE]
    /\ UNCHANGED <<claim, sweep, failures>> /\ UNCHANGED mountVars
JobEnds(r) ==
    /\ jobOf[r].at = "active"
    /\ jobOf' = [jobOf EXCEPT ![r] = [at |-> "done", failed |-> FALSE]]
    /\ UNCHANGED <<claim, sweep, failures>> /\ UNCHANGED mountVars

\* The label holds the shortened ID, the lookup the full one.
CancelTask(r) ==
    /\ jobOf[r].at \in {"active", "done"} /\ r \notin LongNames
    /\ jobOf' = [jobOf EXCEPT ![r] = [at |-> "deleted", failed |-> FALSE]]
    /\ UNCHANGED <<claim, sweep, failures>> /\ UNCHANGED mountVars

\* CleanupCompletedTasks: a Job with a pod that succeeded or failed, and that
\* ended, or started if it has not ended, before the cutoff of the call.
CleanupCompletedTasks(r) ==
    /\ jobOf[r].at = "done" \/ (jobOf[r].at = "active" /\ jobOf[r].failed)
    /\ jobOf' = [jobOf EXCEPT ![r] = [at |-> "deleted", failed |-> FALSE]]
    /\ UNCHANGED <<claim, sweep, failures>> /\ UNCHANGED mountVars

-----------------------------------------------------------------------------
(* Retention *)

\* A labelled workspace claim is made from outside, and grows old.
ClaimIsMade(r) ==
    /\ claim[r]["workspace"].phase = "none"
    /\ claim' = [claim EXCEPT ![r]["workspace"] =
           [phase |-> "bound", autoDelete |-> r \notin Retained, expired |-> FALSE]]
    /\ UNCHANGED <<jobOf, sweep, failures>> /\ UNCHANGED mountVars
ClaimAges(r) ==
    /\ claim[r]["workspace"].phase = "bound" /\ ~claim[r]["workspace"].expired
    /\ claim' = [claim EXCEPT ![r]["workspace"].expired = TRUE]
    /\ UNCHANGED <<jobOf, sweep, failures>> /\ UNCHANGED mountVars

\* Claims of the "task" name carry no label of a workspace.
Listed == {r \in Runs : claim[r]["workspace"].phase = "bound"}

CleanupExpiredWorkspaces ==
    /\ sweep = {} /\ Listed # {}
    /\ sweep' = {[run |-> r, due |-> claim[r]["workspace"].expired /\ ~claim[r]["workspace"].autoDelete]
                     : r \in Listed}
    /\ UNCHANGED <<failures, jobOf, claim>> /\ UNCHANGED mountVars

\* A claim that is not due is passed over, and a delete that fails as well.
SweepPasses(c) ==
    /\ c \in sweep
    /\ IF c.due THEN Fails ELSE UNCHANGED failures
    /\ sweep' = sweep \ {c}
    /\ UNCHANGED <<jobOf, claim>> /\ UNCHANGED mountVars

SweepDeletes(c) ==
    /\ c \in sweep /\ c.due
    /\ sweep' = sweep \ {c}
    /\ claim' = [claim EXCEPT ![c.run]["workspace"] = NoClaim]
    /\ UNCHANGED <<jobOf, failures>> /\ UNCHANGED mountVars

CleanupWorkspaceByName(r) ==
    /\ claim[r]["workspace"].phase = "bound"
    /\ claim' = [claim EXCEPT ![r]["workspace"] = NoClaim]
    /\ UNCHANGED <<jobOf, sweep, failures>> /\ UNCHANGED mountVars

-----------------------------------------------------------------------------
(* Mounts *)

MutPath(m, r) == <<m, CHOOSE x \in Runs : TRUE>>

\* The directory is named after the executionID, which starts with the name of
\* the workflow, or after both.
Path(m, r) == <<m, r>>

\* A mount needs the claim, for the scheduler's manager a bound one; one that
\* is there is used again.
MountWorkspacePVC(m, r) ==
    /\ r \in mounted[m] \/ claim[r]["workspace"].phase = "bound"
    /\ mounted' = [mounted EXCEPT ![m] = @ \cup {r}]
    /\ dirs' = IF r \in mounted[m] THEN dirs ELSE [dirs EXCEPT ![Path(m, r)] = r]
    /\ UNCHANGED <<jobOf, claim, sweep, failures, reader>>

Unmounted(m, S) ==
    /\ mounted' = [mounted EXCEPT ![m] = @ \ S]
    /\ dirs' = [d \in DOMAIN dirs |-> IF \E r \in S : d = Path(m, r) THEN "none" ELSE dirs[d]]
    /\ UNCHANGED <<jobOf, claim, sweep, failures, reader>>

UnmountWorkspacePVC(m, r) == r \in mounted[m] /\ Unmounted(m, {r})

\* Those without an access for long; the tool server has no routine for it.
CleanupExpiredMounts ==
    \E S \in SUBSET mounted["scheduler"] : S # {} /\ Unmounted("scheduler", S)

StopManager(m) == mounted[m] # {} /\ Unmounted(m, mounted[m])

\* readWorkspaceFile and listWorkspaceFiles: the path is looked up under the
\* lock, and read without it.
GetMountPath(r) ==
    /\ reader.at \in {"idle", "done"}
    /\ reader' = IF r \in mounted["tools"]
                 THEN [at |-> "looked", run |-> r, dir |-> Path("tools", r), shows |-> "none"]
                 ELSE NoRead
    /\ UNCHANGED <<jobOf, claim, sweep, failures, mounted, dirs>>

ReadDir ==
    /\ reader.at = "looked"
    /\ reader' = IF dirs[reader.dir] = "none" THEN NoRead
                 ELSE [reader EXCEPT !.at = "done", !.shows = dirs[reader.dir]]
    /\ UNCHANGED <<jobOf, claim, sweep, failures, mounted, dirs>>

Next ==
    \/ \E r \in Runs : \/ createPVCForTask(r) \/ SubmitTask(r) \/ PodFails(r) \/ JobEnds(r)
                       \/ CancelTask(r) \/ CleanupCompletedTasks(r)
                       \/ ClaimIsMade(r) \/ ClaimAges(r) \/ CleanupWorkspaceByName(r)
                       \/ GetMountPath(r)
    \/ CleanupExpiredWorkspaces
    \/ \E c \in sweep : SweepPasses(c) \/ SweepDeletes(c)
    \/ \E m \in Managers, r \in Runs : MountWorkspacePVC(m, r) \/ UnmountWorkspacePVC(m, r)
    \/ CleanupExpiredMounts \/ \E m \in Managers : StopManager(m)
    \/ ReadDir

-----------------------------------------------------------------------------
\* A mount keeps its directory and a read shows the run it asked for, whatever
\* is mounted and unmounted beside it.
MountIsOwn ==
    /\ \A m \in Managers : \A r \in mounted[m] : dirs[Path(m, r)] = r
    /\ reader.at = "done" => reader.shows = reader.run

\* The inductive invariant: a directory shows the run it is named after or
\* nothing, so that a reader that has looked its path up and reads it later,
\* when it may be unmounted or mounted again, sees its own run or none.
VolumesInv ==
    /\ mounted \in [Managers -> SUBSET Runs]
    /\ dirs \in [Managers \X Runs -> Runs \cup {"none"}]
    /\ reader \in [at : {"idle", "looked", "done"}, run : Runs \cup {"none"},
                  dir : {<<>>} \cup (Managers \X Runs), shows : Runs \cup {"none"}]
    /\ \A m \in Managers, r \in Runs : dirs[Path(m, r)] \in {r, "none"}
    /\ reader.at = "looked" => reader.run \in Runs /\ reader.dir = Path("tools", reader.run)
    /\ MountIsOwn
============================================================================
