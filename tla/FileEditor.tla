----------------------------- MODULE FileEditor -----------------------------
(***************************************************************************)
(* FileEditor: edits of files with backups to go back to.  A backup is     *)
(* named after the file's base name and the second it is made in, so that  *)
(* two of one second are one file; old ones are removed by goroutines that *)
(* run whenever they please.  One caller at a time, as the tools call it.  *)
(* Contents are numbers; what a diff makes of a content is a new one.      *)
(***************************************************************************)
EXTENDS Integers, Sequences, FiniteSets, FiniteSetsExt

CONSTANTS Paths,
          Present,      \* the files there are at first
          SameBase,     \* paths that end in the same base name
          Plans,        \* operations: the paths of their edits, in order
          MaxBackups, MaxSeconds, MaxOps

VARIABLES
    files,      \* content, Absent
    backups,    \* fe.backupDir: content by base name and second
    sweeps,     \* base names with a goroutine in CleanupBackups
    edit,       \* the operation under way or done last
    second,     \* the clock
    ops         \* counts to MaxOps

editorVars == <<files, backups, sweeps, edit, second, ops>>

Absent == -1
NoBackup == <<"", 0>>
Base(p) == IF p \in SameBase THEN "shared" ELSE p
BackupNames == {Base(p) : p \in Paths} \X (0..MaxSeconds)
Idle == [kind |-> "none", plan |-> <<>>, at |-> "idle", i |-> 0,
         backup |-> [p \in Paths |-> NoBackup], before |-> [p \in Paths |-> Absent],
         result |-> "none"]

Init ==
    /\ files = [p \in Paths |-> IF p \in Present THEN 0 ELSE Absent]
    /\ backups = [b \in BackupNames |-> Absent]
    /\ sweeps = {}
    /\ edit = Idle
    /\ second = 0
    /\ ops = 0

SecondPasses ==
    /\ second < MaxSeconds
    /\ second' = second + 1
    /\ UNCHANGED <<files, backups, sweeps, edit, ops>>

\* A file that does not exist has no backup.
BackupOf(p) == IF files[p] = Absent THEN NoBackup ELSE <<Base(p), second>>
createBackup(p) ==
    IF files[p] = Absent THEN UNCHANGED <<backups, sweeps>>
    ELSE /\ backups' = [backups EXCEPT ![<<Base(p), second>>] = files[p]]
         /\ sweeps' = sweeps \cup {Base(p)}

\* WriteFile makes a backup of its own; then validation and the rename may
\* fail, which leaves the file as it was.
WriteFile(p, content) == createBackup(p) /\ files' = [files EXCEPT ![p] = content]
WriteFails(p) == createBackup(p) /\ UNCHANGED files

\* The glob is in the order of the names, the oldest first.
CleanupBackups(b) ==
    LET kept == {n \in BackupNames : n[1] = b /\ backups[n] # Absent}
        old == {n \in kept : Cardinality({m \in kept : m[2] > n[2]}) >= MaxBackups}
    IN  /\ b \in sweeps
        /\ sweeps' = sweeps \ {b}
        /\ backups' = [n \in BackupNames |-> IF n \in old THEN Absent ELSE backups[n]]
        /\ UNCHANGED <<files, edit, second, ops>>

-----------------------------------------------------------------------------
(* Operations *)

NewContent == 10 * ops + edit.i

Begin(kind, plan, at) ==
    /\ edit.at = "idle" /\ ops < MaxOps
    /\ ops' = ops + 1
    /\ edit' = [Idle EXCEPT !.kind = kind, !.plan = plan, !.at = at, !.i = 1, !.before = files]
    /\ UNCHANGED <<files, backups, sweeps, second>>

ApplyMultiEdit(plan) == Begin("multi", plan, "backup")

\* The read of a file that does not exist is an error here: the test for one
\* does not see through the wrapped error.  Nor is there anything done when
\* the diff does not apply.
ApplyDiff(p) == files[p] # Absent /\ Begin("diff", <<p>>, "backup")

\* The tool: the diff is applied to what the file holds, and the call answers
\* with the outcome.
EditFile(p) == ApplyDiff(p)

\* First the backups of all files; one that fails removes those made.
BackupNext ==
    LET p == edit.plan[edit.i]
        last == edit.i = Len(edit.plan)
    IN  /\ edit.at = "backup"
        /\ createBackup(p)
        /\ edit' = [edit EXCEPT !.backup = [edit.backup EXCEPT ![p] = BackupOf(p)],
                                !.i = IF last THEN 1 ELSE edit.i + 1, !.at = IF last THEN "apply" ELSE "backup"]
        /\ UNCHANGED <<files, second, ops>>
rollbackBackups ==
    /\ edit.at = "backup"
    /\ backups' = [n \in BackupNames |-> IF \E p \in Paths : edit.backup[p] = n THEN Absent ELSE backups[n]]
    /\ edit' = [edit EXCEPT !.at = "idle", !.result = "failed"]
    /\ UNCHANGED <<files, sweeps, second, ops>>

ApplyNext ==
    LET p == edit.plan[edit.i]
        last == edit.i = Len(edit.plan)
    IN  /\ edit.at = "apply"
        /\ \/ /\ WriteFile(p, NewContent)
              /\ edit' = IF last THEN [edit EXCEPT !.at = "idle", !.result = "applied"]
                         ELSE [edit EXCEPT !.i = edit.i + 1]
           \/ /\ WriteFails(p)
              /\ edit' = IF edit.i = 1 THEN [edit EXCEPT !.at = "idle", !.result = "failed"]
                         ELSE [edit EXCEPT !.at = "undo", !.i = edit.i - 1, !.result = "failed"]
        /\ UNCHANGED <<second, ops>>

\* RollbackMultiEdit and RollbackEdit of what was applied; in reverse.
RollbackMultiEdit ==
    /\ edit.at = "idle" /\ edit.result = "applied"
    /\ edit' = [edit EXCEPT !.at = "undo", !.i = Len(edit.plan), !.result = "undone"]
    /\ UNCHANGED <<files, backups, sweeps, second, ops>>

MutRestore(p, b) == WriteFile(p, IF b = <<Base(p), second>> THEN files[p] ELSE backups[b])

\* The backup is read before WriteFile makes the one that may replace it.
Restore(p, b) == WriteFile(p, backups[b])

\* Without a backup, or when it has gone, or when the write fails, the undoing
\* of a failed operation goes on with a warning; RollbackMultiEdit gives up.
RollbackEdit ==
    LET p == edit.plan[edit.i]
        b == edit.backup[p]
        readable == IF b = NoBackup THEN FALSE ELSE backups[b] # Absent
        next(e) == IF e.i = 1 THEN [e EXCEPT !.at = "idle"] ELSE [e EXCEPT !.i = e.i - 1]
        giveUp == [edit EXCEPT !.at = "idle", !.result = "stuck"]
    IN  /\ edit.at = "undo"
        /\ \/ /\ readable
              /\ Restore(p, b)
              /\ edit' = next(edit)
           \/ /\ readable
              /\ WriteFails(p)
              /\ edit' = IF edit.result = "undone" THEN giveUp
                         ELSE next([edit EXCEPT !.result = "failed twice"])
           \/ /\ ~readable
              /\ edit' = IF edit.result = "undone" THEN giveUp ELSE next(edit)
              /\ UNCHANGED <<files, backups, sweeps>>
        /\ UNCHANGED <<second, ops>>

Next ==
    \/ \E plan \in Plans : ApplyMultiEdit(plan)
    \/ \E p \in Paths : EditFile(p)
    \/ BackupNext \/ rollbackBackups \/ ApplyNext
    \/ RollbackMultiEdit \/ RollbackEdit
    \/ \E b \in {Base(p) : p \in Paths} : CleanupBackups(b)
    \/ SecondPasses

-----------------------------------------------------------------------------
Over == edit.at = "idle" /\ edit.result \in {"failed", "undone"}

\* An operation that failed, or was rolled back with success, has left every
\* file that existed before as it was: whatever the seconds and the clean-up
\* did to the backups, also those of earlier operations.
UndoneIsRestored ==
    Over => \A p \in Paths : edit.before[p] # Absent => files[p] = edit.before[p]

\* What the promise rests on: no two files share the name of a backup, no
\* operation writes a file twice, and the clean-up leaves two backups.
BackupsAreOwn ==
    /\ MaxBackups \in Nat /\ MaxBackups >= 2 /\ MaxSeconds \in Nat
    /\ \A p, q \in Paths : Base(p) = Base(q) => p = q
    /\ \A p \in Paths : Base(p) # ""
    /\ \A plan \in Plans : /\ plan \in Seq(Paths) /\ plan # <<>>
                           /\ \A j, k \in 1..Len(plan) : plan[j] = plan[k] => j = k

\* The first paths of the plan that have a backup which may yet be needed, and
\* those that are written.
Held(e) ==
    CASE e.at = "backup" -> e.i - 1
      [] e.at = "apply" -> Len(e.plan)
      [] e.at = "undo" -> e.i
      [] OTHER -> IF e.result = "applied" THEN Len(e.plan) ELSE 0
Written(e) ==
    CASE e.at = "backup" -> 0
      [] e.at = "apply" -> e.i - 1
      [] e.at = "undo" -> e.i
      [] OTHER -> IF e.result = "applied" THEN Len(e.plan) ELSE 0

\* In the backups bs, b is one of p and holds v; and those of p after b.
Holds(bs, b, v, p) == v # Absent => b \in BackupNames /\ b[1] = Base(p) /\ bs[b] = v
Newer(bs, b, p) == {n \in BackupNames : n[1] = Base(p) /\ n[2] > b[2] /\ bs[n] # Absent}

Operation == [kind : {"none", "multi", "diff"}, plan : Seq(Paths), at : {"idle", "backup", "apply", "undo"},
              i : Nat, backup : [Paths -> BackupNames \cup {NoBackup}], before : [Paths -> Int],
              result : {"none", "failed", "failed twice", "applied", "undone", "stuck"}]

EditType ==
    /\ files \in [Paths -> Int] /\ backups \in [BackupNames -> Int]
    /\ second \in 0..MaxSeconds /\ ops \in Nat /\ edit \in Operation
    /\ \A j, k \in 1..Len(edit.plan) : edit.plan[j] = edit.plan[k] => j = k
    /\ edit.at # "idle" => edit.i \in 1..Len(edit.plan)
    /\ edit.result = "applied" => edit.plan # <<>>
    /\ edit.at \in {"backup", "apply"} => edit.result = "none"
    /\ edit.at = "undo" => edit.result \in {"failed", "failed twice", "undone"}

\* A backup of the operation that may yet be needed holds what its file held,
\* and at most the one that the write of this operation made is newer, so that
\* no clean-up removes it.
Safe(bs, e, j) ==
    LET p == e.plan[j]
        b == e.backup[p]
    IN  e.before[p] # Absent =>
            /\ Holds(bs, b, e.before[p], p)
            /\ \E t \in BackupNames : Newer(bs, b, p) \subseteq {t}
            /\ j > Written(e) => Newer(bs, b, p) = {}

\* What the operation has not written is as it was.
AsBefore(fs, e) ==
    e.result \notin {"failed twice", "stuck"} =>
        \A p \in Paths : e.before[p] # Absent =>
            fs[p] = e.before[p] \/ \E j \in 1..Written(e) : e.plan[j] = p

\* The inductive invariant.
EditInv ==
    /\ EditType
    /\ \A n \in BackupNames : n[2] > second => backups[n] = Absent
    /\ \A j \in 1..Held(edit) : Safe(backups, edit, j)
    /\ AsBefore(files, edit)
=============================================================================
