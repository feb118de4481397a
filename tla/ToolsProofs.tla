---------------------------- MODULE ToolsProofs ----------------------------
(***************************************************************************)
(* What the installer, the editor, the window of context, the workspace    *)
(* volumes, the scaling, the sort of steps, the templates and the readers  *)
(* of the compose file promise, for any number of runs, files, items,      *)
(* objects, steps, servers and bounds.  Each part has its own inductive    *)
(* invariant; a step of another leaves it alone.                           *)
(***************************************************************************)
EXTENDS MCTools, GraphProofs

-----------------------------------------------------------------------------
(* Workspace volumes *)

\* Nothing is mounted at first.
LEMMA VolumesInit == Vol!Init => Vol!VolumesInv
BY DEF Vol!Init, Vol!VolumesInv, Vol!MountIsOwn, Vol!NoRead, Vol!Managers, Vol!Path

\* Steps of the job manager and the clean-up touch no mount.
LEMMA VolumesUntouched ==
    ASSUME Vol!VolumesInv, UNCHANGED Vol!mountVars
    PROVE  Vol!VolumesInv'
BY DEF Vol!VolumesInv, Vol!MountIsOwn, Vol!mountVars

\* What a mount makes, and what is mounted already, shows its run.
LEMMA VolumesMount ==
    ASSUME Vol!VolumesInv, NEW m \in Vol!Managers, NEW r \in Executions, Vol!MountWorkspacePVC(m, r)
    PROVE  Vol!VolumesInv'
<1>1. mounted' \in [Vol!Managers -> SUBSET Executions] /\ reader' = reader
    BY DEF Vol!MountWorkspacePVC, Vol!VolumesInv
<1>2. dirs' \in [Vol!Managers \X Executions -> Executions \cup {"none"}]
    BY DEF Vol!MountWorkspacePVC, Vol!VolumesInv, Vol!Path
<1>3. \A n \in Vol!Managers, q \in Executions :
          dirs'[<<n, q>>] = IF n = m /\ q = r /\ r \notin mounted[m] THEN r ELSE dirs[<<n, q>>]
    BY DEF Vol!MountWorkspacePVC, Vol!VolumesInv, Vol!Path
<1>4. \A n \in Vol!Managers : \A q \in mounted'[n] : q \in mounted[n] \/ (n = m /\ q = r)
    BY DEF Vol!MountWorkspacePVC, Vol!VolumesInv
<1>5. QED
    BY <1>1, <1>2, <1>3, <1>4 DEF Vol!VolumesInv, Vol!MountIsOwn, Vol!Path

\* An unmount removes the directories of what it unmounts, and no other.
LEMMA VolumesUnmount ==
    ASSUME Vol!VolumesInv, NEW m \in Vol!Managers, NEW S \in SUBSET Executions, Vol!Unmounted(m, S)
    PROVE  Vol!VolumesInv'
<1>1. mounted' \in [Vol!Managers -> SUBSET Executions] /\ reader' = reader
    BY DEF Vol!Unmounted, Vol!VolumesInv
<1>2. dirs' \in [Vol!Managers \X Executions -> Executions \cup {"none"}]
    BY DEF Vol!Unmounted, Vol!VolumesInv
<1>3. \A n \in Vol!Managers, q \in Executions :
          dirs'[<<n, q>>] = IF n = m /\ q \in S THEN "none" ELSE dirs[<<n, q>>]
    BY DEF Vol!Unmounted, Vol!VolumesInv, Vol!Path
<1>4. \A n \in Vol!Managers : \A q \in mounted'[n] : q \in mounted[n] /\ ~(n = m /\ q \in S)
    BY DEF Vol!Unmounted, Vol!VolumesInv
<1>5. QED
    BY <1>1, <1>2, <1>3, <1>4 DEF Vol!VolumesInv, Vol!MountIsOwn, Vol!Path

\* The two halves of a read.
LEMMA VolumesRead ==
    ASSUME Vol!VolumesInv, (\E r \in Executions : Vol!GetMountPath(r)) \/ Vol!ReadDir
    PROVE  Vol!VolumesInv'
<1>1. mounted' = mounted /\ dirs' = dirs
    BY DEF Vol!GetMountPath, Vol!ReadDir
<1>n. /\ Vol!NoRead \in [at : {"idle", "looked", "done"}, run : Executions \cup {"none"},
                        dir : {<<>>} \cup (Vol!Managers \X Executions), shows : Executions \cup {"none"}]
      /\ Vol!NoRead.at = "idle"
    BY DEF Vol!NoRead
<1>2. ASSUME NEW r \in Executions, Vol!GetMountPath(r)
      PROVE  Vol!VolumesInv'
    <2>1. Vol!Path("tools", r) \in Vol!Managers \X Executions
        BY DEF Vol!Path, Vol!Managers
    <2>2. CASE reader' = Vol!NoRead
        BY <1>1, <1>n, <2>2 DEF Vol!VolumesInv, Vol!MountIsOwn
    <2>3. CASE reader' = [at |-> "looked", run |-> r, dir |-> Vol!Path("tools", r), shows |-> "none"]
        BY <1>1, <2>1, <2>3 DEF Vol!VolumesInv, Vol!MountIsOwn
    <2>4. QED
        BY <1>2, <2>2, <2>3 DEF Vol!GetMountPath
<1>3. CASE Vol!ReadDir
    <2>1. reader.run \in Executions /\ reader.dir = Vol!Path("tools", reader.run)
        BY <1>3 DEF Vol!ReadDir, Vol!VolumesInv
    <2>2. dirs[reader.dir] \in {reader.run, "none"} /\ reader.dir \in Vol!Managers \X Executions
        BY <2>1 DEF Vol!VolumesInv, Vol!Managers, Vol!Path
    <2>3. CASE reader' = Vol!NoRead
        BY <1>1, <1>n, <2>3 DEF Vol!VolumesInv, Vol!MountIsOwn
    <2>4. CASE dirs[reader.dir] # "none"
        <3>1. reader' = [reader EXCEPT !.at = "done", !.shows = reader.run]
            BY <1>3, <2>2, <2>4 DEF Vol!ReadDir
        <3>2. QED
            BY <1>1, <2>1, <3>1 DEF Vol!VolumesInv, Vol!MountIsOwn
    <2>5. QED
        BY <1>3, <2>3, <2>4 DEF Vol!ReadDir
<1>4. QED
    BY <1>2, <1>3

\* Every step of the volumes keeps the invariant.
LEMMA VolumesStep ==
    ASSUME Vol!VolumesInv, Vol!Next
    PROVE  Vol!VolumesInv'
<1>1. ASSUME NEW r \in Executions,
             \/ Vol!createPVCForTask(r) \/ Vol!SubmitTask(r) \/ Vol!PodFails(r) \/ Vol!JobEnds(r)
             \/ Vol!CancelTask(r) \/ Vol!CleanupCompletedTasks(r)
             \/ Vol!ClaimIsMade(r) \/ Vol!ClaimAges(r) \/ Vol!CleanupWorkspaceByName(r)
      PROVE  Vol!VolumesInv'
    BY <1>1, VolumesUntouched
       DEF Vol!createPVCForTask, Vol!SubmitTask, Vol!PodFails, Vol!JobEnds, Vol!CancelTask,
           Vol!CleanupCompletedTasks, Vol!ClaimIsMade, Vol!ClaimAges, Vol!CleanupWorkspaceByName
<1>2. CASE Vol!CleanupExpiredWorkspaces \/ \E c \in sweep : Vol!SweepPasses(c) \/ Vol!SweepDeletes(c)
    BY <1>2, VolumesUntouched DEF Vol!CleanupExpiredWorkspaces, Vol!SweepPasses, Vol!SweepDeletes
<1>3. ASSUME NEW m \in Vol!Managers, NEW r \in Executions,
             Vol!MountWorkspacePVC(m, r) \/ Vol!UnmountWorkspacePVC(m, r)
      PROVE  Vol!VolumesInv'
    BY <1>3, VolumesMount, VolumesUnmount DEF Vol!UnmountWorkspacePVC
<1>4. CASE Vol!CleanupExpiredMounts
    <2>1. PICK S \in SUBSET mounted["scheduler"] : Vol!Unmounted("scheduler", S)
        BY <1>4 DEF Vol!CleanupExpiredMounts
    <2>2. S \in SUBSET Executions /\ "scheduler" \in Vol!Managers
        BY DEF Vol!VolumesInv, Vol!Managers
    <2>3. QED
        BY <2>1, <2>2, VolumesUnmount
<1>5. ASSUME NEW m \in Vol!Managers, Vol!StopManager(m)
      PROVE  Vol!VolumesInv'
    BY <1>5, VolumesUnmount DEF Vol!StopManager, Vol!VolumesInv
<1>6. QED
    BY <1>1, <1>2, <1>3, <1>4, <1>5, VolumesRead DEF Vol!Next

-----------------------------------------------------------------------------
(* Scaling *)

\* The bounds keep the order of two values.
LEMMA BoundedKeepsOrder ==
    ASSUME NEW c, c.min \in Nat, c.max \in Nat, c.min <= c.max,
           NEW a \in Int, NEW b \in Int, a <= b
    PROVE  Evt!Bounded(c, a) <= Evt!Bounded(c, b) /\ Evt!Bounded(c, a) \in c.min..c.max
BY DEF Evt!Bounded

\* A step down, no step and a step up are in this order.
LEMMA StepsAreOrdered ==
    ASSUME NEW n \in Nat
    PROVE  /\ n - (n + 3) \div 4 \in Int /\ n - (n + 3) \div 4 <= n
           /\ n + n \div 4 \in Int /\ n <= n + n \div 4
OBVIOUS

\* The wanted concurrency is within its bounds and does not fall with load.
LEMMA DesiredFollowsLoad ==
    ASSUME Evt!SoundScales, NEW c \in Evt!Scales, NEW n \in Nat
    PROVE  /\ Evt!calculateDesiredConcurrency(c, n) \in c.min..c.max
           /\ Evt!calculateDesiredConcurrency(c, n) <= Evt!calculateDesiredConcurrency(c, n + 1)
<1> DEFINE Desired(k) == Evt!calculateDesiredConcurrency(c, k)
           T == c.target * c.spec
           low == Evt!Bounded(c, c.spec - (c.spec + 3) \div 4)
           same == Evt!Bounded(c, c.spec)
           high == Evt!Bounded(c, c.spec + c.spec \div 4)
<1>1. /\ c.min \in Nat /\ c.max \in Nat /\ c.spec \in Nat /\ c.target \in Nat /\ c.min <= c.max
    BY DEF Evt!SoundScales, Evt!Scales
<1>2. T \in Nat
    BY <1>1
<1>3. /\ c.spec - (c.spec + 3) \div 4 \in Int /\ c.spec - (c.spec + 3) \div 4 <= c.spec
      /\ c.spec + c.spec \div 4 \in Int /\ c.spec <= c.spec + c.spec \div 4
    BY <1>1, StepsAreOrdered
<1>4. /\ low <= same /\ same <= high
      /\ low \in c.min..c.max /\ same \in c.min..c.max /\ high \in c.min..c.max
    BY <1>1, <1>3, BoundedKeepsOrder
<1>5. \A k \in Nat : Desired(k) = IF k = 0 THEN c.min
                                  ELSE IF k * 100 > T THEN high
                                  ELSE IF 2 * k * 100 < T THEN low ELSE same
    BY DEF Evt!calculateDesiredConcurrency
<1> HIDE DEF T, low, same, high, Desired
<1>6. /\ n * 100 > T => (n + 1) * 100 > T
      /\ 2 * (n + 1) * 100 < T => 2 * n * 100 < T
      /\ n * 100 > T => ~(2 * n * 100 < T)
      /\ n + 1 # 0 /\ n + 1 \in Nat
    BY <1>2
<1>7. Desired(n) \in c.min..c.max /\ Desired(n + 1) \in c.min..c.max
    BY <1>1, <1>4, <1>5, <1>6
<1>8. Desired(n) <= Desired(n + 1)
    <2>1. CASE n = 0
        BY <2>1, <1>1, <1>5, <1>7
    <2>2. CASE n # 0
        BY <2>2, <1>1, <1>4, <1>5, <1>6
    <2>3. QED
        BY <2>1, <2>2
<1>9. QED
    BY <1>7, <1>8 DEF Desired

\* The ConfigMap says what the spec says at first.
LEMMA ScaleInit ==
    ASSUME Evt!SoundScales, Evt!Init
    PROVE  Evt!ScaleInv
<1>1. PICK c \in Evt!Scales : scale = [conf |-> c, tasks |-> 0, written |-> c.spec]
    BY DEF Evt!Init, Evt!InitialScales
<1>2. c.spec \in Nat
    BY DEF Evt!Scales, Evt!SoundScales
<1>3. 0 \in 0..MaxTasks
    BY DEF Evt!SoundScales
<1>4. QED
    BY <1>1, <1>2, <1>3 DEF Evt!ScaleInv

\* Only a change of the tasks and the scaling itself touch these numbers.
LEMMA ScaleStep ==
    ASSUME Evt!SoundScales, Evt!ScaleInv, Evt!Next
    PROVE  Evt!ScaleInv'
<1>1. CASE scale' = scale
    BY <1>1 DEF Evt!ScaleInv
<1>2. CASE Evt!TasksChange
    BY <1>2 DEF Evt!TasksChange, Evt!ScaleInv
<1>3. CASE Evt!handleAutoScaling
    <2> DEFINE d == Evt!calculateDesiredConcurrency(scale.conf, scale.tasks)
               w == IF d # scale.conf.spec THEN d ELSE scale.written
    <2>1. scale' = [scale EXCEPT !.written = w]
        BY <1>3 DEF Evt!handleAutoScaling
    <2>2. scale.conf \in Evt!Scales /\ scale.tasks \in Nat /\ scale.written \in Nat
        BY DEF Evt!ScaleInv, Evt!SoundScales
    <2>3. scale.conf.min \in Nat /\ scale.conf.max \in Nat
        BY <2>2 DEF Evt!Scales, Evt!SoundScales
    <2>4. d \in scale.conf.min..scale.conf.max
        BY <2>2, DesiredFollowsLoad
    <2> HIDE DEF d
    <2>5. d \in Nat
        BY <2>3, <2>4
    <2>6. w \in Nat /\ w \in scale.conf.min..scale.conf.max \cup {scale.conf.spec}
        BY <2>2, <2>4, <2>5 DEF Evt!ScaleInv
    <2> HIDE DEF w
    <2>7. QED
        BY <2>1, <2>6 DEF Evt!ScaleInv
<1>4. Evt!TasksChange \/ Evt!handleAutoScaling \/ scale' = scale
    BY DEF Evt!Next, Evt!EventHappens, Evt!EventExpires, Evt!SecondPasses, Evt!setupEventWatching,
           Evt!watchKubernetesEvents, Evt!HandleEvent
<1>5. QED
    BY <1>1, <1>2, <1>3, <1>4

\* The invariant gives the property for every number of tasks.
LEMMA ScaleFollows ==
    ASSUME Evt!SoundScales, Evt!ScaleInv
    PROVE  Evt!ScalingFollowsLoad
<1>1. scale.conf \in Evt!Scales /\ \A n \in 0..MaxTasks : n \in Nat
    BY DEF Evt!ScaleInv, Evt!SoundScales
<1>2. \A n \in 0..MaxTasks :
          /\ Evt!calculateDesiredConcurrency(scale.conf, n)
                 <= Evt!calculateDesiredConcurrency(scale.conf, n + 1)
          /\ Evt!calculateDesiredConcurrency(scale.conf, n) \in scale.conf.min..scale.conf.max
    BY <1>1, DesiredFollowsLoad
<1>3. QED
    BY <1>2 DEF Evt!ScaleInv, Evt!ScalingFollowsLoad

-----------------------------------------------------------------------------
(* The installer *)

\* The only steps that need a definition are the two custom resources.
Fine(step) ==
    step.needs = IF step.name = "matey-postgres" THEN {"mcppostgres"}
                 ELSE IF step.name = "matey-proxy" THEN {"mcpproxies"} ELSE {}

\* The three forms of a step.
LEMMA StepForms ==
    /\ \A name : name \notin {"matey-postgres", "matey-proxy"} =>
                    Fine(Ins!Local(name)) /\ Fine(Ins!Shared(name))
    /\ Fine(Ins!Custom("matey-postgres", "mcppostgres"))
    /\ Fine(Ins!Custom("matey-proxy", "mcpproxies"))
BY DEF Ins!Local, Ins!Shared, Ins!Custom, Fine

\* Short sequences and their elements.
LEMMA ShortSequences ==
    ASSUME NEW S, NEW a \in S, NEW b \in S, NEW c \in S, NEW d \in S, NEW e \in S
    PROVE  /\ <<>> \in Seq(S) /\ <<a>> \in Seq(S) /\ <<a, b>> \in Seq(S)
           /\ <<a, b, c>> \in Seq(S) /\ <<a, b, c, d, e>> \in Seq(S)
OBVIOUS

\* The range of two sequences put together.
LEMMA RangeOfConcat ==
    ASSUME NEW S, NEW a \in Seq(S), NEW b \in Seq(S)
    PROVE  /\ a \o b \in Seq(S)
           /\ Ins!Range(a \o b) = Ins!Range(a) \cup Ins!Range(b)
<1>1. /\ a \o b \in Seq(S) /\ Len(a \o b) = Len(a) + Len(b)
      /\ \A i \in 1..Len(a) : (a \o b)[i] = a[i]
      /\ \A i \in 1..Len(b) : (a \o b)[Len(a) + i] = b[i]
    OBVIOUS
<1>2. /\ DOMAIN a = 1..Len(a) /\ DOMAIN b = 1..Len(b) /\ DOMAIN (a \o b) = 1..(Len(a) + Len(b))
      /\ Len(a) \in Nat /\ Len(b) \in Nat
    BY <1>1
<1>3. ASSUME NEW x0 \in Ins!Range(a \o b) PROVE x0 \in Ins!Range(a) \cup Ins!Range(b)
    <2>1. PICK i \in 1..(Len(a) + Len(b)) : x0 = (a \o b)[i]
        BY <1>2 DEF Ins!Range
    <2>2. CASE i <= Len(a)
        BY <1>1, <1>2, <2>1, <2>2 DEF Ins!Range
    <2>3. CASE i > Len(a)
        <3>1. i - Len(a) \in 1..Len(b) /\ Len(a) + (i - Len(a)) = i
            BY <1>2, <2>3
        <3>2. x0 = b[i - Len(a)]
            BY <1>1, <2>1, <3>1
        <3>3. QED
            BY <1>2, <3>1, <3>2 DEF Ins!Range
    <2>4. QED
        BY <1>2, <2>2, <2>3
<1>4. ASSUME NEW x0 \in Ins!Range(a) PROVE x0 \in Ins!Range(a \o b)
    <2>1. PICK i \in 1..Len(a) : x0 = a[i]
        BY <1>2 DEF Ins!Range
    <2>2. i \in 1..(Len(a) + Len(b))
        BY <1>2
    <2>3. QED
        BY <1>1, <1>2, <2>1, <2>2 DEF Ins!Range
<1>5. ASSUME NEW x0 \in Ins!Range(b) PROVE x0 \in Ins!Range(a \o b)
    <2>1. PICK i \in 1..Len(b) : x0 = b[i]
        BY <1>2 DEF Ins!Range
    <2>2. Len(a) + i \in 1..(Len(a) + Len(b))
        BY <1>2
    <2>3. QED
        BY <1>1, <1>2, <2>1, <2>2 DEF Ins!Range
<1>6. QED
    BY <1>1, <1>3, <1>4, <1>5

\* The range of a sequence is its head and the range of its tail.
LEMMA RangeOfTail ==
    ASSUME NEW S, NEW s \in Seq(S), s # <<>>
    PROVE  /\ Head(s) \in S /\ Tail(s) \in Seq(S)
           /\ Ins!Range(s) = {Head(s)} \cup Ins!Range(Tail(s))
<1>1. /\ Head(s) = s[1] /\ Head(s) \in S /\ Tail(s) \in Seq(S) /\ Len(Tail(s)) = Len(s) - 1
      /\ \A i \in 1..(Len(s) - 1) : Tail(s)[i] = s[i + 1]
    OBVIOUS
<1>2. /\ DOMAIN s = 1..Len(s) /\ DOMAIN Tail(s) = 1..(Len(s) - 1) /\ Len(s) \in Nat /\ Len(s) > 0
    BY <1>1
<1>3. ASSUME NEW x0 \in Ins!Range(s) PROVE x0 \in {Head(s)} \cup Ins!Range(Tail(s))
    <2>1. PICK i \in 1..Len(s) : x0 = s[i]
        BY <1>2 DEF Ins!Range
    <2>2. CASE i = 1
        BY <1>1, <2>1, <2>2
    <2>3. CASE i # 1
        <3>1. i - 1 \in 1..(Len(s) - 1) /\ (i - 1) + 1 = i
            BY <1>2, <2>3
        <3>2. x0 = Tail(s)[i - 1]
            BY <1>1, <2>1, <3>1
        <3>3. QED
            BY <1>2, <3>1, <3>2 DEF Ins!Range
    <2>4. QED
        BY <2>2, <2>3
<1>4. ASSUME NEW x0 \in Ins!Range(Tail(s)) PROVE x0 \in Ins!Range(s)
    <2>1. PICK i \in 1..(Len(s) - 1) : x0 = Tail(s)[i]
        BY <1>2 DEF Ins!Range
    <2>2. i + 1 \in 1..Len(s)
        BY <1>2
    <2>3. QED
        BY <1>1, <1>2, <2>1, <2>2 DEF Ins!Range
<1>5. Head(s) \in Ins!Range(s)
    BY <1>1, <1>2 DEF Ins!Range
<1>6. QED
    BY <1>1, <1>3, <1>4, <1>5

\* The elements of a sequence of members of S are members of S.
LEMMA ElementsOfSeq ==
    ASSUME NEW S, NEW s \in Seq(S)
    PROVE  \A x0 \in Ins!Range(s) : x0 \in S
<1>1. DOMAIN s = 1..Len(s) /\ \A i \in 1..Len(s) : s[i] \in S
    OBVIOUS
<1>2. QED
    BY <1>1 DEF Ins!Range

\* A plan is made of such steps, and Postgres is part of it.
LEMMA PlanIsFine ==
    ASSUME NEW r \in Runs
    PROVE  /\ Ins!Install(r) \in Seq(Ins!Steps)
           /\ \A step \in Ins!Range(Ins!Install(r)) : Fine(step)
           /\ Ins!Range(Ins!installSharedPostgres) \subseteq Ins!Range(Ins!Install(r))
<1> DEFINE a1 == Ins!installCRDsFromYAML
           a2 == Ins!createNamespace
           a3 == Ins!installControllerRBAC
           a4 == Ins!installMCPServerRBAC
           a5 == Ins!installTaskSchedulerRBAC
           a6 == Ins!installMateyMCPServer
           a7 == Ins!installSharedPostgres
           a8 == Ins!createImagePullSecret(r)
           a9 == Ins!installDefaultMCPProxy
           F1 == {Ins!Shared("mcpservers"), Ins!Shared("mcpmemories"), Ins!Shared("mcptaskschedulers"),
                  Ins!Shared("mcpproxies"), Ins!Shared("mcppostgres"), Ins!Local("namespace")}
           F2 == {Ins!Local("account matey-controller"), Ins!Shared("role matey-controller"),
                  Ins!Shared("binding matey-controller"), Ins!Local("account matey-mcp-server"),
                  Ins!Shared("role matey-mcp-server"), Ins!Shared("binding matey-mcp-server"),
                  Ins!Local("account task-scheduler"), Ins!Shared("role task-scheduler"),
                  Ins!Shared("binding task-scheduler")}
           F3 == {Ins!Local("deployment matey-mcp-server"), Ins!Local("service matey-mcp-server"),
                  Ins!Local("configmap matey-postgres-init"), Ins!Custom("matey-postgres", "mcppostgres"),
                  Ins!Local("secret registry-secret"), Ins!Custom("matey-proxy", "mcpproxies")}
           F == F1 \cup F2 \cup F3
<1>f. \A step \in F : Fine(step)
    BY StepForms
<1>1. a1 \in Seq(F) /\ a2 \in Seq(F)
    <2>1. \A step \in F1 : step \in F
        OBVIOUS
    <2>2. QED
        BY <2>1, ShortSequences DEF Ins!installCRDsFromYAML, Ins!createNamespace
<1>2. a3 \in Seq(F) /\ a4 \in Seq(F) /\ a5 \in Seq(F)
    <2>1. \A step \in F2 : step \in F
        OBVIOUS
    <2>2. a3 \in Seq(F)
        BY <2>1, ShortSequences DEF Ins!installControllerRBAC
    <2>3. a4 \in Seq(F)
        BY <2>1, ShortSequences DEF Ins!installMCPServerRBAC
    <2>4. a5 \in Seq(F)
        BY <2>1, ShortSequences DEF Ins!installTaskSchedulerRBAC
    <2>5. QED
        BY <2>2, <2>3, <2>4
<1>3. a6 \in Seq(F) /\ a7 \in Seq(F) /\ a8 \in Seq(F) /\ a9 \in Seq(F)
    <2>1. \A step \in F3 : step \in F
        OBVIOUS
    <2>2. a6 \in Seq(F)
        BY <2>1, ShortSequences DEF Ins!installMateyMCPServer
    <2>3. a7 \in Seq(F)
        BY <2>1, ShortSequences DEF Ins!installSharedPostgres
    <2>4. a8 \in Seq(F)
        <3>1. <<Ins!Local("secret registry-secret")>> \in Seq(F) /\ <<>> \in Seq(F)
            BY <2>1, ShortSequences
        <3>2. QED
            BY <3>1 DEF Ins!createImagePullSecret
    <2>5. a9 \in Seq(F)
        BY <2>1, ShortSequences DEF Ins!installDefaultMCPProxy
    <2>6. QED
        BY <2>2, <2>3, <2>4, <2>5
<1>4. Ins!Install(r) = a1 \o a2 \o a3 \o a4 \o a5 \o a6 \o a7 \o a8 \o a9
    BY DEF Ins!Install
<1> HIDE DEF a1, a2, a3, a4, a5, a6, a7, a8, a9, F
<1> DEFINE b6 == a1 \o a2 \o a3 \o a4 \o a5 \o a6
           b7 == b6 \o a7
           b8 == b7 \o a8
           b9 == b8 \o a9
<1>5. b6 \in Seq(F)
    BY <1>1, <1>2, <1>3
<1>6. Ins!Install(r) = b9
    BY <1>4
<1> HIDE DEF b6
<1>7. b7 \in Seq(F) /\ Ins!Range(a7) \subseteq Ins!Range(b7)
    BY <1>3, <1>5, RangeOfConcat
<1> HIDE DEF b7
<1>8. b8 \in Seq(F) /\ Ins!Range(b7) \subseteq Ins!Range(b8)
    BY <1>3, <1>7, RangeOfConcat
<1> HIDE DEF b8
<1>9. b9 \in Seq(F) /\ Ins!Range(b8) \subseteq Ins!Range(b9)
    BY <1>3, <1>8, RangeOfConcat
<1> HIDE DEF b9
<1>10. \A step \in Ins!Range(b9) : step \in F
    BY <1>9, ElementsOfSeq
<1>11. b9 \in Seq(Ins!Range(b9))
    BY <1>9 DEF Ins!Range
<1>12. Ins!Range(b9) \subseteq Ins!Steps
    BY <1>6 DEF Ins!Steps
<1>13. b9 \in Seq(Ins!Steps)
    BY <1>11, <1>12
<1>14. QED
    BY <1>f, <1>6, <1>7, <1>8, <1>9, <1>10, <1>13 DEF a7

\* No run has begun at first.
LEMMA InstallInit == Ins!Init => Ins!InstallInv
<1> SUFFICES ASSUME Ins!Init PROVE Ins!InstallInv
    OBVIOUS
<1>1. \A r \in Runs : run[r] = [todo |-> <<>>, status |-> "new"]
    BY DEF Ins!Init
<1>2. run \in [Runs -> [todo : Seq(Ins!Steps), status : {"new", "running", "failed", "installed"}]]
    BY DEF Ins!Init
<1>3. Ins!Range(<<>>) = {}
    BY DEF Ins!Range
<1>4. QED
    BY <1>1, <1>2, <1>3 DEF Ins!Init, Ins!InstallInv

\* A run's own step: nothing that was made is lost, and its list is a part of
\* its plan of which the rest is made.
LEMMA InstallRunStep ==
    ASSUME Ins!InstallInv, NEW r \in Runs,
           NEW todo \in Seq(Ins!Steps), NEW status \in {"new", "running", "failed", "installed"},
           run' = [run EXCEPT ![r] = [todo |-> todo, status |-> status]],
           objects \subseteq objects', objects' \subseteq Ins!Object,
           established' = established, edited' = edited,
           \A o \in objects' : /\ o.name = "matey-postgres" => "mcppostgres" \in established
                               /\ o.name = "matey-proxy" => "mcpproxies" \in established,
           Ins!Range(todo) \subseteq Ins!Range(Ins!Install(r)),
           status = "installed" => todo = <<>>,
           status \in {"running", "installed"} =>
               \A step \in Ins!Range(Ins!Install(r)) : step \in Ins!Range(todo) \/ Ins!Made(step, r)'
    PROVE  Ins!InstallInv'
<1>1. run' \in [Runs -> [todo : Seq(Ins!Steps), status : {"new", "running", "failed", "installed"}]]
    BY DEF Ins!InstallInv
<1>2. run'[r] = [todo |-> todo, status |-> status] /\ \A q \in Runs : q # r => run'[q] = run[q]
    BY DEF Ins!InstallInv
<1>3. \A step, q : Ins!Made(step, q) => Ins!Made(step, q)'
    BY DEF Ins!Made, Ins!Exists, Ins!Where
<1>4. ASSUME NEW q \in Runs
      PROVE  /\ Ins!Range(run'[q].todo) \subseteq Ins!Range(Ins!Install(q))
             /\ run'[q].status = "installed" => run'[q].todo = <<>>
             /\ run'[q].status \in {"running", "installed"} =>
                    \A step \in Ins!Range(Ins!Install(q)) :
                        step \in Ins!Range(run'[q].todo) \/ Ins!Made(step, q)'
    <2>1. CASE q = r
        BY <1>2, <2>1
    <2>2. CASE q # r
        BY <1>2, <1>3, <2>2 DEF Ins!InstallInv
    <2>3. QED
        BY <2>1, <2>2
<1>5. \A ns \in edited' : \E o \in objects' : o.name = "matey-proxy" /\ o.in = ns /\ ~o.default
    BY DEF Ins!InstallInv
<1>6. QED
    BY <1>1, <1>4, <1>5 DEF Ins!InstallInv

\* A run begins, fails or ends.
LEMMA InstallRunTurns ==
    ASSUME Ins!InstallInv, NEW r \in Runs, Ins!Start(r) \/ Ins!CreateFails(r) \/ Ins!Finish(r)
    PROVE  Ins!InstallInv'
<1>1. /\ objects' = objects /\ established' = established /\ edited' = edited
      /\ objects \subseteq objects' /\ objects' \subseteq Ins!Object
      /\ \A o \in objects' : /\ o.name = "matey-postgres" => "mcppostgres" \in established
                             /\ o.name = "matey-proxy" => "mcpproxies" \in established
    BY DEF Ins!Start, Ins!CreateFails, Ins!Finish, Ins!InstallInv
<1>f. run \in [Runs -> [todo : Seq(Ins!Steps), status : {"new", "running", "failed", "installed"}]]
    BY DEF Ins!InstallInv
<1>2. run[r] \in [todo : Seq(Ins!Steps), status : {"new", "running", "failed", "installed"}]
    BY <1>f
<1>3. CASE Ins!Start(r)
    <2>1. run' = [run EXCEPT ![r] = [todo |-> Ins!Install(r), status |-> "running"]]
        BY <1>3 DEF Ins!Start
    <2>2. Ins!Install(r) \in Seq(Ins!Steps)
        BY PlanIsFine
    <2>3. QED
        BY <1>1, <2>1, <2>2, InstallRunStep
<1>4. CASE Ins!CreateFails(r)
    <2>0. run' = [run EXCEPT ![r].status = "failed"]
        BY <1>4 DEF Ins!CreateFails
    <2>1. run' = [run EXCEPT ![r] = [todo |-> run[r].todo, status |-> "failed"]]
        <3>1. [run[r] EXCEPT !.status = "failed"] = [todo |-> run[r].todo, status |-> "failed"]
            BY <1>2
        <3>2. QED
            BY <2>0, <3>1
    <2>2. run[r].todo \in Seq(Ins!Steps) /\ Ins!Range(run[r].todo) \subseteq Ins!Range(Ins!Install(r))
        BY <1>2 DEF Ins!InstallInv
    <2>3. QED
        BY <1>1, <2>1, <2>2, InstallRunStep
<1>5. CASE Ins!Finish(r)
    <2>0. run' = [run EXCEPT ![r].status = "installed"]
        BY <1>5 DEF Ins!Finish
    <2>1. run' = [run EXCEPT ![r] = [todo |-> run[r].todo, status |-> "installed"]]
        <3>1. [run[r] EXCEPT !.status = "installed"] = [todo |-> run[r].todo, status |-> "installed"]
            BY <1>2
        <3>2. QED
            BY <2>0, <3>1
    <2>2. /\ run[r].todo \in Seq(Ins!Steps) /\ Ins!Range(run[r].todo) \subseteq Ins!Range(Ins!Install(r))
          /\ run[r].todo = <<>>
          /\ \A step \in Ins!Range(Ins!Install(r)) : step \in Ins!Range(run[r].todo) \/ Ins!Made(step, r)
        BY <1>2, <1>5 DEF Ins!InstallInv, Ins!Finish
    <2>3. \A step : Ins!Made(step, r) => Ins!Made(step, r)'
        BY <1>1 DEF Ins!Made, Ins!Exists, Ins!Where
    <2>4. QED
        BY <1>1, <2>1, <2>2, <2>3, InstallRunStep
<1>6. QED
    BY <1>3, <1>4, <1>5

\* A step of a run whose object is there is made: the API server accepted the
\* object, so that the definition is served.
LEMMA ExistingIsMade ==
    ASSUME Ins!InstallInv, NEW r \in Runs, NEW step, Fine(step), Ins!Exists(step, r)
    PROVE  Ins!Made(step, r)
<1>1. PICK o \in objects : o.name = step.name
    BY DEF Ins!Exists
<1>2. QED
    BY <1>1 DEF Ins!InstallInv, Ins!Made, Fine

\* A run creates an object, or finds it created by whatever run.
LEMMA InstallCreate ==
    ASSUME Ins!InstallInv, NEW r \in Runs, Ins!Create(r)
    PROVE  Ins!InstallInv'
<1>f. run \in [Runs -> [todo : Seq(Ins!Steps), status : {"new", "running", "failed", "installed"}]]
    BY DEF Ins!InstallInv
<1>t. PICK todo : todo = run[r].todo
    OBVIOUS
<1>s. PICK step : step = Head(todo)
    OBVIOUS
<1> DEFINE new == [name |-> step.name, in |-> Ins!Where(step, r), for |-> NamespaceOf[r], default |-> TRUE]
<1>1. /\ todo \in Seq(Ins!Steps) /\ todo # <<>> /\ run[r].status = "running"
      /\ Ins!Range(todo) \subseteq Ins!Range(Ins!Install(r))
      /\ \A s \in Ins!Range(Ins!Install(r)) : s \in Ins!Range(todo) \/ Ins!Made(s, r)
    BY <1>t DEF Ins!InstallInv, Ins!Create
<1>2. /\ step \in Ins!Steps /\ Tail(todo) \in Seq(Ins!Steps)
      /\ Ins!Range(todo) = {step} \cup Ins!Range(Tail(todo))
    BY <1>s, <1>1, RangeOfTail
<1>3. Fine(step)
    BY <1>1, <1>2, PlanIsFine
<1>e. run' = [run EXCEPT ![r].todo = Tail(todo)]
    BY <1>t DEF Ins!Create
<1>4. run' = [run EXCEPT ![r] = [todo |-> Tail(todo), status |-> "running"]]
    <2>1. run[r] \in [todo : Seq(Ins!Steps), status : {"new", "running", "failed", "installed"}]
        BY <1>f
    <2>2. [run[r] EXCEPT !.todo = Tail(todo)] = [todo |-> Tail(todo), status |-> "running"]
        BY <1>1, <2>1, SMTT(30)
    <2>3. QED
        BY <1>e, <2>2
<1>5. /\ established' = established /\ edited' = edited
      /\ \/ Ins!Exists(step, r) /\ objects' = objects
         \/ ~Ins!Exists(step, r) /\ Ins!Accepted(step, r) /\ objects' = objects \cup {new}
    BY <1>t, <1>s DEF Ins!Create
<1>6. /\ objects \subseteq objects' /\ objects' \subseteq objects \cup {new}
      /\ objects \subseteq Ins!Object
    BY <1>5 DEF Ins!InstallInv
<1>7. new \in Ins!Object /\ new.name = step.name /\ new.in = Ins!Where(step, r)
    BY <1>2 DEF Ins!Object, Ins!Namespaces, Ins!Where
<1> HIDE DEF new
<1>8. Ins!Made(step, r)'
    <2>1. CASE Ins!Exists(step, r) /\ objects' = objects
        <3>1. Ins!Made(step, r)
            BY <1>3, <2>1, ExistingIsMade
        <3>2. QED
            BY <1>5, <2>1, <3>1 DEF Ins!Made, Ins!Exists, Ins!Where
    <2>2. CASE Ins!Accepted(step, r) /\ objects' = objects \cup {new}
        <3>1. step.needs \subseteq established
            BY <2>2 DEF Ins!Accepted
        <3>2. \E o \in objects' : o.name = step.name /\ o.in = Ins!Where(step, r)
            BY <1>7, <2>2
        <3>3. QED
            BY <1>5, <3>1, <3>2 DEF Ins!Made, Ins!Exists, Ins!Where
    <2>3. QED
        BY <1>5, <2>1, <2>2
<1>9. ASSUME NEW s \in Ins!Range(Ins!Install(r))
      PROVE  s \in Ins!Range(Tail(todo)) \/ Ins!Made(s, r)'
    <2>1. Ins!Made(s, r) => Ins!Made(s, r)'
        BY <1>5, <1>6 DEF Ins!Made, Ins!Exists, Ins!Where
    <2>2. QED
        BY <1>1, <1>2, <1>8, <2>1
<1>10. step.needs \subseteq established
    BY <1>5, <1>8 DEF Ins!Made
<1>11. ASSUME NEW o \in objects'
       PROVE  /\ o.name = "matey-postgres" => "mcppostgres" \in established
              /\ o.name = "matey-proxy" => "mcpproxies" \in established
    <2>1. CASE o \in objects
        BY <2>1 DEF Ins!InstallInv
    <2>2. CASE o = new
        BY <1>3, <1>7, <1>10, <2>2 DEF Fine
    <2>3. QED
        BY <1>6, <2>1, <2>2
<1>12. QED
    BY <1>1, <1>2, <1>4, <1>5, <1>6, <1>7, <1>9, <1>11, InstallRunStep

\* A definition is served, or the operator edits a proxy: no object goes.
LEMMA InstallOthers ==
    ASSUME Ins!InstallInv, Ins!Establish \/ Ins!OperatorEdits
    PROVE  Ins!InstallInv'
<1>1. run' = run /\ established \subseteq established'
    BY DEF Ins!Establish, Ins!OperatorEdits
<1>2. /\ objects' \subseteq Ins!Object
      /\ \A o \in objects : \E p \in objects' : p.name = o.name /\ p.in = o.in /\ (~o.default => ~p.default)
      /\ \A p \in objects' : \E o \in objects : p.name = o.name
      /\ \A ns \in edited' : ns \in edited \/ \E p \in objects' : p.name = "matey-proxy" /\ p.in = ns /\ ~p.default
    <2>1. CASE Ins!Establish
        BY <2>1 DEF Ins!Establish, Ins!InstallInv
    <2>2. CASE Ins!OperatorEdits
        <3>1. PICK o \in objects : /\ o.name = "matey-proxy" /\ o.default
                                   /\ objects' = (objects \ {o}) \cup {[o EXCEPT !.default = FALSE]}
                                   /\ edited' = edited \cup {o.in}
            BY <2>2 DEF Ins!OperatorEdits
        <3> DEFINE p == [o EXCEPT !.default = FALSE]
        <3>2. o \in Ins!Object /\ objects \subseteq Ins!Object
            BY DEF Ins!InstallInv
        <3>3. p \in Ins!Object /\ p.name = o.name /\ p.in = o.in /\ ~p.default
            BY <3>2 DEF Ins!Object
        <3>4. objects' = (objects \ {o}) \cup {p}
            BY <3>1
        <3> HIDE DEF p
        <3>5. \A q \in objects : q = o \/ q \in objects'
            BY <3>4
        <3>6. p \in objects'
            BY <3>4
        <3>7. \A q \in objects' : q = p \/ q \in objects
            BY <3>4
        <3>8. QED
            BY <3>1, <3>2, <3>3, <3>5, <3>6, <3>7
    <2>3. QED
        BY <2>1, <2>2
<1>3. ASSUME NEW step, NEW r, Ins!Made(step, r)
      PROVE  Ins!Made(step, r)'
    <2>1. PICK o \in objects : o.name = step.name /\ o.in = Ins!Where(step, r)
        BY <1>3 DEF Ins!Made, Ins!Exists
    <2>2. PICK p \in objects' : p.name = o.name /\ p.in = o.in
        BY <1>2
    <2>3. step.needs \subseteq established'
        BY <1>1, <1>3 DEF Ins!Made
    <2>4. QED
        BY <2>1, <2>2, <2>3 DEF Ins!Made, Ins!Exists, Ins!Where
<1>4. \A p \in objects' : /\ p.name = "matey-postgres" => "mcppostgres" \in established'
                          /\ p.name = "matey-proxy" => "mcpproxies" \in established'
    BY <1>1, <1>2 DEF Ins!InstallInv
<1>5. \A ns \in edited' : \E p \in objects' : p.name = "matey-proxy" /\ p.in = ns /\ ~p.default
    BY <1>2 DEF Ins!InstallInv
<1>6. QED
    BY <1>1, <1>2, <1>3, <1>4, <1>5 DEF Ins!InstallInv

\* Every step of the installer keeps the invariant.
LEMMA InstallStep ==
    ASSUME Ins!InstallInv, Ins!Next
    PROVE  Ins!InstallInv'
BY InstallRunTurns, InstallCreate, InstallOthers DEF Ins!Next, Ins!RunStep

\* The invariant gives the property: a finished run has nothing before it.
LEMMA InstallIsWhole ==
    ASSUME Ins!InstallInv
    PROVE  Ins!InstallationIsWhole
<1>1. ASSUME NEW r \in Runs, run[r].status = "installed",
             NEW step \in Ins!Range(Ins!Install(r)) \cup Ins!Range(Ins!installSharedPostgres)
      PROVE  Ins!Exists(step, r) /\ step.needs \subseteq established
    <2>1. step \in Ins!Range(Ins!Install(r))
        BY PlanIsFine
    <2>2. Ins!Range(run[r].todo) = {}
        BY <1>1 DEF Ins!InstallInv, Ins!Range
    <2>3. Ins!Made(step, r)
        BY <1>1, <2>1, <2>2 DEF Ins!InstallInv
    <2>4. QED
        BY <2>3 DEF Ins!Made
<1>2. QED
    BY <1>1 DEF Ins!InstallationIsWhole, Ins!InstallInv

-----------------------------------------------------------------------------
(* Editing files *)

\* The Cardinality of FileEditor is that of FiniteSets.
LEMMA EdtCardinality == \A S : Edt!Cardinality(S) = Cardinality(S)
BY DEF Edt!Cardinality, Cardinality

\* A new backup holds the file, and none is newer.
LEMMA NewBackup ==
    ASSUME NEW bs \in [Edt!BackupNames -> Int], NEW p \in Paths, NEW s \in 0..MaxSeconds, NEW v \in Int,
           MaxSeconds \in Nat,
           \A n \in Edt!BackupNames : n[2] > s => bs[n] = Edt!Absent
    PROVE  LET new == [bs EXCEPT ![<<Edt!Base(p), s>>] = v]
           IN  /\ <<Edt!Base(p), s>> \in Edt!BackupNames
               /\ Edt!Holds(new, <<Edt!Base(p), s>>, v, p)
               /\ Edt!Newer(new, <<Edt!Base(p), s>>, p) = {}
               /\ new \in [Edt!BackupNames -> Int]
               /\ \A n \in Edt!BackupNames : n[2] > s => new[n] = Edt!Absent
<1> DEFINE b == <<Edt!Base(p), s>>
           new == [bs EXCEPT ![b] = v]
<1>1. b \in Edt!BackupNames /\ b[1] = Edt!Base(p) /\ b[2] = s /\ s \in Int
    BY DEF Edt!BackupNames
<1>2. \A n \in Edt!BackupNames : n[2] \in Int
    BY DEF Edt!BackupNames
<1> HIDE DEF b
<1>3. new[b] = v /\ new \in [Edt!BackupNames -> Int] /\ \A n \in Edt!BackupNames : n # b => new[n] = bs[n]
    BY <1>1
<1> HIDE DEF new
<1>4. \A n \in Edt!BackupNames : n[2] > s => n # b
    BY <1>1, <1>2
<1>5. QED
    BY <1>1, <1>3, <1>4 DEF Edt!Holds, Edt!Newer, b, new

\* A second backup of what a file still holds is the same, or newer by one.
LEMMA SecondBackup ==
    ASSUME NEW bs \in [Edt!BackupNames -> Int], NEW p \in Paths, NEW s \in 0..MaxSeconds, NEW v \in Int,
           MaxSeconds \in Nat, NEW b, Edt!Holds(bs, b, v, p), v # Edt!Absent, Edt!Newer(bs, b, p) = {}
    PROVE  LET new == [bs EXCEPT ![<<Edt!Base(p), s>>] = v]
           IN  /\ Edt!Holds(new, b, v, p)
               /\ Edt!Newer(new, b, p) \subseteq {<<Edt!Base(p), s>>}
<1> DEFINE c == <<Edt!Base(p), s>>
           new == [bs EXCEPT ![c] = v]
<1>1. c \in Edt!BackupNames
    BY DEF Edt!BackupNames
<1> HIDE DEF c
<1>2. new[c] = v /\ \A n \in Edt!BackupNames : n # c => new[n] = bs[n]
    BY <1>1
<1> HIDE DEF new
<1>3. QED
    BY <1>1, <1>2 DEF Edt!Holds, Edt!Newer, c, new

\* The clean-up of a file's backups leaves the newest two.
LEMMA SweptBackups ==
    ASSUME Edt!BackupsAreOwn, Edt!EditType, NEW base, Edt!CleanupBackups(base)
    PROVE  /\ backups' \in [Edt!BackupNames -> Int]
           /\ \A n \in Edt!BackupNames : backups'[n] \in {backups[n], Edt!Absent}
           /\ \A n \in Edt!BackupNames, p \in Paths : \A v, t :
                  /\ v # Edt!Absent /\ Edt!Holds(backups, n, v, p)
                  /\ Edt!Newer(backups, n, p) \subseteq {t}
                  => backups'[n] = v
<1> DEFINE kept == {n \in Edt!BackupNames : n[1] = base /\ backups[n] # Edt!Absent}
           after(n) == {m \in kept : m[2] > n[2]}
           old == {n \in kept : Edt!Cardinality(after(n)) >= MaxBackups}
<1>1. backups' = [n \in Edt!BackupNames |-> IF n \in old THEN Edt!Absent ELSE backups[n]]
    BY DEF Edt!CleanupBackups
<1>a. Edt!Absent \in Int
    BY DEF Edt!Absent
<1>2. backups \in [Edt!BackupNames -> Int]
    BY DEF Edt!EditType
<1>3. ASSUME NEW n \in Edt!BackupNames, NEW p \in Paths, NEW v, NEW t,
             v # Edt!Absent, Edt!Holds(backups, n, v, p), Edt!Newer(backups, n, p) \subseteq {t}
      PROVE  n \notin old /\ backups[n] = v
    <2>1. backups[n] = v /\ n[1] = Edt!Base(p)
        BY <1>3 DEF Edt!Holds
    <2>2. SUFFICES ASSUME n \in old PROVE FALSE
        BY <2>1
    <2>3. base = Edt!Base(p)
        BY <2>1, <2>2
    <2>4. after(n) \subseteq {t}
        BY <1>3, <2>3 DEF Edt!Newer
    <2>5. IsFiniteSet({t}) /\ Cardinality({t}) = 1
        BY FS_Singleton
    <2>6. Cardinality(after(n)) <= 1 /\ Cardinality(after(n)) \in Nat
        <3> HIDE DEF after
        <3>1. QED
            BY <2>4, <2>5, FS_Subset, FS_CardinalityType
    <2>7. Cardinality(after(n)) >= MaxBackups
        BY <2>2, EdtCardinality
    <2>8. MaxBackups \in Nat /\ MaxBackups >= 2
        BY DEF Edt!BackupsAreOwn
    <2> HIDE DEF after
    <2>9. QED
        BY <2>6, <2>7, <2>8
<1> HIDE DEF old
<1>4. \A n \in Edt!BackupNames : backups'[n] = IF n \in old THEN Edt!Absent ELSE backups[n]
    BY <1>1
<1>5. backups' \in [Edt!BackupNames -> Int]
    BY <1>a, <1>1, <1>2
<1>6. QED
    BY <1>3, <1>4, <1>5

\* The name of a backup of a path is one.
LEMMA BackupIsNamed ==
    ASSUME Edt!BackupsAreOwn, NEW p \in Paths, NEW s \in 0..MaxSeconds
    PROVE  <<Edt!Base(p), s>> \in Edt!BackupNames
BY DEF Edt!BackupNames

\* What a backup of a file does to the directory.
LEMMA BackupStep ==
    ASSUME Edt!BackupsAreOwn, Edt!EditInv, NEW p \in Paths, Edt!createBackup(p)
    PROVE  /\ \/ files[p] = Edt!Absent /\ backups' = backups
              \/ files[p] # Edt!Absent /\ backups' = [backups EXCEPT ![<<Edt!Base(p), second>>] = files[p]]
           /\ backups' \in [Edt!BackupNames -> Int]
           /\ \A n \in Edt!BackupNames : n[2] > second => backups'[n] = Edt!Absent
<1>1. /\ files[p] \in Int /\ backups \in [Edt!BackupNames -> Int] /\ second \in 0..MaxSeconds
      /\ \A n \in Edt!BackupNames : n[2] > second => backups[n] = Edt!Absent
      /\ MaxSeconds \in Nat
    BY DEF Edt!EditInv, Edt!EditType, Edt!BackupsAreOwn
<1>2. CASE files[p] = Edt!Absent
    BY <1>1, <1>2 DEF Edt!createBackup
<1>3. CASE files[p] # Edt!Absent
    <2>1. backups' = [backups EXCEPT ![<<Edt!Base(p), second>>] = files[p]]
        BY <1>3 DEF Edt!createBackup
    <2>2. QED
        BY <1>1, <1>3, <2>1, NewBackup
<1>4. QED
    BY <1>2, <1>3

\* A backup of one file leaves those the operation made of others safe.
LEMMA SafeElsewhere ==
    ASSUME Edt!BackupsAreOwn, Edt!EditInv, NEW p \in Paths,
           backups' = backups \/ backups' = [backups EXCEPT ![<<Edt!Base(p), second>>] = files[p]],
           edit'.plan = edit.plan, edit'.before = edit.before,
           \A q \in Paths : q # p => edit'.backup[q] = edit.backup[q],
           NEW j \in 1..Edt!Held(edit), edit.plan[j] \in Paths, edit.plan[j] # p,
           j > Edt!Written(edit') => j > Edt!Written(edit)
    PROVE  Edt!Safe(backups', edit', j)
<1> DEFINE q == edit.plan[j]
           b == edit.backup[q]
<1>1. Edt!Safe(backups, edit, j)
    BY DEF Edt!EditInv
<1>2. edit'.plan[j] = q /\ edit'.backup[q] = b /\ edit'.before[q] = edit.before[q] /\ q \in Paths /\ q # p
    OBVIOUS
<1>3. files[p] \in Int /\ backups \in [Edt!BackupNames -> Int] /\ second \in 0..MaxSeconds
    BY DEF Edt!EditInv, Edt!EditType
<1> HIDE DEF q, b
<1>4. /\ Edt!Holds(backups, b, edit.before[q], q) => Edt!Holds(backups', b, edit.before[q], q)
      /\ Edt!Newer(backups', b, q) = Edt!Newer(backups, b, q)
    <2>1. CASE backups' = backups
        BY <2>1
    <2>2. CASE backups' = [backups EXCEPT ![<<Edt!Base(p), second>>] = files[p]]
        <3>1. Edt!Base(q) # Edt!Base(p)
            BY <1>2 DEF Edt!BackupsAreOwn
        <3>2. \A n \in Edt!BackupNames : n[1] = Edt!Base(q) => backups'[n] = backups[n]
            BY <1>3, <2>2, <3>1
        <3>3. QED
            BY <3>2 DEF Edt!Holds, Edt!Newer
    <2>3. QED
        BY <2>1, <2>2
<1>5. edit.before[q] # Edt!Absent =>
          /\ Edt!Holds(backups, b, edit.before[q], q)
          /\ \E t \in Edt!BackupNames : Edt!Newer(backups, b, q) \subseteq {t}
          /\ j > Edt!Written(edit) => Edt!Newer(backups, b, q) = {}
    BY <1>1 DEF Edt!Safe, q, b
<1>6. edit.before[q] # Edt!Absent =>
          /\ Edt!Holds(backups', b, edit.before[q], q)
          /\ \E t \in Edt!BackupNames : Edt!Newer(backups', b, q) \subseteq {t}
          /\ j > Edt!Written(edit') => Edt!Newer(backups', b, q) = {}
    BY <1>4, <1>5
<1>7. QED
    BY <1>2, <1>6 DEF Edt!Safe

\* Nothing is edited at first.
LEMMA EditInit ==
    ASSUME Edt!BackupsAreOwn, Edt!Init
    PROVE  Edt!EditInv
<1>a. Edt!Absent \in Int
    BY DEF Edt!Absent
<1>b. MaxSeconds \in Nat
    BY DEF Edt!BackupsAreOwn
<1>1. 0 \in 0..MaxSeconds /\ 0 \in Nat
    BY <1>b
<1>2. Edt!Idle \in Edt!Operation
    BY <1>a, <1>1 DEF Edt!Idle, Edt!Operation
<1>3. /\ Edt!Idle.plan = <<>> /\ Edt!Idle.at = "idle" /\ Edt!Idle.result = "none"
      /\ \A p \in Paths : Edt!Idle.before[p] = Edt!Absent
    BY DEF Edt!Idle
<1>4. Edt!Held(Edt!Idle) = 0
    BY <1>3 DEF Edt!Held
<1>5. Edt!EditType
    BY <1>a, <1>1, <1>2, <1>3 DEF Edt!Init, Edt!EditType
<1>6. QED
    BY <1>3, <1>4, <1>5 DEF Edt!Init, Edt!EditInv, Edt!AsBefore

\* An operation begins with nothing written and no backup made.
LEMMA EditBegins ==
    ASSUME Edt!BackupsAreOwn, Edt!EditInv, NEW plan \in Seq(Paths), plan # <<>>,
           \A j, k \in 1..Len(plan) : plan[j] = plan[k] => j = k,
           NEW kind \in {"multi", "diff"}, Edt!Begin(kind, plan, "backup")
    PROVE  Edt!EditInv'
<1> DEFINE e == [Edt!Idle EXCEPT !.kind = kind, !.plan = plan, !.at = "backup", !.i = 1, !.before = files]
<1>0. Edt!Absent \in Int /\ 0 \in Nat /\ 1 \in Nat
    BY DEF Edt!Absent
<1>1. /\ edit' = e /\ files' = files /\ backups' = backups /\ second' = second /\ ops' = ops + 1
      /\ files \in [Paths -> Int] /\ ops \in Nat
    BY DEF Edt!Begin, Edt!EditInv, Edt!EditType
<1>2. e \in Edt!Operation
    BY <1>0, <1>1 DEF Edt!Idle, Edt!Operation
<1>3. e.plan = plan /\ e.at = "backup" /\ e.i = 1 /\ e.before = files /\ e.result = "none"
    BY DEF Edt!Idle
<1> HIDE DEF e
<1>4. Len(plan) \in Nat /\ Len(plan) > 0
    OBVIOUS
<1>5. 1 \in 1..Len(plan)
    BY <1>4
<1>6. Edt!EditType'
    <2>1. ops' \in Nat
        BY <1>1
    <2>2. files' \in [Paths -> Int] /\ backups' \in [Edt!BackupNames -> Int] /\ second' \in 0..MaxSeconds
        BY <1>1 DEF Edt!EditType, Edt!EditInv
    <2>3. QED
        BY <1>1, <1>2, <1>3, <1>5, <2>1, <2>2 DEF Edt!EditType
<1>7. Edt!Held(e) = 0
    BY <1>3 DEF Edt!Held
<1>8. Edt!AsBefore(files, e)
    BY <1>3 DEF Edt!AsBefore
<1>9. QED
    BY <1>1, <1>6, <1>7, <1>8 DEF Edt!EditInv

\* The path at hand, and that it is no other one of the plan.
LEMMA PathAtHand ==
    ASSUME Edt!EditInv, edit.at # "idle"
    PROVE  /\ edit.i \in 1..Len(edit.plan) /\ edit.i \in Nat /\ Len(edit.plan) \in Nat /\ edit.i > 0
           /\ edit.plan[edit.i] \in Paths
           /\ \A j \in 1..Len(edit.plan) : /\ edit.plan[j] \in Paths
                                           /\ j # edit.i => edit.plan[j] # edit.plan[edit.i]
<1>1. edit.plan \in Seq(Paths) /\ edit.i \in Nat /\ edit.i \in 1..Len(edit.plan)
    BY DEF Edt!EditInv, Edt!EditType, Edt!Operation
<1>2. \A j, k \in 1..Len(edit.plan) : edit.plan[j] = edit.plan[k] => j = k
    BY DEF Edt!EditInv, Edt!EditType
<1>3. QED
    BY <1>1, <1>2

\* An operation that has written nothing has changed nothing.
LEMMA NothingWritten ==
    ASSUME NEW fs, NEW e, Edt!Written(e) = 0
    PROVE  Edt!AsBefore(fs, e) <=>
               (e.result \notin {"failed twice", "stuck"} =>
                   \A p \in Paths : e.before[p] # Edt!Absent => fs[p] = e.before[p])
<1>1. 1..Edt!Written(e) = {}
    OBVIOUS
<1>2. QED
    BY <1>1 DEF Edt!AsBefore

\* The next file of the operation is backed up: the backups made before are of
\* other files, and this one holds what the file held.
LEMMA EditBackup ==
    ASSUME Edt!BackupsAreOwn, Edt!EditInv, Edt!BackupNext
    PROVE  Edt!EditInv'
<1> DEFINE p == edit.plan[edit.i]
           final == edit.i = Len(edit.plan)
           b == Edt!BackupOf(p)
           i == IF final THEN 1 ELSE edit.i + 1
           at == IF final THEN "apply" ELSE "backup"
           e == [edit EXCEPT !.backup = [edit.backup EXCEPT ![p] = b], !.i = i, !.at = at]
<1>1. /\ edit.at = "backup" /\ Edt!createBackup(p) /\ edit' = e
      /\ files' = files /\ second' = second /\ ops' = ops
    BY DEF Edt!BackupNext
<1>2. /\ edit.i \in 1..Len(edit.plan) /\ edit.i \in Nat /\ Len(edit.plan) \in Nat /\ edit.i > 0 /\ p \in Paths
      /\ \A j \in 1..Len(edit.plan) : edit.plan[j] \in Paths /\ (j # edit.i => edit.plan[j] # p)
    BY <1>1, PathAtHand
<1>3. /\ \/ files[p] = Edt!Absent /\ backups' = backups
         \/ files[p] # Edt!Absent /\ backups' = [backups EXCEPT ![<<Edt!Base(p), second>>] = files[p]]
      /\ backups' \in [Edt!BackupNames -> Int]
      /\ \A n \in Edt!BackupNames : n[2] > second => backups'[n] = Edt!Absent
    BY <1>1, <1>2, BackupStep
<1>4. second \in 0..MaxSeconds /\ MaxSeconds \in Nat
    BY DEF Edt!EditInv, Edt!EditType, Edt!BackupsAreOwn
<1>5. b \in Edt!BackupNames \cup {Edt!NoBackup}
    BY <1>2, <1>4, BackupIsNamed DEF Edt!BackupOf
<1>6. /\ (files[p] # Edt!Absent => b = <<Edt!Base(p), second>>)
      /\ edit.result = "none" /\ edit.backup \in [Paths -> Edt!BackupNames \cup {Edt!NoBackup}]
      /\ edit \in Edt!Operation
    BY <1>1 DEF Edt!BackupOf, Edt!EditInv, Edt!EditType, Edt!Operation
<1>7. i \in Nat /\ i \in 1..Len(edit.plan)
    BY <1>2
<1>8. at \in {"apply", "backup"} /\ at = IF final THEN "apply" ELSE "backup"
    OBVIOUS
<1> HIDE DEF b, i, at
<1>9. e \in Edt!Operation
    BY <1>2, <1>5, <1>6, <1>7, <1>8 DEF Edt!Operation
<1>10. /\ e.plan = edit.plan /\ e.before = edit.before /\ e.result = "none" /\ e.at = at /\ e.i = i
       /\ e.backup = [edit.backup EXCEPT ![p] = b]
    BY <1>6 DEF Edt!Operation
<1> HIDE DEF e
<1>11. e.backup[p] = b /\ \A q \in Paths : q # p => e.backup[q] = edit.backup[q]
    BY <1>2, <1>6, <1>10
<1>12. Edt!Held(edit) = edit.i - 1 /\ Edt!Written(edit) = 0 /\ Edt!Held(e) = edit.i /\ Edt!Written(e) = 0
    <2>1. Edt!Held(edit) = edit.i - 1 /\ Edt!Written(edit) = 0
        BY <1>1 DEF Edt!Held, Edt!Written
    <2>2. CASE final
        BY <2>1, <2>2, <1>2, <1>8, <1>10 DEF Edt!Held, Edt!Written, i
    <2>3. CASE ~final
        BY <2>1, <2>3, <1>2, <1>8, <1>10 DEF Edt!Held, Edt!Written, i
    <2>4. QED
        BY <2>2, <2>3
<1>13. Edt!EditType'
    <2>1. files' \in [Paths -> Int] /\ second' \in 0..MaxSeconds /\ ops' \in Nat
        BY <1>1 DEF Edt!EditInv, Edt!EditType
    <2>2. \A j, k \in 1..Len(e.plan) : e.plan[j] = e.plan[k] => j = k
        BY <1>10 DEF Edt!EditInv, Edt!EditType
    <2>3. e.at # "idle" => e.i \in 1..Len(e.plan)
        BY <1>7, <1>10
    <2>4. QED
        BY <1>1, <1>3, <1>8, <1>9, <1>10, <2>1, <2>2, <2>3 DEF Edt!EditType
<1>14. \A q \in Paths : edit.before[q] # Edt!Absent => files[q] = edit.before[q]
    <2>1. Edt!AsBefore(files, edit)
        BY DEF Edt!EditInv
    <2>2. QED
        BY <2>1, <1>6, <1>12, NothingWritten
<1>15. Edt!AsBefore(files, e)
    BY <1>10, <1>12, <1>14, NothingWritten
<1>16. ASSUME NEW j \in 1..Edt!Held(e)
       PROVE  Edt!Safe(backups', e, j)
    <2>1. CASE j = edit.i
        <3>1. SUFFICES ASSUME edit.before[p] # Edt!Absent
                       PROVE  /\ Edt!Holds(backups', b, edit.before[p], p)
                              /\ Edt!Newer(backups', b, p) = {}
                              /\ b \in Edt!BackupNames
            BY <1>10, <1>11, <2>1 DEF Edt!Safe
        <3>2. /\ files[p] = edit.before[p] /\ files[p] # Edt!Absent /\ files[p] \in Int
              /\ backups \in [Edt!BackupNames -> Int]
              /\ \A n \in Edt!BackupNames : n[2] > second => backups[n] = Edt!Absent
            BY <1>2, <1>14, <3>1 DEF Edt!EditInv, Edt!EditType
        <3>3. b = <<Edt!Base(p), second>> /\ backups' = [backups EXCEPT ![<<Edt!Base(p), second>>] = files[p]]
            BY <1>3, <1>6, <3>2
        <3> HIDE DEF p
        <3>4. QED
            BY <1>2, <1>4, <3>2, <3>3, NewBackup
    <2>2. CASE j # edit.i
        <3>1. j \in 1..Edt!Held(edit) /\ edit.plan[j] \in Paths /\ edit.plan[j] # p
            BY <1>2, <1>12, <2>2
        <3>2. Edt!Safe(backups', edit', j)
            BY <1>1, <1>2, <1>3, <1>10, <1>11, <1>12, <3>1, SafeElsewhere
        <3>3. QED
            BY <1>1, <3>2
    <2>3. QED
        BY <2>1, <2>2
<1>17. QED
    BY <1>1, <1>3, <1>13, <1>15, <1>16 DEF Edt!EditInv

\* A number within a bound is within greater ones.
LEMMA WithinBounds ==
    ASSUME NEW a \in Nat, NEW b \in Nat, NEW c \in Nat, a <= b, b <= c, NEW j \in 1..a
    PROVE  j \in Nat /\ j \in 1..b /\ j \in 1..c
OBVIOUS

\* A range with a member is not empty.
LEMMA NotEmpty ==
    ASSUME NEW n \in Nat, NEW i \in 1..n
    PROVE  n # 0
OBVIOUS

\* A step that goes on to another path or ends the operation, with or without
\* a backup of the path at hand.
LEMMA EditGoesOn ==
    ASSUME Edt!BackupsAreOwn, Edt!EditInv, edit.at # "idle", NEW p \in Paths, p = edit.plan[edit.i],
           Edt!createBackup(p) \/ backups' = backups,
           second' = second, ops' = ops, files' \in [Paths -> Int], edit' \in Edt!Operation,
           edit'.plan = edit.plan, edit'.before = edit.before, edit'.backup = edit.backup,
           edit'.at # "idle" => edit'.i \in 1..Len(edit.plan),
           edit'.at \in {"backup", "apply"} => edit'.result = "none",
           edit'.at = "undo" => edit'.result \in {"failed", "failed twice", "undone"},
           Edt!Held(edit') \in Nat, Edt!Held(edit') <= Edt!Held(edit), Edt!Held(edit) <= Len(edit.plan),
           Edt!Held(edit) \in Nat,
           \A j \in 1..Edt!Held(edit') : j # edit.i /\ j > Edt!Written(edit') => j > Edt!Written(edit),
           edit.i \in 1..Edt!Held(edit') => Edt!Safe(backups', edit', edit.i),
           Edt!AsBefore(files', edit')
    PROVE  Edt!EditInv'
<1>1. /\ edit.i \in 1..Len(edit.plan) /\ Len(edit.plan) \in Nat
      /\ \A j \in 1..Len(edit.plan) : edit.plan[j] \in Paths /\ (j # edit.i => edit.plan[j] # p)
    BY PathAtHand
<1>p. edit.plan # <<>>
    <2>1. Len(edit.plan) # 0
        BY <1>1, NotEmpty
    <2>2. Len(<<>>) = 0
        OBVIOUS
    <2>3. QED
        BY <2>1, <2>2
<1>2. /\ backups' = backups \/ backups' = [backups EXCEPT ![<<Edt!Base(p), second>>] = files[p]]
      /\ backups' \in [Edt!BackupNames -> Int]
      /\ \A n \in Edt!BackupNames : n[2] > second => backups'[n] = Edt!Absent
    <2>1. CASE Edt!createBackup(p)
        BY <2>1, BackupStep
    <2>2. CASE backups' = backups
        BY <2>2 DEF Edt!EditInv, Edt!EditType
    <2>3. QED
        BY <2>1, <2>2
<1>3. Edt!EditType'
    <2>1. second' \in 0..MaxSeconds /\ ops' \in Nat
        BY DEF Edt!EditInv, Edt!EditType
    <2>2. \A j, k \in 1..Len(edit'.plan) : edit'.plan[j] = edit'.plan[k] => j = k
        BY DEF Edt!EditInv, Edt!EditType
    <2>3. QED
        BY <1>1, <1>p, <1>2, <2>1, <2>2 DEF Edt!EditType
<1>4. ASSUME NEW j \in 1..Edt!Held(edit')
      PROVE  Edt!Safe(backups', edit', j)
    <2>1. CASE j = edit.i
        BY <2>1
    <2>2. CASE j # edit.i
        <3>1. j \in Nat /\ j \in 1..Edt!Held(edit) /\ j \in 1..Len(edit.plan)
            BY <1>1, WithinBounds
        <3>2. edit.plan[j] \in Paths /\ edit.plan[j] # p /\ (j > Edt!Written(edit') => j > Edt!Written(edit))
            BY <1>1, <2>2, <3>1
        <3>3. QED
            BY <1>2, <3>1, <3>2, SafeElsewhere
    <2>3. QED
        BY <2>1, <2>2
<1>5. QED
    BY <1>2, <1>3, <1>4 DEF Edt!EditInv

\* A file is written, or its write fails and what was written is to be undone.
LEMMA EditApplies ==
    ASSUME Edt!BackupsAreOwn, Edt!EditInv, Edt!ApplyNext
    PROVE  Edt!EditInv'
<1> DEFINE p == edit.plan[edit.i]
<1>1. edit.at = "apply" /\ Edt!createBackup(p) /\ second' = second /\ ops' = ops
    BY DEF Edt!ApplyNext, Edt!WriteFile, Edt!WriteFails
<1>2. /\ edit.i \in 1..Len(edit.plan) /\ edit.i \in Nat /\ Len(edit.plan) \in Nat /\ edit.i > 0 /\ p \in Paths
      /\ \A j \in 1..Len(edit.plan) : edit.plan[j] \in Paths /\ (j # edit.i => edit.plan[j] # p)
    BY <1>1, PathAtHand
<1>3. /\ edit.result = "none" /\ edit \in Edt!Operation /\ files \in [Paths -> Int] /\ ops \in Nat
      /\ backups \in [Edt!BackupNames -> Int] /\ second \in 0..MaxSeconds /\ MaxSeconds \in Nat
    BY <1>1 DEF Edt!EditInv, Edt!EditType, Edt!BackupsAreOwn
<1>4. Edt!Held(edit) = Len(edit.plan) /\ Edt!Written(edit) = edit.i - 1
    BY <1>1 DEF Edt!Held, Edt!Written
<1>5. \A q \in Paths : edit.before[q] # Edt!Absent =>
          files[q] = edit.before[q] \/ \E j \in 1..(edit.i - 1) : edit.plan[j] = q
    BY <1>3, <1>4 DEF Edt!EditInv, Edt!AsBefore
<1>6. edit.before[p] # Edt!Absent => files[p] = edit.before[p]
    <2>1. \A j \in 1..(edit.i - 1) : j \in 1..Len(edit.plan) /\ j # edit.i
        BY <1>2
    <2>2. QED
        BY <1>2, <1>5, <2>1
<1>7. CASE /\ files' = [files EXCEPT ![p] = Edt!NewContent]
           /\ edit' = IF edit.i = Len(edit.plan) THEN [edit EXCEPT !.at = "idle", !.result = "applied"]
                      ELSE [edit EXCEPT !.i = edit.i + 1]
    <2>1. Edt!NewContent \in Int
        BY <1>2, <1>3 DEF Edt!NewContent
    <2>2. files' \in [Paths -> Int] /\ \A q \in Paths : q # p => files'[q] = files[q]
        BY <1>2, <1>3, <1>7, <2>1
    <2>3. /\ edit' \in Edt!Operation
          /\ edit'.plan = edit.plan /\ edit'.before = edit.before /\ edit'.backup = edit.backup
          /\ Edt!Held(edit') = Len(edit.plan) /\ Edt!Written(edit') = edit.i
          /\ edit'.at # "idle" => edit'.i \in 1..Len(edit.plan)
          /\ edit'.at \in {"backup", "apply"} => edit'.result = "none"
          /\ edit'.at = "undo" => edit'.result \in {"failed", "failed twice", "undone"}
        <3>1. CASE edit.i = Len(edit.plan)
            <4>1. edit' = [edit EXCEPT !.at = "idle", !.result = "applied"]
                BY <1>7, <3>1
            <4>2. /\ edit' \in Edt!Operation
                  /\ edit'.plan = edit.plan /\ edit'.before = edit.before /\ edit'.backup = edit.backup
                  /\ edit'.at = "idle" /\ edit'.result = "applied"
                BY <1>3, <4>1 DEF Edt!Operation
            <4>3. QED
                BY <3>1, <4>2 DEF Edt!Held, Edt!Written
        <3>2. CASE edit.i # Len(edit.plan)
            <4>1. edit' = [edit EXCEPT !.i = edit.i + 1] /\ edit.i + 1 \in Nat
                BY <1>2, <1>7, <3>2
            <4>2. /\ edit' \in Edt!Operation
                  /\ edit'.plan = edit.plan /\ edit'.before = edit.before /\ edit'.backup = edit.backup
                  /\ edit'.at = "apply" /\ edit'.result = "none" /\ edit'.i = edit.i + 1
                BY <1>1, <1>3, <4>1 DEF Edt!Operation
            <4>3. edit.i + 1 \in 1..Len(edit.plan) /\ (edit.i + 1) - 1 = edit.i
                BY <1>2, <3>2
            <4>4. QED
                BY <4>2, <4>3 DEF Edt!Held, Edt!Written
        <3>3. QED
            BY <3>1, <3>2
    <2>a. Edt!Held(edit') = Len(edit.plan) /\ Edt!Written(edit') = edit.i
        BY <2>3
    <2>b. ~(edit.i > edit.i)
        BY <1>2
    <2>4. Edt!Safe(backups', edit', edit.i)
        <3>1. SUFFICES ASSUME edit.before[p] # Edt!Absent
                       PROVE  /\ Edt!Holds(backups', edit.backup[p], edit.before[p], p)
                              /\ \E t \in Edt!BackupNames : Edt!Newer(backups', edit.backup[p], p) \subseteq {t}
            BY <2>3, <2>a, <2>b DEF Edt!Safe
        <3>2. Edt!Safe(backups, edit, edit.i) /\ edit.i > Edt!Written(edit)
            BY <1>2, <1>4 DEF Edt!EditInv
        <3>3. Edt!Holds(backups, edit.backup[p], edit.before[p], p) /\ Edt!Newer(backups, edit.backup[p], p) = {}
            BY <3>1, <3>2 DEF Edt!Safe
        <3>4. /\ files[p] = edit.before[p] /\ files[p] \in Int /\ files[p] # Edt!Absent
              /\ backups' = [backups EXCEPT ![<<Edt!Base(p), second>>] = files[p]]
            BY <1>1, <1>2, <1>3, <1>6, <3>1 DEF Edt!createBackup
        <3>5. <<Edt!Base(p), second>> \in Edt!BackupNames
            BY <1>2, <1>3, BackupIsNamed
        <3> DEFINE b == edit.backup[p]
                   v == files[p]
        <3>6. Edt!Holds(backups, b, v, p) /\ Edt!Newer(backups, b, p) = {} /\ v \in Int /\ v # Edt!Absent
            BY <3>3, <3>4
        <3>7. backups' = [backups EXCEPT ![<<Edt!Base(p), second>>] = v]
            BY <3>4
        <3> HIDE DEF p, b, v
        <3>8. /\ Edt!Holds(backups', b, v, p)
              /\ Edt!Newer(backups', b, p) \subseteq {<<Edt!Base(p), second>>}
            BY <1>2, <1>3, <3>6, <3>7, SecondBackup
        <3>9. QED
            BY <3>4, <3>5, <3>8 DEF b, v
    <2>5. Edt!AsBefore(files', edit')
        <3>1. \A j \in 1..(edit.i - 1) : j \in 1..edit.i
            BY <1>2
        <3>2. edit.i \in 1..edit.i
            BY <1>2
        <3>3. \A q \in Paths : edit.before[q] # Edt!Absent =>
                  files'[q] = edit.before[q] \/ \E j \in 1..edit.i : edit.plan[j] = q
            BY <1>5, <2>2, <3>1, <3>2
        <3>4. edit'.plan = edit.plan /\ edit'.before = edit.before /\ Edt!Written(edit') = edit.i
            BY <2>3
        <3>5. QED
            BY <3>3, <3>4 DEF Edt!AsBefore
    <2>6. \A j \in 1..Edt!Held(edit') : j # edit.i /\ j > Edt!Written(edit') => j > Edt!Written(edit)
        BY <1>2, <1>4, <2>a
    <2>7. Edt!Held(edit') \in Nat /\ Edt!Held(edit') <= Edt!Held(edit) /\ Edt!Held(edit) <= Len(edit.plan)
          /\ Edt!Held(edit) \in Nat
        BY <1>2, <1>4, <2>a
    <2> HIDE DEF p
    <2>8. p = edit.plan[edit.i] /\ edit.at # "idle"
        BY <1>1 DEF p
    <2>9. QED
        BY <1>1, <1>2, <2>2, <2>3, <2>4, <2>5, <2>6, <2>7, <2>8, EditGoesOn
<1>8. CASE /\ files' = files
           /\ edit' = IF edit.i = 1 THEN [edit EXCEPT !.at = "idle", !.result = "failed"]
                      ELSE [edit EXCEPT !.at = "undo", !.i = edit.i - 1, !.result = "failed"]
    <2>1. /\ edit' \in Edt!Operation
          /\ edit'.plan = edit.plan /\ edit'.before = edit.before /\ edit'.backup = edit.backup
          /\ Edt!Held(edit') = edit.i - 1 /\ Edt!Written(edit') = edit.i - 1
          /\ edit'.at # "idle" => edit'.i \in 1..Len(edit.plan)
          /\ edit'.at \in {"idle", "undo"} /\ edit'.result = "failed"
        <3>1. CASE edit.i = 1
            <4>1. edit' = [edit EXCEPT !.at = "idle", !.result = "failed"]
                BY <1>8, <3>1
            <4>2. /\ edit' \in Edt!Operation
                  /\ edit'.plan = edit.plan /\ edit'.before = edit.before /\ edit'.backup = edit.backup
                  /\ edit'.at = "idle" /\ edit'.result = "failed"
                BY <1>3, <4>1 DEF Edt!Operation
            <4>3. QED
                BY <3>1, <4>2 DEF Edt!Held, Edt!Written
        <3>2. CASE edit.i # 1
            <4>1. /\ edit' = [edit EXCEPT !.at = "undo", !.i = edit.i - 1, !.result = "failed"]
                  /\ edit.i - 1 \in Nat /\ edit.i - 1 \in 1..Len(edit.plan)
                BY <1>2, <1>8, <3>2
            <4>2. /\ edit' \in Edt!Operation
                  /\ edit'.plan = edit.plan /\ edit'.before = edit.before /\ edit'.backup = edit.backup
                  /\ edit'.at = "undo" /\ edit'.result = "failed" /\ edit'.i = edit.i - 1
                BY <1>3, <4>1 DEF Edt!Operation
            <4>3. QED
                BY <4>1, <4>2 DEF Edt!Held, Edt!Written
        <3>3. QED
            BY <3>1, <3>2
    <2>2. /\ Edt!Held(edit') \in Nat /\ Edt!Held(edit') <= Edt!Held(edit) /\ Edt!Held(edit) <= Len(edit.plan)
          /\ Edt!Held(edit) \in Nat /\ edit.i \notin 1..Edt!Held(edit')
        BY <1>2, <1>4, <2>1
    <2>3. \A j \in 1..Edt!Held(edit') : j # edit.i /\ j > Edt!Written(edit') => j > Edt!Written(edit)
        BY <1>4, <2>1
    <2>4. Edt!AsBefore(files', edit')
        BY <1>5, <1>8, <2>1 DEF Edt!AsBefore
    <2> HIDE DEF p
    <2>5. p = edit.plan[edit.i] /\ edit.at # "idle"
        BY <1>1 DEF p
    <2>6. QED
        BY <1>1, <1>2, <1>3, <1>8, <2>1, <2>2, <2>3, <2>4, <2>5, EditGoesOn
<1>9. QED
    BY <1>7, <1>8 DEF Edt!ApplyNext, Edt!WriteFile, Edt!WriteFails

\* A file is restored, or cannot be.
LEMMA EditRestores ==
    ASSUME Edt!BackupsAreOwn, Edt!EditInv, Edt!RollbackEdit
    PROVE  Edt!EditInv'
<1> DEFINE p == edit.plan[edit.i]
           b == edit.backup[p]
           readable == IF b = Edt!NoBackup THEN FALSE ELSE backups[b] # Edt!Absent
           next(e) == IF e.i = 1 THEN [e EXCEPT !.at = "idle"] ELSE [e EXCEPT !.i = e.i - 1]
           twice == [edit EXCEPT !.result = "failed twice"]
<1>1. /\ edit.at = "undo" /\ second' = second /\ ops' = ops
      /\ Edt!createBackup(p) \/ backups' = backups
    BY DEF Edt!RollbackEdit, Edt!Restore, Edt!WriteFile, Edt!WriteFails
<1>2. /\ edit.i \in 1..Len(edit.plan) /\ edit.i \in Nat /\ Len(edit.plan) \in Nat /\ edit.i > 0 /\ p \in Paths
      /\ \A j \in 1..Len(edit.plan) : edit.plan[j] \in Paths /\ (j # edit.i => edit.plan[j] # p)
    BY <1>1, PathAtHand
<1>3. /\ edit.result \in {"failed", "failed twice", "undone"} /\ edit \in Edt!Operation
      /\ files \in [Paths -> Int] /\ backups \in [Edt!BackupNames -> Int]
      /\ b \in Edt!BackupNames \cup {Edt!NoBackup}
    BY <1>1, <1>2 DEF Edt!EditInv, Edt!EditType, Edt!Operation
<1>4. Edt!Held(edit) = edit.i /\ Edt!Written(edit) = edit.i
    BY <1>1 DEF Edt!Held, Edt!Written
<1>5. edit.before[p] # Edt!Absent => b \in Edt!BackupNames /\ backups[b] = edit.before[p] /\ b # Edt!NoBackup
    <2>1. Edt!Safe(backups, edit, edit.i)
        BY <1>2, <1>4 DEF Edt!EditInv
    <2>2. edit.before[p] # Edt!Absent => Edt!Holds(backups, b, edit.before[p], p)
        BY <2>1 DEF Edt!Safe
    <2>3. b[1] = Edt!Base(p) => b # Edt!NoBackup
        <3>1. Edt!NoBackup[1] = ""
            BY DEF Edt!NoBackup
        <3>2. Edt!Base(p) # ""
            BY <1>2 DEF Edt!BackupsAreOwn
        <3>3. QED
            BY <3>1, <3>2
    <2>4. QED
        BY <2>2, <2>3 DEF Edt!Holds
<1>6. edit.result # "failed twice" =>
          \A q \in Paths : edit.before[q] # Edt!Absent =>
              files[q] = edit.before[q] \/ \E j \in 1..edit.i : edit.plan[j] = q
    BY <1>3, <1>4 DEF Edt!EditInv, Edt!AsBefore
\* Where the operation goes on from, and what is then written.
<1>7. ASSUME NEW e \in Edt!Operation, e.plan = edit.plan, e.before = edit.before, e.backup = edit.backup,
             e.at = "undo", e.i = edit.i, e.result \in {"failed", "failed twice", "undone"}, edit' = next(e)
      PROVE  /\ edit' \in Edt!Operation
             /\ edit'.plan = edit.plan /\ edit'.before = edit.before /\ edit'.backup = edit.backup
             /\ Edt!Held(edit') = edit.i - 1 /\ Edt!Written(edit') = edit.i - 1
             /\ edit'.at # "idle" => edit'.i \in 1..Len(edit.plan)
             /\ edit'.at \in {"idle", "undo"} /\ edit'.result = e.result
    <2>1. CASE edit.i = 1
        <3>1. edit' = [e EXCEPT !.at = "idle"]
            BY <1>7, <2>1
        <3>2. /\ edit' \in Edt!Operation
              /\ edit'.plan = edit.plan /\ edit'.before = edit.before /\ edit'.backup = edit.backup
              /\ edit'.at = "idle" /\ edit'.result = e.result
            BY <1>7, <3>1 DEF Edt!Operation
        <3>3. edit.i - 1 = 0
            BY <2>1
        <3>4. e.result # "applied"
            BY <1>7
        <3>5. Edt!Held(edit') = 0 /\ Edt!Written(edit') = 0
            BY <3>2, <3>4 DEF Edt!Held, Edt!Written
        <3>6. QED
            BY <3>2, <3>3, <3>5
    <2>2. CASE edit.i # 1
        <3>0. edit.i - 1 \in Nat /\ edit.i - 1 \in 1..Len(edit.plan)
            BY <1>2, <2>2
        <3>1. edit' = [e EXCEPT !.i = edit.i - 1]
            BY <1>7, <2>2
        <3>2. /\ edit' \in Edt!Operation
              /\ edit'.plan = edit.plan /\ edit'.before = edit.before /\ edit'.backup = edit.backup
              /\ edit'.at = "undo" /\ edit'.result = e.result /\ edit'.i = edit.i - 1
            BY <1>7, <3>0, <3>1 DEF Edt!Operation
        <3>3. QED
            BY <3>0, <3>2 DEF Edt!Held, Edt!Written
    <2>3. QED
        BY <2>1, <2>2
<1>8. ASSUME edit' \in Edt!Operation,
             edit'.plan = edit.plan, edit'.before = edit.before, edit'.backup = edit.backup,
             Edt!Held(edit') \in {0, edit.i - 1}, Edt!Written(edit') = Edt!Held(edit'),
             edit'.at # "idle" => edit'.i \in 1..Len(edit.plan),
             edit'.at \in {"idle", "undo"}, edit'.at = "undo" => edit'.result \in {"failed", "failed twice", "undone"},
             files' \in [Paths -> Int], Edt!AsBefore(files', edit')
      PROVE  Edt!EditInv'
    <2>1. /\ Edt!Held(edit') \in Nat /\ Edt!Held(edit') <= Edt!Held(edit) /\ Edt!Held(edit) <= Len(edit.plan)
          /\ Edt!Held(edit) \in Nat /\ edit.i \notin 1..Edt!Held(edit')
        <3> DEFINE h == Edt!Held(edit')
        <3>1. h \in {0, edit.i - 1}
            BY <1>8
        <3> HIDE DEF h
        <3>2. h \in Nat /\ h <= edit.i /\ edit.i <= Len(edit.plan) /\ edit.i \notin 1..h
            BY <1>2, <3>1
        <3>3. QED
            BY <1>2, <1>4, <3>2 DEF h
    <2>2. \A j \in 1..Edt!Held(edit') : j # edit.i /\ j > Edt!Written(edit') => j > Edt!Written(edit)
        <3> DEFINE h == Edt!Held(edit')
                   w == Edt!Written(edit')
        <3>1. h \in Nat /\ w = h
            BY <1>8, <2>1
        <3> HIDE DEF h, w
        <3>2. \A j \in 1..h : ~(j > w)
            BY <3>1
        <3>3. QED
            BY <3>2 DEF h, w
    <2>3. p = edit.plan[edit.i] /\ edit.at # "idle"
        BY <1>1
    <2> HIDE DEF p
    <2>4. QED
        BY <1>1, <1>2, <1>8, <2>1, <2>2, <2>3, EditGoesOn
\* The file is as it was, or not one to be restored.
<1>9. ASSUME files' \in [Paths -> Int], \A q \in Paths : q # p => files'[q] = files[q],
             edit.before[p] # Edt!Absent => files'[p] = edit.before[p],
             edit' = next(edit)
      PROVE  Edt!EditInv'
    <2>1. /\ edit' \in Edt!Operation
          /\ edit'.plan = edit.plan /\ edit'.before = edit.before /\ edit'.backup = edit.backup
          /\ Edt!Held(edit') = edit.i - 1 /\ Edt!Written(edit') = edit.i - 1
          /\ edit'.at # "idle" => edit'.i \in 1..Len(edit.plan)
          /\ edit'.at \in {"idle", "undo"} /\ edit'.result = edit.result
        BY <1>1, <1>3, <1>7, <1>9
    <2>2. Edt!AsBefore(files', edit')
        <3>1. \A j \in 1..edit.i : j = edit.i \/ j \in 1..(edit.i - 1)
            BY <1>2
        <3>2. edit'.result # "failed twice" =>
                  \A q \in Paths : edit.before[q] # Edt!Absent =>
                      files'[q] = edit.before[q] \/ \E j \in 1..(edit.i - 1) : edit.plan[j] = q
            BY <1>6, <1>9, <2>1, <3>1
        <3>3. QED
            BY <2>1, <3>2 DEF Edt!AsBefore
    <2>3. QED
        BY <1>3, <1>8, <1>9, <2>1, <2>2
<1>10. CASE readable /\ Edt!Restore(p, b) /\ edit' = next(edit)
    <2>1. b \in Edt!BackupNames /\ files' = [files EXCEPT ![p] = backups[b]]
        BY <1>3, <1>10 DEF Edt!Restore, Edt!WriteFile
    <2>2. /\ files' \in [Paths -> Int] /\ \A q \in Paths : q # p => files'[q] = files[q]
          /\ files'[p] = backups[b]
        BY <1>2, <1>3, <2>1
    <2>3. QED
        BY <1>5, <1>9, <1>10, <2>2
<1>11. CASE ~readable /\ edit' = next(edit) /\ files' = files
    BY <1>3, <1>5, <1>9, <1>11
<1>12. CASE edit' = next(twice) /\ files' = files
    <2>1. /\ twice \in Edt!Operation /\ twice.plan = edit.plan /\ twice.before = edit.before
          /\ twice.backup = edit.backup /\ twice.at = "undo" /\ twice.i = edit.i /\ twice.result = "failed twice"
        BY <1>1, <1>3 DEF Edt!Operation
    <2> HIDE DEF twice
    <2>2. /\ edit' \in Edt!Operation
          /\ edit'.plan = edit.plan /\ edit'.before = edit.before /\ edit'.backup = edit.backup
          /\ Edt!Held(edit') = edit.i - 1 /\ Edt!Written(edit') = edit.i - 1
          /\ edit'.at # "idle" => edit'.i \in 1..Len(edit.plan)
          /\ edit'.at \in {"idle", "undo"} /\ edit'.result = "failed twice"
        BY <1>7, <1>12, <2>1
    <2>3. Edt!AsBefore(files', edit')
        BY <2>2 DEF Edt!AsBefore
    <2>4. QED
        BY <1>3, <1>8, <1>12, <2>2, <2>3
<1>13. CASE edit' = [edit EXCEPT !.at = "idle", !.result = "stuck"] /\ files' = files
    <2>1. /\ edit' \in Edt!Operation
          /\ edit'.plan = edit.plan /\ edit'.before = edit.before /\ edit'.backup = edit.backup
          /\ edit'.at = "idle" /\ edit'.result = "stuck"
        BY <1>3, <1>13 DEF Edt!Operation
    <2>2. Edt!Held(edit') = 0 /\ Edt!Written(edit') = 0
        BY <2>1 DEF Edt!Held, Edt!Written
    <2>3. Edt!AsBefore(files', edit')
        BY <2>1 DEF Edt!AsBefore
    <2>4. QED
        BY <1>3, <1>8, <1>13, <2>1, <2>2, <2>3
<1>14. QED
    <2>1. \/ readable /\ Edt!Restore(p, b) /\ edit' = next(edit)
          \/ ~readable /\ edit' = next(edit) /\ files' = files
          \/ edit' = next(twice) /\ files' = files
          \/ edit' = [edit EXCEPT !.at = "idle", !.result = "stuck"] /\ files' = files
        BY DEF Edt!RollbackEdit, Edt!WriteFails
    <2>2. QED
        BY <2>1, <1>10, <1>11, <1>12, <1>13

\* The steps that write no file.
LEMMA EditOthers ==
    ASSUME Edt!BackupsAreOwn, Edt!EditInv,
           Edt!SecondPasses \/ Edt!rollbackBackups \/ Edt!RollbackMultiEdit
    PROVE  Edt!EditInv'
<1>a. Edt!Absent \in Int
    BY DEF Edt!Absent
<1>1. CASE Edt!SecondPasses
    <2>0. second \in 0..MaxSeconds /\ second < MaxSeconds /\ second' = second + 1 /\ MaxSeconds \in Nat
        BY <1>1 DEF Edt!SecondPasses, Edt!EditInv, Edt!EditType, Edt!BackupsAreOwn
    <2>n. \A n \in Edt!BackupNames : n[2] \in Int
        BY DEF Edt!BackupNames
    <2>1. second' \in 0..MaxSeconds /\ \A n \in Edt!BackupNames : n[2] > second' => n[2] > second
        BY <2>0, <2>n
    <2>2. QED
        BY <1>1, <2>1 DEF Edt!SecondPasses, Edt!EditInv, Edt!EditType
<1>2. CASE Edt!rollbackBackups
    <2>1. /\ edit.at = "backup" /\ edit.result = "none" /\ edit \in Edt!Operation
          /\ edit' = [edit EXCEPT !.at = "idle", !.result = "failed"]
        BY <1>2 DEF Edt!rollbackBackups, Edt!EditInv, Edt!EditType
    <2>2. /\ edit' \in Edt!Operation /\ edit'.plan = edit.plan /\ edit'.before = edit.before
          /\ edit'.at = "idle" /\ edit'.result = "failed"
        BY <2>1 DEF Edt!Operation
    <2>3. Edt!Held(edit') = 0 /\ Edt!Written(edit') = 0 /\ Edt!Written(edit) = 0
        BY <2>1, <2>2 DEF Edt!Held, Edt!Written
    <2>4. /\ backups' \in [Edt!BackupNames -> Int]
          /\ \A n \in Edt!BackupNames : backups'[n] \in {backups[n], Edt!Absent}
        BY <1>a, <1>2 DEF Edt!rollbackBackups, Edt!EditInv, Edt!EditType
    <2>5. Edt!AsBefore(files, edit')
        <3>1. Edt!AsBefore(files, edit)
            BY DEF Edt!EditInv
        <3>2. \A q \in Paths : edit.before[q] # Edt!Absent => files[q] = edit.before[q]
            BY <3>1, <2>1, <2>3, NothingWritten
        <3>3. QED
            BY <3>2, <2>2 DEF Edt!AsBefore
    <2>6. files' = files /\ second' = second /\ ops' = ops
        BY <1>2 DEF Edt!rollbackBackups
    <2>7. Edt!EditType'
        BY <2>2, <2>4, <2>6 DEF Edt!EditInv, Edt!EditType
    <2>8. QED
        BY <2>3, <2>4, <2>5, <2>6, <2>7 DEF Edt!EditInv
<1>3. CASE Edt!RollbackMultiEdit
    <2>1. /\ edit.at = "idle" /\ edit.result = "applied" /\ edit \in Edt!Operation /\ edit.plan # <<>>
          /\ edit' = [edit EXCEPT !.at = "undo", !.i = Len(edit.plan), !.result = "undone"]
        BY <1>3 DEF Edt!RollbackMultiEdit, Edt!EditInv, Edt!EditType
    <2>2. edit.plan \in Seq(Paths)
        BY <2>1 DEF Edt!Operation
    <2>3. Len(edit.plan) \in Nat /\ Len(edit.plan) \in 1..Len(edit.plan)
        BY <2>1, <2>2
    <2>4. /\ edit' \in Edt!Operation /\ edit'.plan = edit.plan /\ edit'.before = edit.before
          /\ edit'.backup = edit.backup
          /\ edit'.at = "undo" /\ edit'.result = "undone" /\ edit'.i = Len(edit.plan)
        BY <2>1, <2>3 DEF Edt!Operation
    <2>5. /\ Edt!Held(edit') = Len(edit.plan) /\ Edt!Written(edit') = Len(edit.plan)
          /\ Edt!Held(edit) = Len(edit.plan) /\ Edt!Written(edit) = Len(edit.plan)
        BY <2>1, <2>4 DEF Edt!Held, Edt!Written
    <2>6. files' = files /\ backups' = backups /\ second' = second /\ ops' = ops
        BY <1>3 DEF Edt!RollbackMultiEdit
    <2>7. Edt!EditType'
        BY <2>3, <2>4, <2>6 DEF Edt!EditInv, Edt!EditType
    <2>8. \A j \in 1..Edt!Held(edit') : Edt!Safe(backups', edit', j)
        BY <2>4, <2>5, <2>6 DEF Edt!EditInv, Edt!Safe
    <2>9. Edt!AsBefore(files', edit')
        BY <2>1, <2>4, <2>5, <2>6 DEF Edt!EditInv, Edt!AsBefore
    <2>10. QED
        BY <2>6, <2>7, <2>8, <2>9 DEF Edt!EditInv
<1>4. QED
    BY <1>1, <1>2, <1>3

\* The files whose backups are kept are paths of the plan.
LEMMA HeldPaths ==
    ASSUME Edt!EditInv, NEW j \in 1..Edt!Held(edit)
    PROVE  edit.plan[j] \in Paths
<1>1. edit.plan \in Seq(Paths) /\ edit.i \in Nat /\ (edit.at # "idle" => edit.i \in 1..Len(edit.plan))
    BY DEF Edt!EditInv, Edt!EditType, Edt!Operation
<1>2. Len(edit.plan) \in Nat /\ \A k \in 1..Len(edit.plan) : edit.plan[k] \in Paths
    BY <1>1
<1>3. /\ edit.at = "backup" => Edt!Held(edit) = edit.i - 1
      /\ edit.at = "undo" => Edt!Held(edit) = edit.i
      /\ edit.at \notin {"backup", "undo"} => Edt!Held(edit) \in {0, Len(edit.plan)}
    BY DEF Edt!Held
<1>4. CASE edit.at = "backup" \/ edit.at = "undo"
    BY <1>1, <1>2, <1>3, <1>4
<1>5. CASE edit.at \notin {"backup", "undo"}
    BY <1>2, <1>3, <1>5
<1>6. QED
    BY <1>4, <1>5

\* A clean-up leaves what may yet be needed.
LEMMA EditSwept ==
    ASSUME Edt!BackupsAreOwn, Edt!EditInv, NEW base, Edt!CleanupBackups(base)
    PROVE  Edt!EditInv'
<1>1. Edt!EditType
    BY DEF Edt!EditInv
<1>2. /\ backups' \in [Edt!BackupNames -> Int]
      /\ \A n \in Edt!BackupNames : backups'[n] \in {backups[n], Edt!Absent}
      /\ \A n \in Edt!BackupNames, p \in Paths : \A v, t :
             /\ v # Edt!Absent /\ Edt!Holds(backups, n, v, p)
             /\ Edt!Newer(backups, n, p) \subseteq {t}
             => backups'[n] = v
    BY <1>1, SweptBackups
<1>3. files' = files /\ second' = second /\ ops' = ops /\ edit' = edit
    BY DEF Edt!CleanupBackups
<1>4. \A b, p : Edt!Newer(backups', b, p) \subseteq Edt!Newer(backups, b, p)
    BY <1>2 DEF Edt!Newer
<1>5. ASSUME NEW j \in 1..Edt!Held(edit)
      PROVE  Edt!Safe(backups', edit, j)
    <2> DEFINE p == edit.plan[j]
               b == edit.backup[p]
    <2>1. SUFFICES ASSUME edit.before[p] # Edt!Absent
                   PROVE  /\ Edt!Holds(backups', b, edit.before[p], p)
                          /\ \E t \in Edt!BackupNames : Edt!Newer(backups', b, p) \subseteq {t}
                          /\ j > Edt!Written(edit) => Edt!Newer(backups', b, p) = {}
        BY DEF Edt!Safe
    <2>2. /\ Edt!Holds(backups, b, edit.before[p], p)
          /\ \E t \in Edt!BackupNames : Edt!Newer(backups, b, p) \subseteq {t}
          /\ j > Edt!Written(edit) => Edt!Newer(backups, b, p) = {}
        BY <2>1 DEF Edt!EditInv, Edt!Safe
    <2>3. p \in Paths
        BY HeldPaths
    <2>4. b \in Edt!BackupNames /\ b[1] = Edt!Base(p) /\ backups'[b] = edit.before[p]
        BY <1>2, <2>1, <2>2, <2>3 DEF Edt!Holds
    <2>5. QED
        BY <1>4, <2>2, <2>4 DEF Edt!Holds
<1>6. Edt!EditType'
    BY <1>1, <1>2, <1>3 DEF Edt!EditType
<1>7. QED
    BY <1>2, <1>3, <1>5, <1>6 DEF Edt!EditInv

\* Every step of the editor keeps the invariant.
LEMMA EditStep ==
    ASSUME Edt!BackupsAreOwn, Edt!EditInv, Edt!Next
    PROVE  Edt!EditInv'
<1>1. ASSUME NEW plan \in Plans, Edt!ApplyMultiEdit(plan)
      PROVE  Edt!EditInv'
    <2>1. /\ plan \in Seq(Paths) /\ plan # <<>>
          /\ \A j, k \in 1..Len(plan) : plan[j] = plan[k] => j = k
        BY DEF Edt!BackupsAreOwn
    <2>2. QED
        BY <1>1, <2>1, EditBegins DEF Edt!ApplyMultiEdit
<1>2. ASSUME NEW p \in Paths, Edt!EditFile(p)
      PROVE  Edt!EditInv'
    <2> DEFINE plan == <<p>>
    <2>1. /\ plan \in Seq(Paths) /\ plan # <<>>
          /\ \A j, k \in 1..Len(plan) : plan[j] = plan[k] => j = k
        OBVIOUS
    <2>2. Edt!Begin("diff", plan, "backup")
        BY <1>2 DEF Edt!EditFile, Edt!ApplyDiff
    <2> HIDE DEF plan
    <2>3. QED
        BY <2>1, <2>2, EditBegins
<1>3. QED
    BY <1>1, <1>2, EditBackup, EditApplies, EditRestores, EditOthers, EditSwept DEF Edt!Next

-----------------------------------------------------------------------------
(* The window of context *)

\* The Cardinality of ContextWindow is that of FiniteSets.
LEMMA CtxFinite == \A S : Ctx!Cardinality(S) = Cardinality(S) /\ (Ctx!IsFiniteSet(S) <=> IsFiniteSet(S))
BY DEF Ctx!Cardinality, Cardinality, Ctx!IsFiniteSet, IsFiniteSet

\* Of items in an order, one is last.
LEMMA LastItem ==
    ASSUME NEW n \in Nat, NEW D, NEW order \in [D -> 1..n], NEW S \in SUBSET D, S # {}
    PROVE  \E i \in S : \A j \in S : order[j] <= order[i]
<1> DEFINE T == {n - order[i] : i \in S}
<1> DEFINE R == {ss \in Nat \X Nat : ss[1] < ss[2]}
<1>1. T \in SUBSET Nat /\ T # {}
    OBVIOUS
<1>2. IsWellFoundedOn(R, Nat)
    BY NatLessThanWellFounded DEF OpToRel
<1>3. \E t \in T : \A u \in T : ~(<<u, t>> \in R)
    <2> HIDE DEF T, R
    <2> QED BY <1>1, <1>2, WFMin
<1>4. PICK i \in S : \A u \in T : ~(<<u, n - order[i]>> \in R)
    BY <1>3
<1>5. ASSUME NEW j \in S PROVE order[j] <= order[i]
    <2>1. n - order[j] \in T /\ n - order[j] \in Nat /\ n - order[i] \in Nat
        OBVIOUS
    <2>2. ~(n - order[j] < n - order[i])
        BY <1>4, <2>1
    <2> QED BY <2>2
<1> QED BY <1>5

\* The tokens of some items are finitely many,
LEMMA TokensFinite ==
    ASSUME NEW S \in SUBSET Items
    PROVE  IsFiniteSet(UNION {{i} \X (1..Tokens[i]) : i \in S})
<1> DEFINE T == {{i} \X (1..Tokens[i]) : i \in S}
<1> DEFINE f == [i \in S |-> {i} \X (1..Tokens[i])]
<1>1. IsFiniteSet(S)
    BY ToolsAssumption, CtxFinite, FS_Subset DEF Ctx!ContextAssumption
<1>2. f \in Surjection(S, T)
    BY DEF Surjection
<1>3. IsFiniteSet(T)
    <2> HIDE DEF T, f
    <2> QED BY <1>1, <1>2, FS_Surjection
<1>4. \A t \in T : IsFiniteSet(t)
    <2> SUFFICES ASSUME NEW i \in S PROVE IsFiniteSet({i} \X (1..Tokens[i]))
        OBVIOUS
    <2>1. Tokens[i] \in Nat
        BY ToolsAssumption DEF Ctx!ContextAssumption
    <2>2. IsFiniteSet(1..Tokens[i])
        BY <2>1, FS_Interval
    <2>3. IsFiniteSet({i})
        BY FS_Singleton
    <2> QED BY <2>2, <2>3, FS_Product
<1> HIDE DEF T
<1>5. IsFiniteSet(UNION T)
    BY <1>3, <1>4, FS_UNION
<1> QED BY <1>5 DEF T

\* none of no items,
LEMMA TokensNone == Ctx!TokensIn({}) = 0
<1>1. UNION {{j} \X (1..Tokens[j]) : j \in {}} = {}
    OBVIOUS
<1> QED BY <1>1, FS_EmptySet, CtxFinite DEF Ctx!TokensIn

\* and each item adds its own.
LEMMA TokensAdd ==
    ASSUME NEW S \in SUBSET Items, NEW i \in Items, i \notin S
    PROVE  Ctx!TokensIn(S \cup {i}) = Ctx!TokensIn(S) + Tokens[i]
<1> DEFINE U == UNION {{j} \X (1..Tokens[j]) : j \in S}
<1> DEFINE V == {i} \X (1..Tokens[i])
<1> DEFINE W == UNION {{j} \X (1..Tokens[j]) : j \in S \cup {i}}
<1>1. Tokens[i] \in Nat
    BY ToolsAssumption DEF Ctx!ContextAssumption
<1>2. IsFiniteSet(V) /\ Cardinality(V) = Tokens[i]
    <2>1. IsFiniteSet(1..Tokens[i]) /\ Cardinality(1..Tokens[i]) = Tokens[i]
        BY <1>1, FS_Interval
    <2>2. IsFiniteSet({i}) /\ Cardinality({i}) = 1
        BY FS_Singleton
    <2>3. IsFiniteSet(V) /\ Cardinality(V) = Cardinality({i}) * Cardinality(1..Tokens[i])
        BY <2>1, <2>2, FS_Product
    <2> HIDE DEF V
    <2> QED BY <1>1, <2>1, <2>2, <2>3
<1>3. IsFiniteSet(U)
    BY TokensFinite
<1>4. W = U \cup V
    OBVIOUS
<1>5. U \cap V = {}
    OBVIOUS
<1>6. Cardinality(U) \in Nat
    BY <1>3, FS_CardinalityType
<1>7. Cardinality(W) = Cardinality(U) + Tokens[i]
    <2> HIDE DEF U, V, W
    <2>1. Cardinality(U \cup V) = Cardinality(U) + Cardinality(V) - Cardinality({})
        BY <1>2, <1>3, <1>5, FS_Union
    <2> QED BY <1>1, <1>2, <1>4, <1>6, <2>1, FS_EmptySet
<1> QED BY <1>7, CtxFinite DEF Ctx!TokensIn

\* What fits place by place fits together: the last one fitted beside the rest.
LEMMA ChosenFit ==
    ASSUME NEW h, NEW order \in Ctx!AnyOrder(Ctx!All(h)), NEW limit \in Nat,
           NEW S \in SUBSET Ctx!All(h),
           \A i \in S : Ctx!Fits(i, S, order, limit)
    PROVE  Ctx!TokensIn(S) <= limit
<1> DEFINE D == Ctx!All(h)
<1>1. D \in SUBSET Items /\ S \in SUBSET Items
    BY DEF Ctx!All
<1>2. IsFiniteSet(D) /\ Cardinality(D) \in Nat
    BY <1>1, ToolsAssumption, CtxFinite, FS_Subset, FS_CardinalityType DEF Ctx!ContextAssumption
<1>3. /\ order \in [D -> 1..Cardinality(D)]
      /\ \A i, j \in D : order[i] = order[j] => i = j
    BY CtxFinite DEF Ctx!AnyOrder
<1> HIDE DEF D
<1>4. S \in SUBSET D
    BY DEF D
<1>5. CASE S = {}
    BY <1>5, TokensNone
<1>6. CASE S # {}
    <2>1. PICK i \in S : \A j \in S : order[j] <= order[i]
        BY <1>2, <1>3, <1>4, <1>6, LastItem
    <2>2. \A j \in S : j # i => order[j] < order[i]
        <3> SUFFICES ASSUME NEW j \in S, j # i PROVE order[j] < order[i]
            OBVIOUS
        <3>1. order[j] <= order[i] /\ order[j] # order[i]
            BY <1>3, <1>4, <2>1
        <3>2. order[j] \in Int /\ order[i] \in Int
            BY <1>3, <1>4, <1>2
        <3> QED BY <3>1, <3>2
    <2>3. S \cap Ctx!Before(i, order) = S \ {i}
        <3>1. DOMAIN order = D
            BY <1>3
        <3>2. ~(order[i] < order[i])
            BY <1>2, <1>3, <1>4
        <3> QED BY <1>4, <2>2, <3>1, <3>2 DEF Ctx!Before
    <2>4. Ctx!TokensIn(S \ {i}) + Tokens[i] <= limit
        BY <2>3 DEF Ctx!Fits
    <2>5. Ctx!TokensIn((S \ {i}) \cup {i}) = Ctx!TokensIn(S \ {i}) + Tokens[i]
        BY <1>1, TokensAdd
    <2>6. (S \ {i}) \cup {i} = S
        OBVIOUS
    <2> QED BY <2>4, <2>5, <2>6
<1> QED BY <1>5, <1>6

\* Whatever the strategy, the new window is within its limit, shows items that
\* are held, and says so when one is left out.
LEMMA NewWindow ==
    ASSUME NEW h, NEW limit \in Nat, Ctx!updateWindow(h, limit)
    PROVE  /\ window' = [items |-> window'.items, total |-> window'.total,
                         truncated |-> window'.truncated]
           /\ window'.total <= limit
           /\ window'.total = Ctx!TokensIn(window'.items)
           /\ window'.items \subseteq Ctx!All(h)
           /\ Ctx!All(h) \ window'.items # {} => window'.truncated
<1>1. PICK order \in Ctx!Orders(h) :
        \E S \in IF strategy = "by_type" THEN Ctx!truncateByType(order, limit)
                 ELSE Ctx!selectItemsWithinTokenLimit(order, limit) :
        window' = [items |-> S, total |-> Ctx!TokensIn(S),
                   truncated |-> Ctx!Cardinality(S) < Ctx!Cardinality(Ctx!All(h))]
    BY DEF Ctx!updateWindow
<1>2. PICK S \in Ctx!truncateByType(order, limit) \cup Ctx!selectItemsWithinTokenLimit(order, limit) :
        window' = [items |-> S, total |-> Ctx!TokensIn(S),
                   truncated |-> Ctx!Cardinality(S) < Ctx!Cardinality(Ctx!All(h))]
    BY <1>1
<1>3. order \in Ctx!AnyOrder(Ctx!All(h)) /\ DOMAIN order = Ctx!All(h)
    BY DEF Ctx!Orders, Ctx!AnyOrder
<1>4. S \in SUBSET Ctx!All(h)
    BY <1>3 DEF Ctx!truncateByType, Ctx!selectItemsWithinTokenLimit
<1>5. \A i \in S : Ctx!Fits(i, S, order, limit)
    <2>1. CASE S \in Ctx!truncateByType(order, limit)
        BY <1>3, <1>4, <2>1 DEF Ctx!truncateByType
    <2>2. CASE S \in Ctx!selectItemsWithinTokenLimit(order, limit)
        BY <1>3, <1>4, <2>2 DEF Ctx!selectItemsWithinTokenLimit
    <2> QED BY <2>1, <2>2
<1>6. Ctx!TokensIn(S) <= limit
    BY <1>3, <1>4, <1>5, ChosenFit
<1>7. Ctx!All(h) \ S # {} => Cardinality(S) < Cardinality(Ctx!All(h))
    <2>1. IsFiniteSet(Ctx!All(h))
        BY ToolsAssumption, CtxFinite, FS_Subset DEF Ctx!ContextAssumption, Ctx!All
    <2>2. /\ Cardinality(S) <= Cardinality(Ctx!All(h))
          /\ Cardinality(S) = Cardinality(Ctx!All(h)) => S = Ctx!All(h)
          /\ Cardinality(S) \in Nat /\ Cardinality(Ctx!All(h)) \in Nat
        BY <1>4, <2>1, FS_Subset, FS_CardinalityType
    <2> QED BY <2>2
<1>8. /\ window'.items = S /\ window'.total = Ctx!TokensIn(S)
      /\ window'.truncated = (Ctx!Cardinality(S) < Ctx!Cardinality(Ctx!All(h)))
    BY <1>2
<1>9. window' = [items |-> window'.items, total |-> window'.total,
                         truncated |-> window'.truncated]
    BY <1>2, <1>8
<1>10. Ctx!All(h) \ window'.items # {} => window'.truncated
    BY <1>7, <1>8, CtxFinite
<1> QED BY <1>4, <1>6, <1>8, <1>9, <1>10

\* Nothing is held at first, and nothing shown.
LEMMA WindowInit == Ctx!Init => Ctx!WindowInv
<1> SUFFICES ASSUME Ctx!Init PROVE Ctx!WindowInv
    OBVIOUS
<1>1. Limits \subseteq Nat
    BY ToolsAssumption DEF Ctx!ContextAssumption
<1>2. Ctx!NoItem \in [path : Ctx!SourcePaths \cup {Ctx!NoPath}, entered : Nat, accessed : Nat, old : BOOLEAN]
    BY DEF Ctx!NoItem
<1>3. held = [i \in Items |-> Ctx!NoItem] /\ maxTokens \in Limits /\ now \in Nat
    BY DEF Ctx!Init
<1>4. Ctx!All(held) = {}
    BY <1>3 DEF Ctx!All
<1>5. window.items = {} /\ window.total = 0 /\ window = [items |-> window.items, total |-> window.total,
                 truncated |-> window.truncated]
    BY DEF Ctx!Init, Ctx!EmptyWindow
<1>6. window.total <= maxTokens
    BY <1>1, <1>3, <1>5
<1>7. Ctx!WindowIsSound
    BY <1>4, <1>5, <1>6, TokensNone DEF Ctx!WindowIsSound
<1> QED BY <1>2, <1>3, <1>5, <1>7 DEF Ctx!WindowInv

\* A step that keeps the window, the limit and which items are held.
LEMMA WindowKept ==
    ASSUME Ctx!WindowInv, UNCHANGED <<window, maxTokens>>, now' \in Nat,
           held' \in [Items -> [path : Ctx!SourcePaths \cup {Ctx!NoPath}, entered : Nat, accessed : Nat, old : BOOLEAN]],
           \A i \in Items : held'[i] = Ctx!NoItem <=> held[i] = Ctx!NoItem
    PROVE  Ctx!WindowInv'
<1>1. Ctx!All(held') = Ctx!All(held)
    BY DEF Ctx!All
<1>2. Ctx!WindowIsSound'
    BY <1>1 DEF Ctx!WindowIsSound, Ctx!WindowInv
<1> QED BY <1>2 DEF Ctx!WindowInv

\* A step that makes the window anew.
LEMMA WindowRenewed ==
    ASSUME Ctx!WindowInv, maxTokens' \in Limits, now' \in Nat, Ctx!updateWindow(held', maxTokens'),
           held' \in [Items -> [path : Ctx!SourcePaths \cup {Ctx!NoPath}, entered : Nat, accessed : Nat, old : BOOLEAN]]
    PROVE  Ctx!WindowInv'
<1>1. maxTokens' \in Nat
    BY ToolsAssumption DEF Ctx!ContextAssumption
<1>2. /\ window' = [items |-> window'.items, total |-> window'.total,
                    truncated |-> window'.truncated]
      /\ window'.total <= maxTokens'
      /\ window'.total = Ctx!TokensIn(window'.items)
      /\ window'.items \subseteq Ctx!All(held')
      /\ Ctx!All(held') \ window'.items # {} => window'.truncated
    BY <1>1, NewWindow
<1>3. Ctx!WindowIsSound'
    BY <1>2 DEF Ctx!WindowIsSound
<1> QED BY <1>2, <1>3 DEF Ctx!WindowInv

\* No path of a file is the empty one.
LEMMA PathsNamed == Ctx!NoPath \notin Ctx!SourcePaths /\ "q" \in Ctx!SourcePaths
BY Zenon DEF Ctx!NoPath, Ctx!SourcePaths

\* An item that was accessed is an item.
LEMMA AccessedItem ==
    ASSUME NEW r \in [path : Ctx!SourcePaths \cup {Ctx!NoPath}, entered : Nat, accessed : Nat, old : BOOLEAN],
           NEW n \in Nat
    PROVE  [r EXCEPT !.accessed = n, !.old = FALSE] \in
           [path : Ctx!SourcePaths \cup {Ctx!NoPath}, entered : Nat, accessed : Nat, old : BOOLEAN]
<1> DEFINE ItemSet == [path : Ctx!SourcePaths \cup {Ctx!NoPath}, entered : Nat, accessed : Nat, old : BOOLEAN]
<1> DEFINE s == [r EXCEPT !.accessed = n]
<1>1. s \in ItemSet
    OBVIOUS
<1>2. ASSUME NEW t \in ItemSet PROVE [t EXCEPT !.old = FALSE] \in ItemSet
    OBVIOUS
<1>3. [r EXCEPT !.accessed = n, !.old = FALSE] = [s EXCEPT !.old = FALSE]
    OBVIOUS
<1> HIDE DEF s, ItemSet
<1>4. [s EXCEPT !.old = FALSE] \in ItemSet
    BY <1>1, <1>2
<1> QED BY <1>3, <1>4 DEF ItemSet

\* An access and the passing of time leave an item held.
LEMMA WindowTouched ==
    ASSUME Ctx!WindowInv, NEW i \in Items, Ctx!GetContext(i) \/ Ctx!Age(i)
    PROVE  Ctx!WindowInv'
<1> DEFINE ItemSet == [path : Ctx!SourcePaths \cup {Ctx!NoPath}, entered : Nat, accessed : Nat, old : BOOLEAN]
<1>1. held \in [Items -> ItemSet] /\ now \in Nat
    BY DEF Ctx!WindowInv
<1>2. UNCHANGED <<window, maxTokens>> /\ now' \in Nat
    BY <1>1 DEF Ctx!GetContext, Ctx!Age
<1>3. held[i] # Ctx!NoItem
    BY DEF Ctx!GetContext, Ctx!Age
<1>4. held' \in [Items -> ItemSet] /\ \A j \in Items : j # i => held'[j] = held[j]
    <2>1. CASE Ctx!GetContext(i)
        <3> DEFINE new == [held[i] EXCEPT !.accessed = now + 1, !.old = FALSE]
        <3>1. held[i] \in ItemSet /\ now + 1 \in Nat
            BY <1>1
        <3>3. new \in ItemSet
            BY <3>1, AccessedItem
        <3>2. held' = [held EXCEPT ![i] = new]
            BY <1>1, <2>1 DEF Ctx!GetContext
        <3> HIDE DEF ItemSet, new
        <3> QED BY <1>1, <3>3, <3>2
    <2>2. CASE Ctx!Age(i)
        BY <1>1, <2>2 DEF Ctx!Age
    <2> QED BY <2>1, <2>2
<1>5. held'[i] # Ctx!NoItem
    <2>1. CASE Ctx!GetContext(i)
        <3>1. held'[i].accessed = now + 1
            BY <1>1, <2>1 DEF Ctx!GetContext
        <3> QED BY <1>1, <3>1 DEF Ctx!NoItem
    <2>2. CASE Ctx!Age(i)
        <3>1. held'[i].old = TRUE
            BY <1>1, <2>2 DEF Ctx!Age
        <3> QED BY <3>1 DEF Ctx!NoItem
    <2> QED BY <2>1, <2>2
<1>6. \A j \in Items : held'[j] = Ctx!NoItem <=> held[j] = Ctx!NoItem
    BY <1>3, <1>4, <1>5
<1> QED BY <1>2, <1>4, <1>6, WindowKept

\* A renamed file keeps its items.
LEMMA WindowRenamed ==
    ASSUME Ctx!WindowInv, NEW p \in Ctx!SourcePaths, NEW q \in Ctx!SourcePaths, Ctx!UpdateFilePath(p, q)
    PROVE  Ctx!WindowInv'
<1> DEFINE ItemSet == [path : Ctx!SourcePaths \cup {Ctx!NoPath}, entered : Nat, accessed : Nat, old : BOOLEAN]
<1>1. held \in [Items -> ItemSet] /\ now \in Nat
    BY DEF Ctx!WindowInv
<1>2. UNCHANGED <<window, maxTokens>> /\ now' \in Nat
    BY <1>1 DEF Ctx!UpdateFilePath
<1>3. held' \in [Items -> ItemSet]
    BY <1>1 DEF Ctx!UpdateFilePath
<1>4. ASSUME NEW j \in Items PROVE held'[j] = Ctx!NoItem <=> held[j] = Ctx!NoItem
    <2>1. CASE held[j].path = p
        <3>1. held'[j].path = q
            BY <1>1, <2>1 DEF Ctx!UpdateFilePath
        <3>2. Ctx!NoItem.path = Ctx!NoPath
            BY DEF Ctx!NoItem
        <3> QED BY <2>1, <3>1, <3>2, PathsNamed
    <2>2. CASE held[j].path # p
        BY <2>2 DEF Ctx!UpdateFilePath
    <2> QED BY <2>1, <2>2
<1> QED BY <1>2, <1>3, <1>4, WindowKept

\* What is added is weighed with the rest.
LEMMA WindowAdded ==
    ASSUME Ctx!WindowInv, NEW i \in Items, NEW p \in Ctx!SourcePaths, Ctx!AddContext(i, p)
    PROVE  Ctx!WindowInv'
<1> DEFINE ItemSet == [path : Ctx!SourcePaths \cup {Ctx!NoPath}, entered : Nat, accessed : Nat, old : BOOLEAN]
<1>1. held \in [Items -> ItemSet] /\ now \in Nat /\ maxTokens \in Limits
    BY DEF Ctx!WindowInv
<1>2. now' \in Nat /\ maxTokens' = maxTokens /\ Ctx!updateWindow(held', maxTokens)
    BY <1>1 DEF Ctx!AddContext
<1>3. [path |-> p, entered |-> now + 1, accessed |-> now + 1, old |-> FALSE] \in ItemSet
    BY <1>1
<1>4. [held[i] EXCEPT !.accessed = now + 1, !.old = FALSE] \in ItemSet
    <2>1. held[i] \in ItemSet /\ now + 1 \in Nat
        BY <1>1
    <2> QED BY <2>1, AccessedItem
<1>5. held' \in [Items -> ItemSet]
    <2> DEFINE new == IF held[i] = Ctx!NoItem THEN [path |-> p, entered |-> now + 1, accessed |-> now + 1, old |-> FALSE]
                      ELSE [held[i] EXCEPT !.accessed = now + 1, !.old = FALSE]
    <2>1. new \in ItemSet
        BY <1>3, <1>4
    <2>2. held' = [held EXCEPT ![i] = new]
        BY DEF Ctx!AddContext
    <2> HIDE DEF ItemSet, new
    <2> QED BY <1>1, <2>1, <2>2
<1> QED BY <1>1, <1>2, <1>5, WindowRenewed

\* What is left is weighed again, whatever is dropped.
LEMMA WindowDropped ==
    ASSUME Ctx!WindowInv, NEW S \in SUBSET Items, Ctx!Drop(S)
    PROVE  Ctx!WindowInv'
<1> DEFINE ItemSet == [path : Ctx!SourcePaths \cup {Ctx!NoPath}, entered : Nat, accessed : Nat, old : BOOLEAN]
<1>1. held \in [Items -> ItemSet] /\ now \in Nat /\ maxTokens \in Limits
    BY DEF Ctx!WindowInv
<1>2. now' \in Nat /\ maxTokens' = maxTokens /\ Ctx!updateWindow(held', maxTokens)
    BY <1>1 DEF Ctx!Drop
<1>3. Ctx!NoItem \in ItemSet
    BY DEF Ctx!NoItem
<1>4. held' \in [Items -> ItemSet]
    <2> HIDE DEF ItemSet
    <2> QED BY <1>1, <1>3 DEF Ctx!Drop
<1> QED BY <1>1, <1>2, <1>4, WindowRenewed

\* A new limit: the window is made anew, or was within it.
LEMMA WindowLimited ==
    ASSUME Ctx!WindowInv, NEW n \in Limits, Ctx!UpdateMaxTokens(n)
    PROVE  Ctx!WindowInv'
<1>1. /\ held' = held /\ now' = now /\ maxTokens' = n
      /\ now \in Nat /\ maxTokens \in Nat /\ n \in Nat
    BY ToolsAssumption DEF Ctx!UpdateMaxTokens, Ctx!WindowInv, Ctx!ContextAssumption
<1>2. CASE window.total > n
    <2>1. Ctx!updateWindow(held', maxTokens')
        BY <1>1, <1>2 DEF Ctx!UpdateMaxTokens
    <2> QED BY <1>1, <2>1, WindowRenewed DEF Ctx!WindowInv
<1>3. CASE ~(window.total > n)
    <2>1. window' = window
        BY <1>3 DEF Ctx!UpdateMaxTokens
    <2>2. window.total <= n
        <3>1. window.total \in Nat
            <4>1. window.items \in SUBSET Items
                BY DEF Ctx!WindowInv, Ctx!WindowIsSound, Ctx!All
            <4>2. window.total = Ctx!TokensIn(window.items)
                BY DEF Ctx!WindowInv, Ctx!WindowIsSound
            <4> QED BY <4>1, <4>2, TokensFinite, FS_CardinalityType, CtxFinite DEF Ctx!TokensIn
        <3> QED BY <1>1, <1>3, <3>1
    <2> QED BY <1>1, <2>1, <2>2 DEF Ctx!WindowInv, Ctx!WindowIsSound
<1> QED BY <1>2, <1>3

\* Every operation of the context manager.
LEMMA WindowStep ==
    ASSUME Ctx!WindowInv, Ctx!Next
    PROVE  Ctx!WindowInv'
<1>1. ASSUME NEW i \in Items, NEW p \in Ctx!SourcePaths, Ctx!AddContext(i, p) PROVE Ctx!WindowInv'
    BY <1>1, WindowAdded
<1>2. ASSUME NEW i \in Items, Ctx!GetContext(i) \/ Ctx!RemoveContext(i) \/ Ctx!Age(i) PROVE Ctx!WindowInv'
    <2>1. Ctx!Drop({i}) => Ctx!WindowInv'
        BY WindowDropped
    <2> QED BY <1>2, <2>1, WindowTouched DEF Ctx!RemoveContext
<1>3. ASSUME NEW p \in Ctx!SourcePaths, Ctx!RemoveContextByFile(p) \/ Ctx!UpdateFilePath(p, "q") PROVE Ctx!WindowInv'
    <2>1. Ctx!Drop({i \in Items : held[i].path = p}) => Ctx!WindowInv'
        BY WindowDropped
    <2>2. Ctx!UpdateFilePath(p, "q") => Ctx!WindowInv'
        BY WindowRenamed, PathsNamed
    <2> QED BY <1>3, <2>1, <2>2 DEF Ctx!RemoveContextByFile
<1>4. Ctx!CleanupExpired => Ctx!WindowInv'
    <2>1. Ctx!Drop({i \in Items : held[i].old}) => Ctx!WindowInv'
        BY WindowDropped
    <2> QED BY <2>1 DEF Ctx!CleanupExpired
<1>5. ASSUME NEW n \in Limits, Ctx!UpdateMaxTokens(n) PROVE Ctx!WindowInv'
    BY <1>5, WindowLimited
<1> QED BY <1>1, <1>2, <1>3, <1>4, <1>5 DEF Ctx!Next

-----------------------------------------------------------------------------
(* Step lists *)

\* The operators of the instance are those of GraphProofs.
LEMMA GraNames == \A s : Gra!NamesOf(s) = NamesOf(s)
BY DEF Gra!NamesOf, NamesOf

\* (Their cardinalities,
LEMMA GraCardinality == \A S : Gra!Cardinality(S) = Cardinality(S)
BY DEF Gra!Cardinality, Cardinality, Gra!IsFiniteSet, IsFiniteSet

\* their edges,
LEMMA GraEdges == \A s, M, n : Gra!EdgeSet(s, M, n) = EdgeSet(s, M, n) /\ Gra!Edges(s, M, n) = Edges(s, M, n)
BY DEF Gra!Edges, Edges, Gra!EdgeSet, EdgeSet, Gra!Cardinality, Cardinality

\* their levels,
LEMMA GraLevels == \A s : Gra!Levels(s) = Levels(s)
<1>1. \A s : Gra!FirstRound(s) = FirstRound(s)
    BY GraEdges, GraNames DEF Gra!FirstRound, FirstRound, Gra!InDegree, InDegree
<1>2. \A s, r : Gra!NextRound(s, r) = NextRound(s, r)
    BY GraEdges, GraNames DEF Gra!NextRound, NextRound, Gra!Released, Released
<1>3. \A s : Gra!Rounds(s) = Rounds(s)
    BY <1>1, <1>2 DEF Gra!Rounds, Rounds
<1>4. \A r : Gra!Taken(r) = Taken(r)
    BY DEF Gra!Taken, Taken
<1>5. QED
    BY <1>3, <1>4 DEF Gra!Levels, Levels

\* and their sort.)
LEMMA GraSort ==
    \A s : /\ Gra!buildDependencyGraph(s) = buildDependencyGraph(s)
           /\ Gra!MissingDependency(s) <=> MissingDependency(s)
           /\ Gra!ValidSteps(s) <=> ValidSteps(s)
<1>1. \A s : Gra!MissingDependency(s) <=> MissingDependency(s)
    BY DEF Gra!MissingDependency, MissingDependency, Gra!NamesOf, NamesOf
<1>2. \A v : Gra!TotalSteps(v) = TotalSteps(v)
    BY GraCardinality DEF Gra!TotalSteps, TotalSteps
<1>3. \A s : Gra!ValidSteps(s) <=> ValidSteps(s)
    BY DEF Gra!ValidSteps, ValidSteps
<1>4. QED
    BY <1>1, <1>2, <1>3, GraLevels DEF Gra!buildDependencyGraph, buildDependencyGraph

\* A list that is given to the engine, and what came of it.
GraphInv == /\ IsStepList(steps)
            /\ result \in {Gra!NoResult, buildDependencyGraph(steps)}

\* Every list that may be given is a list of steps.
LEMMA GivenLists == \A s \in Gra!StepLists : IsStepList(s)
<1> SUFFICES ASSUME NEW s \in Gra!StepLists PROVE IsStepList(s)
    OBVIOUS
<1>1. Gra!DependencyLists \subseteq Seq(StepNames)
    BY ToolsAssumption DEF Gra!DependencyLists, ToolsAssumption
<1>2. [name : StepNames, dependsOn : Gra!DependencyLists] \subseteq [name : StepNames, dependsOn : Seq(StepNames)]
    BY <1>1
<1> DEFINE R == [name : StepNames, dependsOn : Gra!DependencyLists]
           Q == [name : StepNames, dependsOn : Seq(StepNames)]
<1>3. PICK k \in 0..MaxSteps : s \in [1..k -> R]
    BY DEF Gra!StepLists
<1>4. s \in Seq(Q)
    <2> R \subseteq Q /\ k \in Nat
        BY <1>2, ToolsAssumption DEF ToolsAssumption
    <2> HIDE DEF R, Q
    <2> QED BY <1>3
<1>5. QED
    BY <1>4 DEF IsStepList

\* Nothing was sorted at first.
LEMMA GraphInit == Init => GraphInv
<1> SUFFICES ASSUME Init PROVE GraphInv
    OBVIOUS
<1>1. CASE part = "graph"
    BY <1>1, GivenLists DEF Init, Gra!Init, GraphInv
<1>2. CASE part # "graph"
    <2>1. steps = <<>> /\ result = Gra!NoResult
        BY <1>2 DEF Init
    <2>2. <<>> \in Seq([name : {}, dependsOn : Seq({})])
        OBVIOUS
    <2>3. QED
        BY <2>1, <2>2 DEF GraphInv, IsStepList
<1>3. QED
    BY <1>1, <1>2

\* The sort accepts the lists of distinct names whose dependencies are known
\* and not circular, and no other.
LEMMA SortAccepts == GraphInv => Gra!AcceptsExactlyTheDAGs
<1> SUFFICES ASSUME GraphInv, result # Gra!NoResult
             PROVE  result.ok <=> Gra!UniqueNames /\ ~Gra!MissingDependency(steps) /\ ~Gra!Cyclic
    BY DEF Gra!AcceptsExactlyTheDAGs
<1>1. result = buildDependencyGraph(steps) /\ IsStepList(steps)
    BY DEF GraphInv
<1>2. Gra!UniqueNames <=> Cardinality(NamesOf(steps)) = Len(steps)
    BY GraCardinality, GraNames DEF Gra!UniqueNames
<1>3. Gra!Cyclic <=> \E S \in (SUBSET NamesOf(steps)) \ {{}} : Circular(steps, S)
    BY GraNames, GraEdges DEF Gra!Cyclic, Gra!DependsOn, Circular
<1>4. Gra!MissingDependency(steps) <=> MissingDependency(steps)
    BY GraSort
<1>5. result.ok <=> ~MissingDependency(steps) /\ TotalSteps(Levels(steps)) = Len(steps)
    BY <1>1 DEF buildDependencyGraph
<1>6. QED
    BY <1>1, <1>2, <1>3, <1>4, <1>5, TotalIsAll, AllSorted

\* The level of a step is the length of the longest chain from it down.
LEMMA SortLevels == GraphInv => Gra!LevelIsLongestChain
<1> SUFFICES ASSUME GraphInv, result.ok, NEW k \in DOMAIN result.levels, NEW n \in result.levels[k]
             PROVE  Gra!Chain(n, k) /\ ~Gra!Chain(n, k + 1)
    BY DEF Gra!LevelIsLongestChain
<1>1. IsStepList(steps) /\ k \in DOMAIN Levels(steps) /\ n \in Levels(steps)[k]
    <2>1. ~Gra!NoResult.ok
        BY DEF Gra!NoResult
    <2>2. QED
        BY <2>1 DEF GraphInv, buildDependencyGraph
<1>2. \A m, l : Gra!Chain(m, l) <=> Chained(steps, m, l)
    BY GraNames, GraEdges DEF Gra!Chain, Gra!DependsOn, Chained
<1>3. QED
    BY <1>1, <1>2, LongChain, NoLongerChain

\* What the validation accepts is sorted, but for a step that lists itself.
LEMMA SortRunsValid == GraphInv => Gra!ValidatedDefinitionRuns
<1> SUFFICES ASSUME GraphInv, result # Gra!NoResult, Gra!ValidSteps(steps),
                    \A n \in Gra!NamesOf(steps) : ~Gra!DependsOn(n, n)
             PROVE  result.ok
    BY DEF Gra!ValidatedDefinitionRuns
<1>1. result = buildDependencyGraph(steps) /\ IsStepList(steps)
    BY DEF GraphInv
<1>2. ValidSteps(steps) /\ \A n \in NamesOf(steps) : EdgeSet(steps, {n}, n) = {}
    BY GraSort, GraNames, GraEdges DEF Gra!DependsOn
<1>3. /\ Cardinality(NamesOf(steps)) = Len(steps) /\ ~MissingDependency(steps)
      /\ ~ \E S \in (SUBSET NamesOf(steps)) \ {{}} : Circular(steps, S)
    BY <1>1, <1>2, ValidSorted
<1>4. TotalSteps(Levels(steps)) = Len(steps)
    BY <1>1, <1>3, TotalIsAll, AllSorted
<1>5. QED
    BY <1>1, <1>3, <1>4 DEF buildDependencyGraph

-----------------------------------------------------------------------------
(* Templates *)

\* What is asked of a template: that of the steps made from it, with its own
\* parameters for placeholders.
FineTemplate(T) ==
    /\ \E n \in Nat : DOMAIN T.steps = 1..n
    /\ \A i \in DOMAIN T.steps :
          /\ T.steps[i] = Tpl!Step(T.steps[i].name, T.steps[i].deps, T.steps[i].reads)
          /\ \A j \in 1..(i - 1) : T.steps[j].name # T.steps[i].name
          /\ \A d \in T.steps[i].deps : \E j \in 1..(i - 1) : T.steps[j].name = d
          /\ \A r \in T.steps[i].reads :
                /\ r.kind = "step" => Tpl!WaitsFor(T.steps, i, r.of)
                /\ r.kind = "param" => r = Tpl!Param(r.of) /\ r.of \in T.required \cup T.defaults

\* A step waits for what it depends on,
LEMMA WaitsDirectly ==
    ASSUME NEW s, NEW i \in DOMAIN s, NEW d \in s[i].deps
    PROVE  Tpl!WaitsFor(s, i, d)
BY DEF Tpl!WaitsFor

\* and for what these depend on.
LEMMA WaitsThrough ==
    ASSUME NEW s, NEW i \in DOMAIN s, NEW j \in DOMAIN s, Tpl!WaitsFor(s, i, s[j].name), NEW d \in s[j].deps
    PROVE  Tpl!WaitsFor(s, i, d)
BY DEF Tpl!WaitsFor, Tpl!Closed

\* A step is what it has.
LEMMA StepShape ==
    \A n, d, r : Tpl!Step(n, d, r) = Tpl!Step(Tpl!Step(n, d, r).name, Tpl!Step(n, d, r).deps, Tpl!Step(n, d, r).reads)
BY DEF Tpl!Step

\* Monitoring of health.
LEMMA HealthFine == FineTemplate(Tpl!createHealthMonitoringTemplate)
<1> DEFINE T == Tpl!createHealthMonitoringTemplate
           s == T.steps
<1>0. DOMAIN s = 1..3
    BY DEF Tpl!createHealthMonitoringTemplate
<1>1. \A i \in DOMAIN s : s[i] = Tpl!Step(s[i].name, s[i].deps, s[i].reads)
    BY <1>0, StepShape DEF Tpl!createHealthMonitoringTemplate
<1>2. /\ s[1].name = "check-glucose" /\ s[1].deps = {}
      /\ s[2].name = "analyze-trend" /\ s[2].deps = {"check-glucose"}
      /\ s[3].name = "send-alert" /\ s[3].deps = {"analyze-trend"}
    BY DEF Tpl!createHealthMonitoringTemplate, Tpl!Step
<1>3. ASSUME NEW i \in 1..3, NEW r \in s[i].reads
      PROVE  /\ r.kind = "step" => Tpl!WaitsFor(s, i, r.of)
             /\ r.kind = "param" => r = Tpl!Param(r.of) /\ r.of \in T.required \cup T.defaults
    BY <1>0, <1>1, <1>2, <1>3, WaitsDirectly DEF Tpl!createHealthMonitoringTemplate, Tpl!Step, Tpl!Param, Tpl!Output
<1>4. QED
    BY <1>0, <1>1, <1>2, <1>3 DEF FineTemplate

\* Backups: the report waits for the backup through the clean-up and the upload.
LEMMA BackupFine == FineTemplate(Tpl!createDataBackupTemplate)
<1> DEFINE T == Tpl!createDataBackupTemplate
           s == T.steps
<1>0. DOMAIN s = 1..4
    BY DEF Tpl!createDataBackupTemplate
<1>1. \A i \in DOMAIN s : s[i] = Tpl!Step(s[i].name, s[i].deps, s[i].reads)
    BY <1>0, StepShape DEF Tpl!createDataBackupTemplate
<1>2. /\ s[1].name = "create-backup" /\ s[1].deps = {}
      /\ s[2].name = "upload-backup" /\ s[2].deps = {"create-backup"}
      /\ s[3].name = "cleanup-old-backups" /\ s[3].deps = {"upload-backup"}
      /\ s[4].name = "send-report" /\ s[4].deps = {"cleanup-old-backups"}
    BY DEF Tpl!createDataBackupTemplate, Tpl!Step
<1>3. Tpl!WaitsFor(s, 4, "upload-backup") /\ Tpl!WaitsFor(s, 4, "create-backup")
    <2> HIDE DEF T, s
    <2>1. Tpl!WaitsFor(s, 4, "cleanup-old-backups")
        BY <1>0, <1>1, <1>2, WaitsDirectly
    <2>2. Tpl!WaitsFor(s, 4, "upload-backup")
        BY <1>0, <1>1, <1>2, <2>1, WaitsThrough
    <2>3. Tpl!WaitsFor(s, 4, "create-backup")
        BY <1>0, <1>1, <1>2, <2>2, WaitsThrough
    <2>4. QED
        BY <2>2, <2>3
<1>4. ASSUME NEW i \in 1..4, NEW r \in s[i].reads
      PROVE  /\ r.kind = "step" => Tpl!WaitsFor(s, i, r.of)
             /\ r.kind = "param" => r = Tpl!Param(r.of) /\ r.of \in T.required \cup T.defaults
    BY <1>0, <1>1, <1>2, <1>3, <1>4, WaitsDirectly DEF Tpl!createDataBackupTemplate, Tpl!Step, Tpl!Param, Tpl!Output
<1>5. QED
    BY <1>0, <1>1, <1>2, <1>4 DEF FineTemplate

\* Reports.
LEMMA ReportFine == FineTemplate(Tpl!createReportGenerationTemplate)
<1> DEFINE T == Tpl!createReportGenerationTemplate
           s == T.steps
<1>0. DOMAIN s = 1..3
    BY DEF Tpl!createReportGenerationTemplate
<1>1. \A i \in DOMAIN s : s[i] = Tpl!Step(s[i].name, s[i].deps, s[i].reads)
    BY <1>0, StepShape DEF Tpl!createReportGenerationTemplate
<1>2. /\ s[1].name = "collect-data" /\ s[1].deps = {}
      /\ s[2].name = "generate-report" /\ s[2].deps = {"collect-data"}
      /\ s[3].name = "distribute-report" /\ s[3].deps = {"generate-report"}
    BY DEF Tpl!createReportGenerationTemplate, Tpl!Step
<1>3. ASSUME NEW i \in 1..3, NEW r \in s[i].reads
      PROVE  /\ r.kind = "step" => Tpl!WaitsFor(s, i, r.of)
             /\ r.kind = "param" => r = Tpl!Param(r.of) /\ r.of \in T.required \cup T.defaults
    BY <1>0, <1>1, <1>2, <1>3, WaitsDirectly DEF Tpl!createReportGenerationTemplate, Tpl!Step, Tpl!Param, Tpl!Output, Tpl!Filtered
<1>4. QED
    BY <1>0, <1>1, <1>2, <1>3 DEF FineTemplate

\* Maintenance of the system: the report waits for the check through all others.
LEMMA SystemFine == FineTemplate(Tpl!createSystemMaintenanceTemplate)
<1> DEFINE T == Tpl!createSystemMaintenanceTemplate
           s == T.steps
<1>0. DOMAIN s = 1..5
    BY DEF Tpl!createSystemMaintenanceTemplate
<1>1. \A i \in DOMAIN s : s[i] = Tpl!Step(s[i].name, s[i].deps, s[i].reads)
    BY <1>0, StepShape DEF Tpl!createSystemMaintenanceTemplate
<1>2. /\ s[1].name = "system-health-check" /\ s[1].deps = {}
      /\ s[2].name = "cleanup-temp-files" /\ s[2].deps = {"system-health-check"}
      /\ s[3].name = "cleanup-logs" /\ s[3].deps = {"cleanup-temp-files"}
      /\ s[4].name = "check-disk-usage" /\ s[4].deps = {"cleanup-logs"}
      /\ s[5].name = "send-maintenance-report" /\ s[5].deps = {"check-disk-usage"}
    BY DEF Tpl!createSystemMaintenanceTemplate, Tpl!Step
<1>3. Tpl!WaitsFor(s, 5, "cleanup-logs") /\ Tpl!WaitsFor(s, 5, "cleanup-temp-files") /\ Tpl!WaitsFor(s, 5, "system-health-check")
    <2> HIDE DEF T, s
    <2>1. Tpl!WaitsFor(s, 5, "check-disk-usage")
        BY <1>0, <1>1, <1>2, WaitsDirectly
    <2>2. Tpl!WaitsFor(s, 5, "cleanup-logs")
        BY <1>0, <1>1, <1>2, <2>1, WaitsThrough
    <2>3. Tpl!WaitsFor(s, 5, "cleanup-temp-files")
        BY <1>0, <1>1, <1>2, <2>2, WaitsThrough
    <2>4. Tpl!WaitsFor(s, 5, "system-health-check")
        BY <1>0, <1>1, <1>2, <2>3, WaitsThrough
    <2>5. QED
        BY <2>2, <2>3, <2>4
<1>4. ASSUME NEW i \in 1..5, NEW r \in s[i].reads
      PROVE  /\ r.kind = "step" => Tpl!WaitsFor(s, i, r.of)
             /\ r.kind = "param" => r = Tpl!Param(r.of) /\ r.of \in T.required \cup T.defaults
    BY <1>0, <1>1, <1>2, <1>3, <1>4, WaitsDirectly DEF Tpl!createSystemMaintenanceTemplate, Tpl!Step, Tpl!Param, Tpl!Output
<1>5. QED
    BY <1>0, <1>1, <1>2, <1>4 DEF FineTemplate

\* Quality of code: the report waits for three steps side by side.
LEMMA QualityFine == FineTemplate(Tpl!createCodeQualityTemplate)
<1> DEFINE T == Tpl!createCodeQualityTemplate
           s == T.steps
<1>0. DOMAIN s = 1..6
    BY DEF Tpl!createCodeQualityTemplate
<1>1. \A i \in DOMAIN s : s[i] = Tpl!Step(s[i].name, s[i].deps, s[i].reads)
    BY <1>0, StepShape DEF Tpl!createCodeQualityTemplate
<1>2. /\ s[1].name = "checkout-code" /\ s[1].deps = {}
      /\ s[2].name = "run-linter" /\ s[2].deps = {"checkout-code"}
      /\ s[3].name = "run-tests" /\ s[3].deps = {"checkout-code"}
      /\ s[4].name = "security-scan" /\ s[4].deps = {"checkout-code"}
      /\ s[5].name = "generate-quality-report" /\ s[5].deps = {"run-linter", "run-tests", "security-scan"}
      /\ s[6].name = "send-quality-report" /\ s[6].deps = {"generate-quality-report"}
    BY DEF Tpl!createCodeQualityTemplate, Tpl!Step
<1>3. ASSUME NEW i \in 1..6, NEW r \in s[i].reads
      PROVE  /\ r.kind = "step" => Tpl!WaitsFor(s, i, r.of)
             /\ r.kind = "param" => r = Tpl!Param(r.of) /\ r.of \in T.required \cup T.defaults
    BY <1>0, <1>1, <1>2, <1>3, WaitsDirectly DEF Tpl!createCodeQualityTemplate, Tpl!Step, Tpl!Param, Tpl!Output
<1>4. QED
    BY <1>0, <1>1, <1>2, <1>3 DEF FineTemplate

\* Maintenance of a database.
LEMMA DatabaseFine == FineTemplate(Tpl!createDatabaseMaintenanceTemplate)
<1> DEFINE T == Tpl!createDatabaseMaintenanceTemplate
           s == T.steps
<1>0. DOMAIN s = 1..5
    BY DEF Tpl!createDatabaseMaintenanceTemplate
<1>1. \A i \in DOMAIN s : s[i] = Tpl!Step(s[i].name, s[i].deps, s[i].reads)
    BY <1>0, StepShape DEF Tpl!createDatabaseMaintenanceTemplate
<1>2. /\ s[1].name = "database-health-check" /\ s[1].deps = {}
      /\ s[2].name = "create-backup" /\ s[2].deps = {"database-health-check"}
      /\ s[3].name = "optimize-tables" /\ s[3].deps = {"create-backup"}
      /\ s[4].name = "cleanup-old-backups" /\ s[4].deps = {"optimize-tables"}
      /\ s[5].name = "send-maintenance-report" /\ s[5].deps = {"cleanup-old-backups"}
    BY DEF Tpl!createDatabaseMaintenanceTemplate, Tpl!Step
<1>3. Tpl!WaitsFor(s, 4, "create-backup")
    <2> HIDE DEF T, s
    <2>1. Tpl!WaitsFor(s, 4, "optimize-tables")
        BY <1>0, <1>1, <1>2, WaitsDirectly
    <2>2. Tpl!WaitsFor(s, 4, "create-backup")
        BY <1>0, <1>1, <1>2, <2>1, WaitsThrough
    <2>3. QED
        BY <2>2
<1>4. Tpl!WaitsFor(s, 5, "optimize-tables") /\ Tpl!WaitsFor(s, 5, "create-backup") /\ Tpl!WaitsFor(s, 5, "database-health-check")
    <2> HIDE DEF T, s
    <2>1. Tpl!WaitsFor(s, 5, "cleanup-old-backups")
        BY <1>0, <1>1, <1>2, WaitsDirectly
    <2>2. Tpl!WaitsFor(s, 5, "optimize-tables")
        BY <1>0, <1>1, <1>2, <2>1, WaitsThrough
    <2>3. Tpl!WaitsFor(s, 5, "create-backup")
        BY <1>0, <1>1, <1>2, <2>2, WaitsThrough
    <2>4. Tpl!WaitsFor(s, 5, "database-health-check")
        BY <1>0, <1>1, <1>2, <2>3, WaitsThrough
    <2>5. QED
        BY <2>2, <2>3, <2>4
<1>5. ASSUME NEW i \in 1..5, NEW r \in s[i].reads
      PROVE  /\ r.kind = "step" => Tpl!WaitsFor(s, i, r.of)
             /\ r.kind = "param" => r = Tpl!Param(r.of) /\ r.of \in T.required \cup T.defaults
    BY <1>0, <1>1, <1>2, <1>3, <1>4, <1>5, WaitsDirectly DEF Tpl!createDatabaseMaintenanceTemplate, Tpl!Step, Tpl!Param, Tpl!Output
<1>6. QED
    BY <1>0, <1>1, <1>2, <1>5 DEF FineTemplate

\* The steps made from a template keep names and dependencies, and what is left
\* of their placeholders is no parameter: these are required or have a default.
LEMMA MadeSound ==
    ASSUME NEW T, FineTemplate(T), NEW given, T.required \subseteq given
    PROVE  Tpl!SoundSteps(Tpl!applyParameterSubstitutions(T, given))
<1> DEFINE s == T.steps
           m == Tpl!applyParameterSubstitutions(T, given)
<1>1. DOMAIN m = DOMAIN s
    BY DEF Tpl!applyParameterSubstitutions
<1>2. ASSUME NEW i \in DOMAIN s
      PROVE  /\ m[i].name = s[i].name /\ m[i].deps = s[i].deps
             /\ m[i].reads = s[i].reads \ {Tpl!Param(p) : p \in T.defaults \cup given}
    <2>1. m[i] = [s[i] EXCEPT !.reads = Tpl!substituteValue(s[i].reads, T.defaults \cup given)]
        BY DEF Tpl!applyParameterSubstitutions
    <2>2. s[i] = Tpl!Step(s[i].name, s[i].deps, s[i].reads)
        BY DEF FineTemplate
    <2>3. ASSUME NEW t, NEW a, NEW b, NEW c, NEW d, t = Tpl!Step(a, b, c)
          PROVE  [t EXCEPT !.reads = d] = Tpl!Step(a, b, d)
        BY <2>3 DEF Tpl!Step
    <2>4. m[i] = Tpl!Step(s[i].name, s[i].deps, Tpl!substituteValue(s[i].reads, T.defaults \cup given))
        <3> HIDE DEF m
        <3> QED BY <2>1, <2>2, <2>3
    <2>5. QED
        BY <2>4 DEF Tpl!Step, Tpl!substituteValue
<1> HIDE DEF m
<1>3. \A i \in DOMAIN s : \A n : Tpl!WaitsFor(s, i, n) => Tpl!WaitsFor(m, i, n)
    BY <1>1, <1>2 DEF Tpl!WaitsFor, Tpl!Closed
<1>4. ASSUME NEW i \in DOMAIN m, NEW r \in m[i].reads
      PROVE  (r.kind = "step" => Tpl!WaitsFor(m, i, r.of)) /\ r.kind # "param"
    <2>1. i \in DOMAIN s /\ r \in s[i].reads /\ r \notin {Tpl!Param(p) : p \in T.defaults \cup given}
        BY <1>1, <1>2
    <2>2. r.kind = "step" => Tpl!WaitsFor(m, i, r.of)
        BY <1>3, <2>1 DEF FineTemplate
    <2>3. r.kind # "param"
        BY <2>1 DEF FineTemplate
    <2>4. QED
        BY <2>2, <2>3
<1>5. ASSUME NEW i \in DOMAIN m
      PROVE  /\ \A j \in 1..(i - 1) : m[j].name # m[i].name
             /\ \A d \in m[i].deps : \E j \in 1..(i - 1) : m[j].name = d
    BY <1>1, <1>2 DEF FineTemplate
<1>6. Tpl!SoundSteps(m)
    BY <1>4, <1>5 DEF Tpl!SoundSteps
<1>7. QED
    BY <1>6 DEF m

\* Every built-in template is fine.
LEMMA TemplatesFine == \A t \in Tpl!TemplateNames : FineTemplate(Tpl!registerBuiltinTemplates[t])
<1> SUFFICES ASSUME NEW t \in Tpl!TemplateNames PROVE FineTemplate(Tpl!registerBuiltinTemplates[t])
    OBVIOUS
<1>1. Tpl!registerBuiltinTemplates[t] \in
          {Tpl!createHealthMonitoringTemplate, Tpl!createDataBackupTemplate, Tpl!createReportGenerationTemplate,
           Tpl!createSystemMaintenanceTemplate, Tpl!createCodeQualityTemplate, Tpl!createDatabaseMaintenanceTemplate}
    BY DEF Tpl!registerBuiltinTemplates, Tpl!TemplateNames
<1>2. QED
    BY <1>1, HealthFine, BackupFine, ReportFine, SystemFine, QualityFine, DatabaseFine

\* The steps that can be in the resource: none, of a workflow from a file, or what
\* a template makes of parameters with the required ones among them.
Options == [t \in Tpl!TemplateNames |->
    LET T == Tpl!registerBuiltinTemplates[t]
    IN  {g \in SUBSET (T.required \cup T.defaults \cup {"schedule", "timezone"}) : T.required \subseteq g}]

StepsMade == {<<>>} \cup UNION {{Tpl!applyParameterSubstitutions(Tpl!registerBuiltinTemplates[t], g) :
                                    g \in Options[t]} : t \in Tpl!TemplateNames}

Workflow == [name : Titles \cup {Tpl!NoName}, enabled : BOOLEAN, steps : StepsMade,
             overrides : SUBSET {"schedule", "timezone"}]

TemplatesInv == workflows \in Seq(Workflow)

\* They are sound.
LEMMA MadeStepsSound == \A s \in StepsMade : Tpl!SoundSteps(s)
<1> SUFFICES ASSUME NEW s \in StepsMade PROVE Tpl!SoundSteps(s)
    OBVIOUS
<1>1. CASE s = <<>>
    BY <1>1 DEF Tpl!SoundSteps
<1>2. ASSUME NEW t \in Tpl!TemplateNames, NEW g \in Options[t],
             s = Tpl!applyParameterSubstitutions(Tpl!registerBuiltinTemplates[t], g)
      PROVE  Tpl!SoundSteps(s)
    BY <1>2, TemplatesFine, MadeSound DEF Options
<1>3. QED
    BY <1>1, <1>2 DEF StepsMade

\* The invariant says it of the workflows.
LEMMA TemplatesSound == TemplatesInv => Tpl!TemplatesAreSound
<1> SUFFICES ASSUME TemplatesInv, NEW i \in DOMAIN workflows PROVE Tpl!SoundSteps(workflows[i].steps)
    BY DEF Tpl!TemplatesAreSound
<1>1. workflows[i] \in Workflow
    BY LenProperties, ElementOfSeq DEF TemplatesInv
<1>2. workflows[i].steps \in StepsMade
    BY <1>1 DEF Workflow
<1>3. QED
    BY <1>2, MadeStepsSound

\* A workflow is added at the end.
LEMMA WorkflowAdded ==
    ASSUME TemplatesInv, NEW w \in Workflow, Tpl!AddWorkflow(w)
    PROVE  TemplatesInv'
BY AppendProperties DEF TemplatesInv, Tpl!AddWorkflow

\* A command keeps the invariant.
LEMMA TemplatesStep == TemplatesInv /\ Tpl!Next => TemplatesInv'
<1> SUFFICES ASSUME TemplatesInv, Tpl!Next PROVE TemplatesInv'
    OBVIOUS
<1>1. ASSUME NEW name \in Titles, NEW t \in Tpl!TemplateNames,
             NEW given \in SUBSET (Tpl!registerBuiltinTemplates[t].required
                                   \cup Tpl!registerBuiltinTemplates[t].defaults \cup {"schedule", "timezone"}),
             Tpl!createWorkflowFromTemplate(name, t, given)
      PROVE  TemplatesInv'
    <2> DEFINE T == Tpl!registerBuiltinTemplates[t]
               made == Tpl!applyParameterSubstitutions(T, given)
    <2>1. given \in Options[t]
        BY <1>1 DEF Options, Tpl!createWorkflowFromTemplate
    <2>2. made \in StepsMade
        BY <2>1 DEF StepsMade
    <2>3. Tpl!CreateWorkflowFromTemplate(T, name, given) =
              [name |-> Tpl!NoName, enabled |-> TRUE, steps |-> made, overrides |-> given \cap {"schedule", "timezone"}]
        BY DEF Tpl!CreateWorkflowFromTemplate
    <2> HIDE DEF made
    <2>4. Tpl!CreateWorkflowFromTemplate(T, name, given) \in Workflow
        BY <2>2, <2>3 DEF Workflow
    <2>5. Tpl!AddWorkflow(Tpl!CreateWorkflowFromTemplate(T, name, given))
        BY <1>1 DEF Tpl!createWorkflowFromTemplate
    <2>6. QED
        BY <2>4, <2>5, WorkflowAdded
<1>2. ASSUME NEW name \in Titles, Tpl!createWorkflowFromFile(name) PROVE TemplatesInv'
    <2>1. [name |-> name, enabled |-> TRUE, steps |-> <<>>, overrides |-> {}] \in Workflow
        BY DEF Workflow, StepsMade
    <2>2. QED
        BY <1>2, <2>1, WorkflowAdded DEF Tpl!createWorkflowFromFile
<1>3. ASSUME NEW name \in Titles, Tpl!DeleteWorkflow(name) PROVE TemplatesInv'
    <2>1. PICK i \in DOMAIN workflows : workflows' = SubSeq(workflows, 1, i - 1) \o SubSeq(workflows, i + 1, Len(workflows))
        BY <1>3 DEF Tpl!DeleteWorkflow, Tpl!Find, Tpl!RemoveAt
    <2>2. /\ DOMAIN workflows = 1..Len(workflows) /\ Len(workflows) \in Nat
          /\ \A j \in 1..Len(workflows) : workflows[j] \in Workflow
        BY LenProperties, ElementOfSeq DEF TemplatesInv
    <2>3. SubSeq(workflows, 1, i - 1) \in Seq(Workflow)
        <3>1. i - 1 \in Int /\ \A j \in 1..(i - 1) : workflows[j] \in Workflow
            BY <2>2
        <3>2. QED
            BY <3>1, SubSeqProperties
    <2>4. SubSeq(workflows, i + 1, Len(workflows)) \in Seq(Workflow)
        <3>1. i + 1 \in Int /\ \A j \in (i + 1)..Len(workflows) : workflows[j] \in Workflow
            BY <2>2
        <3>2. QED
            BY <2>2, <3>1, SubSeqProperties
    <2>5. QED
        BY <2>1, <2>3, <2>4, ConcatProperties DEF TemplatesInv
<1>4. ASSUME NEW name \in Titles, NEW enabled \in BOOLEAN, Tpl!SetWorkflowEnabled(name, enabled) PROVE TemplatesInv'
    <2>1. PICK i \in DOMAIN workflows : workflows' = [workflows EXCEPT ![i].enabled = enabled]
        BY <1>4 DEF Tpl!SetWorkflowEnabled, Tpl!Find
    <2>2. i \in 1..Len(workflows) /\ workflows[i] \in Workflow
        BY LenProperties, ElementOfSeq DEF TemplatesInv
    <2>3. [workflows[i] EXCEPT !.enabled = enabled] \in Workflow
        BY <2>2 DEF Workflow
    <2>4. workflows' = [workflows EXCEPT ![i] = [workflows[i] EXCEPT !.enabled = enabled]]
        BY <2>1
    <2>5. QED
        BY <2>2, <2>3, <2>4, ExceptSeq DEF TemplatesInv
<1>5. DOMAIN Tpl!registerBuiltinTemplates = Tpl!TemplateNames
    BY DEF Tpl!registerBuiltinTemplates
<1>6. QED
    BY <1>1, <1>2, <1>3, <1>4, <1>5 DEF Tpl!Next

-----------------------------------------------------------------------------
(* The search for cycles *)

\* The dependencies of the servers of a file.
DepsOf == [Cfg!Servers -> Seq(Cfg!Servers \cup {Undefined})]

\* Their lists.
LEMMA DepsList ==
    ASSUME NEW deps \in DepsOf, NEW s \in Cfg!Servers
    PROVE  /\ Len(deps[s]) \in Nat /\ DOMAIN deps[s] = 1..Len(deps[s])
           /\ \A i \in DOMAIN deps[s] : deps[s][i] \in Cfg!Servers \cup {Undefined}
<1>1. deps[s] \in Seq(Cfg!Servers \cup {Undefined})
    BY DEF DepsOf
<1>2. QED
    BY <1>1, LenProperties, ElementOfSeq

\* A stack, and its last element.
LEMMA StackList ==
    ASSUME NEW deps, NEW q, Cfg!SearchType(deps, q)
    PROVE  /\ Len(q.stack) \in Nat /\ DOMAIN q.stack = 1..Len(q.stack)
           /\ \A i \in DOMAIN q.stack : q.stack[i] \in Cfg!Servers
           /\ q.stack # <<>> => /\ Len(q.stack) \in DOMAIN q.stack /\ Len(q.stack) # 0
                                /\ Cfg!Last(q.stack) = q.stack[Len(q.stack)] /\ Cfg!Last(q.stack) \in Cfg!Servers
           /\ q.stack = <<>> => Len(q.stack) = 0
<1> DEFINE stack == q.stack
<1>1. stack \in Seq(Cfg!Servers)
    BY DEF Cfg!SearchType
<1> HIDE DEF stack
<1>2. Len(stack) \in Nat /\ DOMAIN stack = 1..Len(stack) /\ \A i \in DOMAIN stack : stack[i] \in Cfg!Servers
    BY <1>1, LenProperties, ElementOfSeq
<1>3. (stack # <<>> => Len(stack) # 0) /\ (stack = <<>> => Len(stack) = 0)
    BY <1>1, EmptySeq
<1>4. Cfg!Last(stack) = stack[Len(stack)]
    BY DEF Cfg!Last
<1>5. QED
    BY <1>2, <1>3, <1>4 DEF stack

\* What the steps of a call change.
LEMMA SearchFields ==
    ASSUME NEW deps, NEW q, Cfg!SearchType(deps, q), NEW s \in Cfg!Servers
    PROVE  LET at == [q.at EXCEPT ![s] = q.at[s] + 1] IN
           /\ Cfg!Advance(q, s) = [at |-> at, stack |-> q.stack, cycles |-> q.cycles]
           /\ Cfg!Enter(q, s) = [at |-> at, stack |-> Append(q.stack, s), cycles |-> q.cycles]
           /\ Cfg!Return(q, s) = [at |-> at, stack |-> SubSeq(q.stack, 1, Len(q.stack) - 1), cycles |-> q.cycles]
<1>1. PICK a, b, c : q = [at |-> a, stack |-> b, cycles |-> c] /\ a = q.at /\ b = q.stack /\ c = q.cycles
    BY DEF Cfg!SearchType
<1>2. Cfg!Advance(q, s) = [at |-> [a EXCEPT ![s] = a[s] + 1], stack |-> b, cycles |-> c]
    <2>1. Cfg!Advance(q, s) = [q EXCEPT !.at = [a EXCEPT ![s] = a[s] + 1]]
        BY <1>1 DEF Cfg!Advance
    <2>2. \A v : [q EXCEPT !.at = v] = [at |-> v, stack |-> b, cycles |-> c]
        BY <1>1
    <2>3. QED
        BY <2>1, <2>2
<1>3. Cfg!Enter(q, s) = [at |-> [a EXCEPT ![s] = a[s] + 1], stack |-> Append(b, s), cycles |-> c]
    <2>1. PICK r : r = Cfg!Advance(q, s)
        OBVIOUS
    <2>2. Cfg!Enter(q, s) = [r EXCEPT !.stack = Append(r.stack, s)] /\ r.stack = b
        BY <1>2, <2>1 DEF Cfg!Enter
    <2>3. \A v : [r EXCEPT !.stack = v] = [at |-> [a EXCEPT ![s] = a[s] + 1], stack |-> v, cycles |-> c]
        BY <1>2, <2>1
    <2>4. QED
        BY <2>2, <2>3
<1>4. Cfg!Return(q, s) = [at |-> [a EXCEPT ![s] = a[s] + 1], stack |-> SubSeq(b, 1, Len(b) - 1), cycles |-> c]
    <2>1. PICK r : r = Cfg!Advance(q, s)
        OBVIOUS
    <2>2. Cfg!Return(q, s) = [r EXCEPT !.stack = SubSeq(r.stack, 1, Len(r.stack) - 1)] /\ r.stack = b
        BY <1>2, <2>1 DEF Cfg!Return, Cfg!Front
    <2>3. QED
        BY <1>2, <2>1, <2>2
<1>5. QED
    BY <1>1, <1>2, <1>3, <1>4

\* The invariant, but for the dependency d that the innermost call has come to.
ClosedBut(deps, q, d) ==
    q.cycles = {} =>
        /\ \A s \in Cfg!Servers, e \in Cfg!Servers : Cfg!Followed(deps, q, s, e) =>
               \/ Cfg!Black(deps, q, e)
               \/ \E i \in DOMAIN q.stack : i + 1 \in DOMAIN q.stack /\ q.stack[i] = s /\ q.stack[i + 1] = e
               \/ q.stack # <<>> /\ s = Cfg!Last(q.stack) /\ e = d
        /\ \A S \in SUBSET Cfg!IsBlack(deps, q) : Cfg!Circle(deps, S) => S = {}

\* The innermost call comes to its next dependency: the colours stay.
LEMMA SearchAdvanced ==
    ASSUME NEW deps \in DepsOf, NEW q, Cfg!SearchInv(deps, q), q.stack # <<>>,
           NEW s, s = Cfg!Last(q.stack), q.at[s] <= Len(deps[s]), NEW r, r = Cfg!Advance(q, s)
    PROVE  /\ Cfg!SearchType(deps, r) /\ Cfg!StackInv(deps, r) /\ Cfg!CyclesInv(deps, r)
           /\ q.at[s] \in DOMAIN deps[s] /\ ClosedBut(deps, r, deps[s][q.at[s]])
           /\ r.stack = q.stack /\ r.cycles = q.cycles
           /\ r.at = [q.at EXCEPT ![s] = q.at[s] + 1]
<1>1. Cfg!SearchType(deps, q) /\ Cfg!StackInv(deps, q) /\ Cfg!CyclesInv(deps, q) /\ Cfg!ClosedInv(deps, q)
    BY DEF Cfg!SearchInv
<1>2. /\ s \in Cfg!Servers /\ Len(q.stack) \in DOMAIN q.stack /\ q.stack[Len(q.stack)] = s
      /\ Len(deps[s]) \in Nat /\ DOMAIN deps[s] = 1..Len(deps[s])
    BY <1>1, StackList, DepsList
<1>3. r = [at |-> [q.at EXCEPT ![s] = q.at[s] + 1], stack |-> q.stack, cycles |-> q.cycles]
    BY <1>1, <1>2, SearchFields
<1>4. r.stack = q.stack /\ r.cycles = q.cycles /\ r.at = [q.at EXCEPT ![s] = q.at[s] + 1]
    BY <1>3
<1>5. q.at \in [Cfg!Servers -> Nat] /\ \A u \in Cfg!Servers : q.at[u] <= Len(deps[u]) + 2
    BY <1>1 DEF Cfg!SearchType
<1>6. q.at[s] # 0
    BY <1>1, <1>2 DEF Cfg!StackInv, Cfg!Gray, Cfg!White
<1>7. q.at[s] \in DOMAIN deps[s]
    BY <1>2, <1>5, <1>6
<1>8. r.at \in [Cfg!Servers -> Nat] /\ r.at[s] = q.at[s] + 1 /\ \A u \in Cfg!Servers \ {s} : r.at[u] = q.at[u]
    BY <1>2, <1>4, <1>5
<1>9. Cfg!SearchType(deps, r)
    <2>1. r = [at |-> r.at, stack |-> r.stack, cycles |-> r.cycles]
        BY <1>3
    <2>2. \A u \in Cfg!Servers : r.at[u] <= Len(deps[u]) + 2
        <3> SUFFICES ASSUME NEW u \in Cfg!Servers PROVE r.at[u] <= Len(deps[u]) + 2
            OBVIOUS
        <3>1. CASE u = s
            BY <1>2, <1>5, <1>8, <3>1
        <3>2. CASE u # s
            BY <1>5, <1>8, <3>2
        <3>3. QED
            BY <3>1, <3>2
    <2>3. r.stack \in Seq(Cfg!Servers)
        BY <1>1, <1>4 DEF Cfg!SearchType
    <2>4. QED
        BY <1>8, <2>1, <2>2, <2>3 DEF Cfg!SearchType
<1>10. \A u \in Cfg!Servers : /\ Cfg!White(r, u) <=> Cfg!White(q, u)
                              /\ Cfg!Black(deps, r, u) <=> Cfg!Black(deps, q, u)
                              /\ Cfg!Gray(deps, r, u) <=> Cfg!Gray(deps, q, u)
    <2> SUFFICES ASSUME NEW u \in Cfg!Servers
                 PROVE  /\ Cfg!White(r, u) <=> Cfg!White(q, u)
                        /\ Cfg!Black(deps, r, u) <=> Cfg!Black(deps, q, u)
        BY DEF Cfg!Gray
    <2>1. CASE u = s
        <3>1. PICK k \in Nat, n \in Nat : k = q.at[s] /\ n = Len(deps[s])
            BY <1>2, <1>5
        <3>2. k # 0 /\ k + 1 # 0 /\ k + 1 # n + 2 /\ k # n + 2
            BY <1>6, <3>1
        <3>3. QED
            BY <1>8, <2>1, <3>1, <3>2 DEF Cfg!White, Cfg!Black
    <2>2. CASE u # s
        BY <1>8, <2>2 DEF Cfg!White, Cfg!Black
    <2>3. QED
        BY <2>1, <2>2
<1>11. Cfg!StackInv(deps, r)
    BY <1>1, <1>4, <1>10 DEF Cfg!StackInv
<1>12. Cfg!CyclesInv(deps, r)
    BY <1>1, <1>4 DEF Cfg!CyclesInv
<1>13. \A u \in Cfg!Servers : \A e : Cfg!Followed(deps, r, u, e) =>
           Cfg!Followed(deps, q, u, e) \/ (u = s /\ e = deps[s][q.at[s]])
    <2> SUFFICES ASSUME NEW u \in Cfg!Servers, NEW i \in DOMAIN deps[u], i < r.at[u], ~(i < q.at[u])
                 PROVE  u = s /\ i = q.at[s]
        BY DEF Cfg!Followed
    <2>1. u = s
        BY <1>8
    <2>2. i \in Nat
        BY DepsList
    <2>3. QED
        BY <1>5, <1>2, <1>8, <2>1, <2>2
<1>14. Cfg!IsBlack(deps, r) = Cfg!IsBlack(deps, q)
    BY <1>10 DEF Cfg!IsBlack
<1>15. ClosedBut(deps, r, deps[s][q.at[s]])
    BY <1>1, <1>4, <1>10, <1>13, <1>14 DEF ClosedBut, Cfg!ClosedInv
<1>16. QED
    BY <1>4, <1>7, <1>9, <1>11, <1>12, <1>15

\* A call begins for a server that is white.
LEMMA SearchEntered ==
    ASSUME NEW deps \in DepsOf, NEW q, NEW d \in Cfg!Servers,
           Cfg!SearchType(deps, q), Cfg!StackInv(deps, q), Cfg!CyclesInv(deps, q), ClosedBut(deps, q, d),
           Cfg!White(q, d), q.stack # <<>> => d \in Cfg!Range(deps[Cfg!Last(q.stack)]),
           NEW r, r = Cfg!Enter(q, d)
    PROVE  Cfg!SearchInv(deps, r) /\ r.at = [q.at EXCEPT ![d] = q.at[d] + 1]
<1> DEFINE n == Len(q.stack)
<1>1. r = [at |-> [q.at EXCEPT ![d] = q.at[d] + 1], stack |-> Append(q.stack, d), cycles |-> q.cycles]
    BY SearchFields
<1>2. /\ r.at = [q.at EXCEPT ![d] = q.at[d] + 1] /\ r.stack = Append(q.stack, d) /\ r.cycles = q.cycles
      /\ r = [at |-> r.at, stack |-> r.stack, cycles |-> r.cycles]
    BY <1>1
<1>3. q.at \in [Cfg!Servers -> Nat] /\ q.stack \in Seq(Cfg!Servers) /\ q.at[d] = 0
    BY DEF Cfg!SearchType, Cfg!White
<1>4. r.at \in [Cfg!Servers -> Nat] /\ r.at[d] = 1 /\ \A u \in Cfg!Servers \ {d} : r.at[u] = q.at[u]
    BY <1>2, <1>3
<1>5. /\ n \in Nat /\ DOMAIN q.stack = 1..n /\ DOMAIN r.stack = 1..(n + 1) /\ r.stack \in Seq(Cfg!Servers)
      /\ \A i \in 1..n : r.stack[i] = q.stack[i]
      /\ r.stack[n + 1] = d
    BY <1>2, <1>3, AppendProperties, LenProperties
<1>6. Len(deps[d]) \in Nat
    BY DepsList
<1>7. \A u \in Cfg!Servers : /\ Cfg!Black(deps, r, u) <=> Cfg!Black(deps, q, u)
                             /\ Cfg!Gray(deps, r, u) <=> Cfg!Gray(deps, q, u) \/ u = d
                             /\ Cfg!Gray(deps, q, u) => u # d
    BY <1>3, <1>4, <1>6 DEF Cfg!White, Cfg!Black, Cfg!Gray
<1>8. Cfg!SearchType(deps, r)
    <2> SUFFICES ASSUME NEW u \in Cfg!Servers PROVE r.at[u] <= Len(deps[u]) + 2
        BY <1>2, <1>4, <1>5 DEF Cfg!SearchType
    <2>1. CASE u = d
        BY <1>4, <1>6, <2>1
    <2>2. CASE u # d
        BY <1>4, <2>2 DEF Cfg!SearchType
    <2>3. QED
        BY <2>1, <2>2
<1>9. \A i \in 1..n : q.stack[i] # d /\ q.stack[i] \in Cfg!Servers
    BY <1>5, <1>7, StackList DEF Cfg!StackInv
<1> HIDE DEF n
<1>10. Cfg!StackInv(deps, r)
    <2>1. ASSUME NEW i \in 1..(n + 1), NEW j \in 1..(n + 1), i # j PROVE r.stack[i] # r.stack[j]
        <3>1. \A k \in 1..(n + 1) : k = n + 1 \/ k \in 1..n
            BY <1>5
        <3>2. CASE i \in 1..n /\ j \in 1..n
            BY <1>5, <2>1, <3>2 DEF Cfg!StackInv
        <3>3. CASE i = n + 1 \/ j = n + 1
            BY <1>5, <1>9, <2>1, <3>1, <3>3
        <3>4. QED
            BY <3>1, <3>2, <3>3
    <2>2. ASSUME NEW u \in Cfg!Servers
          PROVE  (\E i \in 1..(n + 1) : r.stack[i] = u) <=> Cfg!Gray(deps, r, u)
        <3>1. 1..(n + 1) = 1..n \cup {n + 1}
            BY <1>5
        <3>2. (\E i \in 1..(n + 1) : r.stack[i] = u) <=> (\E i \in 1..n : q.stack[i] = u) \/ u = d
            BY <1>5, <3>1
        <3>3. QED
            BY <1>5, <1>7, <3>2 DEF Cfg!StackInv
    <2>3. ASSUME NEW i \in 1..(n + 1), i + 1 \in 1..(n + 1) PROVE r.stack[i + 1] \in Cfg!Range(deps[r.stack[i]])
        <3>1. i \in 1..n
            BY <1>5, <2>3
        <3>2. CASE i + 1 \in 1..n
            BY <1>5, <3>1, <3>2 DEF Cfg!StackInv
        <3>3. CASE i = n
            <4>1. q.stack # <<>> /\ Cfg!Last(q.stack) = q.stack[n]
                BY <1>5, <3>1, <3>3, StackList DEF n
            <4>2. QED
                BY <1>5, <3>1, <3>3, <4>1
        <3>4. QED
            BY <1>5, <3>1, <3>2, <3>3
    <2>4. QED
        BY <1>5, <2>1, <2>2, <2>3 DEF Cfg!StackInv
<1>11. Cfg!CyclesInv(deps, r)
    BY <1>2 DEF Cfg!CyclesInv
<1>12. Cfg!ClosedInv(deps, r)
    <2> SUFFICES ASSUME q.cycles = {} PROVE Cfg!ClosedInv(deps, r)
        BY <1>2 DEF Cfg!ClosedInv
    <2>1. ASSUME NEW u \in Cfg!Servers, NEW e \in Cfg!Servers, Cfg!Followed(deps, r, u, e)
          PROVE  \/ Cfg!Black(deps, r, e)
                 \/ \E i \in DOMAIN r.stack : i + 1 \in DOMAIN r.stack /\ r.stack[i] = u /\ r.stack[i + 1] = e
        <3>1. Cfg!Followed(deps, q, u, e)
            <4>1. PICK i \in DOMAIN deps[u] : i < r.at[u] /\ deps[u][i] = e
                BY <2>1 DEF Cfg!Followed
            <4>2. i \in Nat /\ i # 0
                BY DepsList
            <4>3. u # d
                BY <1>4, <4>1, <4>2
            <4>4. QED
                BY <1>4, <4>1, <4>3 DEF Cfg!Followed
        <3>2. CASE Cfg!Black(deps, q, e)
            BY <1>7, <3>2
        <3>3. CASE \E i \in DOMAIN q.stack : i + 1 \in DOMAIN q.stack /\ q.stack[i] = u /\ q.stack[i + 1] = e
            <4>1. PICK i \in 1..n : i + 1 \in 1..n /\ q.stack[i] = u /\ q.stack[i + 1] = e
                BY <1>5, <3>3
            <4>2. i \in 1..(n + 1) /\ i + 1 \in 1..(n + 1) /\ r.stack[i] = u /\ r.stack[i + 1] = e
                BY <1>5, <4>1
            <4>3. QED
                BY <1>5, <4>2
        <3>4. CASE q.stack # <<>> /\ u = Cfg!Last(q.stack) /\ e = d
            <4>1. n \in 1..n /\ q.stack[n] = u
                BY <1>5, <3>4, StackList DEF n
            <4>2. n \in 1..(n + 1) /\ n + 1 \in 1..(n + 1) /\ r.stack[n] = u /\ r.stack[n + 1] = e
                BY <1>5, <3>4, <4>1
            <4>3. QED
                BY <1>5, <4>2
        <3>5. QED
            BY <3>1, <3>2, <3>3, <3>4 DEF ClosedBut
    <2>2. Cfg!IsBlack(deps, r) = Cfg!IsBlack(deps, q)
        BY <1>7 DEF Cfg!IsBlack
    <2>3. QED
        BY <2>1, <2>2 DEF ClosedBut, Cfg!ClosedInv
<1>13. QED
    BY <1>2, <1>8, <1>10, <1>11, <1>12 DEF Cfg!SearchInv

\* A call returns: it has followed all of its list, so that all of it is black.
LEMMA SearchReturned ==
    ASSUME NEW deps \in DepsOf, NEW q, Cfg!SearchInv(deps, q), q.stack # <<>>,
           NEW s, s = Cfg!Last(q.stack), q.at[s] > Len(deps[s]), NEW r, r = Cfg!Return(q, s)
    PROVE  Cfg!SearchInv(deps, r) /\ r.at = [q.at EXCEPT ![s] = q.at[s] + 1] /\ s \in Cfg!Servers
<1> DEFINE n == Len(q.stack)
<1>1. Cfg!SearchType(deps, q) /\ Cfg!StackInv(deps, q) /\ Cfg!CyclesInv(deps, q) /\ Cfg!ClosedInv(deps, q)
    BY DEF Cfg!SearchInv
<1>2. /\ s \in Cfg!Servers /\ n \in Nat /\ n # 0 /\ DOMAIN q.stack = 1..n /\ q.stack[n] = s
      /\ Len(deps[s]) \in Nat /\ DOMAIN deps[s] = 1..Len(deps[s])
      /\ \A i \in 1..n : q.stack[i] \in Cfg!Servers
    BY <1>1, StackList, DepsList
<1>3. r = [at |-> [q.at EXCEPT ![s] = q.at[s] + 1], stack |-> SubSeq(q.stack, 1, n - 1), cycles |-> q.cycles]
    BY <1>1, <1>2, SearchFields
<1>4. /\ r.at = [q.at EXCEPT ![s] = q.at[s] + 1] /\ r.stack = SubSeq(q.stack, 1, n - 1) /\ r.cycles = q.cycles
      /\ r = [at |-> r.at, stack |-> r.stack, cycles |-> r.cycles]
    BY <1>3
<1>5. q.at \in [Cfg!Servers -> Nat] /\ \A u \in Cfg!Servers : q.at[u] <= Len(deps[u]) + 2
    BY <1>1 DEF Cfg!SearchType
<1>6. r.at \in [Cfg!Servers -> Nat] /\ r.at[s] = q.at[s] + 1 /\ \A u \in Cfg!Servers \ {s} : r.at[u] = q.at[u]
    BY <1>2, <1>4, <1>5
<1>7. Cfg!Gray(deps, q, s)
    BY <1>1, <1>2 DEF Cfg!StackInv
<1>8. q.at[s] = Len(deps[s]) + 1
    BY <1>2, <1>5, <1>7 DEF Cfg!Gray, Cfg!Black
<1>9. \A u \in Cfg!Servers : /\ Cfg!Black(deps, r, u) <=> Cfg!Black(deps, q, u) \/ u = s
                             /\ Cfg!Gray(deps, r, u) <=> Cfg!Gray(deps, q, u) /\ u # s
                             /\ ~(Cfg!Black(deps, q, u) /\ Cfg!Gray(deps, q, u))
    BY <1>2, <1>6, <1>8 DEF Cfg!White, Cfg!Black, Cfg!Gray
<1> HIDE DEF n
<1>10. /\ r.stack \in Seq(Cfg!Servers) /\ DOMAIN r.stack = 1..(n - 1)
       /\ \A i \in 1..(n - 1) : i \in 1..n /\ r.stack[i] = q.stack[i]
    <2>1. n - 1 \in Nat /\ 1 \in Int /\ n - 1 \in Int
        BY <1>2
    <2>2. \A i \in 1..(n - 1) : i \in 1..n /\ q.stack[i] \in Cfg!Servers
        BY <1>2
    <2>3. ASSUME NEW t, NEW m, t = q.stack, m = n - 1
          PROVE  /\ SubSeq(t, 1, m) \in Seq(Cfg!Servers) /\ DOMAIN SubSeq(t, 1, m) = 1..m
                 /\ \A i \in 1..m : SubSeq(t, 1, m)[i] = t[i]
        <3>1. m \in Nat /\ \A i \in 1..m : t[i] \in Cfg!Servers
            BY <2>1, <2>2, <2>3
        <3>2. /\ SubSeq(t, 1, m) \in Seq(Cfg!Servers)
              /\ Len(SubSeq(t, 1, m)) = IF 1 <= m THEN m - 1 + 1 ELSE 0
              /\ \A i \in 1..(m - 1 + 1) : SubSeq(t, 1, m)[i] = t[1 + i - 1]
            <4> HIDE <2>3
            <4> QED BY <2>1, <3>1, SubSeqProperties
        <3>3. Len(SubSeq(t, 1, m)) = m /\ m - 1 + 1 = m
            BY <3>1, <3>2
        <3>4. DOMAIN SubSeq(t, 1, m) = 1..m
            BY <3>2, <3>3, LenProperties
        <3>5. QED
            BY <3>1, <3>2, <3>3, <3>4
    <2>4. QED
        BY <1>4, <2>2, <2>3
<1>11. Cfg!SearchType(deps, r)
    <2> SUFFICES ASSUME NEW u \in Cfg!Servers PROVE r.at[u] <= Len(deps[u]) + 2
        BY <1>4, <1>6, <1>10 DEF Cfg!SearchType
    <2>1. CASE u = s
        BY <1>2, <1>6, <1>8, <2>1
    <2>2. CASE u # s
        BY <1>5, <1>6, <2>2
    <2>3. QED
        BY <2>1, <2>2
<1>12. Cfg!StackInv(deps, r)
    <2>1. ASSUME NEW i \in 1..(n - 1), NEW j \in 1..(n - 1), i # j PROVE r.stack[i] # r.stack[j]
        <3>1. i \in DOMAIN q.stack /\ j \in DOMAIN q.stack /\ r.stack[i] = q.stack[i] /\ r.stack[j] = q.stack[j]
            BY <1>2, <1>10
        <3>2. QED
            BY <1>1, <2>1, <3>1 DEF Cfg!StackInv
    <2>2. ASSUME NEW u \in Cfg!Servers
          PROVE  (\E i \in 1..(n - 1) : r.stack[i] = u) <=> Cfg!Gray(deps, r, u)
        <3>1. (\E i \in 1..n : q.stack[i] = u) <=> Cfg!Gray(deps, q, u)
            BY <1>1, <1>2 DEF Cfg!StackInv
        <3>2. ASSUME NEW i \in 1..(n - 1) PROVE i \in 1..n /\ n \in 1..n /\ q.stack[i] # s
            <4>1. i \in 1..n /\ n \in 1..n /\ i # n
                BY <1>2
            <4>2. QED
                BY <1>1, <1>2, <4>1 DEF Cfg!StackInv
        <3>3. \A i \in 1..n : i \in 1..(n - 1) \/ i = n
            BY <1>2
        <3>4. QED
            BY <1>2, <1>9, <1>10, <3>1, <3>2, <3>3
    <2>3. ASSUME NEW i \in 1..(n - 1), i + 1 \in 1..(n - 1) PROVE r.stack[i + 1] \in Cfg!Range(deps[r.stack[i]])
        BY <1>1, <1>2, <1>10, <2>3 DEF Cfg!StackInv
    <2>4. QED
        BY <1>10, <2>1, <2>2, <2>3 DEF Cfg!StackInv
<1>13. Cfg!CyclesInv(deps, r)
    BY <1>1, <1>4 DEF Cfg!CyclesInv
<1>14. Cfg!ClosedInv(deps, r)
    <2> SUFFICES ASSUME q.cycles = {} PROVE Cfg!ClosedInv(deps, r)
        BY <1>4 DEF Cfg!ClosedInv
    <2>1. \A u, e \in Cfg!Servers : Cfg!Followed(deps, q, u, e) =>
              \/ Cfg!Black(deps, q, e)
              \/ \E i \in 1..n : i + 1 \in 1..n /\ q.stack[i] = u /\ q.stack[i + 1] = e
        BY <1>1, <1>2 DEF Cfg!ClosedInv
    <2>2. ASSUME NEW u \in Cfg!Servers, NEW e \in Cfg!Servers, Cfg!Followed(deps, r, u, e)
          PROVE  Cfg!Followed(deps, q, u, e)
        <3>1. PICK i \in DOMAIN deps[u] : i < r.at[u] /\ deps[u][i] = e
            BY <2>2 DEF Cfg!Followed
        <3>2. i < q.at[u]
            <4>1. CASE u = s
                BY <1>2, <1>8, <4>1
            <4>2. CASE u # s
                BY <1>6, <3>1, <4>2
            <4>3. QED
                BY <4>1, <4>2
        <3>3. QED
            BY <3>1, <3>2 DEF Cfg!Followed
    <2>3. ASSUME NEW u \in Cfg!Servers, NEW e \in Cfg!Servers, Cfg!Followed(deps, r, u, e)
          PROVE  \/ Cfg!Black(deps, r, e)
                 \/ \E i \in 1..(n - 1) : i + 1 \in 1..(n - 1) /\ r.stack[i] = u /\ r.stack[i + 1] = e
        <3>1. CASE Cfg!Black(deps, q, e)
            BY <1>9, <3>1
        <3>2. ASSUME NEW i \in 1..n, i + 1 \in 1..n, q.stack[i] = u, q.stack[i + 1] = e
              PROVE  \/ Cfg!Black(deps, r, e)
                     \/ \E j \in 1..(n - 1) : j + 1 \in 1..(n - 1) /\ r.stack[j] = u /\ r.stack[j + 1] = e
            <4>1. CASE i + 1 = n
                BY <1>2, <1>9, <3>2, <4>1
            <4>2. CASE i + 1 # n
                <5>1. i \in 1..(n - 1) /\ i + 1 \in 1..(n - 1)
                    BY <1>2, <3>2, <4>2
                <5>2. QED
                    BY <1>10, <3>2, <5>1
            <4>3. QED
                BY <4>1, <4>2
        <3>3. QED
            BY <2>1, <2>2, <2>3, <3>1, <3>2
    <2>4. ASSUME NEW u \in Cfg!Servers, Cfg!Black(deps, q, u) \/ u = s, NEW i \in DOMAIN deps[u],
                 deps[u][i] \in Cfg!Servers
          PROVE  Cfg!Black(deps, q, deps[u][i]) /\ deps[u][i] # s
        <3>1. i < q.at[u]
            BY <1>2, <1>8, <2>4, DepsList DEF Cfg!Black
        <3>2. Cfg!Followed(deps, q, u, deps[u][i])
            BY <3>1 DEF Cfg!Followed
        <3>3. ASSUME NEW j \in 1..n, j + 1 \in 1..n, q.stack[j] = u PROVE FALSE
            <4>1. Cfg!Gray(deps, q, u)
                BY <1>1, <1>2, <3>3 DEF Cfg!StackInv
            <4>2. u = s
                BY <1>9, <2>4, <4>1
            <4>3. j # n /\ n \in 1..n
                BY <1>2, <3>3
            <4>4. QED
                BY <1>1, <1>2, <3>3, <4>2, <4>3 DEF Cfg!StackInv
        <3>4. Cfg!Black(deps, q, deps[u][i])
            BY <2>1, <2>4, <3>2, <3>3
        <3>5. QED
            BY <1>7, <1>9, <2>4, <3>4
    <2>5. ASSUME NEW S \in SUBSET Cfg!IsBlack(deps, r), Cfg!Circle(deps, S) PROVE S = {}
        <3> DEFINE R == S \ {s}
        <3>1. \A u \in S : u \in Cfg!Servers /\ (Cfg!Black(deps, q, u) \/ u = s)
            BY <1>9 DEF Cfg!IsBlack
        <3>2. \A u \in S : \E i \in DOMAIN deps[u] : deps[u][i] \in R
            BY <2>4, <2>5, <3>1 DEF Cfg!Circle
        <3>3. R \in SUBSET Cfg!IsBlack(deps, q) /\ Cfg!Circle(deps, R)
            BY <3>1, <3>2 DEF Cfg!IsBlack, Cfg!Circle
        <3>4. R = {}
            BY <1>1, <3>3 DEF Cfg!ClosedInv
        <3>5. QED
            BY <3>2, <3>4
    <2>6. \A u, e \in Cfg!Servers : Cfg!Followed(deps, r, u, e) =>
              \/ Cfg!Black(deps, r, e)
              \/ \E i \in DOMAIN r.stack : i + 1 \in DOMAIN r.stack /\ r.stack[i] = u /\ r.stack[i + 1] = e
        BY <1>10, <2>3
    <2>7. \A S \in SUBSET Cfg!IsBlack(deps, r) : Cfg!Circle(deps, S) => S = {}
        BY <2>5
    <2>8. QED
        BY <2>6, <2>7 DEF Cfg!ClosedInv
<1>15. QED
    BY <1>2, <1>4, <1>11, <1>12, <1>13, <1>14 DEF Cfg!SearchInv

\* The part of a list from i on, and one element more.
LEMMA TailAndOne ==
    ASSUME NEW S, NEW t \in Seq(S), NEW i \in 1..Len(t), NEW d \in S
    PROVE  LET c == SubSeq(t, i, Len(t)) \o <<d>>
               m == Len(t) - i + 1
           IN  /\ c \in Seq(S) /\ Len(c) = m + 1 /\ m \in Nat /\ m >= 1 /\ c[m + 1] = d
               /\ \A j \in 1..m : c[j] = t[i + j - 1] /\ i + j - 1 \in 1..Len(t)
<1>a. PICK n \in Nat : n = Len(t)
    BY LenProperties
<1>b. PICK m \in Nat : m = n - i + 1 /\ m >= 1
    BY <1>a
<1>c. PICK u : u = SubSeq(t, i, n)
    OBVIOUS
<1>1. i \in Int /\ n \in Int /\ i <= n /\ \A j \in i..n : t[j] \in S
    BY <1>a, ElementOfSeq
<1>2. /\ SubSeq(t, i, n) \in Seq(S)
      /\ Len(SubSeq(t, i, n)) = IF i <= n THEN n - i + 1 ELSE 0
      /\ \A j \in 1..(n - i + 1) : SubSeq(t, i, n)[j] = t[i + j - 1]
    BY <1>1, SubSeqProperties
<1>3. u \in Seq(S) /\ Len(u) = m /\ \A j \in 1..m : u[j] = t[i + j - 1]
    BY <1>b, <1>c, <1>1, <1>2
<1>4. /\ u \o <<d>> = Append(u, d) /\ Append(u, d) \in Seq(S) /\ Len(Append(u, d)) = m + 1
      /\ \A j \in 1..m : Append(u, d)[j] = u[j]
      /\ Append(u, d)[m + 1] = d
    BY <1>3, AppendIsConcat, AppendProperties
<1>5. \A j \in 1..m : Append(u, d)[j] = t[i + j - 1] /\ i + j - 1 \in 1..n
    BY <1>a, <1>b, <1>3, <1>4
<1>6. QED
    BY <1>a, <1>b, <1>c, <1>4, <1>5

\* A dependency that is on the stack closes a cycle: from it up to the innermost
\* call, and back.
LEMMA SearchClosed ==
    ASSUME NEW deps \in DepsOf, NEW q, NEW d \in Cfg!Servers,
           Cfg!SearchType(deps, q), Cfg!StackInv(deps, q), Cfg!CyclesInv(deps, q),
           Cfg!Gray(deps, q, d), d \in Cfg!Range(deps[Cfg!Last(q.stack)]),
           NEW r, r = Cfg!CloseCycle(q, d)
    PROVE  Cfg!SearchInv(deps, r) /\ r.at = q.at
<1> DEFINE p == CHOOSE i \in DOMAIN q.stack : q.stack[i] = d
           n == Len(q.stack)
           c == SubSeq(q.stack, p, n) \o <<d>>
           m == n - p + 1
<1>1. p \in DOMAIN q.stack /\ q.stack[p] = d
    BY DEF Cfg!StackInv
<1>2. n \in Nat /\ DOMAIN q.stack = 1..n /\ q.stack \in Seq(Cfg!Servers)
    BY StackList DEF Cfg!SearchType
<1>3. q.stack # <<>> /\ Cfg!Last(q.stack) = q.stack[n]
    BY <1>1, <1>2, StackList
<1>4. r = [at |-> q.at, stack |-> q.stack, cycles |-> q.cycles \cup {c}]
    <2>1. PICK a, b, e : q = [at |-> a, stack |-> b, cycles |-> e] /\ a = q.at /\ b = q.stack /\ e = q.cycles
        BY DEF Cfg!SearchType
    <2>2. r = [q EXCEPT !.cycles = q.cycles \cup {c}]
        BY DEF Cfg!CloseCycle
    <2>3. \A u : [q EXCEPT !.cycles = u] = [at |-> a, stack |-> b, cycles |-> u]
        BY <2>1
    <2>4. QED
        BY <2>1, <2>2, <2>3
<1> HIDE DEF p
<1>5. /\ c \in Seq(Cfg!Servers) /\ Len(c) = m + 1 /\ m \in Nat /\ m >= 1 /\ c[m + 1] = d
      /\ \A j \in 1..m : c[j] = q.stack[p + j - 1] /\ p + j - 1 \in 1..n
    <2>1. PICK t : t = q.stack
        OBVIOUS
    <2>2. t \in Seq(Cfg!Servers) /\ p \in 1..Len(t) /\ d \in Cfg!Servers
        BY <1>1, <1>2, <2>1
    <2>3. /\ SubSeq(t, p, Len(t)) \o <<d>> \in Seq(Cfg!Servers)
          /\ Len(SubSeq(t, p, Len(t)) \o <<d>>) = (Len(t) - p + 1) + 1
          /\ Len(t) - p + 1 \in Nat /\ Len(t) - p + 1 >= 1
          /\ (SubSeq(t, p, Len(t)) \o <<d>>)[(Len(t) - p + 1) + 1] = d
          /\ \A j \in 1..(Len(t) - p + 1) :
                 (SubSeq(t, p, Len(t)) \o <<d>>)[j] = t[p + j - 1] /\ p + j - 1 \in 1..Len(t)
        BY <2>2, TailAndOne
    <2>4. QED
        BY <2>1, <2>3
<1>6. p + m - 1 = n /\ p + 1 - 1 = p
    BY <1>1, <1>2
<1> HIDE DEF c, m, n
<1>7. Cfg!IsCycle(deps, c)
    <2>1. Len(c) > 1 /\ c[1] = d /\ c[Len(c)] = d
        BY <1>1, <1>2, <1>5, <1>6
    <2>2. ASSUME NEW i \in 1..m PROVE c[i + 1] \in Cfg!Range(deps[c[i]])
        <3>1. c[i] = q.stack[p + i - 1] /\ p + i - 1 \in 1..n
            BY <1>5
        <3>2. CASE i = m
            BY <1>3, <1>5, <1>6, <3>1, <3>2
        <3>3. CASE i # m
            <4>1. i + 1 \in 1..m /\ p + (i + 1) - 1 = (p + i - 1) + 1
                BY <1>1, <1>2, <1>5, <3>3
            <4>2. c[i + 1] = q.stack[(p + i - 1) + 1] /\ (p + i - 1) + 1 \in 1..n
                <5>1. c[i + 1] = q.stack[p + (i + 1) - 1] /\ p + (i + 1) - 1 \in 1..n
                    BY <1>5, <4>1
                <5>2. QED
                    BY <4>1, <5>1
            <4>3. QED
                BY <1>2, <3>1, <4>2 DEF Cfg!StackInv
        <3>4. QED
            BY <3>2, <3>3
    <2>3. (m + 1) - 1 = m
        BY <1>5
    <2>4. QED
        BY <1>5, <2>1, <2>2, <2>3 DEF Cfg!IsCycle
<1>8. /\ r.at = q.at /\ r.stack = q.stack /\ r.cycles = q.cycles \cup {c}
      /\ r = [at |-> r.at, stack |-> r.stack, cycles |-> r.cycles]
    BY <1>4
<1>9. Cfg!SearchType(deps, r)
    BY <1>8 DEF Cfg!SearchType
<1>10. Cfg!StackInv(deps, r)
    BY <1>8 DEF Cfg!StackInv, Cfg!Gray, Cfg!White, Cfg!Black
<1>11. Cfg!CyclesInv(deps, r)
    BY <1>5, <1>7, <1>8 DEF Cfg!CyclesInv
<1>12. Cfg!ClosedInv(deps, r)
    BY <1>8 DEF Cfg!ClosedInv
<1>13. QED
    BY <1>8, <1>9, <1>10, <1>11, <1>12 DEF Cfg!SearchInv

\* Every call has returned.
Searched(deps, q) == q.stack = <<>> /\ \A s \in Cfg!Servers : Cfg!Black(deps, q, s)

\* A later state of the search: some call is further.
Further(q, r) == /\ \A s \in Cfg!Servers : q.at[s] <= r.at[s]
                 /\ \E s \in Cfg!Servers : q.at[s] < r.at[s]

\* A turn that ends it keeps the invariant, and some call gets further unless
\* all have returned.
LEMMA SearchTurn ==
    ASSUME NEW deps \in DepsOf, NEW q, Cfg!SearchInv(deps, q), NEW r, r = Cfg!dfs(deps, Names, q)
    PROVE  Cfg!SearchInv(deps, r) /\ (Further(q, r) \/ (Searched(deps, q) /\ r = q))
<1>1. Cfg!SearchType(deps, q) /\ Cfg!StackInv(deps, q) /\ Cfg!CyclesInv(deps, q) /\ Cfg!ClosedInv(deps, q)
    BY DEF Cfg!SearchInv
<1>2. q.at \in [Cfg!Servers -> Nat]
    BY <1>1 DEF Cfg!SearchType
<1>3. ASSUME NEW s \in Cfg!Servers, r.at = [q.at EXCEPT ![s] = q.at[s] + 1] PROVE Further(q, r)
    <2>1. r.at[s] = q.at[s] + 1 /\ \A u \in Cfg!Servers \ {s} : r.at[u] = q.at[u]
        BY <1>2, <1>3
    <2>2. \A u \in Cfg!Servers : q.at[u] \in Nat
        BY <1>2
    <2>3. QED
        BY <2>1, <2>2 DEF Further
<1>4. CASE q.stack # <<>>
    <2> DEFINE s == Cfg!Last(q.stack)
               a == Cfg!Advance(q, s)
               d == deps[s][q.at[s]]
    <2>1. s \in Cfg!Servers /\ Len(deps[s]) \in Nat
        BY <1>1, <1>4, StackList, DepsList
    <2>2. CASE q.at[s] > Len(deps[s])
        <3>1. r = Cfg!Return(q, s)
            BY <1>4, <2>2 DEF Cfg!dfs
        <3>2. QED
            <4>1. Cfg!SearchInv(deps, r) /\ r.at = [q.at EXCEPT ![s] = q.at[s] + 1]
                BY <1>4, <2>2, <3>1, SearchReturned
            <4>2. QED
                BY <1>3, <2>1, <4>1
    <2>3. CASE ~(q.at[s] > Len(deps[s]))
        <3>1. r = Cfg!Follow(deps, a, d)
            BY <1>4, <2>3 DEF Cfg!dfs
        <3>2. /\ Cfg!SearchType(deps, a) /\ Cfg!StackInv(deps, a) /\ Cfg!CyclesInv(deps, a)
              /\ q.at[s] \in DOMAIN deps[s] /\ ClosedBut(deps, a, d)
              /\ a.stack = q.stack /\ a.cycles = q.cycles
              /\ a.at = [q.at EXCEPT ![s] = q.at[s] + 1]
            <4>1. q.at[s] <= Len(deps[s])
                BY <1>2, <2>1, <2>3
            <4>2. QED
                BY <1>4, <4>1, SearchAdvanced
        <3>3. d \in Cfg!Range(deps[s])
            BY <3>2 DEF Cfg!Range
        <3> HIDE DEF a, d
        <3>4. a.at[s] = q.at[s] + 1 /\ \A u \in Cfg!Servers \ {s} : a.at[u] = q.at[u]
            BY <1>2, <2>1, <3>2
        <3>5. CASE d \notin Cfg!Servers \/ Cfg!Black(deps, a, d)
            <4>1. r = a
                <5>1. CASE d \notin Cfg!Servers
                    BY <3>1, <5>1 DEF Cfg!Follow
                <5>2. CASE d \in Cfg!Servers
                    <6>1. Cfg!Black(deps, a, d) /\ ~Cfg!White(a, d) /\ ~Cfg!Gray(deps, a, d)
                        BY <3>5, <5>2, DepsList DEF Cfg!Black, Cfg!White, Cfg!Gray
                    <6>2. QED
                        BY <3>1, <5>2, <6>1 DEF Cfg!Follow
                <5>3. QED
                    BY <5>1, <5>2
            <4>2. Cfg!ClosedInv(deps, a)
                BY <3>5, <3>2 DEF ClosedBut, Cfg!ClosedInv
            <4>3. QED
                BY <1>3, <2>1, <3>2, <4>1, <4>2 DEF Cfg!SearchInv
        <3>6. CASE d \in Cfg!Servers /\ Cfg!White(a, d)
            <4>1. ~Cfg!Gray(deps, a, d) /\ ~Cfg!Black(deps, a, d)
                BY <3>6, DepsList DEF Cfg!Black, Cfg!White, Cfg!Gray
            <4>2. r = Cfg!Enter(a, d)
                BY <3>1, <3>6, <4>1 DEF Cfg!Follow
            <4>3. Cfg!SearchInv(deps, r) /\ r.at = [a.at EXCEPT ![d] = a.at[d] + 1]
                <5>1. a.stack # <<>> => d \in Cfg!Range(deps[Cfg!Last(a.stack)])
                    BY <3>2, <3>3
                <5>2. PICK b, e : b = a /\ e = d
                    OBVIOUS
                <5>3. /\ e \in Cfg!Servers /\ Cfg!SearchType(deps, b) /\ Cfg!StackInv(deps, b)
                      /\ Cfg!CyclesInv(deps, b) /\ ClosedBut(deps, b, e) /\ Cfg!White(b, e)
                      /\ b.stack # <<>> => e \in Cfg!Range(deps[Cfg!Last(b.stack)])
                      /\ r = Cfg!Enter(b, e)
                    BY <3>2, <3>6, <4>2, <5>1, <5>2
                <5>4. Cfg!SearchInv(deps, r) /\ r.at = [b.at EXCEPT ![e] = b.at[e] + 1]
                    BY ONLY deps \in DepsOf, <5>3, SearchEntered
                <5>5. QED
                    BY <5>2, <5>4
            <4>4. a.at \in [Cfg!Servers -> Nat] /\ d # s /\ a.at[d] = 0
                BY <1>2, <2>1, <3>2, <3>4, <3>6 DEF Cfg!SearchType, Cfg!White
            <4>5. Further(q, r)
                <5>1. r.at[d] = 1 /\ \A u \in Cfg!Servers \ {d} : r.at[u] = a.at[u]
                    BY <3>6, <4>3, <4>4
                <5>2. \A u \in Cfg!Servers : q.at[u] \in Nat
                    BY <1>2
                <5>3. q.at[d] = 0
                    BY <3>4, <3>6, <4>4
                <5>4. QED
                    BY <2>1, <3>4, <3>6, <4>4, <5>1, <5>2, <5>3 DEF Further
            <4>6. QED
                BY <4>3, <4>5
        <3>7. CASE d \in Cfg!Servers /\ Cfg!Gray(deps, a, d)
            <4>1. r = Cfg!CloseCycle(a, d)
                BY <3>1, <3>7 DEF Cfg!Follow, Cfg!Gray
            <4>2. Cfg!SearchInv(deps, r) /\ r.at = a.at
                BY <3>2, <3>3, <3>7, <4>1, SearchClosed
            <4>3. QED
                BY <1>3, <2>1, <3>2, <4>2
        <3>8. QED
            BY <3>5, <3>6, <3>7 DEF Cfg!Gray
    <2>4. QED
        BY <2>2, <2>3
<1>5. CASE q.stack = <<>>
    <2> DEFINE white == {i \in DOMAIN Names : Cfg!White(q, Names[i])}
               f == CHOOSE i \in white : \A j \in white : i <= j
    <2>0. DOMAIN Names = 1..Len(Names) /\ Len(Names) \in Nat
        BY ToolsAssumption, LenProperties DEF ToolsAssumption, Cfg!ConfigAssumption
    <2>1. \A i \in DOMAIN Names : Names[i] \in Cfg!Servers
        BY DEF Cfg!Servers, Cfg!Range
    <2>2. CASE white # {}
        <3>1. r = Cfg!Enter(q, Names[f])
            BY <1>5, <2>2 DEF Cfg!dfs
        <3>2. f \in white
            <4>1. white \in SUBSET Nat
                BY <2>0
            <4> HIDE DEF white
            <4>2. QED
                BY <2>2, <4>1, LeastNatural
        <3>3. Names[f] \in Cfg!Servers /\ Cfg!White(q, Names[f])
            BY <2>1, <3>2
        <3> HIDE DEF f
        <3>4. ClosedBut(deps, q, Names[f])
            BY <1>1 DEF ClosedBut, Cfg!ClosedInv
        <3>5. QED
            <4>1. PICK d : d = Names[f]
                OBVIOUS
            <4>2. Cfg!SearchInv(deps, r) /\ r.at = [q.at EXCEPT ![d] = q.at[d] + 1]
                BY <1>1, <1>5, <3>1, <3>3, <3>4, <4>1, SearchEntered
            <4>3. QED
                BY <1>3, <3>3, <4>1, <4>2
    <2>3. CASE white = {}
        <3>1. r = q
            BY <1>5, <2>3 DEF Cfg!dfs
        <3>2. ASSUME NEW s \in Cfg!Servers PROVE Cfg!Black(deps, q, s)
            <4>1. ~Cfg!White(q, s)
                BY <2>3 DEF Cfg!Servers, Cfg!Range
            <4>2. ~Cfg!Gray(deps, q, s)
                BY <1>1, <1>5 DEF Cfg!StackInv
            <4>3. QED
                BY <4>1, <4>2 DEF Cfg!Gray
        <3>3. QED
            BY <1>5, <3>1, <3>2 DEF Searched
    <2>4. QED
        BY <2>2, <2>3
<1>6. QED
    BY <1>4, <1>5

\* The cardinality of the instance.
LEMMA CfgCardinality == \A S : Cfg!Cardinality(S) = Cardinality(S)
BY DEF Cfg!Cardinality, Cardinality, Cfg!IsFiniteSet, IsFiniteSet

\* A search of n turns exists,
LEMMA SearchesExist ==
    ASSUME NEW deps, NEW n \in Nat
    PROVE  \E g : g = [k \in 0..n |-> IF k = 0 THEN Cfg!NotSearched ELSE Cfg!dfs(deps, Names, g[k - 1])]
<1> DEFINE Solves(g, m) == g = [k \in 0..m |-> IF k = 0 THEN Cfg!NotSearched ELSE Cfg!dfs(deps, Names, g[k - 1])]
<1> DEFINE T == {m \in Nat : ~ \E g : Solves(g, m)}
<1> SUFFICES ASSUME T # {} PROVE FALSE
    OBVIOUS
<1>1. PICK m \in T : \A j \in T : m <= j
    <2> HIDE DEF T
    <2>1. T \in SUBSET Nat
        BY DEF T
    <2> QED BY <2>1, LeastNatural
<1>2. CASE m = 0
    <2> DEFINE g == [k \in 0..0 |-> Cfg!NotSearched]
    <2>1. Solves(g, 0)
        OBVIOUS
    <2> QED BY <1>2, <2>1
<1>3. CASE m # 0
    <2>0. m \in Nat
        OBVIOUS
    <2>1. m - 1 \in Nat /\ m - 1 \notin T
        <3> HIDE DEF T
        <3> QED BY <1>1, <1>3, <2>0
    <2>2. PICK g : Solves(g, m - 1)
        BY <2>1
    <2> DEFINE h == [k \in 0..m |-> IF k = m THEN Cfg!dfs(deps, Names, g[m - 1]) ELSE g[k]]
    <2>3. \A k \in 0..(m - 1) : g[k] = IF k = 0 THEN Cfg!NotSearched ELSE Cfg!dfs(deps, Names, g[k - 1])
        BY <2>2
    <2>4. \A k \in 0..(m - 1) : h[k] = g[k]
        BY <1>1
    <2>5. ASSUME NEW k \in 0..m PROVE h[k] = IF k = 0 THEN Cfg!NotSearched ELSE Cfg!dfs(deps, Names, h[k - 1])
        <3>1. CASE k = m
            <4>1. h[k] = Cfg!dfs(deps, Names, g[m - 1]) /\ h[m - 1] = g[m - 1]
                BY <3>1, <2>4, <2>1
            <4> HIDE DEF h
            <4> QED BY <4>1, <3>1, <1>3
        <3>2. CASE k # m /\ k # 0
            <4>1. k \in 0..(m - 1) /\ k - 1 \in 0..(m - 1)
                BY <3>2
            <4> HIDE DEF h
            <4> QED BY <4>1, <3>2, <2>3, <2>4
        <3>3. CASE k # m /\ k = 0
            <4>1. k \in 0..(m - 1)
                BY <3>3
            <4> HIDE DEF h
            <4> QED BY <4>1, <3>3, <2>3, <2>4
        <3> QED BY <3>1, <3>2, <3>3
    <2>6. h = [k \in 0..m |-> h[k]]
        OBVIOUS
    <2>7. Solves(h, m)
        <3> HIDE DEF h
        <3> QED BY <2>5, <2>6
    <2> QED BY <2>7
<1> QED BY <1>2, <1>3

\* and is the one that is made.
LEMMA SearchesDef ==
    ASSUME NEW deps, Cfg!Turns(deps) \in Nat
    PROVE  /\ Cfg!Searches(deps, Names)[0] = Cfg!NotSearched
           /\ \A k \in 0..(Cfg!Turns(deps) - 1) :
                  Cfg!Searches(deps, Names)[k + 1] = Cfg!dfs(deps, Names, Cfg!Searches(deps, Names)[k])
<1> DEFINE n == Cfg!Turns(deps)
<1> HIDE DEF n
<1>0. n \in Nat
    BY DEF n
<1>1. Cfg!Searches(deps, Names) =
          CHOOSE g : g = [k \in 0..n |-> IF k = 0 THEN Cfg!NotSearched ELSE Cfg!dfs(deps, Names, g[k - 1])]
    BY Zenon DEF Cfg!Searches, n
<1>2. Cfg!Searches(deps, Names) =
          [k \in 0..n |-> IF k = 0 THEN Cfg!NotSearched ELSE Cfg!dfs(deps, Names, Cfg!Searches(deps, Names)[k - 1])]
    BY <1>0, <1>1, SearchesExist, Zenon
<1> DEFINE r == Cfg!Searches(deps, Names)
<1> HIDE DEF r
<1>3. r = [k \in 0..n |-> IF k = 0 THEN Cfg!NotSearched ELSE Cfg!dfs(deps, Names, r[k - 1])]
    BY <1>2 DEF r
<1>4. r[0] = Cfg!NotSearched
    BY <1>0, <1>3
<1>5. ASSUME NEW k \in 0..(n - 1) PROVE r[k + 1] = Cfg!dfs(deps, Names, r[k])
    <2>1. k + 1 \in 0..n /\ k + 1 # 0 /\ (k + 1) - 1 = k
        BY <1>0
    <2>2. r[k + 1] = Cfg!dfs(deps, Names, r[(k + 1) - 1])
        BY <1>3, <2>1
    <2> QED BY <2>1, <2>2
<1> QED BY <1>4, <1>5 DEF n, r

\* At first every server is white.
LEMMA SearchBegins ==
    ASSUME NEW deps \in DepsOf
    PROVE  Cfg!SearchInv(deps, Cfg!NotSearched)
<1> DEFINE q == Cfg!NotSearched
<1>1. q.at = [s \in Cfg!Servers |-> 0] /\ q.stack = <<>> /\ q.cycles = {}
    BY DEF Cfg!NotSearched
<1>2. Cfg!SearchType(deps, q)
    <2>1. q = [at |-> q.at, stack |-> q.stack, cycles |-> q.cycles]
        BY DEF Cfg!NotSearched
    <2>2. ASSUME NEW s \in Cfg!Servers PROVE q.at[s] <= Len(deps[s]) + 2
        BY <1>1, DepsList
    <2>3. QED
        BY <1>1, <2>1, <2>2, EmptySeq DEF Cfg!SearchType
<1>3. \A s \in Cfg!Servers : ~Cfg!Gray(deps, q, s) /\ ~Cfg!Black(deps, q, s)
    BY <1>1, DepsList DEF Cfg!Gray, Cfg!White, Cfg!Black
<1>4. DOMAIN q.stack = {}
    BY <1>1
<1>5. Cfg!StackInv(deps, q)
    BY <1>3, <1>4 DEF Cfg!StackInv
<1>6. Cfg!CyclesInv(deps, q)
    BY <1>1 DEF Cfg!CyclesInv
<1>7. Cfg!ClosedInv(deps, q)
    <2>1. \A s \in Cfg!Servers, d \in Cfg!Servers : ~Cfg!Followed(deps, q, s, d)
        <3> SUFFICES ASSUME NEW s \in Cfg!Servers, NEW i \in DOMAIN deps[s] PROVE ~(i < q.at[s])
            BY DEF Cfg!Followed
        <3>1. QED
            BY <1>1, DepsList
    <2>2. Cfg!IsBlack(deps, q) = {}
        BY <1>3 DEF Cfg!IsBlack
    <2>3. QED
        BY <2>1, <2>2 DEF Cfg!ClosedInv
<1>8. QED
    BY <1>2, <1>5, <1>6, <1>7 DEF Cfg!SearchInv

\* How far the calls are together.
Marks(at) == UNION {{s} \X (0..(at[s] - 1)) : s \in Cfg!Servers}

\* There are finitely many servers.
LEMMA ServersFinite == IsFiniteSet(Cfg!Servers)
<1> DEFINE n == Len(Names)
           f == [i \in 1..n |-> Names[i]]
<1>1. n \in Nat /\ DOMAIN Names = 1..n
    BY ToolsAssumption, LenProperties DEF ToolsAssumption, Cfg!ConfigAssumption
<1>2. f \in Surjection(1..n, Cfg!Servers)
    BY <1>1 DEF Surjection, Cfg!Servers, Cfg!Range
<1> HIDE DEF n, f
<1>3. IsFiniteSet(1..n)
    BY <1>1, FS_Interval
<1>4. QED
    BY <1>2, <1>3, FS_Surjection

\* They can only go so far.
LEMMA TurnsFinite ==
    ASSUME NEW deps \in DepsOf
    PROVE  LET all == Marks([s \in Cfg!Servers |-> Len(deps[s]) + 2])
           IN  IsFiniteSet(all) /\ Cfg!Turns(deps) = Cardinality(all) /\ Cfg!Turns(deps) \in Nat
<1> DEFINE T == {{s} \X (0..(Len(deps[s]) + 1)) : s \in Cfg!Servers}
           f == [s \in Cfg!Servers |-> {s} \X (0..(Len(deps[s]) + 1))]
<1>1. f \in Surjection(Cfg!Servers, T)
    BY DEF Surjection
<1>2. IsFiniteSet(T)
    <2> HIDE DEF T, f
    <2> QED BY <1>1, ServersFinite, FS_Surjection
<1>3. \A t \in T : IsFiniteSet(t)
    <2> SUFFICES ASSUME NEW s \in Cfg!Servers PROVE IsFiniteSet({s} \X (0..(Len(deps[s]) + 1)))
        OBVIOUS
    <2>1. PICK n \in Nat : n = Len(deps[s]) + 1
        BY DepsList
    <2>2. IsFiniteSet(0..n)
        BY FS_Interval
    <2>3. IsFiniteSet({s})
        BY FS_Singleton
    <2>4. IsFiniteSet({s} \X (0..n))
        BY <2>2, <2>3, FS_Product
    <2>5. QED
        BY <2>1, <2>4
<1>4. Marks([s \in Cfg!Servers |-> Len(deps[s]) + 2]) = UNION T
    <2>1. \A s \in Cfg!Servers : (Len(deps[s]) + 2) - 1 = Len(deps[s]) + 1
        BY DepsList
    <2>2. QED
        BY <2>1 DEF Marks
<1>5. Cfg!Turns(deps) = Cardinality(UNION T)
    BY CfgCardinality DEF Cfg!Turns
<1> HIDE DEF T
<1>6. IsFiniteSet(UNION T)
    BY <1>2, <1>3, FS_UNION
<1>7. Cardinality(UNION T) \in Nat
    BY <1>6, FS_CardinalityType
<1>8. QED
    BY <1>4, <1>5, <1>6, <1>7

\* Every turn that gets a call further adds a mark.
LEMMA MarksGrow ==
    ASSUME NEW deps \in DepsOf, NEW q, NEW r, Cfg!SearchType(deps, q), Cfg!SearchType(deps, r), Further(q, r)
    PROVE  /\ IsFiniteSet(Marks(q.at)) /\ Cardinality(Marks(q.at)) \in Nat
           /\ IsFiniteSet(Marks(r.at)) /\ Cardinality(Marks(r.at)) \in Nat
           /\ Cardinality(Marks(q.at)) < Cardinality(Marks(r.at))
<1> DEFINE A == Marks(q.at)
           B == Marks(r.at)
           all == Marks([s \in Cfg!Servers |-> Len(deps[s]) + 2])
<1>1. /\ q.at \in [Cfg!Servers -> Nat] /\ r.at \in [Cfg!Servers -> Nat]
      /\ \A s \in Cfg!Servers : q.at[s] <= r.at[s] /\ r.at[s] <= Len(deps[s]) + 2 /\ Len(deps[s]) \in Nat
    BY DepsList DEF Cfg!SearchType, Further
<1>2. A \in SUBSET B
    <2> SUFFICES ASSUME NEW s \in Cfg!Servers, NEW i \in 0..(q.at[s] - 1) PROVE i \in 0..(r.at[s] - 1)
        BY DEF Marks
    <2> QED BY <1>1
<1>3. B \in SUBSET all
    <2> SUFFICES ASSUME NEW s \in Cfg!Servers, NEW i \in 0..(r.at[s] - 1) PROVE i \in 0..((Len(deps[s]) + 2) - 1)
        BY DEF Marks
    <2> QED BY <1>1
<1>4. PICK s \in Cfg!Servers : q.at[s] < r.at[s]
    BY DEF Further
<1>5. q.at[s] \in 0..(r.at[s] - 1) /\ q.at[s] \notin 0..(q.at[s] - 1)
    BY <1>1, <1>4
<1>6. <<s, q.at[s]>> \in B
    BY <1>5 DEF Marks
<1>7. <<s, q.at[s]>> \notin A
    BY <1>5 DEF Marks
<1>8. IsFiniteSet(all)
    BY TurnsFinite
<1> HIDE DEF A, B, all
<1>9. IsFiniteSet(B)
    BY <1>3, <1>8, FS_Subset
<1>10. IsFiniteSet(A) /\ Cardinality(A) <= Cardinality(B) /\ (Cardinality(B) = Cardinality(A) => B = A)
    BY <1>2, <1>9, FS_Subset
<1>11. Cardinality(A) \in Nat /\ Cardinality(B) \in Nat
    BY <1>9, <1>10, FS_CardinalityType
<1>12. Cardinality(A) # Cardinality(B)
    BY <1>6, <1>7, <1>10
<1>13. QED
    BY <1>9, <1>10, <1>11, <1>12 DEF A, B

\* When everything is marked, every call has returned.
LEMMA AllMarked ==
    ASSUME NEW deps \in DepsOf, NEW q, Cfg!SearchInv(deps, q), Cardinality(Marks(q.at)) >= Cfg!Turns(deps)
    PROVE  Searched(deps, q)
<1> DEFINE A == Marks(q.at)
           all == Marks([s \in Cfg!Servers |-> Len(deps[s]) + 2])
<1>1. Cfg!SearchType(deps, q) /\ Cfg!StackInv(deps, q)
    BY DEF Cfg!SearchInv
<1>2. /\ q.at \in [Cfg!Servers -> Nat]
      /\ \A s \in Cfg!Servers : q.at[s] <= Len(deps[s]) + 2 /\ Len(deps[s]) \in Nat
    BY <1>1, DepsList DEF Cfg!SearchType
<1>3. A \in SUBSET all
    <2> SUFFICES ASSUME NEW s \in Cfg!Servers, NEW i \in 0..(q.at[s] - 1) PROVE i \in 0..((Len(deps[s]) + 2) - 1)
        BY DEF Marks
    <2> QED BY <1>2
<1>4. IsFiniteSet(all) /\ Cfg!Turns(deps) = Cardinality(all) /\ Cardinality(all) \in Nat
    BY TurnsFinite
<1>5. all = A
    <2> HIDE DEF A, all
    <2>1. IsFiniteSet(A) /\ Cardinality(A) <= Cardinality(all) /\ (Cardinality(all) = Cardinality(A) => all = A)
        BY <1>3, <1>4, FS_Subset
    <2>2. Cardinality(A) \in Nat
        BY <2>1, FS_CardinalityType
    <2>3. Cardinality(A) >= Cardinality(all)
        BY <1>4 DEF A
    <2>4. QED
        BY <1>4, <2>1, <2>2, <2>3
<1>6. ASSUME NEW s \in Cfg!Servers PROVE Cfg!Black(deps, q, s)
    <2>1. Len(deps[s]) + 1 \in 0..((Len(deps[s]) + 2) - 1)
        BY <1>2
    <2>2. <<s, Len(deps[s]) + 1>> \in all
        BY <2>1 DEF Marks
    <2>3. Len(deps[s]) + 1 \in 0..(q.at[s] - 1)
        BY <1>5, <2>2 DEF Marks
    <2>4. QED
        BY <1>2, <2>3 DEF Cfg!Black
<1>7. q.stack = <<>>
    <2> SUFFICES ASSUME q.stack # <<>> PROVE FALSE
        OBVIOUS
    <2>1. Cfg!Last(q.stack) \in Cfg!Servers /\ Cfg!Gray(deps, q, Cfg!Last(q.stack))
        BY <1>1, StackList DEF Cfg!StackInv
    <2>2. QED
        BY <1>6, <2>1 DEF Cfg!Gray
<1>8. QED
    BY <1>6, <1>7 DEF Searched

\* The search keeps its invariant, and within its turns every call returns.
LEMMA SearchEnds ==
    ASSUME NEW deps \in DepsOf
    PROVE  LET q == Cfg!Searches(deps, Names)[Cfg!Turns(deps)]
           IN  Cfg!SearchInv(deps, q) /\ Searched(deps, q)
<1> DEFINE n == Cfg!Turns(deps)
           g == Cfg!Searches(deps, Names)
           S == {k \in Nat : /\ Cfg!SearchInv(deps, g[k])
                             /\ Cardinality(Marks(g[k].at)) \in Nat
                             /\ k <= Cardinality(Marks(g[k].at)) \/ Searched(deps, g[k])}
<1>1. n \in Nat
    BY TurnsFinite
<1>2. g[0] = Cfg!NotSearched /\ \A k \in 0..(n - 1) : g[k + 1] = Cfg!dfs(deps, Names, g[k])
    BY <1>1, SearchesDef
<1>0. ASSUME NEW q, Cfg!SearchType(deps, q) PROVE Cardinality(Marks(q.at)) \in Nat
    <2> DEFINE A == Marks(q.at)
               all == Marks([s \in Cfg!Servers |-> Len(deps[s]) + 2])
    <2>1. /\ q.at \in [Cfg!Servers -> Nat]
          /\ \A s \in Cfg!Servers : q.at[s] <= Len(deps[s]) + 2 /\ Len(deps[s]) \in Nat
        BY <1>0, DepsList DEF Cfg!SearchType
    <2>2. A \in SUBSET all
        <3> SUFFICES ASSUME NEW s \in Cfg!Servers, NEW i \in 0..(q.at[s] - 1) PROVE i \in 0..((Len(deps[s]) + 2) - 1)
            BY DEF Marks
        <3> QED BY <2>1
    <2>3. IsFiniteSet(all)
        BY TurnsFinite
    <2> HIDE DEF A, all
    <2>4. QED
        BY <2>2, <2>3, FS_Subset, FS_CardinalityType DEF A
<1> HIDE DEF n, g
<1>3. 0 \in S
    <2>1. Cfg!SearchInv(deps, g[0])
        BY <1>2, SearchBegins
    <2>2. Cardinality(Marks(g[0].at)) \in Nat
        BY <1>0, <2>1 DEF Cfg!SearchInv
    <2>3. QED
        BY <2>1, <2>2
<1>4. ASSUME NEW k \in 0..(n - 1), k \in S PROVE k + 1 \in S
    <2>a. PICK q : q = g[k]
        OBVIOUS
    <2>b. PICK r : r = g[k + 1]
        OBVIOUS
    <2>1. /\ Cfg!SearchInv(deps, q) /\ Cardinality(Marks(q.at)) \in Nat
          /\ k <= Cardinality(Marks(q.at)) \/ Searched(deps, q)
        BY <1>4, <2>a
    <2>2. r = Cfg!dfs(deps, Names, q)
        BY <1>2, <2>a, <2>b
    <2>3. Cfg!SearchInv(deps, r) /\ (Further(q, r) \/ (Searched(deps, q) /\ r = q))
        BY <2>1, <2>2, SearchTurn
    <2>4. Cardinality(Marks(r.at)) \in Nat
        BY <1>0, <2>3 DEF Cfg!SearchInv
    <2>5. k + 1 <= Cardinality(Marks(r.at)) \/ Searched(deps, r)
        <3>1. CASE Searched(deps, q) /\ r = q
            BY <3>1
        <3>2. CASE Further(q, r)
            <4>1. Cardinality(Marks(q.at)) < Cardinality(Marks(r.at))
                BY <2>1, <2>3, <3>2, MarksGrow DEF Cfg!SearchInv
            <4>2. k <= Cardinality(Marks(q.at))
                <5> SUFFICES ASSUME Searched(deps, q) PROVE FALSE
                    BY <2>1
                <5>1. PICK s \in Cfg!Servers : q.at[s] < r.at[s]
                    BY <3>2 DEF Further
                <5>2. q.at[s] = Len(deps[s]) + 2 /\ r.at[s] <= Len(deps[s]) + 2 /\ r.at[s] \in Nat /\ Len(deps[s]) \in Nat
                    BY <2>3, DepsList DEF Searched, Cfg!Black, Cfg!SearchInv, Cfg!SearchType
                <5>3. QED
                    BY <5>1, <5>2
            <4>3. QED
                BY <2>1, <2>4, <4>1, <4>2
        <3>3. QED
            BY <2>3, <3>1, <3>2
    <2>6. QED
        BY <2>b, <2>3, <2>4, <2>5
<1>5. n \in S
    <2> HIDE DEF S
    <2>1. \A k \in 0..n : k \in S
        BY <1>1, <1>3, <1>4, UpTo
    <2>2. QED
        BY <1>1, <2>1
<1>6. Cfg!SearchInv(deps, g[n]) /\ (n <= Cardinality(Marks(g[n].at)) \/ Searched(deps, g[n]))
    BY <1>5
<1>7. CASE n <= Cardinality(Marks(g[n].at))
    <2>1. PICK q : q = g[n]
        OBVIOUS
    <2>2. Cardinality(Marks(q.at)) >= Cfg!Turns(deps)
        BY <1>0, <1>1, <1>6, <1>7, <2>1 DEF n, Cfg!SearchInv
    <2>3. Searched(deps, q)
        BY <1>6, <2>1, <2>2, AllMarked
    <2>4. QED
        BY <1>6, <2>1, <2>3 DEF n, g
<1>8. QED
    BY <1>6, <1>7 DEF n, g

\* The search finds a cycle exactly if there is one, and finds nothing else.
LEMMA CyclesFound ==
    ASSUME NEW deps \in DepsOf
    PROVE  /\ \A c \in Cfg!findDependencyCycles(deps) : c \in Seq(Cfg!Servers) /\ Cfg!IsCycle(deps, c)
           /\ Cfg!findDependencyCycles(deps) = {} <=> ~Cfg!Cyclic(deps)
<1>a. PICK q : q = Cfg!Searches(deps, Names)[Cfg!Turns(deps)]
    OBVIOUS
<1>1. Cfg!SearchInv(deps, q) /\ Searched(deps, q) /\ Cfg!findDependencyCycles(deps) = q.cycles
    BY <1>a, SearchEnds DEF Cfg!findDependencyCycles
<1>2. \A c \in q.cycles : c \in Seq(Cfg!Servers) /\ Cfg!IsCycle(deps, c)
    BY <1>1 DEF Cfg!SearchInv, Cfg!CyclesInv
<1>3. ASSUME q.cycles = {} PROVE ~Cfg!Cyclic(deps)
    <2>1. Cfg!IsBlack(deps, q) = Cfg!Servers
        BY <1>1 DEF Searched, Cfg!IsBlack
    <2>2. \A S \in SUBSET Cfg!Servers : Cfg!Circle(deps, S) => S = {}
        BY <1>1, <1>3, <2>1 DEF Cfg!SearchInv, Cfg!ClosedInv
    <2>3. QED
        BY <2>2 DEF Cfg!Cyclic, Cfg!Circle
<1>4. ASSUME NEW c \in q.cycles PROVE Cfg!Cyclic(deps)
    <2> DEFINE n == Len(c) - 1
               S == {c[i] : i \in 1..n}
    <2>1. c \in Seq(Cfg!Servers) /\ Cfg!IsCycle(deps, c)
        BY <1>2, <1>4
    <2>2. /\ n \in Nat /\ n >= 1 /\ Len(c) = n + 1 /\ c[1] = c[n + 1]
          /\ \A i \in 1..n : c[i + 1] \in Cfg!Range(deps[c[i]])
        BY <2>1, LenProperties DEF Cfg!IsCycle
    <2>3. \A i \in 1..n : c[i] \in Cfg!Servers
        BY <2>1, <2>2, ElementOfSeq
    <2> HIDE DEF n
    <2>4. S \in (SUBSET Cfg!Servers) \ {{}}
        BY <2>2, <2>3
    <2>5. ASSUME NEW i \in 1..n PROVE c[i + 1] \in S
        <3>1. CASE i = n
            BY <2>2, <3>1
        <3>2. CASE i # n
            <4>1. i + 1 \in 1..n
                BY <2>2, <3>2
            <4>2. QED
                BY <4>1
        <3>3. QED
            BY <3>1, <3>2
    <2>6. ASSUME NEW s \in S PROVE \E i \in DOMAIN deps[s] : deps[s][i] \in S
        <3>1. PICK i \in 1..n : c[i] = s
            BY <2>6
        <3>2. c[i + 1] \in Cfg!Range(deps[s]) /\ c[i + 1] \in S
            BY <2>2, <2>5, <3>1
        <3>3. QED
            BY <3>2 DEF Cfg!Range
    <2> HIDE DEF S
    <2>7. QED
        BY <2>4, <2>6 DEF Cfg!Cyclic
<1>5. QED
    BY <1>1, <1>2, <1>3, <1>4

-----------------------------------------------------------------------------
(* The readers of the compose file *)

\* A sequence of whatever is in it.
IsSeq(p) == p \in Seq(Cfg!Range(p))

\* Sequences put together.
LEMMA SeqConcat ==
    ASSUME NEW a, NEW b, IsSeq(a), IsSeq(b)
    PROVE  IsSeq(a \o b) /\ Cfg!Range(a \o b) = Cfg!Range(a) \cup Cfg!Range(b)
<1> DEFINE S == Cfg!Range(a) \cup Cfg!Range(b)
<1>1. a \in Seq(S) /\ b \in Seq(S)
    BY SeqMonotonic DEF IsSeq
<1>2. \A f : Ins!Range(f) = Cfg!Range(f)
    BY DEF Ins!Range, Cfg!Range
<1> HIDE DEF S
<1>3. a \o b \in Seq(S) /\ Cfg!Range(a \o b) = Cfg!Range(a) \cup Cfg!Range(b)
    BY <1>1, <1>2, RangeOfConcat
<1>4. QED
    BY <1>3 DEF S, IsSeq

\* An empty one has no elements, and only that.
LEMMA SeqEmpty ==
    ASSUME NEW a, IsSeq(a)
    PROVE  a = <<>> <=> Cfg!Range(a) = {}
<1>1. Len(a) \in Nat /\ DOMAIN a = 1..Len(a) /\ (Len(a) = 0 <=> a = <<>>)
    BY LenProperties, EmptySeq DEF IsSeq
<1>2. CASE a = <<>>
    <2>1. DOMAIN a = {}
        BY <1>2
    <2>2. QED
        BY <1>2, <2>1 DEF Cfg!Range
<1>3. CASE a # <<>>
    <2>1. 1 \in DOMAIN a
        BY <1>1, <1>3
    <2>2. a[1] \in Cfg!Range(a)
        BY <2>1 DEF Cfg!Range
    <2>3. QED
        BY <1>3, <2>2
<1>4. QED
    BY <1>2, <1>3

\* A function of 1 to n is one.
LEMMA SeqOfFunction ==
    ASSUME NEW n \in Nat, NEW f, f = [i \in 1..n |-> f[i]]
    PROVE  IsSeq(f)
<1>1. DOMAIN f = 1..n
    OBVIOUS
<1>2. f \in [1..n -> Cfg!Range(f)]
    BY <1>1 DEF Cfg!Range
<1>3. QED
    BY <1>2, SeqDef DEF IsSeq

\* A list of problems: none, or 1 to n.
IsList(p) == \E n \in Nat : DOMAIN p = 1..n

\* What a rule returns.
LEMMA RuleLists ==
    /\ \A p : IsList(Cfg!First(p))
    /\ IsList(<<>>)
<1>1. IsList(<<>>)
    <2>1. 0 \in Nat /\ DOMAIN <<>> = 1..0
        OBVIOUS
    <2>2. QED
        BY <2>1 DEF IsList
<1>2. \A h : IsList(<<h>>)
    <2>1. 1 \in Nat /\ \A h : DOMAIN <<h>> = 1..1
        OBVIOUS
    <2>2. QED
        BY <2>1 DEF IsList
<1>3. QED
    BY <1>1, <1>2 DEF Cfg!First

\* The problems at a path.
LEMMA ListAt ==
    ASSUME NEW path, NEW p, IsList(p)
    PROVE  /\ IsSeq(Cfg!At(path, p))
           /\ \A e \in Cfg!Range(Cfg!At(path, p)) : e.path = path /\ e.cycle = <<>>
<1>1. PICK n \in Nat : DOMAIN p = 1..n
    BY DEF IsList
<1>2. PICK f : f = [i \in 1..n |-> [path |-> path, what |-> p[i], cycle |-> <<>>]]
    OBVIOUS
<1>3. Cfg!At(path, p) = f
    BY <1>1, <1>2 DEF Cfg!At
<1>4. IsSeq(f)
    BY <1>2, SeqOfFunction
<1>5. QED
    BY <1>2, <1>3, <1>4 DEF Cfg!Range

\* The problems outside the servers.
LEMMA ListGlobal ==
    ASSUME NEW p, IsList(p)
    PROVE  /\ IsSeq(Cfg!globalErrorPath(p))
           /\ \A e \in Cfg!Range(Cfg!globalErrorPath(p)) : (\E w : e.path = <<w>>) /\ e.cycle = <<>>
<1>1. PICK n \in Nat : DOMAIN p = 1..n
    BY DEF IsList
<1>2. PICK f : f = [i \in 1..n |-> [path |-> <<p[i]>>, what |-> p[i], cycle |-> <<>>]]
    OBVIOUS
<1>3. Cfg!globalErrorPath(p) = f
    BY <1>1, <1>2 DEF Cfg!globalErrorPath
<1>4. IsSeq(f)
    BY <1>2, SeqOfFunction
<1>5. QED
    BY <1>2, <1>3, <1>4 DEF Cfg!Range

\* The first that has problems, of some in order.
LEMMA FirstFound ==
    ASSUME NEW f, DOMAIN f \subseteq Nat
    PROVE  IF \E i \in DOMAIN f : f[i] # <<>>
           THEN \E i \in DOMAIN f : f[i] # <<>> /\ Cfg!FirstWith(f) = f[i]
           ELSE Cfg!FirstWith(f) = <<>>
<1> DEFINE bad == {i \in DOMAIN f : f[i] # <<>>}
           b == CHOOSE i \in bad : \A j \in bad : i <= j
<1>1. CASE bad = {}
    BY <1>1 DEF Cfg!FirstWith
<1>2. CASE bad # {}
    <2>1. bad \in SUBSET Nat
        OBVIOUS
    <2>2. b \in bad
        <3> HIDE DEF bad
        <3> QED BY <1>2, <2>1, LeastNatural
    <2>3. Cfg!FirstWith(f) = f[b]
        BY <1>2 DEF Cfg!FirstWith
    <2> HIDE DEF b
    <2>4. QED
        BY <2>2, <2>3
<1>3. QED
    BY <1>1, <1>2

\* The first of some problems.
LEMMA FirstOne ==
    ASSUME NEW p, IsSeq(p)
    PROVE  /\ Cfg!Range(Cfg!First(p)) \subseteq Cfg!Range(p)
           /\ Cfg!First(p) = <<>> <=> p = <<>>
<1>1. CASE p = <<>>
    BY <1>1 DEF Cfg!First
<1>2. CASE p # <<>>
    <2>1. Head(p) = p[1] /\ 1 \in DOMAIN p
        BY <1>2 DEF IsSeq
    <2>2. Cfg!First(p) = <<Head(p)>>
        BY <1>2 DEF Cfg!First
    <2>3. Cfg!Range(<<Head(p)>>) = {Head(p)} /\ <<Head(p)>> # <<>>
        BY DEF Cfg!Range
    <2>4. QED
        BY <1>2, <2>1, <2>2, <2>3 DEF Cfg!Range
<1>3. QED
    BY <1>1, <1>2

\* The undefined dependencies of a list.
LEMMA ListUndefined ==
    ASSUME NEW deps \in Seq(Cfg!Servers \cup {Undefined})
    PROVE  IsList(Cfg!undefinedDependencies(deps))
<1> DEFINE D == {i \in DOMAIN deps : deps[i] \notin Cfg!Servers}
<1>1. Len(deps) \in Nat /\ DOMAIN deps = 1..Len(deps)
    BY LenProperties
<1>2. IsFiniteSet(1..Len(deps)) /\ D \subseteq 1..Len(deps)
    BY <1>1, FS_Interval
<1>3. IsFiniteSet(D)
    BY <1>2, FS_Subset
<1>4. Cardinality(D) \in Nat
    BY <1>3, FS_CardinalityType
<1>5. DOMAIN Cfg!undefinedDependencies(deps) = 1..Cardinality(D)
    BY CfgCardinality DEF Cfg!undefinedDependencies
<1>6. QED
    BY <1>4, <1>5 DEF IsList

\* The problems of the tools of a server.
LEMMA ListTools ==
    ASSUME NEW tools, DOMAIN tools \subseteq Nat
    PROVE  IsList(Cfg!validateToolsConfig(tools))
<1> DEFINE rule(i) ==
        Cfg!First(Cfg!Problem(tools[i].name = Cfg!Absent, "name")
              \o Cfg!Problem(\E j \in 1 .. i - 1 : tools[j].name = tools[i].name, "duplicate")
              \o Cfg!Problem(tools[i].timeout = "bad", "timeout"))
<1>1. PICK f : f = [i \in DOMAIN tools |-> rule(i)]
    OBVIOUS
<1>2. Cfg!validateToolsConfig(tools) = Cfg!FirstWith(f)
    BY <1>1 DEF Cfg!validateToolsConfig
<1>3. \A i \in DOMAIN tools : IsList(rule(i))
    BY RuleLists
<1> HIDE DEF rule
<1>4. DOMAIN f \subseteq Nat /\ \A i \in DOMAIN f : IsList(f[i])
    BY <1>1, <1>3
<1>5. QED
    BY <1>2, <1>4, FirstFound, RuleLists

\* The problems of a server are at paths in it, and none is a cycle.
PathIn(s, path) == \E p : IsSeq(p) /\ path = <<"servers", s>> \o p

InServer(s, problems) == \A e \in Cfg!Range(problems) : PathIn(s, e.path) /\ e.cycle = <<>>

\* The parts of a path are sequences.
LEMMA PartsOfPaths ==
    /\ IsSeq(<<>>)
    /\ \A f : IsSeq(<<f>>)
    /\ \A f, g : IsSeq(<<f, g>>)
<1>1. IsSeq(<<>>)
    BY DEF IsSeq
<1>2. ASSUME NEW f
      PROVE  IsSeq(<<f>>)
    <2>1. 1 \in Nat /\ <<f>> = [i \in 1..1 |-> <<f>>[i]]
        OBVIOUS
    <2>2. PICK h : h = <<f>>
        OBVIOUS
    <2>3. h = [i \in 1..1 |-> h[i]]
        BY <2>1, <2>2
    <2>4. QED
        BY <2>1, <2>2, <2>3, SeqOfFunction
<1>3. ASSUME NEW f, NEW g
      PROVE  IsSeq(<<f, g>>)
    <2>1. 2 \in Nat /\ <<f, g>> = [i \in 1..2 |-> <<f, g>>[i]]
        OBVIOUS
    <2>2. PICK h : h = <<f, g>>
        OBVIOUS
    <2>3. h = [i \in 1..2 |-> h[i]]
        BY <2>1, <2>2
    <2>4. QED
        BY <2>1, <2>2, <2>3, SeqOfFunction
<1>4. QED
    BY <1>1, <1>2, <1>3

\* The problems of one rule on a server.
LEMMA ListIn ==
    ASSUME NEW s, NEW part_, IsSeq(part_), NEW p, IsList(p), NEW q, q = Cfg!At(<<"servers", s>> \o part_, p)
    PROVE  IsSeq(q) /\ InServer(s, q)
<1>1. PICK path : path = <<"servers", s>> \o part_
    OBVIOUS
<1>2. PathIn(s, path)
    BY <1>1 DEF PathIn
<1>3. IsSeq(Cfg!At(path, p)) /\ \A e \in Cfg!Range(Cfg!At(path, p)) : e.path = path /\ e.cycle = <<>>
    BY ListAt
<1>4. QED
    BY <1>1, <1>2, <1>3 DEF InServer

\* The problems of two rules together.
LEMMA InConcat ==
    ASSUME NEW s, NEW a, NEW b, IsSeq(a), IsSeq(b), InServer(s, a), InServer(s, b)
    PROVE  IsSeq(a \o b) /\ InServer(s, a \o b)
BY SeqConcat DEF InServer

\* The problems of all the rules on a server.
LEMMA ProblemsIn ==
    ASSUME NEW cfg, NEW s, cfg.servers[s].deps \in Seq(Cfg!Servers \cup {Undefined}),
           DOMAIN cfg.servers[s].tools \subseteq Nat
    PROVE  IsSeq(Cfg!ServerProblems(cfg, s)) /\ InServer(s, Cfg!ServerProblems(cfg, s))
<1> DEFINE server == cfg.servers[s]
           I(part_, problems) == Cfg!At(<<"servers", s>> \o part_, problems)
           fine(q) == IsSeq(q) /\ InServer(s, q)
<1>1. PICK a : a = I(<<>>, Cfg!validateServerConfig(server))
    OBVIOUS
<1>2. PICK b : b = I(<<"depends_on">>, Cfg!undefinedDependencies(server.deps))
    OBVIOUS
<1>3. PICK c : c = I(<<"lifecycle", "human_control">>, Cfg!IfPresent(server.human, Cfg!validateHumanControlConfig))
    OBVIOUS
<1>4. PICK d : d = I(<<"resources">>, Cfg!validateResourcePaths(server))
    OBVIOUS
<1>5. PICK e : e = I(<<"tools">>, Cfg!validateToolsConfig(server.tools))
    OBVIOUS
<1>6. PICK f : f = I(<<"security">>, Cfg!validateSecurityConfig(server))
    OBVIOUS
<1>7. PICK g : g = I(<<"deploy", "resources">>, Cfg!validateResourceLimits(server))
    OBVIOUS
<1>8. Cfg!ServerProblems(cfg, s) = a \o b \o c \o d \o e \o f \o g
    BY <1>1, <1>2, <1>3, <1>4, <1>5, <1>6, <1>7 DEF Cfg!ServerProblems
<1>9. fine(a)
    <2>1. PICK p : p = Cfg!validateServerConfig(server)
        OBVIOUS
    <2>2. IsList(p)
        BY <2>1, RuleLists DEF Cfg!validateServerConfig
    <2>3. PICK at : at = <<>>
        OBVIOUS
    <2> IsSeq(at)
        BY <2>3, PartsOfPaths
    <2>4. a = Cfg!At(<<"servers", s>> \o at, p)
        BY <1>1, <2>1, <2>3
    <2>5. QED
        BY <2>2, <2>4, ListIn
<1>10. fine(b)
    <2>1. PICK p : p = Cfg!undefinedDependencies(server.deps)
        OBVIOUS
    <2>2. IsList(p)
        BY <2>1, ListUndefined
    <2>3. PICK at : at = <<"depends_on">>
        OBVIOUS
    <2> IsSeq(at)
        BY <2>3, PartsOfPaths
    <2>4. b = Cfg!At(<<"servers", s>> \o at, p)
        BY <1>2, <2>1, <2>3
    <2>5. QED
        BY <2>2, <2>4, ListIn
<1>11. fine(c)
    <2>1. PICK p : p = Cfg!IfPresent(server.human, Cfg!validateHumanControlConfig)
        OBVIOUS
    <2>2. IsList(p)
        BY <2>1, RuleLists DEF Cfg!IfPresent, Cfg!validateHumanControlConfig
    <2>3. PICK at : at = <<"lifecycle", "human_control">>
        OBVIOUS
    <2> IsSeq(at)
        BY <2>3, PartsOfPaths
    <2>4. c = Cfg!At(<<"servers", s>> \o at, p)
        BY <1>3, <2>1, <2>3
    <2>5. QED
        BY <2>2, <2>4, ListIn
<1>12. fine(d)
    <2>1. PICK p : p = Cfg!validateResourcePaths(server)
        OBVIOUS
    <2>2. IsList(p)
        BY <2>1, RuleLists DEF Cfg!validateResourcePaths
    <2>3. PICK at : at = <<"resources">>
        OBVIOUS
    <2> IsSeq(at)
        BY <2>3, PartsOfPaths
    <2>4. d = Cfg!At(<<"servers", s>> \o at, p)
        BY <1>4, <2>1, <2>3
    <2>5. QED
        BY <2>2, <2>4, ListIn
<1>13. fine(e)
    <2>1. PICK p : p = Cfg!validateToolsConfig(server.tools)
        OBVIOUS
    <2>2. IsList(p)
        BY <2>1, ListTools
    <2>3. PICK at : at = <<"tools">>
        OBVIOUS
    <2> IsSeq(at)
        BY <2>3, PartsOfPaths
    <2>4. e = Cfg!At(<<"servers", s>> \o at, p)
        BY <1>5, <2>1, <2>3
    <2>5. QED
        BY <2>2, <2>4, ListIn
<1>14. fine(f)
    <2>1. PICK p : p = Cfg!validateSecurityConfig(server)
        OBVIOUS
    <2>2. IsList(p)
        BY <2>1, RuleLists DEF Cfg!validateSecurityConfig
    <2>3. PICK at : at = <<"security">>
        OBVIOUS
    <2> IsSeq(at)
        BY <2>3, PartsOfPaths
    <2>4. f = Cfg!At(<<"servers", s>> \o at, p)
        BY <1>6, <2>1, <2>3
    <2>5. QED
        BY <2>2, <2>4, ListIn
<1>15. fine(g)
    <2>1. PICK p : p = Cfg!validateResourceLimits(server)
        OBVIOUS
    <2>2. IsList(p)
        BY <2>1, RuleLists DEF Cfg!validateResourceLimits
    <2>3. PICK at : at = <<"deploy", "resources">>
        OBVIOUS
    <2> IsSeq(at)
        BY <2>3, PartsOfPaths
    <2>4. g = Cfg!At(<<"servers", s>> \o at, p)
        BY <1>7, <2>1, <2>3
    <2>5. QED
        BY <2>2, <2>4, ListIn
<1>16. fine(a \o b)
    BY <1>9, <1>10, InConcat
<1>17. fine(a \o b \o c)
    BY <1>16, <1>11, InConcat
<1>18. fine(a \o b \o c \o d)
    BY <1>17, <1>12, InConcat
<1>19. fine(a \o b \o c \o d \o e)
    BY <1>18, <1>13, InConcat
<1>20. fine(a \o b \o c \o d \o e \o f)
    BY <1>19, <1>14, InConcat
<1>21. QED
    BY <1>8, <1>20, <1>15, InConcat

\* The map of the servers can be walked, and every walk comes to all of them.
LEMMA OrdersWalkAll ==
    /\ \E order : order \in Cfg!Orders
    /\ \A order \in Cfg!Orders :
           /\ DOMAIN order \subseteq Nat
           /\ \A i \in DOMAIN order : order[i] \in Cfg!Servers
           /\ \A s \in Cfg!Servers : \E i \in DOMAIN order : order[i] = s
<1>1. PICK n : n = Cardinality(Cfg!Servers)
    OBVIOUS
<1>2. n \in Nat /\ ExistsBijection(1..n, Cfg!Servers)
    BY <1>1, ServersFinite, FS_CardinalityType
<1>3. Cfg!Orders = {f \in [1..n -> Cfg!Servers] : \A i, j \in 1..n : i # j => f[i] # f[j]}
    BY <1>1, CfgCardinality DEF Cfg!Orders, Cfg!SetToSeqs
<1>4. \E order : order \in Cfg!Orders
    <2>1. PICK f : f \in Bijection(1..n, Cfg!Servers)
        BY <1>2 DEF ExistsBijection
    <2>2. f \in Cfg!Orders
        BY <1>3, <2>1 DEF Bijection, Injection, Surjection, IsInjective
    <2>3. QED
        BY <2>2
<1>5. ASSUME NEW order \in Cfg!Orders
      PROVE  /\ DOMAIN order \subseteq Nat
             /\ \A i \in DOMAIN order : order[i] \in Cfg!Servers
             /\ \A s \in Cfg!Servers : \E i \in DOMAIN order : order[i] = s
    <2>1. order \in [1..n -> Cfg!Servers] /\ \A i, j \in 1..n : i # j => order[i] # order[j]
        BY <1>3
    <2>2. order \in Injection(1..n, Cfg!Servers)
        BY <2>1 DEF Injection, IsInjective
    <2>3. Cardinality(1..n) = n
        BY <1>2, FS_Interval
    <2>4. order \in Surjection(1..n, Cfg!Servers)
        BY <1>1, <2>2, <2>3, ServersFinite, FS_Injection
    <2>5. QED
        BY <1>2, <2>1, <2>4 DEF Surjection
<1>6. QED
    BY <1>4, <1>5

\* What is in a configuration the rules can be applied to.
Ruled(cfg) ==
    \A s \in Cfg!Servers : /\ cfg.servers[s].deps \in Seq(Cfg!Servers \cup {Undefined})
                           /\ DOMAIN cfg.servers[s].tools \subseteq Nat

\* The problems without the cycles.
Rules(cfg) ==
    Cfg!Range(Cfg!globalErrorPath(Cfg!validateVersion(cfg)))
    \cup (UNION {Cfg!Range(Cfg!ServerProblems(cfg, s)) : s \in Cfg!Servers})
    \cup Cfg!Range(Cfg!globalErrorPath(Cfg!validateGlobalConfig(cfg)))

\* A problem outside the servers has a path of one element.
Global(problems) == \A e \in Cfg!Range(problems) : (\E w : e.path = <<w>>) /\ e.cycle = <<>>

\* Those of the version and of the global part are such.
LEMMA GlobalProblems ==
    ASSUME NEW cfg
    PROVE  /\ IsSeq(Cfg!globalErrorPath(Cfg!validateVersion(cfg)))
           /\ Global(Cfg!globalErrorPath(Cfg!validateVersion(cfg)))
           /\ IsSeq(Cfg!globalErrorPath(Cfg!validateGlobalConfig(cfg)))
           /\ Global(Cfg!globalErrorPath(Cfg!validateGlobalConfig(cfg)))
<1>1. IsList(Cfg!validateVersion(cfg))
    <2>1. 1 \in Nat /\ DOMAIN <<"version">> = 1..1
        OBVIOUS
    <2>2. IsList(<<"version">>)
        BY <2>1 DEF IsList
    <2>3. QED
        BY <2>2, RuleLists DEF Cfg!validateVersion, Cfg!Problem
<1>2. IsList(Cfg!validateGlobalConfig(cfg))
    BY RuleLists DEF Cfg!validateGlobalConfig
<1>3. PICK a, b : a = Cfg!validateVersion(cfg) /\ b = Cfg!validateGlobalConfig(cfg)
    OBVIOUS
<1>4. \A p : IsList(p) => IsSeq(Cfg!globalErrorPath(p)) /\ Global(Cfg!globalErrorPath(p))
    BY ListGlobal DEF Global
<1>5. QED
    BY <1>1, <1>2, <1>3, <1>4

\* LoadConfig stops at one of the problems, if there is any.
LEMMA LoadStops ==
    ASSUME NEW cfg, Ruled(cfg), NEW order \in Cfg!Orders
    PROVE  /\ Cfg!Range(Cfg!ValidateConfig(cfg, order)) \subseteq Rules(cfg)
           /\ Cfg!ValidateConfig(cfg, order) = <<>> <=> Rules(cfg) = {}
           /\ Cfg!Range(Cfg!ValidateConfig(cfg, order)) = {} => Cfg!ValidateConfig(cfg, order) = <<>>
<1>1. PICK a, c : /\ a = Cfg!globalErrorPath(Cfg!validateVersion(cfg))
                  /\ c = Cfg!globalErrorPath(Cfg!validateGlobalConfig(cfg))
    OBVIOUS
<1>2. IsSeq(a) /\ IsSeq(c)
    BY <1>1, GlobalProblems
<1>3. PICK f : f = [i \in DOMAIN order |-> Cfg!ServerProblems(cfg, order[i])]
    OBVIOUS
<1>4. PICK b : b = Cfg!FirstWith(f)
    OBVIOUS
<1>5. \A s \in Cfg!Servers : IsSeq(Cfg!ServerProblems(cfg, s))
    BY ProblemsIn DEF Ruled
<1>6. /\ DOMAIN f \subseteq Nat
      /\ \A i \in DOMAIN f : order[i] \in Cfg!Servers /\ f[i] = Cfg!ServerProblems(cfg, order[i]) /\ IsSeq(f[i])
      /\ \A s \in Cfg!Servers : \E i \in DOMAIN f : f[i] = Cfg!ServerProblems(cfg, s)
    BY <1>3, <1>5, OrdersWalkAll
<1> DEFINE B == UNION {Cfg!Range(Cfg!ServerProblems(cfg, s)) : s \in Cfg!Servers}
<1>7. IsSeq(b) /\ Cfg!Range(b) \subseteq B /\ (b = <<>> <=> B = {})
    <2>1. CASE \E i \in DOMAIN f : f[i] # <<>>
        <3>1. PICK i \in DOMAIN f : f[i] # <<>> /\ b = f[i]
            BY <1>4, <1>6, <2>1, FirstFound
        <3>2. IsSeq(b) /\ b # <<>> /\ Cfg!Range(b) \subseteq B
            BY <1>6, <3>1
        <3>3. Cfg!Range(b) # {}
            BY <3>2, SeqEmpty
        <3>4. QED
            BY <3>2, <3>3
    <2>2. CASE ~(\E i \in DOMAIN f : f[i] # <<>>)
        <3>1. b = <<>>
            BY <1>4, <1>6, <2>2, FirstFound
        <3>2. IsSeq(<<>>)
            BY PartsOfPaths
        <3>3. Cfg!Range(<<>>) = {}
            BY <3>2, SeqEmpty
        <3>4. \A s \in Cfg!Servers : Cfg!ServerProblems(cfg, s) = <<>>
            BY <1>6, <2>2
        <3>5. B = {}
            BY <3>3, <3>4
        <3>6. QED
            BY <3>1, <3>2, <3>3, <3>5
    <2>3. QED
        BY <2>1, <2>2
<1>8. Rules(cfg) = Cfg!Range(a) \cup B \cup Cfg!Range(c)
    BY <1>1 DEF Rules
<1> HIDE DEF B
<1>9. IsSeq(a \o b) /\ Cfg!Range(a \o b) = Cfg!Range(a) \cup Cfg!Range(b)
    BY <1>2, <1>7, SeqConcat
<1>10. PICK ab : ab = a \o b
    OBVIOUS
<1>11. IsSeq(ab \o c) /\ Cfg!Range(ab \o c) = Cfg!Range(ab) \cup Cfg!Range(c)
    BY <1>2, <1>9, <1>10, SeqConcat
<1>12. PICK p : p = ab \o c
    OBVIOUS
<1>13. IsSeq(p) /\ Cfg!Range(p) = Cfg!Range(a) \cup Cfg!Range(b) \cup Cfg!Range(c)
    BY <1>9, <1>10, <1>11, <1>12
<1>14. Cfg!Range(p) \subseteq Rules(cfg) /\ (p = <<>> <=> Rules(cfg) = {})
    <2>1. p = <<>> <=> Cfg!Range(p) = {}
        BY <1>13, SeqEmpty
    <2>2. b = <<>> <=> Cfg!Range(b) = {}
        BY <1>7, SeqEmpty
    <2>3. QED
        BY <1>7, <1>8, <1>13, <2>1, <2>2
<1>15. Cfg!ValidateConfig(cfg, order) = Cfg!First(p)
    BY <1>1, <1>3, <1>4, <1>10, <1>12 DEF Cfg!ValidateConfig
<1>16. Cfg!Range(Cfg!First(p)) \subseteq Cfg!Range(p) /\ (Cfg!First(p) = <<>> <=> p = <<>>)
    BY <1>13, FirstOne
<1>17. Cfg!Range(Cfg!First(p)) = {} => Cfg!First(p) = <<>>
    <2>1. SUFFICES ASSUME Cfg!First(p) # <<>> PROVE Cfg!Range(Cfg!First(p)) # {}
        OBVIOUS
    <2>2. Cfg!First(p) = <<Head(p)>>
        BY <2>1 DEF Cfg!First
    <2>3. QED
        BY <2>2 DEF Cfg!Range
<1>18. QED
    BY <1>14, <1>15, <1>16, <1>17

\* The cycles as problems.
CircularProblems(cfg) ==
    {[path |-> <<"servers", c[1], "depends_on">>, what |-> "circular", cycle |-> c] :
        c \in Cfg!findDependencyCycles(Cfg!Dependencies(cfg))}

\* ValidateFile reports both.
LEMMA AllProblems ==
    ASSUME NEW cfg
    PROVE  Cfg!collectValidationErrors(cfg) = Rules(cfg) \cup CircularProblems(cfg)
<1>1. PICK a, b, c, d :
        /\ a = Cfg!Range(Cfg!globalErrorPath(Cfg!validateVersion(cfg)))
        /\ b = UNION {Cfg!Range(Cfg!ServerProblems(cfg, s)) : s \in Cfg!Servers}
        /\ c = Cfg!Range(Cfg!globalErrorPath(Cfg!validateGlobalConfig(cfg)))
        /\ d = CircularProblems(cfg)
    OBVIOUS
<1>2. Rules(cfg) = a \cup b \cup c
    BY <1>1 DEF Rules
<1>3. Cfg!collectValidationErrors(cfg) = a \cup b \cup d \cup c
    BY <1>1 DEF CircularProblems, Cfg!collectValidationErrors
<1>4. QED
    BY <1>1, <1>2, <1>3

\* The greatest of some numbers up to n.
LEMMA GreatestUpTo ==
    ASSUME NEW n \in Nat, NEW T \in SUBSET (0..n), NEW k \in T
    PROVE  \E g \in T : \A m \in T : m <= g
<1> DEFINE D == {d \in Nat : n - d \in T}
<1>1. D \in SUBSET Nat /\ n - k \in D
    OBVIOUS
<1>2. PICK d \in D : \A e \in D : d <= e
    <2> HIDE DEF D
    <2> QED BY <1>1, LeastNatural
<1>3. \A m \in T : n - m \in D
    OBVIOUS
<1>4. QED
    BY <1>2, <1>3

\* The first two elements of a sequence,
LEMMA FirstTwo ==
    ASSUME NEW S, NEW t \in Seq(S), Len(t) >= 2
    PROVE  SubSeq(t, 1, 2) = <<t[1], t[2]>>
<1>1. Len(t) \in Nat /\ \A i \in 1..Len(t) : t[i] \in S
    BY LenProperties, ElementOfSeq
<1>2. PICK a, b : a = t[1] /\ b = t[2]
    OBVIOUS
<1>3. a \in S /\ b \in S
    BY <1>1, <1>2
<1>4. PICK q : q = SubSeq(t, 1, 2)
    OBVIOUS
<1>5. PICK two : two = 2
    OBVIOUS
<1>6. \A i \in 1..two : t[i] \in S
    BY <1>1, <1>5
<1>7. q \in Seq(S) /\ Len(q) = two /\ \A i \in 1..two : q[i] = t[i]
    BY <1>4, <1>5, <1>6, SubSeqProperties
<1>8. PICK r : r = <<a, b>>
    OBVIOUS
<1>9. r \in Seq(S) /\ Len(r) = two /\ r[1] = a /\ r[2] = b
    BY <1>3, <1>5, <1>8
<1>10. \A i \in 1..Len(q) : q[i] = r[i]
    BY <1>2, <1>5, <1>7, <1>9
<1>11. q = r
    BY <1>7, <1>9, <1>10, SeqEqual
<1>12. QED
    BY <1>2, <1>4, <1>8, <1>11

\* and of a longer beginning of it.
LEMMA FirstTwoOfPrefix ==
    ASSUME NEW S, NEW t \in Seq(S), NEW n \in Nat, n >= 2, n <= Len(t)
    PROVE  SubSeq(SubSeq(t, 1, n), 1, 2) = <<t[1], t[2]>>
<1>1. Len(t) \in Nat /\ \A i \in 1..Len(t) : t[i] \in S
    BY LenProperties, ElementOfSeq
<1>2. PICK q : q = SubSeq(t, 1, n)
    OBVIOUS
<1>3. \A i \in 1..n : t[i] \in S
    BY <1>1
<1>4. q \in Seq(S) /\ Len(q) = n /\ \A i \in 1..n : q[i] = t[i]
    BY <1>2, <1>3, SubSeqProperties
<1>5. SubSeq(q, 1, 2) = <<q[1], q[2]>>
    BY <1>4, FirstTwo
<1>6. QED
    BY <1>2, <1>4, <1>5

\* Two sequences put together begin as the first.
LEMMA ConcatHead ==
    ASSUME NEW S, NEW a \in Seq(S), NEW b \in Seq(S)
    PROVE  /\ a \o b \in Seq(S) /\ Len(a \o b) = Len(a) + Len(b)
           /\ \A i \in 1..Len(a) : (a \o b)[i] = a[i]
OBVIOUS

\* A problem of a server is placed in it.
LEMMA PlacedInServer ==
    ASSUME NEW f, NEW s \in Cfg!Servers, NEW path, PathIn(s, path)
    PROVE  SubSeq(Cfg!lookup(Cfg!buildLineIndex(f), path), 1, 2) = SubSeq(path, 1, 2)
<1>1. PICK p : IsSeq(p) /\ path = <<"servers", s>> \o p
    BY DEF PathIn
<1>2. PICK h, servers : servers = "servers" /\ h = <<servers, s>>
    OBVIOUS
<1>3. PICK S : S = {servers, s} \cup Cfg!Range(p)
    OBVIOUS
<1>4. h \in Seq(S) /\ Len(h) = 1 + 1 /\ h[1] = servers /\ h[1 + 1] = s
    <2>1. servers \in S /\ s \in S
        BY <1>3
    <2>2. QED
        BY <1>2, <2>1
<1>5. p \in Seq(S)
    BY <1>1, <1>3, SeqMonotonic DEF IsSeq
<1>6. path \in Seq(S) /\ Len(path) = 1 + 1 + Len(p) /\ path[1] = servers /\ path[1 + 1] = s /\ Len(p) \in Nat
    <2>1. path = h \o p
        BY <1>1, <1>2
    <2>2. Len(p) \in Nat
        BY <1>5, LenProperties
    <2>3. path \in Seq(S) /\ Len(path) = Len(h) + Len(p) /\ \A i \in 1..Len(h) : path[i] = h[i]
        BY <1>4, <1>5, <2>1, ConcatHead
    <2>4. QED
        BY <1>4, <2>2, <2>3
<1>7. SubSeq(path, 1, 2) = <<"servers", s>>
    <2>1. Len(path) >= 2 /\ path[1] = servers /\ path[2] = s
        BY <1>6
    <2>2. SubSeq(path, 1, 2) = <<path[1], path[2]>>
        BY <1>6, <2>1, FirstTwo
    <2>3. QED
        BY <1>2, <2>1, <2>2
<1> DEFINE index == Cfg!buildLineIndex(f)
<1>8. <<"servers", s>> \in index
    <2>1. "source" \in DOMAIN Cfg!GoodServer /\ Cfg!PartOf("source") = <<>>
        BY DEF Cfg!GoodServer, Cfg!PartOf
    <2>2. PICK keys : keys = {<<"servers", s>> \o Cfg!PartOf(field) :
                    field \in {g \in DOMAIN Cfg!GoodServer : f.servers[s][g] # Cfg!GoodServer[g] \/ Cfg!PartOf(g) = <<>>}}
        OBVIOUS
    <2>3. <<"servers", s>> \o <<>> \in keys
        BY <2>1, <2>2
    <2>4. h \o <<>> = h
        BY <1>4, ConcatEmptySeq
    <2>5. keys \subseteq index
        BY <2>2 DEF Cfg!buildLineIndex
    <2>6. QED
        BY <1>2, <2>3, <2>4, <2>5
<1> DEFINE T == {n \in 0..Len(path) : n = 0 \/ SubSeq(path, 1, n) \in index}
           g == CHOOSE n \in T : \A m \in T : m <= n
<1>9. Len(path) \in Nat /\ T \in SUBSET (0..Len(path)) /\ 2 \in T
    <2>1. Len(path) \in Nat /\ Len(path) >= 2
        BY <1>6
    <2>2. SubSeq(path, 1, 2) \in index
        BY <1>7, <1>8
    <2>3. QED
        BY <2>1, <2>2
<1>10. Cfg!lookup(index, path) = SubSeq(path, 1, g)
    BY DEF Cfg!lookup
<1> HIDE DEF T, index
<1>11. g \in T /\ \A m \in T : m <= g
    BY <1>9, GreatestUpTo
<1> HIDE DEF g
<1>12. g \in Nat /\ g >= 2 /\ g <= Len(path)
    BY <1>9, <1>11
<1>13. SubSeq(SubSeq(path, 1, g), 1, 2) = <<path[1], path[2]>>
    BY <1>6, <1>12, FirstTwoOfPrefix
<1>14. path[2] = s
    BY <1>6
<1>15. QED
    BY <1>2, <1>6, <1>7, <1>10, <1>13, <1>14 DEF index

\* What applying the overrides of an environment keeps.
LEMMA OverridesKeep ==
    ASSUME NEW f, NEW env, DOMAIN f = DOMAIN Cfg!GoodFile, DOMAIN f.servers = Cfg!Servers,
           \A s \in Cfg!Servers : DOMAIN f.servers[s] = DOMAIN Cfg!GoodServer
    PROVE  \A s \in Cfg!Servers :
               /\ Cfg!applyEnvironmentOverrides(f, env).servers[s].deps = f.servers[s].deps
               /\ Cfg!applyEnvironmentOverrides(f, env).servers[s].tools = f.servers[s].tools
<1>1. "servers" \in DOMAIN f
    BY DEF Cfg!GoodFile
<1>2. {"deps", "tools"} \subseteq DOMAIN Cfg!GoodServer
    BY DEF Cfg!GoodServer
<1> DEFINE over == f.environments[Cfg!CurrentEnv(env)]
           sv == [s \in Cfg!Servers |-> Cfg!Overridden(f.servers[s], over[s])]
<1>3. Cfg!applyEnvironmentOverrides(f, env) = [f EXCEPT !.servers = sv]
    BY DEF Cfg!applyEnvironmentOverrides
<1>4. \A s \in Cfg!Servers : sv[s].deps = f.servers[s].deps /\ sv[s].tools = f.servers[s].tools
    BY <1>2 DEF Cfg!Overridden
<1> HIDE DEF sv
<1>5. [f EXCEPT !.servers = sv].servers = sv
    BY <1>1
<1>6. QED
    BY <1>3, <1>4, <1>5

\* The configuration a reader applies the rules to.
LEMMA ConfigRuled ==
    ASSUME Cfg!ConfigInv, NEW cfg, cfg = Cfg!applyEnvironmentOverrides(file, environ)
    PROVE  Ruled(cfg) /\ Cfg!Dependencies(cfg) \in DepsOf
<1>1. \A s \in Cfg!Servers : /\ cfg.servers[s].deps = file.servers[s].deps
                             /\ cfg.servers[s].tools = file.servers[s].tools
    BY OverridesKeep DEF Cfg!ConfigInv
<1>2. \A s \in Cfg!Servers : /\ file.servers[s].deps \in Seq(Cfg!Servers \cup {Undefined})
                             /\ DOMAIN file.servers[s].tools \subseteq Nat
    BY DEF Cfg!ConfigInv
<1>3. QED
    BY <1>1, <1>2 DEF Ruled, DepsOf, Cfg!Dependencies

\* A cycle that is reported is one, and placed in its first server.
LEMMA CircularFine ==
    ASSUME NEW cfg, Cfg!Dependencies(cfg) \in DepsOf, NEW e \in CircularProblems(cfg)
    PROVE  /\ e.what = "circular"
           /\ Cfg!IsCycle(Cfg!Dependencies(cfg), e.cycle)
           /\ \E s \in Cfg!Servers : PathIn(s, e.path)
<1>1. PICK deps \in DepsOf : deps = Cfg!Dependencies(cfg)
    OBVIOUS
<1>2. PICK c \in Cfg!findDependencyCycles(deps) :
        e = [path |-> <<"servers", c[1], "depends_on">>, what |-> "circular", cycle |-> c]
    BY <1>1 DEF CircularProblems
<1>3. c \in Seq(Cfg!Servers) /\ Cfg!IsCycle(deps, c)
    BY CyclesFound
<1>4. PICK s : s = c[1]
    OBVIOUS
<1>5. s \in Cfg!Servers
    <2>1. Len(c) > 1
        BY <1>3 DEF Cfg!IsCycle
    <2>2. 1 \in 1..Len(c)
        BY <1>3, <2>1, LenProperties
    <2>3. QED
        BY <1>3, <1>4, <2>2, ElementOfSeq
<1>6. PathIn(s, e.path)
    <2>1. <<"servers", s, "depends_on">> = <<"servers", s>> \o <<"depends_on">>
        OBVIOUS
    <2>2. IsSeq(<<"depends_on">>)
        BY PartsOfPaths
    <2>3. QED
        BY <1>2, <1>4, <2>1, <2>2 DEF PathIn
<1>7. QED
    BY <1>1, <1>2, <1>3, <1>5, <1>6

\* What both readers say follows.
LEMMA ConfigAgrees ==
    ASSUME Cfg!ConfigInv
    PROVE  Cfg!ValidationAgrees
<1>1. PICK cfg : cfg = Cfg!applyEnvironmentOverrides(file, environ)
    OBVIOUS
<1>2. PICK deps : deps = Cfg!Dependencies(cfg)
    OBVIOUS
<1>3. PICK report : report = Cfg!collectValidationErrors(cfg)
    OBVIOUS
<1>4. Ruled(cfg) /\ deps \in DepsOf
    BY <1>1, <1>2, ConfigRuled
<1>5. report = Rules(cfg) \cup CircularProblems(cfg)
    BY <1>3, AllProblems
<1>6. CircularProblems(cfg) = {} <=> ~Cfg!Cyclic(deps)
    <2>1. CircularProblems(cfg) = {} <=> Cfg!findDependencyCycles(deps) = {}
        BY <1>2 DEF CircularProblems
    <2>2. QED
        BY <1>4, <2>1, CyclesFound
<1>7. ASSUME last.reader = "load"
      PROVE  last.problems \subseteq report /\ (last.problems = {} => \A e \in report : e.what = "circular")
    <2>1. PICK order \in Cfg!Orders : last.problems = Cfg!Range(Cfg!ValidateConfig(cfg, order))
        BY <1>1, <1>7 DEF Cfg!ConfigInv
    <2>2. last.problems \subseteq Rules(cfg) /\ (last.problems = {} => Rules(cfg) = {})
        BY <1>4, <2>1, LoadStops
    <2>3. \A e \in CircularProblems(cfg) : e.what = "circular"
        BY <1>2, <1>4, CircularFine
    <2>4. QED
        BY <1>5, <2>2, <2>3
<1>8. ASSUME last.reader = "validate"
      PROVE  (last.problems = {}) <=>
                 (~Cfg!Cyclic(deps) /\ \A order \in Cfg!Orders : Cfg!ValidateConfig(cfg, order) = <<>>)
    <2>1. last.problems = report
        BY <1>1, <1>3, <1>8 DEF Cfg!ConfigInv
    <2>2. Rules(cfg) = {} <=> \A order \in Cfg!Orders : Cfg!ValidateConfig(cfg, order) = <<>>
        BY <1>4, LoadStops, OrdersWalkAll
    <2>3. QED
        BY <1>5, <1>6, <2>1, <2>2
<1>9. ASSUME last.reader = "validate", NEW e \in last.problems
      PROVE  /\ e.cycle # <<>> => Cfg!IsCycle(deps, e.cycle)
             /\ Len(e.path) > 1 => SubSeq(Cfg!lookup(Cfg!buildLineIndex(file), e.path), 1, 2) = SubSeq(e.path, 1, 2)
    <2>1. last.problems = report
        BY <1>1, <1>3, <1>9 DEF Cfg!ConfigInv
    <2>2. CASE e \in CircularProblems(cfg)
        <3>1. Cfg!IsCycle(deps, e.cycle) /\ \E s \in Cfg!Servers : PathIn(s, e.path)
            BY <1>2, <1>4, <2>2, CircularFine
        <3>2. QED
            BY <3>1, PlacedInServer
    <2>3. CASE e \in UNION {Cfg!Range(Cfg!ServerProblems(cfg, s)) : s \in Cfg!Servers}
        <3>1. PICK s \in Cfg!Servers : e \in Cfg!Range(Cfg!ServerProblems(cfg, s))
            BY <2>3
        <3>2. PathIn(s, e.path) /\ e.cycle = <<>>
            BY <1>4, <3>1, ProblemsIn DEF Ruled, InServer
        <3>3. QED
            BY <3>2, PlacedInServer
    <2>4. CASE \/ e \in Cfg!Range(Cfg!globalErrorPath(Cfg!validateVersion(cfg)))
               \/ e \in Cfg!Range(Cfg!globalErrorPath(Cfg!validateGlobalConfig(cfg)))
        <3>1. (\E w : e.path = <<w>>) /\ e.cycle = <<>>
            BY <2>4, GlobalProblems DEF Global
        <3>2. \A w : ~(Len(<<w>>) > 1)
            OBVIOUS
        <3>3. QED
            BY <3>1, <3>2
    <2>5. QED
        BY <1>5, <1>9, <2>1, <2>2, <2>3, <2>4 DEF Rules
<1>10. QED
    BY <1>1, <1>2, <1>3, <1>7, <1>8, <1>9 DEF Cfg!ValidationAgrees

\* A file without a problem that nobody has read.
LEMMA ConfigInit ==
    ASSUME Cfg!Init
    PROVE  Cfg!ConfigInv
<1>1. file = Cfg!GoodFile /\ last = Cfg!NotRead
    BY DEF Cfg!Init
<1>2. /\ DOMAIN Cfg!GoodFile.servers = Cfg!Servers
      /\ \A s \in Cfg!Servers : Cfg!GoodFile.servers[s] = Cfg!GoodServer
    BY DEF Cfg!GoodFile
<1>3. Cfg!GoodServer.deps = <<>> /\ Cfg!GoodServer.tools = <<>>
    BY DEF Cfg!GoodServer
<1>4. <<>> \in Seq(Cfg!Servers \cup {Undefined}) /\ DOMAIN <<>> \subseteq Nat
    OBVIOUS
<1>5. Cfg!NotRead.reader = "none"
    BY DEF Cfg!NotRead
<1>6. QED
    BY <1>1, <1>2, <1>3, <1>4, <1>5 DEF Cfg!ConfigInv

\* What every reading needs of a file.
FileFine(f) ==
    /\ DOMAIN f = DOMAIN Cfg!GoodFile
    /\ DOMAIN f.servers = Cfg!Servers
    /\ \A s \in Cfg!Servers : /\ DOMAIN f.servers[s] = DOMAIN Cfg!GoodServer
                              /\ f.servers[s].deps \in Seq(Cfg!Servers \cup {Undefined})
                              /\ DOMAIN f.servers[s].tools \subseteq Nat

\* A reading leaves the file as it is, and is of the file as it is.
LEMMA Reads ==
    ASSUME Cfg!ConfigInv, Cfg!LoadConfig \/ Cfg!ValidateFile
    PROVE  Cfg!ConfigInv'
<1>1. FileFine(file) /\ file' = file
    BY DEF FileFine, Cfg!ConfigInv, Cfg!LoadConfig, Cfg!ValidateFile
<1>2. PICK cfg : cfg = Cfg!applyEnvironmentOverrides(file, environ')
    OBVIOUS
<1>3. Cfg!applyEnvironmentOverrides(file', environ') = cfg
    BY <1>1, <1>2
<1>4. CASE Cfg!LoadConfig
    <2>1. PICK order \in Cfg!Orders :
            last' = [reader |-> "load", problems |-> Cfg!Range(Cfg!ValidateConfig(cfg, order))]
        BY <1>2, <1>4 DEF Cfg!LoadConfig
    <2>2. last'.reader = "load" /\ last'.problems = Cfg!Range(Cfg!ValidateConfig(cfg, order))
        BY <2>1
    <2>3. QED
        BY <1>1, <1>3, <2>2 DEF FileFine, Cfg!ConfigInv
<1>5. CASE Cfg!ValidateFile
    <2>1. last' = [reader |-> "validate", problems |-> Cfg!collectValidationErrors(cfg)]
        BY <1>2, <1>5 DEF Cfg!ValidateFile
    <2>2. last'.reader = "validate" /\ last'.problems = Cfg!collectValidationErrors(cfg)
        BY <2>1
    <2>3. QED
        BY <1>1, <1>3, <2>2 DEF FileFine, Cfg!ConfigInv
<1>6. QED
    BY <1>4, <1>5

\* An edit leaves a file that can be read, and nothing read of it.
LEMMA EditKeeps ==
    ASSUME NEW f, NEW d, NEW price, Cfg!Edit(f, d, price), FileFine(f)
    PROVE  Cfg!ConfigInv'
<1>1. file' = f /\ last' = Cfg!NotRead
    BY DEF Cfg!Edit
<1>2. Cfg!NotRead.reader = "none"
    BY DEF Cfg!NotRead
<1>3. QED
    BY <1>1, <1>2 DEF FileFine, Cfg!ConfigInv

\* Every edit is one of these.
LEMMA Edits ==
    ASSUME Cfg!ConfigInv,
           \/ Cfg!EditDependencies \/ Cfg!EditServer \/ Cfg!EditGlobal \/ Cfg!EditOverride \/ Cfg!EditDotEnv
    PROVE  Cfg!ConfigInv'
<1>1. FileFine(file)
    BY DEF FileFine, Cfg!ConfigInv
<1>2. "servers" \in DOMAIN file
    BY <1>1 DEF FileFine, Cfg!GoodFile
<1>3. CASE Cfg!EditDependencies
    <2>1. PICK s \in Cfg!Servers, deps \in Cfg!DepLists : Cfg!Edit([file EXCEPT !.servers[s].deps = deps], dotenv, 1)
        BY <1>3 DEF Cfg!EditDependencies
    <2>2. deps \in Seq(Cfg!Servers \cup {Undefined})
        <3>1. PICK m \in 0..MaxDeps : deps \in [1..m -> Cfg!Servers \cup {Undefined}]
            BY DEF Cfg!DepLists, Cfg!SeqOf
        <3>2. m \in Nat
            BY ToolsAssumption DEF ToolsAssumption
        <3>3. QED
            BY <3>1, <3>2, SeqDef
    <2>3. PICK f : f = [file EXCEPT !.servers[s].deps = deps]
        OBVIOUS
    <2>4. /\ DOMAIN f = DOMAIN file /\ DOMAIN f.servers = DOMAIN file.servers
          /\ \A t \in Cfg!Servers : f.servers[t] = IF t = s THEN [file.servers[t] EXCEPT !.deps = deps] ELSE file.servers[t]
        BY <1>1, <1>2, <2>3 DEF FileFine
    <2>5. {"deps", "tools"} \subseteq DOMAIN Cfg!GoodServer
        BY DEF Cfg!GoodServer
    <2>6. FileFine(f)
        BY <1>1, <2>2, <2>4, <2>5 DEF FileFine
    <2>7. QED
        BY <2>1, <2>3, <2>6, EditKeeps
<1>4. CASE Cfg!EditServer
    <2>1. PICK s \in Edited, field \in DOMAIN Cfg!ServerEdits :
            \E v \in Cfg!ServerEdits[field] : Cfg!Edit([file EXCEPT !.servers[s][field] = v], dotenv, 2)
        BY <1>4 DEF Cfg!EditServer
    <2>2. PICK v \in Cfg!ServerEdits[field] : Cfg!Edit([file EXCEPT !.servers[s][field] = v], dotenv, 2)
        BY <2>1
    <2>3. field # "deps"
        BY DEF Cfg!ServerEdits
    <2>4. field = "tools" => DOMAIN v \subseteq Nat
        BY DEF Cfg!ServerEdits
    <2>5. PICK f : f = [file EXCEPT !.servers[s][field] = v]
        OBVIOUS
    <2>6. /\ DOMAIN f = DOMAIN file /\ DOMAIN f.servers = DOMAIN file.servers
          /\ \A t \in Cfg!Servers : f.servers[t] = IF t = s THEN [file.servers[t] EXCEPT ![field] = v] ELSE file.servers[t]
        BY <1>1, <1>2, <2>5 DEF FileFine
    <2>7. {"deps", "tools"} \subseteq DOMAIN Cfg!GoodServer
        BY DEF Cfg!GoodServer
    <2>8. FileFine(f)
        BY <1>1, <2>3, <2>4, <2>6, <2>7 DEF FileFine
    <2>9. QED
        BY <2>2, <2>5, <2>8, EditKeeps
<1>5. CASE Cfg!EditGlobal
    <2>1. PICK field \in DOMAIN Cfg!GlobalEdits :
            \E v \in Cfg!GlobalEdits[field] : Cfg!Edit([file EXCEPT ![field] = v], dotenv, 2)
        BY <1>5 DEF Cfg!EditGlobal
    <2>2. PICK v : Cfg!Edit([file EXCEPT ![field] = v], dotenv, 2)
        BY <2>1
    <2>3. field # "servers"
        BY DEF Cfg!GlobalEdits
    <2>4. PICK f : f = [file EXCEPT ![field] = v]
        OBVIOUS
    <2>5. DOMAIN f = DOMAIN file /\ f.servers = file.servers
        BY <1>2, <2>3, <2>4
    <2>6. FileFine(f)
        BY <1>1, <2>5 DEF FileFine
    <2>7. QED
        BY <2>2, <2>4, <2>6, EditKeeps
<1>6. CASE Cfg!EditOverride
    <2>1. PICK e, s, o : Cfg!Edit([file EXCEPT !.environments[e][s] = o], dotenv, 2)
        BY <1>6 DEF Cfg!EditOverride
    <2>2. PICK f : f = [file EXCEPT !.environments[e][s] = o]
        OBVIOUS
    <2>3. DOMAIN f = DOMAIN file /\ f.servers = file.servers
        BY <1>2, <2>2
    <2>4. FileFine(f)
        BY <1>1, <2>3 DEF FileFine
    <2>5. QED
        BY <2>1, <2>2, <2>4, EditKeeps
<1>7. CASE Cfg!EditDotEnv
    <2>1. PICK e : Cfg!Edit(file, e, 1)
        BY <1>7 DEF Cfg!EditDotEnv
    <2>2. QED
        BY <1>1, <2>1, EditKeeps
<1>8. QED
    BY <1>3, <1>4, <1>5, <1>6, <1>7

-----------------------------------------------------------------------------
(* The theorems *)

\* Of workspace_manager.go and pvc_mount_manager.go: whatever is mounted,
\* unmounted, cleaned up or read meanwhile, a mount shows the run that it was
\* made for, and a read shows the run that was asked for.
THEOREM MountsStayOwn == Spec => []MountIsOwn
<1>1. Init => Vol!VolumesInv
    BY VolumesInit DEF Init
<1>2. Vol!VolumesInv /\ [Next]_vars => Vol!VolumesInv'
    <2> SUFFICES ASSUME Vol!VolumesInv, [Next]_vars PROVE Vol!VolumesInv'
        OBVIOUS
    <2>1. CASE Vol!Next
        BY <2>1, VolumesStep
    <2>2. CASE UNCHANGED volVars
        BY <2>2, VolumesUntouched DEF volVars, Vol!mountVars
    <2>3. QED
        BY <2>1, <2>2 DEF Next, In, vars
<1>3. Vol!VolumesInv => MountIsOwn
    BY DEF Vol!VolumesInv, MountIsOwn
<1>4. QED
    BY <1>1, <1>2, <1>3, PTL DEF Spec

\* Of mcptaskscheduler_controller.go: where the least concurrency of every
\* configuration is at most the greatest, the concurrency the auto-scaler wants
\* never falls when there are more tasks, and what it writes is within its bounds.
THEOREM ScalingAlwaysFollowsLoad ==
    ASSUME Evt!SoundScales
    PROVE  Spec => []ScalingFollowsLoad
<1>1. Init => Evt!ScaleInv
    BY ScaleInit DEF Init
<1>2. Evt!ScaleInv /\ [Next]_vars => Evt!ScaleInv'
    <2> SUFFICES ASSUME Evt!ScaleInv, [Next]_vars PROVE Evt!ScaleInv'
        OBVIOUS
    <2>1. CASE Evt!Next
        BY <2>1, ScaleStep
    <2>2. CASE UNCHANGED evtVars
        BY <2>2 DEF evtVars, Evt!ScaleInv
    <2>3. QED
        BY <2>1, <2>2 DEF Next, In, vars
<1>3. Evt!ScaleInv => ScalingFollowsLoad
    BY ScaleFollows DEF ScalingFollowsLoad
<1>4. QED
    BY <1>1, <1>2, <1>3, PTL DEF Spec

\* Of service/installer.go: an installation that reported success is whole,
\* however often it failed before and whatever other installations ran beside
\* it, and the operator's proxy is as he left it.
THEOREM InstallationStaysWhole == Spec => []InstallationIsWhole
<1>1. Init => Ins!InstallInv
    BY InstallInit DEF Init
<1>2. Ins!InstallInv /\ [Next]_vars => Ins!InstallInv'
    <2> SUFFICES ASSUME Ins!InstallInv, [Next]_vars PROVE Ins!InstallInv'
        OBVIOUS
    <2>1. CASE Ins!Next
        BY <2>1, InstallStep
    <2>2. CASE UNCHANGED insVars
        BY <2>2 DEF insVars, Ins!InstallInv, Ins!Made, Ins!Exists, Ins!Where
    <2>3. QED
        BY <2>1, <2>2 DEF Next, In, vars
<1>3. Ins!InstallInv => InstallationIsWhole
    BY InstallIsWhole DEF InstallationIsWhole
<1>4. QED
    BY <1>1, <1>2, <1>3, PTL DEF Spec

\* Of edit/editor.go: an operation that failed or was rolled back has left every
\* file as it was, whatever the seconds and the clean-up of backups do, provided
\* that no two of the files share a base name, no operation edits a file twice,
\* and at least two backups of a file are kept.
THEOREM UndoneStaysRestored ==
    ASSUME Edt!BackupsAreOwn
    PROVE  Spec => []UndoneIsRestored
<1>1. Init => Edt!EditInv
    BY EditInit DEF Init
<1>2. Edt!EditInv /\ [Next]_vars => Edt!EditInv'
    <2> SUFFICES ASSUME Edt!EditInv, [Next]_vars PROVE Edt!EditInv'
        OBVIOUS
    <2>1. CASE Edt!Next
        BY <2>1, EditStep
    <2>2. CASE UNCHANGED edtVars
        BY <2>2 DEF edtVars, Edt!EditInv, Edt!EditType
    <2>3. QED
        BY <2>1, <2>2 DEF Next, In, vars
<1>3. Edt!EditInv => UndoneIsRestored
    <2> SUFFICES ASSUME Edt!EditInv, Edt!Over PROVE Edt!UndoneIsRestored
        BY DEF UndoneIsRestored, Edt!UndoneIsRestored
    <2>1. Edt!Written(edit) = 0
        BY DEF Edt!Over, Edt!Written
    <2>2. edit.result \notin {"failed twice", "stuck"} /\ Edt!AsBefore(files, edit)
        BY DEF Edt!Over, Edt!EditInv
    <2>3. QED
        BY <2>1, <2>2, NothingWritten DEF Edt!UndoneIsRestored
<1>4. QED
    BY <1>1, <1>2, <1>3, PTL DEF Spec

\* Of context/manager.go: in every strategy, after any additions, removals and
\* changes of the limit, the window holds no more than the model takes, only
\* items that are there, counts them, and says when one is left out; for any
\* finite set of items and any estimates of their tokens.
THEOREM WindowStaysSound == Spec => []WindowIsSound
<1>1. Init => Ctx!WindowInv
    BY WindowInit DEF Init
<1>2. Ctx!WindowInv /\ [Next]_vars => Ctx!WindowInv'
    <2> SUFFICES ASSUME Ctx!WindowInv, [Next]_vars PROVE Ctx!WindowInv'
        OBVIOUS
    <2>1. CASE Ctx!Next
        BY <2>1, WindowStep
    <2>2. CASE UNCHANGED ctxVars
        BY <2>2 DEF ctxVars, Ctx!WindowInv, Ctx!WindowIsSound, Ctx!All
    <2>3. QED
        BY <2>1, <2>2 DEF Next, In, vars
<1>3. Ctx!WindowInv => WindowIsSound
    BY DEF WindowIsSound, Ctx!WindowInv
<1>4. QED
    BY <1>1, <1>2, <1>3, PTL DEF Spec

\* Of workflow_engine.go and templates.go: for step lists of any length the sort
\* accepts exactly those with distinct names, known dependencies and no cycle, the
\* level of a step is the length of the longest chain from it down, and what
\* ValidateWorkflowDefinition accepts is sorted unless a step lists itself; and
\* every workflow the built-in templates make has an order to run in, waits for
\* every output it reads and has no placeholder left, whatever is given.
THEOREM DefinitionsStayRunnable == Spec => []DefinitionsAreRunnable
<1> DEFINE Inv == GraphInv /\ TemplatesInv
<1>1. Init => Inv
    <2>1. Init => TemplatesInv
        BY EmptySeq DEF Init, Tpl!Init, TemplatesInv
    <2>2. QED
        BY <2>1, GraphInit
<1>2. Inv /\ [Next]_vars => Inv'
    <2> SUFFICES ASSUME GraphInv, TemplatesInv, [Next]_vars PROVE GraphInv' /\ TemplatesInv'
        OBVIOUS
    <2>1. Gra!Build \/ UNCHANGED graVars
        BY DEF Next, In, vars
    <2>2. GraphInv'
        BY <2>1, GraSort DEF Gra!Build, graVars, GraphInv
    <2>3. Tpl!Next \/ UNCHANGED workflows
        BY DEF Next, In, vars
    <2>4. TemplatesInv'
        BY <2>3, TemplatesStep DEF TemplatesInv
    <2>5. QED
        BY <2>2, <2>4
<1>3. Inv => DefinitionsAreRunnable
    BY SortAccepts, SortLevels, SortRunsValid, TemplatesSound DEF DefinitionsAreRunnable
<1>4. QED
    BY <1>1, <1>2, <1>3, PTL DEF Spec

\* Whatever servers, dependencies and edits there are: LoadConfig stops at one of
\* the problems ValidateFile lists, in any order of the map of servers, ValidateFile
\* accepts a file exactly if LoadConfig does and the dependencies have no cycle, the
\* cycles it reports are cycles, and a problem of a server is placed in the server.
THEOREM ReadersAlwaysAgree == Spec => []ValidationAgrees
<1>1. Init => Cfg!ConfigInv
    BY ConfigInit DEF Init
<1>2. Cfg!ConfigInv /\ [Next]_vars => Cfg!ConfigInv'
    <2> SUFFICES ASSUME Cfg!ConfigInv, [Next]_vars PROVE Cfg!ConfigInv'
        OBVIOUS
    <2>1. Cfg!Next \/ UNCHANGED cfgVars
        BY DEF Next, In, vars
    <2>2. CASE Cfg!Next
        BY <2>2, Reads, Edits DEF Cfg!Next
    <2>3. CASE UNCHANGED cfgVars
        BY <2>3 DEF cfgVars, Cfg!ConfigInv
    <2>4. QED
        BY <2>1, <2>2, <2>3
<1>3. Cfg!ConfigInv => ValidationAgrees
    BY ConfigAgrees DEF ValidationAgrees
<1>4. QED
    BY <1>1, <1>2, <1>3, PTL DEF Spec
=============================================================================
