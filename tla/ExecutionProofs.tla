--------------------------- MODULE ExecutionProofs ---------------------------
(***************************************************************************)
(* The invariants of CronEngine, proved for any job identifiers and any    *)
(* number of JobSpec objects, entries and starts; and those of             *)
(* WorkflowEngine, for any steps and any definitions whose graphs are      *)
(* layered.                                                                *)
(***************************************************************************)
EXTENDS MCExecution, GraphProofs

-----------------------------------------------------------------------------
(* The cron engine *)

\* The cron library ticks exactly while the engine is started and nobody is
\* inside Stop; Stop has cancelled the context it waits under.
EngineInv ==
    /\ ticking <=> (started /\ mu = "free")
    /\ mu = "stop" => started /\ cancelled
    /\ NoRunOutlivesStop
    /\ RunContextIsCurrent

\* Every entry given out is bound to a JobSpec; only such entries are in the
\* library or running.
EntriesInv ==
    /\ \A e \in Entries : e <= nextEntry => owner[e] \in Specs
    /\ \A e \in live : e <= nextEntry
    /\ \A e \in Entries : run[e].pc # "idle" => e <= nextEntry

\* A registered JobSpec knows its own id and an entry bound to it, which is
\* in the library if the job is enabled.
JobInv(id) ==
    jobs[id] # None =>
        /\ spec[jobs[id]].id = id
        /\ spec[jobs[id]].entry \in Entries
        /\ spec[jobs[id]].entry <= nextEntry
        /\ owner[spec[jobs[id]].entry] = jobs[id]
        /\ spec[jobs[id]].enabled => spec[jobs[id]].entry \in live

RegistryInv == EntriesInv /\ \A id \in JobIDs : JobInv(id)

IInv == TypeOK /\ EngineInv /\ RegistryInv

-----------------------------------------------------------------------------

\* The initial state satisfies the inductive invariant.
LEMMA InitIInv == Init => IInv
<1> SUFFICES ASSUME Init PROVE IInv
    OBVIOUS
<1> USE CronAssumption DEF CronAssumption
<1>1. TypeOK
    <2>1. spec \in [Specs -> SpecRecord]
        <3>1. NoSpec \in SpecRecord
            BY DEF NoSpec, SpecRecord
        <3>2. QED
            BY <3>1 DEF Init
    <2>2. run \in [Entries -> RunRecord]
        BY DEF Init, RunRecord, Idle
    <2>3. /\ mu \in {"free", "stop"}
          /\ started \in BOOLEAN /\ cancelled \in BOOLEAN /\ ticking \in BOOLEAN
        BY DEF Init
    <2>4. QED
        BY <2>1, <2>2, <2>3 DEF Init, TypeOK
<1>2. EngineInv
    BY DEF Init, EngineInv, NoRunOutlivesStop, RunContextIsCurrent, JobsDone,
           Idle
<1>3. RegistryInv
    BY DEF Init, RegistryInv, EntriesInv, JobInv, Entries, Idle
<1>4. QED
    BY <1>1, <1>2, <1>3 DEF IInv

\* Every step keeps the types.
LEMMA TypeStep == IInv /\ [Next]_vars => TypeOK'
<1> SUFFICES ASSUME IInv, [Next]_vars PROVE TypeOK'
    OBVIOUS
<1> USE CronAssumption DEF CronAssumption, IInv, TypeOK, SpecRecord, RunRecord, Entries,
                           engineVars, registryVars
<1>1. CASE Start
    <2>1. started' \in BOOLEAN /\ cancelled' \in BOOLEAN /\ ticking' \in BOOLEAN
        BY <1>1 DEF Start
    <2>2. ctxGen' \in 0..MaxStarts
        BY <1>1 DEF Start
    <2>3. UNCHANGED <<mu, jobs, spec, live, owner, nextEntry, run>>
        BY <1>1 DEF Start
    <2>4. QED
        BY <2>1, <2>2, <2>3
<1>2. CASE StopBegin
    BY <1>2 DEF StopBegin
<1>3. CASE StopEnd
    BY <1>3 DEF StopEnd
<1>4. ASSUME NEW s \in Specs, NEW id \in JobIDs, NEW b \in BOOLEAN,
             NEW n \in Retries, AddJob(s, id, b, n)
      PROVE  TypeOK'
    BY <1>4 DEF AddJob, AddFunc, EffectiveRetries, DefaultMaxRetries
<1>5. ASSUME NEW id \in JobIDs, RemoveJob(id) PROVE TypeOK'
    BY <1>5 DEF RemoveJob
<1>6. ASSUME NEW id \in JobIDs, EnableJob(id) PROVE TypeOK'
    BY <1>6 DEF EnableJob, AddFunc
<1>7. ASSUME NEW id \in JobIDs, DisableJob(id) PROVE TypeOK'
    <2>1. spec' \in [Specs -> SpecRecord]
        <3>1. jobs[id] \in Specs
            BY <1>7 DEF DisableJob
        <3>2. [spec[jobs[id]] EXCEPT !.enabled = FALSE] \in SpecRecord
            BY <3>1, ZenonT(40)
        <3>3. spec' = [spec EXCEPT ![jobs[id]] =
                                [spec[jobs[id]] EXCEPT !.enabled = FALSE]]
            BY <1>7 DEF DisableJob
        <3>4. QED
            BY <3>1, <3>2, <3>3
    <2>2. live' \subseteq Entries
        BY <1>7 DEF DisableJob
    <2>3. UNCHANGED <<engineVars, jobs, owner, nextEntry, run>>
        BY <1>7 DEF DisableJob
    <2>4. QED
        BY <2>1, <2>2, <2>3
<1>8. ASSUME NEW e \in Entries, RunStep(e) PROVE TypeOK'
    <2>1. CASE Fire(e)
        BY <2>1 DEF Fire
    <2>2. CASE CheckEnabled(e)
        BY <2>2, ZenonT(40) DEF CheckEnabled
    <2>3. CASE FetchContext(e)
        BY <2>3, ZenonT(40) DEF FetchContext
    <2>4. CASE HandlerEnds(e)
        BY <2>4 DEF HandlerEnds, Idle
    <2>5. CASE HandlerFails(e)
        BY <2>5 DEF HandlerFails
    <2>6. CASE RetryTimer(e)
        BY <2>6, SMTT(30) DEF RetryTimer
    <2>7. CASE RetryAbort(e)
        BY <2>7 DEF RetryAbort, Idle
    <2>8. QED
        BY <1>8, <2>1, <2>2, <2>3, <2>4, <2>5, <2>6, <2>7 DEF RunStep
<1>9. CASE UNCHANGED vars
    BY <1>9 DEF vars
<1>10. QED
    <2> HIDE DEF IInv, TypeOK
    <2> QED
        BY <1>1, <1>2, <1>3, <1>4, <1>5, <1>6, <1>7, <1>8, <1>9 DEF Next

\* Every step keeps what relates Start, Stop and the running jobs.
LEMMA EngineStep == IInv /\ [Next]_vars => EngineInv'
<1> SUFFICES ASSUME IInv, [Next]_vars PROVE EngineInv'
    OBVIOUS
<1> USE CronAssumption DEF CronAssumption, IInv, TypeOK, EngineInv, NoRunOutlivesStop,
                           RunContextIsCurrent, JobsDone, RunRecord, Entries,
                           engineVars, registryVars
<1>1. CASE Start
    BY <1>1 DEF Start
<1>2. CASE StopBegin
    BY <1>2 DEF StopBegin
<1>3. CASE StopEnd
    BY <1>3 DEF StopEnd
<1>4. ASSUME NEW s \in Specs, NEW id \in JobIDs, NEW b \in BOOLEAN,
             NEW n \in Retries, AddJob(s, id, b, n)
      PROVE  EngineInv'
    BY <1>4 DEF AddJob
<1>5. ASSUME NEW id \in JobIDs, RemoveJob(id) PROVE EngineInv'
    BY <1>5 DEF RemoveJob
<1>6. ASSUME NEW id \in JobIDs, EnableJob(id) PROVE EngineInv'
    BY <1>6 DEF EnableJob
<1>7. ASSUME NEW id \in JobIDs, DisableJob(id) PROVE EngineInv'
    BY <1>7 DEF DisableJob
<1>8. ASSUME NEW e \in Entries, RunStep(e) PROVE EngineInv'
    <2>1. CASE Fire(e)
        BY <2>1 DEF Fire
    <2>2. CASE CheckEnabled(e)
        BY <2>2 DEF CheckEnabled
    <2>3. CASE FetchContext(e)
        BY <2>3 DEF FetchContext
    <2>4. CASE HandlerEnds(e)
        BY <2>4 DEF HandlerEnds, Idle
    <2>5. CASE HandlerFails(e)
        BY <2>5 DEF HandlerFails
    <2>6. CASE RetryTimer(e)
        BY <2>6 DEF RetryTimer
    <2>7. CASE RetryAbort(e)
        BY <2>7 DEF RetryAbort, Idle
    <2>8. QED
        BY <1>8, <2>1, <2>2, <2>3, <2>4, <2>5, <2>6, <2>7 DEF RunStep
<1>9. CASE UNCHANGED vars
    BY <1>9 DEF vars
<1>10. QED
    BY <1>1, <1>2, <1>3, <1>4, <1>5, <1>6, <1>7, <1>8, <1>9 DEF Next

\* Every step keeps what ties the registered jobs to the cron library.
LEMMA RegistryStep == IInv /\ [Next]_vars => RegistryInv'
<1> SUFFICES ASSUME IInv, [Next]_vars PROVE RegistryInv'
    OBVIOUS
<1> USE CronAssumption DEF CronAssumption, Entries
<1>a. /\ jobs \in [JobIDs -> Specs \cup {None}]
      /\ spec \in [Specs -> SpecRecord] /\ live \subseteq Entries
      /\ owner \in [Entries -> Specs \cup {None}]
      /\ nextEntry \in 0..MaxEntries /\ run \in [Entries -> RunRecord]
    BY DEF IInv, TypeOK
<1>b. EntriesInv /\ \A k \in JobIDs : JobInv(k)
    BY DEF IInv, RegistryInv
<1>1. CASE Start
    BY <1>b, <1>1 DEF Start, RegistryInv, EntriesInv, JobInv
<1>2. CASE StopBegin
    BY <1>b, <1>2 DEF StopBegin, RegistryInv, EntriesInv, JobInv
<1>3. CASE StopEnd
    BY <1>b, <1>3 DEF StopEnd, RegistryInv, EntriesInv, JobInv
<1>4. ASSUME NEW s \in Specs, NEW id \in JobIDs, NEW b \in BOOLEAN,
             NEW n \in Retries, AddJob(s, id, b, n)
      PROVE  RegistryInv'
    <2>1. EntriesInv'
        BY <1>a, <1>b, <1>4 DEF AddJob, AddFunc, EntriesInv
    <2>2. ASSUME NEW k \in JobIDs PROVE JobInv(k)'
        <3>1. CASE k = id
            BY <1>a, <1>4, <3>1 DEF AddJob, AddFunc, JobInv
        <3>2. CASE k # id
            <4>1. jobs'[k] = jobs[k]
                BY <1>a, <1>4, <3>2 DEF AddJob
            <4>2. jobs[k] # None => jobs[k] # s
                BY <1>a, <1>b, <1>4 DEF AddJob, JobInv
            <4>3. jobs[k] # None => spec'[jobs[k]] = spec[jobs[k]]
                BY <1>a, <1>4, <4>2 DEF AddJob
            <4>4. QED
                BY <1>a, <1>b, <1>4, <4>1, <4>3 DEF AddJob, AddFunc, JobInv
        <3>3. QED
            BY <3>1, <3>2
    <2>3. QED
        BY <2>1, <2>2 DEF RegistryInv
<1>5. ASSUME NEW id \in JobIDs, RemoveJob(id) PROVE RegistryInv'
    <2>1. EntriesInv'
        BY <1>a, <1>b, <1>5 DEF RemoveJob, EntriesInv
    <2>2. ASSUME NEW k \in JobIDs PROVE JobInv(k)'
        <3>1. CASE k = id
            BY <1>a, <1>5, <3>1 DEF RemoveJob, JobInv
        <3>2. CASE k # id
            <4>1. jobs'[k] = jobs[k]
                BY <1>a, <1>5, <3>2 DEF RemoveJob
            <4>2. jobs[k] # None => jobs[k] # jobs[id]
                BY <1>b, <3>2 DEF JobInv
            <4>3. jobs[k] # None => spec[jobs[k]].entry # spec[jobs[id]].entry
                BY <1>b, <1>5, <4>2 DEF RemoveJob, JobInv
            <4>4. QED
                BY <1>b, <1>5, <4>1, <4>3 DEF RemoveJob, JobInv
        <3>3. QED
            BY <3>1, <3>2
    <2>3. QED
        BY <2>1, <2>2 DEF RegistryInv
<1>6. ASSUME NEW id \in JobIDs, EnableJob(id) PROVE RegistryInv'
    <2>1. jobs[id] \in Specs
        BY <1>a, <1>6 DEF EnableJob
    <2>2. EntriesInv'
        BY <1>a, <1>b, <1>6, <2>1 DEF EnableJob, AddFunc, EntriesInv
    <2>3. ASSUME NEW k \in JobIDs PROVE JobInv(k)'
        <3>1. CASE k = id
            <4>1. /\ spec'[jobs[k]].entry = nextEntry + 1
                  /\ spec'[jobs[k]].id = spec[jobs[k]].id
                BY <1>a, <1>6, <2>1, <3>1 DEF EnableJob, SpecRecord
            <4>2. QED
                BY <1>a, <1>b, <1>6, <2>1, <3>1, <4>1
                   DEF EnableJob, AddFunc, JobInv
        <3>2. CASE k # id
            <4>1. jobs[k] # None => jobs[k] # jobs[id]
                BY <1>b, <3>2 DEF JobInv
            <4>2. jobs[k] # None => spec'[jobs[k]] = spec[jobs[k]]
                BY <1>a, <1>6, <4>1 DEF EnableJob
            <4>3. QED
                BY <1>a, <1>b, <1>6, <4>2 DEF EnableJob, AddFunc, JobInv
        <3>3. QED
            BY <3>1, <3>2
    <2>4. QED
        BY <2>2, <2>3 DEF RegistryInv
<1>7. ASSUME NEW id \in JobIDs, DisableJob(id) PROVE RegistryInv'
    <2>1. jobs[id] \in Specs
        BY <1>a, <1>7 DEF DisableJob
    <2>2. EntriesInv'
        BY <1>a, <1>b, <1>7 DEF DisableJob, EntriesInv
    <2>3. ASSUME NEW k \in JobIDs PROVE JobInv(k)'
        <3>1. CASE k = id
            <4>1. /\ spec'[jobs[k]].entry = spec[jobs[k]].entry
                  /\ spec'[jobs[k]].id = spec[jobs[k]].id
                BY <1>a, <1>7, <2>1, <3>1 DEF DisableJob, SpecRecord
            <4>2. ~spec'[jobs[k]].enabled
                BY <1>a, <1>7, <2>1, <3>1 DEF DisableJob, SpecRecord
            <4>3. QED
                BY <1>b, <1>7, <4>1, <4>2 DEF DisableJob, JobInv
        <3>2. CASE k # id
            <4>1. jobs[k] # None => jobs[k] # jobs[id]
                BY <1>b, <3>2 DEF JobInv
            <4>2. jobs[k] # None => spec'[jobs[k]] = spec[jobs[k]]
                BY <1>a, <1>7, <4>1 DEF DisableJob
            <4>3. jobs[k] # None => spec[jobs[k]].entry # spec[jobs[id]].entry
                BY <1>b, <1>7, <4>1 DEF DisableJob, JobInv
            <4>4. QED
                BY <1>b, <1>7, <4>2, <4>3 DEF DisableJob, JobInv
        <3>3. QED
            BY <3>1, <3>2
    <2>4. QED
        BY <2>2, <2>3 DEF RegistryInv
<1>8. ASSUME NEW e \in Entries, RunStep(e) PROVE RegistryInv'
    <2>1. UNCHANGED <<jobs, live, owner, nextEntry>>
        BY <1>8 DEF RunStep, Fire, CheckEnabled, FetchContext, HandlerEnds,
                    HandlerFails, RetryTimer, RetryAbort, registryVars
    <2>2. \A f \in Entries : run'[f].pc # "idle" =>
                                run[f].pc # "idle" \/ f \in live
        BY <1>a, <1>8 DEF RunStep, Fire, CheckEnabled, FetchContext,
                    HandlerEnds, HandlerFails, RetryTimer, RetryAbort, Idle
    <2>3. EntriesInv'
        BY <1>b, <2>1, <2>2 DEF EntriesInv
    <2>4. \A s \in Specs : /\ spec'[s].id = spec[s].id
                            /\ spec'[s].entry = spec[s].entry
                            /\ spec'[s].enabled = spec[s].enabled
        <3>1. CASE FetchContext(e)
            BY <1>a, <3>1 DEF FetchContext, SpecRecord
        <3>2. CASE ~FetchContext(e)
            BY <1>8, <3>2 DEF RunStep, Fire, CheckEnabled, HandlerEnds,
                    HandlerFails, RetryTimer, RetryAbort, registryVars
        <3>3. QED
            BY <3>1, <3>2
    <2>5. ASSUME NEW k \in JobIDs PROVE JobInv(k)'
        BY <1>a, <1>b, <2>1, <2>4 DEF JobInv
    <2>6. QED
        BY <2>3, <2>5 DEF RegistryInv
<1>9. CASE UNCHANGED vars
    BY <1>b, <1>9 DEF vars, RegistryInv, EntriesInv, JobInv
<1>10. QED
    BY <1>1, <1>2, <1>3, <1>4, <1>5, <1>6, <1>7, <1>8, <1>9 DEF Next

\* IInv is inductive.
THEOREM Inductive == Spec => []IInv
<1>1. Init => IInv
    BY InitIInv
<1>2. IInv /\ [Next]_vars => IInv'
    BY TypeStep, EngineStep, RegistryStep DEF IInv
<1>3. QED
    BY <1>1, <1>2, PTL DEF Spec

\* Type correctness of the cron engine.
THEOREM TypeCorrect == Spec => []TypeOK
<1>1. IInv => TypeOK
    BY DEF IInv
<1>2. QED
    BY <1>1, Inductive, PTL

\* No job run survives Stop, however many jobs and entries there are, and a
\* run never holds the context of an earlier Start.
THEOREM StopLeavesNothingRunning ==
    Spec => [](NoRunOutlivesStop /\ RunContextIsCurrent)
<1>1. IInv => NoRunOutlivesStop /\ RunContextIsCurrent
    BY DEF IInv, EngineInv
<1>2. QED
    BY <1>1, Inductive, PTL

\* An enabled registered job is in the cron library under the entry it
\* remembers, whatever sequence of registry calls was made.
THEOREM EnabledJobsFire == Spec => []EnabledJobIsScheduled
<1>1. IInv => EnabledJobIsScheduled
    BY DEF IInv, RegistryInv, JobInv, EnabledJobIsScheduled
<1>2. QED
    BY <1>1, Inductive, PTL
-----------------------------------------------------------------------------
(* The workflow engine *)

\* In a layered graph the level of a step is the one that holds it.
LEMMA LevelIsUnique ==
    ASSUME Eng!Layered(def, graph), graph.ok, NEW s \in Steps,
           NEW k \in DOMAIN graph.levels, s \in graph.levels[k]
    PROVE  Eng!LevelOf(s) = k
<1>1. \A l \in DOMAIN graph.levels : s \in graph.levels[l] => l = k
    BY DEF Eng!Layered
<1>2. QED
    BY <1>1 DEF Eng!LevelOf

\* A step that has begun is in a level that has, in the current one as long as
\* the collector has not received it.
LEMMA BegunStep ==
    ASSUME Eng!EngineInv, NEW s \in Steps, pc[s] # "none"
    PROVE  /\ graph.ok /\ level \in 1..Len(graph.levels) /\ DOMAIN graph.levels = 1..Len(graph.levels)
           /\ Eng!LevelOf(s) \in 1..level
           /\ s \in graph.levels[Eng!LevelOf(s)]
           /\ pc[s] # "taken" => Eng!LevelOf(s) = level
<1>1. level # 0 /\ graph.ok
    BY DEF Eng!EngineInv, Eng!LevelsInv
<1>2. /\ Len(graph.levels) \in Nat /\ DOMAIN graph.levels = 1..Len(graph.levels)
      /\ level \in 1..Len(graph.levels)
    BY <1>1 DEF Eng!EngineInv, Eng!TypeOK, Eng!Layered
<1>3. PICK k \in DOMAIN graph.levels : s \in graph.levels[k]
    BY <1>1 DEF Eng!EngineInv, Eng!Layered
<1>4. Eng!LevelOf(s) = k
    BY <1>1, <1>3, LevelIsUnique DEF Eng!EngineInv
<1>5. k <= level
    BY <1>2, <1>3 DEF Eng!EngineInv, Eng!LevelsInv
<1>6. ASSUME pc[s] # "taken" PROVE k = level
    <2>1. recorded[s] = "None"
        BY <1>6 DEF Eng!EngineInv, Eng!StepInv
    <2>2. ~(k < level)
        BY <1>3, <2>1 DEF Eng!EngineInv, Eng!LevelsInv
    <2>3. QED
        BY <1>2, <1>5, <2>2
<1>7. QED
    BY <1>1, <1>2, <1>3, <1>4, <1>5, <1>6

\* What a step that was called depends on is recorded.
LEMMA DependenciesRecorded ==
    ASSUME Eng!EngineInv, NEW s \in Steps, pc[s] # "none"
    PROVE  \A d \in def[s].deps : recorded[d] # "None"
<1>1. /\ graph.ok /\ level \in 1..Len(graph.levels) /\ DOMAIN graph.levels = 1..Len(graph.levels)
      /\ Eng!LevelOf(s) \in 1..level /\ s \in graph.levels[Eng!LevelOf(s)]
    BY BegunStep
<1>2. SUFFICES ASSUME NEW d \in def[s].deps PROVE recorded[d] # "None"
    OBVIOUS
<1>3. Eng!LevelOf(s) \in DOMAIN graph.levels
    BY <1>1
<1>4. PICK l \in DOMAIN graph.levels : l < Eng!LevelOf(s) /\ d \in graph.levels[l]
    BY <1>1, <1>3 DEF Eng!EngineInv, Eng!Layered
<1>5. l < level
    BY <1>1, <1>4
<1>6. QED
    BY <1>4, <1>5 DEF Eng!EngineInv, Eng!LevelsInv

\* What is to be shown of a step of the goroutine of s: it moves on its own,
\* and nobody else sees more than ContinueOnFailure.
LEMMA StepMoves ==
    ASSUME Eng!EngineInv, NEW s \in Steps, pc[s] \notin {"none", "taken"},
           UNCHANGED Eng!flowVars, UNCHANGED <<ctxDone, outputs>>,
           NEW w \in Eng!StepPC \ {"none", "taken"}, pc' = [pc EXCEPT ![s] = w],
           NEW n \in Nat, attempt' = [attempt EXCEPT ![s] = n],
           NEW o \in Eng!Statuses, outcome' = [outcome EXCEPT ![s] = o],
           continue' \in BOOLEAN, continue => continue',
           rendered' \in [Steps -> [Steps -> Eng!Outputs]],
           \A t \in Steps \ {s} : rendered'[t] = rendered[t],
           w \in {"start", "prepare"} => n = 0,
           w \in {"call", "retry"} => n > 0,
           w = "result" => o # "None",
           w = "result" /\ o = "Failed" => continue' /\ def[s].cont,
           w \in {"prepare", "call", "retry"} \/ n > 0 =>
               /\ def[s].policy = "OnSuccess" => ~Eng!FailedBelow(s)
               /\ def[s].policy = "OnFailure" => Eng!FailedBelow(s),
           n > 0 => \A d \in def[s].deps :
                       recorded[d] = "Succeeded" => rendered'[s][d] = "own"
    PROVE  Eng!EngineInv'
<1>1. /\ UNCHANGED <<def, graph, level, status, recorded, failures, levelError>>
      /\ \A t \in Steps : Eng!LevelOf(t)' = Eng!LevelOf(t)
    BY DEF Eng!flowVars, Eng!LevelOf
<1>2. \A t \in Steps : Eng!FailedBelow(t)' <=> Eng!FailedBelow(t)
    BY <1>1 DEF Eng!FailedBelow
<1>3. Eng!TypeOK'
    BY <1>1 DEF Eng!EngineInv, Eng!TypeOK
<1>4. /\ pc'[s] = w /\ attempt'[s] = n /\ outcome'[s] = o
      /\ \A t \in Steps \ {s} : /\ pc'[t] = pc[t] /\ attempt'[t] = attempt[t]
                                /\ outcome'[t] = outcome[t]
    BY DEF Eng!EngineInv, Eng!TypeOK
<1>5. recorded[s] = "None" /\ level # 0
    BY BegunStep DEF Eng!EngineInv, Eng!StepInv
<1>6. \A t \in Steps : Eng!StepInv(t)'
    BY <1>1, <1>4, <1>5 DEF Eng!EngineInv, Eng!StepInv
<1>7. \A t \in Steps : Eng!PolicyInv(t)'
    BY <1>1, <1>2, <1>4 DEF Eng!EngineInv, Eng!PolicyInv
<1>8. Eng!LevelsInv'
    <2>1. \A k \in DOMAIN graph.levels : s \in graph.levels[k] => ~(k > level)
        BY DEF Eng!EngineInv, Eng!LevelsInv
    <2>2. \A k \in DOMAIN graph.levels : \A t \in graph.levels[k] : t \in Steps
        BY DEF Eng!EngineInv, Eng!Layered
    <2>3. QED
        BY <1>1, <1>4, <1>5, <2>1, <2>2 DEF Eng!EngineInv, Eng!LevelsInv
<1>9. Eng!FailuresInv'
    BY <1>1 DEF Eng!EngineInv, Eng!FailuresInv
<1>10. Eng!SucceededIsComplete' /\ Eng!Layered(def, graph)'
    BY <1>1 DEF Eng!EngineInv, Eng!SucceededIsComplete, Eng!Layered
<1>11. Eng!DependencyOutputIsOwn'
    BY <1>1, <1>4 DEF Eng!EngineInv, Eng!DependencyOutputIsOwn
<1>12. QED
    BY <1>3, <1>6, <1>7, <1>8, <1>9, <1>10, <1>11 DEF Eng!EngineInv

\* The goroutine of a step keeps the invariant.
LEMMA StepActionKeeps ==
    ASSUME Eng!EngineInv, NEW s \in Steps, Eng!StepAction(s)
    PROVE  Eng!EngineInv'
<1>a. /\ Eng!TypeOK /\ Eng!StepInv(s) /\ Eng!PolicyInv(s)
      /\ def[s].maxRetries \in Nat /\ def[s].cont \in BOOLEAN
    BY ExecutionAssumption DEF Eng!EngineInv, Eng!TypeOK, ExecutionAssumption,
       Eng!DefinitionsAssumption, Eng!StepDefinition
<1>b. /\ attempt[s] \in Nat /\ outcome[s] \in Eng!Statuses /\ continue \in BOOLEAN
      /\ rendered \in [Steps -> [Steps -> Eng!Outputs]] /\ outputs \in [Steps -> Eng!Outputs]
      /\ attempt = [attempt EXCEPT ![s] = attempt[s]]
      /\ outcome = [outcome EXCEPT ![s] = outcome[s]]
    BY <1>a DEF Eng!TypeOK
<1>c. attempt[s] > 0 => \A d \in def[s].deps : recorded[d] = "Succeeded" => rendered[s][d] = "own"
    BY DEF Eng!EngineInv, Eng!DependencyOutputIsOwn
<1>d. \A t \in Steps \ {s} : rendered[t] = rendered[t]
    OBVIOUS
\* The goroutine ends.
<1>e. ASSUME pc[s] \notin {"none", "taken"},
             NEW w \in {"result", "error"}, NEW o \in Eng!Statuses \ {"None"},
             Eng!StepEnds(s, w, o), UNCHANGED <<Eng!flowVars, ctxDone, attempt, outputs>>,
             rendered' \in [Steps -> [Steps -> Eng!Outputs]],
             \A t \in Steps \ {s} : rendered'[t] = rendered[t],
             rendered' = rendered \/ attempt[s] = 0,
             continue' \in BOOLEAN, continue => continue',
             w = "result" /\ o = "Failed" => continue' /\ def[s].cont
      PROVE  Eng!EngineInv'
    <2>1. pc' = [pc EXCEPT ![s] = w] /\ outcome' = [outcome EXCEPT ![s] = o]
        BY <1>e DEF Eng!StepEnds
    <2>2. attempt' = [attempt EXCEPT ![s] = attempt[s]]
        BY <1>e, <1>b
    <2>3. w \in Eng!StepPC \ {"none", "taken"} /\ o \in Eng!Statuses
        BY DEF Eng!StepPC
    <2>4. w \in {"prepare", "call", "retry"} \/ attempt[s] > 0 =>
               /\ def[s].policy = "OnSuccess" => ~Eng!FailedBelow(s)
               /\ def[s].policy = "OnFailure" => Eng!FailedBelow(s)
        BY <1>a DEF Eng!PolicyInv
    <2>5. attempt[s] > 0 => \A d \in def[s].deps :
                               recorded[d] = "Succeeded" => rendered'[s][d] = "own"
        BY <1>c, <1>e
    <2>6. /\ w \in {"start", "prepare"} => attempt[s] = 0
          /\ w \in {"call", "retry"} => attempt[s] > 0
          /\ w = "result" => o # "None"
        OBVIOUS
    <2>7. QED
        BY <1>b, <1>e, <2>1, <2>2, <2>3, <2>4, <2>5, <2>6, StepMoves
\* It goes on, having made n calls.
<1>f. ASSUME pc[s] \notin {"none", "taken"},
             NEW w \in {"prepare", "call", "retry"}, NEW n \in Nat,
             pc' = [pc EXCEPT ![s] = w], attempt' = [attempt EXCEPT ![s] = n],
             UNCHANGED <<Eng!flowVars, ctxDone, outcome, outputs, continue>>,
             rendered' \in [Steps -> [Steps -> Eng!Outputs]],
             \A t \in Steps \ {s} : rendered'[t] = rendered[t],
             n > 0 <=> w # "prepare",
             n > 0 => \A d \in def[s].deps :
                         recorded[d] = "Succeeded" => rendered'[s][d] = "own",
             /\ def[s].policy = "OnSuccess" => ~Eng!FailedBelow(s)
             /\ def[s].policy = "OnFailure" => Eng!FailedBelow(s)
      PROVE  Eng!EngineInv'
    <2>1. outcome' = [outcome EXCEPT ![s] = outcome[s]] /\ continue' \in BOOLEAN
          /\ (continue => continue')
        BY <1>b, <1>f
    <2>2. w \in Eng!StepPC \ {"none", "taken"}
        BY DEF Eng!StepPC
    <2>3. /\ w \in {"start", "prepare"} => n = 0
          /\ w \in {"call", "retry"} => n > 0
          /\ w # "result"
        BY <1>f
    <2>4. QED
        BY <1>b, <1>f, <2>1, <2>2, <2>3, StepMoves
<1>g. pc[s] \in {"prepare", "call", "retry"} =>
          /\ def[s].policy = "OnSuccess" => ~Eng!FailedBelow(s)
          /\ def[s].policy = "OnFailure" => Eng!FailedBelow(s)
    BY <1>a DEF Eng!PolicyInv
<1>1. CASE Eng!SkipByPolicy(s) \/ Eng!ConditionFalse(s)
    <2>1. /\ pc[s] \in {"start", "prepare"} /\ Eng!StepEnds(s, "result", "Skipped")
          /\ UNCHANGED <<Eng!flowVars, ctxDone, continue, attempt, outputs, rendered>>
        BY <1>1 DEF Eng!SkipByPolicy, Eng!ConditionFalse
    <2>2. "Skipped" \in Eng!Statuses \ {"None"}
        BY DEF Eng!Statuses
    <2>3. QED
        BY <1>b, <1>d, <1>e, <2>1, <2>2
<1>2. CASE Eng!NotSkipped(s)
    <2>1. /\ pc[s] = "start" /\ ~Eng!shouldSkipStep(s) /\ pc' = [pc EXCEPT ![s] = "prepare"]
          /\ UNCHANGED <<Eng!flowVars, ctxDone, continue, attempt, outcome, outputs, rendered>>
        BY <1>2 DEF Eng!NotSkipped
    <2>2. attempt[s] = 0 /\ recorded[s] = "None"
        BY <1>a, <2>1 DEF Eng!StepInv
    <2>3. status # "Succeeded" /\ Eng!LevelOf(s) = level
        BY <2>1, <2>2, BegunStep DEF Eng!EngineInv, Eng!SucceededIsComplete
    <2>4. failures > 0 <=> Eng!FailedBelow(s)
        BY <2>3 DEF Eng!EngineInv, Eng!FailuresInv, Eng!FailedBelow
    <2>5. failures \in Nat
        BY <1>a DEF Eng!TypeOK
    <2>6. /\ def[s].policy = "OnSuccess" => ~Eng!FailedBelow(s)
          /\ def[s].policy = "OnFailure" => Eng!FailedBelow(s)
        BY <2>1, <2>4, <2>5 DEF Eng!shouldSkipStep
    <2>7. attempt' = [attempt EXCEPT ![s] = 0]
        BY <1>b, <2>1, <2>2
    <2>8. QED
        BY <1>b, <1>d, <1>f, <2>1, <2>6, <2>7, 0 \in Nat, ~(0 > 0)
<1>3. CASE Eng!PrepareFails(s) \/ Eng!RetryCancelled(s)
    <2>1. /\ pc[s] \in {"prepare", "retry"} /\ Eng!StepEnds(s, "error", "Failed")
          /\ UNCHANGED <<Eng!flowVars, ctxDone, continue, attempt, outputs, rendered>>
        BY <1>3 DEF Eng!PrepareFails, Eng!RetryCancelled
    <2>2. "Failed" \in Eng!Statuses \ {"None"}
        BY DEF Eng!Statuses
    <2>3. QED
        BY <1>b, <1>d, <1>e, <2>1, <2>2
<1>4. CASE Eng!CallSucceeds(s)
    <2>1. /\ pc[s] = "call" /\ Eng!StepEnds(s, "result", "Succeeded")
          /\ UNCHANGED <<Eng!flowVars, ctxDone, continue, attempt, outputs, rendered>>
        BY <1>4 DEF Eng!CallSucceeds
    <2>2. "Succeeded" \in Eng!Statuses \ {"None"}
        BY DEF Eng!Statuses
    <2>3. QED
        BY <1>b, <1>d, <1>e, <2>1, <2>2
\* The attempts are used up.
<1>5. ASSUME Eng!AttemptsUsedUp(s), attempt' = attempt, pc[s] \in {"prepare", "call"},
             UNCHANGED <<Eng!flowVars, ctxDone, outputs>>,
             rendered' \in [Steps -> [Steps -> Eng!Outputs]],
             \A t \in Steps \ {s} : rendered'[t] = rendered[t],
             rendered' = rendered \/ attempt[s] = 0
      PROVE  Eng!EngineInv'
    <2>1. PICK w \in {"result", "error"} :
             Eng!StepEnds(s, w, "Failed") /\ (w = "result" => def[s].cont)
        BY <1>5 DEF Eng!AttemptsUsedUp
    <2>2. continue' = (continue \/ def[s].cont)
        BY <1>5 DEF Eng!AttemptsUsedUp
    <2>3. continue' \in BOOLEAN /\ (continue => continue') /\ (def[s].cont => continue')
        BY <2>2, <1>a, <1>b
    <2>4. "Failed" \in Eng!Statuses \ {"None"}
        BY DEF Eng!Statuses
    <2>5. QED
        BY <1>5, <1>e, <2>1, <2>3, <2>4
<1>6. CASE Eng!Prepare(s)
    <2>1. /\ pc[s] = "prepare" /\ rendered' = [rendered EXCEPT ![s] = outputs]
          /\ UNCHANGED <<Eng!flowVars, ctxDone, outputs>>
        BY <1>6 DEF Eng!Prepare
    <2>2. /\ rendered' \in [Steps -> [Steps -> Eng!Outputs]] /\ rendered'[s] = outputs
          /\ \A t \in Steps \ {s} : rendered'[t] = rendered[t]
        BY <1>b, <2>1
    <2>3. attempt[s] = 0
        BY <1>a, <2>1 DEF Eng!StepInv
    <2>4. CASE Eng!AttemptsUsedUp(s) /\ attempt' = attempt
        BY <1>5, <2>1, <2>2, <2>3, <2>4
    <2>5. CASE /\ attempt' = [attempt EXCEPT ![s] = 1] /\ pc' = [pc EXCEPT ![s] = "call"]
               /\ UNCHANGED <<continue, outcome>>
        <3>1. \A d \in def[s].deps : recorded[d] = "Succeeded" => rendered'[s][d] = "own"
            <4>1. def[s].deps \subseteq Steps
                BY ExecutionAssumption DEF Eng!EngineInv, Eng!TypeOK, ExecutionAssumption,
                   Eng!DefinitionsAssumption, Eng!StepDefinition
            <4>2. QED
                BY <2>2, <4>1 DEF Eng!EngineInv, Eng!StepInv
        <3>2. QED
            BY <1>f, <1>g, <2>1, <2>2, <2>5, <3>1, 1 \in Nat, 1 > 0
    <2>6. QED
        BY <1>6, <2>4, <2>5 DEF Eng!Prepare
<1>7. CASE Eng!CallFails(s)
    <2>1. pc[s] = "call" /\ attempt[s] > 0
          /\ UNCHANGED <<Eng!flowVars, ctxDone, outputs, rendered>>
        BY <1>7, <1>a DEF Eng!CallFails, Eng!StepInv
    <2>2. CASE Eng!AttemptsUsedUp(s) /\ attempt' = attempt
        BY <1>5, <1>b, <1>d, <2>1, <2>2
    <2>3. CASE /\ attempt' = [attempt EXCEPT ![s] = attempt[s] + 1]
               /\ pc' = [pc EXCEPT ![s] = "retry"] /\ UNCHANGED <<continue, outcome>>
        <3>1. attempt[s] + 1 \in Nat /\ attempt[s] + 1 > 0
            BY <1>b
        <3>2. QED
            BY <1>b, <1>c, <1>f, <1>g, <2>1, <2>3, <3>1
    <2>4. QED
        BY <1>7, <2>2, <2>3 DEF Eng!CallFails
<1>8. CASE Eng!RetryTimer(s)
    <2>1. /\ pc[s] = "retry" /\ attempt[s] > 0 /\ pc' = [pc EXCEPT ![s] = "call"]
          /\ UNCHANGED <<Eng!flowVars, ctxDone, continue, attempt, outcome, outputs, rendered>>
        BY <1>8, <1>a DEF Eng!RetryTimer, Eng!StepInv
    <2>2. attempt' = [attempt EXCEPT ![s] = attempt[s]]
        BY <1>b, <2>1
    <2>3. QED
        BY <1>b, <1>c, <1>f, <1>g, <2>1, <2>2
<1>9. QED
    BY <1>1, <1>2, <1>3, <1>4, <1>6, <1>7, <1>8 DEF Eng!StepAction

\* The engine's cardinality is that of FiniteSets.
LEMMA EngCardinality == \A S : Eng!Cardinality(S) = Cardinality(S) /\ (Eng!IsFiniteSet(S) <=> IsFiniteSet(S))
    BY DEF Eng!Cardinality, Cardinality, Eng!IsFiniteSet, IsFiniteSet

\* FailureCount grows exactly if a failure is recorded.
LEMMA FailuresCounted ==
    /\ Eng!CountFailures \in Nat
    /\ Eng!CountFailures > 0 <=> \E t \in Steps : recorded[t] = "Failed"
<1>1. IsFiniteSet(Steps)
    BY ExecutionAssumption, EngCardinality DEF ExecutionAssumption, Eng!DefinitionsAssumption
<1>2. Eng!RecordedFailures \subseteq Steps
    BY DEF Eng!RecordedFailures
<1>3. IsFiniteSet(Eng!RecordedFailures)
    BY <1>1, <1>2, FS_Subset
<1>4. /\ Cardinality(Eng!RecordedFailures) \in Nat
      /\ Cardinality(Eng!RecordedFailures) = 0 <=> Eng!RecordedFailures = {}
    BY <1>3, FS_CardinalityType, FS_EmptySet
<1>5. Eng!CountFailures = Cardinality(Eng!RecordedFailures)
    BY EngCardinality DEF Eng!CountFailures
<1>6. Eng!RecordedFailures # {} <=> \E t \in Steps : recorded[t] = "Failed"
    BY DEF Eng!RecordedFailures
<1>7. QED
    BY <1>4, <1>5, <1>6

\* A recorded failure is one the workflow continues after.
LEMMA FailureContinues ==
    ASSUME Eng!EngineInv
    PROVE  Eng!RecordedFailureContinues
    BY DEF Eng!EngineInv, Eng!StepInv, Eng!RecordedFailureContinues, Eng!RecordedFailures

\* The collector receives a result or an error of step s.
LEMMA CollectKeeps ==
    ASSUME Eng!EngineInv, NEW s \in Steps, Eng!CollectResult(s) \/ Eng!CollectError(s)
    PROVE  Eng!EngineInv'
<1>a. /\ pc[s] \in {"result", "error"} /\ pc' = [pc EXCEPT ![s] = "taken"]
      /\ UNCHANGED <<def, ctxDone, graph, level, status, failures, continue, attempt, outcome, rendered>>
    BY DEF Eng!CollectResult, Eng!CollectError
<1>b. /\ recorded[s] = "None" /\ level # 0 /\ graph.ok /\ Eng!LevelOf(s) = level
      /\ status # "Succeeded" /\ level \in Nat
    BY <1>a, BegunStep DEF Eng!EngineInv, Eng!StepInv, Eng!SucceededIsComplete
<1>c. \A t \in Steps : Eng!LevelOf(t)' = Eng!LevelOf(t)
    BY <1>a DEF Eng!LevelOf
<1>d. /\ recorded' \in [Steps -> Eng!Statuses] /\ levelError' \in BOOLEAN
      /\ outputs' \in [Steps -> Eng!Outputs]
      /\ levelError => levelError'
      /\ \A t \in Steps \ {s} : recorded'[t] = recorded[t] /\ outputs'[t] = outputs[t]
      /\ recorded'[s] # "None" \/ levelError'
      /\ recorded'[s] = "Failed" => continue /\ def[s].cont
      /\ recorded'[s] = "Succeeded" => outputs'[s] = "own"
    <2>1. CASE Eng!CollectResult(s)
        <3>1. outcome[s] # "None" /\ (outcome[s] = "Failed" => continue /\ def[s].cont)
            BY <2>1 DEF Eng!CollectResult, Eng!EngineInv, Eng!StepInv
        <3>2. recorded' = [recorded EXCEPT ![s] = outcome[s]] /\ UNCHANGED levelError
            BY <2>1 DEF Eng!CollectResult
        <3>3. outputs' = IF outcome[s] = "Succeeded" THEN [outputs EXCEPT ![s] = "own"] ELSE outputs
            BY <2>1 DEF Eng!CollectResult
        <3>4. QED
            BY <3>1, <3>2, <3>3 DEF Eng!EngineInv, Eng!TypeOK, Eng!Outputs
    <2>2. CASE Eng!CollectError(s)
        BY <2>2, <1>b DEF Eng!CollectError, Eng!EngineInv, Eng!TypeOK
    <2>3. QED
        BY <2>1, <2>2
<1>1. Eng!TypeOK'
    BY <1>a, <1>d DEF Eng!EngineInv, Eng!TypeOK, Eng!StepPC
<1>2. pc'[s] = "taken" /\ \A t \in Steps \ {s} : pc'[t] = pc[t]
    BY <1>a DEF Eng!EngineInv, Eng!TypeOK
<1>3. \A t \in Steps : Eng!StepInv(t)'
    BY <1>a, <1>b, <1>d, <1>2 DEF Eng!EngineInv, Eng!StepInv
\* s is in the current level, below no step that has begun.
<1>4. \A t \in Steps : pc[t] # "none" => (Eng!FailedBelow(t)' <=> Eng!FailedBelow(t))
    <2>1. \A t \in Steps : pc[t] # "none" => ~(Eng!LevelOf(s) < Eng!LevelOf(t))
        BY <1>b, BegunStep
    <2>2. QED
        BY <1>c, <1>d, <1>b, <2>1 DEF Eng!FailedBelow
<1>5. \A t \in Steps : Eng!PolicyInv(t)'
    <2>1. \A t \in Steps : (pc'[t] \in {"prepare", "call", "retry"} \/ attempt[t] > 0) =>
             pc[t] # "none" /\ (pc[t] \in {"prepare", "call", "retry"} \/ attempt[t] > 0)
        BY <1>a, <1>2 DEF Eng!EngineInv, Eng!StepInv, Eng!TypeOK
    <2>2. QED
        BY <1>a, <1>4, <2>1 DEF Eng!EngineInv, Eng!PolicyInv
<1>6. Eng!LevelsInv'
    <2>1. \A k \in DOMAIN graph.levels : \A t \in graph.levels[k] : t \in Steps
        BY DEF Eng!EngineInv, Eng!Layered
    <2>2. \A k \in DOMAIN graph.levels : s \in graph.levels[k] => k = level
        BY <1>b, LevelIsUnique DEF Eng!EngineInv
    <2>3. QED
        BY <1>a, <1>b, <1>d, <1>2, <2>1, <2>2 DEF Eng!EngineInv, Eng!LevelsInv
<1>7. Eng!FailuresInv'
    <2>1. ~(Eng!LevelOf(s) < level)
        BY <1>b
    <2>2. (\E t \in Steps : recorded'[t] = "Failed" /\ Eng!LevelOf(t)' < level')
          <=> (\E t \in Steps : recorded[t] = "Failed" /\ Eng!LevelOf(t) < level)
        BY <1>a, <1>b, <1>c, <1>d, <2>1
    <2>3. QED
        BY <1>a, <2>2 DEF Eng!EngineInv, Eng!FailuresInv
<1>8. Eng!SucceededIsComplete' /\ Eng!Layered(def, graph)'
    BY <1>a, <1>b DEF Eng!EngineInv, Eng!SucceededIsComplete, Eng!Layered
<1>9. Eng!DependencyOutputIsOwn'
    <2>1. \A t \in Steps : attempt[t] > 0 => s \notin def[t].deps
        <3> SUFFICES ASSUME NEW t \in Steps, attempt[t] > 0 PROVE s \notin def[t].deps
            OBVIOUS
        <3>1. pc[t] # "none"
            BY DEF Eng!EngineInv, Eng!StepInv
        <3>2. QED
            BY <1>b, <3>1, DependenciesRecorded
    <2>2. \A t \in Steps : def[t].deps \subseteq Steps
        BY ExecutionAssumption DEF Eng!EngineInv, Eng!TypeOK, ExecutionAssumption,
           Eng!DefinitionsAssumption, Eng!StepDefinition
    <2>3. QED
        BY <1>a, <1>d, <2>1, <2>2 DEF Eng!EngineInv, Eng!DependencyOutputIsOwn
<1>10. QED
    BY <1>1, <1>3, <1>5, <1>6, <1>7, <1>8, <1>9 DEF Eng!EngineInv

\* The collector goes from level l to the next, when the steps up to l are
\* recorded and `f' tells whether one of them failed; or it has succeeded.
LEMMA EnterLevelKeeps ==
    ASSUME Eng!EngineInv, graph.ok, status = "Running", Eng!EnterLevel(level + 1),
           failures' \in Nat,
           failures' > 0 <=> \E t \in Steps : recorded[t] = "Failed",
           \A k \in DOMAIN graph.levels : k <= level =>
               \A t \in graph.levels[k] : recorded[t] # "None",
           UNCHANGED <<def, ctxDone, graph, recorded, continue, levelError, attempt, outcome,
                       outputs, rendered>>
    PROVE  Eng!EngineInv'
<1> DEFINE N == Len(graph.levels)
<1>a. /\ N \in Nat /\ DOMAIN graph.levels = 1..N /\ level \in 0..N
      /\ \A k \in 1..N : graph.levels[k] \subseteq Steps
    BY DEF Eng!EngineInv, Eng!TypeOK, Eng!Layered
<1>b. \A t \in Steps : Eng!LevelOf(t)' = Eng!LevelOf(t)
    BY DEF Eng!LevelOf
<1>c. \A t \in Steps : Eng!FailedBelow(t)' <=> Eng!FailedBelow(t)
    BY <1>b DEF Eng!FailedBelow
<1>d. Eng!SucceededIsComplete /\ Eng!Layered(def, graph)' /\ Eng!DependencyOutputIsOwn'
    BY DEF Eng!EngineInv, Eng!Layered, Eng!DependencyOutputIsOwn
<1>1. CASE level + 1 <= N
    <2>1. /\ level' = level + 1 /\ status' = "Running"
          /\ pc' = [s \in Steps |-> IF s \in graph.levels[level + 1] THEN "start" ELSE pc[s]]
        BY <1>1 DEF Eng!EnterLevel
    <2>2. level + 1 \in 1..N /\ level' \in 0..N
        BY <1>1, <1>a, <2>1
    <2>3. \A s \in graph.levels[level + 1] : s \in Steps /\ pc[s] = "none"
        BY <1>a, <2>2 DEF Eng!EngineInv, Eng!LevelsInv
    <2>4. Eng!TypeOK'
        BY <2>1, <2>2 DEF Eng!EngineInv, Eng!TypeOK, Eng!StepPC
    <2>5. \A s \in Steps : IF s \in graph.levels[level + 1] THEN pc'[s] = "start" /\ pc[s] = "none"
                           ELSE pc'[s] = pc[s]
        BY <2>1, <2>3
    <2>6. \A s \in Steps : Eng!StepInv(s)'
        BY <2>5 DEF Eng!EngineInv, Eng!StepInv
    <2>7. \A s \in Steps : Eng!PolicyInv(s)'
        BY <2>5, <1>c DEF Eng!EngineInv, Eng!PolicyInv
    <2>8. Eng!LevelsInv'
        <3>1. \A k \in 1..N : \A s \in graph.levels[k] : k > level + 1 =>
                 s \notin graph.levels[level + 1] /\ pc[s] = "none"
            <4>1. \A k, l \in 1..N : k # l => graph.levels[k] \cap graph.levels[l] = {}
                BY <1>a DEF Eng!EngineInv, Eng!Layered
            <4>2. \A k \in 1..N : \A s \in graph.levels[k] : k > level => pc[s] = "none"
                BY <1>a DEF Eng!EngineInv, Eng!LevelsInv
            <4>3. \A k \in 1..N : k > level + 1 => k # level + 1 /\ k > level
                BY <1>a
            <4>4. QED
                BY <2>2, <4>1, <4>2, <4>3
        <3>2. \A k \in 1..N : \A s \in graph.levels[k] : k > level' => pc'[s] = "none"
            BY <1>a, <2>1, <2>5, <3>1
        <3>3. \A k \in 1..N : \A s \in graph.levels[k] : k < level' => recorded'[s] # "None"
            BY <1>a, <2>1
        <3>4. QED
            BY <1>a, <2>1, <3>2, <3>3 DEF Eng!LevelsInv
    <2>9. Eng!FailuresInv'
        <3>1. \A t \in Steps : recorded[t] = "Failed" => Eng!LevelOf(t) < level + 1
            <4> SUFFICES ASSUME NEW t \in Steps, recorded[t] = "Failed"
                         PROVE Eng!LevelOf(t) < level + 1
                OBVIOUS
            <4>1. pc[t] # "none"
                BY DEF Eng!EngineInv, Eng!StepInv
            <4>2. QED
                BY <4>1, <1>a, BegunStep
        <3>2. QED
            BY <1>b, <2>1, <3>1 DEF Eng!FailuresInv
    <2>10. QED
        BY <1>d, <2>1, <2>4, <2>6, <2>7, <2>8, <2>9 DEF Eng!EngineInv, Eng!SucceededIsComplete
<1>2. CASE ~(level + 1 <= N)
    <2>1. level' = level /\ status' = "Succeeded" /\ pc' = pc
        BY <1>2 DEF Eng!EnterLevel
    <2>2. level = N
        BY <1>2, <1>a
    <2>3. \A s \in Steps : recorded[s] # "None"
        BY <1>a, <2>2 DEF Eng!EngineInv, Eng!Layered
    <2>4. Eng!TypeOK'
        BY <2>1 DEF Eng!EngineInv, Eng!TypeOK
    <2>5. \A s \in Steps : Eng!StepInv(s)' /\ Eng!PolicyInv(s)'
        BY <2>1, <1>c DEF Eng!EngineInv, Eng!StepInv, Eng!PolicyInv
    <2>6. Eng!LevelsInv' /\ Eng!FailuresInv'
        BY <2>1 DEF Eng!EngineInv, Eng!LevelsInv, Eng!FailuresInv
    <2>7. Eng!SucceededIsComplete'
        BY <2>3 DEF Eng!EngineInv, Eng!StepInv, Eng!SucceededIsComplete
    <2>8. QED
        BY <1>d, <2>4, <2>5, <2>6, <2>7 DEF Eng!EngineInv
<1>3. QED
    BY <1>1, <1>2

\* The execution fails, or its context ends: nothing else changes.
LEMMA GivingUpKeeps ==
    ASSUME Eng!EngineInv, status' \in {status, "Failed"}, status = "Running", ctxDone' \in BOOLEAN,
           UNCHANGED <<def, graph, level, recorded, failures, continue, levelError, pc, attempt,
                       outcome, outputs, rendered>>
    PROVE  Eng!EngineInv'
<1>1. \A t \in Steps : /\ Eng!LevelOf(t)' = Eng!LevelOf(t)
                       /\ Eng!FailedBelow(t)' <=> Eng!FailedBelow(t)
    BY DEF Eng!LevelOf, Eng!FailedBelow
<1>2. Eng!TypeOK' /\ Eng!Layered(def, graph)' /\ Eng!LevelsInv'
    BY DEF Eng!EngineInv, Eng!TypeOK, Eng!Layered, Eng!LevelsInv
<1>3. \A s \in Steps : Eng!StepInv(s)' /\ Eng!PolicyInv(s)'
    BY <1>1 DEF Eng!EngineInv, Eng!StepInv, Eng!PolicyInv
<1>4. Eng!FailuresInv'
    BY <1>1 DEF Eng!EngineInv, Eng!FailuresInv
<1>5. Eng!SucceededIsComplete' /\ Eng!DependencyOutputIsOwn'
    BY DEF Eng!EngineInv, Eng!SucceededIsComplete, Eng!DependencyOutputIsOwn
<1>6. QED
    BY <1>2, <1>3, <1>4, <1>5 DEF Eng!EngineInv

\* Every step of the workflow engine keeps the invariant.
LEMMA EngStep == Eng!EngineInv /\ [Eng!Next]_engVars => Eng!EngineInv'
<1> SUFFICES ASSUME Eng!EngineInv, [Eng!Next]_engVars PROVE Eng!EngineInv'
    OBVIOUS
<1>a. /\ ctxDone \in BOOLEAN /\ failures \in Nat /\ level \in Nat
      /\ DOMAIN graph.levels = 1..Len(graph.levels) /\ level \in 0..Len(graph.levels)
      /\ Len(graph.levels) \in Nat
    BY DEF Eng!EngineInv, Eng!TypeOK, Eng!Layered
<1>1. ASSUME Eng!EnterWorkflow PROVE Eng!EngineInv'
    <2>1. CASE ~graph.ok
        BY <1>1, <1>a, <2>1, GivingUpKeeps DEF Eng!EnterWorkflow
    <2>2. CASE graph.ok
        <3>1. /\ status = "Running" /\ level = 0 /\ Eng!EnterLevel(level + 1)
              /\ UNCHANGED <<def, ctxDone, graph, recorded, failures, continue, levelError,
                             attempt, outcome, outputs, rendered>>
            BY <1>1, <2>2 DEF Eng!EnterWorkflow
        <3>2. \A t \in Steps : recorded[t] = "None"
            BY <3>1 DEF Eng!EngineInv, Eng!LevelsInv, Eng!StepInv
        <3>3. ~(failures > 0)
            BY <3>1, <3>2 DEF Eng!EngineInv, Eng!FailuresInv
        <3>4. \A k \in DOMAIN graph.levels : ~(k <= level)
            BY <1>a, <3>1
        <3>5. QED
            BY <1>a, <2>2, <3>1, <3>2, <3>3, <3>4, EnterLevelKeeps
    <2>3. QED
        BY <2>1, <2>2
<1>2. ASSUME Eng!LevelDone PROVE Eng!EngineInv'
    <2>1. /\ status = "Running" /\ level > 0 /\ Eng!LevelComplete
          /\ UNCHANGED <<def, ctxDone, graph, recorded, continue, levelError, attempt, outcome,
                         outputs, rendered>>
        BY <1>2 DEF Eng!LevelDone, Eng!Collecting
    <2>2. CASE levelError
        BY <1>2, <1>a, <2>1, <2>2, GivingUpKeeps DEF Eng!LevelDone
    <2>3. CASE ~levelError
        <3>1. failures' = failures + Eng!CountFailures /\ Eng!EnterLevel(level + 1)
            BY <1>2, <2>3, FailureContinues
               DEF Eng!LevelDone, Eng!StoppedByFailures, Eng!RecordedFailureContinues
        <3>2. graph.ok
            BY <2>1, <1>a DEF Eng!EngineInv, Eng!LevelsInv
        <3>3. \A k \in DOMAIN graph.levels : \A t \in graph.levels[k] : t \in Steps
            BY DEF Eng!EngineInv, Eng!Layered
        <3>4. \A k \in DOMAIN graph.levels : k <= level =>
                 \A t \in graph.levels[k] : recorded[t] # "None"
            <4>1. level \in DOMAIN graph.levels
                BY <1>a, <2>1
            <4>2. \A t \in graph.levels[level] : recorded[t] # "None"
                BY <2>1, <2>3, <3>3, <4>1 DEF Eng!LevelComplete, Eng!EngineInv, Eng!StepInv
            <4>3. \A k \in DOMAIN graph.levels : k < level =>
                     \A t \in graph.levels[k] : recorded[t] # "None"
                BY DEF Eng!EngineInv, Eng!LevelsInv
            <4>4. QED
                BY <1>a, <4>2, <4>3
        <3>5. failures > 0 => \E t \in Steps : recorded[t] = "Failed"
            BY <2>1 DEF Eng!EngineInv, Eng!FailuresInv
        <3>6. /\ failures' \in Nat
              /\ failures' > 0 <=> \E t \in Steps : recorded[t] = "Failed"
            BY <1>a, <3>1, <3>5, FailuresCounted
        <3>7. QED
            BY <2>1, <3>1, <3>2, <3>4, <3>6, EnterLevelKeeps
    <2>4. QED
        BY <2>2, <2>3
<1>3. ASSUME Eng!CollectorCancelled \/ Eng!Cancel PROVE Eng!EngineInv'
    BY <1>3, <1>a, GivingUpKeeps
       DEF Eng!CollectorCancelled, Eng!Collecting, Eng!Cancel, Eng!flowVars
<1>4. CASE UNCHANGED engVars
    <2>1. \A t \in Steps : /\ Eng!LevelOf(t)' = Eng!LevelOf(t)
                           /\ Eng!FailedBelow(t)' <=> Eng!FailedBelow(t)
        BY <1>4 DEF engVars, Eng!LevelOf, Eng!FailedBelow
    <2>2. QED
        BY <1>4, <2>1 DEF engVars, Eng!EngineInv, Eng!TypeOK, Eng!Layered, Eng!LevelsInv, Eng!StepInv,
           Eng!PolicyInv, Eng!FailuresInv, Eng!SucceededIsComplete, Eng!DependencyOutputIsOwn
<1>5. ASSUME Eng!Finished PROVE Eng!EngineInv'
    BY <1>4, <1>5 DEF Eng!Finished, Eng!vars, engVars
<1>6. QED
    BY <1>1, <1>2, <1>3, <1>4, <1>5, CollectKeeps, StepActionKeeps DEF Eng!Next, Eng!Collector

\* The workflow engine sorts as WorkflowGraph does: what is proved of that is
\* true of this.
LEMMA SameNames == \A s : Eng!NamesOf(s) = NamesOf(s)
BY DEF Eng!NamesOf, NamesOf

\* Cardinalities are the same,
LEMMA SameCardinality == \A s : /\ Eng!Cardinality(s) = Cardinality(s)
                                /\ Eng!IsFiniteSet(s) <=> IsFiniteSet(s)
BY DEF Eng!Cardinality, Cardinality, Eng!IsFiniteSet, IsFiniteSet

\* edges are,
LEMMA SameEdges == \A s, M, n : Eng!Edges(s, M, n) = Edges(s, M, n)
BY DEF Eng!Edges, Edges, Eng!EdgeSet, EdgeSet, Eng!Cardinality, Cardinality

\* levels are,
LEMMA SameLevels == \A s : Eng!Levels(s) = Levels(s)
<1>1. \A s : Eng!FirstRound(s) = FirstRound(s)
    BY SameEdges, SameNames DEF Eng!FirstRound, FirstRound, Eng!InDegree, InDegree
<1>2. \A s, r : Eng!NextRound(s, r) = NextRound(s, r)
    BY SameEdges, SameNames DEF Eng!NextRound, NextRound, Eng!Released, Released
<1>3. \A s : Eng!Rounds(s) = Rounds(s)
    BY <1>1, <1>2 DEF Eng!Rounds, Rounds
<1>4. \A r : Eng!Taken(r) = Taken(r)
    BY DEF Eng!Taken, Taken
<1>5. QED
    BY <1>3, <1>4 DEF Eng!Levels, Levels

\* and so is the sort.
LEMMA SameSort == \A s : Eng!buildDependencyGraph(s) = buildDependencyGraph(s)
<1>1. \A s : Eng!MissingDependency(s) <=> MissingDependency(s)
    BY DEF Eng!MissingDependency, MissingDependency, Eng!NamesOf, NamesOf
<1>2. \A v : Eng!TotalSteps(v) = TotalSteps(v)
    BY SameCardinality DEF Eng!TotalSteps, TotalSteps
<1>3. QED
    BY <1>1, <1>2, SameLevels DEF Eng!buildDependencyGraph, buildDependencyGraph

\* The list StepList makes of a set: a finite set can be listed.
Listing(S) ==
    CHOOSE f \in [1..Eng!Cardinality(S) -> S] : \A s \in S : \E i \in DOMAIN f : f[i] = s

LEMMA Listed ==
    ASSUME NEW S, IsFiniteSet(S)
    PROVE  /\ Listing(S) \in [1..Cardinality(S) -> S] /\ Cardinality(S) \in Nat
           /\ \A s \in S : \E i \in 1..Cardinality(S) : Listing(S)[i] = s
<1>1. PICK g : g \in Bijection(1..Cardinality(S), S)
    BY FS_CardinalityType DEF ExistsBijection
<1>2. Cardinality(S) \in Nat
    BY FS_CardinalityType
<1>3. g \in [1..Cardinality(S) -> S] /\ \A s \in S : \E i \in DOMAIN g : g[i] = s
    BY <1>1 DEF Bijection, Surjection, Injection
<1>4. Eng!Cardinality(S) = Cardinality(S)
    BY SameCardinality
<1>5. /\ Listing(S) \in [1..Cardinality(S) -> S]
      /\ \A s \in S : \E i \in DOMAIN Listing(S) : Listing(S)[i] = s
    BY <1>3, <1>4 DEF Listing
<1>6. QED
    BY <1>2, <1>5

\* The step list of a definition has its steps and their dependencies.
LEMMA StepListFaithful ==
    ASSUME NEW d \in [Steps -> Eng!StepDefinition], IsFiniteSet(Steps)
    PROVE  /\ IsStepList(Eng!StepList(d)) /\ NamesOf(Eng!StepList(d)) = Steps
           /\ \A s \in Steps : \A t \in d[s].deps : t \in Steps /\ EdgeSet(Eng!StepList(d), {t}, s) # {}
<1> DEFINE n == Cardinality(Steps)
           names == Listing(Steps)
           list == [i \in 1..n |-> [name |-> names[i], dependsOn |-> Listing(d[names[i]].deps)]]
<1>1. names \in [1..n -> Steps] /\ n \in Nat /\ \A s \in Steps : \E i \in 1..n : names[i] = s
    BY Listed
<1>2. Eng!StepList(d) = list
    <2>1. DOMAIN names = 1..n
        BY <1>1
    <2>2. QED
        BY <2>1 DEF Eng!StepList, Listing
<1>3. ASSUME NEW S \in SUBSET Steps
      PROVE  /\ Listing(S) \in [1..Cardinality(S) -> S] /\ Cardinality(S) \in Nat
             /\ \A s \in S : \E i \in 1..Cardinality(S) : Listing(S)[i] = s
    <2>1. IsFiniteSet(S)
        BY FS_Subset
    <2>2. QED
        BY <2>1, Listed
<1>4. \A s \in Steps : d[s].deps \in SUBSET Steps
    BY DEF Eng!StepDefinition
<1> HIDE DEF names, n
<1>5. ASSUME NEW i \in 1..n
      PROVE  [name |-> names[i], dependsOn |-> Listing(d[names[i]].deps)] \in [name : Steps, dependsOn : Seq(Steps)]
    <2> DEFINE S == d[names[i]].deps
    <2>1. S \in SUBSET Steps /\ names[i] \in Steps
        BY <1>1, <1>4
    <2> HIDE DEF S
    <2>2. Listing(S) \in [1..Cardinality(S) -> S] /\ Cardinality(S) \in Nat
        BY <1>3, <2>1
    <2>3. Listing(S) \in Seq(Steps)
        <3>1. Listing(S) \in [1..Cardinality(S) -> Steps]
            BY <2>1, <2>2
        <3>2. QED
            BY <2>2, <3>1
    <2>4. QED
        BY <2>1, <2>3 DEF S
<1>6. IsStepList(list)
    <2> DEFINE R == [name : Steps, dependsOn : Seq(Steps)]
    <2>1. list \in [1..n -> R]
        BY <1>5
    <2> HIDE DEF R, list
    <2>2. list \in Seq(R)
        BY <1>1, <2>1
    <2>3. QED
        BY <2>2 DEF IsStepList, R
<1>7. NamesOf(list) = Steps
    <2>1. DOMAIN list = 1..n /\ \A i \in 1..n : list[i].name = names[i]
        OBVIOUS
    <2> HIDE DEF list
    <2>2. QED
        BY <1>1, <2>1 DEF NamesOf
<1>8. ASSUME NEW s \in Steps, NEW t \in d[s].deps PROVE t \in Steps /\ EdgeSet(list, {t}, s) # {}
    <2>1. PICK i \in 1..n : names[i] = s
        BY <1>1
    <2> DEFINE S == d[s].deps
    <2>2. S \in SUBSET Steps /\ t \in S
        BY <1>4
    <2>3. DOMAIN list = 1..n /\ list[i].name = s /\ list[i].dependsOn = Listing(S)
        BY <2>1
    <2> HIDE DEF S, list
    <2>4. PICK k \in 1..Cardinality(S) : Listing(S)[k] = t
        BY <1>3, <2>2
    <2>5. k \in DOMAIN list[i].dependsOn /\ list[i].dependsOn[k] = t
        BY <1>3, <2>2, <2>3, <2>4
    <2>6. <<i, k>> \in EdgeSet(list, {t}, s)
        BY <2>3, <2>5 DEF EdgeSet
    <2>7. QED
        BY <2>2, <2>6
<1>9. QED
    BY <1>2, <1>6, <1>7, <1>8

\* Of every definition, the graph that is accepted is layered.
LEMMA GraphLayered ==
    ASSUME NEW d \in Definitions
    PROVE  Eng!Layered(d, Eng!buildDependencyGraph(Eng!StepList(d)))
<1> DEFINE list == Eng!StepList(d)
           g == buildDependencyGraph(list)
           V == Levels(list)
<1>1. d \in [Steps -> Eng!StepDefinition] /\ IsFiniteSet(Steps)
    BY ExecutionAssumption, SameCardinality DEF ExecutionAssumption, Eng!DefinitionsAssumption
<1>2. /\ IsStepList(list) /\ NamesOf(list) = Steps
      /\ \A s \in Steps : \A t \in d[s].deps : t \in Steps /\ EdgeSet(list, {t}, s) # {}
    BY <1>1, StepListFaithful
<1>3. Eng!buildDependencyGraph(list) = g
    BY SameSort
<1> SUFFICES Eng!Layered(d, g)
    BY <1>3
<1> HIDE DEF list
<1>4. CASE g.ok
    <2>1. g.levels = V /\ TotalSteps(V) = Len(list)
        BY <1>4 DEF buildDependencyGraph
    <2>2. V \in Seq(SUBSET Steps) /\ Left(list, Taken(Rounds(list))) = Steps \ UNION {V[k] : k \in DOMAIN V}
        BY <1>2, LevelsDef
    <2>3. Left(list, Taken(Rounds(list))) = {}
        BY <1>2, <2>1, TotalIsAll
    <2>4. \A s \in Steps : \E k \in DOMAIN V : s \in V[k]
        BY <2>2, <2>3
    <2>5. \A k, l \in DOMAIN V : k # l => V[k] \cap V[l] = {}
        BY <1>2, LevelsApart
    <2>6. ASSUME NEW k \in DOMAIN V, NEW s \in V[k], NEW t \in d[s].deps
          PROVE  \E l \in DOMAIN V : l < k /\ t \in V[l]
        <3>1. s \in Steps
            <4> HIDE DEF V
            <4>1. DOMAIN V = 1..Len(V)
                BY <2>2, LenProperties
            <4>2. V[k] \in SUBSET Steps
                BY <2>2, <4>1, ElementOfSeq
            <4>3. QED
                BY <4>2
        <3>2. t \in NamesOf(list) /\ EdgeSet(list, {t}, s) # {}
            BY <1>2, <3>1
        <3>3. QED
            BY <1>2, <3>2, DepsBelow
    <2> HIDE DEF V, g
    <2>7. QED
        BY <2>1, <2>2, <2>4, <2>5, <2>6 DEF Eng!Layered
<1>5. CASE ~g.ok
    <2>1. g.levels = <<>> /\ g.ok = FALSE
        BY <1>5 DEF buildDependencyGraph
    <2>2. <<>> \in Seq(SUBSET Steps)
        OBVIOUS
    <2> HIDE DEF g
    <2>3. QED
        BY <1>5, <2>1, <2>2 DEF Eng!Layered
<1>6. QED
    BY <1>4, <1>5

\* No step has run when an execution begins.
LEMMA EngInit == Eng!Init => Eng!EngineInv
<1> SUFFICES ASSUME Eng!Init PROVE Eng!EngineInv
    OBVIOUS
<1>1. Eng!Layered(def, graph)
    BY GraphLayered DEF Eng!Init
<1>2. /\ def \in Definitions /\ ctxDone = FALSE /\ level = 0 /\ status = "Running"
      /\ recorded = [s \in Steps |-> "None"]
      /\ failures = 0 /\ continue = FALSE /\ levelError = FALSE
      /\ pc = [s \in Steps |-> "none"] /\ attempt = [s \in Steps |-> 0]
      /\ outcome = [s \in Steps |-> "None"]
      /\ rendered = [s \in Steps |-> [t \in Steps |-> "absent"]]
    BY DEF Eng!Init
<1>3. outputs \in [Steps -> Eng!Outputs]
    BY DEF Eng!Init, Eng!Outputs
<1>4. Len(graph.levels) \in Nat /\ DOMAIN graph.levels = 1..Len(graph.levels)
      /\ \A k \in DOMAIN graph.levels : graph.levels[k] \subseteq Steps
    BY <1>1 DEF Eng!Layered
<1>5. Eng!TypeOK
    <2>1. rendered \in [Steps -> [Steps -> Eng!Outputs]]
        BY <1>2 DEF Eng!Outputs
    <2>2. pc \in [Steps -> Eng!StepPC] /\ attempt \in [Steps -> Nat]
          /\ recorded \in [Steps -> Eng!Statuses] /\ outcome \in [Steps -> Eng!Statuses]
        BY <1>2 DEF Eng!StepPC, Eng!Statuses
    <2>3. level \in 0..Len(graph.levels) /\ failures \in Nat
        BY <1>2, <1>4
    <2>4. QED
        BY <1>2, <1>3, <2>1, <2>2, <2>3 DEF Eng!TypeOK
<1>6. \A s \in Steps : Eng!StepInv(s) /\ Eng!PolicyInv(s)
    BY <1>2 DEF Eng!StepInv, Eng!PolicyInv
<1>7. Eng!LevelsInv
    BY <1>2, <1>4 DEF Eng!LevelsInv
<1>8. Eng!FailuresInv /\ Eng!SucceededIsComplete /\ Eng!DependencyOutputIsOwn
    BY <1>2 DEF Eng!FailuresInv, Eng!SucceededIsComplete, Eng!DependencyOutputIsOwn
<1>9. QED
    BY <1>1, <1>5, <1>6, <1>7, <1>8 DEF Eng!EngineInv

\* The inductive invariant of an execution.
THEOREM ExecutionInvariant == MCSpec => []Eng!EngineInv
<1>1. MCInit => Eng!EngineInv
    BY EngInit DEF MCInit
<1>2. Eng!EngineInv /\ [MCNext]_<<part, vars, engVars>> => Eng!EngineInv'
    BY EngStep DEF MCNext
<1>3. QED
    BY <1>1, <1>2, PTL DEF MCSpec

\* executeStepsInOrder and executeStep of workflow_engine.go, for every number
\* of steps: the tool of a step is called only when everything it depends on
\* is recorded, under its run policy, and with outputs of this execution.
THEOREM StepsAlwaysRunInPlace == MCSpec => []StepsRunInPlace
<1>1. Eng!EngineInv => StepsRunInPlace
    <2> SUFFICES ASSUME Eng!EngineInv PROVE StepsRunInPlace
        OBVIOUS
    <2>1. \A s \in Steps : attempt[s] > 0 => pc[s] # "none"
        BY DEF Eng!EngineInv, Eng!StepInv
    <2>2. Eng!CallsFollowDependencies
        BY <2>1, DependenciesRecorded DEF Eng!CallsFollowDependencies
    <2>3. Eng!RunPolicyRespected
        BY DEF Eng!EngineInv, Eng!PolicyInv, Eng!RunPolicyRespected
    <2>4. QED
        BY <2>2, <2>3 DEF StepsRunInPlace, Eng!EngineInv
<1>2. QED
    BY <1>1, ExecutionInvariant, PTL

\* workflow_engine.go: an execution that succeeds has recorded every step, each
\* failure among them one of a step marked continueOnError; and a recorded
\* failure is one the workflow continues after.
THEOREM ResultAlwaysDeserved == MCSpec => []ResultIsDeserved
<1>1. Eng!EngineInv => ResultIsDeserved
    BY FailureContinues DEF Eng!EngineInv, ResultIsDeserved
<1>2. QED
    BY <1>1, ExecutionInvariant, PTL
=============================================================================
