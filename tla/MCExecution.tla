---------------------------- MODULE MCExecution ----------------------------
(***************************************************************************)
(* What executes workflows, side by side: the cron engine, which fires     *)
(* them, and the workflow engine, which runs one.  A behaviour is one of   *)
(* `part', and the other stays as it began.                                *)
(***************************************************************************)
EXTENDS CronEngine, TLC

CONSTANTS Steps, Definitions, s1, s2, s3

VARIABLES part,
          def, ctxDone, graph, level, status, recorded, failures, continue,
          levelError, pc, attempt, outcome, outputs, rendered

Eng == INSTANCE WorkflowEngine

ASSUME ExecutionAssumption == Eng!DefinitionsAssumption

-----------------------------------------------------------------------------
\* The definitions the run gives the workflow engine, of three steps.
Plain == [deps |-> {}, refs |-> {}, cond |-> FALSE, policy |-> "Always",
          cont |-> FALSE, maxRetries |-> 1]

\* s3 after s1 and s2, a chain, s2 and s3 after s1.
Shapes == {(s1 :> {}) @@ (s2 :> {}) @@ (s3 :> {s1, s2}),
           (s1 :> {}) @@ (s2 :> {s1}) @@ (s3 :> {s2}),
           (s1 :> {}) @@ (s2 :> {s1}) @@ (s3 :> {s1})}

\* Every shape, with every mix of ContinueOnError, run policies of the two
\* later steps and one conditional step.
PolicyDefinitions ==
    {[s \in {s1, s2, s3} |->
        [Plain EXCEPT !.deps = d[s], !.refs = d[s], !.cont = s \in c,
                      !.cond = (s = s2 /\ k),
                      !.policy = IF s = s1 THEN "Always" ELSE p[s]]] :
        d \in Shapes, c \in SUBSET {s1, s2}, k \in BOOLEAN,
        p \in [{s2, s3} -> {"OnSuccess", "OnFailure", "OnCondition"}]}

\* Retries of 0, 1 and 2 on a chain of two beside a step of its own, and a
\* cycle.
RetryDefinitions ==
    {[s \in {s1, s2, s3} |->
        [Plain EXCEPT !.deps = IF s = s2 THEN {s1} ELSE {},
                      !.cont = s \in c,
                      !.maxRetries = IF s = s3 THEN 1 ELSE n[s]]] :
        c \in SUBSET {s1, s2}, n \in [{s1, s2} -> 0..2]}
    \cup {[s \in {s1, s2, s3} |-> [Plain EXCEPT !.deps = {s1, s2}]]}

AllDefinitions == PolicyDefinitions \cup RetryDefinitions

-----------------------------------------------------------------------------
engVars == <<def, ctxDone, graph, level, status, recorded, failures, continue,
             levelError, pc, attempt, outcome, outputs, rendered>>

\* A workflow engine that does not run has one of the definitions.
MCInit ==
    /\ part \in {"cron", "engine"}
    /\ Init /\ Eng!Init
    /\ part = "cron" => /\ def = CHOOSE d \in Definitions : TRUE
                        /\ outputs = [s \in Steps |-> "absent"]

MCNext ==
    \/ part = "cron" /\ Next /\ UNCHANGED <<part, engVars>>
    \/ part = "engine" /\ Eng!Next /\ UNCHANGED part /\ UNCHANGED vars

\* The cron engine's fairness; the collector of the workflow engine runs, as
\* neither a channel nor the context holds it up for ever.
MCSpec ==
    /\ MCInit /\ [][MCNext]_<<part, vars, engVars>>
    /\ Fairness
    /\ WF_engVars(part = "engine" /\ Eng!Collector)

\* The step goroutines are scheduled too, a tool call ends (the HTTP client
\* has a timeout) and the retry timer expires.
StepsProgress == \A s \in Steps : WF_engVars(part = "engine" /\ Eng!StepAction(s))

-----------------------------------------------------------------------------
\* Of cron_engine.go: a run that calls its handler or waits to retry holds the
\* context of the current Start, so that Stop reaches it, and Stop returns when
\* every run it finds is past fetching the context.
StopReachesRuns == []RunContextIsCurrent /\ StopReturnsWithoutGate

\* Of workflow_engine.go: a step runs in its place: after its dependencies,
\* under its run policy, and with this execution's outputs.
StepsRunInPlace ==
    Eng!CallsFollowDependencies /\ Eng!RunPolicyRespected /\ Eng!DependencyOutputIsOwn

\* Of workflow_engine.go: what an execution ends with is what its steps earned
\* it.
ResultIsDeserved == Eng!TypeOK /\ Eng!SucceededIsComplete /\ Eng!RecordedFailureContinues

\* Of workflow_engine.go: an execution ends if its steps make progress, and
\* once it is cancelled although they may not; and it leaves no goroutine of a
\* step behind.
ExecutionsEnd ==
    part = "engine" =>
        /\ StepsProgress => <>(status # "Running")
        /\ Eng!CancelEndsExecution
        /\ StepsProgress => Eng!NoGoroutineLeft
============================================================================
