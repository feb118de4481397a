--------------------------- MODULE WorkflowEngine ---------------------------
(***************************************************************************)
(* internal/scheduler/workflow_engine.go: one call of ExecuteWorkflow.     *)
(*                                                                         *)
(* The caller's goroutine takes the levels of the dependency graph one by  *)
(* one: it launches a goroutine per step, collects one result or error     *)
(* from each (or leaves when the context is done) and decides whether to   *)
(* go on.  A step goroutine decides whether to skip, renders its           *)
(* parameters from the template engine, and calls the tool with retries.   *)
(*                                                                         *)
(* The template engine belongs to the WorkflowEngine, not to the           *)
(* execution: the outputs of earlier executions are still in it.           *)
(***************************************************************************)
EXTENDS WorkflowGraph

CONSTANTS Steps,        \* step names
          Definitions   \* workflow definitions, see StepDefinition

Policies == {"Always", "OnSuccess", "OnFailure", "OnCondition"}

\* A crd.WorkflowStep: dependsOn, the steps its templates refer to, whether
\* it has a condition, RunPolicy, ContinueOnError, and the number of
\* attempts its RetryPolicy allows (3 without one).
StepDefinition == [deps : SUBSET Steps, refs : SUBSET Steps, cond : BOOLEAN,
                   policy : Policies, cont : BOOLEAN, maxRetries : Nat]

\* The step list of the definition: distinct names in some order.
StepList(d) ==
    LET names == CHOOSE f \in [1..Cardinality(Steps) -> Steps] :
                    \A s \in Steps : \E i \in DOMAIN f : f[i] = s
        List(S) == CHOOSE f \in [1..Cardinality(S) -> S] :
                      \A s \in S : \E i \in DOMAIN f : f[i] = s
    IN [i \in DOMAIN names |-> [name |-> names[i],
                                dependsOn |-> List(d[names[i]].deps)]]

\* A graph that was accepted puts every step of the definition into one level,
\* after the levels of what it depends on.
Layered(d, g) ==
    /\ g.levels \in Seq(SUBSET Steps)
    /\ g.ok =>
         /\ \A s \in Steps : \E k \in DOMAIN g.levels : s \in g.levels[k]
         /\ \A k, l \in DOMAIN g.levels : k # l => g.levels[k] \cap g.levels[l] = {}
         /\ \A k \in DOMAIN g.levels : \A s \in g.levels[k] : \A t \in d[s].deps :
               \E l \in DOMAIN g.levels : l < k /\ t \in g.levels[l]

\* What the constants have to be.
DefinitionsAssumption ==
    /\ IsFiniteSet(Steps)
    /\ Definitions \subseteq [Steps -> StepDefinition]

VARIABLES
    def,        \* the definition being executed
    ctxDone,    \* the context was cancelled or the workflow timeout expired
    graph,      \* what buildDependencyGraph returns for def's steps
    level,      \* level being executed, 0 before the graph is built
    status,     \* execution.Status
    recorded,   \* execution.Steps: name -> status, "None" if not appended
    failures,   \* execution.Context.FailureCount
    continue,   \* execution.Context.ContinueOnFailure
    levelError, \* levelError # nil
    pc,         \* where each step's goroutine is
    attempt,    \* stepExecution.Attempts, the number of tool calls made
    outcome,    \* stepExecution.Status the goroutine ended with
    outputs,    \* templateEngine.stepOutputs: absent, or of which execution
    rendered    \* step -> the outputs its parameters were rendered from

flowVars == <<def, graph, level, status, recorded, failures, levelError>>
vars == <<def, ctxDone, graph, level, status, recorded, failures, continue,
          levelError, pc, attempt, outcome, outputs, rendered>>

\* The goroutine of a step: not launched, entering executeStep, before the
\* condition, in a tool call, waiting to retry, done with a result or an
\* error in the channel, and received by the collector.
StepPC == {"none", "start", "prepare", "call", "retry",
           "result", "error", "taken"}
Statuses == {"None", "Succeeded", "Failed", "Skipped"}
Outputs == {"absent", "earlier", "own"}

TypeOK ==
    /\ def \in Definitions /\ ctxDone \in BOOLEAN
    /\ level \in 0..Len(graph.levels)
    /\ status \in {"Running", "Succeeded", "Failed"}
    /\ recorded \in [Steps -> Statuses]
    /\ failures \in Nat /\ continue \in BOOLEAN /\ levelError \in BOOLEAN
    /\ pc \in [Steps -> StepPC]
    /\ attempt \in [Steps -> Nat]
    /\ outcome \in [Steps -> Statuses]
    /\ outputs \in [Steps -> Outputs]
    /\ rendered \in [Steps -> [Steps -> Outputs]]

Init ==
    /\ def \in Definitions
    /\ ctxDone = FALSE
    /\ graph = buildDependencyGraph(StepList(def)) /\ level = 0
    /\ status = "Running"
    /\ recorded = [s \in Steps |-> "None"]
    /\ failures = 0 /\ continue = FALSE /\ levelError = FALSE
    /\ pc = [s \in Steps |-> "none"]
    /\ attempt = [s \in Steps |-> 0]
    /\ outcome = [s \in Steps |-> "None"]
    /\ outputs \in {[s \in Steps |-> x] : x \in {"absent", "earlier"}}
    /\ rendered = [s \in Steps |-> [t \in Steps |-> "absent"]]

-----------------------------------------------------------------------------
(* ExecuteWorkflow and executeStepsInOrder *)

\* Mutant: the last level is taken for the end.
MutEnterLevel(k) ==
    IF k < Len(graph.levels)
    THEN /\ level' = k /\ status' = status
         /\ pc' = [s \in Steps |-> IF s \in graph.levels[k] THEN "start"
                                  ELSE pc[s]]
    ELSE /\ status' = "Succeeded" /\ level' = level /\ pc' = pc

\* Goroutines for the steps of level k; past the last level there is nothing
\* left to do and the execution has succeeded.
EnterLevel(k) ==
    IF k <= Len(graph.levels)
    THEN /\ level' = k /\ status' = status
         /\ pc' = [s \in Steps |-> IF s \in graph.levels[k] THEN "start"
                                  ELSE pc[s]]
    ELSE /\ status' = "Succeeded" /\ level' = level /\ pc' = pc

EnterWorkflow ==
    /\ status = "Running" /\ level = 0
    /\ \/ ~graph.ok /\ status' = "Failed" /\ UNCHANGED <<level, pc>>
       \/ graph.ok /\ EnterLevel(1)
    /\ UNCHANGED <<def, ctxDone, graph, recorded, failures, continue, levelError,
                   attempt, outcome, outputs, rendered>>

Collecting == status = "Running" /\ level > 0

\* Mutant: the output of a step is kept in the execution's context only.
MutCollectResult(s) ==
    /\ Collecting /\ s \in graph.levels[level] /\ pc[s] = "result"
    /\ pc' = [pc EXCEPT ![s] = "taken"]
    /\ recorded' = [recorded EXCEPT ![s] = outcome[s]]
    /\ UNCHANGED <<def, ctxDone, graph, level, status, failures, continue,
                   levelError, attempt, outcome, outputs, rendered>>

CollectResult(s) ==
    /\ Collecting /\ s \in graph.levels[level] /\ pc[s] = "result"
    /\ pc' = [pc EXCEPT ![s] = "taken"]
    /\ recorded' = [recorded EXCEPT ![s] = outcome[s]]
    /\ outputs' = IF outcome[s] = "Succeeded"
                  THEN [outputs EXCEPT ![s] = "own"] ELSE outputs
    /\ UNCHANGED <<def, ctxDone, graph, level, status, failures, continue,
                   levelError, attempt, outcome, rendered>>

CollectError(s) ==
    /\ Collecting /\ s \in graph.levels[level] /\ pc[s] = "error"
    /\ pc' = [pc EXCEPT ![s] = "taken"]
    /\ levelError' = TRUE
    /\ UNCHANGED <<def, ctxDone, graph, level, status, recorded, failures,
                   continue, attempt, outcome, outputs, rendered>>

\* Mutant: the collector waits for the steps only.
MutCollectorCancelled == FALSE /\ UNCHANGED vars

\* select may take <-ctx.Done() although results are waiting.
CollectorCancelled ==
    /\ Collecting /\ ctxDone
    /\ \E s \in graph.levels[level] : pc[s] # "taken"
    /\ status' = "Failed"
    /\ UNCHANGED <<def, ctxDone, graph, level, recorded, failures, continue,
                   levelError, pc, attempt, outcome, outputs, rendered>>

RecordedFailures == {s \in Steps : recorded[s] = "Failed"}

\* Mutant: a level is done when one of its steps is.
MutLevelComplete == \E s \in graph.levels[level] : pc[s] = "taken"

LevelComplete == \A s \in graph.levels[level] : pc[s] = "taken"

\* FailureCount is increased by all failures recorded so far, after every
\* level.
CountFailures == Cardinality(RecordedFailures)

StoppedByFailures == RecordedFailures # {} /\ ~continue

LevelDone ==
    /\ Collecting /\ LevelComplete
    /\ \/ /\ levelError
          /\ status' = "Failed"
          /\ UNCHANGED <<failures, level, pc>>
       \/ /\ ~levelError
          /\ failures' = failures + CountFailures
          /\ IF StoppedByFailures
             THEN status' = "Failed" /\ UNCHANGED <<level, pc>>
             ELSE EnterLevel(level + 1)
    /\ UNCHANGED <<def, ctxDone, graph, recorded, continue, levelError,
                   attempt, outcome, outputs, rendered>>

-----------------------------------------------------------------------------
(* executeStep *)

\* Mutant: OnSuccess is blind to a single failure.
MutshouldSkipStep(s) ==
    \/ def[s].policy = "OnSuccess" /\ failures > 1
    \/ def[s].policy = "OnFailure" /\ failures = 0

shouldSkipStep(s) ==
    \/ def[s].policy = "OnSuccess" /\ failures > 0
    \/ def[s].policy = "OnFailure" /\ failures = 0

\* Mutant: the channels are not buffered, a send needs a receiver.
MutStepEnds(s, where, st) ==
    /\ status = "Running"
    /\ pc' = [pc EXCEPT ![s] = where]
    /\ outcome' = [outcome EXCEPT ![s] = st]

StepEnds(s, where, st) ==
    /\ pc' = [pc EXCEPT ![s] = where]
    /\ outcome' = [outcome EXCEPT ![s] = st]

SkipByPolicy(s) ==
    /\ pc[s] = "start" /\ shouldSkipStep(s)
    /\ StepEnds(s, "result", "Skipped")
    /\ UNCHANGED <<flowVars, ctxDone, continue, attempt, outputs, rendered>>

NotSkipped(s) ==
    /\ pc[s] = "start" /\ ~shouldSkipStep(s)
    /\ pc' = [pc EXCEPT ![s] = "prepare"]
    /\ UNCHANGED <<flowVars, ctxDone, continue, attempt, outcome, outputs,
                   rendered>>

ConditionFalse(s) ==
    /\ pc[s] = "prepare" /\ def[s].cond
    /\ StepEnds(s, "result", "Skipped")
    /\ UNCHANGED <<flowVars, ctxDone, continue, attempt, outputs, rendered>>

\* The condition or a parameter is a template that does not parse, execute
\* or give a boolean.
PrepareFails(s) ==
    /\ pc[s] = "prepare" /\ (def[s].cond \/ def[s].refs # {})
    /\ StepEnds(s, "error", "Failed")
    /\ UNCHANGED <<flowVars, ctxDone, continue, attempt, outputs, rendered>>

\* Mutant: ContinueOnError spares the step only, not the workflow.
MutAttemptsUsedUp(s) ==
    /\ continue' = continue
    /\ StepEnds(s, IF def[s].cont THEN "result" ELSE "error", "Failed")

\* All attempts failed: the step's result, or an error if the workflow is
\* not to continue on it.
AttemptsUsedUp(s) ==
    /\ continue' = (continue \/ def[s].cont)
    /\ StepEnds(s, IF def[s].cont THEN "result" ELSE "error", "Failed")

\* RenderParameters, then the first round of the retry loop, if any.
Prepare(s) ==
    /\ pc[s] = "prepare"
    /\ rendered' = [rendered EXCEPT ![s] = outputs]
    /\ \/ /\ def[s].maxRetries = 0
          /\ AttemptsUsedUp(s) /\ attempt' = attempt
       \/ /\ def[s].maxRetries > 0
          /\ attempt' = [attempt EXCEPT ![s] = 1]
          /\ pc' = [pc EXCEPT ![s] = "call"]
          /\ UNCHANGED <<continue, outcome>>
    /\ UNCHANGED <<flowVars, ctxDone, outputs>>

CallSucceeds(s) ==
    /\ pc[s] = "call"
    /\ StepEnds(s, "result", "Succeeded")
    /\ UNCHANGED <<flowVars, ctxDone, continue, attempt, outputs, rendered>>

AttemptsLeft(s) == attempt[s] < def[s].maxRetries

\* Mutant: the loop does not count its attempts.
MutCallFails(s) ==
    /\ pc[s] = "call"
    /\ \/ /\ AttemptsLeft(s)
          /\ pc' = [pc EXCEPT ![s] = "retry"]
          /\ UNCHANGED <<continue, outcome>>
       \/ /\ ~AttemptsLeft(s)
          /\ AttemptsUsedUp(s)
    /\ UNCHANGED <<flowVars, ctxDone, attempt, outputs, rendered>>

\* The tool fails, the proxy is unreachable, or the step's or the workflow's
\* timeout ends the call.
CallFails(s) ==
    /\ pc[s] = "call"
    /\ \/ /\ AttemptsLeft(s)
          /\ attempt' = [attempt EXCEPT ![s] = @ + 1]
          /\ pc' = [pc EXCEPT ![s] = "retry"]
          /\ UNCHANGED <<continue, outcome>>
       \/ /\ ~AttemptsLeft(s)
          /\ AttemptsUsedUp(s) /\ attempt' = attempt
    /\ UNCHANGED <<flowVars, ctxDone, outputs, rendered>>

RetryTimer(s) ==
    /\ pc[s] = "retry"
    /\ pc' = [pc EXCEPT ![s] = "call"]
    /\ UNCHANGED <<flowVars, ctxDone, continue, attempt, outcome, outputs,
                   rendered>>

RetryCancelled(s) ==
    /\ pc[s] = "retry" /\ ctxDone
    /\ StepEnds(s, "error", "Failed")
    /\ UNCHANGED <<flowVars, ctxDone, continue, attempt, outputs, rendered>>

-----------------------------------------------------------------------------
\* The caller's context ends, or the workflow's own timeout.
Cancel ==
    /\ ~ctxDone /\ status = "Running"
    /\ ctxDone' = TRUE
    /\ UNCHANGED <<flowVars, continue, pc, attempt, outcome, outputs,
                   rendered>>

StepAction(s) ==
    \/ SkipByPolicy(s) \/ NotSkipped(s) \/ ConditionFalse(s)
    \/ PrepareFails(s) \/ Prepare(s)
    \/ CallSucceeds(s) \/ CallFails(s)
    \/ RetryTimer(s) \/ RetryCancelled(s)

Collector ==
    \/ EnterWorkflow
    \/ \E s \in Steps : CollectResult(s) \/ CollectError(s)
    \/ CollectorCancelled
    \/ LevelDone

\* ExecuteWorkflow has returned.
Finished == status # "Running" /\ UNCHANGED vars

Next == Collector \/ Cancel \/ (\E s \in Steps : StepAction(s)) \/ Finished

Spec == Init /\ [][Next]_vars

-----------------------------------------------------------------------------
(* Properties *)

\* The tool of a step is called only after every step it depends on has been
\* collected by this execution, whatever the order in which the goroutines
\* of a level finish.
CallsFollowDependencies ==
    \A s \in Steps : attempt[s] > 0 =>
        \A d \in def[s].deps : recorded[d] # "None"

\* A Succeeded execution has recorded every step of the definition, and a
\* recorded failure is one of a step marked continueOnError.
SucceededIsComplete ==
    status = "Succeeded" =>
        \A s \in Steps : /\ recorded[s] # "None"
                         /\ recorded[s] = "Failed" => def[s].cont

LevelOf(s) == CHOOSE k \in DOMAIN graph.levels : s \in graph.levels[k]

FailedBelow(s) ==
    \E t \in Steps : recorded[t] = "Failed" /\ LevelOf(t) < LevelOf(s)

\* "Run only if previous steps succeeded" / "failed": a step that was called
\* under OnSuccess (OnFailure) has no failed step (some failed step) in the
\* levels before its own.
RunPolicyRespected ==
    \A s \in Steps : attempt[s] > 0 =>
        /\ def[s].policy = "OnSuccess" => ~FailedBelow(s)
        /\ def[s].policy = "OnFailure" => FailedBelow(s)

\* A step's parameters are rendered from this execution's output of every
\* dependency that succeeded: never from what an earlier execution left in
\* the shared template engine.
DependencyOutputIsOwn ==
    \A s \in Steps : attempt[s] > 0 =>
        \A d \in def[s].deps :
            recorded[d] = "Succeeded" => rendered[s][d] = "own"

\* A failure that is recorded is one the workflow continues after: the
\* branch of executeStepsInOrder that returns "workflow stopped due to step
\* failures" is never taken, a workflow stops on a step's error only.
RecordedFailureContinues == RecordedFailures # {} => continue

-----------------------------------------------------------------------------
(* The inductive invariant *)

\* Where the goroutine of a step is, and what is known of the step then.
StepInv(s) ==
    /\ pc[s] \in {"none", "start", "prepare"} => attempt[s] = 0
    /\ pc[s] \in {"call", "retry"} => attempt[s] > 0
    /\ pc[s] = "result" => outcome[s] # "None"
    /\ pc[s] = "result" /\ outcome[s] = "Failed" => continue /\ def[s].cont
    /\ pc[s] = "taken" => recorded[s] # "None" \/ levelError
    /\ recorded[s] # "None" => pc[s] = "taken"
    /\ recorded[s] = "Failed" => continue /\ def[s].cont
    /\ recorded[s] = "Succeeded" => outputs[s] = "own"

\* The levels before the current one are recorded and the later ones have not
\* begun.
LevelsInv ==
    /\ level = 0 => \A s \in Steps : pc[s] = "none"
    /\ ~graph.ok => level = 0 /\ status # "Succeeded"
    /\ \A k \in DOMAIN graph.levels : \A s \in graph.levels[k] :
          /\ k > level => pc[s] = "none"
          /\ k < level => recorded[s] # "None"

\* Until the execution has succeeded, FailureCount tells whether a step failed
\* in the levels before the current one.
FailuresInv ==
    status # "Succeeded" =>
        (failures > 0 <=> \E t \in Steps : recorded[t] = "Failed" /\ LevelOf(t) < level)

\* The policy was asked before the step was prepared.
PolicyInv(s) ==
    pc[s] \in {"prepare", "call", "retry"} \/ attempt[s] > 0 =>
        /\ def[s].policy = "OnSuccess" => ~FailedBelow(s)
        /\ def[s].policy = "OnFailure" => FailedBelow(s)

EngineInv ==
    /\ TypeOK /\ Layered(def, graph)
    /\ LevelsInv /\ FailuresInv
    /\ \A s \in Steps : StepInv(s) /\ PolicyInv(s)
    /\ SucceededIsComplete
    /\ DependencyOutputIsOwn

-----------------------------------------------------------------------------
\* Once the context is done the execution ends although its steps may never
\* return from their tool calls.
CancelEndsExecution == ctxDone ~> (status # "Running")

\* The channels have room for every step of the level: no step goroutine is
\* left behind, not even when the collector has gone.
NoGoroutineLeft ==
    (status # "Running") ~>
        (\A s \in Steps : pc[s] \in {"none", "result", "error", "taken"})
=============================================================================
