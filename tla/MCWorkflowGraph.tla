--------------------------- MODULE MCWorkflowGraph ---------------------------
(***************************************************************************)
(* buildDependencyGraph and ValidateWorkflowDefinition over every step     *)
(* list of at most MaxSteps steps, each with at most MaxDeps dependencies. *)
(***************************************************************************)
EXTENDS WorkflowGraph

CONSTANTS StepNames, MaxSteps, MaxDeps

VARIABLES steps,    \* the step list given to the engine
          result    \* what buildDependencyGraph returned, or "none" before

DependencyLists == UNION {[1..k -> StepNames] : k \in 0..MaxDeps}
StepLists == UNION {[1..k -> [name : StepNames, dependsOn : DependencyLists]] :
                        k \in 0..MaxSteps}

NoResult == [ok |-> FALSE, levels |-> <<{}>>]

Init == steps \in StepLists /\ result = NoResult

Build == /\ result = NoResult
         /\ result' = buildDependencyGraph(steps)
         /\ UNCHANGED steps

Spec == Init /\ [][Build]_<<steps, result>>

\* A step named n lists m.
DependsOn(n, m) == EdgeSet(steps, {m}, n) # {}

UniqueNames == Cardinality(NamesOf(steps)) = Len(steps)

\* The dependencies have a cycle iff some set of steps has for each of its
\* members a dependency inside it.
Cyclic ==
    \E S \in (SUBSET NamesOf(steps)) \ {{}} : \A n \in S : \E m \in S : DependsOn(n, m)

\* buildDependencyGraph accepts exactly the step lists with distinct names,
\* known dependencies and no cycle.
AcceptsExactlyTheDAGs ==
    result # NoResult =>
        (result.ok <=> UniqueNames /\ ~MissingDependency(steps) /\ ~Cyclic)

\* There is a chain of k steps from n down, each depending on the next.
Chain(n, k) ==
    \E c \in [1..k -> NamesOf(steps)] :
        c[1] = n /\ \A i \in 1..(k - 1) : DependsOn(c[i], c[i + 1])

\* A step is in level k exactly if the longest chain from it down has k steps:
\* every dependency is in an earlier level, and no step waits for a level it
\* does not have to wait for.
LevelIsLongestChain ==
    result.ok =>
        \A k \in DOMAIN result.levels : \A n \in result.levels[k] :
            Chain(n, k) /\ ~Chain(n, k + 1)

\* A definition ValidateWorkflowDefinition accepts is one the engine can
\* run, unless a step lists itself.
ValidatedDefinitionRuns ==
    (result # NoResult /\ ValidSteps(steps)
        /\ \A n \in NamesOf(steps) : ~DependsOn(n, n)) => result.ok
=============================================================================
