---------------------------- MODULE WorkflowGraph ----------------------------
(***************************************************************************)
(* The two pure functions of internal/scheduler/workflow_engine.go over    *)
(* the steps of a workflow definition: buildDependencyGraph, a topological *)
(* sort into levels that may run in parallel, and the check of the step    *)
(* list in ValidateWorkflowDefinition.                                     *)
(*                                                                         *)
(* A step list is a sequence of [name, dependsOn], dependsOn a sequence of *)
(* names: names and dependencies may repeat, as they may in the CRD.  The  *)
(* order inside a level is the order of a Go map, so a level is a set.     *)
(***************************************************************************)
EXTENDS Integers, Sequences, FiniteSets

NamesOf(steps) == {steps[i].name : i \in DOMAIN steps}

\* The entries of adjList from the steps of M to n: the (step, position) pairs
\* at which a step named n lists one of M.
EdgeSet(steps, M, n) ==
    {p \in UNION {{i} \X DOMAIN steps[i].dependsOn : i \in DOMAIN steps} :
        steps[p[1]].name = n /\ steps[p[1]].dependsOn[p[2]] \in M}

Edges(steps, M, n) == Cardinality(EdgeSet(steps, M, n))

MissingDependency(steps) ==
    \E i \in DOMAIN steps : \E k \in DOMAIN steps[i].dependsOn :
        steps[i].dependsOn[k] \notin NamesOf(steps)

InDegree(steps, n) == Edges(steps, NamesOf(steps), n)

\* A neighbour joins the next level when its count reaches zero.
Released(before, after) == before > 0 /\ after = 0

FirstRound(steps) ==
    [deg |-> [n \in NamesOf(steps) |-> InDegree(steps, n)],
     queue |-> {n \in NamesOf(steps) : InDegree(steps, n) = 0}]

\* One turn of the loop: the in-degrees left when the queue is taken, and
\* the next queue.
NextRound(steps, round) ==
    LET deg == [n \in NamesOf(steps) |-> round.deg[n] - Edges(steps, round.queue, n)]
    IN [deg |-> deg,
        queue |-> {n \in NamesOf(steps) : Released(round.deg[n], deg[n])}]

\* The loop begins a round with each of these; it ends at an empty queue,
\* within as many rounds as there are steps.
Rounds(steps) ==
    LET round[k \in 0..Len(steps)] ==
          IF k = 0 THEN FirstRound(steps) ELSE NextRound(steps, round[k - 1])
    IN  round

Taken(rounds) ==
    CHOOSE k \in DOMAIN rounds : /\ rounds[k].queue = {}
                                 /\ \A j \in 0..(k - 1) : rounds[j].queue # {}

\* The levels: the queues the loop takes.
Levels(steps) ==
    LET rounds == Rounds(steps)
    IN  [k \in 1..Taken(rounds) |-> rounds[k - 1].queue]

\* The lengths of the levels together, as the number of their entries.
TotalSteps(levels) == Cardinality(UNION {{k} \X levels[k] : k \in DOMAIN levels})

\* Mutant: no count of the sorted steps.
MutbuildDependencyGraph(steps) ==
    [ok |-> ~MissingDependency(steps), levels |-> Levels(steps)]

buildDependencyGraph(steps) ==
    IF MissingDependency(steps) \/ TotalSteps(Levels(steps)) # Len(steps)
    THEN [ok |-> FALSE, levels |-> <<>>]
    ELSE [ok |-> TRUE, levels |-> Levels(steps)]

\* Mutant: dependencies are looked up in the whole list.
MutValidSteps(steps) ==
    /\ Len(steps) > 0
    /\ \A i \in DOMAIN steps :
          /\ \A j \in 1..(i - 1) : steps[j].name # steps[i].name
          /\ \A k \in DOMAIN steps[i].dependsOn :
                steps[i].dependsOn[k] \in NamesOf(steps)

\* ValidateWorkflowDefinition: names are unique and a dependency is a step
\* seen so far, the step itself included.
ValidSteps(steps) ==
    /\ Len(steps) > 0
    /\ \A i \in DOMAIN steps :
          /\ \A j \in 1..(i - 1) : steps[j].name # steps[i].name
          /\ \A k \in DOMAIN steps[i].dependsOn :
                \E j \in 1..i : steps[j].name = steps[i].dependsOn[k]
=============================================================================
