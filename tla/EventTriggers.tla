--------------------------- MODULE EventTriggers ---------------------------
(***************************************************************************)
(* What a reconcile of a running MCPTaskScheduler does beside its          *)
(* workflows: it replaces the watcher of Kubernetes events, counts the     *)
(* Jobs, and adjusts the number of concurrent tasks.  A watcher polls the  *)
(* list of events and makes a Job for each one that matches its trigger.   *)
(*                                                                         *)
(* A list has its events in any order; resource versions are numbers that  *)
(* are compared as text.  There is one trigger.                            *)
(***************************************************************************)
EXTENDS Integers, Sequences, FiniteSets, SequencesExt

CONSTANTS Events,       \* names
          Versions,     \* resource versions, a set of numbers below 100
          Unmatched,    \* names of events that fail the trigger's conditions
          MaxWatchers,  \* reconciles that replace the watcher
          MaxSeconds,   \* of the clock that names the Jobs
          MaxTasks,     \* running tasks counted
          Mins, Maxs, Specs, Targets   \* the numbers a configuration may have

VARIABLES
    events,    \* name -> resource version, 0 when there is no such event
    rv,        \* the latest version
    watcher,   \* generation -> its lastResourceVersion and the events to handle
    current,   \* the generation whose context is not cancelled
    clock,     \* seconds
    jobs,      \* Jobs made: the event and its version, the second
    scale      \* the configuration, the tasks that run, what the ConfigMap says

triggerVars == <<events, rv, watcher, current, clock, jobs, scale>>
eventVars == <<events, rv>>

Idle == [last |-> 0, todo |-> <<>>, listed |-> 0]
Scales == [min : Mins, max : Maxs, spec : Specs, target : Targets]

InitialScales == {[conf |-> c, tasks |-> 0, written |-> c.spec] : c \in Scales}

Init ==
    /\ events = [x \in Events |-> 0] /\ rv = 0
    /\ watcher = [g \in 1..MaxWatchers |-> Idle] /\ current = 0
    /\ clock = 0 /\ jobs = {}
    /\ scale \in InitialScales

-----------------------------------------------------------------------------
(* Events *)

\* A new event, or one more of a kind that is there.
EventHappens(x) ==
    \E v \in Versions :
        /\ v > rv /\ \A w \in Versions : w > rv => v <= w
        /\ rv' = v /\ events' = [events EXCEPT ![x] = v]
        /\ UNCHANGED <<watcher, current, clock, jobs, scale>>

EventExpires(x) ==
    /\ events[x] # 0
    /\ events' = [events EXCEPT ![x] = 0]
    /\ UNCHANGED <<rv, watcher, current, clock, jobs, scale>>

SecondPasses ==
    /\ clock < MaxSeconds
    /\ clock' = clock + 1
    /\ UNCHANGED <<events, rv, watcher, current, jobs, scale>>

\* setupEventWatching, in every reconcile: the old context is cancelled.
setupEventWatching ==
    /\ current < MaxWatchers
    /\ current' = current + 1
    /\ UNCHANGED <<events, rv, watcher, clock, jobs, scale>>

\* The order of numerals as text: one digit or two.
TextLE(a, b) ==
    LET digits(n) == IF n < 10 THEN <<n>> ELSE <<n \div 10, n % 10>>
        s == digits(a)
        t == digits(b)
    IN  \/ s[1] < t[1]
        \/ s[1] = t[1] /\ (Len(s) = 1 \/ (Len(t) = 2 /\ s[2] <= t[2]))

Listed == SetToSeqs({[name |-> x, version |-> events[x]] : x \in {y \in Events : events[y] # 0}})

\* A tick of a watcher: the list of the namespace.  One whose context is done
\* may tick once more.
watchKubernetesEvents(g) ==
    /\ g <= current /\ watcher[g].todo = <<>>
    /\ \E list \in Listed :
           /\ list # <<>>
           /\ watcher' = [watcher EXCEPT ![g] = [last |-> @.last, todo |-> list,
                                                 listed |-> list[Len(list)].version]]
    /\ UNCHANGED <<events, rv, current, clock, jobs, scale>>

\* matchesEventTrigger with the conditions of evaluateCondition.
Matches(e) == e.name \notin Unmatched

\* The Job is named after the second; the API server refuses a name twice and
\* a call whose context is done.
triggerWorkflow(g, e) ==
    jobs' = IF g = current /\ \A j \in jobs : j.second # clock
            THEN jobs \cup {[name |-> e.name, version |-> e.version, second |-> clock]}
            ELSE jobs

\* lastResourceVersion != "" && event.ResourceVersion <= lastResourceVersion
Seen(g, e) == watcher[g].last # 0 /\ TextLE(e.version, watcher[g].last)

\* The next event of the list; with the last one the version moves on.
HandleEvent(g) ==
    LET e == Head(watcher[g].todo)
        rest == Tail(watcher[g].todo)
    IN  /\ watcher[g].todo # <<>>
        /\ IF ~Seen(g, e) /\ Matches(e) THEN triggerWorkflow(g, e) ELSE UNCHANGED jobs
        /\ watcher' = [watcher EXCEPT ![g] =
               [last |-> IF rest = <<>> THEN @.listed ELSE @.last, todo |-> rest,
                listed |-> IF rest = <<>> THEN 0 ELSE @.listed]]
        /\ UNCHANGED <<events, rv, current, clock, scale>>

-----------------------------------------------------------------------------
(* Tasks *)

TasksChange ==
    /\ \E n \in 0..MaxTasks : scale' = [scale EXCEPT !.tasks = n]
    /\ UNCHANGED <<events, rv, watcher, current, clock, jobs>>

Bounded(c, n) == IF n < c.min THEN c.min ELSE IF n > c.max THEN c.max ELSE n

MutcalculateDesiredConcurrency(c, tasks) ==
    IF tasks * 100 > c.target * c.spec THEN Bounded(c, c.spec + c.spec \div 4)
    ELSE IF 2 * tasks * 100 < c.target * c.spec THEN Bounded(c, c.spec - (c.spec + 3) \div 4)
    ELSE c.spec

\* Up by a quarter, rounded down, above the target; down by a quarter, rounded
\* up, below half of it.  A load over a concurrency of 0 is infinite.
calculateDesiredConcurrency(c, tasks) ==
    IF tasks = 0 THEN c.min
    ELSE IF tasks * 100 > c.target * c.spec THEN Bounded(c, c.spec + c.spec \div 4)
    ELSE IF 2 * tasks * 100 < c.target * c.spec THEN Bounded(c, c.spec - (c.spec + 3) \div 4)
    ELSE Bounded(c, c.spec)

\* The ConfigMap is written when the value is another than that of the spec,
\* which never changes.
handleAutoScaling ==
    LET desired == calculateDesiredConcurrency(scale.conf, scale.tasks)
    IN  /\ scale' = [scale EXCEPT !.written = IF desired # scale.conf.spec THEN desired ELSE @]
        /\ UNCHANGED <<events, rv, watcher, current, clock, jobs>>

Next ==
    \/ \E x \in Events : EventHappens(x) \/ EventExpires(x)
    \/ SecondPasses \/ setupEventWatching
    \/ \E g \in 1..MaxWatchers : watchKubernetesEvents(g) \/ HandleEvent(g)
    \/ TasksChange \/ handleAutoScaling

Spec == Init /\ [][Next]_triggerVars

-----------------------------------------------------------------------------
\* What is configured lies within the bounds or is the spec's own, and more
\* load never means fewer tasks.
ScalingFollowsLoad ==
    LET c == scale.conf
        desired(n) == calculateDesiredConcurrency(c, n)
    IN  /\ scale.written \in c.min..c.max \cup {c.spec}
        /\ \A n \in 0..MaxTasks : desired(n) <= desired(n + 1) /\ desired(n) \in c.min..c.max

\* Configurations that make sense: natural numbers, a minimum that does not
\* exceed the maximum.
SoundScales ==
    /\ MaxTasks \in Nat
    /\ Mins \subseteq Nat /\ Maxs \subseteq Nat /\ Specs \subseteq Nat /\ Targets \subseteq Nat
    /\ \A low \in Mins, high \in Maxs : low <= high

\* The inductive invariant: what the ConfigMap says was computed from the
\* configuration, which no step changes.
ScaleInv ==
    /\ scale \in [conf : Scales, tasks : 0..MaxTasks, written : Nat]
    /\ scale.written \in scale.conf.min..scale.conf.max \cup {scale.conf.spec}

\* "Skip events we've already processed": one Job for one version of an event.
ProcessedOnce ==
    \A i, j \in jobs : i.name = j.name /\ i.version = j.version => i = j
============================================================================
