----------------------------- MODULE CronEngine -----------------------------
(***************************************************************************)
(* internal/scheduler/cron_engine.go: the registry of cron jobs, the       *)
(* robfig/cron instance it drives, and the goroutines that run a job with  *)
(* retries.                                                                *)
(*                                                                         *)
(* Every method of CronEngine holds e.mu for its whole body, so each is    *)
(* one action; the exception is Stop, which keeps e.mu while it waits for  *)
(* the running jobs (StopBegin ... StopEnd).  A job run is a goroutine of  *)
(* its own: it reads jobSpec.Enabled without the lock, then needs e.mu for *)
(* reading to fetch the engine's context, then calls the handler.          *)
(***************************************************************************)
EXTENDS Integers, FiniteSets

CONSTANTS JobIDs,       \* job identifiers (namespace/workflow name)
          Specs,        \* *JobSpec objects: one per AddJob call
          None,         \* no object
          Retries,      \* the MaxRetries values callers pass to AddJob
          MaxEntries,   \* bound: cron entries ever created
          MaxStarts     \* bound: calls of Start that start the engine

DefaultMaxRetries == 3

Entries == 1..MaxEntries

ASSUME CronAssumption ==
    /\ None \notin Specs /\ None \notin JobIDs
    /\ Retries \subseteq Nat
    /\ MaxEntries \in Nat /\ MaxStarts \in Nat

VARIABLES
    mu,         \* e.mu: "free", or "stop" while Stop holds it and waits
    started,    \* e.started
    ctxGen,     \* which context e.ctx is: 0 is nil, Start makes a new one
    cancelled,  \* e.cancel was called on the current context
    ticking,    \* the cron library's run loop is on
    jobs,       \* e.jobs: id -> spec
    spec,       \* the fields of every JobSpec object
    live,       \* the cron library's entries
    owner,      \* entry -> the JobSpec its wrapped handler closes over
    nextEntry,  \* the last cron.EntryID given out
    run         \* entry -> the goroutine running it

engineVars == <<mu, started, ctxGen, cancelled, ticking>>
registryVars == <<jobs, spec, live, owner, nextEntry>>
vars == <<mu, started, ctxGen, cancelled, ticking,
          jobs, spec, live, owner, nextEntry, run>>

SpecRecord == [id : JobIDs \cup {None}, enabled : BOOLEAN,
               entry : 0..MaxEntries, maxRetries : Nat, ran : BOOLEAN]
RunRecord == [pc : {"idle", "check", "gate", "call", "wait"},
              attempt : Nat, ctx : 0..MaxStarts]

NoSpec == [id |-> None, enabled |-> FALSE, entry |-> 0,
           maxRetries |-> 0, ran |-> FALSE]
Idle == [pc |-> "idle", attempt |-> 0, ctx |-> 0]

TypeOK ==
    /\ mu \in {"free", "stop"}
    /\ started \in BOOLEAN /\ cancelled \in BOOLEAN /\ ticking \in BOOLEAN
    /\ ctxGen \in 0..MaxStarts
    /\ jobs \in [JobIDs -> Specs \cup {None}]
    /\ spec \in [Specs -> SpecRecord]
    /\ live \subseteq Entries
    /\ owner \in [Entries -> Specs \cup {None}]
    /\ nextEntry \in 0..MaxEntries
    /\ run \in [Entries -> RunRecord]

Init ==
    /\ mu = "free" /\ started = FALSE /\ ctxGen = 0
    /\ cancelled = FALSE /\ ticking = FALSE
    /\ jobs = [id \in JobIDs |-> None]
    /\ spec = [s \in Specs |-> NoSpec]
    /\ live = {} /\ owner = [e \in Entries |-> None] /\ nextEntry = 0
    /\ run = [e \in Entries |-> Idle]

-----------------------------------------------------------------------------
(* Start and Stop *)

Start ==
    /\ mu = "free" /\ ~started
    /\ ctxGen < MaxStarts
    /\ ctxGen' = ctxGen + 1 /\ cancelled' = FALSE
    /\ ticking' = TRUE /\ started' = TRUE
    /\ UNCHANGED <<mu, jobs, spec, live, owner, nextEntry, run>>

StopBegin ==
    /\ mu = "free" /\ started
    /\ mu' = "stop"
    /\ cancelled' = TRUE
    /\ ticking' = FALSE
    /\ UNCHANGED <<started, ctxGen, jobs, spec, live, owner, nextEntry, run>>

\* <-ctx.Done(): the library closes it once its job WaitGroup is empty.
JobsDone == \A e \in Entries : run[e].pc = "idle"

\* Mutant: Stop does not wait for the running jobs.
MutStopEnd ==
    /\ mu = "stop"
    /\ started' = FALSE /\ mu' = "free"
    /\ UNCHANGED <<ctxGen, cancelled, ticking, jobs, spec, live, owner,
                   nextEntry, run>>

StopEnd ==
    /\ mu = "stop" /\ JobsDone
    /\ started' = FALSE /\ mu' = "free"
    /\ UNCHANGED <<ctxGen, cancelled, ticking, jobs, spec, live, owner,
                   nextEntry, run>>

-----------------------------------------------------------------------------
(* The registry *)

\* AddFunc: the library wraps the handler and gives out the next EntryID.
AddFunc(s) ==
    /\ nextEntry < MaxEntries
    /\ nextEntry' = nextEntry + 1
    /\ live' = live \cup {nextEntry + 1}
    /\ owner' = [owner EXCEPT ![nextEntry + 1] = s]

EffectiveRetries(n) == IF n = 0 THEN DefaultMaxRetries ELSE n

\* The caller hands over a JobSpec of its own; an id already registered is
\* overwritten.  A schedule that does not parse returns before any change.
AddJob(s, id, enabled, n) ==
    /\ mu = "free" /\ spec[s].id = None
    /\ AddFunc(s)
    /\ spec' = [spec EXCEPT ![s] = [id |-> id, enabled |-> enabled,
                                    entry |-> nextEntry + 1,
                                    maxRetries |-> EffectiveRetries(n),
                                    ran |-> FALSE]]
    /\ jobs' = [jobs EXCEPT ![id] = s]
    /\ UNCHANGED <<engineVars, run>>

RemoveJob(id) ==
    /\ mu = "free" /\ jobs[id] # None
    /\ live' = live \ {spec[jobs[id]].entry}
    /\ jobs' = [jobs EXCEPT ![id] = None]
    /\ UNCHANGED <<engineVars, spec, owner, nextEntry, run>>

\* Mutant: the new EntryID is not remembered.
MutEnableJob(id) ==
    /\ mu = "free" /\ jobs[id] # None
    /\ ~spec[jobs[id]].enabled
    /\ AddFunc(jobs[id])
    /\ spec' = [spec EXCEPT ![jobs[id]].enabled = TRUE]
    /\ UNCHANGED <<engineVars, jobs, run>>

EnableJob(id) ==
    /\ mu = "free" /\ jobs[id] # None
    /\ ~spec[jobs[id]].enabled
    /\ AddFunc(jobs[id])
    /\ spec' = [spec EXCEPT ![jobs[id]].entry = nextEntry + 1,
                            ![jobs[id]].enabled = TRUE]
    /\ UNCHANGED <<engineVars, jobs, run>>

DisableJob(id) ==
    /\ mu = "free" /\ jobs[id] # None
    /\ spec[jobs[id]].enabled
    /\ live' = live \ {spec[jobs[id]].entry}
    /\ spec' = [spec EXCEPT ![jobs[id]].enabled = FALSE]
    /\ UNCHANGED <<engineVars, jobs, owner, nextEntry, run>>

-----------------------------------------------------------------------------
(* A run of an entry.  The library's chain is SkipIfStillRunning(Recover): *)
(* a tick that finds the entry still running does nothing.                 *)

Fire(e) ==
    /\ ticking /\ e \in live
    /\ run[e].pc = "idle"
    /\ run' = [run EXCEPT ![e].pc = "check"]
    /\ UNCHANGED <<engineVars, registryVars>>

CheckEnabled(e) ==
    /\ run[e].pc = "check"
    /\ run' = [run EXCEPT ![e].pc = IF spec[owner[e]].enabled THEN "gate"
                                    ELSE "idle"]
    /\ UNCHANGED <<engineVars, registryVars>>

\* e.mu.RLock(); ctx := e.ctx; e.mu.RUnlock(); LastRun = now
FetchContext(e) ==
    /\ run[e].pc = "gate" /\ mu = "free"
    /\ run' = [run EXCEPT ![e] = [pc |-> "call", attempt |-> 1,
                                  ctx |-> ctxGen]]
    /\ spec' = [spec EXCEPT ![owner[e]].ran = TRUE]
    /\ UNCHANGED <<engineVars, jobs, live, owner, nextEntry>>

\* The run ends: the handler succeeded, the attempts are used up, or the
\* handler panicked and cron.Recover caught it.
HandlerEnds(e) ==
    /\ run[e].pc = "call"
    /\ run' = [run EXCEPT ![e] = Idle]
    /\ UNCHANGED <<engineVars, registryVars>>

HandlerFails(e) ==
    /\ run[e].pc = "call"
    /\ run[e].attempt < spec[owner[e]].maxRetries
    /\ run' = [run EXCEPT ![e].pc = "wait"]
    /\ UNCHANGED <<engineVars, registryVars>>

RetryTimer(e) ==
    /\ run[e].pc = "wait"
    /\ run' = [run EXCEPT ![e].pc = "call", ![e].attempt = @ + 1]
    /\ UNCHANGED <<engineVars, registryVars>>

ContextDone(c) == c < ctxGen \/ cancelled

\* Mutant: the retry wait sleeps and does not select on the context.
MutRetryAbort(e) == FALSE /\ UNCHANGED vars

RetryAbort(e) ==
    /\ run[e].pc = "wait" /\ ContextDone(run[e].ctx)
    /\ run' = [run EXCEPT ![e] = Idle]
    /\ UNCHANGED <<engineVars, registryVars>>

RunStep(e) ==
    \/ Fire(e) \/ CheckEnabled(e) \/ FetchContext(e)
    \/ HandlerEnds(e) \/ HandlerFails(e)
    \/ RetryTimer(e) \/ RetryAbort(e)

Next ==
    \/ Start \/ StopBegin \/ StopEnd
    \/ \E s \in Specs, id \in JobIDs, b \in BOOLEAN, n \in Retries :
          AddJob(s, id, b, n)
    \/ \E id \in JobIDs : RemoveJob(id) \/ EnableJob(id) \/ DisableJob(id)
    \/ \E e \in Entries : RunStep(e)

Spec == Init /\ [][Next]_vars

\* Goroutines are scheduled and handlers return; nothing says when a retry
\* timer expires, a tick comes or a caller calls.
Fairness ==
    /\ WF_vars(StopEnd)
    /\ \A e \in Entries : /\ WF_vars(CheckEnabled(e))
                          /\ WF_vars(FetchContext(e))
                          /\ WF_vars(HandlerEnds(e) \/ HandlerFails(e))
                          /\ WF_vars(RetryAbort(e))

FairSpec == Spec /\ Fairness
-----------------------------------------------------------------------------
(* Properties *)

\* Whatever sequence of AddJob, RemoveJob, EnableJob and DisableJob led here,
\* a registered enabled job is in the cron library, under the EntryID its
\* JobSpec remembers, with a handler bound to that JobSpec: it will fire, and
\* RemoveJob/DisableJob will find it.
EnabledJobIsScheduled ==
    \A id \in JobIDs :
        jobs[id] # None /\ spec[jobs[id]].enabled
            => /\ spec[jobs[id]].entry \in live
               /\ owner[spec[jobs[id]].entry] = jobs[id]

\* Stop returns only when no job run is left, and no run starts until the
\* next Start: an engine that is not started has no goroutine of its own.
NoRunOutlivesStop == ~started => JobsDone

\* A run that is calling its handler or waiting to retry holds the context
\* of the current Start, so that the next Stop reaches it.
RunContextIsCurrent ==
    \A e \in Entries : run[e].pc \in {"call", "wait"} => run[e].ctx = ctxGen

\* Stop returns when every run it finds is past fetching the context: a run
\* that waits for its retry delay is woken by the cancelled context.
StopReturnsWithoutGate ==
    (mu = "stop" /\ \A e \in Entries : run[e].pc \notin {"check", "gate"})
        ~> (mu = "free")

=============================================================================
