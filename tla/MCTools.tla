------------------------------ MODULE MCTools ------------------------------
(***************************************************************************)
(* Parts that share no state and are checked for invariants only, side by  *)
(* side: what the command line and the assistant do on the user's machine, *)
(* and what surrounds the execution of workflows.  A behaviour is one of   *)
(* `part', and the others stay as they began.                              *)
(***************************************************************************)
EXTENDS Integers, Sequences, FiniteSets, TLC

CONSTANTS Runs, NamespaceOf, Credentials, MaxFailures,      \* installer
          Paths, Present, SameBase, Plans, MaxBackups, MaxSeconds, MaxOps,
          Items, Tokens, TypeOf, Types, Limits, Strategies, Days,
          Names, Undefined, MaxDeps, Edited, Budget,        \* configuration
          StepNames, MaxSteps,                              \* step lists
          Titles, MaxWorkflows,                             \* templates
          Events, Versions, Unmatched, MaxWatchers, MaxTicks, MaxTasks, Mins, Maxs, Specs, Targets,
          Executions, Submitted, LongNames, Retained,       \* volumes
          fa, fb, fc,                                         \* paths
          x, y, z                                           \* items

MCNamespaceOf == [r \in Runs |-> "n"]
MCPlans       == {<<fa, fb>>, <<fc, fb>>}
MCTokens      == x :> 1 @@ y :> 2 @@ z :> 2
MCTypeOf      == x :> "edit" @@ y :> "edit" @@ z :> "log"
MCTypes       == <<"edit", "log">>
MCNames       == <<"a", "b", "c">>

VARIABLES part,
          objects, established, run, edited, failures,
          files, backups, sweeps, edit, second, ops,
          held, window, maxTokens, strategy, now,
          file, dotenv, environ, last, cost,
          steps, result,
          workflows,
          events, rv, watcher, current, clock, jobs, scale,
          jobOf, claim, sweep, mounted, dirs, reader, outages

Ins == INSTANCE Installer
Edt == INSTANCE FileEditor
Ctx == INSTANCE ContextWindow
Cfg == INSTANCE ConfigValidation
Gra == INSTANCE MCWorkflowGraph
Tpl == INSTANCE WorkflowTemplates WITH Names <- Titles
Evt == INSTANCE EventTriggers WITH MaxSeconds <- MaxTicks
Vol == INSTANCE WorkspaceVolumes WITH Runs <- Executions, failures <- outages

ASSUME ToolsAssumption == /\ Ctx!ContextAssumption /\ Cfg!ConfigAssumption
                          /\ MaxSteps \in Nat /\ MaxDeps \in Nat

insVars == <<objects, established, run, edited, failures>>
edtVars == <<files, backups, sweeps, edit, second, ops>>
ctxVars == <<held, window, maxTokens, strategy, now>>
cfgVars == <<file, dotenv, environ, last, cost>>
graVars == <<steps, result>>
evtVars == <<events, rv, watcher, current, clock, jobs, scale>>
volVars == <<jobOf, claim, sweep, mounted, dirs, reader, outages>>
vars == <<part, insVars, edtVars, ctxVars, cfgVars, graVars, workflows, evtVars, volVars>>

Parts == {"installer", "editor", "context", "config", "graph", "templates", "events", "volumes"}

\* A part that does not run stays in one of its initial states.
Init ==
    /\ part \in Parts
    /\ Ins!Init /\ Edt!Init /\ Cfg!Init /\ Tpl!Init /\ Vol!Init
    /\ IF part = "graph" THEN Gra!Init ELSE steps = <<>> /\ result = Gra!NoResult
    /\ Evt!Init /\ (part # "events" => scale = CHOOSE s \in Evt!InitialScales : TRUE)
    /\ Ctx!Init /\ (part # "context" => maxTokens = 3 /\ strategy = "oldest")

\* A step of one part.
In(p) ==
    /\ part = p
    /\ UNCHANGED part
    /\ p # "installer" => UNCHANGED insVars
    /\ p # "editor" => UNCHANGED edtVars
    /\ p # "context" => UNCHANGED ctxVars
    /\ p # "config" => UNCHANGED cfgVars
    /\ p # "graph" => UNCHANGED graVars
    /\ p # "templates" => UNCHANGED workflows
    /\ p # "events" => UNCHANGED evtVars
    /\ p # "volumes" => UNCHANGED volVars

Next ==
    \/ In("installer") /\ Ins!Next
    \/ In("editor") /\ Edt!Next
    \/ In("context") /\ Ctx!Next
    \/ In("config") /\ Cfg!Next
    \/ In("graph") /\ Gra!Build
    \/ In("templates") /\ Tpl!Next
    \/ In("events") /\ Evt!Next
    \/ In("volumes") /\ Vol!Next

Spec == Init /\ [][Next]_vars

-----------------------------------------------------------------------------
\* Of service/installer.go: a finished installation has every object, bound to
\* those it needs.
InstallationIsWhole == part = "installer" => Ins!InstallationIsWhole

\* Of edit/editor.go: what an operation undid is as it was.
UndoneIsRestored == part = "editor" => Edt!UndoneIsRestored

\* Of context/manager.go: the window is the items it counts, within its limit.
WindowIsSound == part = "context" => Ctx!WindowIsSound

\* Of config/*.go: the readers of a file agree.
ValidationAgrees == part = "config" => Cfg!ValidationAgrees

\* Of workflow_engine.go and templates.go: the engine accepts exactly
\* the step lists it can run, level by level, and the templates make such.
DefinitionsAreRunnable ==
    /\ part = "graph" => /\ Gra!AcceptsExactlyTheDAGs
                         /\ Gra!LevelIsLongestChain
                         /\ Gra!ValidatedDefinitionRuns
    /\ part = "templates" => Tpl!TemplatesAreSound

\* Of mcptaskscheduler_controller.go: the concurrency follows the load, within
\* its bounds.
ScalingFollowsLoad == part = "events" => Evt!ScalingFollowsLoad

\* Of workspace_manager.go and pvc_mount_manager.go: a mount keeps its directory
\* and shows the run that was asked for.
MountIsOwn == part = "volumes" => Vol!MountIsOwn
============================================================================
