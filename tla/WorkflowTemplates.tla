------------------------- MODULE WorkflowTemplates --------------------------
(***************************************************************************)
(* The built-in workflow templates (internal/scheduler/templates.go) and   *)
(* the commands of `matey task-scheduler` that put workflows in the        *)
(* MCPTaskScheduler resource and address them by name                      *)
(* (internal/cmd/task_scheduler.go, internal/service/task_scheduler.go).   *)
(*                                                                         *)
(* Of a step are kept its name, its dependencies and the placeholders in   *)
(* its parameters and its condition: {{.p}} (a parameter of the template), *)
(* {{.p | f}} (one with a filter) and {{ steps.s... }} (the output of      *)
(* another step).  A value the user gives is text without placeholders.    *)
(***************************************************************************)
EXTENDS Integers, Sequences, SequencesExt

CONSTANTS Names,         \* the names the user gives to workflows
          MaxWorkflows   \* bound on the workflows in the resource

VARIABLE workflows       \* the workflows of the resource, in order

Param(p) == [kind |-> "param", of |-> p]
Filtered(p) == [kind |-> "filtered", of |-> p]
Output(s) == [kind |-> "step", of |-> s]

Step(name, deps, reads) == [name |-> name, deps |-> deps, reads |-> reads]

(***************************************************************************)
(* The six templates.                                                      *)
(***************************************************************************)
createHealthMonitoringTemplate ==
    [required |-> {"alert_channel"},
     defaults |-> {"schedule", "timezone", "glucose_threshold_high", "glucose_threshold_low"},
     steps |-> <<Step("check-glucose", {}, {}),
                 Step("analyze-trend", {"check-glucose"},
                      {Output("check-glucose"), Param("glucose_threshold_high"), Param("glucose_threshold_low")}),
                 Step("send-alert", {"analyze-trend"}, {Output("analyze-trend"), Param("alert_channel")})>>]

MutcreateDataBackupTemplate ==
    [required |-> {"source_path", "backup_name", "cloud_provider"},
     defaults |-> {"schedule", "retention_days"},
     steps |-> <<Step("create-backup", {}, {Param("source_path"), Param("backup_name")}),
                 Step("upload-backup", {"create-backup"}, {Output("create-backup"), Param("cloud_provider")}),
                 Step("cleanup-old-backups", {},
                      {Param("cloud_provider"), Param("backup_name"), Param("retention_days")}),
                 Step("send-report", {"cleanup-old-backups"}, {Output("create-backup")})>>]

createDataBackupTemplate ==
    [required |-> {"source_path", "backup_name", "cloud_provider"},
     defaults |-> {"schedule", "retention_days"},
     steps |-> <<Step("create-backup", {}, {Param("source_path"), Param("backup_name")}),
                 Step("upload-backup", {"create-backup"}, {Output("create-backup"), Param("cloud_provider")}),
                 Step("cleanup-old-backups", {"upload-backup"},
                      {Param("cloud_provider"), Param("backup_name"), Param("retention_days")}),
                 Step("send-report", {"cleanup-old-backups"}, {Output("create-backup")})>>]

createReportGenerationTemplate ==
    [required |-> {"report_type", "data_source", "recipients"},
     defaults |-> {"schedule"},
     steps |-> <<Step("collect-data", {}, {Param("data_source"), Param("report_type")}),
                 Step("generate-report", {"collect-data"},
                      {Output("collect-data"), Param("report_type"), Filtered("report_type")}),
                 Step("distribute-report", {"generate-report"},
                      {Output("generate-report"), Param("recipients"), Param("report_type"),
                       Filtered("report_type")})>>]

createSystemMaintenanceTemplate ==
    [required |-> {},
     defaults |-> {"schedule", "cleanup_threshold_days", "disk_usage_threshold"},
     steps |-> <<Step("system-health-check", {}, {}),
                 Step("cleanup-temp-files", {"system-health-check"}, {Param("cleanup_threshold_days")}),
                 Step("cleanup-logs", {"cleanup-temp-files"}, {Param("cleanup_threshold_days")}),
                 Step("check-disk-usage", {"cleanup-logs"}, {Param("disk_usage_threshold")}),
                 Step("send-maintenance-report", {"check-disk-usage"},
                      {Output("system-health-check"), Output("check-disk-usage")})>>]

createCodeQualityTemplate ==
    [required |-> {"repository_url", "notification_channel"},
     defaults |-> {"schedule", "branch"},
     steps |-> <<Step("checkout-code", {}, {Param("repository_url"), Param("branch")}),
                 Step("run-linter", {"checkout-code"}, {Output("checkout-code")}),
                 Step("run-tests", {"checkout-code"}, {Output("checkout-code")}),
                 Step("security-scan", {"checkout-code"}, {Output("checkout-code")}),
                 Step("generate-quality-report", {"run-linter", "run-tests", "security-scan"},
                      {Output("run-linter"), Output("run-tests"), Output("security-scan")}),
                 Step("send-quality-report", {"generate-quality-report"},
                      {Output("generate-quality-report"), Param("notification_channel")})>>]

createDatabaseMaintenanceTemplate ==
    [required |-> {"database_url"},
     defaults |-> {"schedule", "backup_retention_days"},
     steps |-> <<Step("database-health-check", {}, {Param("database_url")}),
                 Step("create-backup", {"database-health-check"}, {Param("database_url")}),
                 Step("optimize-tables", {"create-backup"}, {Param("database_url")}),
                 Step("cleanup-old-backups", {"optimize-tables"},
                      {Param("backup_retention_days"), Output("create-backup")}),
                 Step("send-maintenance-report", {"cleanup-old-backups"},
                      {Output("database-health-check"), Output("create-backup")})>>]

TemplateNames == {"health-monitoring", "data-backup", "report-generation",
                  "system-maintenance", "code-quality-checks", "database-maintenance"}

registerBuiltinTemplates ==
    [t \in TemplateNames |->
        CASE t = "health-monitoring"    -> createHealthMonitoringTemplate
          [] t = "data-backup"          -> createDataBackupTemplate
          [] t = "report-generation"    -> createReportGenerationTemplate
          [] t = "system-maintenance"   -> createSystemMaintenanceTemplate
          [] t = "code-quality-checks"  -> createCodeQualityTemplate
          [] t = "database-maintenance" -> createDatabaseMaintenanceTemplate]

(***************************************************************************)
(* The instantiation: a placeholder is replaced when the map of the        *)
(* defaults and the given parameters has its name.                         *)
(***************************************************************************)
substituteValue(reads, params) == reads \ {Param(p) : p \in params}

applyParameterSubstitutions(template, given) ==
    [i \in DOMAIN template.steps |->
        [template.steps[i] EXCEPT !.reads = substituteValue(@, template.defaults \cup given)]]

\* The name the caller asks for is a parameter the function does not use: the
\* definition it returns has none.
NoName == ""

CreateWorkflowFromTemplate(template, name, given) ==
    [name |-> NoName, enabled |-> TRUE, steps |-> applyParameterSubstitutions(template, given),
     overrides |-> given \cap {"schedule", "timezone"}]

(***************************************************************************)
(* The commands.  Each reads the resource and updates it; one that does    *)
(* not find the name changes nothing.                                      *)
(***************************************************************************)
AddWorkflow(w) ==
    /\ Len(workflows) < MaxWorkflows
    /\ workflows' = Append(workflows, w)

\* A missing required parameter is refused; --schedule and --timezone are
\* given like any other.
createWorkflowFromTemplate(name, t, given) ==
    LET template == registerBuiltinTemplates[t]
    IN  /\ template.required \subseteq given
        /\ AddWorkflow(CreateWorkflowFromTemplate(template, name, given))

createWorkflowFromFile(name) ==
    AddWorkflow([name |-> name, enabled |-> TRUE, steps |-> <<>>, overrides |-> {}])

\* The first workflow with the name.
Find(name) ==
    {i \in DOMAIN workflows : workflows[i].name = name /\ \A j \in 1 .. i - 1 : workflows[j].name # name}

DeleteWorkflow(name) ==
    \E i \in Find(name) : workflows' = RemoveAt(workflows, i)

SetWorkflowEnabled(name, enabled) ==
    \E i \in Find(name) : workflows' = [workflows EXCEPT ![i].enabled = enabled]

Init == workflows = <<>>

Next ==
    \/ \E name \in Names, t \in DOMAIN registerBuiltinTemplates :
           LET template == registerBuiltinTemplates[t]
           IN  \E given \in SUBSET (template.required \cup template.defaults \cup {"schedule", "timezone"}) :
                   createWorkflowFromTemplate(name, t, given)
    \/ \E name \in Names : createWorkflowFromFile(name) \/ DeleteWorkflow(name)
    \/ \E name \in Names, enabled \in BOOLEAN : SetWorkflowEnabled(name, enabled)

Spec == Init /\ [][Next]_workflows

(***************************************************************************)
(* Properties.                                                             *)
(***************************************************************************)
\* A set of steps with everything they depend on.
Closed(steps, C) == \A j \in DOMAIN steps : steps[j].name \in C => steps[j].deps \subseteq C

\* Step i waits for the step named n, directly or through others.
WaitsFor(steps, i, n) ==
    \A C \in SUBSET {steps[j].name : j \in DOMAIN steps} :
        Closed(steps, C) /\ steps[i].deps \subseteq C => n \in C

\* Steps the engine can run: names differ and a dependency is an earlier step, as
\* ValidateWorkflowDefinition asks; every output a step reads is one of a step it
\* waits for, and no plain placeholder is left.
SoundSteps(steps) ==
    \A i \in DOMAIN steps :
        /\ \A j \in 1..(i - 1) : steps[j].name # steps[i].name
        /\ \A d \in steps[i].deps : \E j \in 1..(i - 1) : steps[j].name = d
        /\ \A r \in steps[i].reads :
              /\ r.kind = "step" => WaitsFor(steps, i, r.of)
              /\ r.kind # "param"

\* What is made from a template can run (a placeholder with a filter is not
\* replaced, templates.go:205).
TemplatesAreSound == \A i \in DOMAIN workflows : SoundSteps(workflows[i].steps)
=============================================================================
