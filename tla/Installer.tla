----------------------------- MODULE Installer ------------------------------
(***************************************************************************)
(* `matey install` (internal/service/installer.go): the definitions of the *)
(* custom resources, the namespace, three sets of accounts, roles and      *)
(* bindings, the MCP server, the shared Postgres, the registry secret and  *)
(* the default proxy, each created unless it is there.  A request may      *)
(* fail, and the API server refuses a custom resource until its definition *)
(* is established: Install then returns the error with everything it has   *)
(* made in place, and the user runs it again.  Installations in several    *)
(* namespaces, or of two users, overlap.                                   *)
(***************************************************************************)
EXTENDS Naturals, Sequences, SequencesExt

CONSTANTS Runs,         \* invocations of the command
          NamespaceOf,  \* the namespace of a run
          Credentials,  \* the runs that find credentials of a registry
          MaxFailures   \* bound on failed requests and refusals

VARIABLES objects,      \* the objects of the cluster
          established,  \* the definitions the API server serves
          run,          \* run[r]: the objects still to create, and how it ended
          edited,       \* the namespaces whose proxy the operator has edited
          failures

installVars == <<objects, established, run, edited, failures>>

\* An object that every namespace has its own of, and one of the whole cluster.
Local(name) == [name |-> name, scope |-> "namespace", needs |-> {}]
Shared(name) == [name |-> name, scope |-> "cluster", needs |-> {}]
Custom(name, crd) == [name |-> name, scope |-> "namespace", needs |-> {crd}]

(***************************************************************************)
(* What each function of the installer creates, in order.                  *)
(***************************************************************************)
installCRDsFromYAML ==
    <<Shared("mcpservers"), Shared("mcpmemories"), Shared("mcptaskschedulers"),
      Shared("mcpproxies"), Shared("mcppostgres")>>

createNamespace == <<Local("namespace")>>

installControllerRBAC ==
    <<Local("account matey-controller"), Shared("role matey-controller"), Shared("binding matey-controller")>>

installMCPServerRBAC ==
    <<Local("account matey-mcp-server"), Shared("role matey-mcp-server"), Shared("binding matey-mcp-server")>>

installTaskSchedulerRBAC ==
    <<Local("account task-scheduler"), Shared("role task-scheduler"), Shared("binding task-scheduler")>>

\* The manifest's own accounts and roles are passed over.
installMateyMCPServer == <<Local("deployment matey-mcp-server"), Local("service matey-mcp-server")>>

installSharedPostgres == <<Local("configmap matey-postgres-init"), Custom("matey-postgres", "mcppostgres")>>

\* The credentials of matey.yaml, or of the environment; without any the secret
\* is passed over.
createImagePullSecret(r) == IF r \in Credentials THEN <<Local("secret registry-secret")>> ELSE <<>>

installDefaultMCPProxy == <<Custom("matey-proxy", "mcpproxies")>>

MutInstall(r) ==
    installCRDsFromYAML \o createNamespace
    \o installControllerRBAC \o installMCPServerRBAC \o installTaskSchedulerRBAC
    \o installMateyMCPServer \o createImagePullSecret(r) \o installDefaultMCPProxy

Install(r) ==
    installCRDsFromYAML \o createNamespace
    \o installControllerRBAC \o installMCPServerRBAC \o installTaskSchedulerRBAC
    \o installMateyMCPServer \o installSharedPostgres \o createImagePullSecret(r) \o installDefaultMCPProxy

(***************************************************************************)
(* A run: one request after the other.                                     *)
(***************************************************************************)
Where(step, r) == IF step.scope = "cluster" THEN "" ELSE NamespaceOf[r]

Exists(step, r) == \E o \in objects : o.name = step.name /\ o.in = Where(step, r)

\* A namespaced object needs its namespace, a custom resource its definition.
Accepted(step, r) ==
    /\ step.needs \subseteq established
    /\ step.scope = "namespace" /\ step.name # "namespace" =>
           \E o \in objects : o.name = "namespace" /\ o.in = NamespaceOf[r]

Start(r) ==
    /\ run[r].status \in {"new", "failed"}
    /\ run' = [run EXCEPT ![r] = [todo |-> Install(r), status |-> "running"]]
    /\ UNCHANGED <<objects, established, edited, failures>>

MutCreate(r) ==
    /\ run[r].status = "running"
    /\ run[r].todo # <<>>
    /\ LET step == Head(run[r].todo)
       IN  /\ Accepted(step, r)
           /\ objects' = {o \in objects : o.name # step.name \/ o.in # Where(step, r)}
                         \cup {[name |-> step.name, in |-> Where(step, r), for |-> NamespaceOf[r], default |-> TRUE]}
    /\ run' = [run EXCEPT ![r].todo = Tail(run[r].todo)]
    /\ UNCHANGED <<established, edited, failures>>

\* Create; "already exists" is as good.  What a binding grants, it grants to
\* the account in the namespace of the run that made it.
Create(r) ==
    /\ run[r].status = "running"
    /\ run[r].todo # <<>>
    /\ LET step == Head(run[r].todo)
       IN  \/ /\ Exists(step, r)
              /\ UNCHANGED objects
           \/ /\ ~Exists(step, r)
              /\ Accepted(step, r)
              /\ objects' = objects \cup
                     {[name |-> step.name, in |-> Where(step, r), for |-> NamespaceOf[r], default |-> TRUE]}
    /\ run' = [run EXCEPT ![r].todo = Tail(run[r].todo)]
    /\ UNCHANGED <<established, edited, failures>>

CreateFails(r) ==
    /\ run[r].status = "running"
    /\ run[r].todo # <<>>
    /\ failures < MaxFailures
    /\ failures' = failures + 1
    /\ run' = [run EXCEPT ![r].status = "failed"]
    /\ UNCHANGED <<objects, established, edited>>

Finish(r) ==
    /\ run[r].status = "running"
    /\ run[r].todo = <<>>
    /\ run' = [run EXCEPT ![r].status = "installed"]
    /\ UNCHANGED <<objects, established, edited, failures>>

\* The API server begins to serve the resources of a definition that a later
\* step needs.
Establish ==
    /\ \E o \in objects :
           /\ o.name \in {"mcppostgres", "mcpproxies"} \ established
           /\ established' = established \cup {o.name}
    /\ UNCHANGED <<objects, run, edited, failures>>

OperatorEdits ==
    /\ \E o \in objects :
           /\ o.name = "matey-proxy"
           /\ o.default
           /\ objects' = (objects \ {o}) \cup {[o EXCEPT !.default = FALSE]}
           /\ edited' = edited \cup {o.in}
    /\ UNCHANGED <<established, run, failures>>

Init ==
    /\ objects = {}
    /\ established = {}
    /\ run = [r \in Runs |-> [todo |-> <<>>, status |-> "new"]]
    /\ edited = {}
    /\ failures = 0

RunStep(r) == Start(r) \/ Create(r) \/ CreateFails(r) \/ Finish(r)

Next == (\E r \in Runs : RunStep(r)) \/ Establish \/ OperatorEdits

Spec == Init /\ [][Next]_installVars

(***************************************************************************)
(* Properties.                                                             *)
(***************************************************************************)
\* An installation that reported success is whole, however often it failed
\* before and whatever ran beside it: every object of its plan is there, every
\* custom resource with its definition served, every binding with its role; and
\* the installer has left "an operator's existing proxy configuration intact".
InstallationIsWhole ==
    /\ \A r \in Runs :
           run[r].status = "installed" =>
               \A step \in Range(Install(r)) \cup Range(installSharedPostgres) :
                   Exists(step, r) /\ step.needs \subseteq established
    /\ \A ns \in edited : \E o \in objects : o.name = "matey-proxy" /\ o.in = ns /\ ~o.default

\* The steps of the plans, and the objects they make.
Steps == UNION {Range(Install(r)) : r \in Runs}
Namespaces == {NamespaceOf[r] : r \in Runs}
Object == [name : {step.name : step \in Steps}, in : Namespaces \cup {""}, for : Namespaces, default : BOOLEAN]

\* A step is over when its object is there and was accepted once.
Made(step, r) == Exists(step, r) /\ step.needs \subseteq established

\* The inductive invariant: what a run does not have before it any more is
\* made; and a custom resource, by whatever run it was created, is there only
\* if its definition is served.
InstallInv ==
    /\ objects \subseteq Object
    /\ run \in [Runs -> [todo : Seq(Steps), status : {"new", "running", "failed", "installed"}]]
    /\ \A o \in objects : /\ o.name = "matey-postgres" => "mcppostgres" \in established
                          /\ o.name = "matey-proxy" => "mcpproxies" \in established
    /\ \A r \in Runs : /\ Range(run[r].todo) \subseteq Range(Install(r))
                       /\ run[r].status = "installed" => run[r].todo = <<>>
                       /\ run[r].status \in {"running", "installed"} =>
                             \A step \in Range(Install(r)) : step \in Range(run[r].todo) \/ Made(step, r)
    /\ \A ns \in edited : \E o \in objects : o.name = "matey-proxy" /\ o.in = ns /\ ~o.default
=============================================================================
