-------------------------- MODULE ConfigValidation --------------------------
(***************************************************************************)
(* The compose file and its two readers (internal/config/config.go,        *)
(* validate.go): LoadConfig, which every command uses and which returns    *)
(* the first problem it meets, and ValidateFile, which returns all of them *)
(* with their places and looks for dependency cycles as well.  Between two *)
(* readings the user edits the file and its .env; what .env defines stays  *)
(* in the environment of the process.                                      *)
(*                                                                         *)
(* A value is kept only as far as a rule distinguishes it: a duration is   *)
(* "" (absent), "good" or "bad"; a port mapping is the sequence of the     *)
(* kinds of its parts; an optional part of the file is a sequence of at    *)
(* most one element.  A file that is not YAML is left out: both readers    *)
(* refuse it.                                                              *)
(***************************************************************************)
EXTENDS Integers, FiniteSets, Sequences, SequencesExt

CONSTANTS Names,    \* the names of the servers in sorted order, a sequence
          Undefined, \* a name no server has
          MaxDeps,  \* the longest depends_on list of an edit
          Edited,   \* the servers whose other fields are edited
          Budget    \* bound on the cost of the edits

VARIABLES file,     \* the content of the compose file
          dotenv,   \* the value of MCP_ENV in the .env next to it, "" if none
          environ,  \* the value of MCP_ENV in the process, "" if unset
          last,     \* the reader that ran since the last edit and its problems
          cost      \* what the edits so far cost

configVars == <<file, dotenv, environ, last, cost>>

Servers == Range(Names)
Environments == {"development", "production"}

Absent == ""

(***************************************************************************)
(* A file without a problem and the values an edit may put in it.          *)
(***************************************************************************)
GoodServer ==
    [source |-> "command", protocol |-> Absent, port |-> FALSE, args |-> FALSE, ports |-> <<>>,
     capabilities |-> {"tools"}, deps |-> <<>>, human |-> <<>>,
     paths |-> <<>>, sync |-> Absent, tools |-> <<>>,
     apparmor |-> Absent, seccomp |-> Absent, cpus |-> Absent, memory |-> Absent, swap |-> Absent, pids |-> 0]

ServerEdits ==
    [source |-> {"none", "build"}, protocol |-> {"stdio", "http", "bogus"},
     port |-> {TRUE}, args |-> {TRUE},
     ports |-> {<< <<"number", "number">> >>, << <<"number">>, <<"range", "number">> >>,
                << <<"number", "empty">> >>, << <<"word">> >>},
     capabilities |-> {{"tools", "bogus"}},
     human |-> {<<[timeout |-> t, tokens |-> n]>> : t \in {-1, 0, 4, 5}, n \in {-1, 0}},
     paths |-> {<<[source |-> s, target |-> t]>> : s, t \in BOOLEAN},
     sync |-> {"good", "bad"},
     tools |-> {<<[name |-> n, timeout |-> "good"], [name |-> m, timeout |-> t]>> :
                    n \in {"a"}, m \in {Absent, "a", "b"}, t \in {Absent, "bad"}},
     apparmor |-> {"default", "path", "bogus"}, seccomp |-> {"default", "bogus"},
     cpus |-> {"good", "bad"}, memory |-> {"good", "bad"}, swap |-> {"good", "bad"},
     pids |-> {-1}]

NoOverride == [paths |-> <<>>, sync |-> Absent]

GoodFile ==
    [version |-> "1", servers |-> [s \in Servers |-> GoodServer],
     auth |-> <<>>, dashboard |-> <<>>, connection |-> <<>>, oauth |-> <<>>,
     environments |-> [e \in Environments |-> [s \in Servers |-> NoOverride]]]

GlobalEdits ==
    [version |-> {"2"},
     auth |-> {<<[key |-> k]>> : k \in BOOLEAN},
     dashboard |-> {<<[port |-> p, url |-> u]>> : p \in {0, 65535, 65536}, u \in BOOLEAN},
     connection |-> {<<[transport |-> t, port |-> p]>> : t \in {"good", "bad"}, p \in {-1, 0, 65535, 65536}},
     oauth |-> {<<[issuer |-> i, access |-> a, refresh |-> r]>> :
                    i \in BOOLEAN, a, r \in {Absent, "bad"}}]

(***************************************************************************)
(* The rules.  Each returns <<>> or the one problem it reports: it stops   *)
(* at the first.                                                           *)
(***************************************************************************)
Problem(broken, what) == IF broken THEN <<what>> ELSE <<>>

First(problems) == IF problems = <<>> THEN <<>> ELSE <<Head(problems)>>

\* The problems of the first that has any.
FirstWith(found) ==
    LET bad == {i \in DOMAIN found : found[i] # <<>>}
    IN  IF bad = {} THEN <<>> ELSE found[CHOOSE i \in bad : \A j \in bad : i <= j]

\* The last part of some mapping is there, or an argument names the port.
hasPortInArgsOrMapping(server) ==
    \/ server.args
    \/ \E i \in DOMAIN server.ports : LET parts == server.ports[i] IN parts[Len(parts)] # "empty"

validatePortMapping(parts) == \A i \in DOMAIN parts : parts[i] \in {"number", "range"}

validateServerConfig(server) ==
    First(Problem(server.source = "none", "source")
          \o Problem(server.protocol \notin {Absent, "stdio", "http"}, "protocol")
          \o Problem(/\ server.protocol = "http"
                     /\ ~server.port
                     /\ ~hasPortInArgsOrMapping(server), "http_port")
          \o Problem("bogus" \in server.capabilities, "capability")
          \o Problem(\E i \in DOMAIN server.ports : ~validatePortMapping(server.ports[i]), "ports"))

validateHumanControlConfig(hc) ==
    First(Problem(hc.timeout < 0, "timeout")
          \o Problem(hc.tokens < 0, "max_tokens")
          \o Problem(hc.timeout > 0 /\ hc.timeout < 5, "timeout too low"))

validateResourcePaths(server) ==
    First(Problem(\E i \in DOMAIN server.paths : ~(server.paths[i].source /\ server.paths[i].target), "path")
          \o Problem(server.sync = "bad", "sync_interval"))

validateToolsConfig(tools) ==
    FirstWith([i \in DOMAIN tools |->
        First(Problem(tools[i].name = Absent, "name")
              \o Problem(\E j \in 1 .. i - 1 : tools[j].name = tools[i].name, "duplicate")
              \o Problem(tools[i].timeout = "bad", "timeout"))])

validateSecurityConfig(server) ==
    First(Problem(server.apparmor = "bogus", "apparmor") \o Problem(server.seccomp = "bogus", "seccomp"))

\* A number of bytes, or a number and one of the letters b, k, m, g.
isValidMemoryFormat(memory) == memory \in {Absent, "good"}

validateResourceLimits(server) ==
    First(Problem(server.cpus = "bad", "cpus")
          \o Problem(~isValidMemoryFormat(server.memory), "memory")
          \o Problem(~isValidMemoryFormat(server.swap), "memory swap")
          \o Problem(server.pids < 0, "pids"))

ProxyAuthRule(auth) == Problem(~auth.key, "proxy_auth")

DashboardRule(dashboard) == Problem(dashboard.port \notin 1 .. 65535 \/ ~dashboard.url, "dashboard")

validateConnection(conn) == Problem(conn.transport = "bad" \/ conn.port \notin 0 .. 65535, "connections")

validateOAuthConfig(oauth) ==
    Problem(~oauth.issuer \/ oauth.access = "bad" \/ oauth.refresh = "bad", "oauth")

\* The rule on an optional part of the file.
IfPresent(part, Rule(_)) == IF part = <<>> THEN <<>> ELSE Rule(part[1])

validateGlobalConfig(cfg) ==
    First(IfPresent(cfg.auth, ProxyAuthRule)
          \o IfPresent(cfg.dashboard, DashboardRule)
          \o IfPresent(cfg.connection, validateConnection)
          \o IfPresent(cfg.oauth, validateOAuthConfig))

validateVersion(cfg) == Problem(cfg.version # "1", "version")

(***************************************************************************)
(* The problems with the path they are reported at.                        *)
(***************************************************************************)
At(path, problems) == [i \in DOMAIN problems |-> [path |-> path, what |-> problems[i], cycle |-> <<>>]]

undefinedDependencies(deps) ==
    [n \in 1..Cardinality({i \in DOMAIN deps : deps[i] \notin Servers}) |-> "undefined"]

\* The rules on one server.
ServerProblems(cfg, s) ==
    LET server == cfg.servers[s]
        In(part, problems) == At(<<"servers", s>> \o part, problems)
    IN  In(<<>>, validateServerConfig(server))
        \o In(<<"depends_on">>, undefinedDependencies(server.deps))
        \o In(<<"lifecycle", "human_control">>, IfPresent(server.human, validateHumanControlConfig))
        \o In(<<"resources">>, validateResourcePaths(server))
        \o In(<<"tools">>, validateToolsConfig(server.tools))
        \o In(<<"security">>, validateSecurityConfig(server))
        \o In(<<"deploy", "resources">>, validateResourceLimits(server))

\* The problems outside the servers; the part a message names is its path.
globalErrorPath(problems) == [i \in DOMAIN problems |-> [path |-> <<problems[i]>>, what |-> problems[i], cycle |-> <<>>]]

\* The orders in which a map of the servers can be walked.
Orders == SetToSeqs(Servers)

\* The problem ValidateConfig returns when the map of servers is walked in an
\* order: <<>> when there is none.
ValidateConfig(cfg, order) ==
    First(globalErrorPath(validateVersion(cfg))
          \o FirstWith([i \in DOMAIN order |-> ServerProblems(cfg, order[i])])
          \o globalErrorPath(validateGlobalConfig(cfg)))

(***************************************************************************)
(* The search for cycles: depth first over the names in sorted order.  The *)
(* calls of dfs that are under way are the stack, and at[s] is how far the *)
(* one of s is: 0 before it (white), i when it comes to dependency i, and  *)
(* past the end of the list by 1 when it is to return (gray up to here)    *)
(* and by 2 when it has (black).  A dependency that is on the stack closes *)
(* a cycle.                                                                *)
(***************************************************************************)
White(search, s) == search.at[s] = 0
Black(deps, search, s) == search.at[s] = Len(deps[s]) + 2
Gray(deps, search, s) == ~White(search, s) /\ ~Black(deps, search, s)

Advance(search, s) == [search EXCEPT !.at[s] = @ + 1]

Enter(search, s) == [Advance(search, s) EXCEPT !.stack = Append(@, s)]

Return(search, s) == [Advance(search, s) EXCEPT !.stack = Front(@)]

CloseCycle(search, d) ==
    LET start == CHOOSE i \in DOMAIN search.stack : search.stack[i] = d
    IN  [search EXCEPT !.cycles = @ \cup {SubSeq(search.stack, start, Len(search.stack)) \o <<d>>}]

\* The call of s comes to a dependency d.
Follow(deps, search, d) ==
    CASE d \notin Servers -> search
      [] d \in Servers /\ White(search, d) -> Enter(search, d)
      [] d \in Servers /\ Gray(deps, search, d) -> CloseCycle(search, d)
      [] d \in Servers /\ Black(deps, search, d) -> search

\* One turn of the innermost call, or of the loop over the names.
dfs(deps, names, search) ==
    IF search.stack # <<>>
    THEN LET s == Last(search.stack)
         IN  IF search.at[s] > Len(deps[s])
             THEN Return(search, s)
             ELSE Follow(deps, Advance(search, s), deps[s][search.at[s]])
    ELSE LET white == {i \in DOMAIN names : White(search, names[i])}
         IN  IF white = {} THEN search ELSE Enter(search, names[CHOOSE i \in white : \A j \in white : i <= j])

\* Enough turns for every call to return.
Turns(deps) == Cardinality(UNION {{s} \X (0..(Len(deps[s]) + 1)) : s \in Servers})

NotSearched == [at |-> [s \in Servers |-> 0], stack |-> <<>>, cycles |-> {}]

Searches(deps, names) ==
    LET after[k \in 0..Turns(deps)] ==
          IF k = 0 THEN NotSearched ELSE dfs(deps, names, after[k - 1])
    IN  after

\* Mutant: only from the first name.
MutfindDependencyCycles(deps) == Searches(deps, <<Names[1]>>)[Turns(deps)].cycles

findDependencyCycles(deps) == Searches(deps, Names)[Turns(deps)].cycles

Dependencies(cfg) == [s \in Servers |-> cfg.servers[s].deps]

(***************************************************************************)
(* The place of a problem: the lines of the keys that are in the file, and *)
(* the nearest of them on the way up from the path of the problem.         *)
(***************************************************************************)
PartOf(field) ==
    CASE field = "deps"  -> <<"depends_on">>
      [] field = "human" -> <<"lifecycle", "human_control">>
      [] field \in {"paths", "sync"} -> <<"resources">>
      [] field = "tools" -> <<"tools">>
      [] field \in {"apparmor", "seccomp"} -> <<"security">>
      [] field \in {"cpus", "memory", "swap", "pids"} -> <<"deploy", "resources">>
      [] OTHER -> <<>>

buildLineIndex(f) ==
    {<<"version">>, <<"servers">>}
    \cup {<<g>> : g \in {h \in DOMAIN GlobalEdits : f[h] # GoodFile[h]}}
    \cup UNION {{<<"servers", s>> \o PartOf(field) :
                    field \in {x \in DOMAIN GoodServer : f.servers[s][x] # GoodServer[x] \/ PartOf(x) = <<>>}} :
                s \in Servers}

\* <<>> stands for line 0.
lookup(index, path) ==
    LET prefixes == {n \in 0 .. Len(path) : n = 0 \/ SubSeq(path, 1, n) \in index}
    IN  SubSeq(path, 1, CHOOSE n \in prefixes : \A m \in prefixes : m <= n)

\* Every problem collectValidationErrors reports.
collectValidationErrors(cfg) ==
    Range(globalErrorPath(validateVersion(cfg)))
    \cup (UNION {Range(ServerProblems(cfg, s)) : s \in Servers})
    \cup {[path |-> <<"servers", c[1], "depends_on">>, what |-> "circular", cycle |-> c] :
              c \in findDependencyCycles(Dependencies(cfg))}
    \cup Range(globalErrorPath(validateGlobalConfig(cfg)))

(***************************************************************************)
(* The two readers.  Both load .env first: a variable that is already set  *)
(* in the process is kept, one that is set from .env stays.  The overrides *)
(* of the current environment are applied before the rules.                *)
(***************************************************************************)
loadDotEnv == environ' = IF environ = Absent THEN dotenv ELSE environ

CurrentEnv(env) == IF env = Absent THEN "development" ELSE env

Overridden(server, over) ==
    [server EXCEPT !.paths = IF over.paths # <<>> THEN over.paths ELSE @,
                   !.sync  = IF over.sync # Absent THEN over.sync ELSE @]

applyEnvironmentOverrides(f, env) ==
    LET over == f.environments[CurrentEnv(env)]
    IN  [f EXCEPT !.servers = [s \in Servers |-> Overridden(f.servers[s], over[s])]]

LoadConfig ==
    /\ loadDotEnv
    /\ \E order \in Orders :
           last' = [reader   |-> "load",
                    problems |-> Range(ValidateConfig(applyEnvironmentOverrides(file, environ'), order))]
    /\ UNCHANGED <<file, dotenv, cost>>

ValidateFile ==
    /\ loadDotEnv
    /\ last' = [reader   |-> "validate",
                problems |-> collectValidationErrors(applyEnvironmentOverrides(file, environ'))]
    /\ UNCHANGED <<file, dotenv, cost>>

(***************************************************************************)
(* The edits.  One of depends_on or of .env costs 1 and any other 2.       *)
(***************************************************************************)
NotRead == [reader |-> "none", problems |-> {}]

Edit(f, d, price) ==
    /\ cost + price <= Budget
    /\ cost' = cost + price
    /\ file' = f
    /\ dotenv' = d
    /\ last' = NotRead
    /\ UNCHANGED environ

DepLists == {deps \in SeqOf(Servers \cup {Undefined}, MaxDeps) : Len(deps) = Cardinality(Range(deps))}

\* A list is written once: the order of the edits does not matter.
EditDependencies ==
    \E s \in {t \in Servers : file.servers[t].deps = <<>>}, deps \in DepLists \ {<<>>} :
        Edit([file EXCEPT !.servers[s].deps = deps], dotenv, 1)

EditServer ==
    \E s \in Edited, field \in DOMAIN ServerEdits :
        \E v \in ServerEdits[field] : Edit([file EXCEPT !.servers[s][field] = v], dotenv, 2)

EditGlobal ==
    \E field \in DOMAIN GlobalEdits :
        \E v \in GlobalEdits[field] : Edit([file EXCEPT ![field] = v], dotenv, 2)

EditOverride ==
    \E e \in Environments, s \in Edited, sync \in {"good", "bad"}, ok \in BOOLEAN :
        Edit([file EXCEPT !.environments[e][s] =
                 [paths |-> <<[source |-> ok, target |-> TRUE]>>, sync |-> sync]], dotenv, 2)

EditDotEnv == \E e \in Environments \ {dotenv} : Edit(file, e, 1)

Init ==
    /\ file = GoodFile
    /\ dotenv = Absent
    /\ environ = Absent
    /\ last = NotRead
    /\ cost = 0

Next ==
    \/ LoadConfig \/ ValidateFile
    \/ EditDependencies \/ EditServer \/ EditGlobal \/ EditOverride \/ EditDotEnv

Spec == Init /\ [][Next]_configVars

(***************************************************************************)
(* Properties.                                                             *)
(***************************************************************************)
\* The reference: the dependencies between defined servers have a cycle iff
\* some set of servers has in each of its members a dependency inside it.
Cyclic(deps) ==
    \E S \in (SUBSET Servers) \ {{}} : \A s \in S : \E i \in DOMAIN deps[s] : deps[s][i] \in S

IsCycle(deps, c) ==
    /\ Len(c) > 1
    /\ c[1] = c[Len(c)]
    /\ \A i \in 1 .. Len(c) - 1 : c[i + 1] \in Range(deps[c[i]])

\* What `matey validate` says and what every other command does with the same
\* file agree, whatever the order of the map of servers: the problem LoadConfig
\* stops at is one of those ValidateFile lists, and ValidateFile accepts the
\* file exactly when LoadConfig does and the dependencies are acyclic; a cycle
\* it reports is one, and a problem of a server is placed in that server.
ValidationAgrees ==
    LET cfg    == applyEnvironmentOverrides(file, environ)
        deps   == Dependencies(cfg)
        report == collectValidationErrors(cfg)
    IN  /\ last.reader = "load" =>
               /\ last.problems \subseteq report
               /\ last.problems = {} => \A e \in report : e.what = "circular"
        /\ last.reader = "validate" =>
               /\ (last.problems = {}) <=>
                      (~Cyclic(deps) /\ \A order \in Orders : ValidateConfig(cfg, order) = <<>>)
               /\ \A e \in last.problems :
                      /\ e.cycle # <<>> => IsCycle(deps, e.cycle)
                      /\ Len(e.path) > 1 => SubSeq(lookup(buildLineIndex(file), e.path), 1, 2) = SubSeq(e.path, 1, 2)

(***************************************************************************)
(* What these follow from.                                                 *)
(***************************************************************************)
ConfigAssumption == Names \in Seq(Servers) /\ MaxDeps \in Nat

\* Of the file the lists of dependencies and tools matter for how a reading ends;
\* what was read last is what the file and the environment still say.
ConfigInv ==
    LET cfg == applyEnvironmentOverrides(file, environ)
    IN  /\ DOMAIN file = DOMAIN GoodFile
        /\ DOMAIN file.servers = Servers
        /\ \A s \in Servers : /\ DOMAIN file.servers[s] = DOMAIN GoodServer
                              /\ file.servers[s].deps \in Seq(Servers \cup {Undefined})
                              /\ DOMAIN file.servers[s].tools \subseteq Nat
        /\ last.reader \in {"none", "load", "validate"}
        /\ last.reader = "load" => \E order \in Orders : last.problems = Range(ValidateConfig(cfg, order))
        /\ last.reader = "validate" => last.problems = collectValidationErrors(cfg)

\* Of the search: a server is on the stack once, while its call is under way, and
\* depends on the next; what was recorded are cycles.  While there are none, what
\* a call has followed has returned or is the next on the stack, and no circle of
\* dependencies has returned.
IsBlack(deps, search) == {s \in Servers : Black(deps, search, s)}

Circle(deps, S) == \A s \in S : \E i \in DOMAIN deps[s] : deps[s][i] \in S

Followed(deps, search, s, d) == \E i \in DOMAIN deps[s] : i < search.at[s] /\ deps[s][i] = d

SearchType(deps, search) ==
    /\ search = [at |-> search.at, stack |-> search.stack, cycles |-> search.cycles]
    /\ search.at \in [Servers -> Nat] /\ \A s \in Servers : search.at[s] <= Len(deps[s]) + 2
    /\ search.stack \in Seq(Servers)

StackInv(deps, search) ==
    LET stack == search.stack IN
    /\ \A i, j \in DOMAIN stack : i # j => stack[i] # stack[j]
    /\ \A s \in Servers : (\E i \in DOMAIN stack : stack[i] = s) <=> Gray(deps, search, s)
    /\ \A i \in DOMAIN stack : i + 1 \in DOMAIN stack => stack[i + 1] \in Range(deps[stack[i]])

CyclesInv(deps, search) ==
    \A c \in search.cycles : c \in Seq(Servers) /\ IsCycle(deps, c)

ClosedInv(deps, search) ==
    search.cycles = {} =>
        /\ \A s \in Servers, d \in Servers : Followed(deps, search, s, d) =>
               \/ Black(deps, search, d)
               \/ \E i \in DOMAIN search.stack :
                      i + 1 \in DOMAIN search.stack /\ search.stack[i] = s /\ search.stack[i + 1] = d
        /\ \A S \in SUBSET IsBlack(deps, search) : Circle(deps, S) => S = {}

SearchInv(deps, search) ==
    SearchType(deps, search) /\ StackInv(deps, search) /\ CyclesInv(deps, search) /\ ClosedInv(deps, search)
=============================================================================
