---------------------------- MODULE MemoryGraph ----------------------------
(***************************************************************************)
(* The knowledge graph of the memory service: entities with observations,  *)
(* and relations between them, in Postgres behind a bounded pool of        *)
(* connections.  Every change is one transaction of several statements     *)
(* under READ COMMITTED; a read is a row of queries without a transaction, *)
(* and asks for the observations of an entity while the list of entities   *)
(* is still open, over a second connection.                                *)
(*                                                                         *)
(* Row locks, the references between the tables and the detection of       *)
(* deadlocks are the database's.  An entity has one observation and a      *)
(* pair of entities one relation at most.                                  *)
(***************************************************************************)
EXTENDS Integers, Sequences, FiniteSets

CONSTANTS Callers,   \* tool calls under way at the same time
          Names,
          PoolSize,  \* defaultMaxOpenConns
          MaxCalls   \* calls in all

VARIABLES
    graph,   \* the committed tables
    op,      \* the calls, with their transaction
    calls    \* counts to MaxCalls

memoryVars == <<graph, op, calls>>

Batches == {<<a>> : a \in Names} \cup {b \in Names \X Names : b[1] # b[2]}
Pairs == Names \X Names
Changes == {"create", "delete", "observe", "forget", "relate", "unrelate"}
Empty == [entities |-> {}, observed |-> {}, relations |-> {}]

NoOp == [at |-> "none", kind |-> "read", batch |-> <<>>, i |-> 0, conns |-> 0,
         known |-> {}, locks |-> {}, writes |-> {}, todo |-> {}, result |-> "none"]

Init ==
    /\ graph \in {Empty, [entities |-> Names, observed |-> Names, relations |-> Names \X Names]}
    /\ calls = 0
    /\ op = [c \in Callers |-> NoOp]

-----------------------------------------------------------------------------
(* The pool and the locks *)

InUse == LET f[S \in SUBSET Callers] ==
                 IF S = {} THEN 0 ELSE LET c == CHOOSE c \in S : TRUE IN op[c].conns + f[S \ {c}]
         IN  f[Callers]
Free == PoolSize - InUse

\* FOR KEY SHARE of a reference, FOR NO KEY UPDATE, FOR UPDATE of a delete.
Conflict(m, n) == "delete" \in {m, n} \/ (m = "update" /\ n = "update")

Holders(c, x, mode) ==
    {d \in Callers \ {c} : \E l \in op[d].locks : l[1] = x /\ Conflict(l[2], mode)}

\* The rows that the next statement locks.
Wanted(c) ==
    LET o == op[c]
        item == o.batch[o.i]
    IN  CASE o.kind = "create" -> {<<item, "update">>}
          [] o.kind = "delete" -> {<<item, "delete">>}
          [] o.kind \in {"observe", "forget"} -> {<<item, "update">>}
          [] o.kind = "relate" -> {<<item[1], "share">>, <<item[2], "share">>}
          [] o.kind = "unrelate" -> {}

Blockers(c) ==
    IF op[c].at # "statement" THEN {} ELSE UNION {Holders(c, w[1], w[2]) : w \in Wanted(c)}

-----------------------------------------------------------------------------
(* Changes *)

\* A tool call whose parameters parse; Begin waits for a connection.
Call(c, kind, batch) ==
    /\ op[c] = NoOp /\ calls < MaxCalls
    /\ calls' = calls + 1
    /\ op' = [op EXCEPT ![c] = [NoOp EXCEPT !.at = "begin", !.kind = kind, !.batch = batch]]
    /\ UNCHANGED graph

CallEntities(c) == \E kind \in {"create", "delete"}, b \in Batches : Call(c, kind, b)
CallObservations(c) == \E kind \in {"observe", "forget"}, b \in Batches : Call(c, kind, b)
CallRelations(c) == \E kind \in {"relate", "unrelate"}, p \in Pairs : Call(c, kind, <<p>>)
CallReads(c) == \E kind \in {"read", "open", "stats", "search"} : Call(c, kind, <<>>)

NextItem(o) == [o EXCEPT !.i = @ + 1, !.at = IF o.i = Len(o.batch) THEN "commit"
                                             ELSE IF o.kind \in {"create", "delete"} THEN "statement" ELSE "lookup"]

Begin(c) ==
    /\ op[c].at = "begin" /\ op[c].kind \in Changes /\ Free > 0
    /\ op' = [op EXCEPT ![c] = NextItem([@ EXCEPT !.conns = 1])]
    /\ UNCHANGED graph

MutRollback(c) ==
    /\ op' = [op EXCEPT ![c].at = "done", ![c].result = "error"]
    /\ UNCHANGED graph

\* The deferred Rollback: the locks and the connection are given back.
Rollback(c) ==
    /\ op' = [op EXCEPT ![c] = [NoOp EXCEPT !.at = "done", !.result = "error"]]
    /\ UNCHANGED graph

Ends(item, kind) == IF kind \in {"relate", "unrelate"} THEN {item[1], item[2]} ELSE {item}

\* lookupEntityID of what the statement refers to: ErrEntityNotFound ends it.
lookupEntityID(c) ==
    LET ends == Ends(op[c].batch[op[c].i], op[c].kind)
    IN  /\ op[c].at = "lookup"
        /\ IF ends \subseteq graph.entities
           THEN /\ op' = [op EXCEPT ![c].at = "statement", ![c].known = ends]
                /\ UNCHANGED graph
           ELSE Rollback(c)

MutReference(c) == TRUE

\* REFERENCES entities(id): the row whose key was looked up is still there.
Reference(c) == op[c].kind \in {"observe", "relate"} => op[c].known # {}

\* A DELETE takes the rows it sees, when it sees them.
Touched(c) ==
    LET item == op[c].batch[op[c].i]
    IN  CASE op[c].kind = "delete" -> {item} \cap graph.entities
          [] op[c].kind = "forget" -> {item} \cap graph.observed
          [] op[c].kind = "unrelate" -> {item} \cap graph.relations
          [] OTHER -> {item}

\* The statements of an item, once they have their locks.
Statement(c) ==
    /\ op[c].at = "statement" /\ Blockers(c) = {}
    /\ IF ~Reference(c) THEN Rollback(c)
       ELSE /\ op' = [op EXCEPT ![c] = NextItem([@ EXCEPT
                   !.locks = op[c].locks \cup (IF op[c].kind = "delete" /\ Touched(c) = {} THEN {} ELSE Wanted(c)),
                   !.writes = op[c].writes \cup Touched(c)])]
            /\ UNCHANGED graph

\* The database finds a circle of waiting transactions and ends one of them.
DeadlockFound(c) ==
    /\ \E D \in SUBSET Callers : c \in D /\ \A d \in D : Blockers(d) \cap D # {}
    /\ Rollback(c)

\* A statement or the commit fails.
DatabaseFails(c) ==
    /\ op[c].at \in {"lookup", "statement", "commit"}
    /\ Rollback(c)

\* What a transaction does to the tables.  Rows that are there are kept; those
\* of a deleted entity go with it, ON DELETE CASCADE.
CreateEntities(g, items) == [g EXCEPT !.entities = @ \cup items, !.observed = @ \cup items]
DeleteEntities(g, items) ==
    [entities |-> g.entities \ items, observed |-> g.observed \ items,
     relations |-> {r \in g.relations : {r[1], r[2]} \cap items = {}}]
AddObservations(g, items) == [g EXCEPT !.observed = @ \cup items]
DeleteObservations(g, items) == [g EXCEPT !.observed = @ \ items]
CreateRelations(g, items) == [g EXCEPT !.relations = @ \cup items]
DeleteRelations(g, items) == [g EXCEPT !.relations = @ \ items]

Applied(g, kind, items) ==
    CASE kind = "create" -> CreateEntities(g, items)
      [] kind = "delete" -> DeleteEntities(g, items)
      [] kind = "observe" -> AddObservations(g, items)
      [] kind = "forget" -> DeleteObservations(g, items)
      [] kind = "relate" -> CreateRelations(g, items)
      [] kind = "unrelate" -> DeleteRelations(g, items)

\* A key that another transaction looked up is gone for good with its row.
Forgets(o, gone) == [o EXCEPT !.known = IF @ \cap gone = {} THEN @ ELSE {}]

Commit(c) ==
    LET items == op[c].writes
    IN  /\ op[c].at = "commit" /\ op[c].kind \in Changes
        /\ graph' = Applied(graph, op[c].kind, items)
        /\ op' = [d \in Callers |->
               IF d = c THEN [NoOp EXCEPT !.at = "done", !.result = "success"]
               ELSE IF op[c].kind = "delete" THEN Forgets(op[d], items) ELSE op[d]]

-----------------------------------------------------------------------------
(* Reads *)

\* The list of entities stays open while its rows are gone through.
List(c, kind, names) ==
    /\ op[c].at = "begin" /\ op[c].kind = kind /\ Free > 0
    /\ op' = [op EXCEPT ![c].at = "rows", ![c].conns = 1, ![c].todo = names \cap graph.entities]
    /\ UNCHANGED graph
getAllEntities(c) == List(c, "read", Names)
OpenNodes(c) == \E names \in SUBSET Names : List(c, "open", names)

\* getObservationsForEntity, with the list still open.
getObservationsForEntity(c) ==
    /\ op[c].at = "rows" /\ op[c].todo # {} /\ Free > 0
    /\ \E x \in op[c].todo : op' = [op EXCEPT ![c].todo = @ \ {x}]
    /\ UNCHANGED graph

ReadFails(c) ==
    /\ op[c].at = "rows"
    /\ Rollback(c)

\* The list is closed; the graph is read on with its relations, in a query of
\* its own.
EndList(c) ==
    /\ op[c].at = "rows" /\ op[c].todo = {}
    /\ op' = [op EXCEPT ![c] = IF @.kind = "read" THEN [@ EXCEPT !.at = "relations", !.conns = 0]
                               ELSE [NoOp EXCEPT !.at = "done", !.result = "success"]]
    /\ UNCHANGED graph

getAllRelations(c) ==
    /\ op[c].at = "relations" /\ Free > 0
    /\ op' = [op EXCEPT ![c] = [NoOp EXCEPT !.at = "done", !.result = "success"]]
    /\ UNCHANGED graph

\* Queries that hold their connection only for themselves.
Query(c, kind, result) ==
    /\ op[c].at = "begin" /\ op[c].kind = kind /\ Free > 0
    /\ op' = [op EXCEPT ![c] = [NoOp EXCEPT !.at = "done", !.result = result]]
    /\ UNCHANGED graph
GetStats(c) == Query(c, "stats", "success")

\* An empty text finds nothing without a query.  The statement of the search
\* groups by less than it selects, which the database refuses; its rows, where
\* it is taken, are gone through like those of OpenNodes.
SearchNodes(c) ==
    \/ Query(c, "search", "success")
    \/ Query(c, "search", "error")
    \/ \E names \in SUBSET Names : List(c, "search", names)

\* The caller may call again.
Returns(c) ==
    /\ op[c].at = "done"
    /\ op' = [op EXCEPT ![c].at = "none", ![c].result = "none"]
    /\ UNCHANGED graph

Step(c) ==
    \/ Begin(c) \/ lookupEntityID(c) \/ Statement(c) \/ DeadlockFound(c) \/ Commit(c)
    \/ getAllEntities(c) \/ OpenNodes(c) \/ getObservationsForEntity(c) \/ EndList(c)
    \/ getAllRelations(c) \/ GetStats(c) \/ SearchNodes(c)

Steps(c) == (Step(c) \/ DatabaseFails(c) \/ ReadFails(c) \/ Returns(c)) /\ UNCHANGED calls

Next ==
    \/ \E c \in Callers : CallEntities(c) \/ CallObservations(c) \/ CallRelations(c) \/ CallReads(c)
    \/ \E c \in Callers : Steps(c)

-----------------------------------------------------------------------------
\* A relation joins two entities and an observation belongs to one, although a
\* lookup and the statement that relies on it are two statements, between which
\* the entity may be deleted.
GraphIsWhole ==
    /\ graph.observed \subseteq graph.entities
    /\ \A r \in graph.relations : {r[1], r[2]} \subseteq graph.entities

\* Every call comes to its end: connections and row locks are given back on
\* every path, and a modest bounded pool is kept "while still allowing
\* concurrent reads".
OperationsEnd ==
    \A c \in Callers : op[c].at # "none" ~> op[c].at \in {"done", "none"}

Op == [at : {"none", "begin", "lookup", "statement", "commit", "rows", "relations", "done"},
       kind : Changes \cup {"read", "open", "stats", "search"},
       batch : Seq(Names \cup Pairs), i : Nat, conns : 0..1, known : SUBSET Names,
       locks : SUBSET (Names \X {"share", "update", "delete"}),
       writes : SUBSET (Names \cup Pairs), todo : SUBSET Names, result : {"none", "success", "error"}]

TypeOK ==
    /\ graph \in [entities : SUBSET Names, observed : SUBSET Names, relations : SUBSET Pairs]
    /\ op \in [Callers -> Op]

\* A statement is about an item of its batch: a pair of names or a name.
ItemsFit(o) ==
    /\ o.kind \in {"relate", "unrelate"} => o.batch \in Seq(Pairs) /\ o.writes \subseteq Pairs
    /\ o.kind \in Changes \ {"relate", "unrelate"} => o.batch \in Seq(Names) /\ o.writes \subseteq Names
    /\ o.at \in {"lookup", "statement"} => o.kind \in Changes /\ o.i \in 1..Len(o.batch)
    /\ o.at = "begin" /\ o.kind \in Changes => o.i = 0 /\ Len(o.batch) > 0

\* What was looked up is there, or was forgotten; what is to be written has its
\* rows locked, and the entities it refers to are there.
RowsAreHeld(o) ==
    /\ o.known \subseteq graph.entities
    /\ o.at = "statement" /\ o.kind \in {"observe", "relate"} =>
          o.known \in {{}, Ends(o.batch[o.i], o.kind)}
    /\ o.kind = "delete" => \A x \in o.writes : <<x, "delete">> \in o.locks
    /\ o.kind = "observe" => \A x \in o.writes : x \in graph.entities /\ <<x, "update">> \in o.locks
    /\ o.kind = "relate" => \A r \in o.writes : \A x \in {r[1], r[2]} :
                                x \in graph.entities /\ <<x, "share">> \in o.locks

\* No two transactions hold locks that conflict.
LocksAgree ==
    \A c, d \in Callers : c # d =>
        \A l \in op[c].locks, m \in op[d].locks : l[1] = m[1] => ~Conflict(l[2], m[2])

MemoryInv ==
    /\ TypeOK /\ LocksAgree /\ GraphIsWhole
    /\ \A c \in Callers : ItemsFit(op[c]) /\ RowsAreHeld(op[c])
============================================================================
