---------------------------- MODULE ServicesProofs ----------------------------
(***************************************************************************)
(* The safety of the services of MCServices, proved for any callers,       *)
(* names, loggers, providers and bounds: the memory graph stays whole, an  *)
(* acknowledged audit entry is kept, thoughts are told from content, and   *)
(* the agent's model is told the truth.  And of the task scheduler's       *)
(* controller, which runs beside them and shares no state with them, for   *)
(* any workflows, requests, restarts and losses: no manual execution is    *)
(* lost and no phase goes back.                                            *)
(***************************************************************************)
EXTENDS MCServices, TaskSchedulerController, FiniteSetTheorems, TLAPS

-----------------------------------------------------------------------------
(* The memory graph *)

\* No call is under way.
LEMMA NoOpType == Mem!NoOp \in Mem!Op
    BY DEF Mem!NoOp, Mem!Op

\* A call that goes on to its next item is a call.
LEMMA NextItemType ==
    ASSUME NEW o \in Mem!Op PROVE Mem!NextItem(o) \in Mem!Op
<1> DEFINE next == IF o.i = Len(o.batch) THEN "commit"
                   ELSE IF o.kind \in {"create", "delete"} THEN "statement" ELSE "lookup"
<1>1. o.i + 1 \in Nat /\ next \in {"commit", "statement", "lookup"}
    BY DEF Mem!Op
<1>2. Mem!NextItem(o) = [o EXCEPT !.i = o.i + 1, !.at = next]
    BY DEF Mem!NextItem
<1> HIDE DEF next
<1>3. QED
    BY <1>1, <1>2 DEF Mem!Op

\* Sequences over a set are sequences over a wider one.
LEMMA SeqWider ==
    ASSUME NEW S, NEW T, NEW s \in Seq(S) \cup Seq(T) \cup {<<>>}
    PROVE  s \in Seq(S \cup T)
<1>1. ASSUME NEW U, NEW W, s \in Seq(U), U \subseteq W PROVE s \in Seq(W)
    <2>1. /\ s = [i \in 1..Len(s) |-> s[i]] /\ Len(s) \in Nat
          /\ \A i \in 1..Len(s) : s[i] \in U
        BY <1>1
    <2>2. QED
        BY <1>1, <2>1
<1>2. CASE s \in Seq(S)
    BY <1>1, <1>2
<1>3. CASE s \in Seq(T)
    BY <1>1, <1>3
<1>4. CASE s = <<>>
    BY <1>4
<1>5. QED
    BY <1>2, <1>3, <1>4

\* The graph is empty at first.
LEMMA MemoryInit == Mem!Init => Mem!MemoryInv
<1> SUFFICES ASSUME Mem!Init PROVE Mem!MemoryInv
    OBVIOUS
<1>1. graph \in [entities : SUBSET Names, observed : SUBSET Names, relations : SUBSET Mem!Pairs]
    BY DEF Mem!Init, Mem!Empty, Mem!Pairs
<1>2. Mem!NoOp \in Mem!Op
    BY NoOpType
<1>3. Mem!GraphIsWhole
    BY DEF Mem!Init, Mem!Empty, Mem!GraphIsWhole
<1>4. Mem!ItemsFit(Mem!NoOp) /\ Mem!RowsAreHeld(Mem!NoOp)
    BY DEF Mem!NoOp, Mem!ItemsFit, Mem!RowsAreHeld, Mem!Changes
<1>5. Mem!LocksAgree
    BY DEF Mem!Init, Mem!NoOp, Mem!LocksAgree
<1>6. QED
    BY <1>1, <1>2, <1>3, <1>4, <1>5 DEF Mem!Init, Mem!MemoryInv, Mem!TypeOK

\* A step of one call that leaves the tables alone: it is enough that what the
\* call becomes fits, and that its locks go with those of the others.
LEMMA MemoryLocal ==
    ASSUME Mem!MemoryInv, NEW c \in Callers, NEW o \in Mem!Op, op' = [op EXCEPT ![c] = o],
           UNCHANGED graph, Mem!ItemsFit(o), Mem!RowsAreHeld(o),
           \A d \in Callers \ {c} : \A l \in o.locks, m \in op[d].locks :
               l[1] = m[1] => ~Mem!Conflict(l[2], m[2])
    PROVE  Mem!MemoryInv'
<1>1. op'[c] = o /\ \A d \in Callers \ {c} : op'[d] = op[d]
    BY DEF Mem!MemoryInv, Mem!TypeOK
<1>2. Mem!TypeOK'
    BY DEF Mem!MemoryInv, Mem!TypeOK
<1>3. Mem!LocksAgree'
    BY <1>1 DEF Mem!MemoryInv, Mem!LocksAgree, Mem!Conflict
<1>4. Mem!GraphIsWhole'
    BY DEF Mem!MemoryInv, Mem!GraphIsWhole
<1>5. ASSUME NEW d \in Callers PROVE Mem!ItemsFit(op'[d])
    BY <1>1 DEF Mem!MemoryInv
<1>6. ASSUME NEW d \in Callers PROVE Mem!RowsAreHeld(op[d])'
    <2>1. Mem!RowsAreHeld(op'[d])
        BY <1>1 DEF Mem!MemoryInv
    <2>2. QED
        BY <2>1 DEF Mem!RowsAreHeld
<1>7. QED
    BY <1>2, <1>3, <1>4, <1>5, <1>6 DEF Mem!MemoryInv, Mem!ItemsFit

\* A call that holds nothing: not begun, rolled back or returned.
LEMMA MemoryReset ==
    ASSUME Mem!MemoryInv, NEW c \in Callers, NEW o \in Mem!Op, op' = [op EXCEPT ![c] = o],
           UNCHANGED graph, o.locks = {}, o.writes = {}, o.known = {},
           o.at \in {"begin", "done", "none"}, o.i = 0,
           o.kind \in {"relate", "unrelate"} => o.batch \in Seq(Mem!Pairs) /\ Len(o.batch) > 0,
           o.kind \in Mem!Changes \ {"relate", "unrelate"} => o.batch \in Seq(Names) /\ Len(o.batch) > 0
    PROVE  Mem!MemoryInv'
<1>1. Mem!ItemsFit(o)
    BY DEF Mem!ItemsFit, Mem!Changes
<1>2. Mem!RowsAreHeld(o)
    BY DEF Mem!RowsAreHeld
<1>3. QED
    BY <1>1, <1>2, MemoryLocal

\* A call that keeps what it holds and goes on to anything but a statement.
LEMMA MemoryGoesOn ==
    ASSUME Mem!MemoryInv, NEW c \in Callers, NEW o \in Mem!Op, op' = [op EXCEPT ![c] = o],
           UNCHANGED graph, o.at \in {"rows", "relations", "done", "none"},
           o.locks = op[c].locks, o.writes = op[c].writes, o.known = op[c].known,
           o.kind = op[c].kind, o.batch = op[c].batch
    PROVE  Mem!MemoryInv'
<1>1. Mem!ItemsFit(op[c]) /\ Mem!RowsAreHeld(op[c])
    BY DEF Mem!MemoryInv
<1>2. Mem!ItemsFit(o)
    BY <1>1 DEF Mem!ItemsFit
<1>3. Mem!RowsAreHeld(o)
    BY <1>1 DEF Mem!RowsAreHeld
<1>4. \A d \in Callers \ {c} : \A l \in o.locks, m \in op[d].locks :
          l[1] = m[1] => ~Mem!Conflict(l[2], m[2])
    BY DEF Mem!MemoryInv, Mem!LocksAgree
<1>5. QED
    BY <1>2, <1>3, <1>4, MemoryLocal

\* A rollback gives back locks and writes.
LEMMA MemoryRollback ==
    ASSUME Mem!MemoryInv, NEW c \in Callers, Mem!Rollback(c)
    PROVE  Mem!MemoryInv'
<1> DEFINE o == [Mem!NoOp EXCEPT !.at = "done", !.result = "error"]
<1>1. /\ o.locks = {} /\ o.writes = {} /\ o.known = {} /\ o.at = "done" /\ o.i = 0
      /\ o.kind = "read"
    BY DEF Mem!NoOp
<1>t. o \in Mem!Op
    BY NoOpType DEF Mem!Op
<1>2. op' = [op EXCEPT ![c] = o] /\ UNCHANGED graph
    BY DEF Mem!Rollback
<1> HIDE DEF o
<1>3. QED
    BY <1>1, <1>t, <1>2, MemoryReset DEF Mem!Changes

\* A new call holds no lock and has written nothing.
LEMMA MemoryCall ==
    ASSUME Mem!MemoryInv, NEW c \in Callers, NEW kind, NEW batch, Mem!Call(c, kind, batch),
           \/ kind \in {"create", "delete", "observe", "forget"} /\ batch \in Seq(Names) /\ Len(batch) > 0
           \/ kind \in {"relate", "unrelate"} /\ batch \in Seq(Mem!Pairs) /\ Len(batch) > 0
           \/ kind \in {"read", "open", "stats", "search"} /\ batch = <<>>
    PROVE  Mem!MemoryInv'
<1> DEFINE o == [Mem!NoOp EXCEPT !.at = "begin", !.kind = kind, !.batch = batch]
<1>1. batch \in Seq(Names \cup Mem!Pairs)
    BY SeqWider
<1>2. /\ o.locks = {} /\ o.writes = {} /\ o.known = {} /\ o.at = "begin" /\ o.i = 0
      /\ o.kind = kind /\ o.batch = batch
    BY DEF Mem!NoOp
<1>3. o \in Mem!Op
    BY <1>1, NoOpType DEF Mem!Op, Mem!Changes
<1>4. op' = [op EXCEPT ![c] = o] /\ UNCHANGED graph
    BY DEF Mem!Call
<1> HIDE DEF o
<1>5. QED
    BY <1>2, <1>3, <1>4, MemoryReset DEF Mem!Changes

\* Batches of a call are sequences of names.
LEMMA BatchType ==
    ASSUME NEW b \in Mem!Batches
    PROVE  b \in Seq(Names) /\ Len(b) > 0
<1>1. CASE \E a \in Names : b = <<a>>
    BY <1>1
<1>2. CASE \E a, d \in Names : b = <<a, d>>
    BY <1>2
<1>3. QED
    BY <1>1, <1>2 DEF Mem!Batches

\* Begin takes a connection and goes to the first item.
LEMMA MemoryBegin ==
    ASSUME Mem!MemoryInv, NEW c \in Callers, Mem!Begin(c)
    PROVE  Mem!MemoryInv'
<1> DEFINE p == op[c]
           o == Mem!NextItem([p EXCEPT !.conns = 1])
<1>1. p \in Mem!Op /\ Mem!ItemsFit(p) /\ Mem!RowsAreHeld(p) /\ p.at = "begin" /\ p.kind \in Mem!Changes
    BY DEF Mem!MemoryInv, Mem!TypeOK, Mem!Begin
<1>2. p.i = 0 /\ Len(p.batch) > 0 /\ Len(p.batch) \in Nat
    BY <1>1 DEF Mem!ItemsFit, Mem!Op
<1>3. op' = [op EXCEPT ![c] = o] /\ UNCHANGED graph
    BY DEF Mem!Begin
<1> HIDE DEF p
<1>4. /\ o.locks = p.locks /\ o.writes = p.writes /\ o.known = p.known /\ o.kind = p.kind
      /\ o.batch = p.batch /\ o.i = 1
      /\ o.at = IF p.kind \in {"create", "delete"} THEN "statement" ELSE "lookup"
    BY <1>1, <1>2 DEF Mem!NextItem, Mem!Op
<1>5. o \in Mem!Op
    <2>1. 1 \in 0..1
        OBVIOUS
    <2>2. [p EXCEPT !.conns = 1] \in Mem!Op
        BY <1>1, <2>1 DEF Mem!Op
    <2>3. QED
        BY <2>2, NextItemType
<1> HIDE DEF o
<1>6. Mem!ItemsFit(o)
    BY <1>1, <1>2, <1>4 DEF Mem!ItemsFit
<1>7. Mem!RowsAreHeld(o)
    BY <1>1, <1>2, <1>4 DEF Mem!RowsAreHeld
<1>8. \A d \in Callers \ {c} : \A l \in o.locks, m \in op[d].locks :
          l[1] = m[1] => ~Mem!Conflict(l[2], m[2])
    BY <1>4 DEF Mem!MemoryInv, Mem!LocksAgree, p
<1>9. QED
    BY <1>3, <1>5, <1>6, <1>7, <1>8, MemoryLocal

\* What is looked up is in the tables.
LEMMA MemoryLookup ==
    ASSUME Mem!MemoryInv, NEW c \in Callers, Mem!lookupEntityID(c)
    PROVE  Mem!MemoryInv'
<1> DEFINE p == op[c]
           ends == Mem!Ends(p.batch[p.i], p.kind)
           o == [p EXCEPT !.at = "statement", !.known = ends]
<1>1. CASE ~(ends \subseteq graph.entities)
    BY <1>1, MemoryRollback DEF Mem!lookupEntityID
<1>2. CASE ends \subseteq graph.entities
    <2>1. /\ p \in Mem!Op /\ Mem!ItemsFit(p) /\ Mem!RowsAreHeld(p) /\ p.at = "lookup"
          /\ graph.entities \subseteq Names
        BY DEF Mem!MemoryInv, Mem!TypeOK, Mem!lookupEntityID
    <2>2. op' = [op EXCEPT ![c] = o] /\ UNCHANGED graph
        BY <1>2, <2>1 DEF Mem!lookupEntityID, Mem!MemoryInv, Mem!TypeOK, Mem!Op
    <2> HIDE DEF p, ends
    <2>3. /\ o.locks = p.locks /\ o.writes = p.writes /\ o.known = ends /\ o.kind = p.kind
          /\ o.batch = p.batch /\ o.i = p.i /\ o.at = "statement"
        BY <2>1 DEF Mem!Op
    <2>4. o \in Mem!Op
        BY <1>2, <2>1 DEF Mem!Op
    <2> HIDE DEF o
    <2>5. Mem!ItemsFit(o)
        BY <2>1, <2>3 DEF Mem!ItemsFit
    <2>6. Mem!RowsAreHeld(o)
        BY <1>2, <2>1, <2>3 DEF Mem!RowsAreHeld, ends
    <2>7. \A d \in Callers \ {c} : \A l \in o.locks, m \in op[d].locks :
              l[1] = m[1] => ~Mem!Conflict(l[2], m[2])
        BY <2>3 DEF Mem!MemoryInv, Mem!LocksAgree, p
    <2>8. QED
        BY <2>2, <2>4, <2>5, <2>6, <2>7, MemoryLocal
<1>3. QED
    BY <1>1, <1>2

\* The reads hold no rows.
LEMMA MemoryReads ==
    ASSUME Mem!MemoryInv, NEW c \in Callers,
           \/ Mem!getAllEntities(c) \/ Mem!OpenNodes(c) \/ Mem!getObservationsForEntity(c)
           \/ Mem!EndList(c) \/ Mem!getAllRelations(c) \/ Mem!GetStats(c) \/ Mem!SearchNodes(c)
           \/ Mem!Returns(c)
    PROVE  Mem!MemoryInv'
<1> DEFINE p == op[c]
<1>1. p \in Mem!Op /\ op = [d \in Callers |-> op[d]] /\ graph.entities \subseteq Names
    BY DEF Mem!MemoryInv, Mem!TypeOK
<1>2. ASSUME NEW kind, NEW names \in SUBSET Names, Mem!List(c, kind, names) PROVE Mem!MemoryInv'
    <2> DEFINE o == [p EXCEPT !.at = "rows", !.conns = 1, !.todo = names \cap graph.entities]
    <2>1. op' = [op EXCEPT ![c] = o] /\ UNCHANGED graph
        BY <1>1, <1>2 DEF Mem!List, Mem!Op
    <2> HIDE DEF p
    <2>2. /\ o.at = "rows" /\ o.locks = p.locks /\ o.writes = p.writes
          /\ o.known = p.known /\ o.kind = p.kind /\ o.batch = p.batch
        BY <1>1 DEF Mem!Op
    <2>3. o \in Mem!Op
        <3>1. names \cap graph.entities \in SUBSET Names /\ 1 \in 0..1
            OBVIOUS
        <3>2. QED
            BY <1>1, <3>1 DEF Mem!Op
    <2> HIDE DEF o
    <2>4. QED
        BY <2>1, <2>2, <2>3, MemoryGoesOn DEF p
<1>3. ASSUME NEW result \in {"success", "error"},
             op' = [op EXCEPT ![c] = [Mem!NoOp EXCEPT !.at = "done", !.result = result]], UNCHANGED graph
      PROVE  Mem!MemoryInv'
    <2> DEFINE o == [Mem!NoOp EXCEPT !.at = "done", !.result = result]
    <2>1. /\ o.locks = {} /\ o.writes = {} /\ o.known = {} /\ o.at = "done" /\ o.i = 0
          /\ o.kind = "read"
        BY DEF Mem!NoOp
    <2>2. o \in Mem!Op
        BY NoOpType DEF Mem!Op
    <2>3. op' = [op EXCEPT ![c] = o] /\ UNCHANGED graph
        BY <1>3
    <2> HIDE DEF o
    <2>4. QED
        BY <2>1, <2>2, <2>3, MemoryReset DEF Mem!Changes
<1>4. CASE Mem!getObservationsForEntity(c)
    <2>1. PICK x \in p.todo : op' = [op EXCEPT ![c].todo = @ \ {x}]
        BY <1>4 DEF Mem!getObservationsForEntity
    <2> DEFINE o == [p EXCEPT !.todo = @ \ {x}]
    <2>2. op' = [op EXCEPT ![c] = o] /\ UNCHANGED graph /\ p.at = "rows"
        BY <1>1, <1>4, <2>1 DEF Mem!getObservationsForEntity
    <2> HIDE DEF p
    <2>3. /\ o \in Mem!Op /\ o.at = "rows" /\ o.locks = p.locks /\ o.writes = p.writes
          /\ o.known = p.known /\ o.kind = p.kind /\ o.batch = p.batch
        BY <1>1, <2>2 DEF Mem!Op
    <2> HIDE DEF o
    <2>4. QED
        BY <2>2, <2>3, MemoryGoesOn DEF p
<1>5. CASE Mem!EndList(c)
    <2>1. CASE p.kind # "read"
        BY <1>3, <1>5, <2>1 DEF Mem!EndList
    <2>2. CASE p.kind = "read"
        <3> DEFINE o == [p EXCEPT !.at = "relations", !.conns = 0]
        <3>1. op' = [op EXCEPT ![c] = o] /\ UNCHANGED graph
            BY <1>5, <2>2 DEF Mem!EndList
        <3> HIDE DEF p
        <3>2. /\ o.at = "relations" /\ o.locks = p.locks /\ o.writes = p.writes
              /\ o.known = p.known /\ o.kind = p.kind /\ o.batch = p.batch
            BY <1>1 DEF Mem!Op
        <3>t. o \in Mem!Op
            <4>1. 0 \in 0..1
                OBVIOUS
            <4>2. QED
                BY <1>1, <4>1 DEF Mem!Op
        <3> HIDE DEF o
        <3>3. QED
            BY <3>1, <3>2, <3>t, MemoryGoesOn DEF p
    <2>3. QED
        BY <2>1, <2>2
<1>6. CASE Mem!Returns(c)
    <2> DEFINE o == [p EXCEPT !.at = "none", !.result = "none"]
    <2>1. op' = [op EXCEPT ![c] = o] /\ UNCHANGED graph
        BY <1>1, <1>6 DEF Mem!Returns, Mem!Op
    <2> HIDE DEF p
    <2>2. /\ o \in Mem!Op /\ o.at = "none" /\ o.locks = p.locks /\ o.writes = p.writes
          /\ o.known = p.known /\ o.kind = p.kind /\ o.batch = p.batch
        BY <1>1 DEF Mem!Op
    <2> HIDE DEF o
    <2>3. QED
        BY <2>1, <2>2, MemoryGoesOn DEF p
<1>7. QED
    BY <1>2, <1>3, <1>4, <1>5, <1>6
       DEF Mem!getAllEntities, Mem!OpenNodes, Mem!getAllRelations, Mem!GetStats, Mem!SearchNodes, Mem!Query

\* A statement has its locks when it writes, and its references still hold.
LEMMA MemoryStatement ==
    ASSUME Mem!MemoryInv, NEW c \in Callers, Mem!Statement(c)
    PROVE  Mem!MemoryInv'
<1>1. CASE ~Mem!Reference(c)
    BY <1>1, MemoryRollback DEF Mem!Statement
<1>2. CASE Mem!Reference(c)
    <2> DEFINE p == op[c]
               item == p.batch[p.i]
               touched == Mem!Touched(c)
               wanted == IF p.kind = "delete" /\ touched = {} THEN {} ELSE Mem!Wanted(c)
               o == Mem!NextItem([p EXCEPT !.locks = p.locks \cup wanted, !.writes = p.writes \cup touched])
    <2>1. /\ p \in Mem!Op /\ Mem!ItemsFit(p) /\ Mem!RowsAreHeld(p) /\ p.at = "statement"
          /\ Mem!Blockers(c) = {}
        BY DEF Mem!MemoryInv, Mem!TypeOK, Mem!Statement
    <2>2. op' = [op EXCEPT ![c] = o] /\ UNCHANGED graph
        BY <1>2 DEF Mem!Statement
    <2>3. /\ p.kind \in Mem!Changes /\ p.i \in 1..Len(p.batch) /\ Len(p.batch) \in Nat
          /\ p.kind \in {"relate", "unrelate"} => item \in Mem!Pairs
          /\ p.kind \in Mem!Changes \ {"relate", "unrelate"} => item \in Names
        BY <2>1 DEF Mem!ItemsFit, Mem!Op
    <2>4. /\ p.kind \in {"relate", "unrelate"} => item = <<item[1], item[2]>> /\ item[1] \in Names /\ item[2] \in Names
        BY <2>3 DEF Mem!Pairs
    <2>5. /\ wanted \subseteq Names \X {"share", "update", "delete"}
          /\ p.kind = "delete" /\ touched # {} => wanted = {<<item, "delete">>}
          /\ p.kind = "observe" => wanted = {<<item, "update">>}
          /\ p.kind = "relate" => wanted = {<<item[1], "share">>, <<item[2], "share">>}
        BY <2>3, <2>4 DEF Mem!Wanted, Mem!Changes
    <2>6. touched \subseteq {item}
        BY <2>3 DEF Mem!Touched, Mem!Changes
    \* Nobody else holds a lock that conflicts with those it takes.
    <2>7. ASSUME NEW d \in Callers \ {c}, NEW l \in wanted, NEW m \in op[d].locks, l[1] = m[1]
          PROVE  ~Mem!Conflict(l[2], m[2])
        <3>1. l \in Mem!Wanted(c) /\ Mem!Holders(c, l[1], l[2]) = {}
            BY <2>1, <2>7 DEF Mem!Blockers
        <3>2. QED
            BY <2>7, <3>1 DEF Mem!Holders, Mem!Conflict
    <2> HIDE DEF p, item, touched, wanted
    <2>8. /\ o.locks = p.locks \cup wanted /\ o.writes = p.writes \cup touched /\ o.known = p.known
          /\ o.kind = p.kind /\ o.batch = p.batch /\ o.i = p.i + 1
          /\ o.at = IF p.i = Len(p.batch) THEN "commit"
                    ELSE IF p.kind \in {"create", "delete"} THEN "statement" ELSE "lookup"
        BY <2>1 DEF Mem!NextItem, Mem!Op
    <2>9. o \in Mem!Op
        <3>1. p.locks \cup wanted \in SUBSET (Names \X {"share", "update", "delete"})
            BY <2>1, <2>5 DEF Mem!Op
        <3>2. p.writes \cup touched \in SUBSET (Names \cup Mem!Pairs)
            BY <2>1, <2>3, <2>6 DEF Mem!Op, Mem!Changes
        <3>3. [p EXCEPT !.locks = p.locks \cup wanted, !.writes = p.writes \cup touched] \in Mem!Op
            BY <2>1, <3>1, <3>2 DEF Mem!Op
        <3>4. QED
            BY <3>3, NextItemType
    <2> HIDE DEF o
    <2>10. Mem!ItemsFit(o)
        BY <2>1, <2>3, <2>6, <2>8 DEF Mem!ItemsFit, Mem!Changes
    <2>11. Mem!RowsAreHeld(o)
        <3>1. o.known \subseteq graph.entities /\ ~(o.at = "statement" /\ o.kind \in {"observe", "relate"})
            BY <2>1, <2>8 DEF Mem!RowsAreHeld
        <3>2. p.kind \in {"observe", "relate"} => Mem!Ends(item, p.kind) \subseteq graph.entities
            BY <1>2, <2>1 DEF Mem!RowsAreHeld, Mem!Reference, p, item
        <3>3. o.kind = "delete" => \A x \in o.writes : <<x, "delete">> \in o.locks
            BY <2>1, <2>5, <2>6, <2>8 DEF Mem!RowsAreHeld
        <3>4. o.kind = "observe" => \A x \in o.writes : x \in graph.entities /\ <<x, "update">> \in o.locks
            BY <2>1, <2>5, <2>6, <2>8, <3>2 DEF Mem!RowsAreHeld, Mem!Ends
        <3>5. o.kind = "relate" => \A r \in o.writes : \A x \in {r[1], r[2]} :
                                       x \in graph.entities /\ <<x, "share">> \in o.locks
            BY <2>1, <2>5, <2>6, <2>8, <3>2 DEF Mem!RowsAreHeld, Mem!Ends
        <3>6. QED
            BY <3>1, <3>3, <3>4, <3>5 DEF Mem!RowsAreHeld
    <2>12. \A d \in Callers \ {c} : \A l \in o.locks, m \in op[d].locks :
              l[1] = m[1] => ~Mem!Conflict(l[2], m[2])
        BY <2>7, <2>8 DEF Mem!MemoryInv, Mem!LocksAgree, p
    <2>13. QED
        BY <2>2, <2>9, <2>10, <2>11, <2>12, MemoryLocal
<1>3. QED
    BY <1>1, <1>2

\* A commit keeps the tables whole, and what the others hold is still there:
\* the rows that it deletes are locked by no one else.
LEMMA MemoryCommit ==
    ASSUME Mem!MemoryInv, NEW c \in Callers, Mem!Commit(c)
    PROVE  Mem!MemoryInv'
<1> DEFINE p == op[c]
           items == p.writes
           end == [Mem!NoOp EXCEPT !.at = "done", !.result = "success"]
<1>1. /\ p \in Mem!Op /\ Mem!ItemsFit(p) /\ Mem!RowsAreHeld(p) /\ p.kind \in Mem!Changes
      /\ graph \in [entities : SUBSET Names, observed : SUBSET Names, relations : SUBSET Mem!Pairs]
      /\ Mem!GraphIsWhole
    BY DEF Mem!MemoryInv, Mem!TypeOK, Mem!Commit
<1>2. /\ p.kind \in {"relate", "unrelate"} => items \subseteq Mem!Pairs
      /\ p.kind \notin {"relate", "unrelate"} => items \subseteq Names
    BY <1>1 DEF Mem!ItemsFit
<1>3. graph' = Mem!Applied(graph, p.kind, items)
    BY DEF Mem!Commit
<1>4. /\ graph' \in [entities : SUBSET Names, observed : SUBSET Names, relations : SUBSET Mem!Pairs]
      /\ graph'.entities = IF p.kind = "create" THEN graph.entities \cup items
                           ELSE IF p.kind = "delete" THEN graph.entities \ items ELSE graph.entities
    <2> HIDE DEF p, items
    <2>1. CASE p.kind = "create"
        BY <1>1, <1>2, <1>3, <2>1 DEF Mem!Applied, Mem!CreateEntities
    <2>2. CASE p.kind = "delete"
        BY <1>1, <1>2, <1>3, <2>2 DEF Mem!Applied, Mem!DeleteEntities
    <2>3. CASE p.kind = "observe"
        BY <1>1, <1>2, <1>3, <2>3 DEF Mem!Applied, Mem!AddObservations
    <2>4. CASE p.kind = "forget"
        BY <1>1, <1>2, <1>3, <2>4 DEF Mem!Applied, Mem!DeleteObservations
    <2>5. CASE p.kind = "relate"
        BY <1>1, <1>2, <1>3, <2>5 DEF Mem!Applied, Mem!CreateRelations
    <2>6. CASE p.kind = "unrelate"
        BY <1>1, <1>2, <1>3, <2>6 DEF Mem!Applied, Mem!DeleteRelations
    <2>7. QED
        BY <1>1, <2>1, <2>2, <2>3, <2>4, <2>5, <2>6 DEF Mem!Changes
<1>5. Mem!GraphIsWhole'
    <2> HIDE DEF p, items
    <2> USE DEF Mem!GraphIsWhole
    <2>1. CASE p.kind = "create"
        BY <1>1, <1>2, <1>3, <2>1, ZenonT(40) DEF Mem!Applied, Mem!CreateEntities
    <2>2. CASE p.kind = "delete"
        BY <1>1, <1>2, <1>3, <2>2 DEF Mem!Applied, Mem!DeleteEntities
    <2>3. CASE p.kind = "observe"
        BY <1>1, <1>2, <1>3, <2>3 DEF Mem!Applied, Mem!AddObservations, Mem!RowsAreHeld, items
    <2>4. CASE p.kind = "forget"
        BY <1>1, <1>2, <1>3, <2>4 DEF Mem!Applied, Mem!DeleteObservations
    <2>5. CASE p.kind = "relate"
        BY <1>1, <1>2, <1>3, <2>5, ZenonT(40) DEF Mem!Applied, Mem!CreateRelations, Mem!RowsAreHeld, items
    <2>6. CASE p.kind = "unrelate"
        BY <1>1, <1>2, <1>3, <2>6 DEF Mem!Applied, Mem!DeleteRelations
    <2>7. QED
        BY <1>1, <2>1, <2>2, <2>3, <2>4, <2>5, <2>6 DEF Mem!Changes
<1>6. /\ end \in Mem!Op /\ end.locks = {} /\ end.writes = {} /\ end.known = {} /\ end.at = "done"
      /\ end.kind = "read"
    <2>1. end \in Mem!Op
        BY NoOpType DEF Mem!Op
    <2>2. QED
        BY <2>1 DEF Mem!NoOp
<1>7. op'[c] = end /\ DOMAIN op' = Callers /\ op' = [d \in Callers |-> op'[d]]
    BY DEF Mem!Commit
<1>8. ASSUME NEW d \in Callers \ {c}
      PROVE  /\ op'[d] \in Mem!Op /\ op'[d].locks = op[d].locks /\ op'[d].writes = op[d].writes
             /\ op'[d].kind = op[d].kind /\ op'[d].batch = op[d].batch /\ op'[d].i = op[d].i
             /\ op'[d].at = op[d].at
             /\ op'[d].known = IF p.kind = "delete" /\ op[d].known \cap items # {} THEN {} ELSE op[d].known
    <2>1. op[d] \in Mem!Op
        BY DEF Mem!MemoryInv, Mem!TypeOK
    <2>2. op'[d] = IF p.kind = "delete" THEN Mem!Forgets(op[d], items) ELSE op[d]
        BY DEF Mem!Commit
    <2>3. QED
        BY <2>1, <2>2 DEF Mem!Forgets, Mem!Op
<1> HIDE DEF end
<1>9. Mem!TypeOK'
    BY <1>4, <1>6, <1>7, <1>8 DEF Mem!TypeOK
<1>10. Mem!LocksAgree'
    BY <1>6, <1>7, <1>8 DEF Mem!MemoryInv, Mem!LocksAgree
<1>11. ASSUME NEW d \in Callers PROVE Mem!ItemsFit(op[d])'
    <2>1. CASE d = c
        BY <1>6, <1>7, <2>1 DEF Mem!ItemsFit, Mem!Changes
    <2>2. CASE d # c
        BY <1>8, <2>2 DEF Mem!ItemsFit, Mem!MemoryInv
    <2>3. QED
        BY <2>1, <2>2
<1>12. ASSUME NEW d \in Callers PROVE Mem!RowsAreHeld(op[d])'
    <2>1. CASE d = c
        BY <1>6, <1>7, <2>1 DEF Mem!RowsAreHeld
    <2>2. CASE d # c
        <3> DEFINE q == op[d]
        <3>1. Mem!RowsAreHeld(q)
            BY DEF Mem!MemoryInv
        <3>2. \A l \in p.locks, m \in q.locks : l[1] = m[1] => ~Mem!Conflict(l[2], m[2])
            BY <2>2 DEF Mem!MemoryInv, Mem!LocksAgree
        <3>3. \A x, mode : <<x, mode>> \in q.locks /\ x \in graph.entities => x \in graph'.entities
            <4> SUFFICES ASSUME NEW x, NEW mode, <<x, mode>> \in q.locks, x \in graph.entities,
                                x \notin graph'.entities
                         PROVE  FALSE
                OBVIOUS
            <4>1. p.kind = "delete" /\ x \in items
                BY <1>4
            <4>2. <<x, "delete">> \in p.locks
                BY <1>1, <4>1 DEF Mem!RowsAreHeld
            <4>3. QED
                BY <3>2, <4>2 DEF Mem!Conflict
        <3>4. op'[d].known \subseteq graph'.entities
            BY <1>4, <1>8, <2>2, <3>1 DEF Mem!RowsAreHeld
        <3>5. QED
            BY <1>8, <2>2, <3>1, <3>3, <3>4 DEF Mem!RowsAreHeld
    <2>3. QED
        BY <2>1, <2>2
<1>13. QED
    BY <1>5, <1>9, <1>10, <1>11, <1>12 DEF Mem!MemoryInv

\* Every step of the memory tools keeps the invariant.
LEMMA MemoryStep == Mem!MemoryInv /\ [Mem!Next]_memVars => Mem!MemoryInv'
<1> SUFFICES ASSUME Mem!MemoryInv, [Mem!Next]_memVars PROVE Mem!MemoryInv'
    OBVIOUS
<1>1. CASE UNCHANGED memVars
    BY <1>1 DEF memVars, Mem!MemoryInv, Mem!TypeOK, Mem!LocksAgree, Mem!GraphIsWhole, Mem!ItemsFit,
                Mem!RowsAreHeld
<1>2. ASSUME NEW c \in Callers, Mem!CallEntities(c) \/ Mem!CallObservations(c) PROVE Mem!MemoryInv'
    BY <1>2, MemoryCall, BatchType DEF Mem!CallEntities, Mem!CallObservations
<1>3. ASSUME NEW c \in Callers, Mem!CallRelations(c) PROVE Mem!MemoryInv'
    <2>1. \A p \in Mem!Pairs : <<p>> \in Seq(Mem!Pairs) /\ Len(<<p>>) > 0
        OBVIOUS
    <2>2. QED
        BY <1>3, <2>1, MemoryCall DEF Mem!CallRelations
<1>4. ASSUME NEW c \in Callers, Mem!CallReads(c) PROVE Mem!MemoryInv'
    BY <1>4, MemoryCall DEF Mem!CallReads
<1>5. ASSUME NEW c \in Callers, Mem!Steps(c) PROVE Mem!MemoryInv'
    BY <1>5, MemoryBegin, MemoryLookup, MemoryStatement, MemoryCommit, MemoryReads, MemoryRollback
       DEF Mem!Steps, Mem!Step, Mem!DeadlockFound, Mem!DatabaseFails, Mem!ReadFails
<1>6. QED
    BY <1>1, <1>2, <1>3, <1>4, <1>5 DEF Mem!Next

-----------------------------------------------------------------------------
(* The audit log *)

\* A set of backups is a function from names to sequences of entries.
LEMMA FilesType ==
    ASSUME NEW f
    PROVE  f \in Aud!Files <=> /\ f = [n \in DOMAIN f |-> f[n]] /\ DOMAIN f \subseteq Nat
                           /\ \A n \in DOMAIN f : f[n] \in Seq(Nat)
<1>1. ASSUME f \in Aud!Files
      PROVE  /\ f = [n \in DOMAIN f |-> f[n]] /\ DOMAIN f \subseteq Nat
             /\ \A n \in DOMAIN f : f[n] \in Seq(Nat)
    BY <1>1 DEF Aud!Files
<1>2. ASSUME f = [n \in DOMAIN f |-> f[n]], DOMAIN f \subseteq Nat,
             \A n \in DOMAIN f : f[n] \in Seq(Nat)
      PROVE  f \in Aud!Files
    <2>1. f \in [DOMAIN f -> Seq(Nat)]
        BY <1>2
    <2>2. QED
        BY <1>2, <2>1 DEF Aud!Files
<1>3. QED
    BY <1>1, <1>2

\* Fewer files are files.
LEMMA RestrictType ==
    ASSUME NEW f \in Aud!Files, NEW S, S \subseteq DOMAIN f
    PROVE  /\ Aud!Restrict(f, S) \in Aud!Files /\ DOMAIN Aud!Restrict(f, S) = S
           /\ \A n \in S : Aud!Restrict(f, S)[n] = f[n]
<1>1. /\ DOMAIN Aud!Restrict(f, S) = S /\ \A n \in S : Aud!Restrict(f, S)[n] = f[n]
      /\ Aud!Restrict(f, S) = [n \in S |-> f[n]]
    BY DEF Aud!Restrict
<1>2. QED
    BY <1>1, FilesType

\* A line adds its entry, unless it does not parse.
LEMMA EntriesAppend ==
    ASSUME NEW s \in Seq(Nat), NEW e \in Nat
    PROVE  Aud!Entries(Append(s, e)) = Aud!Entries(s) \cup ({e} \ {0})
<1>1. /\ DOMAIN Append(s, e) = 1..(Len(s) + 1) /\ DOMAIN s = 1..Len(s) /\ Len(s) \in Nat
      /\ Append(s, e)[Len(s) + 1] = e /\ \A i \in 1..Len(s) : Append(s, e)[i] = s[i]
    OBVIOUS
<1>2. Aud!Range(Append(s, e)) = Aud!Range(s) \cup {e}
    BY <1>1 DEF Aud!Range
<1>3. QED
    BY <1>2 DEF Aud!Entries

\* A rotation takes the entries of the active file among the backups.
LEMMA RotatedFiles ==
    ASSUME Aud!AuditInv
    PROVE  /\ Aud!Rotated \in Aud!Files
           /\ \A n \in DOMAIN Aud!Rotated : n < trail.rotations + 1
           /\ Aud!InFiles(Aud!Rotated) = Aud!InFiles(trail.backups) \cup Aud!Entries(trail.active)
<1>1. /\ trail.backups \in Aud!Files /\ trail.active \in Seq(Nat) /\ trail.rotations \in Nat
      /\ \A n \in DOMAIN trail.backups : n < trail.rotations
    BY DEF Aud!AuditInv, Aud!Trail, Aud!Files
<1>2. /\ DOMAIN trail.backups \subseteq Nat /\ \A n \in DOMAIN trail.backups : trail.backups[n] \in Seq(Nat)
      /\ trail.rotations \notin DOMAIN trail.backups
    BY <1>1, FilesType
<1> DEFINE r == Aud!Rotated
<1>3. /\ DOMAIN r = DOMAIN trail.backups \cup {trail.rotations} /\ r = [n \in DOMAIN r |-> r[n]]
      /\ r[trail.rotations] = trail.active /\ \A n \in DOMAIN trail.backups : r[n] = trail.backups[n]
    BY <1>2 DEF Aud!Rotated
<1> HIDE DEF r
<1>4. r \in Aud!Files
    BY <1>1, <1>2, <1>3, FilesType
<1>5. \A n \in DOMAIN r : n < trail.rotations + 1
    BY <1>1, <1>2, <1>3
<1>6. Aud!InFiles(r) = Aud!InFiles(trail.backups) \cup Aud!Entries(trail.active)
    BY <1>3 DEF Aud!InFiles
<1>7. QED
    BY <1>4, <1>5, <1>6 DEF r

\* Pruning leaves some of the files, and its entries are what they lose.
LEMMA PrunedFiles ==
    ASSUME NEW f \in Aud!Files
    PROVE  /\ Aud!Pruned(f) \in Aud!Files /\ DOMAIN Aud!Pruned(f) \subseteq DOMAIN f
           /\ Aud!InFiles(f) \subseteq Aud!InFiles(Aud!Pruned(f)) \cup Aud!PrunedEntries(f)
    BY RestrictType DEF Aud!Pruned, Aud!PrunedEntries

\* Nothing was logged at first.
LEMMA AuditInit == Aud!Init => Aud!AuditInv
<1> SUFFICES ASSUME Aud!Init PROVE Aud!AuditInv
    OBVIOUS
<1>1. Aud!NoBackups \in Aud!Files /\ DOMAIN Aud!NoBackups = {}
    BY FilesType DEF Aud!NoBackups
<1>2. trail \in Aud!Trail
    BY <1>1, SMTT(30) DEF Aud!Init, Aud!Trail, Aud!Files
<1>3. QED
    BY <1>1, <1>2 DEF Aud!Init, Aud!AuditInv, Aud!Idle, Aud!AcknowledgedIsKept

\* What a step has to keep of the disk, for the entries acknowledged before it.
LEMMA AuditKeeps ==
    ASSUME Aud!AuditInv, fate'.acked = fate.acked, fate.retired \subseteq fate'.retired,
           trail.lost \subseteq trail'.lost, Aud!OnDisk \subseteq Aud!OnDisk' \cup fate'.retired
    PROVE  Aud!AcknowledgedIsKept'
    BY DEF Aud!AuditInv, Aud!AcknowledgedIsKept

\* What a write of the file makes of the trail.
LEMMA TrailWith ==
    ASSUME trail \in Aud!Trail, NEW files \in Aud!Files, NEW active \in Seq(Nat),
           NEW lost \in SUBSET Nat, NEW n \in Nat
    PROVE  [trail EXCEPT !.backups = files, !.active = active, !.lost = lost, !.torn = FALSE,
                         !.rotations = n] \in Aud!Trail
    BY DEF Aud!Trail

\* The newest entries of a buffer.
LEMMA NewestType ==
    ASSUME NEW s \in Seq(Nat), NEW n \in Nat
    PROVE  Aud!Newest(s, n) \in Seq(Nat)
<1>1. CASE Len(s) <= n
    BY <1>1 DEF Aud!Newest
<1>2. CASE Len(s) > n
    <2>1. Len(s) - n + 1 \in 1..(Len(s) + 1) /\ Aud!Newest(s, n) = SubSeq(s, Len(s) - n + 1, Len(s))
        BY <1>2 DEF Aud!Newest
    <2>2. QED
        BY <2>1
<1>3. QED
    BY <1>1, <1>2

\* A rotation that has renamed the file, and pruned the backups or not: what it
\* takes away is retired.
LEMMA AuditRotates ==
    ASSUME Aud!AuditInv, NEW pruned \in BOOLEAN, NEW files,
           files = IF pruned THEN Aud!Pruned(Aud!Rotated) ELSE Aud!Rotated
    PROVE  /\ files \in Aud!Files /\ \A n \in DOMAIN files : n < trail.rotations + 1
           /\ Aud!InFiles(trail.backups) \cup Aud!Entries(trail.active)
                 \subseteq Aud!InFiles(files) \cup (IF pruned THEN Aud!PrunedEntries(Aud!Rotated) ELSE {})
    BY RotatedFiles, PrunedFiles

\* Every step of the backends keeps the invariant.
LEMMA AuditStep == Aud!AuditInv /\ [Aud!Next]_audVars => Aud!AuditInv'
<1> SUFFICES ASSUME Aud!AuditInv, [Aud!Next]_audVars PROVE Aud!AuditInv'
    OBVIOUS
<1>a. /\ trail \in Aud!Trail /\ trail.rotations \in Nat
      /\ \A name \in DOMAIN trail.backups : name < trail.rotations
    BY DEF Aud!AuditInv, Aud!Trail
<1>b. /\ store \in [Loggers -> [at : {"idle", "store", "buffer"}, entry : Nat]]
      /\ \A g \in Loggers : store[g].at # "idle" => store[g].entry > 0
    BY DEF Aud!AuditInv
<1>c. /\ DOMAIN fate = {"logged", "failures", "acked", "loud", "silent", "retired", "died"}
      /\ fate.logged \in Nat
    BY DEF Aud!AuditInv
<1> DEFINE StoreOK == /\ store' \in [Loggers -> [at : {"idle", "store", "buffer"}, entry : Nat]]
                      /\ \A g \in Loggers : store'[g].at # "idle" => store'[g].entry > 0
           FateOK == /\ DOMAIN fate' = {"logged", "failures", "acked", "loud", "silent", "retired", "died"}
                     /\ fate'.logged \in Nat
           HeldOK == /\ DOMAIN volatile' = {"buffer", "pending", "ring", "handle"}
                     /\ volatile'.buffer \in Seq(Nat) /\ volatile'.pending \in Seq(Nat)
           TrailOK == /\ trail' \in Aud!Trail /\ \A name \in DOMAIN trail'.backups : name < trail'.rotations
<1>v. /\ DOMAIN volatile = {"buffer", "pending", "ring", "handle"}
      /\ volatile.buffer \in Seq(Nat) /\ volatile.pending \in Seq(Nat)
    BY DEF Aud!AuditInv
<1>n. BufferSize \in Nat
    BY ServicesAssumption DEF Aud!AuditAssumption, ServicesAssumption
<1>d. ASSUME NEW g \in Loggers, Aud!Done(g) PROVE StoreOK
    BY <1>b, <1>d DEF Aud!Done, Aud!Idle
<1>e. ASSUME StoreOK, FateOK, HeldOK, TrailOK, Aud!AcknowledgedIsKept' PROVE Aud!AuditInv'
    BY <1>e DEF Aud!AuditInv
<1> HIDE DEF StoreOK
<1>1. ASSUME NEW g \in Loggers, Aud!Log(g) PROVE Aud!AuditInv'
    <2>1. StoreOK
        BY <1>1, <1>b, <1>c DEF Aud!Log, StoreOK
    <2>2. FateOK /\ fate'.acked = fate.acked /\ fate'.retired = fate.retired
        BY <1>1, <1>c DEF Aud!Log
    <2>3. TrailOK /\ HeldOK /\ trail' = trail
        BY <1>1, <1>a, <1>v DEF Aud!Log
    <2>4. QED
        BY <1>e, <2>1, <2>2, <2>3, AuditKeeps DEF Aud!OnDisk
\* The steps that leave the disk alone, or add to the table.
<1>2. ASSUME NEW rows \in SUBSET Nat, trail' = [trail EXCEPT !.table = @ \cup rows],
             StoreOK, FateOK, HeldOK, fate'.acked \subseteq fate.acked \cup rows,
             fate'.retired = fate.retired
      PROVE  Aud!AuditInv'
    <2>1. /\ trail' \in Aud!Trail /\ trail'.table = trail.table \cup rows /\ trail'.lost = trail.lost
          /\ trail'.active = trail.active /\ trail'.backups = trail.backups
          /\ trail'.rotations = trail.rotations
        BY <1>2, <1>a DEF Aud!Trail
    <2>2. Aud!OnDisk' = Aud!OnDisk \cup rows
        BY <2>1 DEF Aud!OnDisk
    <2>3. Aud!AcknowledgedIsKept'
        BY <1>2, <2>1, <2>2 DEF Aud!AuditInv, Aud!AcknowledgedIsKept
    <2>4. QED
        BY <1>2, <1>a, <1>e, <2>1, <2>3
<1>3. ASSUME UNCHANGED trail, StoreOK, FateOK, HeldOK, fate'.acked = fate.acked,
             fate.retired \subseteq fate'.retired
      PROVE  Aud!AuditInv'
    BY <1>3, <1>a, <1>e, AuditKeeps DEF Aud!OnDisk
<1>4. ASSUME NEW g \in Loggers, Aud!insertOne(g) PROVE Aud!AuditInv'
    <2>1. store[g].entry \in Nat
        BY <1>b
    <2>2. FateOK /\ fate'.acked = fate.acked \cup {store[g].entry} /\ fate'.retired = fate.retired
        BY <1>4, <1>c DEF Aud!insertOne
    <2>3. QED
        <3>1. StoreOK /\ HeldOK
            BY <1>4, <1>d, <1>v DEF Aud!insertOne
        <3>2. trail' = [trail EXCEPT !.table = @ \cup {store[g].entry}] /\ {store[g].entry} \in SUBSET Nat
            BY <1>4, <2>1 DEF Aud!insertOne
        <3>3. QED
            BY <1>2, <2>2, <3>1, <3>2
<1>5. ASSUME NEW g \in Loggers, Aud!InsertFails(g) PROVE Aud!AuditInv'
    <2>1. store[g].entry \in Nat
        BY <1>b
    <2>2. FateOK /\ fate'.acked = fate.acked /\ fate'.retired = fate.retired
        BY <1>5, <1>c DEF Aud!InsertFails
    <2>3. StoreOK
        BY <1>5, <1>b DEF Aud!InsertFails, StoreOK
    <2>4. QED
        <3>1. HeldOK
            BY <1>5, <1>v DEF Aud!InsertFails
        <3>2. PICK rows \in SUBSET Nat : trail' = [trail EXCEPT !.table = @ \cup rows]
            BY <1>5, <2>1 DEF Aud!InsertFails
        <3>3. fate'.acked \subseteq fate.acked \cup rows
            BY <2>2
        <3>4. QED
            BY <1>2, <2>2, <2>3, <3>1, <3>2, <3>3
<1>6. ASSUME NEW g \in Loggers, Aud!bufferEntry(g) \/ Aud!StoreRefused(g) \/ Aud!StoreMemory(g)
                                \/ Aud!StoreAfterClose(g)
      PROVE  Aud!AuditInv'
    <2>1. FateOK /\ fate'.acked = fate.acked /\ fate.retired \subseteq fate'.retired
        BY <1>6, <1>c DEF Aud!bufferEntry, Aud!StoreRefused, Aud!StoreMemory, Aud!StoreAfterClose
    <2>2. UNCHANGED trail /\ StoreOK
        BY <1>6, <1>d DEF Aud!bufferEntry, Aud!StoreRefused, Aud!StoreMemory, Aud!StoreAfterClose
    <2>3. HeldOK
        <3>1. Aud!Newest(Append(volatile.buffer, store[g].entry), BufferSize) \in Seq(Nat)
            <4>1. Append(volatile.buffer, store[g].entry) \in Seq(Nat)
                BY <1>b, <1>v
            <4>2. QED
                BY <1>n, <4>1, NewestType
        <3>2. QED
            BY <1>6, <1>v, <3>1
               DEF Aud!bufferEntry, Aud!StoreRefused, Aud!StoreMemory, Aud!StoreAfterClose
    <2>4. QED
        BY <1>3, <2>1, <2>2, <2>3
<1>7. CASE Aud!flushBuffer \/ Aud!Shutdown \/ UNCHANGED audVars
    <2>1. HeldOK
        BY <1>7, <1>v DEF Aud!flushBuffer, Aud!Shutdown, audVars
    <2>2. UNCHANGED <<trail, store, fate>>
        BY <1>7 DEF Aud!flushBuffer, Aud!Shutdown, audVars
    <2>3. QED
        BY <1>3, <1>b, <1>c, <2>1, <2>2 DEF StoreOK
<1>8. CASE Aud!flushInserts
    <2>1. Head(volatile.pending) \in Nat /\ Tail(volatile.pending) \in Seq(Nat)
        BY <1>8, <1>v DEF Aud!flushInserts
    <2>2. HeldOK
        BY <1>8, <1>v, <2>1 DEF Aud!flushInserts
    <2>3. QED
        <3>1. StoreOK /\ FateOK /\ fate' = fate
            BY <1>8, <1>b, <1>c DEF Aud!flushInserts, StoreOK
        <3>2. /\ trail' = [trail EXCEPT !.table = @ \cup {Head(volatile.pending)}]
              /\ {Head(volatile.pending)} \in SUBSET Nat
            BY <1>8, <2>1 DEF Aud!flushInserts
        <3>3. fate'.acked \subseteq fate.acked \cup {Head(volatile.pending)} /\ fate'.retired = fate.retired
            BY <3>1
        <3>4. QED
            BY <1>2, <2>2, <3>1, <3>2, <3>3
<1>9. CASE Aud!flushFails
    <2>1. Aud!Newest(volatile.pending \o volatile.buffer, BufferSize) \in Seq(Nat)
        <3>1. volatile.pending \o volatile.buffer \in Seq(Nat)
            BY <1>v
        <3>2. QED
            BY <1>n, <3>1, NewestType
    <2>2. HeldOK
        BY <1>9, <1>v, <2>1 DEF Aud!flushFails
    <2>3. FateOK /\ fate'.acked = fate.acked /\ fate'.retired = fate.retired
        BY <1>9, <1>c DEF Aud!flushFails
    <2>4. QED
        BY <1>3, <1>9, <1>b, <2>2, <2>3 DEF Aud!flushFails, StoreOK
\* The file
<1>10. ASSUME NEW g \in Loggers, Aud!StoreFile(g) PROVE Aud!AuditInv'
    <2> DEFINE e == store[g].entry
    <2>1. e \in Nat /\ e > 0 /\ StoreOK /\ HeldOK
        BY <1>10, <1>b, <1>d, <1>v DEF Aud!StoreFile
    <2>2. FateOK /\ fate'.acked = fate.acked \cup {e}
        BY <1>10, <1>c DEF Aud!StoreFile
    <2>3. CASE Aud!NeedsRotation
        <3> DEFINE files == Aud!Pruned(Aud!Rotated)
        <3>1. /\ files \in Aud!Files /\ \A n \in DOMAIN files : n < trail.rotations + 1
              /\ Aud!InFiles(trail.backups) \cup Aud!Entries(trail.active)
                    \subseteq Aud!InFiles(files) \cup Aud!PrunedEntries(Aud!Rotated)
            BY RotatedFiles, PrunedFiles
        <3>2. /\ fate'.retired = fate.retired \cup Aud!PrunedEntries(Aud!Rotated)
              /\ trail' = [trail EXCEPT !.backups = files, !.active = <<e>>, !.lost = trail.lost,
                                        !.torn = FALSE, !.rotations = trail.rotations + 1]
            BY <1>10, <1>c, <2>3 DEF Aud!StoreFile
        <3> HIDE DEF files, e
        <3>3. /\ trail'.table = trail.table /\ trail'.backups = files /\ trail'.active = <<e>>
              /\ trail'.lost = trail.lost /\ trail'.rotations = trail.rotations + 1
            BY <1>a, <3>2 DEF Aud!Trail
        <3>4. trail' \in Aud!Trail
            <4>1. <<e>> \in Seq(Nat)
                BY <2>1
            <4>2. trail.rotations + 1 \in Nat /\ trail.lost \in SUBSET Nat
                BY <1>a DEF Aud!Trail
            <4>3. QED
                BY <1>a, <3>1, <3>2, <4>1, <4>2, TrailWith
        <3>5. Aud!Entries(<<e>>) = {e}
            BY <2>1 DEF Aud!Entries, Aud!Range
        <3>6. Aud!AcknowledgedIsKept'
            BY <2>2, <3>1, <3>2, <3>3, <3>5 DEF Aud!AuditInv, Aud!AcknowledgedIsKept, Aud!OnDisk
        <3>7. QED
            BY <1>e, <2>1, <2>2, <3>1, <3>3, <3>4, <3>6
    <2>4. CASE ~Aud!NeedsRotation
        <3> DEFINE line == IF trail.torn THEN 0 ELSE e
        <3>1. /\ fate'.retired = fate.retired
              /\ trail' = [trail EXCEPT !.backups = trail.backups, !.active = Append(trail.active, line),
                                        !.lost = IF trail.torn THEN trail.lost \cup {e} ELSE trail.lost,
                                        !.torn = FALSE, !.rotations = trail.rotations]
            BY <1>10, <1>c, <2>4 DEF Aud!StoreFile, Aud!Written
        <3>2. line \in Nat /\ trail.active \in Seq(Nat)
            BY <1>a, <2>1 DEF Aud!Trail
        <3>3. /\ trail'.table = trail.table /\ trail'.backups = trail.backups
              /\ trail'.active = Append(trail.active, line) /\ trail'.rotations = trail.rotations
              /\ trail'.lost = IF trail.torn THEN trail.lost \cup {e} ELSE trail.lost
            BY <1>a, <3>1 DEF Aud!Trail
        <3>4. trail' \in Aud!Trail
            <4>1. /\ Append(trail.active, line) \in Seq(Nat) /\ trail.backups \in Aud!Files
                  /\ (IF trail.torn THEN trail.lost \cup {e} ELSE trail.lost) \in SUBSET Nat
                BY <1>a, <2>1, <3>2 DEF Aud!Trail
            <4> HIDE DEF line, e
            <4>2. QED
                BY <1>a, <3>1, <4>1, TrailWith
        <3>5. Aud!Entries(trail'.active) = Aud!Entries(trail.active) \cup ({line} \ {0})
            BY <3>2, <3>3, EntriesAppend
        <3>6. Aud!AcknowledgedIsKept'
            BY <2>1, <2>2, <3>1, <3>3, <3>5 DEF Aud!AuditInv, Aud!AcknowledgedIsKept, Aud!OnDisk
        <3>7. QED
            BY <1>a, <1>e, <2>1, <2>2, <3>3, <3>4, <3>6
    <2>5. QED
        BY <2>3, <2>4
<1>11. ASSUME NEW g \in Loggers, Aud!RotateFails(g) PROVE Aud!AuditInv'
    <2>1. StoreOK /\ HeldOK
        BY <1>11, <1>d, <1>v DEF Aud!RotateFails
    <2>2. PICK renamed, pruned \in BOOLEAN :
              /\ pruned => renamed
              /\ trail' = [trail EXCEPT
                     !.backups = IF pruned THEN Aud!Pruned(Aud!Rotated) ELSE IF renamed THEN Aud!Rotated ELSE @,
                     !.rotations = IF renamed THEN @ + 1 ELSE @,
                     !.active = IF renamed THEN <<>> ELSE @,
                     !.torn = ~renamed /\ @]
              /\ fate' = [fate EXCEPT !.failures = @ + 1, !.loud = @ \cup {store[g].entry},
                     !.retired = @ \cup (IF pruned THEN Aud!PrunedEntries(Aud!Rotated) ELSE {})]
        BY <1>11 DEF Aud!RotateFails
    <2>3. /\ FateOK /\ fate'.acked = fate.acked
          /\ fate'.retired = fate.retired \cup (IF pruned THEN Aud!PrunedEntries(Aud!Rotated) ELSE {})
        BY <1>c, <2>2
    <2>4. CASE ~renamed
        <3>1. /\ trail' \in Aud!Trail /\ trail'.table = trail.table /\ trail'.backups = trail.backups
              /\ trail'.active = trail.active /\ trail'.rotations = trail.rotations
              /\ trail'.lost = trail.lost
            BY <1>a, <2>2, <2>4 DEF Aud!Trail
        <3>2. QED
            BY <1>a, <1>e, <2>1, <2>3, <3>1, AuditKeeps DEF Aud!OnDisk
    <2>5. CASE renamed
        <3> DEFINE files == IF pruned THEN Aud!Pruned(Aud!Rotated) ELSE Aud!Rotated
        <3>1. /\ files \in Aud!Files /\ \A n \in DOMAIN files : n < trail.rotations + 1
              /\ Aud!InFiles(trail.backups) \cup Aud!Entries(trail.active)
                    \subseteq Aud!InFiles(files) \cup (IF pruned THEN Aud!PrunedEntries(Aud!Rotated) ELSE {})
            BY AuditRotates
        <3>2. trail' = [trail EXCEPT !.backups = files, !.rotations = trail.rotations + 1,
                                     !.active = <<>>, !.torn = FALSE]
            BY <1>a, <2>2, <2>5 DEF Aud!Trail
        <3> HIDE DEF files
        <3>3. /\ trail'.table = trail.table /\ trail'.backups = files /\ trail'.active = <<>>
              /\ trail'.lost = trail.lost /\ trail'.rotations = trail.rotations + 1
            BY <1>a, <3>2 DEF Aud!Trail
        <3>4. trail' \in Aud!Trail
            <4>1. <<>> \in Seq(Nat)
                OBVIOUS
            <4>2. trail.rotations + 1 \in Nat
                BY <1>a
            <4>3. QED
                BY <1>a, <3>1, <3>2, <4>1, <4>2 DEF Aud!Trail
        <3>5. Aud!OnDisk \subseteq Aud!OnDisk' \cup fate'.retired
            BY <2>3, <3>1, <3>3 DEF Aud!OnDisk
        <3>6. QED
            BY <1>e, <2>1, <2>3, <3>1, <3>3, <3>4, <3>5, AuditKeeps
    <2>6. QED
        BY <2>2, <2>4, <2>5
<1>12. ASSUME NEW g \in Loggers, Aud!WriteFails(g) PROVE Aud!AuditInv'
    <2>1. store[g].entry \in Nat /\ StoreOK /\ HeldOK
        BY <1>12, <1>b, <1>d, <1>v DEF Aud!WriteFails
    <2>2. FateOK /\ fate'.acked = fate.acked /\ fate'.retired = fate.retired
        BY <1>12, <1>c DEF Aud!WriteFails
    <2>3. \/ trail' = [trail EXCEPT !.torn = TRUE]
          \/ \E line \in Nat : trail' = [trail EXCEPT !.active = Append(trail.active, line), !.torn = FALSE]
        <3>1. CASE trail' = [trail EXCEPT !.torn = TRUE]
            BY <3>1
        <3>2. CASE trail' = [trail EXCEPT !.active = Aud!Written(@, store[g].entry).active, !.torn = FALSE]
            <4>1. Aud!Written(trail.active, store[g].entry).active =
                      Append(trail.active, IF trail.torn THEN 0 ELSE store[g].entry)
                BY DEF Aud!Written
            <4>2. QED
                BY <2>1, <3>2, <4>1
        <3>3. QED
            BY <1>12, <3>1, <3>2 DEF Aud!WriteFails
    <2>4. /\ trail' \in Aud!Trail /\ trail'.table = trail.table /\ trail'.backups = trail.backups
          /\ trail'.rotations = trail.rotations /\ trail'.lost = trail.lost
          /\ \/ trail'.active = trail.active
             \/ \E line \in Nat : trail'.active = Append(trail.active, line)
        <3>1. CASE trail' = [trail EXCEPT !.torn = TRUE]
            BY <1>a, <3>1 DEF Aud!Trail
        <3>2. ASSUME NEW line \in Nat,
                     trail' = [trail EXCEPT !.active = Append(trail.active, line), !.torn = FALSE]
              PROVE  /\ trail' \in Aud!Trail /\ trail'.table = trail.table
                     /\ trail'.backups = trail.backups /\ trail'.rotations = trail.rotations
                     /\ trail'.lost = trail.lost /\ trail'.active = Append(trail.active, line)
            <4>1. Append(trail.active, line) \in Seq(Nat)
                BY <1>a DEF Aud!Trail
            <4>2. QED
                BY <1>a, <3>2, <4>1 DEF Aud!Trail
        <3>3. QED
            BY <2>3, <3>1, <3>2
    <2>5. Aud!Entries(trail.active) \subseteq Aud!Entries(trail'.active)
        BY <1>a, <2>4, EntriesAppend DEF Aud!Trail
    <2>6. QED
        BY <1>a, <1>e, <2>1, <2>2, <2>4, <2>5, AuditKeeps DEF Aud!OnDisk
\* Retention and the life of the process
<1>13. CASE Aud!Cleanup
    <2>1. PICK cutoff \in 2..fate.logged :
              LET old == {name \in DOMAIN trail.backups : Aud!Aged(trail.backups[name], cutoff)}
              IN  /\ trail' = [trail EXCEPT !.table = {e \in @ : e >= cutoff},
                                            !.backups = Aud!Restrict(@, DOMAIN @ \ old)]
                  /\ fate' = [fate EXCEPT !.retired = @ \cup {e \in trail.table : e < cutoff}
                            \cup {e \in Aud!Entries(volatile.ring) : e < cutoff}
                            \cup {e \in Aud!InFiles(Aud!Restrict(trail.backups, old)) : e < cutoff}]
        BY <1>13 DEF Aud!Cleanup
    <2> DEFINE old == {name \in DOMAIN trail.backups : Aud!Aged(trail.backups[name], cutoff)}
               kept == Aud!Restrict(trail.backups, DOMAIN trail.backups \ old)
               removed == Aud!Restrict(trail.backups, old)
    <2>2. StoreOK /\ HeldOK
        <3>1. store' = store
            BY <1>13 DEF Aud!Cleanup
        <3>2. \E r : volatile' = [volatile EXCEPT !.ring = r]
            BY <1>13 DEF Aud!Cleanup
        <3>3. QED
            BY <1>b, <1>v, <3>1, <3>2 DEF StoreOK
    <2>3. /\ FateOK /\ fate'.acked = fate.acked /\ fate.retired \subseteq fate'.retired
          /\ {e \in trail.table : e < cutoff} \subseteq fate'.retired
          /\ {e \in Aud!InFiles(removed) : e < cutoff} \subseteq fate'.retired
        BY <1>c, <2>1
    <2>4. /\ kept \in Aud!Files /\ DOMAIN kept = DOMAIN trail.backups \ old
          /\ \A n \in DOMAIN kept : kept[n] = trail.backups[n]
          /\ DOMAIN removed = old /\ \A n \in old : removed[n] = trail.backups[n]
        BY <1>a, RestrictType DEF Aud!Trail
    <2>5. trail' = [trail EXCEPT !.table = {e \in trail.table : e >= cutoff}, !.backups = kept]
        BY <2>1
    <2>6. Aud!InFiles(trail.backups) \subseteq Aud!InFiles(kept) \cup fate'.retired
        <3> SUFFICES ASSUME NEW n \in DOMAIN trail.backups, NEW e \in Aud!Entries(trail.backups[n])
                     PROVE  e \in Aud!InFiles(kept) \cup fate'.retired
            BY DEF Aud!InFiles
        <3>1. CASE n \in old
            <4>1. e < cutoff
                BY <3>1 DEF Aud!Aged
            <4>2. e \in Aud!InFiles(removed)
                BY <2>4, <3>1 DEF Aud!InFiles
            <4>3. QED
                BY <2>3, <4>1, <4>2
        <3>2. CASE n \notin old
            BY <2>4, <3>2 DEF Aud!InFiles
        <3>3. QED
            BY <3>1, <3>2
    <2> HIDE DEF kept, old, removed
    <2>7. /\ trail'.table = {e \in trail.table : e >= cutoff} /\ trail'.backups = kept
          /\ trail'.active = trail.active /\ trail'.lost = trail.lost
          /\ trail'.rotations = trail.rotations
        BY <1>a, <2>5 DEF Aud!Trail
    <2>8. trail' \in Aud!Trail
        BY <1>a, <2>4, <2>5 DEF Aud!Trail
    <2>9. trail.table \subseteq trail'.table \cup fate'.retired
        <3>1. trail.table \subseteq Nat /\ cutoff \in Nat
            BY <1>a, <1>c DEF Aud!Trail
        <3>2. QED
            BY <2>3, <2>7, <3>1
    <2>10. Aud!OnDisk \subseteq Aud!OnDisk' \cup fate'.retired
        BY <2>6, <2>7, <2>9 DEF Aud!OnDisk
    <2>11. TrailOK
        BY <1>a, <2>4, <2>7, <2>8
    <2>12. QED
        BY <1>e, <2>2, <2>3, <2>7, <2>10, <2>11, AuditKeeps
<1>14. CASE Aud!Crash
    <2>1. PICK cut \in BOOLEAN : trail' = [trail EXCEPT !.torn = @ \/ cut]
        BY <1>14 DEF Aud!Crash
    <2>2. /\ trail' \in Aud!Trail /\ trail'.table = trail.table /\ trail'.backups = trail.backups
          /\ trail'.active = trail.active /\ trail'.rotations = trail.rotations
          /\ trail'.lost = trail.lost
        BY <1>a, <2>1 DEF Aud!Trail
    <2>3. FateOK /\ fate'.acked = fate.acked /\ fate'.retired = fate.retired
        BY <1>14, <1>c DEF Aud!Crash
    <2>4. StoreOK /\ HeldOK
        BY <1>14 DEF Aud!Crash, Aud!Idle, StoreOK
    <2>5. QED
        BY <1>a, <1>e, <2>2, <2>3, <2>4, AuditKeeps DEF Aud!OnDisk
<1>15. QED
    BY <1>1, <1>4, <1>5, <1>6, <1>7, <1>8, <1>9, <1>10, <1>11, <1>12, <1>13, <1>14 DEF Aud!Next

-----------------------------------------------------------------------------
(* The providers and the agent *)

\* A message behind those of the channel.
LEMMA BufferAppend ==
    ASSUME NEW b \in Seq(Prv!Message), NEW x \in Prv!Message,
           \A i \in DOMAIN b : b[i].as \in {"content", "thought"} => b[i].as = b[i].is,
           x.as \in {"content", "thought"} => x.as = x.is
    PROVE  /\ Append(b, x) \in Seq(Prv!Message)
           /\ \A i \in DOMAIN Append(b, x) :
                 Append(b, x)[i].as \in {"content", "thought"} => Append(b, x)[i].as = Append(b, x)[i].is
<1>1. /\ DOMAIN Append(b, x) = 1..(Len(b) + 1) /\ DOMAIN b = 1..Len(b) /\ Len(b) \in Nat
      /\ Append(b, x)[Len(b) + 1] = x /\ \A i \in 1..Len(b) : Append(b, x)[i] = b[i]
    OBVIOUS
<1>2. Append(b, x) \in Seq(Prv!Message)
    OBVIOUS
<1>3. \A i \in 1..(Len(b) + 1) : i = Len(b) + 1 \/ i \in 1..Len(b)
    BY <1>1
<1>4. QED
    BY <1>1, <1>2, <1>3

\* The channel after a step of the stream: as it was, without its first, or with
\* a message that says what it is.
LEMMA FlowKeeps ==
    ASSUME Prv!FlowInv, DOMAIN flow' = DOMAIN flow, flow'.thinking \in BOOLEAN,
           flow'.insideThinkTag = flow'.thinking,
           \/ flow'.buffer \in {flow.buffer, <<>>}
           \/ flow.buffer # <<>> /\ flow'.buffer = Tail(flow.buffer)
           \/ \E x \in Prv!Message :
                 /\ flow'.buffer = Append(flow.buffer, x)
                 /\ x.as \in {"content", "thought"} => x.as = x.is
    PROVE  Prv!FlowInv'
<1> DEFINE b == flow.buffer
<1>1. /\ b \in Seq(Prv!Message)
      /\ \A i \in DOMAIN b : b[i].as \in {"content", "thought"} => b[i].as = b[i].is
    BY DEF Prv!FlowInv, Prv!ThoughtsAreKeptApart
<1> SUFFICES /\ flow'.buffer \in Seq(Prv!Message)
             /\ \A i \in DOMAIN flow'.buffer :
                   flow'.buffer[i].as \in {"content", "thought"} => flow'.buffer[i].as = flow'.buffer[i].is
    BY DEF Prv!FlowInv, Prv!ThoughtsAreKeptApart
<1> HIDE DEF b
<1>2. CASE flow'.buffer = b
    BY <1>1, <1>2
<1>3. CASE flow'.buffer = <<>>
    BY <1>3
<1>4. CASE b # <<>> /\ flow'.buffer = Tail(b)
    <2>1. /\ Tail(b) \in Seq(Prv!Message) /\ DOMAIN Tail(b) = 1..(Len(b) - 1)
          /\ \A i \in 1..(Len(b) - 1) : Tail(b)[i] = b[i + 1] /\ i + 1 \in DOMAIN b
        BY <1>1, <1>4
    <2>2. QED
        BY <1>1, <1>4, <2>1
<1>5. ASSUME NEW x \in Prv!Message, flow'.buffer = Append(b, x),
             x.as \in {"content", "thought"} => x.as = x.is
      PROVE  /\ flow'.buffer \in Seq(Prv!Message)
             /\ \A i \in DOMAIN flow'.buffer :
                   flow'.buffer[i].as \in {"content", "thought"} => flow'.buffer[i].as = flow'.buffer[i].is
    <2> DEFINE c == Append(b, x)
    <2>1. /\ c \in Seq(Prv!Message)
          /\ \A i \in DOMAIN c : c[i].as \in {"content", "thought"} => c[i].as = c[i].is
        BY <1>1, <1>5, BufferAppend
    <2>2. flow'.buffer = c
        BY <1>5
    <2> HIDE DEF c
    <2>3. QED
        BY <2>1, <2>2
<1>6. QED
    BY <1>2, <1>3, <1>4, <1>5 DEF b

\* The stream is empty at first.
LEMMA FlowInit == Prv!Init => Prv!FlowInv
    BY DEF Prv!Init, Prv!NoFlow, Prv!FlowInv, Prv!ThoughtsAreKeptApart

\* A chunk whose tags are its own.
LEMMA FlowChunk ==
    ASSUME Prv!FlowInv, NEW chunk \in Chunks, "both" \notin Chunks, Prv!ReadsLine(chunk)
    PROVE  Prv!FlowInv'
<1>1. /\ DOMAIN flow = {"at", "provider", "buffer", "insideThinkTag", "thinking", "reader"}
      /\ flow.thinking \in BOOLEAN /\ flow.insideThinkTag = flow.thinking
    BY DEF Prv!FlowInv
<1>2. chunk \in {"text", "open", "close", "tool", "arguments"}
    BY ServicesAssumption DEF ServicesAssumption, Prv!ProviderAssumption
<1>3. CASE flow' = Prv!ProcessChunk(flow, chunk) /\ chunk \in {"open", "close"}
    BY <1>1, <1>3, FlowKeeps DEF Prv!ProcessChunk
<1>4. CASE flow' = Prv!ProcessChunk(flow, chunk) /\ chunk = "text"
    <2> DEFINE x == [as |-> IF flow.insideThinkTag THEN "thought" ELSE "content",
                     is |-> IF flow.thinking THEN "thought" ELSE "content"]
    <2>1. flow' = [flow EXCEPT !.buffer = Append(flow.buffer, x)]
        BY <1>4 DEF Prv!ProcessChunk, Prv!Sent
    <2>2. x \in Prv!Message /\ x.as = x.is
        BY <1>1 DEF Prv!Message, Prv!Marks
    <2> HIDE DEF x
    <2>3. QED
        BY <1>1, <2>1, <2>2, FlowKeeps
<1>5. CASE flow' = Prv!Fragment(flow, chunk) /\ chunk \in {"tool", "arguments"}
    <2> DEFINE x == [as |-> chunk, is |-> chunk]
    <2>1. flow' = [flow EXCEPT !.buffer = Append(flow.buffer, x)]
        BY <1>5 DEF Prv!Fragment
    <2>2. x \in Prv!Message /\ x.as = x.is
        BY <1>5 DEF Prv!Message, Prv!Marks
    <2> HIDE DEF x
    <2>3. QED
        BY <1>1, <2>1, <2>2, FlowKeeps
<1>6. CASE flow' = flow
    BY <1>1, <1>6, FlowKeeps
<1>7. IF chunk \in {"text", "open", "close"} THEN flow' = Prv!ProcessChunk(flow, chunk)
      ELSE flow' \in {flow, Prv!Fragment(flow, chunk)}
    BY <1>2 DEF Prv!ReadsLine, Prv!ClaudeReads, Prv!OllamaReads, Prv!ProcessOpenAIStreamResponse, Prv!Texts
<1>8. QED
    BY <1>2, <1>3, <1>4, <1>5, <1>6, <1>7

\* Every step of the stream keeps the invariant.
LEMMA FlowStep ==
    ASSUME "both" \notin Chunks
    PROVE  Prv!FlowInv /\ [Prv!Next]_prvVars => Prv!FlowInv'
<1> SUFFICES ASSUME Prv!FlowInv, [Prv!Next]_prvVars PROVE Prv!FlowInv'
    OBVIOUS
<1>1. /\ DOMAIN flow = {"at", "provider", "buffer", "insideThinkTag", "thinking", "reader"}
      /\ flow.thinking \in BOOLEAN /\ flow.insideThinkTag = flow.thinking
    BY DEF Prv!FlowInv
<1>2. CASE flow' = flow
    BY <1>1, <1>2, FlowKeeps
<1>3. ASSUME NEW p, Prv!StartFlow(p) PROVE Prv!FlowInv'
    BY <1>1, <1>3, FlowKeeps DEF Prv!StartFlow, Prv!NoFlow
<1>4. ASSUME NEW ok \in BOOLEAN, Prv!Request(ok) PROVE Prv!FlowInv'
    <2> DEFINE x == [as |-> "error", is |-> "error"]
    <2>1. x \in Prv!Message /\ x.as = x.is
        BY DEF Prv!Message, Prv!Marks
    <2>2. \/ flow' = [flow EXCEPT !.at = "reading"]
          \/ flow' = [flow EXCEPT !.at = "closed", !.buffer = Append(flow.buffer, x)]
        BY <1>4 DEF Prv!Request
    <2> HIDE DEF x
    <2>3. QED
        BY <1>1, <2>1, <2>2, FlowKeeps
<1>5. ASSUME NEW last \in {"finished", "error", "end"}, Prv!StreamStops(last) PROVE Prv!FlowInv'
    <2> DEFINE x == [as |-> last, is |-> last]
    <2>1. last # "end" => x \in Prv!Message /\ x.as = x.is
        BY DEF Prv!Message, Prv!Marks
    <2>2. \/ flow' = [flow EXCEPT !.at = "closed", !.buffer = flow.buffer]
          \/ last # "end" /\ flow' = [flow EXCEPT !.at = "closed", !.buffer = Append(flow.buffer, x)]
        BY <1>5 DEF Prv!StreamStops
    <2> HIDE DEF x
    <2>3. QED
        BY <1>1, <2>1, <2>2, FlowKeeps
<1>6. CASE Prv!ReaderTakes \/ Prv!ReaderLeaves
    BY <1>1, <1>6, FlowKeeps DEF Prv!ReaderTakes, Prv!ReaderLeaves
<1>7. CASE Prv!Chat
    BY <1>2, <1>3, <1>7 DEF Prv!Chat, Prv!StreamChatWithFallback, Prv!TryFallback, Prv!NoFallback
<1>8. CASE \E p \in Providers : Prv!ProviderChanges(p) \/ Prv!SwitchProvider(p)
    BY <1>2, <1>8 DEF Prv!ProviderChanges, Prv!SwitchProvider
<1>9. CASE Prv!checkHealth \/ Prv!checkHealthSets \/ UNCHANGED prvVars
    BY <1>2, <1>9 DEF Prv!checkHealth, Prv!checkHealthSets, prvVars
<1>10. QED
    BY <1>4, <1>5, <1>6, <1>7, <1>8, <1>9, FlowChunk DEF Prv!Next, Prv!Stops

\* The Cardinality of AgentRunner is that of FiniteSets.
LEMMA AgtCardinality == \A S : Agt!Cardinality(S) = Cardinality(S)
    BY DEF Agt!Cardinality, Cardinality

\* The model has been told nothing at first.
LEMMA AgentInit == Agt!Init => Agt!AgentInv
<1> SUFFICES ASSUME Agt!Init PROVE Agt!AgentInv
    OBVIOUS
<1>1. {i \in DOMAIN ran : ran[i] # "result"} = {}
    BY DEF Agt!Init
<1>2. Cardinality({i \in DOMAIN ran : ran[i] # "result"}) = 0
    BY <1>1, FS_EmptySet
<1>3. QED
    <2>1. errors = 0 /\ errors >= Agt!Cardinality({i \in DOMAIN ran : ran[i] # "result"})
        BY <1>2, AgtCardinality DEF Agt!Init
    <2>2. MaxTools \in Nat /\ 0 \in 0..MaxTools
        BY ServicesAssumption DEF ServicesAssumption, Agt!AgentAssumption
    <2>3. Agt!ModelIsToldTheTruth
        BY <2>1, <2>2 DEF Agt!Init, Agt!ModelIsToldTheTruth
    <2>4. /\ agent \in [pc : {"called", "refused", "loop", "asking", "answered", "done", "returned"},
                       turn : Nat, tools : 0 .. MaxTools, calls : Seq({"call", "unparsable"}),
                       completed : BOOLEAN]
          /\ Len(ran) = agent.tools /\ history \in Seq({"failed", "used"}) /\ ran \in Seq(Agt!Outcomes)
        BY <2>2 DEF Agt!Init
    <2>5. QED
        BY <2>1, <2>3, <2>4 DEF Agt!Init, Agt!AgentInv

\* A tool that was executed: the history, the errors and what it returned grow
\* together.
LEMMA ToolIsTold ==
    ASSUME Agt!AgentInv, NEW outcome \in Agt!Outcomes, agent.tools < MaxTools,
           ran' = Append(ran, outcome), agent'.tools = agent.tools + 1,
           history' = Append(history, IF Agt!Failed(outcome) THEN "failed" ELSE "used"),
           errors' = IF Agt!Failed(outcome) THEN errors + 1 ELSE errors
    PROVE  /\ history' \in Seq({"failed", "used"}) /\ ran' \in Seq(Agt!Outcomes) /\ errors' \in Nat
           /\ Len(ran') = agent'.tools /\ Agt!ModelIsToldTheTruth'
<1> DEFINE failed == {i \in DOMAIN ran : ran[i] # "result"}
           n == Len(ran)
           nowFailed == {i \in DOMAIN ran' : ran'[i] # "result"}
<1>1. /\ n \in Nat /\ n = agent.tools /\ Len(history) = n /\ DOMAIN ran = 1..n /\ MaxTools \in Nat
      /\ history \in Seq({"failed", "used"}) /\ ran \in Seq(Agt!Outcomes) /\ errors \in Nat
      /\ agent.tools \in 0..MaxTools /\ errors >= Cardinality(failed)
    BY ServicesAssumption, AgtCardinality
       DEF Agt!AgentInv, Agt!ModelIsToldTheTruth, ServicesAssumption, Agt!AgentAssumption
<1>2. Agt!Failed(outcome) <=> outcome # "result"
    BY DEF Agt!Failed, Agt!Outcomes
<1>3. /\ ran' \in Seq(Agt!Outcomes) /\ history' \in Seq({"failed", "used"})
      /\ Len(ran') = n + 1 /\ Len(history') = n + 1 /\ DOMAIN ran' = 1..(n + 1)
      /\ ran'[n + 1] = outcome /\ \A i \in 1..n : ran'[i] = ran[i] /\ history'[i] = history[i]
      /\ history'[n + 1] = IF Agt!Failed(outcome) THEN "failed" ELSE "used"
    BY <1>1
<1>4. \A i \in DOMAIN ran' : (history'[i] = "used") <=> (ran'[i] = "result")
    <2>1. \A i \in 1..n : (history[i] = "used") <=> (ran[i] = "result")
        BY <1>1 DEF Agt!AgentInv, Agt!ModelIsToldTheTruth
    <2>2. \A i \in 1..(n + 1) : i = n + 1 \/ i \in 1..n
        BY <1>1
    <2>3. QED
        BY <1>2, <1>3, <2>1, <2>2
<1>5. IsFiniteSet(failed) /\ Cardinality(failed) \in Nat /\ n + 1 \notin failed
    <2>1. IsFiniteSet(1..n) /\ failed \subseteq 1..n
        BY <1>1, FS_Interval
    <2>2. IsFiniteSet(failed)
        BY <2>1, FS_Subset
    <2>3. QED
        BY <1>1, <2>2, FS_CardinalityType
<1>6. nowFailed = IF outcome = "result" THEN failed ELSE failed \cup {n + 1}
    <2>1. \A i \in 1..(n + 1) : i = n + 1 \/ i \in 1..n
        BY <1>1
    <2>2. 1..n \subseteq 1..(n + 1) /\ n + 1 \in 1..(n + 1)
        BY <1>1
    <2>3. QED
        BY <1>1, <1>3, <2>1, <2>2
<1>7. Cardinality(failed \cup {n + 1}) = Cardinality(failed) + 1
    BY <1>5, FS_AddElement
<1> HIDE DEF failed, nowFailed
<1>8. errors' >= Cardinality(nowFailed) /\ errors' \in Nat
    <2> HIDE DEF n
    <2>1. CASE outcome = "result"
        BY <1>1, <1>2, <1>5, <1>6, <2>1
    <2>2. CASE outcome # "result"
        <3>1. errors' = errors + 1
            BY <1>2, <2>2
        <3>2. Cardinality(nowFailed) = Cardinality(failed) + 1
            BY <1>6, <1>7, <2>2
        <3>3. QED
            BY <1>1, <1>5, <3>1, <3>2
    <2>3. QED
        BY <2>1, <2>2
<1>9. Len(ran') = agent'.tools /\ Len(ran') <= MaxTools
    BY <1>1, <1>3
<1>10. QED
    BY <1>3, <1>4, <1>8, <1>9, AgtCardinality DEF Agt!ModelIsToldTheTruth, nowFailed

\* Every step of the agent keeps the invariant.
LEMMA AgentStep == Agt!AgentInv /\ [Agt!Next]_agtVars => Agt!AgentInv'
<1> SUFFICES ASSUME Agt!AgentInv, [Agt!Next]_agtVars PROVE Agt!AgentInv'
    OBVIOUS
<1> DEFINE AgentOK == agent' \in [pc : {"called", "refused", "loop", "asking", "answered", "done", "returned"},
                                  turn : Nat, tools : 0 .. MaxTools, calls : Seq({"call", "unparsable"}),
                                  completed : BOOLEAN]
<1>1. CASE UNCHANGED <<history, ran, expired>> /\ errors' \in Nat /\ errors' >= errors
           /\ AgentOK /\ agent'.tools = agent.tools
    <2>1. errors' >= Cardinality({i \in DOMAIN ran : ran[i] # "result"})
        <3>1. IsFiniteSet({i \in DOMAIN ran : ran[i] # "result"})
            <4>1. IsFiniteSet(1..Len(ran)) /\ {i \in DOMAIN ran : ran[i] # "result"} \subseteq 1..Len(ran)
                BY FS_Interval DEF Agt!AgentInv
            <4>2. QED
                BY <4>1, FS_Subset
        <3>2. Cardinality({i \in DOMAIN ran : ran[i] # "result"}) \in Nat
            BY <3>1, FS_CardinalityType
        <3>3. QED
            BY <1>1, <3>2, AgtCardinality DEF Agt!AgentInv, Agt!ModelIsToldTheTruth
    <2>2. QED
        BY <1>1, <2>1, AgtCardinality DEF Agt!AgentInv, Agt!ModelIsToldTheTruth
<1>2. CASE Agt!executeAgent \/ Agt!BeginTurn \/ Agt!EndTurn \/ Agt!Return
    <2>1. AgentOK /\ agent'.tools = agent.tools
        <3>1. CASE Agt!executeAgent
            BY <3>1 DEF Agt!executeAgent, Agt!AgentInv
        <3>2. CASE Agt!BeginTurn
            BY <3>2 DEF Agt!BeginTurn, Agt!AgentInv
        <3>3. CASE Agt!EndTurn
            <4>1. agent.turn + 1 \in Nat
                BY DEF Agt!AgentInv
            <4>2. QED
                BY <3>3, <4>1 DEF Agt!EndTurn, Agt!AgentInv
        <3>4. CASE Agt!Return
            BY <3>4 DEF Agt!Return, Agt!AgentInv
        <3>5. QED
            BY <1>2, <3>1, <3>2, <3>3, <3>4
    <2>2. QED
        BY <1>1, <1>2, <2>1 DEF Agt!executeAgent, Agt!BeginTurn, Agt!EndTurn, Agt!Return, Agt!AgentInv
<1>3. CASE Agt!Expire
    BY <1>3 DEF Agt!Expire, Agt!AgentInv, Agt!ModelIsToldTheTruth
<1>4. CASE Agt!callOpenRouterGateway
    <2>1. Agt!Calls \subseteq Seq({"call", "unparsable"})
        BY ServicesAssumption DEF ServicesAssumption, Agt!AgentAssumption, Agt!Calls
    <2>2. AgentOK /\ agent'.tools = agent.tools
        BY <1>4, <2>1 DEF Agt!callOpenRouterGateway, Agt!AgentInv
    <2>3. QED
        <3>1. errors' \in Nat /\ errors' >= errors
            <4>1. errors \in Nat /\ errors' \in {errors, errors + 1}
                BY <1>4 DEF Agt!callOpenRouterGateway, Agt!AgentInv
            <4>2. QED
                BY <4>1
        <3>2. QED
            BY <1>1, <1>4, <2>2, <3>1 DEF Agt!callOpenRouterGateway
<1>5. CASE Agt!executeRealLLMAgent
    <2>1. <<>> \in Seq({"call", "unparsable"}) /\ Tail(agent.calls) \in Seq({"call", "unparsable"})
        BY <1>5 DEF Agt!executeRealLLMAgent, Agt!AgentInv
    <2>2. CASE UNCHANGED <<history, errors, ran>> /\ agent' \in {[agent EXCEPT !.calls = <<>>],
                                                                 [agent EXCEPT !.calls = Tail(@)]}
        <3>1. AgentOK /\ agent'.tools = agent.tools
            BY <2>1, <2>2 DEF Agt!AgentInv
        <3>2. QED
            BY <1>1, <1>5, <2>2, <3>1 DEF Agt!executeRealLLMAgent, Agt!AgentInv
    <2>3. ASSUME agent.tools < MaxTools, NEW outcome \in Agt!Outcomes, ran' = Append(ran, outcome),
                 history' = Append(history, IF Agt!Failed(outcome) THEN "failed" ELSE "used"),
                 errors' = IF Agt!Failed(outcome) THEN errors + 1 ELSE errors,
                 agent' = [agent EXCEPT !.calls = Tail(@), !.tools = @ + 1]
          PROVE  Agt!AgentInv'
        <3>1. agent.tools + 1 \in 0..MaxTools
            BY <2>3, ServicesAssumption DEF Agt!AgentInv, ServicesAssumption, Agt!AgentAssumption
        <3>2. AgentOK /\ agent'.tools = agent.tools + 1
            BY <2>1, <2>3, <3>1 DEF Agt!AgentInv
        <3>3. expired' \in BOOLEAN
            BY <1>5 DEF Agt!executeRealLLMAgent, Agt!AgentInv
        <3>4. /\ history' \in Seq({"failed", "used"}) /\ ran' \in Seq(Agt!Outcomes) /\ errors' \in Nat
              /\ Len(ran') = agent'.tools /\ Agt!ModelIsToldTheTruth'
            BY <2>3, <3>2, ToolIsTold
        <3>5. QED
            BY <3>2, <3>3, <3>4 DEF Agt!AgentInv
    <2>4. QED
        BY <1>5, <2>2, <2>3 DEF Agt!executeRealLLMAgent
<1>6. CASE UNCHANGED agtVars
    BY <1>6 DEF agtVars, Agt!AgentInv, Agt!ModelIsToldTheTruth
<1>7. QED
    BY <1>2, <1>3, <1>4, <1>5, <1>6 DEF Agt!Next

-----------------------------------------------------------------------------
(* The services side by side *)

\* Of memory_store.go: whatever fails or is interleaved, an observation belongs
\* to an entity and a relation joins two, because a deletion locks what it
\* deletes against the transactions that rely on it.
THEOREM GraphStaysWhole == ServicesSpec => []GraphIsWhole
<1>1. ServicesInit => Mem!MemoryInv
    BY MemoryInit DEF ServicesInit
<1>2. Mem!MemoryInv /\ [ServicesNext]_servicesVars => Mem!MemoryInv'
    BY MemoryStep DEF ServicesNext, In, servicesVars
<1>3. Mem!MemoryInv => GraphIsWhole
    BY DEF Mem!MemoryInv, GraphIsWhole
<1>4. QED
    BY <1>1, <1>2, <1>3, PTL DEF ServicesSpec

\* Of audit/*.go: what Store acknowledged stays on disk until its retention
\* ends, over rotations, failed rotations, clean-ups, crashes and restarts; only
\* a line behind a torn one is lost.
THEOREM AcknowledgedStays == ServicesSpec => []AcknowledgedIsKept
<1>1. ServicesInit => Aud!AuditInv
    BY AuditInit DEF ServicesInit
<1>2. Aud!AuditInv /\ [ServicesNext]_servicesVars => Aud!AuditInv'
    BY AuditStep DEF ServicesNext, In, servicesVars
<1>3. Aud!AuditInv => AcknowledgedIsKept
    BY DEF Aud!AuditInv, AcknowledgedIsKept
<1>4. QED
    BY <1>1, <1>2, <1>3, PTL DEF ServicesSpec

\* Of ai/*.go: for texts whose tags come in chunks of their own, what the reader
\* gets as content is content and as a thought a thought, from every provider.
THEOREM ThoughtsStayApart == "both" \notin Chunks => (ServicesSpec => []ThoughtsAreKeptApart)
<1> SUFFICES ASSUME "both" \notin Chunks PROVE ServicesSpec => []ThoughtsAreKeptApart
    OBVIOUS
<1>1. ServicesInit => Prv!FlowInv
    BY FlowInit DEF ServicesInit
<1>2. Prv!FlowInv /\ [ServicesNext]_servicesVars => Prv!FlowInv'
    BY FlowStep DEF ServicesNext, In, servicesVars
<1>3. Prv!FlowInv => ThoughtsAreKeptApart
    BY DEF Prv!FlowInv, ThoughtsAreKeptApart
<1>4. QED
    BY <1>1, <1>2, <1>3, PTL DEF ServicesSpec

\* Of mcp/tools_agent.go: the conversation tells of each executed tool whether
\* it returned a result, the errors count the failures, and no more than
\* maxTools are executed.
THEOREM ModelHearsTheTruth == ServicesSpec => []ModelIsToldTheTruth
<1>1. ServicesInit => Agt!AgentInv
    BY AgentInit DEF ServicesInit
<1>2. Agt!AgentInv /\ [ServicesNext]_servicesVars => Agt!AgentInv'
    BY AgentStep DEF ServicesNext, In, servicesVars
<1>3. Agt!AgentInv => ModelIsToldTheTruth
    BY DEF Agt!AgentInv, ModelIsToldTheTruth
<1>4. QED
    BY <1>1, <1>2, <1>3, PTL DEF ServicesSpec

-----------------------------------------------------------------------------
(* The reconciler of the task scheduler *)

\* A copy that is taken for the latest version is the resource: an update
\* from it changes nothing but what the reconciler means to change.
CopiesInv ==
    /\ cacheFresh => cache = res
    /\ snapFresh => snap = res

\* An annotation is marked for removal only if its request has run, or its
\* workflow is not defined in the object the reconciler works on.
Handled(w) ==
    /\ snap.request[w] # 0
    /\ w \in snap.workflows => runs[snap.request[w]] > 0

ManualInv ==
    /\ pc # "manual" => pending = {} /\ processed = {}
    /\ \A w \in pending : snap.request[w] # 0
    /\ \A w \in processed : Handled(w)

ReconcileInv == TypeOK /\ CopiesInv /\ ManualInv /\ RequestNotLost

USE ControllerAssumption

-----------------------------------------------------------------------------

\* A newly created resource.
LEMMA NewType == New \in Resource
BY DEF New, Resource, Phases

\* The initial state satisfies the inductive invariant.
LEMMA ReconcileInit == Init => ReconcileInv
<1> SUFFICES ASSUME Init PROVE ReconcileInv
    OBVIOUS
<1>1. TypeOK
    <2>1. /\ res \in Resource /\ cache \in Resource /\ snap \in Resource
        BY NewType DEF Init
    <2>2. runs \in [Requests -> 0..MaxRuns]
        BY DEF Init, MaxRuns
    <2>3. /\ issued \in 0..MaxRequests /\ others \in 0..MaxOthers
          /\ restarts \in 0..MaxRestarts /\ losses \in 0..MaxLosses
        BY DEF Init
    <2>4. QED
        BY <2>1, <2>2, <2>3 DEF Init, TypeOK
<1>2. CopiesInv
    BY DEF Init, CopiesInv
<1>3. ManualInv
    BY DEF Init, ManualInv
<1>4. RequestNotLost
    BY DEF Init, RequestNotLost
<1>5. QED
    BY <1>1, <1>2, <1>3, <1>4 DEF ReconcileInv

\* The end of a reconcile keeps the types.
LEMMA ReturnType ==
    ASSUME NEW b \in BOOLEAN, TypeOK, Return(b)
    PROVE  /\ snap' \in Resource /\ snapFresh' \in BOOLEAN
           /\ pc' \in {"idle", "phase", "manual", "status"}
           /\ pending' \subseteq Workflows /\ processed' \subseteq Workflows
           /\ dirty' \in BOOLEAN
BY NewType DEF Return, TypeOK

\* So does the update of the phase.
LEMMA SetPhaseType ==
    ASSUME NEW p \in Phases, NEW b \in BOOLEAN, TypeOK, SetPhase(p, b)
    PROVE  /\ res' \in Resource /\ cacheFresh' \in BOOLEAN
           /\ snap' \in Resource /\ snapFresh' \in BOOLEAN
           /\ pc' \in {"idle", "phase", "manual", "status"}
           /\ pending' \subseteq Workflows /\ processed' \subseteq Workflows
           /\ dirty' \in BOOLEAN
<1>1. CASE Accepted
    <2>1. Return(b) /\ res' = [res EXCEPT !.phase = p] /\ cacheFresh' = FALSE
        BY <1>1 DEF SetPhase, Write
    <2>2. res' \in Resource
        BY <2>1 DEF TypeOK, Resource
    <2>3. QED
        BY <2>1, <2>2, ReturnType
<1>2. CASE ~Accepted
    <2>1. Return(TRUE) /\ res' = res /\ cacheFresh' = cacheFresh
        BY <1>2 DEF SetPhase
    <2>2. QED
        BY <2>1, ReturnType DEF TypeOK
<1>3. QED
    BY <1>1, <1>2

\* Counting a run keeps the other counters and the type.
LEMMA CountRuns ==
    ASSUME TypeOK, NEW r \in Requests
    PROVE  /\ Count(r) \in [Requests -> 0..MaxRuns]
           /\ Count(r)[r] > 0
           /\ \A q \in Requests : Count(r)[q] >= runs[q]
BY DEF Count, TypeOK, MaxRuns

\* Every step keeps the types.
LEMMA TypeStep == ReconcileInv /\ [Next]_vars => TypeOK'
<1> SUFFICES ASSUME TypeOK, ManualInv, [Next]_vars PROVE TypeOK'
    BY DEF ReconcileInv
<1>1. CASE CacheCatchesUp
    BY <1>1 DEF CacheCatchesUp, TypeOK, local, requestVars
<1>2. CASE RequestExecution
    <2> DEFINE r == issued + 1
    <2>a. r \in Requests /\ target[r] \in Workflows
        BY <1>2 DEF RequestExecution, TypeOK, Requests
    <2>b. res' = [res EXCEPT !.request = [@ EXCEPT ![target[r]] = r]]
        BY <1>2 DEF RequestExecution, Write
    <2>c. [res.request EXCEPT ![target[r]] = r]
             \in [Workflows -> 0..MaxRequests]
        BY <2>a DEF TypeOK, Resource, Requests
    <2>1. res' \in Resource
        BY <2>b, <2>c DEF TypeOK, Resource
    <2>2. issued' \in 0..MaxRequests
        BY <1>2 DEF RequestExecution, TypeOK
    <2>3. QED
        BY <1>2, <2>1, <2>2 DEF RequestExecution, Write, TypeOK
<1>3. CASE OtherStatusUpdate
    <2>1. others' \in 0..MaxOthers
        BY <1>3 DEF OtherStatusUpdate, TypeOK
    <2>2. QED
        BY <1>3, <2>1 DEF OtherStatusUpdate, Write, TypeOK, requestVars
<1>4. CASE DeleteResource
    <2>1. res' \in Resource
        BY <1>4 DEF DeleteResource, Write, TypeOK, Resource
    <2>2. QED
        BY <1>4, <2>1 DEF DeleteResource, Write, TypeOK, requestVars
<1>5. CASE DeploymentEvent
    BY <1>5 DEF DeploymentEvent, TypeOK, local, requestVars
<1>6. CASE ControllerRestarts
    <2>1. restarts' \in 0..MaxRestarts
        BY <1>6 DEF ControllerRestarts, TypeOK
    <2>2. QED
        BY <1>6, <2>1, NewType DEF ControllerRestarts, TypeOK, requestVars
<1>7. ASSUME NEW w \in Workflows, WorkflowDeleted(w) PROVE TypeOK'
    <2>1. res' \in Resource
        BY <1>7 DEF WorkflowDeleted, Write, TypeOK, Resource
    <2>2. losses' \in 0..MaxLosses
        BY <1>7 DEF WorkflowDeleted, TypeOK
    <2>3. QED
        BY <1>7, <2>1, <2>2 DEF WorkflowDeleted, Write, TypeOK, requestVars
<1>8. CASE ReconcileStep
    <2>1. CASE Fetch
        BY <2>1 DEF Fetch, TypeOK, requestVars
    <2>2. CASE EmptyPhase
        <3>1. CASE Accepted
            <4>1. res' \in Resource /\ snap' \in Resource
                BY <2>2, <3>1, ZenonT(40) DEF EmptyPhase, Write, TypeOK, Resource, Phases
            <4>2. QED
                BY <2>2, <3>1, <4>1 DEF EmptyPhase, Write, TypeOK, requestVars
        <3>2. CASE ~Accepted
            <4>1. Return(TRUE) /\ res' = res /\ cacheFresh' = cacheFresh
                BY <2>2, <3>2 DEF EmptyPhase
            <4>2. QED
                BY <2>2, <4>1, ReturnType DEF EmptyPhase, TypeOK, requestVars
        <3>3. QED
            BY <3>1, <3>2
    <2>3. CASE reconcilePending
        <3>1. SetPhase("Creating", TRUE) /\ "Creating" \in Phases
            BY <2>3 DEF reconcilePending, Phases
        <3>2. QED
            BY <2>3, <3>1, SetPhaseType
               DEF reconcilePending, TypeOK, requestVars
    <2>4. CASE reconcileCreating
        <3>1. SetPhase("Starting", FALSE) /\ "Starting" \in Phases
            BY <2>4 DEF reconcileCreating, Phases
        <3>2. QED
            BY <2>4, <3>1, SetPhaseType
               DEF reconcileCreating, Ensured, TypeOK, requestVars
    <2>5. CASE reconcileStarting
        <3>1. CASE deployment = "ready"
            <4>1. SetPhase("Running", TRUE) /\ "Running" \in Phases
                BY <2>5, <3>1 DEF reconcileStarting, Phases
            <4>2. QED
                BY <2>5, <4>1, SetPhaseType
                   DEF reconcileStarting, TypeOK, requestVars
        <3>2. CASE deployment # "ready"
            <4>1. PICK b \in BOOLEAN : Return(b)
                BY <2>5, <3>2 DEF reconcileStarting
            <4>2. QED
                BY <2>5, <3>2, <4>1, ReturnType
                   DEF reconcileStarting, TypeOK, requestVars
        <3>3. QED
            BY <3>1, <3>2
    <2>6. CASE reconcileRunning
        BY <2>6 DEF reconcileRunning, Ensured, TypeOK, requestVars
    <2>7. CASE RemoveAnnotations
        <3>1. res' \in Resource
            BY <2>7 DEF RemoveAnnotations, Write, TypeOK, Resource
        <3>2. QED
            BY <2>7, <3>1 DEF RemoveAnnotations, Write, TypeOK, requestVars
    <2>8. CASE FinishRunning
        <3>1. CASE deployment \in {"seen", "ready"}
            <4>1. SetPhase(snap.phase, TRUE) /\ snap.phase \in Phases
                BY <2>8, <3>1 DEF FinishRunning, TypeOK, Resource
            <4>2. QED
                BY <2>8, <4>1, SetPhaseType DEF FinishRunning, TypeOK, requestVars
        <3>2. CASE deployment \notin {"seen", "ready"}
            <4>1. Return(FALSE) /\ res' = res /\ cacheFresh' = cacheFresh
                BY <2>8, <3>2 DEF FinishRunning
            <4>2. QED
                BY <2>8, <4>1, ReturnType DEF FinishRunning, TypeOK, requestVars
        <3>3. QED
            BY <3>1, <3>2
    <2>9. QED
        BY <1>8, <2>1, <2>2, <2>3, <2>4, <2>5, <2>6, <2>7, <2>8
           DEF ReconcileStep
<1>9. CASE ReconcileFails
    BY <1>9, ReturnType DEF ReconcileFails, Ensured, TypeOK, requestVars
<1>10. ASSUME NEW w \in Workflows, Execute(w) PROVE TypeOK'
    <2>1. snap.request[w] \in Requests
        BY <1>10 DEF Execute, ManualInv, TypeOK, Resource, Requests
    <2>2. runs' \in [Requests -> 0..MaxRuns]
        BY <1>10, <2>1, CountRuns DEF Execute, TypeOK
    <2>3. QED
        BY <1>10, <2>2 DEF Execute, TypeOK, requestVars
<1>11. CASE UNCHANGED vars
    BY <1>11 DEF vars, TypeOK
<1>12. QED
    BY <1>1, <1>2, <1>3, <1>4, <1>5, <1>6, <1>7, <1>8, <1>9, <1>10, <1>11
       DEF Next

\* A reconcile that ends leaves no copy and nothing to remove.
LEMMA ReturnInv ==
    ASSUME NEW b, Return(b)
    PROVE  /\ snapFresh' = FALSE /\ pc' = "idle"
           /\ pending' = {} /\ processed' = {}
BY DEF Return

\* Every step keeps the copies that pass for the latest version in step.
LEMMA CopiesStep == ReconcileInv /\ [Next]_vars => CopiesInv'
<1> SUFFICES ASSUME TypeOK, CopiesInv, [Next]_vars PROVE CopiesInv'
    BY DEF ReconcileInv
<1>1. CASE CacheCatchesUp
    BY <1>1 DEF CacheCatchesUp, CopiesInv, local
<1>2. CASE RequestExecution \/ OtherStatusUpdate \/ DeleteResource
    BY <1>2 DEF RequestExecution, OtherStatusUpdate, DeleteResource, Write,
                CopiesInv
<1>3. CASE DeploymentEvent
    BY <1>3 DEF DeploymentEvent, CopiesInv, local
<1>4. CASE ControllerRestarts
    BY <1>4 DEF ControllerRestarts, CopiesInv
<1>5. ASSUME NEW w \in Workflows, WorkflowDeleted(w) PROVE CopiesInv'
    BY <1>5 DEF WorkflowDeleted, Write, CopiesInv
<1>6. CASE ReconcileStep
    <2> DEFINE Kept == cache' = cache /\ res' = res /\ cacheFresh' = cacheFresh
    <2>1. CASE Fetch
        BY <2>1 DEF Fetch, CopiesInv
    <2>2. CASE EmptyPhase
        <3>1. CASE Accepted
            <4>1. snap = res
                BY <3>1 DEF Accepted, CopiesInv
            <4>2. QED
                BY <2>2, <3>1, <4>1 DEF EmptyPhase, Write, CopiesInv
        <3>2. CASE ~Accepted
            BY <2>2, <3>2, ReturnInv DEF EmptyPhase, CopiesInv
        <3>3. QED
            BY <3>1, <3>2
    <2>3. ASSUME NEW p, NEW b, SetPhase(p, b), cache' = cache
          PROVE  CopiesInv'
        <3>1. CASE Accepted
            BY <2>3, <3>1, ReturnInv DEF SetPhase, Write, CopiesInv
        <3>2. CASE ~Accepted
            BY <2>3, <3>2, ReturnInv DEF SetPhase, CopiesInv
        <3>3. QED
            BY <3>1, <3>2
    <2>4. ASSUME NEW b, Return(b), Kept PROVE CopiesInv'
        BY <2>4, ReturnInv DEF CopiesInv
    <2>5. CASE reconcilePending
        BY <2>3, <2>5 DEF reconcilePending
    <2>6. CASE reconcileCreating
        BY <2>3, <2>6 DEF reconcileCreating
    <2>7. CASE reconcileStarting
        BY <2>3, <2>4, <2>7 DEF reconcileStarting
    <2>8. CASE reconcileRunning
        BY <2>8 DEF reconcileRunning, CopiesInv
    <2>9. CASE RemoveAnnotations
        BY <2>9 DEF RemoveAnnotations, Write, CopiesInv
    <2>10. CASE FinishRunning
        BY <2>3, <2>4, <2>10 DEF FinishRunning
    <2>11. QED
        BY <1>6, <2>1, <2>2, <2>5, <2>6, <2>7, <2>8, <2>9, <2>10
           DEF ReconcileStep
<1>7. CASE ReconcileFails
    BY <1>7, ReturnInv DEF ReconcileFails, CopiesInv
<1>8. ASSUME NEW w \in Workflows, Execute(w) PROVE CopiesInv'
    BY <1>8 DEF Execute, CopiesInv
<1>9. CASE UNCHANGED vars
    BY <1>9 DEF vars, CopiesInv
<1>10. QED
    BY <1>1, <1>2, <1>3, <1>4, <1>5, <1>6, <1>7, <1>8, <1>9 DEF Next

\* Every step marks for removal only what was handled.
LEMMA ManualStep == ReconcileInv /\ [Next]_vars => ManualInv'
<1> SUFFICES ASSUME TypeOK, ManualInv, [Next]_vars PROVE ManualInv'
    BY DEF ReconcileInv
<1> DEFINE Elsewhere == UNCHANGED <<pc, snap, pending, processed, runs>>
<1>1. CASE Elsewhere
    BY <1>1 DEF ManualInv, Handled
<1>2. ASSUME pending' = {}, processed' = {} PROVE ManualInv'
    BY <1>2 DEF ManualInv
<1>3. CASE CacheCatchesUp \/ DeploymentEvent
    BY <1>1, <1>3 DEF CacheCatchesUp, DeploymentEvent, local
<1>4. CASE RequestExecution \/ OtherStatusUpdate \/ DeleteResource
    BY <1>1, <1>4 DEF RequestExecution, OtherStatusUpdate, DeleteResource
<1>5. ASSUME NEW w \in Workflows, WorkflowDeleted(w) PROVE ManualInv'
    BY <1>1, <1>5 DEF WorkflowDeleted
<1>6. CASE ControllerRestarts
    BY <1>2, <1>6 DEF ControllerRestarts
<1>7. CASE ReconcileStep
    <2>1. CASE Fetch
        BY <1>2, <2>1 DEF Fetch, ManualInv
    <2>2. CASE EmptyPhase
        <3>1. pending = {} /\ processed = {}
            BY <2>2 DEF EmptyPhase, ManualInv
        <3>2. QED
            BY <1>2, <2>2, <3>1, ReturnInv DEF EmptyPhase
    <2>3. ASSUME NEW p, NEW b, SetPhase(p, b) PROVE ManualInv'
        BY <1>2, <2>3, ReturnInv DEF SetPhase
    <2>4. ASSUME NEW b, Return(b) PROVE ManualInv'
        BY <1>2, <2>4, ReturnInv
    <2>5. CASE reconcilePending
        BY <2>3, <2>5 DEF reconcilePending
    <2>6. CASE reconcileCreating
        BY <2>3, <2>6 DEF reconcileCreating
    <2>7. CASE reconcileStarting
        BY <2>3, <2>4, <2>7 DEF reconcileStarting
    <2>8. CASE reconcileRunning
        <3>1. processed' = {}
            BY <2>8 DEF reconcileRunning, ManualInv
        <3>2. \A w \in pending' : snap'.request[w] # 0
            BY <2>8 DEF reconcileRunning
        <3>3. pc' # "manual" => pending' = {}
            BY <2>8 DEF reconcileRunning
        <3>4. QED
            BY <3>1, <3>2, <3>3 DEF ManualInv
    <2>9. CASE RemoveAnnotations
        BY <1>2, <2>9 DEF RemoveAnnotations
    <2>10. CASE FinishRunning
        BY <2>3, <2>4, <2>10 DEF FinishRunning
    <2>11. QED
        BY <1>7, <2>1, <2>2, <2>5, <2>6, <2>7, <2>8, <2>9, <2>10
           DEF ReconcileStep
<1>8. CASE ReconcileFails
    BY <1>2, <1>8, ReturnInv DEF ReconcileFails
<1>9. ASSUME NEW w \in Workflows, Execute(w) PROVE ManualInv'
    <2> DEFINE r == snap.request[w]
    <2>1. r \in Requests /\ snap' = snap /\ pc' = pc /\ pc = "manual"
        BY <1>9 DEF Execute, ManualInv, TypeOK, Resource, Requests
    <2>2. \A q \in Requests : runs[q] > 0 => runs'[q] > 0
        <3>1. \A q \in Requests : runs[q] \in Nat /\ Count(r)[q] \in Nat
            BY <2>1, CountRuns DEF TypeOK, MaxRuns
        <3>2. runs' = runs \/ runs' = Count(r)
            BY <1>9 DEF Execute
        <3>3. QED
            BY <2>1, <3>1, <3>2, CountRuns
    <2>3. ASSUME NEW v \in processed' PROVE Handled(v)'
        <3>1. CASE v \in processed
            <4>1. Handled(v) /\ snap.request[v] \in Requests
                BY <3>1, SMTT(30) DEF ManualInv, Handled, TypeOK, Resource, Requests
            <4>2. QED
                BY <2>1, <2>2, <4>1 DEF Handled
        <3>2. CASE v \notin processed
            <4>1. /\ v = w /\ r # 0
                  /\ w \in snap.workflows => runs' = Count(r)
                BY <1>9, <2>3, <3>2 DEF Execute, ManualInv
            <4>2. QED
                BY <2>1, <4>1, CountRuns DEF Handled
        <3>3. QED
            BY <3>1, <3>2
    <2>4. \A v \in pending' : snap'.request[v] # 0
        BY <1>9 DEF Execute, ManualInv
    <2>5. QED
        BY <2>1, <2>3, <2>4 DEF ManualInv
<1>10. CASE UNCHANGED vars
    BY <1>1, <1>10 DEF vars
<1>11. QED
    BY <1>3, <1>4, <1>5, <1>6, <1>7, <1>8, <1>9, <1>10 DEF Next

\* Every step keeps the requests that have not run.
LEMMA RequestStep == ReconcileInv /\ [Next]_vars => RequestNotLost'
<1> SUFFICES ASSUME TypeOK, CopiesInv, ManualInv, RequestNotLost, [Next]_vars
             PROVE  RequestNotLost'
    BY DEF ReconcileInv
<1> DEFINE Safe(r) == \/ runs[r] > 0 \/ res.request[target[r]] = r
                      \/ Superseded(r) \/ Gone(r)
<1>0. \A r \in 1..issued : Safe(r)
    BY DEF RequestNotLost
\* Steps that leave requests, annotations and counters alone; workflows and
\* the resource may go.
<1>1. ASSUME res'.request = res.request,
             res'.workflows \subseteq res.workflows,
             res'.exists => res.exists,
             UNCHANGED <<target, issued, runs>>
      PROVE  RequestNotLost'
    BY <1>1 DEF RequestNotLost, Superseded, Gone
<1>2. CASE CacheCatchesUp \/ DeploymentEvent \/ ControllerRestarts
    BY <1>1, <1>2 DEF CacheCatchesUp, DeploymentEvent, ControllerRestarts,
                      requestVars
<1>3. CASE RequestExecution
    <2> DEFINE n == issued + 1
    <2>1. /\ n \in Requests /\ target' = target /\ runs' = runs
          /\ issued' = n /\ target[n] \in Workflows
        BY <1>3 DEF RequestExecution, TypeOK, Requests
    <2>2. /\ res'.request = [res.request EXCEPT ![target[n]] = n]
          /\ res'.workflows = res.workflows /\ res'.exists = res.exists
        BY <1>3 DEF RequestExecution, Write, TypeOK, Resource
    <2>3. ASSUME NEW r \in 1..issued' PROVE Safe(r)'
        <3>1. CASE r = n
            BY <2>1, <2>2, <3>1 DEF TypeOK, Resource
        <3>2. CASE r # n /\ target[r] = target[n]
            <4>1. n \in (r + 1)..issued' /\ target'[n] = target'[r]
                BY <2>1, <3>2 DEF TypeOK
            <4>2. QED
                BY <4>1 DEF Superseded
        <3>3. CASE r # n /\ target[r] # target[n]
            <4>1. r \in 1..issued /\ Safe(r)
                BY <1>0, <2>1, <3>3 DEF TypeOK
            <4>2. target[r] \in Workflows
                BY <4>1 DEF TypeOK, Requests
            <4>3. CASE Superseded(r)
                BY <2>1, <4>3 DEF Superseded, TypeOK
            <4>4. QED
                BY <2>1, <2>2, <3>3, <4>1, <4>2, <4>3
                   DEF TypeOK, Resource, Gone
        <3>4. QED
            BY <3>1, <3>2, <3>3
    <2>4. QED
        BY <2>3 DEF RequestNotLost
<1>4. CASE OtherStatusUpdate \/ DeleteResource
    <2>1. /\ res'.request = res.request /\ res'.workflows = res.workflows
          /\ res'.exists => res.exists
        BY <1>4 DEF OtherStatusUpdate, DeleteResource, Write, TypeOK, Resource
    <2>2. QED
        BY <1>1, <1>4, <2>1 DEF OtherStatusUpdate, DeleteResource, requestVars
<1>5. ASSUME NEW w \in Workflows, WorkflowDeleted(w) PROVE RequestNotLost'
    <2>1. /\ res'.request = res.request
          /\ res'.workflows \subseteq res.workflows
          /\ res'.exists = res.exists
        BY <1>5 DEF WorkflowDeleted, Write, TypeOK, Resource
    <2>2. QED
        BY <1>1, <1>5, <2>1 DEF WorkflowDeleted, requestVars
<1>6. CASE ReconcileStep
    <2> DEFINE Quiet == UNCHANGED <<target, issued, runs>>
    <2>1. CASE Fetch \/ reconcileRunning
        BY <1>1, <2>1 DEF Fetch, reconcileRunning, requestVars
    <2>2. CASE EmptyPhase
        <3>1. /\ res'.request = res.request /\ res'.workflows = res.workflows
              /\ res'.exists = res.exists
            BY <2>2, ZenonT(40) DEF EmptyPhase, Write, TypeOK, Resource
        <3>2. QED
            BY <1>1, <2>2, <3>1 DEF EmptyPhase, requestVars
    <2>3. ASSUME NEW p, NEW b, SetPhase(p, b), Quiet PROVE RequestNotLost'
        <3>1. /\ res'.request = res.request /\ res'.workflows = res.workflows
              /\ res'.exists = res.exists
            BY <2>3 DEF SetPhase, Write, TypeOK, Resource
        <3>2. QED
            BY <1>1, <2>3, <3>1
    <2>4. CASE reconcilePending
        BY <2>3, <2>4 DEF reconcilePending, requestVars
    <2>5. CASE reconcileCreating
        BY <2>3, <2>5 DEF reconcileCreating, requestVars
    <2>6. CASE reconcileStarting
        BY <1>1, <2>3, <2>6 DEF reconcileStarting, requestVars
    <2>7. CASE RemoveAnnotations
        <3>1. CASE Removable # {} /\ Accepted
            <4>1. snap = res
                BY <3>1 DEF Accepted, CopiesInv
            <4>2. /\ res'.workflows = res.workflows /\ res'.exists = res.exists
                  /\ res'.request = [w \in Workflows |->
                                        IF w \in processed THEN 0
                                        ELSE res.request[w]]
                BY <2>7, <3>1, <4>1
                   DEF RemoveAnnotations, Removable, Write, TypeOK, Resource
            <4>3. Quiet
                BY <2>7 DEF RemoveAnnotations, requestVars
            <4>4. ASSUME NEW r \in 1..issued PROVE Safe(r)'
                <5>1. Safe(r) /\ target[r] \in Workflows
                    BY <1>0 DEF TypeOK, Requests
                <5>2. CASE runs[r] > 0 \/ Superseded(r) \/ Gone(r)
                    BY <4>2, <4>3, <5>2 DEF Superseded, Gone
                <5>3. CASE /\ res.request[target[r]] = r
                           /\ target[r] \notin processed
                    BY <4>2, <4>3, <5>1, <5>3
                <5>4. CASE /\ res.request[target[r]] = r
                           /\ target[r] \in processed
                    <6>1. target[r] \in res.workflows => runs[r] > 0
                        BY <4>1, <5>4 DEF ManualInv, Handled
                    <6>2. QED
                        BY <4>2, <4>3, <6>1 DEF Gone
                <5>5. QED
                    BY <5>1, <5>2, <5>3, <5>4
            <4>5. QED
                BY <4>3, <4>4 DEF RequestNotLost
        <3>2. CASE ~(Removable # {} /\ Accepted)
            BY <1>1, <2>7, <3>2 DEF RemoveAnnotations, requestVars
        <3>3. QED
            BY <3>1, <3>2
    <2>8. CASE FinishRunning
        BY <1>1, <2>3, <2>8 DEF FinishRunning, requestVars
    <2>9. QED
        BY <1>6, <2>1, <2>2, <2>4, <2>5, <2>6, <2>7, <2>8 DEF ReconcileStep
<1>7. CASE ReconcileFails
    BY <1>1, <1>7 DEF ReconcileFails, requestVars
<1>8. ASSUME NEW w \in Workflows, Execute(w) PROVE RequestNotLost'
    <2> DEFINE q == snap.request[w]
    <2>1. q \in Requests
        BY <1>8 DEF Execute, ManualInv, TypeOK, Resource, Requests
    <2>2. /\ res' = res /\ target' = target /\ issued' = issued
          /\ runs' = runs \/ runs' = Count(q)
        BY <1>8 DEF Execute, requestVars
    <2>3. \A r \in 1..issued : runs[r] > 0 => runs'[r] > 0
        <3>1. \A r \in Requests : runs[r] \in Nat /\ Count(q)[r] \in Nat
            BY <2>1, CountRuns DEF TypeOK, MaxRuns
        <3>2. \A r \in 1..issued : r \in Requests
            BY DEF TypeOK, Requests
        <3>3. QED
            BY <2>1, <2>2, <3>1, <3>2, CountRuns
    <2>4. QED
        BY <1>0, <2>2, <2>3 DEF RequestNotLost, Superseded, Gone
<1>9. CASE UNCHANGED vars
    BY <1>1, <1>9 DEF vars
<1>10. QED
    BY <1>2, <1>3, <1>4, <1>5, <1>6, <1>7, <1>8, <1>9 DEF Next

\* ReconcileInv is inductive.
THEOREM ReconcileInvariant == Spec => []ReconcileInv
<1>1. ReconcileInv /\ [Next]_vars => ReconcileInv'
    BY TypeStep, CopiesStep, ManualStep, RequestStep DEF ReconcileInv
<1>2. QED
    BY ReconcileInit, <1>1, PTL DEF Spec

\* Type correctness of the controller.
THEOREM ControllerTypeCorrect == Spec => []TypeOK
<1>1. ReconcileInv => TypeOK
    BY DEF ReconcileInv
<1>2. QED
    BY <1>1, ReconcileInvariant, PTL

\* A requested execution stays annotated until it was executed, its workflow
\* is gone or a newer request took its place, whatever the cache, the
\* refused updates, the other writers and the restarts of the controller do.
THEOREM RequestsAreNotLost == Spec => []RequestNotLost
<1>1. ReconcileInv => RequestNotLost
    BY DEF ReconcileInv
<1>2. QED
    BY <1>1, ReconcileInvariant, PTL

\* The ranks of the phases.
LEMMA Ranks ==
    /\ Rank("") = 0 /\ Rank("Pending") = 1 /\ Rank("Creating") = 2
    /\ Rank("Starting") = 3 /\ Rank("Running") = 4
BY DEF Rank

\* The phase a step writes is the one the resource has or a later one: an
\* accepted update comes from an object that is the resource.
LEMMA PhaseStep == ReconcileInv /\ [Next]_vars => Rank(res'.phase) >= Rank(res.phase)
<1> SUFFICES ASSUME TypeOK, CopiesInv, [Next]_vars
             PROVE  Rank(res'.phase) >= Rank(res.phase)
    BY DEF ReconcileInv
<1>0. res.phase \in Phases
    BY DEF TypeOK, Resource
<1>1. ASSUME res'.phase = res.phase
      PROVE  Rank(res'.phase) >= Rank(res.phase)
    <2>1. Rank(res.phase) \in {0, 1, 2, 3, 4}
        BY <1>0, Ranks, Zenon DEF Phases
    <2>2. QED
        BY <1>1, <2>1
<1>2. CASE CacheCatchesUp \/ DeploymentEvent \/ ControllerRestarts
    BY <1>1, <1>2 DEF CacheCatchesUp, DeploymentEvent, ControllerRestarts
<1>3. CASE RequestExecution \/ OtherStatusUpdate \/ DeleteResource
    <2>1. res'.phase = res.phase
        BY <1>3 DEF RequestExecution, OtherStatusUpdate, DeleteResource, Write,
                    TypeOK, Resource
    <2>2. QED
        BY <1>1, <2>1
<1>4. ASSUME NEW w \in Workflows, WorkflowDeleted(w)
      PROVE  res'.phase = res.phase
    BY <1>4 DEF WorkflowDeleted, Write, TypeOK, Resource
<1>5. CASE ReconcileStep
    <2>1. ASSUME NEW p, NEW b, SetPhase(p, b)
          PROVE  res' = res \/ (res'.phase = p /\ snap = res)
        BY <2>1 DEF SetPhase, Accepted, Write, CopiesInv, TypeOK, Resource
    <2>2. CASE Fetch \/ reconcileRunning
        BY <1>1, <2>2 DEF Fetch, reconcileRunning
    <2>3. CASE EmptyPhase
        <3>1. res' = res \/ (res.phase = "" /\ res'.phase = "Pending")
            BY <2>3 DEF EmptyPhase, Accepted, Write, CopiesInv, TypeOK, Resource
        <3>2. CASE res.phase = "" /\ res'.phase = "Pending"
            <4>1. Rank(res.phase) = 0 /\ Rank(res'.phase) = 1
                BY <3>2, Ranks, Zenon
            <4>2. QED
                BY <4>1
        <3>3. QED
            BY <1>1, <3>1, <3>2
    <2>4. CASE reconcilePending
        <3>1. res' = res \/ (res.phase = "Pending" /\ res'.phase = "Creating")
            BY <2>1, <2>4 DEF reconcilePending
        <3>2. CASE res.phase = "Pending" /\ res'.phase = "Creating"
            <4>1. Rank(res.phase) = 1 /\ Rank(res'.phase) = 2
                BY <3>2, Ranks, Zenon
            <4>2. QED
                BY <4>1
        <3>3. QED
            BY <1>1, <3>1, <3>2
    <2>5. CASE reconcileCreating
        <3>1. res' = res \/ (res.phase = "Creating" /\ res'.phase = "Starting")
            BY <2>1, <2>5 DEF reconcileCreating
        <3>2. CASE res.phase = "Creating" /\ res'.phase = "Starting"
            <4>1. Rank(res.phase) = 2 /\ Rank(res'.phase) = 3
                BY <3>2, Ranks, Zenon
            <4>2. QED
                BY <4>1
        <3>3. QED
            BY <1>1, <3>1, <3>2
    <2>6. CASE reconcileStarting
        <3>1. res' = res \/ (res.phase = "Starting" /\ res'.phase = "Running")
            BY <2>1, <2>6 DEF reconcileStarting
        <3>2. CASE res.phase = "Starting" /\ res'.phase = "Running"
            <4>1. Rank(res.phase) = 3 /\ Rank(res'.phase) = 4
                BY <3>2, Ranks, Zenon
            <4>2. QED
                BY <4>1
        <3>3. QED
            BY <1>1, <3>1, <3>2
    <2>7. CASE RemoveAnnotations
        <3>1. res'.phase = res.phase
            BY <2>7 DEF RemoveAnnotations, Write, TypeOK, Resource
        <3>2. QED
            BY <1>1, <3>1
    <2>8. CASE FinishRunning
        <3>1. res'.phase = res.phase
            BY <2>1, <2>8 DEF FinishRunning
        <3>2. QED
            BY <1>1, <3>1
    <2>9. QED
        BY <1>5, <2>2, <2>3, <2>4, <2>5, <2>6, <2>7, <2>8 DEF ReconcileStep
<1>6. CASE ReconcileFails
    BY <1>1, <1>6 DEF ReconcileFails
<1>7. ASSUME NEW w \in Workflows, Execute(w) PROVE res'.phase = res.phase
    BY <1>7 DEF Execute
<1>8. CASE UNCHANGED vars
    BY <1>1, <1>8 DEF vars
<1>9. QED
    BY <1>1, <1>2, <1>3, <1>4, <1>5, <1>6, <1>7, <1>8 DEF Next

\* No step takes the resource back to an earlier phase, although the
\* reconciler works on a cache that lags behind.
THEOREM PhasesAdvance == Spec => PhaseAdvances
<1>1. ReconcileInv /\ [Next]_vars => [Rank(res'.phase) >= Rank(res.phase)]_vars
    BY PhaseStep
<1>2. QED
    BY <1>1, ReconcileInvariant, PTL DEF Spec, PhaseAdvances

HIDE ControllerAssumption
===============================================================================
