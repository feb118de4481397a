--------------------------- MODULE ContextWindow ---------------------------
(***************************************************************************)
(* ContextManager: the pieces of context that an agent has collected and   *)
(* the window of those that fit the model's limit of tokens.  Every        *)
(* operation holds the mutex.  Times are replaced by their order; the      *)
(* priority of an item, computed from real numbers, orders the items of    *)
(* the strategies by priority in any way.                                  *)
(***************************************************************************)
EXTENDS Integers, Sequences, FiniteSets

CONSTANTS Items,       \* type, path and content make an ID
          Tokens,      \* TokenEstimator of the content of each item
          TypeOf, Types, \* Types in the order of their priorities
          Limits,      \* values of MaxTokens
          Strategies, Days

ContextAssumption ==
    /\ IsFiniteSet(Items) /\ Tokens \in [Items -> Nat]
    /\ Limits \subseteq Nat /\ Days \in Nat

VARIABLES
    held,      \* cm.items: item -> path, time of entry, of access; NoItem
    window,    \* cm.window
    maxTokens, \* cm.config.MaxTokens
    strategy,  \* cm.config.TruncationStrategy
    now        \* counts accesses

contextVars == <<held, window, maxTokens, strategy, now>>

NoPath == ""
NoItem == [path |-> NoPath, entered |-> 0, accessed |-> 0, old |-> FALSE]
EmptyWindow == [items |-> {}, total |-> 0, truncated |-> FALSE]
SourcePaths == {"p", "q"}

All(h) == {i \in Items : h[i] # NoItem}

\* The sum of the estimates of the items of S, as the number of their tokens.
TokensIn(S) == Cardinality(UNION {{i} \X (1..Tokens[i]) : i \in S})

\* An order gives each item its place.  What the loop over the items takes, S,
\* is told place by place: an item is taken if it fits beside those before it;
\* one that does not is passed over.
Before(i, order) == {j \in DOMAIN order : order[j] < order[i]}
Fits(i, S, order, limit) == TokensIn(S \cap Before(i, order)) + Tokens[i] <= limit

selectItemsWithinTokenLimit(order, limit) ==
    {S \in SUBSET DOMAIN order :
        \A i \in DOMAIN order : i \in S <=> Fits(i, S, order, limit)}

\* Type by type, of the types that have a priority: the first of a type that
\* does not fit ends the type, and a type that fills the limit ends the loop.
HasPriority(i) == \E n \in DOMAIN Types : Types[n] = TypeOf[i]
Alike(i, order) == {j \in DOMAIN order : TypeOf[j] = TypeOf[i]}
truncateByType(order, limit) ==
    {S \in SUBSET DOMAIN order :
        \A i \in DOMAIN order :
            LET earlier == {j \in Before(i, order) \ Alike(i, order) : HasPriority(j)} IN
            i \in S <=> /\ HasPriority(i)
                        /\ earlier # {} => TokensIn(S \cap earlier) < limit
                        /\ Before(i, order) \cap Alike(i, order) \subseteq S
                        /\ Fits(i, S, order, limit)}

\* truncateByPriority and truncateIntelligent sort by a priority of type,
\* recency, accesses and mentions, in real numbers: any order.
AnyOrder(all) == {o \in [all -> 1..Cardinality(all)] : \A i, j \in all : o[i] = o[j] => i = j}

\* The orders a strategy may put the items in.
Orders(h) ==
    {o \in AnyOrder(All(h)) : \A i, j \in All(h) : o[i] < o[j] =>
        CASE strategy = "oldest"  -> h[i].entered >= h[j].entered
          [] strategy = "lru"     -> h[i].accessed >= h[j].accessed
          [] strategy = "by_type" -> \A m, n \in DOMAIN Types :
                Types[m] = TypeOf[i] /\ Types[n] = TypeOf[j] => m <= n
          [] OTHER                -> TRUE}

updateWindow(h, limit) ==
    \E order \in Orders(h) :
    \E S \in IF strategy = "by_type" THEN truncateByType(order, limit)
             ELSE selectItemsWithinTokenLimit(order, limit) :
        window' = [items |-> S, total |-> TokensIn(S),
                   truncated |-> Cardinality(S) < Cardinality(All(h))]

Init ==
    /\ held = [i \in Items |-> NoItem]
    /\ window = EmptyWindow
    /\ maxTokens \in Limits
    /\ strategy \in Strategies
    /\ now = 0

\* Adding it again counts as an access.
AddContext(i, p) ==
    /\ now < Days
    /\ now' = now + 1
    /\ held' = [held EXCEPT ![i] =
         IF @ = NoItem THEN [path |-> p, entered |-> now + 1, accessed |-> now + 1, old |-> FALSE]
         ELSE [@ EXCEPT !.accessed = now + 1, !.old = FALSE]]
    /\ updateWindow(held', maxTokens)
    /\ UNCHANGED <<maxTokens, strategy>>

\* An access leaves the window alone.
GetContext(i) ==
    /\ held[i] # NoItem /\ now < Days
    /\ now' = now + 1
    /\ held' = [held EXCEPT ![i].accessed = now + 1, ![i].old = FALSE]
    /\ UNCHANGED <<window, maxTokens, strategy>>

\* So does a new path.
UpdateFilePath(p, q) ==
    /\ held' = [i \in Items |-> IF held[i].path = p THEN [held[i] EXCEPT !.path = q] ELSE held[i]]
    /\ UNCHANGED <<window, maxTokens, strategy, now>>

MutDrop(S) ==
    /\ S # {}
    /\ held' = [i \in Items |-> IF i \in S THEN NoItem ELSE held[i]]
    /\ IF Cardinality(S) > 1 THEN UNCHANGED window ELSE updateWindow(held', maxTokens)
    /\ UNCHANGED <<maxTokens, strategy, now>>

Drop(S) ==
    /\ S # {}
    /\ held' = [i \in Items |-> IF i \in S THEN NoItem ELSE held[i]]
    /\ updateWindow(held', maxTokens)
    /\ UNCHANGED <<maxTokens, strategy, now>>

RemoveContext(i) == held[i] # NoItem /\ Drop({i})
RemoveContextByFile(p) == Drop({i \in Items : held[i].path = p})

\* Entered and last accessed before the retention period.
CleanupExpired == Drop({i \in Items : held[i].old})
Age(i) ==
    /\ held[i] # NoItem /\ ~held[i].old
    /\ held' = [held EXCEPT ![i].old = TRUE]
    /\ UNCHANGED <<window, maxTokens, strategy, now>>

\* A higher limit shows nothing more until the next change.
UpdateMaxTokens(n) ==
    /\ n # maxTokens
    /\ maxTokens' = n
    /\ IF window.total > n THEN updateWindow(held, n) ELSE UNCHANGED window
    /\ UNCHANGED <<held, strategy, now>>

Next ==
    \/ \E i \in Items, p \in SourcePaths : AddContext(i, p)
    \/ \E i \in Items : GetContext(i) \/ RemoveContext(i) \/ Age(i)
    \/ \E p \in SourcePaths : RemoveContextByFile(p) \/ UpdateFilePath(p, "q")
    \/ CleanupExpired
    \/ \E n \in Limits : UpdateMaxTokens(n)

-----------------------------------------------------------------------------
\* The window never holds more than the model takes, nothing that was removed
\* or has expired, counts what it holds, and says so when something is left
\* out: in every strategy, after any removals and changes of the limit.
WindowIsSound ==
    /\ window.total <= maxTokens
    /\ window.total = TokensIn(window.items)
    /\ window.items \subseteq All(held)
    /\ All(held) \ window.items # {} => window.truncated

\* With what the items and the window are, this is inductive.
WindowInv ==
    /\ held \in [Items -> [path : SourcePaths \cup {NoPath}, entered : Nat, accessed : Nat,
                           old : BOOLEAN]]
    /\ maxTokens \in Limits /\ now \in Nat
    /\ window = [items |-> window.items, total |-> window.total,
                 truncated |-> window.truncated]
    /\ WindowIsSound
============================================================================
