---------------------------- MODULE GraphProofs ----------------------------
(***************************************************************************)
(* What the sort of workflow_engine.go makes of a list of steps, for lists *)
(* of any length.  The loop over the rounds is a recursive function; what  *)
(* holds of each round (RoundInv) is proved from the least round of which  *)
(* it does not hold.  From it follow what the levels are, which lists are  *)
(* sorted to the end, and how far down a step is.                          *)
(***************************************************************************)
EXTENDS WorkflowGraph, SequenceTheorems, FiniteSetTheorems, TLAPS

\* The least of some naturals.
LEMMA LeastNatural ==
    ASSUME NEW T \in SUBSET Nat, T # {}
    PROVE  \E m \in T : \A n \in T : m <= n
<1> DEFINE R == {ss \in Nat \X Nat : ss[1] < ss[2]}
<1>1. IsWellFoundedOn(R, Nat)
    BY NatLessThanWellFounded DEF OpToRel
<1>2. \E m \in T : \A n \in T : ~(<<n, m>> \in R)
    <2> HIDE DEF R
    <2> QED BY <1>1, WFMin
<1>3. PICK m \in T : \A n \in T : ~(<<n, m>> \in R)
    BY <1>2
<1>4. ASSUME NEW n \in T PROVE m <= n
    <2>1. n \in Nat /\ m \in Nat /\ ~(<<n, m>> \in R)
        BY <1>3
    <2> QED BY <2>1
<1> QED BY <1>4

\* The recursion of Rounds has a solution, for any number of rounds.
LEMMA RoundsExist ==
    ASSUME NEW steps, NEW n \in Nat
    PROVE  \E g : g = [k \in 0..n |-> IF k = 0 THEN FirstRound(steps) ELSE NextRound(steps, g[k - 1])]
<1> DEFINE Solves(g, m) == g = [k \in 0..m |-> IF k = 0 THEN FirstRound(steps) ELSE NextRound(steps, g[k - 1])]
<1> DEFINE T == {m \in Nat : ~ \E g : Solves(g, m)}
<1> SUFFICES ASSUME T # {} PROVE FALSE
    OBVIOUS
<1>1. PICK m \in T : \A j \in T : m <= j
    <2> HIDE DEF T
    <2>1. T \in SUBSET Nat
        BY DEF T
    <2> QED BY <2>1, LeastNatural
<1>2. CASE m = 0
    <2> DEFINE g == [k \in 0..0 |-> FirstRound(steps)]
    <2>1. Solves(g, 0)
        OBVIOUS
    <2> QED BY <1>2, <2>1
<1>3. CASE m # 0
    <2>0. m \in Nat
        OBVIOUS
    <2>1. m - 1 \in Nat /\ m - 1 \notin T
        <3> HIDE DEF T
        <3> QED BY <1>1, <1>3, <2>0
    <2>2. PICK g : Solves(g, m - 1)
        BY <2>1
    <2> DEFINE h == [k \in 0..m |-> IF k = m THEN NextRound(steps, g[m - 1]) ELSE g[k]]
    <2>3. \A k \in 0..(m - 1) : g[k] = IF k = 0 THEN FirstRound(steps) ELSE NextRound(steps, g[k - 1])
        BY <2>2
    <2>4. \A k \in 0..(m - 1) : h[k] = g[k]
        BY <1>1
    <2>5. ASSUME NEW k \in 0..m PROVE h[k] = IF k = 0 THEN FirstRound(steps) ELSE NextRound(steps, h[k - 1])
        <3>1. CASE k = m
            <4>1. h[k] = NextRound(steps, g[m - 1]) /\ h[m - 1] = g[m - 1]
                BY <3>1, <2>4, <2>1
            <4> HIDE DEF h
            <4> QED BY <4>1, <3>1, <1>3
        <3>2. CASE k # m /\ k # 0
            <4>1. k \in 0..(m - 1) /\ k - 1 \in 0..(m - 1)
                BY <3>2
            <4> HIDE DEF h
            <4> QED BY <4>1, <3>2, <2>3, <2>4
        <3>3. CASE k # m /\ k = 0
            <4>1. k \in 0..(m - 1)
                BY <3>3
            <4> HIDE DEF h
            <4> QED BY <4>1, <3>3, <2>3, <2>4
        <3> QED BY <3>1, <3>2, <3>3
    <2>6. h = [k \in 0..m |-> h[k]]
        OBVIOUS
    <2>7. Solves(h, m)
        <3> HIDE DEF h
        <3> QED BY <2>5, <2>6
    <2> QED BY <2>7
<1> QED BY <1>2, <1>3

\* What the loop begins its rounds with.
LEMMA RoundsDef ==
    ASSUME NEW steps, Len(steps) \in Nat
    PROVE  /\ DOMAIN Rounds(steps) = 0..Len(steps)
           /\ Rounds(steps)[0] = FirstRound(steps)
           /\ \A k \in 0..(Len(steps) - 1) : Rounds(steps)[k + 1] = NextRound(steps, Rounds(steps)[k])
<1> DEFINE n == Len(steps)
<1> HIDE DEF n
<1>0. n \in Nat
    BY DEF n
<1>1. Rounds(steps) = CHOOSE g : g = [k \in 0..n |-> IF k = 0 THEN FirstRound(steps) ELSE NextRound(steps, g[k - 1])]
    BY Zenon DEF Rounds, n
<1>2. Rounds(steps) = [k \in 0..n |-> IF k = 0 THEN FirstRound(steps) ELSE NextRound(steps, Rounds(steps)[k - 1])]
    BY <1>0, <1>1, RoundsExist, Zenon
<1> DEFINE r == Rounds(steps)
<1> HIDE DEF r
<1>3. r = [k \in 0..n |-> IF k = 0 THEN FirstRound(steps) ELSE NextRound(steps, r[k - 1])]
    BY <1>2 DEF r
<1>4. DOMAIN r = 0..n
    BY <1>3
<1>5. r[0] = FirstRound(steps)
    BY <1>0, <1>3
<1>6. ASSUME NEW k \in 0..(n - 1) PROVE r[k + 1] = NextRound(steps, r[k])
    <2>1. k + 1 \in 0..n /\ k + 1 # 0 /\ (k + 1) - 1 = k
        BY <1>0
    <2>2. r[k + 1] = NextRound(steps, r[(k + 1) - 1])
        BY <1>3, <2>1
    <2> QED BY <2>1, <2>2
<1> QED BY <1>4, <1>5, <1>6 DEF n, r

\* What holds of 0 and passes on to the next holds up to n.
LEMMA UpTo ==
    ASSUME NEW n \in Nat, NEW S, 0 \in S, \A k \in 0..(n - 1) : k \in S => k + 1 \in S
    PROVE  \A k \in 0..n : k \in S
<1> DEFINE T == {k \in 0..n : k \notin S}
<1> SUFFICES ASSUME T # {} PROVE FALSE
    OBVIOUS
<1>1. T \in SUBSET Nat
    OBVIOUS
<1>2. PICK m \in T : \A k \in T : m <= k
    <2> HIDE DEF T
    <2> QED BY <1>1, LeastNatural
<1>3. m \in 0..n /\ m \notin S /\ m # 0
    OBVIOUS
<1>4. m - 1 \in 0..(n - 1) /\ m - 1 \in 0..n /\ (m - 1) + 1 = m
    BY <1>3
<1>5. m - 1 \in S
    <2>1. m - 1 \notin T
        <3> HIDE DEF T
        <3> QED BY <1>2, <1>3
    <2> QED BY <2>1, <1>4
<1> QED BY <1>3, <1>4, <1>5

\* A list of steps, each with a name and a list of names.
IsStepList(steps) == \E N : steps \in Seq([name : N, dependsOn : Seq(N)])

\* Its length, and those of its lists of dependencies.
LEMMA ListType ==
    ASSUME NEW steps, IsStepList(steps)
    PROVE  /\ Len(steps) \in Nat /\ DOMAIN steps = 1..Len(steps)
           /\ \A i \in DOMAIN steps : /\ Len(steps[i].dependsOn) \in Nat
                                      /\ DOMAIN steps[i].dependsOn = 1..Len(steps[i].dependsOn)
<1>1. PICK N : steps \in Seq([name : N, dependsOn : Seq(N)])
    BY DEF IsStepList
<1>2. Len(steps) \in Nat /\ DOMAIN steps = 1..Len(steps)
    BY <1>1
<1>3. ASSUME NEW i \in DOMAIN steps
      PROVE  Len(steps[i].dependsOn) \in Nat /\ DOMAIN steps[i].dependsOn = 1..Len(steps[i].dependsOn)
    <2> DEFINE R == [name : N, dependsOn : Seq(N)]
    <2>1. steps[i] \in R
        <3> HIDE DEF R
        <3>1. steps \in Seq(R) /\ i \in 1..Len(steps)
            BY <1>1, <1>2 DEF R
        <3> QED BY <3>1, ElementOfSeq
    <2>2. steps[i].dependsOn \in Seq(N)
        BY <2>1
    <2> QED BY <2>2
<1> QED BY <1>2, <1>3

\* A list has finitely many dependencies.
LEMMA EdgesFinite ==
    ASSUME NEW steps, IsStepList(steps), NEW M, NEW n
    PROVE  IsFiniteSet(EdgeSet(steps, M, n))
<1> DEFINE T == {{i} \X DOMAIN steps[i].dependsOn : i \in DOMAIN steps}
<1> DEFINE f == [i \in DOMAIN steps |-> {i} \X DOMAIN steps[i].dependsOn]
<1>1. IsFiniteSet(DOMAIN steps)
    BY ListType, FS_Interval
<1>2. f \in Surjection(DOMAIN steps, T)
    BY DEF Surjection
<1>3. IsFiniteSet(T)
    <2> HIDE DEF T, f
    <2> QED BY <1>1, <1>2, FS_Surjection
<1>4. \A t \in T : IsFiniteSet(t)
    <2> SUFFICES ASSUME NEW i \in DOMAIN steps PROVE IsFiniteSet({i} \X DOMAIN steps[i].dependsOn)
        OBVIOUS
    <2>1. IsFiniteSet(DOMAIN steps[i].dependsOn)
        <3> DEFINE m == Len(steps[i].dependsOn)
        <3>1. m \in Nat /\ DOMAIN steps[i].dependsOn = 1..m
            BY ListType
        <3> HIDE DEF m
        <3>2. IsFiniteSet(1..m)
            BY <3>1, FS_Interval
        <3> QED BY <3>1, <3>2
    <2>2. IsFiniteSet({i})
        BY FS_Singleton
    <2> QED BY <2>1, <2>2, FS_Product
<1>5. EdgeSet(steps, M, n) \in SUBSET UNION T
    BY DEF EdgeSet
<1> HIDE DEF T
<1>6. IsFiniteSet(UNION T)
    BY <1>3, <1>4, FS_UNION
<1> QED BY <1>5, <1>6, FS_Subset

\* How the counts of edges add up.
LEMMA EdgeCount ==
    ASSUME NEW steps, IsStepList(steps), NEW M, NEW n
    PROVE  /\ Edges(steps, M, n) \in Nat
           /\ Edges(steps, M, n) = 0 <=> EdgeSet(steps, M, n) = {}
           /\ \A Q \in SUBSET M : /\ Edges(steps, M, n) - Edges(steps, Q, n) = Edges(steps, M \ Q, n)
                                  /\ Edges(steps, M \ Q, n) <= Edges(steps, M, n)
<1>1. Edges(steps, M, n) \in Nat /\ (Edges(steps, M, n) = 0 <=> EdgeSet(steps, M, n) = {})
    BY EdgesFinite, FS_CardinalityType, FS_EmptySet DEF Edges
<1>2. ASSUME NEW Q \in SUBSET M
      PROVE  /\ Edges(steps, M, n) - Edges(steps, Q, n) = Edges(steps, M \ Q, n)
             /\ Edges(steps, M \ Q, n) <= Edges(steps, M, n)
    <2> DEFINE A == EdgeSet(steps, M, n)
               B == EdgeSet(steps, Q, n)
               C == EdgeSet(steps, M \ Q, n)
    <2>1. C = A \ B /\ A \cap B = B /\ C \in SUBSET A
        BY DEF EdgeSet
    <2>2. IsFiniteSet(A) /\ IsFiniteSet(B)
        BY EdgesFinite
    <2> HIDE DEF A, B, C
    <2>3. Cardinality(C) = Cardinality(A) - Cardinality(B)
        <3>1. Cardinality(A \ B) = Cardinality(A) - Cardinality(A \cap B)
            BY <2>2, FS_Difference
        <3> QED BY <2>1, <3>1
    <2>5. Cardinality(C) <= Cardinality(A)
        BY <2>1, <2>2, FS_Subset
    <2>4. Cardinality(A) \in Nat /\ Cardinality(B) \in Nat
        BY <2>2, FS_CardinalityType
    <2> QED BY <2>3, <2>4, <2>5 DEF A, B, C, Edges
<1> QED BY <1>1, <1>2

\* The steps that no round before k took.
Left(steps, k) == NamesOf(steps) \ UNION {Rounds(steps)[j].queue : j \in 0..(k - 1)}

\* Of the loop over the rounds: the in-degrees count the edges from the steps
\* that are left, the queue has those of them without such an edge, and those
\* that were taken have none.
RoundInv(steps, k) ==
    LET r == Rounds(steps)[k] IN
    /\ r.deg = [n \in NamesOf(steps) |-> Edges(steps, Left(steps, k), n)]
    /\ r.queue = {n \in Left(steps, k) : Edges(steps, Left(steps, k), n) = 0}
    /\ \A n \in NamesOf(steps) \ Left(steps, k) : Edges(steps, Left(steps, k), n) = 0

\* A round takes its queue.
LEMMA LeftNext ==
    ASSUME NEW steps, NEW k \in Nat
    PROVE  Left(steps, k + 1) = Left(steps, k) \ Rounds(steps)[k].queue
<1>1. 0..((k + 1) - 1) = 0..(k - 1) \cup {k}
    OBVIOUS
<1> QED BY <1>1 DEF Left

\* Each round keeps the invariant.
LEMMA LoopInv ==
    ASSUME NEW steps, IsStepList(steps), NEW k \in 0..Len(steps)
    PROVE  RoundInv(steps, k)
<1>1. Len(steps) \in Nat
    BY ListType
<1>2. RoundInv(steps, 0)
    <2>1. Left(steps, 0) = NamesOf(steps)
        <3>1. 0..(0 - 1) = {}
            OBVIOUS
        <3> QED BY <3>1 DEF Left
    <2>2. Rounds(steps)[0] = FirstRound(steps)
        BY <1>1, RoundsDef
    <2> QED BY <2>1, <2>2 DEF RoundInv, FirstRound, InDegree
<1>3. ASSUME NEW j \in 0..(Len(steps) - 1), RoundInv(steps, j) PROVE RoundInv(steps, j + 1)
    <2> DEFINE r == Rounds(steps)[j]
               s == Rounds(steps)[j + 1]
               L == Left(steps, j)
               M == Left(steps, j + 1)
               N == NamesOf(steps)
    <2>1. s = NextRound(steps, r)
        BY <1>1, RoundsDef
    <2>2. /\ r.deg = [n \in N |-> Edges(steps, L, n)]
          /\ r.queue = {n \in L : Edges(steps, L, n) = 0}
          /\ \A n \in N \ L : Edges(steps, L, n) = 0
        BY <1>3 DEF RoundInv
    <2>3. M = L \ r.queue /\ L \in SUBSET N /\ r.queue \in SUBSET L
        <3>1. j \in Nat
            BY <1>1
        <3>2. M = L \ r.queue
            BY <3>1, LeftNext
        <3> QED BY <2>2, <3>2 DEF Left
    <2>e. \A n \in N : /\ Edges(steps, L, n) \in Nat /\ Edges(steps, M, n) \in Nat
                       /\ Edges(steps, L, n) - Edges(steps, r.queue, n) = Edges(steps, M, n)
                       /\ Edges(steps, M, n) <= Edges(steps, L, n)
        <3> SUFFICES ASSUME NEW n \in N
                     PROVE  /\ Edges(steps, L, n) \in Nat /\ Edges(steps, M, n) \in Nat
                            /\ Edges(steps, L, n) - Edges(steps, r.queue, n) = Edges(steps, M, n)
                            /\ Edges(steps, M, n) <= Edges(steps, L, n)
            OBVIOUS
        <3> DEFINE Q == r.queue
        <3>1. M = L \ Q /\ Q \in SUBSET L
            BY <2>3
        <3> HIDE DEF Q, L, M, N
        <3>2. /\ Edges(steps, L, n) - Edges(steps, Q, n) = Edges(steps, L \ Q, n)
              /\ Edges(steps, L \ Q, n) <= Edges(steps, L, n)
            BY <3>1, EdgeCount
        <3>3. Edges(steps, L, n) \in Nat /\ Edges(steps, M, n) \in Nat
            BY EdgeCount
        <3> QED BY <3>1, <3>2, <3>3 DEF Q
    <2>4. s.deg = [n \in N |-> r.deg[n] - Edges(steps, r.queue, n)]
        BY <2>1 DEF NextRound
    <2>5. s.queue = {n \in N : Released(r.deg[n], s.deg[n])}
        BY <2>1 DEF NextRound
    <2> HIDE DEF r, s, L, M, N
    <2>6. s.deg = [n \in N |-> Edges(steps, M, n)]
        BY <2>2, <2>4, <2>e
    <2>7. ASSUME NEW n \in N PROVE n \in s.queue <=> n \in M /\ Edges(steps, M, n) = 0
        <3>1. r.deg[n] = Edges(steps, L, n) /\ s.deg[n] = Edges(steps, M, n)
            BY <2>2, <2>6
        <3>2. n \in s.queue <=> Edges(steps, L, n) > 0 /\ Edges(steps, M, n) = 0
            BY <2>5, <3>1 DEF Released
        <3>3. Edges(steps, L, n) > 0 <=> n \in M
            <4>1. Edges(steps, L, n) > 0 <=> Edges(steps, L, n) # 0
                BY <2>e
            <4>2. n \in L => (n \in r.queue <=> Edges(steps, L, n) = 0)
                BY <2>2
            <4>3. n \notin L => Edges(steps, L, n) = 0
                BY <2>2
            <4> QED BY <4>1, <4>2, <4>3, <2>3
        <3> QED BY <3>2, <3>3
    <2>8. s.queue = {n \in M : Edges(steps, M, n) = 0}
        <3>1. s.queue \in SUBSET N /\ M \in SUBSET N
            BY <2>3, <2>5
        <3> QED BY <2>7, <3>1
    <2>9. \A n \in N \ M : Edges(steps, M, n) = 0
        <3> SUFFICES ASSUME NEW n \in N \ M PROVE Edges(steps, M, n) = 0
            OBVIOUS
        <3>1. n \in r.queue \/ n \in N \ L
            BY <2>3
        <3>2. Edges(steps, L, n) = 0
            BY <2>2, <3>1
        <3>3. Edges(steps, M, n) \in Nat /\ Edges(steps, M, n) <= Edges(steps, L, n)
            BY <2>e
        <3> QED BY <3>2, <3>3
    <2> QED BY <2>6, <2>8, <2>9 DEF RoundInv, s, M, N
<1> DEFINE S == {j \in 0..Len(steps) : RoundInv(steps, j)}
<1>4. 0 \in S
    BY <1>1, <1>2
<1>5. \A j \in 0..(Len(steps) - 1) : j \in S => j + 1 \in S
    BY <1>1, <1>3
<1>6. \A j \in 0..Len(steps) : j \in S
    <2> HIDE DEF S
    <2> QED BY <1>1, <1>4, <1>5, UpTo
<1> QED BY <1>6

\* There are at most as many names as steps.
LEMMA NamesFinite ==
    ASSUME NEW steps, IsStepList(steps)
    PROVE  /\ IsFiniteSet(NamesOf(steps)) /\ Cardinality(NamesOf(steps)) \in Nat
           /\ Cardinality(NamesOf(steps)) <= Len(steps)
<1> DEFINE n == Len(steps)
           N == NamesOf(steps)
           f == [i \in 1..n |-> steps[i].name]
<1>1. n \in Nat /\ DOMAIN steps = 1..n
    BY ListType
<1>2. f \in Surjection(1..n, N)
    BY <1>1 DEF Surjection, NamesOf
<1> HIDE DEF n, N, f
<1>3. IsFiniteSet(1..n) /\ Cardinality(1..n) = n
    BY <1>1, FS_Interval
<1>4. IsFiniteSet(N) /\ Cardinality(N) <= Cardinality(1..n)
    BY <1>2, <1>3, FS_Surjection
<1>5. Cardinality(N) \in Nat
    BY <1>4, FS_CardinalityType
<1> QED BY <1>3, <1>4, <1>5 DEF n, N

\* A step is taken once.
LEMMA QueuesApart ==
    ASSUME NEW steps, IsStepList(steps), NEW j \in 0..Len(steps), NEW k \in 0..Len(steps), j # k
    PROVE  /\ Rounds(steps)[k].queue \in SUBSET NamesOf(steps)
           /\ Rounds(steps)[j].queue \cap Rounds(steps)[k].queue = {}
<1>0. Len(steps) \in Nat
    BY ListType
<1>1. \A l \in 0..Len(steps) : Rounds(steps)[l].queue \in SUBSET Left(steps, l)
    <2> SUFFICES ASSUME NEW l \in 0..Len(steps) PROVE Rounds(steps)[l].queue \in SUBSET Left(steps, l)
        OBVIOUS
    <2>1. RoundInv(steps, l)
        BY LoopInv
    <2> QED BY <2>1 DEF RoundInv
<1>2. \A l, m \in 0..Len(steps) : l < m => Rounds(steps)[l].queue \cap Left(steps, m) = {}
    <2> SUFFICES ASSUME NEW l \in 0..Len(steps), NEW m \in 0..Len(steps), l < m
                 PROVE  Rounds(steps)[l].queue \cap Left(steps, m) = {}
        OBVIOUS
    <2>1. l \in 0..(m - 1)
        BY <1>0
    <2> QED BY <2>1 DEF Left
<1>3. j < k \/ k < j
    BY <1>0
<1>4. Left(steps, k) \in SUBSET NamesOf(steps)
    BY DEF Left
<1>5. CASE j < k
    BY <1>1, <1>2, <1>4, <1>5
<1>6. CASE k < j
    BY <1>1, <1>2, <1>4, <1>6
<1> QED BY <1>3, <1>5, <1>6

\* The loop ends within as many rounds as there are steps.
LEMMA TakenDef ==
    ASSUME NEW steps, IsStepList(steps)
    PROVE  /\ Taken(Rounds(steps)) \in 0..Len(steps)
           /\ Rounds(steps)[Taken(Rounds(steps))].queue = {}
           /\ \A j \in 0..(Taken(Rounds(steps)) - 1) : Rounds(steps)[j].queue # {}
<1> DEFINE n == Len(steps)
           N == NamesOf(steps)
           q == [k \in 0..n |-> Rounds(steps)[k].queue]
           T == {k \in 0..n : q[k] = {}}
<1>1. n \in Nat /\ DOMAIN Rounds(steps) = 0..n
    BY ListType, RoundsDef
<1>2. \A j, k \in 0..n : j # k => q[k] \in SUBSET N /\ q[j] \cap q[k] = {}
    BY QueuesApart
<1>3. q[0] \in SUBSET N
    <2>1. Rounds(steps)[0].queue \in SUBSET Left(steps, 0)
        BY <1>1, LoopInv DEF RoundInv
    <2> QED BY <1>1, <2>1 DEF Left
<1>4. IsFiniteSet(N) /\ Cardinality(N) <= n /\ Cardinality(N) \in Nat
    BY NamesFinite
<1> HIDE DEF n, N, q
<1>5. T # {}
    <2> SUFFICES ASSUME T = {} PROVE FALSE
        OBVIOUS
    <2>1. \A k \in 0..n : q[k] # {} /\ q[k] \in SUBSET N
        <3> SUFFICES ASSUME NEW k \in 0..n PROVE q[k] # {} /\ q[k] \in SUBSET N
            OBVIOUS
        <3>1. k # 0 => q[k] \in SUBSET N
            BY <1>1, <1>2
        <3> QED BY <1>3, <3>1
    <2> DEFINE f == [k \in 0..n |-> CHOOSE x \in q[k] : TRUE]
    <2>2. \A k \in 0..n : f[k] \in q[k]
        BY <2>1
    <2>3. f \in Injection(0..n, N)
        <3>0. f = [k \in 0..n |-> f[k]]
            OBVIOUS
        <3> HIDE DEF f
        <3>1. \A k \in 0..n : f[k] \in N
            BY <2>1, <2>2
        <3>2. f \in [0..n -> N]
            BY <3>0, <3>1
        <3>3. \A j, k \in 0..n : f[j] = f[k] => j = k
            <4> SUFFICES ASSUME NEW j \in 0..n, NEW k \in 0..n, f[j] = f[k], j # k PROVE FALSE
                OBVIOUS
            <4>1. f[j] \in q[j] \cap q[k]
                BY <2>2
            <4>2. q[j] \cap q[k] = {}
                BY <1>2
            <4> QED BY <4>1, <4>2
        <3> QED BY <3>2, <3>3 DEF Injection, IsInjective
    <2> HIDE DEF f, T
    <2>4. Cardinality(0..n) <= Cardinality(N)
        BY <1>4, <2>3, FS_Injection
    <2>5. Cardinality(0..n) = n + 1
        <3>1. Cardinality(0..n) = n - 0 + 1
            BY <1>1, FS_Interval
        <3> QED BY <1>1, <3>1
    <2> QED BY <1>1, <1>4, <2>4, <2>5
<1>6. PICK m \in T : \A k \in T : m <= k
    <2>1. T \in SUBSET Nat
        BY <1>1
    <2> HIDE DEF T
    <2> QED BY <1>5, <2>1, LeastNatural
<1>7. m \in 0..n /\ q[m] = {} /\ \A j \in 0..(m - 1) : q[j] # {}
    <2>1. m \in 0..n /\ q[m] = {}
        OBVIOUS
    <2>2. ASSUME NEW j \in 0..(m - 1) PROVE q[j] # {}
        <3>1. j \in 0..n /\ ~(m <= j)
            BY <1>1, <2>1
        <3> QED BY <1>6, <3>1
    <2> QED BY <2>1, <2>2
<1>8. \E k \in DOMAIN Rounds(steps) : /\ Rounds(steps)[k].queue = {}
                                      /\ \A j \in 0..(k - 1) : Rounds(steps)[j].queue # {}
    <2>1. \A j \in 0..n : q[j] = Rounds(steps)[j].queue
        BY DEF q, n
    <2>2. \A j \in 0..(m - 1) : j \in 0..n
        BY <1>1, <1>7
    <2>3. Rounds(steps)[m].queue = {} /\ \A j \in 0..(m - 1) : Rounds(steps)[j].queue # {}
        BY <1>7, <2>1, <2>2
    <2> QED BY <1>1, <1>7, <2>3
<1>9. /\ Taken(Rounds(steps)) \in DOMAIN Rounds(steps)
      /\ Rounds(steps)[Taken(Rounds(steps))].queue = {}
      /\ \A j \in 0..(Taken(Rounds(steps)) - 1) : Rounds(steps)[j].queue # {}
    BY <1>8 DEF Taken
<1> QED BY <1>1, <1>9 DEF n

\* The levels are the queues of the rounds, one after the other.
LEMMA LevelsDef ==
    ASSUME NEW steps, IsStepList(steps)
    PROVE  LET t == Taken(Rounds(steps)) IN
           /\ t \in 0..Len(steps)
           /\ Levels(steps) \in Seq(SUBSET NamesOf(steps)) /\ DOMAIN Levels(steps) = 1..t
           /\ \A k \in 1..t : /\ Levels(steps)[k] = Rounds(steps)[k - 1].queue
                              /\ k - 1 \in 0..Len(steps)
           /\ Left(steps, t) = NamesOf(steps) \ UNION {Levels(steps)[k] : k \in 1..t}
<1> DEFINE t == Taken(Rounds(steps))
           V == Levels(steps)
<1>1. t \in 0..Len(steps) /\ Len(steps) \in Nat
    BY TakenDef, ListType
<1>2. V = [k \in 1..t |-> Rounds(steps)[k - 1].queue]
    BY DEF Levels
<1> HIDE DEF t, V
<1>3. \A k \in 1..t : k - 1 \in 0..Len(steps)
    BY <1>1
<1>4. \A k \in 1..t : V[k] = Rounds(steps)[k - 1].queue /\ V[k] \in SUBSET NamesOf(steps)
    <2> SUFFICES ASSUME NEW k \in 1..t PROVE V[k] = Rounds(steps)[k - 1].queue /\ V[k] \in SUBSET NamesOf(steps)
        OBVIOUS
    <2>1. RoundInv(steps, k - 1)
        BY <1>3, LoopInv
    <2>2. Rounds(steps)[k - 1].queue \in SUBSET NamesOf(steps)
        BY <2>1 DEF RoundInv, Left
    <2> QED BY <1>2, <2>2
<1>5. V \in Seq(SUBSET NamesOf(steps)) /\ DOMAIN V = 1..t
    <2>1. V \in [1..t -> SUBSET NamesOf(steps)] /\ t \in Nat
        BY <1>1, <1>2, <1>4
    <2> QED BY <2>1
<1>6. {V[k] : k \in 1..t} = {Rounds(steps)[j].queue : j \in 0..(t - 1)}
    <2>1. ASSUME NEW j \in 0..(t - 1) PROVE \E k \in 1..t : V[k] = Rounds(steps)[j].queue
        <3>1. j + 1 \in 1..t /\ (j + 1) - 1 = j
            BY <1>1
        <3>2. V[j + 1] = Rounds(steps)[(j + 1) - 1].queue
            BY <1>4, <3>1
        <3> QED BY <3>1, <3>2
    <2>2. ASSUME NEW k \in 1..t PROVE \E j \in 0..(t - 1) : V[k] = Rounds(steps)[j].queue
        <3>1. k - 1 \in 0..(t - 1)
            BY <1>1
        <3> QED BY <1>4, <3>1
    <2> QED BY <2>1, <2>2
<1> QED BY <1>1, <1>3, <1>4, <1>5, <1>6 DEF Left, t, V

\* A step is in one level.
LEMMA LevelsApart ==
    ASSUME NEW steps, IsStepList(steps), NEW k \in DOMAIN Levels(steps), NEW l \in DOMAIN Levels(steps), k # l
    PROVE  Levels(steps)[k] \cap Levels(steps)[l] = {}
<1>1. /\ Levels(steps)[k] = Rounds(steps)[k - 1].queue /\ k - 1 \in 0..Len(steps)
      /\ Levels(steps)[l] = Rounds(steps)[l - 1].queue /\ l - 1 \in 0..Len(steps)
    BY LevelsDef
<1>2. k - 1 # l - 1
    <2>1. k \in Int /\ l \in Int
        <3> DEFINE t == Taken(Rounds(steps))
        <3>1. DOMAIN Levels(steps) = 1..t /\ t \in 0..Len(steps)
            BY LevelsDef
        <3>2. Len(steps) \in Nat
            BY ListType
        <3> HIDE DEF t
        <3> QED BY <3>1, <3>2
    <2> QED BY <2>1
<1> QED BY <1>1, <1>2, QueuesApart

\* The count of the sorted steps is right exactly if every name is in a level and
\* no two steps share a name.
LEMMA TotalIsAll ==
    ASSUME NEW steps, IsStepList(steps)
    PROVE  TotalSteps(Levels(steps)) = Len(steps) <=>
           /\ Left(steps, Taken(Rounds(steps))) = {}
           /\ Cardinality(NamesOf(steps)) = Len(steps)
<1> DEFINE t == Taken(Rounds(steps))
           V == Levels(steps)
           N == NamesOf(steps)
           P == UNION {{k} \X V[k] : k \in DOMAIN V}
           f == [p \in P |-> p[2]]
<1>1. /\ V \in Seq(SUBSET N) /\ DOMAIN V = 1..t /\ Len(steps) \in Nat
      /\ Left(steps, t) = N \ UNION {V[k] : k \in 1..t}
    BY LevelsDef, ListType
<1>2. \A k, l \in DOMAIN V : k # l => V[k] \cap V[l] = {}
    BY LevelsApart
<1>3. IsFiniteSet(N) /\ Cardinality(N) \in Nat /\ Cardinality(N) <= Len(steps)
    BY NamesFinite
<1>4. TotalSteps(V) = Cardinality(P)
    BY DEF TotalSteps
<1>5. \A k \in DOMAIN V : V[k] \in SUBSET N
    <2> SUFFICES ASSUME NEW k \in DOMAIN V PROVE V[k] \in SUBSET N
        OBVIOUS
    <2> HIDE DEF V, N
    <2>1. V \in Seq(SUBSET N)
        BY <1>1
    <2>2. DOMAIN V = 1..Len(V)
        BY <2>1, LenProperties
    <2> QED BY <2>1, <2>2, ElementOfSeq
<1> HIDE DEF t, V, N
<1>6. f \in Injection(P, N)
    <2>1. \A p \in P : p = <<p[1], p[2]>> /\ p[1] \in DOMAIN V /\ p[2] \in V[p[1]]
        OBVIOUS
    <2>2. f \in [P -> N]
        BY <1>5, <2>1
    <2>3. ASSUME NEW p \in P, NEW r \in P, f[p] = f[r] PROVE p = r
        <3>1. p[2] = r[2]
            BY <2>3
        <3>2. p[1] = r[1]
            BY <1>2, <2>1, <3>1
        <3> QED BY <2>1, <3>1, <3>2
    <2> HIDE DEF f, P
    <2> QED BY <2>2, <2>3 DEF Injection, IsInjective
<1>7. f \in Surjection(P, N) <=> Left(steps, t) = {}
    <2>1. f \in [P -> N]
        BY <1>6 DEF Injection
    <2>2. ASSUME NEW x \in N PROVE (\E p \in P : f[p] = x) <=> \E k \in 1..t : x \in V[k]
        <3>1. ASSUME NEW k \in 1..t, x \in V[k] PROVE \E p \in P : f[p] = x
            <4>1. <<k, x>> \in P /\ f[<<k, x>>] = x
                BY <1>1, <3>1
            <4> QED BY <4>1
        <3>2. ASSUME NEW p \in P, f[p] = x PROVE \E k \in 1..t : x \in V[k]
            BY <1>1, <3>2
        <3> QED BY <3>1, <3>2
    <2> HIDE DEF f, P
    <2> QED BY <1>1, <2>1, <2>2 DEF Surjection
<1> HIDE DEF f, P
<1>8. /\ Cardinality(P) <= Cardinality(N)
      /\ Cardinality(P) = Cardinality(N) <=> f \in Surjection(P, N)
    BY <1>3, <1>6, FS_Injection
<1>9. Cardinality(P) \in Nat
    <2>1. IsFiniteSet(P)
        BY <1>3, <1>6, FS_Injection
    <2> QED BY <2>1, FS_CardinalityType
<1>10. TotalSteps(V) = Len(steps) <=> Left(steps, t) = {} /\ Cardinality(N) = Len(steps)
    BY <1>1, <1>3, <1>4, <1>7, <1>8, <1>9
<1> QED BY <1>10 DEF t, V, N

\* What a step in a level depends on is in a lower one.
LEMMA DepsBelow ==
    ASSUME NEW steps, IsStepList(steps), NEW k \in DOMAIN Levels(steps), NEW n \in Levels(steps)[k],
           NEW m \in NamesOf(steps), EdgeSet(steps, {m}, n) # {}
    PROVE  \E l \in DOMAIN Levels(steps) : l < k /\ m \in Levels(steps)[l]
<1> DEFINE t == Taken(Rounds(steps))
<1>1. /\ DOMAIN Levels(steps) = 1..t /\ t \in 0..Len(steps)
      /\ \A l \in 1..t : Levels(steps)[l] = Rounds(steps)[l - 1].queue /\ l - 1 \in 0..Len(steps)
    BY LevelsDef
<1>2. Len(steps) \in Nat
    BY ListType
<1> HIDE DEF t
<1>3. RoundInv(steps, k - 1)
    BY <1>1, LoopInv
<1>4. EdgeSet(steps, Left(steps, k - 1), n) = {}
    <2>1. Edges(steps, Left(steps, k - 1), n) = 0
        BY <1>1, <1>3 DEF RoundInv
    <2> QED BY <2>1, EdgeCount
<1>5. m \notin Left(steps, k - 1)
    <2>1. m \in Left(steps, k - 1) => EdgeSet(steps, {m}, n) \subseteq EdgeSet(steps, Left(steps, k - 1), n)
        BY DEF EdgeSet
    <2> QED BY <1>4, <2>1
<1>6. PICK j \in 0..((k - 1) - 1) : m \in Rounds(steps)[j].queue
    BY <1>5 DEF Left
<1>7. j + 1 \in 1..t /\ j + 1 < k /\ (j + 1) - 1 = j
    BY <1>1, <1>2
<1>8. m \in Levels(steps)[j + 1]
    BY <1>1, <1>6, <1>7
<1> QED BY <1>1, <1>7, <1>8

\* A step that is not in the first level depends on one in the level below.
LEMMA DepJustBelow ==
    ASSUME NEW steps, IsStepList(steps), NEW k \in DOMAIN Levels(steps), k # 1, NEW n \in Levels(steps)[k]
    PROVE  k - 1 \in DOMAIN Levels(steps) /\ \E m \in Levels(steps)[k - 1] : EdgeSet(steps, {m}, n) # {}
<1> DEFINE t == Taken(Rounds(steps))
<1>1. /\ DOMAIN Levels(steps) = 1..t /\ t \in 0..Len(steps)
      /\ \A l \in 1..t : Levels(steps)[l] = Rounds(steps)[l - 1].queue /\ l - 1 \in 0..Len(steps)
    BY LevelsDef
<1>2. Len(steps) \in Nat
    BY ListType
<1> HIDE DEF t
<1> DEFINE h == k - 2
<1>3. h \in Nat /\ h \in 0..Len(steps) /\ k - 1 \in 1..t /\ (k - 1) - 1 = h /\ h + 1 = k - 1
    BY <1>1, <1>2
<1> HIDE DEF h
<1>4. RoundInv(steps, h) /\ RoundInv(steps, h + 1)
    <2>1. h + 1 \in 0..Len(steps)
        BY <1>1, <1>3
    <2> QED BY <1>3, <2>1, LoopInv
<1>5. Left(steps, h + 1) = Left(steps, h) \ Rounds(steps)[h].queue
    BY <1>3, LeftNext
<1>6. n \in Left(steps, h + 1) /\ Edges(steps, Left(steps, h + 1), n) = 0
    <2>1. n \in Rounds(steps)[k - 1].queue
        BY <1>1
    <2>2. n \in Rounds(steps)[h + 1].queue
        BY <1>3, <2>1
    <2> QED BY <1>4, <2>2 DEF RoundInv
<1>7. Edges(steps, Left(steps, h), n) # 0
    BY <1>4, <1>5, <1>6 DEF RoundInv
<1>8. EdgeSet(steps, Left(steps, h), n) # {} /\ EdgeSet(steps, Left(steps, h + 1), n) = {}
    BY <1>6, <1>7, EdgeCount
<1>9. PICK p \in EdgeSet(steps, Left(steps, h), n) : TRUE
    BY <1>8
<1> DEFINE m == steps[p[1]].dependsOn[p[2]]
<1>10. m \in Left(steps, h) /\ p \in EdgeSet(steps, {m}, n)
    BY DEF EdgeSet
<1>11. m \notin Left(steps, h + 1)
    <2>1. m \in Left(steps, h + 1) => p \in EdgeSet(steps, Left(steps, h + 1), n)
        BY DEF EdgeSet
    <2> QED BY <1>8, <2>1
<1> HIDE DEF m
<1>12. m \in Levels(steps)[k - 1]
    BY <1>1, <1>3, <1>5, <1>10, <1>11
<1> QED BY <1>1, <1>3, <1>10, <1>12

\* A set of steps that wait for one another.
Circular(steps, S) == \A n \in S : \E m \in S : EdgeSet(steps, {m}, n) # {}

\* The loop sorts every step exactly if no set of them is circular: the steps
\* that it leaves are such a set, and one cannot have a member in a lowest level.
LEMMA AllSorted ==
    ASSUME NEW steps, IsStepList(steps)
    PROVE  Left(steps, Taken(Rounds(steps))) = {} <=>
           ~ \E S \in (SUBSET NamesOf(steps)) \ {{}} : Circular(steps, S)
<1> DEFINE t == Taken(Rounds(steps))
           V == Levels(steps)
           N == NamesOf(steps)
<1>1. /\ DOMAIN V = 1..t /\ t \in 0..Len(steps) /\ Len(steps) \in Nat
      /\ Left(steps, t) = N \ UNION {V[k] : k \in 1..t}
    BY LevelsDef, ListType
<1>2. ASSUME Left(steps, t) # {} PROVE \E S \in (SUBSET N) \ {{}} : Circular(steps, S)
    <2> DEFINE L == Left(steps, t)
    <2>1. L \in (SUBSET N) \ {{}}
        BY <1>2 DEF Left
    <2>2. ASSUME NEW n \in L PROVE \E m \in L : EdgeSet(steps, {m}, n) # {}
        <3>1. RoundInv(steps, t) /\ Rounds(steps)[t].queue = {}
            BY <1>1, LoopInv, TakenDef
        <3>2. Edges(steps, L, n) # 0
            BY <3>1 DEF RoundInv
        <3>3. PICK p \in EdgeSet(steps, L, n) : TRUE
            BY <3>2, EdgeCount
        <3> DEFINE m == steps[p[1]].dependsOn[p[2]]
        <3>4. m \in L /\ p \in EdgeSet(steps, {m}, n)
            BY DEF EdgeSet
        <3> HIDE DEF m
        <3> QED BY <3>4
    <2>3. Circular(steps, L)
        BY <2>2 DEF Circular
    <2> HIDE DEF L
    <2> QED BY <2>1, <2>3
<1>3. ASSUME Left(steps, t) = {}, NEW S \in (SUBSET N) \ {{}}, Circular(steps, S) PROVE FALSE
    <2> DEFINE T == {k \in 1..t : \E n \in S : n \in V[k]}
    <2>1. T \in SUBSET Nat
        BY <1>1
    <2>2. T # {}
        <3>1. PICK n \in S : n \in N
            BY <1>3
        <3>2. n \in UNION {V[k] : k \in 1..t}
            BY <1>1, <1>3, <3>1
        <3> QED BY <3>2
    <2>3. PICK k \in T : \A l \in T : k <= l
        <3> HIDE DEF T
        <3> QED BY <2>1, <2>2, LeastNatural
    <2>4. PICK n \in S : n \in V[k]
        OBVIOUS
    <2>5. PICK m \in S : EdgeSet(steps, {m}, n) # {}
        BY <1>3 DEF Circular
    <2>6. PICK l \in 1..t : l < k /\ m \in V[l]
        <3>1. m \in N /\ k \in DOMAIN V
            BY <1>1, <1>3
        <3>2. \E l \in DOMAIN V : l < k /\ m \in V[l]
            BY <2>4, <2>5, <3>1, DepsBelow
        <3> QED BY <1>1, <3>2
    <2>7. l \in T
        BY <2>6
    <2>8. k \in Nat /\ l \in Nat /\ k <= l
        <3> HIDE DEF T
        <3> QED BY <2>1, <2>3, <2>7
    <2> QED BY <2>6, <2>8
<1> QED BY <1>2, <1>3

\* There are k steps from n down, each of which lists the next.
Chained(steps, n, k) ==
    \E c \in [1..k -> NamesOf(steps)] :
        c[1] = n /\ \A i \in 1..(k - 1) : EdgeSet(steps, {c[i + 1]}, c[i]) # {}

\* From a step in level k down there is a chain of k steps,
LEMMA LongChain ==
    ASSUME NEW steps, IsStepList(steps), NEW k \in DOMAIN Levels(steps), NEW n \in Levels(steps)[k]
    PROVE  Chained(steps, n, k)
<1> DEFINE t == Taken(Rounds(steps))
           V == Levels(steps)
           N == NamesOf(steps)
           S == {j \in Nat : j + 1 \in DOMAIN V => \A x \in V[j + 1] : Chained(steps, x, j + 1)}
<1>1. /\ DOMAIN V = 1..t /\ t \in 0..Len(steps) /\ Len(steps) \in Nat
      /\ \A j \in DOMAIN V : V[j] \in SUBSET N
    <2>1. DOMAIN V = 1..t /\ t \in 0..Len(steps) /\ Len(steps) \in Nat /\ V \in Seq(SUBSET N)
        BY LevelsDef, ListType
    <2> HIDE DEF V, N
    <2>2. DOMAIN V = 1..Len(V)
        BY <2>1, LenProperties
    <2>3. \A j \in 1..Len(V) : V[j] \in SUBSET N
        BY <2>1, ElementOfSeq
    <2> QED BY <2>1, <2>2, <2>3
<1>2. \A j \in DOMAIN V : j # 1 => \A x \in V[j] : j - 1 \in DOMAIN V /\ \E m \in V[j - 1] : EdgeSet(steps, {m}, x) # {}
    BY DepJustBelow
<1> HIDE DEF t, V, N
<1>3. 0 \in S
    <2> SUFFICES ASSUME 1 \in DOMAIN V, NEW x \in V[1] PROVE Chained(steps, x, 1)
        OBVIOUS
    <2> DEFINE c == [i \in 1..1 |-> x]
    <2>1. c \in [1..1 -> N] /\ c[1] = x
        BY <1>1
    <2>2. 1..(1 - 1) = {}
        OBVIOUS
    <2> QED BY <2>1, <2>2 DEF Chained, N
<1>4. ASSUME NEW j \in Nat, j \in S PROVE j + 1 \in S
    <2> SUFFICES ASSUME j + 2 \in DOMAIN V, NEW x \in V[j + 2] PROVE Chained(steps, x, j + 2)
        <3>1. (j + 1) + 1 = j + 2 /\ j + 1 \in Nat
            OBVIOUS
        <3> QED BY <3>1
    <2>1. PICK m \in V[j + 1] : EdgeSet(steps, {m}, x) # {}
        <3>1. j + 2 # 1 /\ (j + 2) - 1 = j + 1
            OBVIOUS
        <3> QED BY <1>2, <3>1
    <2>2. j + 1 \in DOMAIN V
        BY <1>1
    <2>3. PICK c \in [1..(j + 1) -> N] :
              c[1] = m /\ \A i \in 1..((j + 1) - 1) : EdgeSet(steps, {c[i + 1]}, c[i]) # {}
        BY <1>4, <2>2 DEF Chained, N
    <2> DEFINE d == [i \in 1..(j + 2) |-> IF i = 1 THEN x ELSE c[i - 1]]
    <2>4. d \in [1..(j + 2) -> N] /\ d[1] = x
        <3>1. x \in N
            BY <1>1
        <3>2. \A i \in 1..(j + 2) : i # 1 => i - 1 \in 1..(j + 1)
            OBVIOUS
        <3>3. \A i \in 1..(j + 2) : i # 1 => c[i - 1] \in N
            BY <3>2
        <3> QED BY <3>1, <3>3
    <2>5. \A i \in 1..(j + 1) : d[i + 1] = c[i]
        <3> SUFFICES ASSUME NEW i \in 1..(j + 1) PROVE d[i + 1] = c[i]
            OBVIOUS
        <3>1. i + 1 \in 1..(j + 2) /\ i + 1 # 1 /\ (i + 1) - 1 = i
            OBVIOUS
        <3> QED BY <3>1
    <2> HIDE DEF d
    <2>6. ASSUME NEW i \in 1..((j + 2) - 1) PROVE EdgeSet(steps, {d[i + 1]}, d[i]) # {}
        <3>1. i \in 1..(j + 1) /\ d[i + 1] = c[i]
            BY <2>5
        <3>2. CASE i = 1
            BY <2>1, <2>3, <2>4, <3>1, <3>2
        <3>3. CASE i # 1
            <4>1. i - 1 \in 1..((j + 1) - 1) /\ i - 1 \in 1..(j + 1) /\ (i - 1) + 1 = i
                BY <3>1, <3>3
            <4>2. d[i] = c[i - 1]
                BY <2>5, <4>1
            <4>3. EdgeSet(steps, {c[(i - 1) + 1]}, c[i - 1]) # {}
                BY <2>3, <4>1
            <4> QED BY <3>1, <4>1, <4>2, <4>3
        <3> QED BY <3>2, <3>3
    <2> QED BY <2>4, <2>6 DEF Chained, N
<1>5. k - 1 \in S
    <2>1. t \in Nat /\ k - 1 \in 0..t
        BY <1>1 DEF V
    <2> HIDE DEF S
    <2>2. \A j \in 0..t : j \in S
        <3>1. \A j \in 0..(t - 1) : j \in S => j + 1 \in S
            BY <1>4
        <3> QED BY <1>3, <2>1, <3>1, UpTo
    <2> QED BY <2>1, <2>2
<1>6. (k - 1) + 1 = k
    BY <1>1 DEF V
<1> QED BY <1>5, <1>6 DEF V

\* and no longer one: it goes down at least one level with each step.
LEMMA NoLongerChain ==
    ASSUME NEW steps, IsStepList(steps), NEW k \in DOMAIN Levels(steps), NEW n \in Levels(steps)[k]
    PROVE  ~Chained(steps, n, k + 1)
<1> SUFFICES ASSUME NEW c \in [1..(k + 1) -> NamesOf(steps)], c[1] = n,
                    \A i \in 1..((k + 1) - 1) : EdgeSet(steps, {c[i + 1]}, c[i]) # {}
             PROVE  FALSE
    BY DEF Chained
<1> DEFINE t == Taken(Rounds(steps))
           V == Levels(steps)
           N == NamesOf(steps)
           S == {i \in Nat : \E l \in DOMAIN V : l <= k - i /\ c[i + 1] \in V[l]}
<1>1. DOMAIN V = 1..t /\ t \in 0..Len(steps) /\ Len(steps) \in Nat
    BY LevelsDef, ListType
<1>2. ASSUME NEW l \in DOMAIN V, NEW x \in V[l], NEW m \in N, EdgeSet(steps, {m}, x) # {}
      PROVE  \E j \in DOMAIN V : j < l /\ m \in V[j]
    BY <1>2, DepsBelow
<1>3. k \in DOMAIN V /\ n \in V[k] /\ k \in Nat /\ c \in [1..(k + 1) -> N]
    BY <1>1
<1> HIDE DEF t, V, N
<1>4. 0 \in S
    BY <1>3
<1>5. ASSUME NEW i \in 0..(k - 1), i \in S PROVE i + 1 \in S
    <2>1. PICK l \in DOMAIN V : l <= k - i /\ c[i + 1] \in V[l]
        BY <1>5
    <2>2. i + 1 \in 1..((k + 1) - 1) /\ (i + 1) + 1 \in 1..(k + 1)
        BY <1>3
    <2>3. EdgeSet(steps, {c[(i + 1) + 1]}, c[i + 1]) # {} /\ c[(i + 1) + 1] \in N
        BY <1>3, <2>2
    <2>4. PICK j \in DOMAIN V : j < l /\ c[(i + 1) + 1] \in V[j]
        BY <1>2, <2>1, <2>3
    <2>5. j <= k - (i + 1)
        BY <1>1, <1>3, <2>1, <2>4
    <2> QED BY <2>4, <2>5
<1>6. k \in S
    <2> HIDE DEF S
    <2>1. \A i \in 0..k : i \in S
        BY <1>3, <1>4, <1>5, UpTo
    <2> QED BY <1>3, <2>1
<1>7. PICK l \in DOMAIN V : l <= k - k
    BY <1>6
<1> QED BY <1>1, <1>3, <1>7

\* What ValidateWorkflowDefinition accepts has distinct names and no circular
\* dependency but of a step on itself: a first member of one would depend on an
\* earlier step.
LEMMA ValidSorted ==
    ASSUME NEW steps, IsStepList(steps), ValidSteps(steps),
           \A n \in NamesOf(steps) : EdgeSet(steps, {n}, n) = {}
    PROVE  /\ Cardinality(NamesOf(steps)) = Len(steps) /\ ~MissingDependency(steps)
           /\ ~ \E S \in (SUBSET NamesOf(steps)) \ {{}} : Circular(steps, S)
<1> DEFINE n == Len(steps)
           N == NamesOf(steps)
           f == [i \in 1..n |-> steps[i].name]
<1>1. n \in Nat /\ DOMAIN steps = 1..n
    BY ListType
<1>2. \A i, j \in 1..n : i # j => steps[i].name # steps[j].name
    <2> SUFFICES ASSUME NEW i \in 1..n, NEW j \in 1..n, j < i PROVE steps[i].name # steps[j].name
        BY <1>1
    <2>1. j \in 1..(i - 1)
        BY <1>1
    <2> QED BY <1>1, <2>1 DEF ValidSteps
<1>3. Cardinality(N) = n
    <2>1. f \in Surjection(1..n, N) /\ f \in [1..n -> N]
        BY <1>1 DEF Surjection, NamesOf
    <2>2. f \in Injection(1..n, N)
        BY <1>2, <2>1 DEF Injection, IsInjective
    <2> HIDE DEF n, N, f
    <2>3. IsFiniteSet(1..n) /\ Cardinality(1..n) = n
        BY <1>1, FS_Interval
    <2>4. Cardinality(N) = Cardinality(1..n)
        BY <2>1, <2>2, <2>3, FS_Surjection
    <2> QED BY <2>3, <2>4
<1>4. ~MissingDependency(steps)
    <2> SUFFICES ASSUME NEW i \in DOMAIN steps, NEW k \in DOMAIN steps[i].dependsOn
                 PROVE  steps[i].dependsOn[k] \in N
        BY DEF MissingDependency
    <2>1. PICK j \in 1..i : steps[j].name = steps[i].dependsOn[k]
        BY DEF ValidSteps
    <2>2. j \in DOMAIN steps
        BY <1>1
    <2> QED BY <2>1, <2>2 DEF NamesOf
<1>5. ASSUME NEW S \in (SUBSET N) \ {{}}, Circular(steps, S) PROVE FALSE
    <2> DEFINE T == {i \in 1..n : steps[i].name \in S}
    <2>1. T \in SUBSET Nat
        BY <1>1
    <2>2. T # {}
        BY <1>1, <1>5 DEF NamesOf
    <2>3. PICK i \in T : \A j \in T : i <= j
        <3> HIDE DEF T
        <3> QED BY <2>1, <2>2, LeastNatural
    <2>4. PICK m \in S : EdgeSet(steps, {m}, steps[i].name) # {}
        BY <1>5 DEF Circular
    <2>5. PICK p \in EdgeSet(steps, {m}, steps[i].name) : TRUE
        BY <2>4
    <2>6. /\ p[1] \in 1..n /\ p[2] \in DOMAIN steps[p[1]].dependsOn
          /\ steps[p[1]].name = steps[i].name /\ steps[p[1]].dependsOn[p[2]] = m
        BY <1>1 DEF EdgeSet
    <2>7. p[1] = i
        BY <1>2, <2>6
    <2>8. PICK j \in 1..i : steps[j].name = m
        BY <1>1, <2>6, <2>7 DEF ValidSteps
    <2>9. steps[i].name # m
        <3>1. steps[i].name \in N
            BY <1>5
        <3> QED BY <2>4, <3>1
    <2>10. j \in T /\ j < i
        <3>1. j # i /\ j \in 1..n
            BY <1>1, <2>8, <2>9
        <3>2. j < i
            BY <1>1, <3>1
        <3> QED BY <2>8, <3>1, <3>2
    <2>11. i \in Nat /\ j \in Nat /\ i <= j
        <3> HIDE DEF T
        <3> QED BY <2>1, <2>3, <2>10
    <2> QED BY <2>10, <2>11
<1> QED BY <1>3, <1>4, <1>5
=============================================================================
