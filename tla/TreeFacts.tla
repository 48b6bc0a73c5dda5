------------------------------ MODULE TreeFacts ------------------------------
(***************************************************************************)
(* Facts about natural numbers, sequences and trees that more than one of  *)
(* the proofs needs.  The library's induction theorems are about operators *)
(* and need an operator to be instantiated; these are about sets.          *)
(***************************************************************************)
EXTENDS Naturals, FiniteSets, Sequences, SequencesExt, FiniteSetTheorems,
        SequenceTheorems, TLAPS

-----------------------------------------------------------------------------
(* Natural numbers.                                                        *)

\* A set of natural numbers has a least one.
LEMMA LeastNatural ==
  ASSUME NEW T \in SUBSET Nat, T # {}
  PROVE  \E m \in T : \A k \in T : m <= k
<1> DEFINE I == {1 .. n : n \in T}
<1>1. IsWellFoundedOn(StrictSubsetOrdering(Nat), FiniteSubsetsOf(Nat))
  BY FS_StrictSubsetOrderingWellFounded
<1>2. I \subseteq FiniteSubsetsOf(Nat) /\ I # {}
  <2>1. ASSUME NEW n \in T PROVE 1 .. n \in FiniteSubsetsOf(Nat)
    <3>1. IsFiniteSet(1 .. n) /\ 1 .. n \subseteq Nat
      BY FS_Interval
    <3> QED
      BY <3>1 DEF FiniteSubsetsOf
  <2> QED
    BY <2>1
<1>3. PICK x \in I : \A y \in I : ~ (<<y, x>> \in StrictSubsetOrdering(Nat))
  <2> HIDE DEF I
  <2> QED
    BY <1>1, <1>2, WFMin
<1>4. PICK m \in T : x = 1 .. m
  BY <1>3
<1>5. ASSUME NEW k \in T, ~ (m <= k) PROVE FALSE
  <2>1. 1 .. k \subseteq 1 .. m /\ m \in 1 .. m /\ m \notin 1 .. k
    BY <1>5
  <2>2. <<1 .. k, 1 .. m>> \in StrictSubsetOrdering(Nat)
    BY <2>1 DEF StrictSubsetOrdering
  <2> QED
    BY <1>3, <1>4, <2>2
<1> QED
  BY <1>5

\* The least of a set of natural numbers.
LEMMA MinIsLeast ==
  ASSUME NEW T \in SUBSET Nat, T # {}
  PROVE  Min(T) \in T /\ \A k \in T : Min(T) <= k
<1>1. \E m \in T : \A k \in T : m <= k
  BY LeastNatural
<1> QED
  BY <1>1 DEF Min

\* The greatest of some numbers up to n.
LEMMA MaxIsGreatest ==
  ASSUME NEW n \in Nat, NEW s \in SUBSET (1 .. n), s # {}
  PROVE  Max(s) \in s /\ \A k \in s : k <= Max(s)
<1> DEFINE T == {n - k : k \in s}
<1>1. T \in SUBSET Nat /\ T # {}
  <2>1. \A k \in s : k \in Nat /\ k <= n
    OBVIOUS
  <2>2. \A k \in s : n - k \in Nat
    BY <2>1
  <2> QED
    BY <2>2
<1>2. PICK m \in T : \A k \in T : m <= k
  BY <1>1, LeastNatural
<1>3. PICK x \in s : m = n - x
  BY <1>2
<1>4. \A k \in s : k <= x
  <2> SUFFICES ASSUME NEW k \in s PROVE k <= x
    OBVIOUS
  <2>1. n - k \in T /\ k \in Nat /\ x \in Nat
    OBVIOUS
  <2>2. n - x <= n - k
    BY <1>2, <1>3, <2>1
  <2> QED
    BY <2>1, <2>2
<1>5. \A k \in s : x >= k
  BY <1>4
<1>6. Max(s) \in s /\ \A k \in s : Max(s) >= k
  BY <1>5 DEF Max
<1> QED
  BY <1>6

\* Induction, for the elements of a set.
LEMMA NatSetInduction ==
  ASSUME NEW T, 0 \in T, \A n \in Nat : n \in T => n + 1 \in T
  PROVE  Nat \subseteq T
<1> SUFFICES ASSUME Nat \ T # {} PROVE FALSE
  OBVIOUS
<1>1. PICK m \in Nat \ T : \A k \in Nat \ T : m <= k
  BY LeastNatural
<1>2. m # 0 /\ m - 1 \in Nat /\ ~ (m <= m - 1)
  BY <1>1
<1>3. m - 1 \in T
  BY <1>1, <1>2
<1> QED
  BY <1>1, <1>2, <1>3

\* Powers of two, by counting the subsets of a set.
LEMMA PowersOfTwo == 2 ^ 0 = 1 /\ \A n \in Nat : 2 ^ n \in Nat /\ 2 ^ (n + 1) = 2 * 2 ^ n
<1>1. 2 ^ 0 = 1
  <2>1. IsFiniteSet({}) /\ Cardinality({}) = 0 /\ SUBSET {} = {{}}
    BY FS_EmptySet
  <2>2. Cardinality({{}}) = 1
    BY FS_Singleton
  <2> QED
    BY <2>1, <2>2, FS_SUBSET
<1>2. ASSUME NEW n \in Nat PROVE 2 ^ n \in Nat /\ 2 ^ (n + 1) = 2 * 2 ^ n
  <2> DEFINE P == SUBSET (1 .. n)
             Q == {B \cup {n + 1} : B \in P}
             f == [B \in P |-> B \cup {n + 1}]
  <2>1. /\ IsFiniteSet(1 .. n) /\ Cardinality(1 .. n) = n
        /\ IsFiniteSet(1 .. n + 1) /\ Cardinality(1 .. n + 1) = n + 1
    BY FS_Interval
  <2>2. /\ IsFiniteSet(P) /\ Cardinality(P) = 2 ^ n /\ Cardinality(SUBSET (1 .. n + 1)) = 2 ^ (n + 1)
    BY <2>1, FS_SUBSET
  <2>3. f \in Bijection(P, Q)
    <3>1. n + 1 \notin 1 .. n
      OBVIOUS
    <3>2. \A B, C \in P : f[B] = f[C] => B = C
      BY <3>1
    <3>3. f \in [P -> Q]
      OBVIOUS
    <3>4. f \in Injection(P, Q)
      BY <3>2, <3>3 DEF Injection, IsInjective
    <3>5. f \in Surjection(P, Q)
      BY <3>3 DEF Surjection
    <3> QED
      BY <3>4, <3>5 DEF Bijection
  <2>4. IsFiniteSet(Q) /\ Cardinality(Q) = Cardinality(P)
    <3>1. ExistsBijection(P, Q)
      BY <2>3 DEF ExistsBijection
    <3> HIDE DEF P, Q
    <3> QED
      BY <2>2, <3>1, FS_Bijection
  <2>5. P \cap Q = {} /\ P \cup Q = SUBSET (1 .. n + 1)
    <3>1. n + 1 \notin 1 .. n /\ 1 .. n + 1 = (1 .. n) \cup {n + 1}
      OBVIOUS
    <3>2. P \cap Q = {}
      BY <3>1
    <3>3. P \cup Q \subseteq SUBSET (1 .. n + 1)
      BY <3>1
    <3>4. ASSUME NEW C \in SUBSET (1 .. n + 1) PROVE C \in P \cup Q
      <4>1. C \ {n + 1} \in P
        BY <3>1
      <4>2. n + 1 \in C => C = (C \ {n + 1}) \cup {n + 1}
        OBVIOUS
      <4> QED
        BY <4>1, <4>2
    <3> QED
      BY <3>2, <3>3, <3>4
  <2>6. Cardinality(P \cup Q) = Cardinality(P) + Cardinality(Q) - Cardinality({})
    <3> HIDE DEF P, Q
    <3> QED
      BY <2>2, <2>4, <2>5, FS_Union
  <2>7. Cardinality(P) \in Nat /\ Cardinality({}) = 0
    BY <2>2, FS_CardinalityType, FS_EmptySet
  <2>8. Cardinality(P \cup Q) = 2 ^ (n + 1)
    BY <2>2, <2>5
  <2> HIDE DEF P, Q
  <2> QED
    BY <2>2, <2>4, <2>6, <2>7, <2>8
<1> QED
  BY <1>1, <1>2

-----------------------------------------------------------------------------
(* Trees.                                                                  *)

\* every way up ends at the root
IsTree(Nodes, Root, Parent) ==
    /\ Root \in Nodes
    /\ Parent \in [Nodes -> Nodes]
    /\ \A S \in SUBSET (Nodes \ {Root}) : S # {} => \E n \in S : Parent[n] \notin S

\* A rank that grows downwards makes a tree.
LEMMA RankedTree ==
  ASSUME NEW Nodes, NEW Root \in Nodes, NEW Parent \in [Nodes -> Nodes],
         NEW Rank \in [Nodes -> Nat], \A n \in Nodes \ {Root} : Rank[Parent[n]] < Rank[n]
  PROVE  IsTree(Nodes, Root, Parent)
<1> SUFFICES ASSUME NEW S \in SUBSET (Nodes \ {Root}), S # {}
             PROVE  \E n \in S : Parent[n] \notin S
  BY DEF IsTree
<1> DEFINE R == {Rank[n] : n \in S}
<1>1. R \in SUBSET Nat /\ R # {}
  OBVIOUS
<1>2. PICK m \in R : \A k \in R : m <= k
  <2> HIDE DEF R
  <2> QED
    BY <1>1, LeastNatural
<1>3. PICK n \in S : m = Rank[n]
  BY <1>2
<1>4. ASSUME Parent[n] \in S PROVE FALSE
  <2>1. Rank[Parent[n]] \in R /\ Rank[Parent[n]] < Rank[n]
    BY <1>4
  <2> QED
    BY <1>1, <1>2, <1>3, <2>1
<1> QED
  BY <1>4

\* What the root has and a node passes on to those in it, all nodes have.
LEMMA TreeInduction ==
  ASSUME NEW Nodes, NEW Root, NEW Parent, IsTree(Nodes, Root, Parent),
         NEW T, Root \in T, \A n \in Nodes \ {Root} : Parent[n] \in T => n \in T
  PROVE  Nodes \subseteq T
<1> SUFFICES ASSUME Nodes \ T # {} PROVE FALSE
  OBVIOUS
<1>1. Nodes \ T \in SUBSET (Nodes \ {Root})
  OBVIOUS
<1>2. PICK n \in Nodes \ T : Parent[n] \notin Nodes \ T
  BY <1>1 DEF IsTree
<1> QED
  BY <1>2 DEF IsTree

\* A function that says of each node what its parent says of it, there is.
LEMMA TreeRecursion ==
  ASSUME NEW Nodes, NEW Root, NEW Parent, IsTree(Nodes, Root, Parent),
         NEW V, NEW v0 \in V, NEW step \in [Nodes -> [V -> V]]
  PROVE  \E f \in [Nodes -> V] : \A n \in Nodes :
            f[n] = step[n][IF n = Root THEN v0 ELSE f[Parent[n]]]
<1> DEFINE Sol(D, g) ==
             /\ D \in SUBSET Nodes
             /\ \A n \in D : n # Root => Parent[n] \in D
             /\ g \in [D -> V]
             /\ \A n \in D : g[n] = step[n][IF n = Root THEN v0 ELSE g[Parent[n]]]
           Is(n, v) == \E D, g : Sol(D, g) /\ n \in D /\ v = g[n]
<1>1. ASSUME NEW D, NEW g, Sol(D, g), NEW E, NEW h, Sol(E, h)
      PROVE  \A n \in D \cap E : g[n] = h[n]
  <2> DEFINE T == {n \in Nodes : n \in D \cap E => g[n] = h[n]}
  <2>1. Root \in T
    BY <1>1 DEF IsTree
  <2>2. \A n \in Nodes \ {Root} : Parent[n] \in T => n \in T
    BY <1>1 DEF IsTree
  <2>3. Nodes \subseteq T
    <3> HIDE DEF T
    <3> QED
      BY <2>1, <2>2, TreeInduction
  <2> QED
    BY <1>1, <2>3
<1>2. \A n \in Nodes : \E v \in V : Is(n, v)
  <2> DEFINE T == {n \in Nodes : \E v \in V : Is(n, v)}
  <2>1. Root \in T
    <3>1. Sol({Root}, [x \in {Root} |-> step[Root][v0]])
      BY DEF IsTree
    <3>2. Is(Root, step[Root][v0])
      BY <3>1
    <3> QED
      BY <3>2 DEF IsTree
  <2>2. ASSUME NEW n \in Nodes \ {Root}, Parent[n] \in T PROVE n \in T
    <3>1. PICK D, g : Sol(D, g) /\ Parent[n] \in D
      BY <2>2
    <3>2. CASE n \in D
      BY <3>1, <3>2
    <3>3. CASE n \notin D
      <4> DEFINE E == D \cup {n}
                 h == [x \in E |-> IF x = n THEN step[n][g[Parent[n]]] ELSE g[x]]
      <4>1. h \in [E -> V] /\ E \in SUBSET Nodes
        BY <3>1
      <4>2. \A x \in D : h[x] = g[x]
        BY <3>3
      <4>3. h[n] = step[n][h[Parent[n]]]
        BY <3>1, <4>2
      <4>4. Sol(E, h)
        BY <3>1, <4>1, <4>2, <4>3 DEF IsTree
      <4>5. h[n] \in V
        BY <4>1
      <4> QED
        BY <4>4, <4>5
    <3> QED
      BY <3>2, <3>3
  <2>3. Nodes \subseteq T
    <3> HIDE DEF T
    <3> QED
      BY <2>1, <2>2, TreeInduction
  <2> QED
    BY <2>3
<1> DEFINE f == [n \in Nodes |-> CHOOSE v \in V : Is(n, v)]
<1>3. \A n \in Nodes : f[n] \in V /\ Is(n, f[n])
  <2> HIDE DEF Is
  <2> QED
    BY <1>2
<1>4. \A n \in Nodes : \A v : Is(n, v) => v = f[n]
  <2>1. ASSUME NEW n, NEW v, NEW w, Is(n, v), Is(n, w) PROVE v = w
    <3>1. PICK D, g : Sol(D, g) /\ n \in D /\ v = g[n]
      BY <2>1
    <3>2. PICK E, h : Sol(E, h) /\ n \in E /\ w = h[n]
      BY <2>1
    <3> HIDE DEF Sol
    <3> QED
      BY <1>1, <3>1, <3>2
  <2> HIDE DEF Is, f
  <2> QED
    BY <1>3, <2>1
<1>5. \A n \in Nodes : f[n] = step[n][IF n = Root THEN v0 ELSE f[Parent[n]]]
  <2> SUFFICES ASSUME NEW n \in Nodes
               PROVE  f[n] = step[n][IF n = Root THEN v0 ELSE f[Parent[n]]]
    OBVIOUS
  <2>1. PICK D, g : Sol(D, g) /\ n \in D /\ f[n] = g[n]
    <3> HIDE DEF Sol, f
    <3> QED
      BY <1>3
  <2>2. n # Root => Is(Parent[n], g[Parent[n]]) /\ Parent[n] \in Nodes
    BY <2>1
  <2>3. n # Root => f[Parent[n]] = g[Parent[n]]
    <3> HIDE DEF Is, f
    <3> QED
      BY <1>4, <2>2
  <2> HIDE DEF f
  <2> QED
    BY <2>1, <2>3
<1>6. f \in [Nodes -> V]
  BY <1>3
<1> HIDE DEF f
<1> QED
  BY <1>5, <1>6

\* a value for the root, and for each node a function of the value of its parent
StepsDown(Nodes, Root, Parent, V, v0, step) ==
    /\ IsTree(Nodes, Root, Parent)
    /\ v0 \in V
    /\ step \in [Nodes -> [V -> V]]

\* The same in one hypothesis.
LEMMA DefinedDown ==
  ASSUME NEW Nodes, NEW Root, NEW Parent, NEW V, NEW v0, NEW step,
         StepsDown(Nodes, Root, Parent, V, v0, step)
  PROVE  \E f \in [Nodes -> V] : \A n \in Nodes :
            f[n] = step[n][IF n = Root THEN v0 ELSE f[Parent[n]]]
<1>1. IsTree(Nodes, Root, Parent) /\ v0 \in V /\ step \in [Nodes -> [V -> V]]
  BY DEF StepsDown
<1> QED
  BY <1>1, TreeRecursion

\* the way from a set of indices to none of them: the greatest goes first
Fewer(n) == [s \in SUBSET (1 .. n) |-> IF s = {} THEN {} ELSE s \ {Max(s)}]

\* The sets of indices are a tree, which a fold over a sequence goes down.
LEMMA IndexSets ==
  ASSUME NEW n \in Nat
  PROVE  /\ IsTree(SUBSET (1 .. n), {}, Fewer(n))
         /\ \A s \in SUBSET (1 .. n) : s # {} =>
                /\ Max(s) \in s /\ Max(s) \in 1 .. n /\ s \ {Max(s)} \in SUBSET (1 .. n)
                /\ Fewer(n)[s] = s \ {Max(s)}
<1> DEFINE N == SUBSET (1 .. n)
           rank == [s \in N |-> IF s = {} THEN 0 ELSE Max(s)]
<1>1. \A s \in N : s # {} => Max(s) \in s /\ \A k \in s : k <= Max(s)
  BY MaxIsGreatest
<1>2. {} \in N /\ Fewer(n) \in [N -> N]
  BY DEF Fewer
<1>3. rank \in [N -> Nat]
  <2>1. ASSUME NEW s \in N PROVE (IF s = {} THEN 0 ELSE Max(s)) \in Nat
    <3>1. s # {} => Max(s) \in 1 .. n
      BY <1>1
    <3> QED
      BY <3>1
  <2> QED
    BY <2>1
<1>4. \A s \in N \ {{}} : rank[Fewer(n)[s]] < rank[s]
  <2> SUFFICES ASSUME NEW s \in N, s # {} PROVE rank[Fewer(n)[s]] < rank[s]
    OBVIOUS
  <2>1. Max(s) \in 1 .. n /\ \A k \in s : k <= Max(s)
    BY <1>1
  <2>2. Fewer(n)[s] = s \ {Max(s)} /\ s \ {Max(s)} \in N
    BY DEF Fewer
  <2>3. CASE s \ {Max(s)} = {}
    BY <2>1, <2>2, <2>3
  <2>4. CASE s \ {Max(s)} # {}
    <3>1. Max(s \ {Max(s)}) \in s \ {Max(s)}
      BY <1>1, <2>2, <2>4
    <3> QED
      BY <2>1, <2>2, <2>4, <3>1
  <2> QED
    BY <2>3, <2>4
<1>5. IsTree(N, {}, Fewer(n))
  <2> DEFINE z == {}
  <2> HIDE DEF N, rank, z
  <2>1. z \in N /\ Fewer(n) \in [N -> N] /\ \A s \in N \ {z} : rank[Fewer(n)[s]] < rank[s]
    BY <1>2, <1>4 DEF z
  <2>2. IsTree(N, z, Fewer(n))
    BY <1>3, <2>1, RankedTree
  <2> QED
    BY <2>2 DEF z
<1>6. \A s \in N : s # {} => /\ Max(s) \in s /\ Max(s) \in 1 .. n /\ s \ {Max(s)} \in N
                              /\ Fewer(n)[s] = s \ {Max(s)}
  BY <1>1 DEF Fewer
<1> QED
  BY <1>5, <1>6

\* the nodes above a node
GoesUp(up, Nodes, Root, Parent) ==
    /\ up \in [Nodes -> SUBSET Nodes]
    /\ \A n \in Nodes : up[n] = IF n = Root THEN {} ELSE {Parent[n]} \cup up[Parent[n]]

\* There is a function that has them.
LEMMA SomethingGoesUp ==
  ASSUME NEW Nodes, NEW Root, NEW Parent, IsTree(Nodes, Root, Parent)
  PROVE  \E up : /\ GoesUp(up, Nodes, Root, Parent)
                 /\ up = [n \in Nodes |-> IF n = Root THEN {} ELSE {Parent[n]} \cup up[Parent[n]]]
<1> DEFINE step == [n \in Nodes |-> [v \in SUBSET Nodes |->
                        IF n = Root THEN {} ELSE {Parent[n]} \cup v]]
<1>1. step \in [Nodes -> [SUBSET Nodes -> SUBSET Nodes]]
  BY DEF IsTree
<1>2. PICK up \in [Nodes -> SUBSET Nodes] : \A n \in Nodes :
         up[n] = step[n][IF n = Root THEN {} ELSE up[Parent[n]]]
  <2> DEFINE V == SUBSET Nodes
  <2>1. {} \in V /\ step \in [Nodes -> [V -> V]]
    BY <1>1
  <2> HIDE DEF step, V
  <2>2. \E up \in [Nodes -> V] : \A n \in Nodes :
           up[n] = step[n][IF n = Root THEN {} ELSE up[Parent[n]]]
    BY <2>1, TreeRecursion
  <2> QED
    BY <2>2 DEF V
<1>3. \A n \in Nodes : up[n] = IF n = Root THEN {} ELSE {Parent[n]} \cup up[Parent[n]]
  BY <1>2 DEF IsTree
<1>4. up = [n \in Nodes |-> up[n]]
  BY <1>2
<1>5. up = [n \in Nodes |-> IF n = Root THEN {} ELSE {Parent[n]} \cup up[Parent[n]]]
  BY <1>3, <1>4
<1>6. GoesUp(up, Nodes, Root, Parent)
  BY <1>2, <1>3 DEF GoesUp
<1> QED
  BY <1>5, <1>6

\* The nodes above a node, and how they lie.
LEMMA TreeOrder ==
  ASSUME NEW Nodes, NEW Root, NEW Parent, IsTree(Nodes, Root, Parent),
         NEW up, GoesUp(up, Nodes, Root, Parent)
  PROVE  /\ \A n \in Nodes : \A m \in up[n] : up[m] \subseteq up[n]
         /\ \A n \in Nodes : n \notin up[n]
         /\ \A n \in Nodes : n # Root => Root \in up[n]
         /\ \A n \in Nodes : \A a, b \in up[n] : a = b \/ a \in up[b] \/ b \in up[a]
         /\ \A a, b \in Nodes \ {Root} : Parent[a] = Parent[b] => a \notin up[b]
<1> USE DEF GoesUp
<1>1. \A n \in Nodes : \A m \in up[n] : up[m] \subseteq up[n]
  <2> DEFINE T == {n \in Nodes : \A m \in up[n] : up[m] \subseteq up[n]}
  <2>1. Root \in T
    BY DEF IsTree
  <2>2. \A n \in Nodes \ {Root} : Parent[n] \in T => n \in T
    BY DEF IsTree
  <2> HIDE DEF T
  <2>3. Nodes \subseteq T
    BY <2>1, <2>2, TreeInduction
  <2> QED
    BY <2>3 DEF T
<1>2. \A n \in Nodes : n \notin up[n]
  <2> DEFINE T == {n \in Nodes : n \notin up[n]}
  <2>1. Root \in T
    BY DEF IsTree
  <2>2. ASSUME NEW n \in Nodes \ {Root}, Parent[n] \in T PROVE n \in T
    <3>1. n # Parent[n]
      <4>1. {n} \in SUBSET (Nodes \ {Root}) /\ {n} # {}
        OBVIOUS
      <4>2. PICK x \in {n} : Parent[x] \notin {n}
        BY <4>1 DEF IsTree
      <4> QED
        BY <4>2
    <3>2. n \notin up[Parent[n]]
      BY <1>1, <2>2 DEF IsTree
    <3>3. up[n] = {Parent[n]} \cup up[Parent[n]]
      OBVIOUS
    <3> QED
      BY <3>1, <3>2, <3>3
  <2> HIDE DEF T
  <2>3. Nodes \subseteq T
    BY <2>1, <2>2, TreeInduction
  <2> QED
    BY <2>3 DEF T
<1>3. \A n \in Nodes : n # Root => Root \in up[n]
  <2> DEFINE T == {n \in Nodes : n # Root => Root \in up[n]}
  <2>1. Root \in T
    BY DEF IsTree
  <2>2. \A n \in Nodes \ {Root} : Parent[n] \in T => n \in T
    BY DEF IsTree
  <2> HIDE DEF T
  <2>3. Nodes \subseteq T
    BY <2>1, <2>2, TreeInduction
  <2> QED
    BY <2>3 DEF T
<1>4. \A n \in Nodes : \A a, b \in up[n] : a = b \/ a \in up[b] \/ b \in up[a]
  <2> DEFINE T == {n \in Nodes : \A a, b \in up[n] : a = b \/ a \in up[b] \/ b \in up[a]}
  <2>1. Root \in T
    BY DEF IsTree
  <2>2. \A n \in Nodes \ {Root} : Parent[n] \in T => n \in T
    BY DEF IsTree
  <2> HIDE DEF T
  <2>3. Nodes \subseteq T
    BY <2>1, <2>2, TreeInduction
  <2> QED
    BY <2>3 DEF T
<1>5. ASSUME NEW a \in Nodes \ {Root}, NEW b \in Nodes \ {Root}, Parent[a] = Parent[b]
      PROVE  a \notin up[b]
  <2>1. Parent[a] \in Nodes /\ Parent[a] \in up[a]
    BY DEF IsTree
  <2>2. a \notin up[Parent[a]]
    BY <1>1, <1>2, <2>1
  <2>3. a # Parent[a]
    BY <1>2, <2>1
  <2> QED
    BY <1>5, <2>2, <2>3
<1> QED
  BY <1>1, <1>2, <1>3, <1>4, <1>5

\* Nodes that hang below the root, each at some depth, are a tree.
LEMMA DepthsMakeTree ==
  ASSUME NEW Nodes, IsFiniteSet(Nodes), NEW Root \in Nodes, NEW Parent \in [Nodes -> Nodes],
         NEW D,
         D = CHOOSE g : g = [k \in Nat |->
                IF k = 0 THEN {Root}
                ELSE LET above == g[k - 1] IN {n \in Nodes : n = Root \/ Parent[n] \in above}],
         Nodes = D[Cardinality(Nodes)]
  PROVE  IsTree(Nodes, Root, Parent)
<1> DEFINE up == [k \in Nat |-> IF k = 0 THEN 0 ELSE k - 1]
           step == [k \in Nat |-> [v \in SUBSET Nodes |->
                      IF k = 0 THEN {Root} ELSE {n \in Nodes : n = Root \/ Parent[n] \in v}]]
           Is(f) == f = [k \in Nat |->
                      IF k = 0 THEN {Root}
                      ELSE LET above == f[k - 1]
                           IN  {n \in Nodes : n = Root \/ Parent[n] \in above}]
<1>1. Root \in Nodes /\ Parent \in [Nodes -> Nodes] /\ IsFiniteSet(Nodes)
  OBVIOUS
<1>2. IsTree(Nat, 0, up)
  <2> DEFINE rank == [k \in Nat |-> k]
  <2>1. /\ 0 \in Nat /\ up \in [Nat -> Nat] /\ rank \in [Nat -> Nat]
        /\ \A k \in Nat \ {0} : rank[up[k]] < rank[k]
    OBVIOUS
  <2> HIDE DEF up, rank
  <2> QED
    BY <2>1, RankedTree
<1>3. step \in [Nat -> [SUBSET Nodes -> SUBSET Nodes]] /\ {Root} \in SUBSET Nodes
  BY <1>1
<1>4. \E f \in [Nat -> SUBSET Nodes] : \A k \in Nat :
         f[k] = step[k][IF k = 0 THEN {Root} ELSE f[up[k]]]
  <2> DEFINE N == Nat
             z == 0
             V == SUBSET Nodes
             v0 == {Root}
  <2>1. IsTree(N, z, up) /\ step \in [N -> [V -> V]] /\ v0 \in V
    BY <1>2, <1>3
  <2>2. \E f \in [N -> V] : \A k \in N : f[k] = step[k][IF k = z THEN v0 ELSE f[up[k]]]
    <3>1. StepsDown(N, z, up, V, v0, step)
      BY <2>1 DEF StepsDown
    <3> HIDE DEF step, up, V, v0, N, z
    <3> QED
      BY <3>1, DefinedDown
  <2> HIDE DEF step, up
  <2> QED
    BY <2>2
<1>5. PICK f \in [Nat -> SUBSET Nodes] : \A k \in Nat :
         f[k] = step[k][IF k = 0 THEN {Root} ELSE f[up[k]]]
  BY <1>4
<1>6. \A k \in Nat : f[k] = IF k = 0 THEN {Root}
                            ELSE {n \in Nodes : n = Root \/ Parent[n] \in f[k - 1]}
  <2> SUFFICES ASSUME NEW k \in Nat
               PROVE  f[k] = IF k = 0 THEN {Root}
                             ELSE {n \in Nodes : n = Root \/ Parent[n] \in f[k - 1]}
    OBVIOUS
  <2>1. CASE k = 0
    BY <1>1, <1>5, <2>1
  <2>2. CASE k # 0
    <3>1. k - 1 \in Nat /\ up[k] = k - 1 /\ f[k - 1] \in SUBSET Nodes
      BY <2>2
    <3>2. f[k] = step[k][f[k - 1]]
      BY <1>5, <2>2, <3>1
    <3> QED
      BY <2>2, <3>1, <3>2
  <2> QED
    BY <2>1, <2>2
<1>7. \E g : Is(g)
  <2>1. f = [k \in Nat |-> f[k]]
    OBVIOUS
  <2>2. Is(f)
    BY <1>6, <2>1
  <2> QED
    BY <2>2
<1>8. D = CHOOSE g : Is(g)
  OBVIOUS
<1>9. Is(D)
  <2> HIDE DEF Is
  <2> QED
    BY <1>7, <1>8
<1>10. \A k \in Nat : D[k] = IF k = 0 THEN {Root}
                                  ELSE {n \in Nodes : n = Root \/ Parent[n] \in D[k - 1]}
  BY <1>9
<1> HIDE DEF Is, up, step
<1> DEFINE At(n) == {k \in Nat : n \in D[k]}
           depth == [n \in Nodes |-> Min(At(n))]
<1>11. \A n \in Nodes : At(n) # {}
  BY <1>1, FS_CardinalityType
<1>12. \A n \in Nodes : depth[n] \in At(n) /\ \A k \in At(n) : depth[n] <= k
  <2> SUFFICES ASSUME NEW n \in Nodes
               PROVE  depth[n] \in At(n) /\ \A k \in At(n) : depth[n] <= k
    OBVIOUS
  <2>1. At(n) \in SUBSET Nat /\ At(n) # {} /\ depth[n] = Min(At(n))
    BY <1>11
  <2> HIDE DEF At, depth
  <2> QED
    BY <2>1, MinIsLeast
<1>13. depth \in [Nodes -> Nat]
  <2>1. \A n \in Nodes : depth[n] \in Nat
    BY <1>12
  <2> QED
    BY <2>1
<1>14. ASSUME NEW n \in Nodes \ {Root} PROVE depth[Parent[n]] < depth[n]
  <2> HIDE DEF depth
  <2>1. depth[n] \in Nat /\ n \in D[depth[n]]
    BY <1>12
  <2>2. depth[n] # 0
    BY <1>10, <2>1
  <2>3. depth[n] - 1 \in Nat /\ Parent[n] \in D[depth[n] - 1] /\ Parent[n] \in Nodes
    <3>1. Parent[n] \in Nodes
      BY <1>1
    <3>2. D[depth[n]] = {m \in Nodes : m = Root \/ Parent[m] \in D[depth[n] - 1]}
      BY <1>10, <2>1, <2>2
    <3> QED
      BY <2>1, <2>2, <3>1, <3>2
  <2>4. depth[Parent[n]] <= depth[n] - 1 /\ depth[Parent[n]] \in Nat
    BY <1>12, <2>3
  <2> QED
    BY <2>1, <2>4
<1> QED
  <2> HIDE DEF depth
  <2> QED
    BY <1>1, <1>13, <1>14, RankedTree

\* The recursive function that goes up does.
LEMMA DefinitionGoesUp ==
  ASSUME NEW Nodes, NEW Root, NEW Parent, IsTree(Nodes, Root, Parent), NEW up,
         up = CHOOSE g : g = [n \in Nodes |-> IF n = Root THEN {} ELSE {Parent[n]} \cup g[Parent[n]]]
  PROVE  GoesUp(up, Nodes, Root, Parent)
<1> DEFINE Is(g) == g = [n \in Nodes |-> IF n = Root THEN {} ELSE {Parent[n]} \cup g[Parent[n]]]
<1>1. \E g : Is(g)
  BY SomethingGoesUp
<1>2. Is(up)
  <2>1. up = CHOOSE g : Is(g)
    OBVIOUS
  <2> HIDE DEF Is
  <2> QED
    BY <1>1, <2>1
<1>3. up = [n \in Nodes |-> up[n]]
      /\ \A n \in Nodes : up[n] = IF n = Root THEN {} ELSE {Parent[n]} \cup up[Parent[n]]
  BY <1>2
<1> DEFINE T == {n \in Nodes : up[n] \in SUBSET Nodes}
<1>4. Root \in T /\ \A n \in Nodes \ {Root} : Parent[n] \in T => n \in T
  <2> HIDE DEF Is
  <2>1. Root \in Nodes /\ Parent \in [Nodes -> Nodes]
    BY DEF IsTree
  <2>2. up[Root] = {}
    BY <1>3, <2>1
  <2>3. ASSUME NEW n \in Nodes \ {Root}, up[Parent[n]] \in SUBSET Nodes PROVE up[n] \in SUBSET Nodes
    <3>1. up[n] = {Parent[n]} \cup up[Parent[n]] /\ Parent[n] \in Nodes
      BY <1>3, <2>1
    <3> QED
      BY <2>3, <3>1
  <2> QED
    BY <2>1, <2>2, <2>3
<1>5. Nodes \subseteq T
  <2> HIDE DEF T
  <2> QED
    BY <1>4, TreeInduction
<1>6. up \in [Nodes -> SUBSET Nodes]
  BY <1>3, <1>5
<1> QED
  BY <1>3, <1>6 DEF GoesUp

-----------------------------------------------------------------------------
(* Sequences.                                                              *)

\* The first elements of a sequence.
LEMMA PrefixProperties ==
  ASSUME NEW S, NEW s \in Seq(S), NEW n \in 0 .. Len(s)
  PROVE  /\ SubSeq(s, 1, n) \in Seq(S)
         /\ Len(SubSeq(s, 1, n)) = n
         /\ \A i \in 1 .. n : SubSeq(s, 1, n)[i] = s[i]
BY SubSeqProperties

\* What is where after an element was put into a sequence.
LEMMA InsertAtProperties ==
  ASSUME NEW S, NEW s \in Seq(S), NEW e \in S, NEW i \in 1 .. Len(s) + 1
  PROVE  /\ InsertAt(s, i, e) \in Seq(S)
         /\ Len(InsertAt(s, i, e)) = Len(s) + 1
         /\ \A j \in 1 .. Len(s) + 1 :
               InsertAt(s, i, e)[j] = IF j < i THEN s[j] ELSE IF j = i THEN e ELSE s[j - 1]
<1> DEFINE a == SubSeq(s, 1, i - 1)
           b == SubSeq(s, i, Len(s))
<1>1. /\ a \in Seq(S) /\ Len(a) = i - 1
      /\ \A j \in 1 .. i - 1 : a[j] = s[j]
  BY SubSeqProperties
<1>2. /\ b \in Seq(S) /\ Len(b) = Len(s) + 1 - i
      /\ \A j \in 1 .. Len(s) + 1 - i : b[j] = s[i + j - 1]
  BY SubSeqProperties
<1>3. InsertAt(s, i, e) = (a \o <<e>>) \o b
  BY DEF InsertAt
<1> HIDE DEF a, b
<1>4. /\ a \o <<e>> \in Seq(S) /\ Len(a \o <<e>>) = i
      /\ \A j \in 1 .. i : (a \o <<e>>)[j] = IF j < i THEN s[j] ELSE e
  BY <1>1
<1> DEFINE c == a \o <<e>>
<1>5. /\ c \in Seq(S) /\ Len(c) = i
      /\ \A j \in 1 .. i : c[j] = IF j < i THEN s[j] ELSE e
  BY <1>4
<1> HIDE DEF c
<1>6. /\ c \o b \in Seq(S) /\ Len(c \o b) = Len(s) + 1
      /\ \A j \in 1 .. Len(s) + 1 : (c \o b)[j] = IF j <= i THEN c[j] ELSE b[j - i]
  BY <1>2, <1>5, ConcatProperties
<1>7. ASSUME NEW j \in 1 .. Len(s) + 1
      PROVE  (c \o b)[j] = IF j < i THEN s[j] ELSE IF j = i THEN e ELSE s[j - 1]
  <2>1. CASE j <= i
    BY <1>6, <1>5, <2>1
  <2>2. CASE ~ (j <= i)
    <3>1. j - i \in 1 .. Len(s) + 1 - i /\ i + (j - i) - 1 = j - 1
      BY <2>2
    <3> QED
      BY <1>2, <1>6, <2>2, <3>1
  <2> QED
    BY <2>1, <2>2
<1> QED
  BY <1>3, <1>6, <1>7 DEF c

\* What is where after one was taken out.
LEMMA RemoveAtProperties ==
  ASSUME NEW S, NEW s \in Seq(S), NEW i \in 1 .. Len(s)
  PROVE  /\ RemoveAt(s, i) \in Seq(S)
         /\ Len(RemoveAt(s, i)) = Len(s) - 1
         /\ \A j \in 1 .. Len(s) - 1 :
               RemoveAt(s, i)[j] = IF j < i THEN s[j] ELSE s[j + 1]
<1> DEFINE a == SubSeq(s, 1, i - 1)
           b == SubSeq(s, i + 1, Len(s))
<1>1. /\ a \in Seq(S) /\ Len(a) = i - 1
      /\ \A j \in 1 .. i - 1 : a[j] = s[j]
  BY SubSeqProperties
<1>2. /\ b \in Seq(S) /\ Len(b) = Len(s) - i
      /\ \A j \in 1 .. Len(s) - i : b[j] = s[i + j]
  BY SubSeqProperties
<1>3. RemoveAt(s, i) = a \o b
  BY DEF RemoveAt
<1> HIDE DEF a, b
<1>4. /\ a \o b \in Seq(S) /\ Len(a \o b) = Len(s) - 1
      /\ \A j \in 1 .. Len(s) - 1 : (a \o b)[j] = IF j <= i - 1 THEN a[j] ELSE b[j - (i - 1)]
  <2>1. /\ a \o b \in Seq(S) /\ Len(a \o b) = Len(a) + Len(b)
        /\ \A j \in 1 .. Len(a) + Len(b) :
              (a \o b)[j] = IF j <= Len(a) THEN a[j] ELSE b[j - Len(a)]
    BY <1>1, <1>2, ConcatProperties
  <2>2. Len(a) = i - 1 /\ Len(a) + Len(b) = Len(s) - 1
    BY <1>1, <1>2
  <2> QED
    BY <2>1, <2>2
<1>5. ASSUME NEW j \in 1 .. Len(s) - 1 PROVE (a \o b)[j] = IF j < i THEN s[j] ELSE s[j + 1]
  <2>1. CASE j < i
    BY <1>1, <1>4, <2>1
  <2>2. CASE ~ (j < i)
    <3>1. j - (i - 1) \in 1 .. Len(s) - i /\ i + (j - (i - 1)) = j + 1 /\ ~ (j <= i - 1)
      BY <2>2
    <3> QED
      BY <1>2, <1>4, <2>2, <3>1
  <2> QED
    BY <2>1, <2>2
<1> QED
  BY <1>3, <1>4, <1>5

\* What is left when an element is removed from a sequence that has it once.
LEMMA RemoveFirstProperties ==
  ASSUME NEW S, NEW s \in Seq(S), NEW e
  PROVE  \/ /\ ~ Contains(s, e)
            /\ RemoveFirst(s, e) = s
         \/ \E i \in 1 .. Len(s) : /\ s[i] = e
                                   /\ \A j \in 1 .. i - 1 : s[j] # e
                                   /\ RemoveFirst(s, e) = RemoveAt(s, i)
<1>1. CASE ~ Contains(s, e)
  BY <1>1 DEF Contains, RemoveFirst
<1>2. CASE Contains(s, e)
  <2> DEFINE I == {i \in 1 .. Len(s) : s[i] = e}
  <2>1. I \in SUBSET Nat /\ I # {}
    BY <1>2 DEF Contains
  <2>2. Min(I) \in I /\ \A k \in I : Min(I) <= k
    <3> HIDE DEF I
    <3> QED
      BY <2>1, MinIsLeast
  <2>3. RemoveFirst(s, e) = RemoveAt(s, Min(I))
    BY <1>2, <2>1 DEF Contains, RemoveFirst, SelectInSeq
  <2>4. \A j \in 1 .. Min(I) - 1 : s[j] # e
    BY <2>2
  <2> QED
    BY <2>2, <2>3, <2>4
<1> QED
  BY <1>1, <1>2

\* without repetition, in the order of a key
Sorted(s, key) ==
    \A i, j \in 1 .. Len(s) : i < j => key[s[i]] <= key[s[j]] /\ s[i] # s[j]

\* What is in a sequence after an element was put into it.
LEMMA InsertAtContains ==
  ASSUME NEW S, NEW s \in Seq(S), NEW e \in S, NEW i \in 1 .. Len(s) + 1, NEW x
  PROVE  Contains(InsertAt(s, i, e), x) <=> Contains(s, x) \/ x = e
<1> DEFINE t == InsertAt(s, i, e)
<1>1. /\ Len(t) = Len(s) + 1
      /\ \A j \in 1 .. Len(s) + 1 : t[j] = IF j < i THEN s[j] ELSE IF j = i THEN e ELSE s[j - 1]
  BY InsertAtProperties
<1> HIDE DEF t
<1>2. ASSUME Contains(t, x) PROVE Contains(s, x) \/ x = e
  BY <1>1, <1>2 DEF Contains
<1>3. ASSUME NEW j \in 1 .. Len(s), s[j] = x PROVE Contains(t, x)
  <2>1. CASE j < i
    BY <1>1, <1>3, <2>1 DEF Contains
  <2>2. CASE ~ (j < i)
    <3>1. j + 1 \in 1 .. Len(s) + 1 /\ t[j + 1] = s[j]
      BY <1>1, <2>2
    <3> QED
      BY <1>1, <1>3, <3>1 DEF Contains
  <2> QED
    BY <2>1, <2>2
<1>4. t[i] = e
  BY <1>1
<1> QED
  BY <1>1, <1>2, <1>3, <1>4 DEF Contains, t

\* What is left after one was taken out of a sequence without repetition.
LEMMA RemoveAtContains ==
  ASSUME NEW S, NEW s \in Seq(S), NEW i \in 1 .. Len(s), NEW x,
         \A j, k \in 1 .. Len(s) : j < k => s[j] # s[k]
  PROVE  Contains(RemoveAt(s, i), x) <=> Contains(s, x) /\ x # s[i]
<1> DEFINE t == RemoveAt(s, i)
<1>1. /\ Len(t) = Len(s) - 1
      /\ \A j \in 1 .. Len(s) - 1 : t[j] = IF j < i THEN s[j] ELSE s[j + 1]
  BY RemoveAtProperties
<1> HIDE DEF t
<1>2. ASSUME NEW j \in 1 .. Len(s) - 1, t[j] = x PROVE Contains(s, x) /\ x # s[i]
  BY <1>1, <1>2 DEF Contains
<1>3. ASSUME NEW j \in 1 .. Len(s), s[j] = x, x # s[i] PROVE Contains(t, x)
  <2>1. CASE j < i
    BY <1>1, <1>3, <2>1 DEF Contains
  <2>2. CASE j > i
    <3>1. j - 1 \in 1 .. Len(s) - 1 /\ t[j - 1] = s[j]
      BY <1>1, <2>2
    <3> QED
      BY <1>1, <1>3, <3>1 DEF Contains
  <2> QED
    BY <1>3, <2>1, <2>2
<1> QED
  BY <1>1, <1>2, <1>3 DEF Contains, t

\* An element that is put behind all that come before it leaves the order.
LEMMA InsertAtSorted ==
  ASSUME NEW S, NEW s \in Seq(S), NEW key \in [S -> Nat],
         NEW e \in S, NEW i \in 1 .. Len(s) + 1
  PROVE  /\ Sorted(s, key) /\ ~ Contains(s, e)
         /\ \A j \in 1 .. Len(s) :
               IF j < i THEN key[s[j]] <= key[e] ELSE key[e] <= key[s[j]]
         => Sorted(InsertAt(s, i, e), key)
<1> DEFINE t == InsertAt(s, i, e)
<1>1. /\ Len(t) = Len(s) + 1
      /\ \A j \in 1 .. Len(s) + 1 : t[j] = IF j < i THEN s[j] ELSE IF j = i THEN e ELSE s[j - 1]
  BY InsertAtProperties
<1> HIDE DEF t
<1> SUFFICES ASSUME Sorted(s, key), ~ Contains(s, e),
                    \A j \in 1 .. Len(s) :
                       IF j < i THEN key[s[j]] <= key[e] ELSE key[e] <= key[s[j]]
             PROVE  Sorted(t, key)
  BY DEF t
<1>2. \A j \in 1 .. Len(s) : s[j] \in S /\ s[j] # e /\ key[s[j]] \in Nat /\ key[e] \in Nat
  <2> SUFFICES ASSUME NEW j \in 1 .. Len(s)
               PROVE  s[j] \in S /\ s[j] # e /\ key[s[j]] \in Nat /\ key[e] \in Nat
    OBVIOUS
  <2>1. s[j] \in S
    OBVIOUS
  <2>2. s[j] # e
    BY DEF Contains
  <2> QED
    BY <2>1, <2>2
<1>3. ASSUME NEW j \in 1 .. Len(s) + 1, NEW k \in 1 .. Len(s) + 1, j < k
      PROVE  key[t[j]] <= key[t[k]] /\ t[j] # t[k]
  <2>1. CASE k < i
    <3>1. k \in 1 .. Len(s) /\ j \in 1 .. Len(s) /\ t[j] = s[j] /\ t[k] = s[k]
      BY <1>1, <1>3, <2>1
    <3> QED
      BY <1>3, <3>1 DEF Sorted
  <2>2. CASE k = i
    BY <1>1, <1>2, <1>3, <2>2
  <2>3. CASE k > i /\ j = i
    BY <1>1, <1>2, <1>3, <2>3
  <2>4. CASE k > i /\ j < i
    <3>1. k - 1 \in 1 .. Len(s) /\ j \in 1 .. Len(s) /\ j < k - 1 /\ t[j] = s[j] /\ t[k] = s[k - 1]
      BY <1>1, <1>3, <2>4
    <3> QED
      BY <3>1 DEF Sorted
  <2>5. CASE k > i /\ j > i
    <3>1. k - 1 \in 1 .. Len(s) /\ j - 1 \in 1 .. Len(s) /\ j - 1 < k - 1
          /\ t[j] = s[j - 1] /\ t[k] = s[k - 1]
      BY <1>1, <1>3, <2>5
    <3> QED
      BY <3>1 DEF Sorted
  <2> QED
    BY <1>3, <2>1, <2>2, <2>3, <2>4, <2>5
<1> QED
  BY <1>1, <1>3 DEF Sorted

\* Nor does taking one out disturb it.
LEMMA RemoveAtSorted ==
  ASSUME NEW S, NEW s \in Seq(S), NEW key, Sorted(s, key), NEW i \in 1 .. Len(s)
  PROVE  Sorted(RemoveAt(s, i), key)
<1> DEFINE t == RemoveAt(s, i)
<1>1. /\ Len(t) = Len(s) - 1
      /\ \A j \in 1 .. Len(s) - 1 : t[j] = IF j < i THEN s[j] ELSE s[j + 1]
  BY RemoveAtProperties
<1> HIDE DEF t
<1>2. ASSUME NEW j \in 1 .. Len(s) - 1, NEW k \in 1 .. Len(s) - 1, j < k
      PROVE  key[t[j]] <= key[t[k]] /\ t[j] # t[k]
  <2> DEFINE a == IF j < i THEN j ELSE j + 1
             b == IF k < i THEN k ELSE k + 1
  <2>1. a \in 1 .. Len(s) /\ b \in 1 .. Len(s) /\ a < b /\ t[j] = s[a] /\ t[k] = s[b]
    BY <1>1, <1>2
  <2> HIDE DEF a, b
  <2> QED
    BY <2>1 DEF Sorted
<1> QED
  BY <1>1, <1>2 DEF Sorted, t

\* Putting an element at the end is appending it.
LEMMA InsertAtEnd ==
  ASSUME NEW S, NEW s \in Seq(S), NEW e \in S
  PROVE  InsertAt(s, Len(s) + 1, e) = Append(s, e)
<1>1. Append(s, e) \in Seq(S) /\ Len(Append(s, e)) = Len(s) + 1
  OBVIOUS
<1>2. \A j \in 1 .. Len(s) + 1 : Append(s, e)[j] = IF j < Len(s) + 1 THEN s[j] ELSE e
  OBVIOUS
<1>3. Len(s) + 1 \in 1 .. Len(s) + 1
  OBVIOUS
<1>4. /\ InsertAt(s, Len(s) + 1, e) \in Seq(S)
      /\ Len(InsertAt(s, Len(s) + 1, e)) = Len(s) + 1
      /\ \A j \in 1 .. Len(s) + 1 :
            InsertAt(s, Len(s) + 1, e)[j] = IF j < Len(s) + 1 THEN s[j]
                                            ELSE IF j = Len(s) + 1 THEN e ELSE s[j - 1]
  BY <1>3, InsertAtProperties
<1>5. \A j \in 1 .. Len(s) + 1 : InsertAt(s, Len(s) + 1, e)[j] = Append(s, e)[j]
  BY <1>2, <1>4
<1> QED
  BY <1>1, <1>4, <1>5, SeqEqual

\* An element goes before the first that is greater, or to the end.
LEMMA InsertBeforeGreater ==
  ASSUME NEW S, NEW s \in Seq(S), NEW key \in [S -> Nat], Sorted(s, key),
         NEW e \in S, ~ Contains(s, e), NEW i \in 1 .. Len(s) + 1,
         \A j \in 1 .. i - 1 : key[s[j]] <= key[e],
         i # Len(s) + 1 => key[s[i]] > key[e]
  PROVE  LET t == IF i = Len(s) + 1 THEN Append(s, e) ELSE InsertAt(s, i, e)
         IN  /\ t \in Seq(S) /\ Len(t) = Len(s) + 1 /\ Sorted(t, key)
             /\ \A x : Contains(t, x) <=> Contains(s, x) \/ x = e
<1>1. \A j \in 1 .. Len(s) : s[j] \in S /\ key[s[j]] \in Nat /\ key[e] \in Nat
  OBVIOUS
<1>2. (IF i = Len(s) + 1 THEN Append(s, e) ELSE InsertAt(s, i, e)) = InsertAt(s, i, e)
  BY InsertAtEnd
<1>3. ASSUME NEW j \in 1 .. Len(s)
      PROVE  IF j < i THEN key[s[j]] <= key[e] ELSE key[e] <= key[s[j]]
  <2>1. CASE j < i
    BY <2>1
  <2>2. CASE ~ (j < i)
    <3>1. i \in 1 .. Len(s) /\ key[s[i]] > key[e]
      BY <2>2
    <3>2. i = j \/ key[s[i]] <= key[s[j]]
      BY <2>2, <3>1 DEF Sorted
    <3> QED
      BY <1>1, <2>2, <3>1, <3>2
  <2> QED
    BY <2>1, <2>2
<1>4. InsertAt(s, i, e) \in Seq(S) /\ Len(InsertAt(s, i, e)) = Len(s) + 1
  BY InsertAtProperties
<1>5. Sorted(InsertAt(s, i, e), key)
  BY <1>3, InsertAtSorted
<1>6. \A x : Contains(InsertAt(s, i, e), x) <=> Contains(s, x) \/ x = e
  BY InsertAtContains
<1> QED
  BY <1>2, <1>4, <1>5, <1>6

\* The element that is removed is gone, and no other.
LEMMA RemoveFirstSorted ==
  ASSUME NEW S, NEW s \in Seq(S), NEW key, Sorted(s, key), NEW e
  PROVE  LET t == RemoveFirst(s, e)
         IN  /\ t \in Seq(S) /\ Len(t) <= Len(s) /\ Sorted(t, key)
             /\ \A x : Contains(t, x) <=> Contains(s, x) /\ x # e
<1>1. CASE ~ Contains(s, e) /\ RemoveFirst(s, e) = s
  BY <1>1
<1>2. CASE \E i \in 1 .. Len(s) : s[i] = e /\ RemoveFirst(s, e) = RemoveAt(s, i)
  <2>1. PICK i \in 1 .. Len(s) : s[i] = e /\ RemoveFirst(s, e) = RemoveAt(s, i)
    BY <1>2
  <2>2. RemoveAt(s, i) \in Seq(S) /\ Len(RemoveAt(s, i)) <= Len(s)
    BY RemoveAtProperties
  <2>3. Sorted(RemoveAt(s, i), key)
    BY RemoveAtSorted
  <2>4. \A j, k \in 1 .. Len(s) : j < k => s[j] # s[k]
    BY DEF Sorted
  <2>5. \A x : Contains(RemoveAt(s, i), x) <=> Contains(s, x) /\ x # s[i]
    BY <2>4, RemoveAtContains
  <2> QED
    BY <2>1, <2>2, <2>3, <2>5
<1> QED
  BY <1>1, <1>2, RemoveFirstProperties

\* The first element of a sequence, and what is left without it.
LEMMA TailProperties ==
  ASSUME NEW S, NEW s \in Seq(S), s # <<>>
  PROVE  /\ Head(s) \in S /\ Tail(s) \in Seq(S)
         /\ Len(s) >= 1 /\ Len(Tail(s)) = Len(s) - 1
         /\ Head(s) = s[1] /\ \A i \in 1 .. Len(s) - 1 : Tail(s)[i] = s[i + 1]
         /\ \A x : Contains(s, x) <=> x = Head(s) \/ Contains(Tail(s), x)
         /\ \A x : Contains(Tail(s), x) => Contains(s, x)
<1> DEFINE t == Tail(s)
<1>1. /\ t \in Seq(S) /\ Len(t) = Len(s) - 1 /\ Len(s) \in Nat /\ Len(s) >= 1
      /\ Head(s) = s[1] /\ Head(s) \in S
      /\ \A i \in 1 .. Len(s) - 1 : t[i] = s[i + 1]
  OBVIOUS
<1> HIDE DEF t
<1>2. ASSUME NEW x, Contains(t, x) PROVE Contains(s, x)
  <2>1. PICK i \in 1 .. Len(t) : t[i] = x
    BY <1>2 DEF Contains
  <2>2. i + 1 \in 1 .. Len(s) /\ s[i + 1] = x
    BY <1>1, <2>1
  <2> QED
    BY <2>2 DEF Contains
<1>3. Contains(s, Head(s))
  BY <1>1 DEF Contains
<1>4. ASSUME NEW x, Contains(s, x) PROVE x = Head(s) \/ Contains(t, x)
  <2>1. PICK i \in 1 .. Len(s) : s[i] = x
    BY <1>4 DEF Contains
  <2>2. i # 1 => i - 1 \in 1 .. Len(t) /\ t[i - 1] = x
    BY <1>1, <2>1
  <2> QED
    BY <1>1, <2>1, <2>2 DEF Contains
<1> QED
  BY <1>1, <1>2, <1>3, <1>4 DEF t

\* In the order of a key the first comes before the others.
LEMMA TailSorted ==
  ASSUME NEW S, NEW s \in Seq(S), s # <<>>, NEW key, Sorted(s, key)
  PROVE  /\ Sorted(Tail(s), key)
         /\ ~ Contains(Tail(s), Head(s))
         /\ \A x : Contains(Tail(s), x) => key[Head(s)] <= key[x]
<1> DEFINE t == Tail(s)
<1>1. /\ t \in Seq(S) /\ Len(t) = Len(s) - 1 /\ Len(s) \in Nat /\ Len(s) >= 1
      /\ Head(s) = s[1] /\ \A i \in 1 .. Len(s) - 1 : t[i] = s[i + 1]
  OBVIOUS
<1> HIDE DEF t
<1>2. \A i \in 1 .. Len(t) : i + 1 \in 1 .. Len(s) /\ t[i] = s[i + 1]
  BY <1>1
<1>3. Sorted(t, key)
  <2> SUFFICES ASSUME NEW i \in 1 .. Len(t), NEW j \in 1 .. Len(t), i < j
               PROVE  key[t[i]] <= key[t[j]] /\ t[i] # t[j]
    BY DEF Sorted
  <2>1. i + 1 \in 1 .. Len(s) /\ j + 1 \in 1 .. Len(s) /\ i + 1 < j + 1
    BY <1>2
  <2>2. key[s[i + 1]] <= key[s[j + 1]] /\ s[i + 1] # s[j + 1]
    BY <2>1 DEF Sorted
  <2> QED
    BY <1>2, <2>2
<1>4. ASSUME NEW x, Contains(t, x) PROVE key[Head(s)] <= key[x] /\ x # Head(s)
  <2>1. PICK i \in 1 .. Len(t) : t[i] = x
    BY <1>4 DEF Contains
  <2>2. 1 \in 1 .. Len(s) /\ i + 1 \in 1 .. Len(s) /\ 1 < i + 1 /\ s[i + 1] = x
    BY <1>1, <1>2, <2>1
  <2>3. key[s[1]] <= key[s[i + 1]] /\ s[1] # s[i + 1]
    BY <2>2 DEF Sorted
  <2> QED
    BY <1>1, <2>2, <2>3
<1> QED
  BY <1>3, <1>4 DEF t

\* What is in two sequences is in the one made of them.
LEMMA ConcatContains ==
  ASSUME NEW S, NEW s \in Seq(S), NEW t \in Seq(S)
  PROVE  /\ s \o t \in Seq(S)
         /\ \A x : Contains(s \o t, x) <=> Contains(s, x) \/ Contains(t, x)
<1> DEFINE c == s \o t
<1>1. /\ c \in Seq(S) /\ Len(c) = Len(s) + Len(t) /\ Len(s) \in Nat /\ Len(t) \in Nat
      /\ \A i \in 1 .. Len(s) + Len(t) : c[i] = IF i <= Len(s) THEN s[i] ELSE t[i - Len(s)]
  BY ConcatProperties
<1> HIDE DEF c
<1>2. ASSUME NEW x, Contains(s, x) PROVE Contains(c, x)
  BY <1>1, <1>2 DEF Contains
<1>3. ASSUME NEW x, Contains(t, x) PROVE Contains(c, x)
  <2>1. PICK i \in 1 .. Len(t) : t[i] = x
    BY <1>3 DEF Contains
  <2>2. i + Len(s) \in 1 .. Len(c) /\ c[i + Len(s)] = x
    BY <1>1, <2>1
  <2> QED
    BY <2>2 DEF Contains
<1>4. ASSUME NEW x, Contains(c, x) PROVE Contains(s, x) \/ Contains(t, x)
  <2>1. PICK i \in 1 .. Len(c) : c[i] = x
    BY <1>4 DEF Contains
  <2>2. CASE i <= Len(s)
    BY <1>1, <2>1, <2>2 DEF Contains
  <2>3. CASE ~ i <= Len(s)
    <3>1. i - Len(s) \in 1 .. Len(t) /\ t[i - Len(s)] = x
      BY <1>1, <2>1, <2>3
    <3> QED
      BY <3>1 DEF Contains
  <2> QED
    BY <2>2, <2>3
<1> QED
  BY <1>1, <1>2, <1>3, <1>4 DEF c

\* What is in a sequence with one element, or none.
LEMMA SingletonContains ==
  (\A x, y : Contains(<<y>>, x) <=> x = y) /\ (\A x : ~ Contains(<<>>, x))
<1>1. ASSUME NEW x, NEW y PROVE Contains(<<y>>, x) <=> x = y
  BY DEF Contains
<1>2. ASSUME NEW x PROVE ~ Contains(<<>>, x)
  BY DEF Contains
<1> QED
  BY <1>1, <1>2
=============================================================================
