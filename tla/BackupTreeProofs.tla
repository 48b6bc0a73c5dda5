-------------------------- MODULE BackupTreeProofs --------------------------
(***************************************************************************)
(* Proofs about BackupTree and BackupPages, for every file system, every   *)
(* configuration that may have been loaded and any number of locations and *)
(* rules: the tree shows what a backup scans, no node keeps a pointer to   *)
(* what was erased, and the effect of a click reaches as far as its branch *)
(* says.                                                                   *)
(***************************************************************************)
EXTENDS BackupPages, TreeFacts

-----------------------------------------------------------------------------
(* The files.                                                              *)

\* Every node hangs below the root.
LEMMA NodesAreTree == IsTree(Nodes, Root, Parent)
<1> DEFINE D == DownTo
<1>1. D = CHOOSE g : g = [k \in Nat |->
                IF k = 0 THEN {Root}
                ELSE LET above == g[k - 1] IN {n \in Nodes : n = Root \/ Parent[n] \in above}]
  BY DEF DownTo
<1>2. Nodes = D[Cardinality(Nodes)]
  BY TreeAssumption
<1>3. Root \in Nodes /\ Parent \in [Nodes -> Nodes] /\ IsFiniteSet(Nodes)
  BY FileSystemAssumption
<1> HIDE DEF D
<1> QED
  BY <1>1, <1>2, <1>3, DepthsMakeTree

\* The directories above a node are what the definition says.
LEMMA AncestorsGoUp ==
  IsTree(Nodes, Root, Parent) /\ GoesUp(Ancestors, Nodes, Root, Parent)
<1>1. Root \in Nodes /\ Parent \in [Nodes -> Nodes]
  BY FileSystemAssumption
<1>2. IsTree(Nodes, Root, Parent)
  BY NodesAreTree
<1> DEFINE Is(up) == up = [n \in Nodes |-> IF n = Root THEN {} ELSE {Parent[n]} \cup up[Parent[n]]]
           up == CHOOSE up : Is(up)
<1>3. \E f : Is(f)
  BY <1>2, SomethingGoesUp
<1>4. Ancestors = [n \in Nodes |-> up[n]]
  BY DEF Ancestors
<1>5. Is(up)
  <2> HIDE DEF Is
  <2> QED
    BY <1>3
<1>6. \A n \in Nodes : up[n] = IF n = Root THEN {} ELSE {Parent[n]} \cup up[Parent[n]]
  <2> HIDE DEF up
  <2> QED
    BY <1>5
<1> HIDE DEF up, Is
<1>7. \A n \in Nodes : Ancestors[n] = IF n = Root THEN {} ELSE {Parent[n]} \cup Ancestors[Parent[n]]
  BY <1>1, <1>4, <1>6
<1> DEFINE T == {n \in Nodes : Ancestors[n] \in SUBSET Nodes}
<1>8. Root \in T /\ \A n \in Nodes \ {Root} : Parent[n] \in T => n \in T
  BY <1>1, <1>7
<1>9. Nodes \subseteq T
  <2> HIDE DEF T
  <2> QED
    BY <1>2, <1>8, TreeInduction
<1>10. Ancestors \in [Nodes -> SUBSET Nodes]
  BY <1>4, <1>9
<1> QED
  BY <1>2, <1>7, <1>10 DEF GoesUp

\* What the proofs need of the files.
LEMMA FileTree ==
  /\ Root \in Nodes /\ Dirs \subseteq Nodes /\ Parent \in [Nodes -> Nodes]
  /\ NULL \notin Nodes
  /\ Ancestors \in [Nodes -> SUBSET Nodes]
  /\ Ancestors[Root] = {}
  /\ \A n \in Nodes \ {Root} : Ancestors[n] = {Parent[n]} \cup Ancestors[Parent[n]]
  /\ \A n \in Nodes : n \notin Ancestors[n]
  /\ \A n \in Nodes : n # Root => Root \in Ancestors[n]
  /\ \A n \in Nodes : \A m \in Ancestors[n] : Ancestors[m] \subseteq Ancestors[n]
  /\ \A n \in Nodes : \A a, b \in Ancestors[n] : a = b \/ a \in Ancestors[b] \/ b \in Ancestors[a]
<1> DEFINE up == Ancestors
<1>1. IsTree(Nodes, Root, Parent) /\ GoesUp(up, Nodes, Root, Parent)
  BY AncestorsGoUp
<1> HIDE DEF up
<1>2. /\ \A n \in Nodes : n \notin up[n]
      /\ \A n \in Nodes : n # Root => Root \in up[n]
      /\ \A n \in Nodes : \A m \in up[n] : up[m] \subseteq up[n]
      /\ \A n \in Nodes : \A a, b \in up[n] : a = b \/ a \in up[b] \/ b \in up[a]
  BY <1>1, TreeOrder
<1>3. /\ up \in [Nodes -> SUBSET Nodes]
      /\ \A n \in Nodes : up[n] = IF n = Root THEN {} ELSE {Parent[n]} \cup up[Parent[n]]
  BY <1>1 DEF GoesUp
<1>4. Root \in Nodes /\ Dirs \subseteq Nodes /\ Parent \in [Nodes -> Nodes] /\ NULL \notin Nodes
  BY FileSystemAssumption
<1>5. up[Root] = {} /\ \A n \in Nodes \ {Root} : up[n] = {Parent[n]} \cup up[Parent[n]]
  BY <1>3, <1>4
<1> QED
  BY <1>2, <1>3, <1>4, <1>5 DEF up

\* What is below a node is what the node is above of.
LEMMA BelowIsAbove ==
  /\ \A n \in Nodes : \A m : m \in Below[n] <=> m \in Nodes /\ n \in Ancestors[m]
  /\ \A n \in Nodes : \A m : m \in Subtree[n] <=> m = n \/ (m \in Nodes /\ n \in Ancestors[m])
BY DEF Below, Subtree

-----------------------------------------------------------------------------
(* Lists of rules.                                                         *)

\* some rule of this sense names the node
Says(list, sense, n) == \E e : Contains(list, e) /\ e.sense = sense /\ Applies(e, n)

\* The first element that passes a test is one of the sequence, if one is.
LEMMA FirstIs ==
  ASSUME NEW I \in SUBSET Nat
  PROVE  LET i == IF I # {} THEN Min(I) ELSE 0
         IN  /\ I # {} => i \in I /\ \A j \in I : i <= j
             /\ I = {} => i = 0
<1>1. CASE I = {}
  BY <1>1
<1>2. CASE I # {}
  BY <1>2, MinIsLeast
<1> QED
  BY <1>1, <1>2

\* The first match is a rule of the list that names the node, or there is none.
LEMMA FirstMatchIs ==
  ASSUME NEW list \in Seq(Entry), NEW sense, NEW n
  PROVE  LET first == FirstMatch(list, sense, n)
         IN  /\ Says(list, sense, n) =>
                  /\ first \in Entry /\ first # NULL /\ Contains(list, first)
                  /\ first.sense = sense /\ Applies(first, n)
             /\ ~ Says(list, sense, n) => first = NULL
<1> DEFINE I == {j \in 1 .. Len(list) : list[j].sense = sense /\ Applies(list[j], n)}
           i == IF I # {} THEN Min(I) ELSE 0
<1>1. FirstMatch(list, sense, n) = IF i = 0 THEN NULL ELSE list[i]
  BY DEF FirstMatch, SelectInSeq
<1>2. I \in SUBSET Nat
  OBVIOUS
<1>3. /\ I # {} => i \in I
      /\ I = {} => i = 0
  <2> HIDE DEF I
  <2> QED
    BY <1>2, FirstIs
<1>4. Says(list, sense, n) <=> I # {}
  BY DEF Says, Contains
<1>5. CASE I = {}
  BY <1>1, <1>3, <1>4, <1>5
<1>6. CASE I # {}
  <2>1. i \in 1 .. Len(list) /\ list[i].sense = sense /\ Applies(list[i], n)
    <3> HIDE DEF i
    <3> QED
      BY <1>3, <1>6
  <2> HIDE DEF i
  <2>2. i # 0 /\ list[i] \in Entry /\ Contains(list, list[i])
    BY <2>1 DEF Contains
  <2>3. list[i] # NULL
    BY <2>2, EntryAssumption
  <2> QED
    BY <1>1, <1>4, <1>6, <2>1, <2>2, <2>3
<1> QED
  BY <1>5, <1>6

\* The library leaves out what an Exclude rule names and no AlwaysInclude rule.
LEMMA ExcludedByBoxIs ==
  ASSUME NEW list \in Seq(Entry), NEW n
  PROVE  ExcludedByBox(list, n) <=> Says(list, "exclude", n) /\ ~ Says(list, "always", n)
BY DEF ExcludedByBox, Says, Contains

\* A rule that is added is in the list, and no other comes or goes.
LEMMA AddEntryIs ==
  ASSUME NEW list \in Seq(Entry), NEW e \in Entry
  PROVE  /\ AddEntry(list, e) \in Seq(Entry)
         /\ \A x : Contains(AddEntry(list, e), x) <=> Contains(list, x) \/ x = e
<1>1. CASE Contains(list, e)
  BY <1>1 DEF AddEntry
<1>2. CASE ~ Contains(list, e)
  <2> DEFINE new == Append(list, e)
  <2>1. /\ new \in Seq(Entry) /\ Len(new) = Len(list) + 1
        /\ \A i \in 1 .. Len(list) : new[i] = list[i]
        /\ new[Len(list) + 1] = e
    OBVIOUS
  <2>2. AddEntry(list, e) = new
    BY <1>2 DEF AddEntry
  <2> HIDE DEF new
  <2>3. Len(list) \in Nat
    OBVIOUS
  <2>4. ASSUME NEW x PROVE Contains(new, x) <=> Contains(list, x) \/ x = e
    <3>1. ASSUME Contains(new, x) PROVE Contains(list, x) \/ x = e
      <4>1. PICK i \in 1 .. Len(list) + 1 : new[i] = x
        BY <2>1, <3>1 DEF Contains
      <4> QED
        BY <2>1, <2>3, <4>1 DEF Contains
    <3>2. ASSUME Contains(list, x) PROVE Contains(new, x)
      <4>1. PICK i \in 1 .. Len(list) : list[i] = x
        BY <3>2 DEF Contains
      <4> QED
        BY <2>1, <2>3, <4>1 DEF Contains
    <3>3. Contains(new, e)
      BY <2>1, <2>3 DEF Contains
    <3> QED
      BY <3>1, <3>2, <3>3
  <2> QED
    BY <2>1, <2>2, <2>4
<1> QED
  BY <1>1, <1>2

\* So it is wherever it is put.
LEMMA InsertEntryIs ==
  ASSUME NEW list \in Seq(Entry), NEW pos \in Nat, NEW e \in Entry
  PROVE  /\ InsertEntry(list, pos, e) \in Seq(Entry)
         /\ \A x : Contains(InsertEntry(list, pos, e), x) <=> Contains(list, x) \/ x = e
<1>1. CASE Contains(list, e)
  BY <1>1 DEF InsertEntry
<1>2. CASE ~ Contains(list, e)
  <2> DEFINE i == 1 + (IF pos < Len(list) THEN pos ELSE Len(list))
  <2>1. i \in 1 .. Len(list) + 1
    OBVIOUS
  <2>2. InsertEntry(list, pos, e) = InsertAt(list, i, e)
    BY <1>2 DEF InsertEntry
  <2> HIDE DEF i
  <2>3. InsertAt(list, i, e) \in Seq(Entry)
    BY <2>1, InsertAtProperties
  <2>4. \A x : Contains(InsertAt(list, i, e), x) <=> Contains(list, x) \/ x = e
    BY <2>1, InsertAtContains
  <2> QED
    BY <2>2, <2>3, <2>4
<1> QED
  BY <1>1, <1>2

\* A rule that is removed may be there a second time, but no other goes.
LEMMA RemoveEntryIs ==
  ASSUME NEW list \in Seq(Entry), NEW e
  PROVE  /\ RemoveEntry(list, e) \in Seq(Entry)
         /\ \A x : Contains(RemoveEntry(list, e), x) => Contains(list, x)
         /\ \A x : Contains(list, x) /\ x # e => Contains(RemoveEntry(list, e), x)
<1>1. CASE ~ Contains(list, e) /\ RemoveFirst(list, e) = list
  BY <1>1 DEF RemoveEntry
<1>2. CASE \E i \in 1 .. Len(list) : list[i] = e /\ RemoveFirst(list, e) = RemoveAt(list, i)
  <2>1. PICK i \in 1 .. Len(list) : list[i] = e /\ RemoveFirst(list, e) = RemoveAt(list, i)
    BY <1>2
  <2> DEFINE new == RemoveAt(list, i)
  <2>2. /\ new \in Seq(Entry) /\ Len(new) = Len(list) - 1
        /\ \A j \in 1 .. Len(list) - 1 : new[j] = IF j < i THEN list[j] ELSE list[j + 1]
    BY RemoveAtProperties
  <2>3. RemoveEntry(list, e) = new
    BY <2>1 DEF RemoveEntry
  <2> HIDE DEF new
  <2>4. Len(list) \in Nat
    OBVIOUS
  <2>5. ASSUME NEW x, Contains(new, x) PROVE Contains(list, x)
    <3>1. PICK j \in 1 .. Len(list) - 1 : new[j] = x
      BY <2>2, <2>5 DEF Contains
    <3>2. j \in 1 .. Len(list) /\ j + 1 \in 1 .. Len(list)
      BY <2>4
    <3> QED
      BY <2>2, <3>1, <3>2 DEF Contains
  <2>6. ASSUME NEW x, Contains(list, x), x # e PROVE Contains(new, x)
    <3>1. PICK j \in 1 .. Len(list) : list[j] = x
      BY <2>6 DEF Contains
    <3>2. CASE j < i
      <4>1. j \in 1 .. Len(list) - 1
        BY <2>4, <3>2
      <4> QED
        BY <2>2, <3>1, <3>2, <4>1 DEF Contains
    <3>3. CASE ~ (j < i)
      <4>1. j # i
        BY <2>1, <2>6, <3>1
      <4>2. j - 1 \in 1 .. Len(list) - 1 /\ ~ (j - 1 < i) /\ (j - 1) + 1 = j
        BY <2>4, <3>3, <4>1
      <4>3. new[j - 1] = x
        BY <2>2, <3>1, <4>2
      <4> QED
        BY <2>2, <4>2, <4>3 DEF Contains
    <3> QED
      BY <3>2, <3>3
  <2> QED
    BY <2>2, <2>3, <2>5, <2>6
<1> QED
  BY <1>1, <1>2, RemoveFirstProperties

\* Replacing a rule makes a list of rules.
LEMMA ReplaceEntryIs ==
  ASSUME NEW list \in Seq(Entry), NEW old, NEW new \in Entry
  PROVE  ReplaceEntry(list, old, new) \in Seq(Entry)
<1> DEFINE i == SelectInSeq(list, LAMBDA e : e = old)
<1>1. ReplaceEntry(list, old, new) = [list EXCEPT ![i] = new]
  BY DEF ReplaceEntry, ReplaceAt
<1> HIDE DEF i
<1>2. [list EXCEPT ![i] = new] \in [1 .. Len(list) -> Entry]
  <2>1. list \in [1 .. Len(list) -> Entry]
    OBVIOUS
  <2> QED
    BY <2>1
<1>3. \A f \in [1 .. Len(list) -> Entry] : f \in Seq(Entry)
  OBVIOUS
<1> QED
  BY <1>1, <1>2, <1>3

-----------------------------------------------------------------------------
(* The locations.                                                          *)

\* The list of a location is that of the first with its path.
LEMMA ListOfIs ==
  ASSUME NEW locs \in Seq(Location), NEW p \in Paths(locs)
  PROVE  /\ IndexOf(locs, p) \in 1 .. Len(locs)
         /\ locs[IndexOf(locs, p)].path = p
         /\ \A j \in 1 .. Len(locs) : locs[j].path = p => IndexOf(locs, p) <= j
         /\ ListOf(locs, p) \in Seq(Entry)
<1> DEFINE I == {j \in 1 .. Len(locs) : locs[j].path = p}
           i == IF I # {} THEN Min(I) ELSE 0
<1>1. IndexOf(locs, p) = i
  BY DEF IndexOf, SelectInSeq
<1>2. I # {} /\ I \in SUBSET Nat
  BY DEF Paths
<1>3. i \in I /\ \A j \in I : i <= j
  <2> HIDE DEF I
  <2> QED
    BY <1>2, FirstIs
<1> HIDE DEF i
<1>4. i \in 1 .. Len(locs) /\ locs[i].path = p
  BY <1>3
<1>5. locs[i].excluded \in Seq(Entry)
  <2>1. locs[i] \in Location
    BY <1>4
  <2> QED
    BY <2>1 DEF Location
<1> QED
  BY <1>1, <1>3, <1>4, <1>5 DEF ListOf

\* What says where the locations are, and with which rules.
SameLocations(locs, new) ==
    /\ Paths(new) = Paths(locs)
    /\ \A p \in Paths(locs) : ListOf(new, p) = ListOf(locs, p)

\* A new list for a location changes no other list and no path.
LEMMA SetListIs ==
  ASSUME NEW locs \in Seq(Location), NEW p \in Paths(locs), NEW list \in Seq(Entry)
  PROVE  LET new == SetList(locs, p, list)
         IN  /\ new \in Seq(Location) /\ Len(new) = Len(locs)
             /\ Paths(new) = Paths(locs)
             /\ ListOf(new, p) = list
             /\ \A q \in Paths(locs) \ {p} : ListOf(new, q) = ListOf(locs, q)
<1> DEFINE k == IndexOf(locs, p)
           e == [locs[k] EXCEPT !.excluded = list]
           new == SetList(locs, p, list)
<1>1. k \in 1 .. Len(locs) /\ locs[k].path = p
  BY ListOfIs
<1>2. new = [locs EXCEPT ![k] = e]
  BY DEF SetList
<1> HIDE DEF k, new
<1>3. e \in Location /\ e.path = p /\ e.excluded = list
  <2>1. locs[k] \in Location
    BY <1>1
  <2> QED
    BY <1>1, <2>1 DEF Location
<1> HIDE DEF e
<1>4. /\ new \in Seq(Location) /\ Len(new) = Len(locs)
      /\ \A j \in 1 .. Len(locs) : new[j] = IF j = k THEN e ELSE locs[j]
  BY <1>1, <1>2, <1>3, ExceptSeq
<1>5. \A j \in 1 .. Len(locs) : new[j].path = locs[j].path
  BY <1>1, <1>3, <1>4
<1>6. Paths(new) = Paths(locs)
  <2>1. DOMAIN new = 1 .. Len(locs) /\ DOMAIN locs = 1 .. Len(locs)
    BY <1>4
  <2> QED
    BY <1>5, <2>1 DEF Paths
<1>7. \A q : IndexOf(new, q) = IndexOf(locs, q)
  <2> SUFFICES ASSUME NEW q PROVE IndexOf(new, q) = IndexOf(locs, q)
    OBVIOUS
  <2>1. {j \in 1 .. Len(new) : new[j].path = q} = {j \in 1 .. Len(locs) : locs[j].path = q}
    BY <1>4, <1>5
  <2> QED
    BY <2>1 DEF IndexOf, SelectInSeq
<1>8. ListOf(new, p) = list
  BY <1>1, <1>3, <1>4, <1>7 DEF ListOf, k
<1>9. ASSUME NEW q \in Paths(locs) \ {p} PROVE ListOf(new, q) = ListOf(locs, q)
  <2>1. IndexOf(locs, q) \in 1 .. Len(locs) /\ IndexOf(locs, q) # k
    BY <1>1, ListOfIs
  <2> QED
    BY <1>4, <1>7, <2>1 DEF ListOf
<1> QED
  BY <1>4, <1>6, <1>8, <1>9 DEF new

-----------------------------------------------------------------------------
(* The states of the nodes.                                                *)

Icons == {"always", "alwaysGrey", "crossed", "crossedGrey", "checked", "checkedGrey",
          "partial", "empty"}

\* what a node may cache when these are the locations
NodeStates(locs) ==
    [location   : (Paths(locs) \cap Nodes) \cup {NULL},
     excludedBy : Entry \cup {NULL},
     includedBy : Entry \cup {NULL},
     icon       : Icons]

\* the state that a node inherits in the tree t
Inherited(t, n) == IF n = Root THEN NoState ELSE t[Parent[n]]

\* opened from the root down
Loaded(D) ==
    /\ D \in SUBSET Nodes
    /\ Root \in D
    /\ \A n \in D \ {Root} : Parent[n] \in D

\* every node shows what follows from the locations and the state of its parent
UpToDate(locs, t) ==
    /\ Loaded(DOMAIN t)
    /\ t = [n \in DOMAIN t |-> t[n]]
    /\ \A n \in DOMAIN t : t[n] = UpdateState(locs, n, Inherited(t, n))

\* The icon is one of the eight.
LEMMA IconIs == \A locs, n, loc, s : IconOf(locs, n, loc, s) \in Icons
BY DEF IconOf, Icons

\* What a node shows when its parent is excluded, at the top of its location,
\* and elsewhere.
LEMMA RulesSayIs ==
  ASSUME NEW locs \in Seq(Location), NEW n \in Nodes, NEW loc \in (Paths(locs) \cap Nodes) \cup {NULL},
         NEW parent
  PROVE  LET s  == RulesSay(locs, n, loc, parent)
             ex == FirstMatch(ListOf(locs, loc), "exclude", n)
             in == FirstMatch(ListOf(locs, loc), "always", n)
         IN  /\ \/ loc = NULL \/ loc = n
                \/ parent.excludedBy # NULL /\ parent.includedBy = NULL
                => s.excludedBy = parent.excludedBy /\ s.includedBy = parent.includedBy
             /\ loc # NULL /\ loc # n /\ (parent.excludedBy = NULL \/ parent.includedBy # NULL)
                => /\ s.includedBy = in
                   /\ s.excludedBy = IF ex = NULL /\ in # NULL THEN parent.excludedBy ELSE ex
<1>1. CASE loc = NULL \/ (parent.excludedBy # NULL /\ parent.includedBy = NULL)
  BY <1>1 DEF RulesSay, Unmatched
<1>2. CASE ~ (loc = NULL \/ (parent.excludedBy # NULL /\ parent.includedBy = NULL))
  <2>1. RulesSay(locs, n, loc, parent) =
           GetExcludedState(ListOf(locs, loc), loc, n, Unmatched(parent))
    BY <1>2 DEF RulesSay
  <2> QED
    BY <1>2, <2>1 DEF GetExcludedState, Unmatched
<1> QED
  BY <1>1, <1>2

\* What a node caches is made of the locations and rules that there are.
LEMMA UpdateStateTyped ==
  ASSUME NEW locs \in Seq(Location), NEW n \in Nodes, NEW parent \in NodeStates(locs) \cup {NoState}
  PROVE  UpdateState(locs, n, parent) \in NodeStates(locs)
<1> DEFINE loc == LocationOf(locs, n, parent)
           s == RulesSay(locs, n, loc, parent)
           ex == FirstMatch(ListOf(locs, loc), "exclude", n)
           in == FirstMatch(ListOf(locs, loc), "always", n)
<1>1. /\ parent.location \in (Paths(locs) \cap Nodes) \cup {NULL}
      /\ parent.excludedBy \in Entry \cup {NULL} /\ parent.includedBy \in Entry \cup {NULL}
  BY DEF NodeStates, NoState
<1>2. loc \in (Paths(locs) \cap Nodes) \cup {NULL}
  BY <1>1 DEF LocationOf
<1>3. UpdateState(locs, n, parent) =
         [location |-> loc, excludedBy |-> s.excludedBy, includedBy |-> s.includedBy,
          icon |-> IconOf(locs, n, loc, s)]
  BY DEF UpdateState, NodeState
<1>4. loc # NULL => ex \in Entry \cup {NULL} /\ in \in Entry \cup {NULL}
  BY <1>2, ListOfIs, FirstMatchIs
<1> HIDE DEF loc, ex, in
<1>5. s.excludedBy \in Entry \cup {NULL} /\ s.includedBy \in Entry \cup {NULL}
  <2>1. \/ s.excludedBy = parent.excludedBy /\ s.includedBy = parent.includedBy
        \/ /\ loc # NULL /\ s.includedBy = in
           /\ s.excludedBy = IF ex = NULL /\ in # NULL THEN parent.excludedBy ELSE ex
    <3> HIDE DEF s
    <3> QED
      BY <1>2, RulesSayIs DEF ex, in, s
  <2> QED
    BY <1>1, <1>4, <2>1
<1> HIDE DEF s
<1>6. IconOf(locs, n, loc, s) \in Icons
  BY IconIs
<1> QED
  BY <1>2, <1>3, <1>5, <1>6 DEF NodeStates

\* What a node shows depends on the paths of the locations and, in a location,
\* on its rules.
LEMMA UpdateStateSame ==
  ASSUME NEW locs, NEW new, NEW n, NEW parent, Paths(new) = Paths(locs),
         LET p == LocationOf(locs, n, parent)
         IN  p # NULL => ListOf(new, p) = ListOf(locs, p)
  PROVE  UpdateState(new, n, parent) = UpdateState(locs, n, parent)
<1> DEFINE loc == LocationOf(locs, n, parent)
<1>1. LocationOf(new, n, parent) = loc
  BY DEF LocationOf
<1>2. RulesSay(new, n, loc, parent) = RulesSay(locs, n, loc, parent)
  BY DEF RulesSay
<1>3. \A s : IconOf(new, n, loc, s) = IconOf(locs, n, loc, s)
  BY DEF IconOf
<1> QED
  BY <1>1, <1>2, <1>3 DEF UpdateState, NodeState

\* The nodes that are loaded are a tree of their own.
LEMMA LoadedTree ==
  ASSUME NEW D, Loaded(D)
  PROVE  IsTree(D, Root, [n \in D |-> IF n = Root THEN Root ELSE Parent[n]])
<1> DEFINE up == [n \in D |-> IF n = Root THEN Root ELSE Parent[n]]
<1>1. Root \in D /\ D \subseteq Nodes /\ \A n \in D \ {Root} : Parent[n] \in D
  BY DEF Loaded
<1>2. up \in [D -> D] /\ \A n \in D \ {Root} : up[n] = Parent[n]
  BY <1>1
<1> HIDE DEF up
<1>3. ASSUME NEW S \in SUBSET (D \ {Root}), S # {} PROVE \E n \in S : up[n] \notin S
  <2>1. \E n \in S : Parent[n] \notin S
    BY <1>1, <1>3, NodesAreTree DEF IsTree
  <2> QED
    BY <1>2, <2>1
<1>4. IsTree(D, Root, up)
  BY <1>1, <1>2, <1>3 DEF IsTree
<1> QED
  BY <1>4 DEF up

\* a function for each loaded node, of the value of its parent
Stepping(D, V, v0, step) == Loaded(D) /\ v0 \in V /\ step \in [D -> [V -> V]]

\* What is defined from the root down, there is.
LEMMA LoadedRecursion ==
  ASSUME NEW D, NEW V, NEW v0, NEW step, Stepping(D, V, v0, step)
  PROVE  \E f \in [D -> V] : \A n \in D :
            f[n] = step[n][IF n = Root THEN v0 ELSE f[Parent[n]]]
<1>0. Loaded(D) /\ v0 \in V /\ step \in [D -> [V -> V]]
  BY DEF Stepping
<1> DEFINE up == [n \in D |-> IF n = Root THEN Root ELSE Parent[n]]
<1>1. IsTree(D, Root, up) /\ \A n \in D : n # Root => up[n] = Parent[n]
  BY <1>0, LoadedTree
<1> HIDE DEF up
<1>2. PICK f \in [D -> V] : \A n \in D : f[n] = step[n][IF n = Root THEN v0 ELSE f[up[n]]]
  BY <1>0, <1>1, TreeRecursion
<1>3. \A n \in D : f[n] = step[n][IF n = Root THEN v0 ELSE f[Parent[n]]]
  BY <1>1, <1>2
<1> QED
  BY <1>3

\* Induction over the nodes that are loaded.
LEMMA LoadedInduction ==
  ASSUME NEW D, Loaded(D), NEW T, Root \in T,
         \A n \in D \ {Root} : Parent[n] \in T => n \in T
  PROVE  D \subseteq T
<1> DEFINE up == [n \in D |-> IF n = Root THEN Root ELSE Parent[n]]
<1>1. IsTree(D, Root, up)
  BY LoadedTree
<1>2. \A n \in D \ {Root} : up[n] \in T => n \in T
  OBVIOUS
<1> HIDE DEF up
<1> QED
  BY <1>1, <1>2, TreeInduction

\* With a node those above it are loaded.
LEMMA LoadedAbove ==
  ASSUME NEW D, Loaded(D), NEW n \in D
  PROVE  Ancestors[n] \subseteq D
<1> DEFINE T == {m \in D : Ancestors[m] \subseteq D}
<1>1. D \subseteq Nodes /\ Root \in D /\ \A m \in D \ {Root} : Parent[m] \in D
  BY DEF Loaded
<1>2. Root \in T /\ \A m \in D \ {Root} : Parent[m] \in T => m \in T
  BY <1>1, FileTree
<1>3. D \subseteq T
  <2> HIDE DEF T
  <2> QED
    BY <1>2, LoadedInduction
<1> QED
  BY <1>3

\* a refresh makes states of the set S, and meets no others
Stays(locs, old, from, S) ==
    /\ \A n \in DOMAIN old, v \in S \cup {NoState} : UpdateState(locs, n, v) \in S
    /\ \A n \in DOMAIN old : n \notin Subtree[from] => old[n] \in S

\* Such a refresh does what its definition says.
LEMMA RefreshedWithin ==
  ASSUME NEW locs, NEW old, Loaded(DOMAIN old), NEW from, NEW S
  PROVE  LET new == Refreshed(locs, old, from)
         IN  Stays(locs, old, from, S) =>
                /\ DOMAIN new = DOMAIN old
                /\ new = [n \in DOMAIN new |-> new[n]]
                /\ \A n \in DOMAIN old :
                      new[n] = IF n \in Subtree[from] THEN UpdateState(locs, n, Inherited(new, n))
                               ELSE old[n]
<1> DEFINE D == DOMAIN old
           V == S \cup {NoState}
           say(n, v) == IF n \in Subtree[from] THEN UpdateState(locs, n, v) ELSE old[n]
           step == [n \in D |-> [v \in V |-> IF say(n, v) \in S THEN say(n, v) ELSE NoState]]
<1>1. Root \in D /\ \A n \in D \ {Root} : Parent[n] \in D
  BY DEF Loaded
<1>2. step \in [D -> [V -> V]]
  <2> HIDE DEF say, D
  <2> QED
    OBVIOUS
<1>3. \E f \in [D -> V] : \A n \in D : f[n] = step[n][IF n = Root THEN NoState ELSE f[Parent[n]]]
  <2> DEFINE v0 == NoState
  <2>1. Stepping(D, V, v0, step)
    BY <1>2 DEF Stepping
  <2>2. \E f \in [D -> V] : \A n \in D : f[n] = step[n][IF n = Root THEN v0 ELSE f[Parent[n]]]
    <3> HIDE DEF D, step, V, v0
    <3> QED
      BY <2>1, LoadedRecursion
  <2> QED
    BY <2>2
<1> DEFINE Is(f) == f = [n \in D |->
                      IF n \in Subtree[from]
                      THEN UpdateState(locs, n, IF n = Root THEN NoState ELSE f[Parent[n]])
                      ELSE old[n]]
           new == CHOOSE f : Is(f)
<1>4. NoState \in V
  OBVIOUS
<1>5. Refreshed(locs, old, from) = [n \in D |-> new[n]]
  BY DEF Refreshed
<1> SUFFICES ASSUME \A n \in D, v \in V : UpdateState(locs, n, v) \in S,
                    \A n \in D : n \notin Subtree[from] => old[n] \in S
             PROVE  LET r == Refreshed(locs, old, from)
                    IN  /\ DOMAIN r = DOMAIN old
                        /\ r = [n \in DOMAIN r |-> r[n]]
                        /\ \A n \in DOMAIN old :
                              r[n] = IF n \in Subtree[from] THEN UpdateState(locs, n, Inherited(r, n))
                                     ELSE old[n]
  BY DEF Stays
<1>6. PICK f \in [D -> V] : \A n \in D : f[n] = step[n][IF n = Root THEN NoState ELSE f[Parent[n]]]
  BY <1>3
<1>7. ASSUME NEW n \in D
      PROVE  f[n] = IF n \in Subtree[from]
                    THEN UpdateState(locs, n, IF n = Root THEN NoState ELSE f[Parent[n]])
                    ELSE old[n]
  <2> DEFINE v == IF n = Root THEN NoState ELSE f[Parent[n]]
  <2>1. v \in V
    <3>1. CASE n = Root
      BY <1>4, <3>1
    <3>2. CASE n # Root
      <4>1. Parent[n] \in D
        BY <1>1, <3>2
      <4> HIDE DEF V
      <4> QED
        BY <3>2, <4>1
    <3> QED
      BY <3>1, <3>2
  <2>2. f[n] = step[n][v]
    <3> HIDE DEF step
    <3> QED
      BY <1>6
  <2> HIDE DEF v, V
  <2>3. say(n, v) \in S
    BY <2>1 DEF V
  <2> HIDE DEF say
  <2>4. f[n] = say(n, v)
    BY <2>1, <2>2, <2>3
  <2> QED
    BY <2>4 DEF v, say
<1>8. \E g : Is(g)
  <2>1. f = [n \in D |-> f[n]]
    OBVIOUS
  <2>2. Is(f)
    BY <1>7, <2>1
  <2> QED
    BY <2>2
<1>9. Is(new)
  <2> HIDE DEF Is
  <2> QED
    BY <1>8
<1>11. new = [n \in D |-> new[n]]
  <2> HIDE DEF new
  <2> QED
    BY <1>9
<1>12. Refreshed(locs, old, from) = new
  BY <1>5, <1>11
<1>13. \A n \in D : new[n] = IF n \in Subtree[from]
                             THEN UpdateState(locs, n, IF n = Root THEN NoState ELSE new[Parent[n]])
                             ELSE old[n]
  <2> HIDE DEF new
  <2> QED
    BY <1>9
<1>14. DOMAIN new = D
  <2> HIDE DEF new, D
  <2> QED
    BY <1>11
<1> HIDE DEF new, Is
<1>15. \A n \in D : new[n] = IF n \in Subtree[from] THEN UpdateState(locs, n, Inherited(new, n))
                             ELSE old[n]
  BY <1>13 DEF Inherited
<1> QED
  BY <1>11, <1>12, <1>14, <1>15

\* A refresh gives each node below the one it starts from what follows from the
\* new state of its parent, and leaves the others alone.
LEMMA RefreshedIs ==
  ASSUME NEW locs \in Seq(Location), NEW old, Loaded(DOMAIN old), NEW from \in Nodes,
         \A n \in DOMAIN old : n \notin Subtree[from] => old[n] \in NodeStates(locs)
  PROVE  LET new == Refreshed(locs, old, from)
         IN  /\ DOMAIN new = DOMAIN old
             /\ new = [n \in DOMAIN new |-> new[n]]
             /\ \A n \in DOMAIN old :
                   new[n] = IF n \in Subtree[from] THEN UpdateState(locs, n, Inherited(new, n))
                            ELSE old[n]
<1> DEFINE S == NodeStates(locs)
<1>1. \A n \in DOMAIN old, v \in S \cup {NoState} : UpdateState(locs, n, v) \in S
  BY UpdateStateTyped DEF Loaded
<1>2. Stays(locs, old, from, S)
  BY <1>1 DEF Stays
<1> HIDE DEF S
<1> QED
  BY <1>2, RefreshedWithin

\* A tree that is up to date caches only locations and rules that may be there.
LEMMA StatesTyped ==
  ASSUME NEW locs \in Seq(Location), NEW t, UpToDate(locs, t)
  PROVE  \A n \in DOMAIN t : t[n] \in NodeStates(locs)
<1> DEFINE D == DOMAIN t
           T == {n \in D : t[n] \in NodeStates(locs)}
<1>1. /\ Loaded(D) /\ D \subseteq Nodes /\ Root \in D
      /\ \A n \in D \ {Root} : Parent[n] \in D
  BY DEF UpToDate, Loaded
<1>2. \A n \in D : t[n] = UpdateState(locs, n, Inherited(t, n))
  BY DEF UpToDate
<1>3. Root \in T
  BY <1>1, <1>2, UpdateStateTyped DEF Inherited
<1>4. \A n \in D \ {Root} : Parent[n] \in T => n \in T
  BY <1>1, <1>2, UpdateStateTyped DEF Inherited
<1>5. D \subseteq T
  <2> HIDE DEF T, D
  <2> QED
    BY <1>1, <1>3, <1>4, LoadedInduction
<1> QED
  BY <1>5

\* Refreshed from the root, every tree is up to date.
LEMMA AllRefreshed ==
  ASSUME NEW locs \in Seq(Location), NEW old, Loaded(DOMAIN old)
  PROVE  /\ UpToDate(locs, Refreshed(locs, old, Root))
         /\ DOMAIN Refreshed(locs, old, Root) = DOMAIN old
<1> DEFINE new == Refreshed(locs, old, Root)
<1>1. DOMAIN old \subseteq Subtree[Root]
  BY FileTree, BelowIsAbove DEF Loaded
<1>2. Root \in Nodes
  BY FileTree
<1>3. /\ DOMAIN new = DOMAIN old /\ new = [n \in DOMAIN new |-> new[n]]
      /\ \A n \in DOMAIN old :
            new[n] = IF n \in Subtree[Root] THEN UpdateState(locs, n, Inherited(new, n)) ELSE old[n]
  BY <1>1, <1>2, RefreshedIs
<1> HIDE DEF new
<1>4. UpToDate(locs, new)
  BY <1>1, <1>3 DEF UpToDate
<1> QED
  BY <1>3, <1>4 DEF new

\* There is only one such tree.
LEMMA UpToDateUnique ==
  ASSUME NEW locs, NEW s, NEW t, UpToDate(locs, s), UpToDate(locs, t), DOMAIN s = DOMAIN t
  PROVE  s = t
<1> DEFINE D == DOMAIN t
           T == {n \in D : s[n] = t[n]}
<1>1. /\ Loaded(D) /\ Root \in D /\ s = [n \in D |-> s[n]] /\ t = [n \in D |-> t[n]]
      /\ \A n \in D \ {Root} : Parent[n] \in D
  BY DEF UpToDate, Loaded
<1>2. \A n \in D : /\ s[n] = UpdateState(locs, n, Inherited(s, n))
                   /\ t[n] = UpdateState(locs, n, Inherited(t, n))
  BY DEF UpToDate
<1>3. Root \in T
  BY <1>1, <1>2 DEF Inherited
<1>4. \A n \in D \ {Root} : Parent[n] \in T => n \in T
  BY <1>1, <1>2 DEF Inherited
<1>5. D \subseteq T
  <2> HIDE DEF T, D
  <2> QED
    BY <1>1, <1>3, <1>4, LoadedInduction
<1> QED
  BY <1>1, <1>5

-----------------------------------------------------------------------------
(* What a tree shows that is up to date.                                   *)

LeftOut(s) == s.excludedBy # NULL /\ s.includedBy = NULL

\* What a node shows, given what its parent shows.
LEMMA StateIs ==
  ASSUME NEW locs \in Seq(Location), NEW t, UpToDate(locs, t), NEW n \in DOMAIN t
  PROVE  LET parent == Inherited(t, n)
             loc    == t[n].location
             ex     == FirstMatch(ListOf(locs, loc), "exclude", n)
             in     == FirstMatch(ListOf(locs, loc), "always", n)
         IN  /\ loc \in (Paths(locs) \cap Nodes) \cup {NULL}
             /\ loc = LocationOf(locs, n, parent)
             /\ loc = NULL \/ loc = n \/ LeftOut(parent) =>
                   t[n].excludedBy = parent.excludedBy /\ t[n].includedBy = parent.includedBy
             /\ loc # NULL /\ loc # n /\ ~ LeftOut(parent) =>
                   /\ t[n].includedBy = in
                   /\ t[n].excludedBy = IF ex = NULL /\ in # NULL THEN parent.excludedBy ELSE ex
             /\ t[n].icon = "partial" <=>
                   /\ loc = NULL /\ t[n].excludedBy = NULL /\ t[n].includedBy = NULL
                   /\ Below[n] \cap Paths(locs) # {}
<1> DEFINE parent == Inherited(t, n)
           loc == LocationOf(locs, n, parent)
           s == RulesSay(locs, n, loc, parent)
<1>1. n \in Nodes /\ t[n] = UpdateState(locs, n, parent) /\ t[n] \in NodeStates(locs)
  BY StatesTyped DEF UpToDate, Loaded
<1>2. t[n] = [location |-> loc, excludedBy |-> s.excludedBy, includedBy |-> s.includedBy,
              icon |-> IconOf(locs, n, loc, s)]
  BY <1>1 DEF UpdateState, NodeState
<1> HIDE DEF parent, loc, s
<1>3. /\ t[n].location = loc /\ t[n].excludedBy = s.excludedBy /\ t[n].includedBy = s.includedBy
      /\ t[n].icon = IconOf(locs, n, loc, s)
  BY <1>2
<1>4. loc \in (Paths(locs) \cap Nodes) \cup {NULL}
  BY <1>1, <1>3 DEF NodeStates
<1>5. /\ loc = NULL \/ loc = n \/ LeftOut(parent)
         => s.excludedBy = parent.excludedBy /\ s.includedBy = parent.includedBy
      /\ loc # NULL /\ loc # n /\ ~ LeftOut(parent)
         => LET ex == FirstMatch(ListOf(locs, loc), "exclude", n)
                in == FirstMatch(ListOf(locs, loc), "always", n)
            IN  /\ s.includedBy = in
                /\ s.excludedBy = IF ex = NULL /\ in # NULL THEN parent.excludedBy ELSE ex
  BY <1>1, <1>4, RulesSayIs DEF LeftOut, s
<1>6. IconOf(locs, n, loc, s) = "partial" <=>
         /\ loc = NULL /\ s.excludedBy = NULL /\ s.includedBy = NULL
         /\ Below[n] \cap Paths(locs) # {}
  BY DEF IconOf
<1> QED
  BY <1>3, <1>4, <1>5, <1>6 DEF parent, loc

\* The location of a node is the topmost above it, or itself, and the rules
\* that it caches are rules of that location.
WellPlaced(locs, t, n) ==
    LET p == t[n].location
    IN  /\ p = NULL => /\ ({n} \cup Ancestors[n]) \cap Paths(locs) = {}
                       /\ t[n].excludedBy = NULL /\ t[n].includedBy = NULL
        /\ p # NULL => /\ p \in Paths(locs) /\ p \in DOMAIN t /\ p \in Nodes
                       /\ n \in Subtree[p]
                       /\ Ancestors[p] \cap Paths(locs) = {}
                       /\ p = n => t[n].excludedBy = NULL /\ t[n].includedBy = NULL
                       /\ p # n => n # Root /\ t[Parent[n]].location = p
                       /\ \A r \in {t[n].excludedBy, t[n].includedBy} \ {NULL} :
                             Contains(ListOf(locs, p), r)

\* If the parent is well placed a node is.
LEMMA WellPlacedBelow ==
  ASSUME NEW locs \in Seq(Location), NEW t, UpToDate(locs, t), NEW n \in DOMAIN t, n # Root,
         WellPlaced(locs, t, Parent[n])
  PROVE  WellPlaced(locs, t, n)
<1> DEFINE m == Parent[n]
           p == t[n].location
           ex == FirstMatch(ListOf(locs, p), "exclude", n)
           in == FirstMatch(ListOf(locs, p), "always", n)
<1>1. /\ n \in Nodes /\ m \in DOMAIN t /\ m \in Nodes /\ Inherited(t, n) = t[m]
      /\ Ancestors[n] = {m} \cup Ancestors[m]
  BY FileTree DEF UpToDate, Loaded, Inherited
<1>2. /\ p \in (Paths(locs) \cap Nodes) \cup {NULL}
      /\ p = IF t[m].location # NULL THEN t[m].location ELSE IF n \in Paths(locs) THEN n ELSE NULL
      /\ p = NULL \/ p = n \/ LeftOut(t[m]) =>
            t[n].excludedBy = t[m].excludedBy /\ t[n].includedBy = t[m].includedBy
      /\ p # NULL /\ p # n /\ ~ LeftOut(t[m]) =>
            /\ t[n].includedBy = in
            /\ t[n].excludedBy = IF ex = NULL /\ in # NULL THEN t[m].excludedBy ELSE ex
  BY <1>1, StateIs DEF LocationOf
<1>3. CASE p = NULL
  <2>1. t[m].location = NULL /\ n \notin Paths(locs)
    BY <1>1, <1>2, <1>3, FileTree
  <2>2. /\ ({m} \cup Ancestors[m]) \cap Paths(locs) = {}
        /\ t[m].excludedBy = NULL /\ t[m].includedBy = NULL
    BY <2>1 DEF WellPlaced
  <2> QED
    BY <1>1, <1>2, <1>3, <2>1, <2>2 DEF WellPlaced
<1>4. CASE p # NULL /\ t[m].location = NULL
  <2>1. p = n /\ n \in Paths(locs)
    BY <1>2, <1>4
  <2>2. /\ ({m} \cup Ancestors[m]) \cap Paths(locs) = {}
        /\ t[m].excludedBy = NULL /\ t[m].includedBy = NULL
    BY <1>4 DEF WellPlaced
  <2>3. n \in Subtree[n]
    BY <1>1, BelowIsAbove
  <2> QED
    BY <1>1, <1>2, <1>4, <2>1, <2>2, <2>3 DEF WellPlaced
<1>5. CASE p # NULL /\ t[m].location # NULL
  <2>1. p = t[m].location
    BY <1>2, <1>5
  <2>2. /\ p \in Paths(locs) /\ p \in DOMAIN t /\ p \in Nodes /\ m \in Subtree[p]
        /\ Ancestors[p] \cap Paths(locs) = {}
        /\ \A r \in {t[m].excludedBy, t[m].includedBy} \ {NULL} : Contains(ListOf(locs, p), r)
    BY <1>5, <2>1 DEF WellPlaced
  <2>3. p \in Ancestors[n] /\ p # n /\ n \in Subtree[p]
    BY <1>1, <2>2, FileTree, BelowIsAbove
  <2>4. ListOf(locs, p) \in Seq(Entry)
    BY <2>2, ListOfIs
  <2>5. /\ ex # NULL => Contains(ListOf(locs, p), ex)
        /\ in # NULL => Contains(ListOf(locs, p), in)
    BY <2>4, FirstMatchIs
  <2> HIDE DEF ex, in
  <2>6. \A r \in {t[n].excludedBy, t[n].includedBy} \ {NULL} : Contains(ListOf(locs, p), r)
    <3>1. \/ t[n].excludedBy = t[m].excludedBy /\ t[n].includedBy = t[m].includedBy
          \/ t[n].includedBy = in /\ t[n].excludedBy \in {t[m].excludedBy, ex}
      BY <1>2, <1>5
    <3> QED
      BY <2>2, <2>5, <3>1
  <2> QED
    BY <1>5, <2>1, <2>2, <2>3, <2>6 DEF WellPlaced
<1> QED
  BY <1>3, <1>4, <1>5

\* So all nodes are.
LEMMA AllWellPlaced ==
  ASSUME NEW locs \in Seq(Location), NEW t, UpToDate(locs, t)
  PROVE  \A n \in DOMAIN t : WellPlaced(locs, t, n)
<1> DEFINE D == DOMAIN t
           T == {n \in D : WellPlaced(locs, t, n)}
<1>1. Loaded(D) /\ Root \in D /\ Root \in Nodes /\ \A n \in D \ {Root} : Parent[n] \in D
  BY FileTree DEF UpToDate, Loaded
<1>2. WellPlaced(locs, t, Root)
  <2> DEFINE p == t[Root].location
  <2>1. /\ p = IF Root \in Paths(locs) THEN Root ELSE NULL
        /\ t[Root].excludedBy = NULL /\ t[Root].includedBy = NULL
    BY <1>1, StateIs DEF Inherited, NoState, LocationOf
  <2>2. Ancestors[Root] = {} /\ Root \in Subtree[Root] /\ Root # NULL
    BY <1>1, FileTree, BelowIsAbove
  <2> QED
    BY <1>1, <2>1, <2>2 DEF WellPlaced
<1>3. \A n \in D \ {Root} : Parent[n] \in T => n \in T
  BY <1>1, WellPlacedBelow
<1>4. D \subseteq T
  <2> HIDE DEF D
  <2>1. Root \in T
    BY <1>1, <1>2
  <2> HIDE DEF T
  <2> QED
    BY <1>1, <1>3, <2>1, LoadedInduction
<1> QED
  BY <1>4

\* The outermost location that a node is in is the one that it caches.
LEMMA OutermostIs ==
  ASSUME NEW locs \in Seq(Location), NEW t, UpToDate(locs, t), NEW n \in DOMAIN t
  PROVE  {p \in Paths(locs) \cap Nodes : n \in Subtree[p] /\ Ancestors[p] \cap Paths(locs) = {}}
            = IF t[n].location = NULL THEN {} ELSE {t[n].location}
<1> DEFINE p == t[n].location
<1>1. WellPlaced(locs, t, n) /\ n \in Nodes
  BY AllWellPlaced DEF UpToDate, Loaded
<1>2. CASE p = NULL
  <2>1. ({n} \cup Ancestors[n]) \cap Paths(locs) = {}
    BY <1>1, <1>2 DEF WellPlaced
  <2>2. \A q \in Nodes : n \in Subtree[q] => q \in {n} \cup Ancestors[n]
    BY BelowIsAbove
  <2> QED
    BY <1>2, <2>1, <2>2
<1>3. CASE p # NULL
  <2>1. /\ p \in Paths(locs) \cap Nodes /\ n \in Subtree[p]
        /\ Ancestors[p] \cap Paths(locs) = {}
    BY <1>1, <1>3 DEF WellPlaced
  <2>2. ASSUME NEW q \in Paths(locs) \cap Nodes, n \in Subtree[q], Ancestors[q] \cap Paths(locs) = {}
        PROVE  q = p
    <3>1. q \in {n} \cup Ancestors[n] /\ p \in {n} \cup Ancestors[n]
      BY <2>1, <2>2, BelowIsAbove
    <3>2. q = p \/ q \in Ancestors[p] \/ p \in Ancestors[q]
      BY <1>1, <3>1, FileTree
    <3> QED
      BY <2>1, <2>2, <3>2
  <2> QED
    BY <1>3, <2>1, <2>2
<1> QED
  BY <1>2, <1>3

\* In a location the nodes that are shown as included are those that are scanned.
LEMMA ShownIsScanned ==
  ASSUME NEW locs \in Seq(Location), NEW t, UpToDate(locs, t), NEW n \in DOMAIN t,
         t[n].location # NULL
  PROVE  ~ LeftOut(t[n]) <=> n \in Scanned(ListOf(locs, t[n].location), t[n].location)
<1> DEFINE D == DOMAIN t
           Right(m) == LET p == t[m].location
                       IN  p # NULL => (~ LeftOut(t[m]) <=> m \in Scanned(ListOf(locs, p), p))
           T == {m \in D : Right(m)}
<1>1. Loaded(D) /\ Root \in D /\ D \subseteq Nodes /\ \A m \in D \ {Root} : Parent[m] \in D
  BY DEF UpToDate, Loaded
<1>2. ASSUME NEW m \in D, t[m].location = m PROVE Right(m)
  <2>1. WellPlaced(locs, t, m) /\ m \in Nodes /\ m # NULL
    BY <1>1, AllWellPlaced, FileTree
  <2>2. ~ LeftOut(t[m])
    BY <1>2, <2>1 DEF WellPlaced, LeftOut
  <2>3. m \in Subtree[m] /\ \A a \in {m} \cup Ancestors[m] : m \notin Ancestors[a]
    BY <2>1, FileTree, BelowIsAbove
  <2>4. m \in Scanned(ListOf(locs, m), m)
    BY <2>3 DEF Scanned
  <2> QED
    BY <1>2, <2>2, <2>4
<1>3. Root \in T
  <2>1. WellPlaced(locs, t, Root) /\ Root \in Nodes
    BY <1>1, AllWellPlaced
  <2>2. t[Root].location = NULL \/ t[Root].location = Root
    BY <2>1 DEF WellPlaced
  <2>3. Right(Root)
    <3>1. CASE t[Root].location = NULL
      BY <3>1
    <3>2. CASE t[Root].location = Root
      BY <1>1, <1>2, <3>2
    <3> QED
      BY <2>2, <3>1, <3>2
  <2> QED
    BY <1>1, <2>3
<1>4. ASSUME NEW m \in D \ {Root}, Parent[m] \in T PROVE m \in T
  <2> DEFINE up == Parent[m]
             p == t[m].location
             list == ListOf(locs, p)
             ex == FirstMatch(list, "exclude", m)
             in == FirstMatch(list, "always", m)
  <2>1. /\ WellPlaced(locs, t, m) /\ m \in Nodes /\ up \in D /\ up \in Nodes
        /\ Inherited(t, m) = t[up] /\ Ancestors[m] = {up} \cup Ancestors[up] /\ Right(up)
    BY <1>1, <1>4, AllWellPlaced, FileTree DEF Inherited
  <2>2. CASE p = NULL
    BY <2>2
  <2>3. CASE p # NULL /\ p = m
    BY <1>2, <2>3
  <2>4. CASE p # NULL /\ p # m
    <3>1. p \in Paths(locs) /\ p \in Nodes /\ m \in Subtree[p] /\ t[up].location = p
      BY <2>1, <2>4 DEF WellPlaced
    <3>2. ~ LeftOut(t[up]) <=> up \in Scanned(list, p)
      BY <2>1, <2>4, <3>1
    <3>3. /\ LeftOut(t[up]) => t[m].excludedBy = t[up].excludedBy /\ t[m].includedBy = t[up].includedBy
          /\ ~ LeftOut(t[up]) =>
                /\ t[m].includedBy = in
                /\ t[m].excludedBy = IF ex = NULL /\ in # NULL THEN t[up].excludedBy ELSE ex
      BY <2>1, <2>4, StateIs
    <3>4. list \in Seq(Entry)
      BY <3>1, ListOfIs
    <3>5. p \in Ancestors[m] /\ up \in Subtree[p]
      BY <2>1, <2>4, <3>1, BelowIsAbove
    <3>6. m \in Scanned(list, p) <=> up \in Scanned(list, p) /\ ~ ExcludedByBox(list, m)
      BY <2>1, <3>1, <3>5 DEF Scanned
    <3>7. ~ ExcludedByBox(list, m) <=> ex = NULL \/ in # NULL
      BY <3>4, FirstMatchIs, ExcludedByBoxIs
    <3> HIDE DEF ex, in, list
    <3>8. ~ LeftOut(t[m]) <=> m \in Scanned(list, p)
      BY <3>2, <3>3, <3>6, <3>7 DEF LeftOut
    <3> QED
      BY <1>1, <3>8 DEF list
  <2> QED
    BY <2>2, <2>3, <2>4
<1>5. D \subseteq T
  <2> HIDE DEF T, D
  <2> QED
    BY <1>1, <1>3, <1>4, LoadedInduction
<1> QED
  BY <1>5

-----------------------------------------------------------------------------
(* The three invariants follow from the tree being up to date.             *)

TreeInv == locations \in Seq(Location) /\ UpToDate(locations, tree)

\* What is shown as included is what the outermost location scans.
LEMMA ShowsBackup == TreeInv => TreeShowsBackup
<1> SUFFICES ASSUME TreeInv, NEW n \in DOMAIN tree
             PROVE  ShownIncluded(n) <=>
                        \E p \in OutermostLocations(n) : n \in Scanned(ListOf(locations, p), p)
  BY DEF TreeShowsBackup
<1>1. locations \in Seq(Location) /\ UpToDate(locations, tree)
  BY DEF TreeInv
<1>2. OutermostLocations(n) = IF tree[n].location = NULL THEN {} ELSE {tree[n].location}
  BY <1>1, OutermostIs DEF OutermostLocations
<1>3. ShownIncluded(n) <=> tree[n].location # NULL /\ ~ LeftOut(tree[n])
  BY DEF ShownIncluded, LeftOut
<1>4. CASE tree[n].location = NULL
  BY <1>2, <1>3, <1>4
<1>5. CASE tree[n].location # NULL
  <2>1. ~ LeftOut(tree[n])
          <=> n \in Scanned(ListOf(locations, tree[n].location), tree[n].location)
    BY <1>1, <1>5, ShownIsScanned
  <2> QED
    BY <1>2, <1>3, <1>5, <2>1
<1> QED
  BY <1>4, <1>5

\* What a node caches is still there.
LEMMA NothingDangles == TreeInv => RulesNotDangling
<1> SUFFICES ASSUME TreeInv, NEW n \in DOMAIN tree, tree[n].location # NULL
             PROVE  /\ tree[n].location \in Paths(locations)
                    /\ \A r \in {tree[n].excludedBy, tree[n].includedBy} \ {NULL} :
                           Contains(ListOf(locations, tree[n].location), r)
  BY DEF RulesNotDangling
<1>1. WellPlaced(locations, tree, n)
  BY AllWellPlaced DEF TreeInv
<1> QED
  BY <1>1 DEF WellPlaced

\* The partial tick is where it belongs.
LEMMA TicksArePartial == TreeInv => PartialTicks
<1> SUFFICES ASSUME TreeInv, NEW n \in DOMAIN tree
             PROVE  tree[n].icon = "partial" <=>
                        /\ OutermostLocations(n) = {}
                        /\ Below[n] \cap Paths(locations) # {}
  BY DEF PartialTicks
<1>1. locations \in Seq(Location) /\ UpToDate(locations, tree)
  BY DEF TreeInv
<1>2. OutermostLocations(n) = IF tree[n].location = NULL THEN {} ELSE {tree[n].location}
  BY <1>1, OutermostIs DEF OutermostLocations
<1>3. WellPlaced(locations, tree, n)
  BY <1>1, AllWellPlaced
<1>4. tree[n].icon = "partial" <=>
         /\ tree[n].location = NULL /\ tree[n].excludedBy = NULL /\ tree[n].includedBy = NULL
         /\ Below[n] \cap Paths(locations) # {}
  BY <1>1, StateIs
<1>5. tree[n].location = NULL => tree[n].excludedBy = NULL /\ tree[n].includedBy = NULL
  BY <1>3 DEF WellPlaced
<1> QED
  BY <1>2, <1>4, <1>5

-----------------------------------------------------------------------------
(* The rules that open a path.                                             *)

\* the list with an AlwaysInclude rule for each node of the chain
WithChain(list, pos, chain) ==
    FoldLeft(LAMBDA l, m : InsertEntry(l, pos, AlwaysInclude(m)), list, chain)

\* A fold over a list of nodes adds a rule for each of them and nothing else.
LEMMA WithChainIs ==
  ASSUME NEW list \in Seq(Entry), NEW pos \in Nat, NEW chain \in Seq(Nodes)
  PROVE  /\ WithChain(list, pos, chain) \in Seq(Entry)
         /\ \A x : Contains(WithChain(list, pos, chain), x)
                     <=> Contains(list, x) \/ \E m : Contains(chain, m) /\ x = AlwaysInclude(m)
<1> DEFINE N == SUBSET (DOMAIN chain)
           V == Seq(Entry)
           up == [s \in N |-> IF s = {} THEN {} ELSE s \ {Max(s)}]
           rank == [s \in N |-> IF s = {} THEN 0 ELSE Max(s)]
           put(s, v) == IF s = {} THEN list
                        ELSE InsertEntry(v, pos, AlwaysInclude(chain[Max(s)]))
           step == [s \in N |-> [v \in V |-> put(s, v)]]
           Is(f) == f = [s \in N |->
                           IF s = {} THEN list
                           ELSE InsertEntry(f[s \ {Max(s)}], pos, AlwaysInclude(chain[Max(s)]))]
           fold == CHOOSE f : Is(f)
<1>0. \A s \in N : s # {} => /\ Max(s) \in s /\ \A k \in s : k <= Max(s)
                             /\ Max(s) \in 1 .. Len(chain)
  <2> SUFFICES ASSUME NEW s \in N, s # {}
               PROVE  Max(s) \in s /\ (\A k \in s : k <= Max(s)) /\ Max(s) \in 1 .. Len(chain)
    OBVIOUS
  <2>1. DOMAIN chain = 1 .. Len(chain) /\ Len(chain) \in Nat
    OBVIOUS
  <2> QED
    BY <2>1, MaxIsGreatest
<1>1. WithChain(list, pos, chain) = fold[DOMAIN chain]
  BY DEF WithChain, FoldLeft, MapThenFoldSet
<1>2. \A m \in Nodes : AlwaysInclude(m) \in Entry
  BY DEF AlwaysInclude, NewEntry, Entry, FileDirOf
<1>3. \A s \in N : s # {} => AlwaysInclude(chain[Max(s)]) \in Entry
  BY <1>0, <1>2
<1>4. IsTree(N, {}, up)
  <2>1. {} \in N /\ up \in [N -> N]
    OBVIOUS
  <2>2. rank \in [N -> Nat]
    BY <1>0
  <2>3. \A s \in N \ {{}} : rank[up[s]] < rank[s]
    <3> SUFFICES ASSUME NEW s \in N, s # {} PROVE rank[up[s]] < rank[s]
      OBVIOUS
    <3>1. Max(s) \in 1 .. Len(chain) /\ \A k \in s : k <= Max(s)
      BY <1>0
    <3>2. CASE s \ {Max(s)} = {}
      BY <3>1, <3>2
    <3>3. CASE s \ {Max(s)} # {}
      <4>1. s \ {Max(s)} \in N
        OBVIOUS
      <4>2. Max(s \ {Max(s)}) \in s \ {Max(s)}
        BY <1>0, <3>3, <4>1
      <4> QED
        BY <3>1, <3>3, <4>1, <4>2
    <3> QED
      BY <3>2, <3>3
  <2> HIDE DEF N, up, rank
  <2> QED
    BY <2>1, <2>2, <2>3, RankedTree
<1>5. step \in [N -> [V -> V]]
  BY <1>3, InsertEntryIs
<1>6. \E f : Is(f)
  <2>1. PICK f \in [N -> V] : \A s \in N : f[s] = step[s][IF s = {} THEN list ELSE f[up[s]]]
    <3> DEFINE z == {}
               v0 == list
    <3>1. StepsDown(N, z, up, V, v0, step)
      BY <1>4, <1>5 DEF StepsDown
    <3> HIDE DEF N, V, up, step, z, v0
    <3>2. \E f \in [N -> V] : \A s \in N : f[s] = step[s][IF s = z THEN v0 ELSE f[up[s]]]
      BY <3>1, DefinedDown
    <3> QED
      BY <3>2 DEF z, v0
  <2>2. \A s \in N : (IF s = {} THEN list ELSE f[up[s]]) \in V
    BY <1>4 DEF IsTree
  <2>3. \A s \in N : f[s] = put(s, IF s = {} THEN list ELSE f[up[s]])
    BY <2>1, <2>2
  <2>4. \A s \in N : f[s] = IF s = {} THEN list
                            ELSE InsertEntry(f[s \ {Max(s)}], pos, AlwaysInclude(chain[Max(s)]))
    BY <2>3
  <2>5. f = [s \in N |-> f[s]]
    OBVIOUS
  <2> HIDE DEF N
  <2> QED
    BY <2>4, <2>5
<1>7. Is(fold)
  <2> HIDE DEF Is
  <2> QED
    BY <1>6
<1> HIDE DEF fold
<1>8. \A s \in N : fold[s] = IF s = {} THEN list
                             ELSE InsertEntry(fold[s \ {Max(s)}], pos, AlwaysInclude(chain[Max(s)]))
  BY <1>7
<1> DEFINE Right(s) == /\ fold[s] \in Seq(Entry)
                       /\ \A x : Contains(fold[s], x) <=>
                             Contains(list, x) \/ \E i \in s : x = AlwaysInclude(chain[i])
           T == {s \in N : Right(s)}
<1>9. {} \in T
  BY <1>8
<1>10. ASSUME NEW s \in N \ {{}}, up[s] \in T PROVE s \in T
  <2> DEFINE less == s \ {Max(s)}
             e == AlwaysInclude(chain[Max(s)])
  <2>1. less \in N /\ Right(less) /\ e \in Entry /\ Max(s) \in s /\ s # {}
    BY <1>0, <1>3, <1>10
  <2>2. fold[s] = InsertEntry(fold[less], pos, e)
    BY <1>8, <2>1
  <2>3. /\ fold[s] \in Seq(Entry)
        /\ \A x : Contains(fold[s], x) <=> Contains(fold[less], x) \/ x = e
    <3> DEFINE old == fold[less]
    <3>1. old \in Seq(Entry) /\ e \in Entry
      BY <2>1
    <3> HIDE DEF old, e
    <3>2. /\ InsertEntry(old, pos, e) \in Seq(Entry)
          /\ \A x : Contains(InsertEntry(old, pos, e), x) <=> Contains(old, x) \/ x = e
      BY <3>1, InsertEntryIs
    <3> QED
      BY <2>2, <3>2 DEF old
  <2>4. ASSUME NEW x
        PROVE  (\E i \in s : x = AlwaysInclude(chain[i]))
                  <=> (\E i \in less : x = AlwaysInclude(chain[i])) \/ x = e
    BY <2>1
  <2>5. \A x : Contains(fold[less], x) <=>
                Contains(list, x) \/ \E i \in less : x = AlwaysInclude(chain[i])
    BY <2>1
  <2> HIDE DEF less, e
  <2>6. Right(s)
    BY <2>3, <2>4, <2>5
  <2> QED
    BY <2>6
<1>11. DOMAIN chain \in T
  <2> DEFINE z == {}
  <2>1. IsTree(N, z, up) /\ z \in T /\ \A s \in N \ {z} : up[s] \in T => s \in T
    BY <1>4, <1>9, <1>10
  <2> HIDE DEF N, T, up, z
  <2>2. N \subseteq T
    BY <2>1, TreeInduction
  <2>3. DOMAIN chain \in N
    BY DEF N
  <2> QED
    BY <2>2, <2>3
<1>12. ASSUME NEW x
       PROVE  (\E i \in DOMAIN chain : x = AlwaysInclude(chain[i]))
                 <=> \E m : Contains(chain, m) /\ x = AlwaysInclude(m)
  BY DEF Contains
<1> QED
  BY <1>1, <1>11, <1>12

\* the chain of the nodes that are left out ends at such a node
Stops(n) == tree[n].excludedBy = NULL \/ tree[n].includedBy # NULL \/ n = Root

\* The chain goes up, node by node.
LEMMA ChainGoesUp ==
  /\ ExcludedChain \in [Nodes -> Seq(Nodes)]
  /\ \A n \in Nodes : ExcludedChain[n] = IF Stops(n) THEN <<>>
                                         ELSE <<n>> \o ExcludedChain[Parent[n]]
<1> DEFINE V == Seq(Nodes)
           v0 == <<>>
           step == [m \in Nodes |-> [v \in V |-> IF Stops(m) THEN <<>> ELSE <<m>> \o v]]
           Is(f) == f = [m \in Nodes |->
                           IF \/ tree[m].excludedBy = NULL
                              \/ tree[m].includedBy # NULL
                              \/ m = Root
                           THEN <<>> ELSE <<m>> \o f[Parent[m]]]
           up == CHOOSE f : Is(f)
<1>1. IsTree(Nodes, Root, Parent) /\ Root \in Nodes /\ Parent \in [Nodes -> Nodes]
  BY AncestorsGoUp, FileTree
<1>2. (\A m \in Nodes, v \in V : <<m>> \o v \in V) /\ <<>> \in V
  OBVIOUS
<1>3. step \in [Nodes -> [V -> V]]
  BY <1>2
<1>4. \E f \in [Nodes -> V] : Is(f)
  <2>1. StepsDown(Nodes, Root, Parent, V, v0, step)
    BY <1>1, <1>3 DEF StepsDown
  <2>2. PICK f \in [Nodes -> V] : \A n \in Nodes :
            f[n] = step[n][IF n = Root THEN v0 ELSE f[Parent[n]]]
    <3> HIDE DEF V, v0, step
    <3> QED
      BY <2>1, DefinedDown
  <2>3. \A n \in Nodes : (IF n = Root THEN v0 ELSE f[Parent[n]]) \in V
    BY <1>1
  <2>4. \A n \in Nodes : f[n] = IF Stops(n) THEN <<>>
                                ELSE <<n>> \o (IF n = Root THEN v0 ELSE f[Parent[n]])
    BY <2>2, <2>3
  <2>5. \A n \in Nodes : f[n] = IF \/ tree[n].excludedBy = NULL
                                   \/ tree[n].includedBy # NULL
                                   \/ n = Root
                                THEN <<>> ELSE <<n>> \o f[Parent[n]]
    BY <2>4 DEF Stops
  <2>6. f = [n \in Nodes |-> f[n]]
    OBVIOUS
  <2> QED
    BY <2>5, <2>6
<1>5. Is(up)
  <2> HIDE DEF Is
  <2> QED
    BY <1>4
<1>6. ExcludedChain = [n \in Nodes |-> up[n]]
  BY DEF ExcludedChain
<1> HIDE DEF up
<1>7. \A n \in Nodes : up[n] = IF Stops(n) THEN <<>> ELSE <<n>> \o up[Parent[n]]
  BY <1>5 DEF Stops
<1>8. DOMAIN up = Nodes
  BY <1>5
<1>9. \A n \in Nodes : up[n] \in V
  <2> DEFINE T == {n \in Nodes : up[n] \in V}
  <2> HIDE DEF V
  <2>1. Root \in T
    <3>1. up[Root] = <<>>
      BY <1>1, <1>7 DEF Stops
    <3> QED
      BY <1>1, <1>2, <3>1
  <2>2. ASSUME NEW n \in Nodes \ {Root}, Parent[n] \in T PROVE n \in T
    <3>1. up[Parent[n]] \in V /\ n \in Nodes
      BY <2>2
    <3>2. <<n>> \o up[Parent[n]] \in V /\ <<>> \in V
      BY <1>2, <3>1
    <3> QED
      BY <1>7, <3>1, <3>2
  <2>3. Nodes \subseteq T
    <3> HIDE DEF T
    <3> QED
      BY <1>1, <2>1, <2>2, TreeInduction
  <2> QED
    BY <2>3
<1> QED
  BY <1>1, <1>6, <1>7, <1>9

\* What an extended chain holds, and its end.
LEMMA PrependIs ==
  ASSUME NEW S, NEW x \in S, NEW c \in Seq(S)
  PROVE  /\ \A y : Contains(<<x>> \o c, y) <=> y = x \/ Contains(c, y)
         /\ Last(<<x>> \o c) = IF c = <<>> THEN x ELSE Last(c)
<1>1. <<x>> \in Seq(S) /\ Len(<<x>>) = 1
  OBVIOUS
<1>2. \A y : Contains(<<x>> \o c, y) <=> y = x \/ Contains(c, y)
  <2>1. \A y : Contains(<<x>> \o c, y) <=> Contains(<<x>>, y) \/ Contains(c, y)
    BY <1>1, ConcatContains
  <2>2. \A y : Contains(<<x>>, y) <=> y = x
    BY <1>1, SingletonContains
  <2> QED
    BY <2>1, <2>2
<1>3. Last(<<x>> \o c) = IF c = <<>> THEN x ELSE Last(c)
  BY <1>1 DEF Last
<1> QED
  BY <1>2, <1>3

\* from the node up to its topmost directory that is left out
EndsAt(n, top) ==
    /\ top \in {n} \cup Ancestors[n]
    /\ top \in Nodes
    /\ ~ Stops(top)
    /\ Stops(Parent[top])
    /\ \A x : Contains(ExcludedChain[n], x) <=> x \in ({n} \cup Ancestors[n]) \cap Subtree[top]
    /\ \A x : Contains(ExcludedChain[n], x) => ~ Stops(x)

\* The chain holds all nodes from its start to its end.
LEMMA ChainIs ==
  ASSUME NEW n \in Nodes, ~ Stops(n)
  PROVE  EndsAt(n, Last(ExcludedChain[n]))
<1> DEFINE T == {m \in Nodes : ~ Stops(m) => EndsAt(m, Last(ExcludedChain[m]))}
<1>1. Root \in T
  BY FileTree DEF Stops
<1>2. ASSUME NEW m \in Nodes \ {Root}, Parent[m] \in T, ~ Stops(m)
      PROVE  EndsAt(m, Last(ExcludedChain[m]))
  <2> DEFINE p == Parent[m]
             c == ExcludedChain[p]
             top == Last(ExcludedChain[m])
  <2>1. /\ p \in Nodes /\ Ancestors[m] = {p} \cup Ancestors[p] /\ m \notin Ancestors[m]
        /\ Ancestors[p] \subseteq Nodes
    BY <1>2, FileTree
  <2>2. c \in Seq(Nodes) /\ ExcludedChain[m] = <<m>> \o c /\ (Stops(p) <=> c = <<>>)
    <3>1. c \in Seq(Nodes) /\ ExcludedChain[m] = <<m>> \o c
      BY <1>2, <2>1, ChainGoesUp
    <3>2. Stops(p) => c = <<>>
      BY <2>1, ChainGoesUp
    <3>3. ~ Stops(p) => c = <<p>> \o ExcludedChain[Parent[p]] /\ ExcludedChain[Parent[p]] \in Seq(Nodes)
      BY <2>1, ChainGoesUp, FileTree
    <3>4. ASSUME NEW q \in Seq(Nodes) PROVE <<p>> \o q # <<>>
      BY SMT
    <3> QED
      BY <3>1, <3>2, <3>3, <3>4
  <2>3. /\ \A y : Contains(ExcludedChain[m], y) <=> y = m \/ Contains(c, y)
        /\ top = IF c = <<>> THEN m ELSE Last(c)
    BY <2>2, PrependIs
  <2> HIDE DEF c
  <2>4. CASE Stops(p)
    <3>1. top = m
      BY <2>2, <2>3, <2>4
    <3>2. \A y : Contains(ExcludedChain[m], y) <=> y = m
      BY <2>2, <2>3, <2>4, SingletonContains
    <3>3. \A x : x \in ({m} \cup Ancestors[m]) \cap Subtree[m] <=> x = m
      BY <1>2, <2>1, FileTree, BelowIsAbove
    <3> QED
      BY <1>2, <2>4, <3>1, <3>2, <3>3 DEF EndsAt
  <2>5. CASE ~ Stops(p)
    <3>1. EndsAt(p, Last(c)) /\ top = Last(c)
      BY <1>2, <2>2, <2>3, <2>5 DEF c
    <3> HIDE DEF top, p
    <3>2. /\ top \in {p} \cup Ancestors[p] /\ top \in Nodes /\ ~ Stops(top) /\ Stops(Parent[top])
          /\ \A x : Contains(c, x) <=> x \in ({p} \cup Ancestors[p]) \cap Subtree[top]
          /\ \A x : Contains(c, x) => ~ Stops(x)
      BY <3>1 DEF EndsAt, c
    <3>3. m \in Subtree[top] /\ top \in {m} \cup Ancestors[m]
      BY <1>2, <2>1, <3>2, BelowIsAbove
    <3>4. \A x : Contains(ExcludedChain[m], x)
                   <=> x \in ({m} \cup Ancestors[m]) \cap Subtree[top]
      BY <2>1, <2>3, <3>2, <3>3
    <3>5. \A x : Contains(ExcludedChain[m], x) => ~ Stops(x)
      BY <1>2, <2>3, <3>2
    <3>6. EndsAt(m, top)
      BY <3>2, <3>3, <3>4, <3>5 DEF EndsAt
    <3> QED
      BY <3>6 DEF top
  <2> QED
    BY <2>4, <2>5
<1>3. \A m \in Nodes \ {Root} : Parent[m] \in T => m \in T
  BY <1>2
<1>4. Nodes \subseteq T
  <2> HIDE DEF T
  <2> QED
    BY <1>1, <1>3, AncestorsGoUp, TreeInduction
<1> QED
  BY <1>4

\* The rules that are added when a path to n is opened.
PathRules(n, top) ==
    {AlwaysInclude(m) : m \in ({n} \cup Ancestors[n]) \cap Subtree[top]}
    \cup (IF n = top THEN {} ELSE {UnderFiles(top), UnderDirs(top)})
    \cup (IF n \in Dirs THEN {NewEntry("always", "dir", "regex", n),
                              NewEntry("always", "file", "regex", n)}
          ELSE {})

\* Opening a path adds those rules and nothing else.
LEMMA OpenPathIs ==
  ASSUME NEW list \in Seq(Entry), NEW n \in Nodes, ~ Stops(n)
  PROVE  /\ OpenPathTo(n, list) \in Seq(Entry)
         /\ \A x : Contains(OpenPathTo(n, list), x)
                     <=> Contains(list, x) \/ x \in PathRules(n, Last(ExcludedChain[n]))
<1> DEFINE pos == Len(list)
           chain == ExcludedChain[n]
           top == Last(chain)
           l1 == WithChain(list, pos, chain)
           l2 == InsertEntry(l1, pos, UnderFiles(top))
           l3 == InsertEntry(l2, pos, UnderDirs(top))
           l4 == IF n = top THEN l1 ELSE l3
           d == NewEntry("always", "dir", "regex", n)
           f == NewEntry("always", "file", "regex", n)
<1>1. OpenPathTo(n, list) = IF n \in Dirs THEN AddEntry(AddEntry(l4, d), f)
                            ELSE AddEntry(l4, AlwaysInclude(n))
  BY DEF OpenPathTo, WithChain
<1>2. EndsAt(n, top) /\ chain \in Seq(Nodes) /\ pos \in Nat
  BY ChainIs, ChainGoesUp
<1>3. /\ UnderFiles(top) \in Entry /\ UnderDirs(top) \in Entry /\ d \in Entry /\ f \in Entry
      /\ AlwaysInclude(n) \in Entry
  <2>1. top \in Nodes
    BY <1>2 DEF EndsAt
  <2> HIDE DEF top
  <2> QED
    BY <2>1 DEF UnderFiles, UnderDirs, AlwaysInclude, FileDirOf, NewEntry, Entry
<1> HIDE DEF pos
<1>4. /\ l1 \in Seq(Entry)
      /\ \A x : Contains(l1, x) <=> Contains(list, x)
                  \/ \E m \in ({n} \cup Ancestors[n]) \cap Subtree[top] : x = AlwaysInclude(m)
  <2>1. /\ l1 \in Seq(Entry)
        /\ \A x : Contains(l1, x) <=> Contains(list, x)
                    \/ \E m : Contains(chain, m) /\ x = AlwaysInclude(m)
    BY <1>2, WithChainIs
  <2>2. \A m : Contains(chain, m) <=> m \in ({n} \cup Ancestors[n]) \cap Subtree[top]
    BY <1>2 DEF EndsAt
  <2> QED
    BY <2>1, <2>2
<1> HIDE DEF chain, top, l1, d, f
<1>5. /\ l2 \in Seq(Entry)
      /\ \A x : Contains(l2, x) <=> Contains(l1, x) \/ x = UnderFiles(top)
  BY <1>2, <1>3, <1>4, InsertEntryIs
<1> HIDE DEF l2
<1>6. /\ l3 \in Seq(Entry)
      /\ \A x : Contains(l3, x) <=> Contains(l2, x) \/ x = UnderDirs(top)
  BY <1>2, <1>3, <1>5, InsertEntryIs
<1> HIDE DEF l3
<1>7. /\ l4 \in Seq(Entry)
      /\ \A x : Contains(l4, x) <=> Contains(l1, x)
                  \/ (n # top /\ x \in {UnderFiles(top), UnderDirs(top)})
  <2>1. CASE n = top
    <3>1. l4 = l1
      BY <2>1
    <3> HIDE DEF l4
    <3> QED
      BY <1>4, <2>1, <3>1
  <2>2. CASE n # top
    <3>1. l4 = l3
      BY <2>2
    <3> HIDE DEF l4
    <3>2. ASSUME NEW x
          PROVE  Contains(l3, x) <=> Contains(l1, x) \/ x \in {UnderFiles(top), UnderDirs(top)}
      BY <1>5, <1>6
    <3> QED
      BY <1>6, <2>2, <3>1, <3>2
  <2> QED
    BY <2>1, <2>2
<1> HIDE DEF l4
<1>8. /\ AddEntry(l4, d) \in Seq(Entry) /\ AddEntry(AddEntry(l4, d), f) \in Seq(Entry)
      /\ \A x : Contains(AddEntry(AddEntry(l4, d), f), x) <=> Contains(l4, x) \/ x \in {d, f}
  <2>1. /\ AddEntry(l4, d) \in Seq(Entry)
        /\ \A x : Contains(AddEntry(l4, d), x) <=> Contains(l4, x) \/ x = d
    BY <1>3, <1>7, AddEntryIs
  <2>2. /\ AddEntry(AddEntry(l4, d), f) \in Seq(Entry)
        /\ \A x : Contains(AddEntry(AddEntry(l4, d), f), x)
                    <=> Contains(AddEntry(l4, d), x) \/ x = f
    BY <1>3, <2>1, AddEntryIs
  <2> QED
    BY <2>1, <2>2
<1>9. /\ AddEntry(l4, AlwaysInclude(n)) \in Seq(Entry)
      /\ \A x : Contains(AddEntry(l4, AlwaysInclude(n)), x) <=> Contains(l4, x) \/ x = AlwaysInclude(n)
  BY <1>3, <1>7, AddEntryIs
<1>10. n \in ({n} \cup Ancestors[n]) \cap Subtree[top]
  BY <1>2, BelowIsAbove DEF EndsAt
<1>11. \A x : x \in PathRules(n, top) <=>
          \/ \E m \in ({n} \cup Ancestors[n]) \cap Subtree[top] : x = AlwaysInclude(m)
          \/ (n # top /\ x \in {UnderFiles(top), UnderDirs(top)})
          \/ n \in Dirs /\ x \in {d, f}
  BY DEF PathRules, d, f
<1>12. /\ OpenPathTo(n, list) \in Seq(Entry)
       /\ \A x : Contains(OpenPathTo(n, list), x) <=> Contains(list, x) \/ x \in PathRules(n, top)
  <2> DEFINE new == OpenPathTo(n, list)
             In(x) == \/ \E m \in ({n} \cup Ancestors[n]) \cap Subtree[top] : x = AlwaysInclude(m)
                      \/ (n # top /\ x \in {UnderFiles(top), UnderDirs(top)})
  <2>1. \A x : Contains(l4, x) <=> Contains(list, x) \/ In(x)
    BY <1>4, <1>7
  <2>2. \A x : x \in PathRules(n, top) <=> In(x) \/ (n \in Dirs /\ x \in {d, f})
    BY <1>11
  <2>3. In(AlwaysInclude(n))
    BY <1>10
  <2> HIDE DEF In
  <2>4. CASE n \in Dirs
    <3>1. new = AddEntry(AddEntry(l4, d), f)
      BY <1>1, <2>4
    <3> HIDE DEF new
    <3>2. new \in Seq(Entry) /\ \A x : Contains(new, x) <=> Contains(l4, x) \/ x \in {d, f}
      BY <1>8, <3>1
    <3> QED
      BY <2>1, <2>2, <2>4, <3>2 DEF new
  <2>5. CASE n \notin Dirs
    <3>1. new = AddEntry(l4, AlwaysInclude(n))
      BY <1>1, <2>5
    <3> HIDE DEF new
    <3>2. new \in Seq(Entry) /\ \A x : Contains(new, x) <=> Contains(l4, x) \/ x = AlwaysInclude(n)
      BY <1>9, <3>1
    <3> QED
      BY <2>1, <2>2, <2>3, <2>5, <3>2 DEF new
  <2> QED
    BY <2>4, <2>5
<1> QED
  BY <1>12 DEF top, chain

-----------------------------------------------------------------------------
(* The refreshes start high enough in the tree.                            *)

\* A refresh brings the tree up to date if the rules of no location changed
\* that a node outside of it is in.
LEMMA RefreshKeeps ==
  ASSUME NEW locs \in Seq(Location), NEW t, UpToDate(locs, t),
         NEW new \in Seq(Location), Paths(new) = Paths(locs),
         NEW old, Loaded(DOMAIN old), NEW from \in Nodes,
         \A m \in DOMAIN old : m \notin Subtree[from] =>
            /\ m \in DOMAIN t
            /\ old[m] = t[m]
            /\ t[m].location # NULL => ListOf(new, t[m].location) = ListOf(locs, t[m].location)
  PROVE  UpToDate(new, Refreshed(new, old, from)) /\ DOMAIN Refreshed(new, old, from) = DOMAIN old
<1> DEFINE r == Refreshed(new, old, from)
<1>1. /\ NodeStates(new) = NodeStates(locs)
      /\ \A m \in DOMAIN t : t[m] \in NodeStates(locs)
  BY StatesTyped DEF NodeStates
<1>2. \A m \in DOMAIN old : m \notin Subtree[from] => old[m] \in NodeStates(new)
  BY <1>1
<1>3. /\ DOMAIN r = DOMAIN old
      /\ r = [m \in DOMAIN r |-> r[m]]
      /\ \A m \in DOMAIN old :
            r[m] = IF m \in Subtree[from] THEN UpdateState(new, m, Inherited(r, m)) ELSE old[m]
  BY <1>2, RefreshedIs
<1> HIDE DEF r
<1>4. ASSUME NEW m \in DOMAIN old, m \notin Subtree[from]
      PROVE  r[m] = UpdateState(new, m, Inherited(r, m))
  <2>1. m \in DOMAIN t /\ r[m] = t[m] /\ t[m] = UpdateState(locs, m, Inherited(t, m))
    BY <1>3, <1>4 DEF UpToDate
  <2>2. Inherited(r, m) = Inherited(t, m)
    <3>1. CASE m = Root
      BY <3>1 DEF Inherited
    <3>2. CASE m # Root
      <4>1. m \in Nodes /\ Parent[m] \in DOMAIN old
        BY <3>2 DEF Loaded
      <4>2. Ancestors[m] = {Parent[m]} \cup Ancestors[Parent[m]]
        BY <3>2, <4>1, FileTree
      <4>3. Parent[m] \notin Subtree[from]
        BY <1>4, <4>1, <4>2, BelowIsAbove
      <4>4. r[Parent[m]] = t[Parent[m]]
        BY <1>3, <4>1, <4>3
      <4> QED
        BY <3>2, <4>4 DEF Inherited
    <3> QED
      BY <3>1, <3>2
  <2>3. t[m].location = LocationOf(locs, m, Inherited(t, m))
    BY <2>1, StateIs
  <2>4. LET p == LocationOf(locs, m, Inherited(t, m))
        IN  p # NULL => ListOf(new, p) = ListOf(locs, p)
    BY <1>4, <2>3
  <2>5. UpdateState(new, m, Inherited(t, m)) = UpdateState(locs, m, Inherited(t, m))
    BY <2>4, UpdateStateSame
  <2> QED
    BY <2>1, <2>2, <2>5
<1>5. UpToDate(new, r)
  BY <1>3, <1>4 DEF UpToDate
<1> QED
  BY <1>3, <1>5 DEF r

\* The highest node above one that is in the same location is the location.
LEMMA LocationNodeIs ==
  ASSUME TreeInv, NEW n \in DOMAIN tree, tree[n].location # NULL
  PROVE  LocationNode(n) = tree[n].location
<1> DEFINE loc == tree[n].location
           up == {n} \cup Ancestors[n]
           Tops(q) == /\ \A m \in up : m \in Subtree[q] => tree[m].location = loc
                      /\ q = Root \/ tree[Parent[q]].location # loc
<1>1. /\ locations \in Seq(Location) /\ UpToDate(locations, tree)
      /\ Loaded(DOMAIN tree) /\ DOMAIN tree \in SUBSET Nodes
  BY DEF TreeInv, UpToDate, Loaded
<1>2. /\ \A m \in DOMAIN tree : WellPlaced(locations, tree, m)
      /\ up \subseteq DOMAIN tree
      /\ \A m \in up : Ancestors[m] \subseteq up
  BY <1>1, AllWellPlaced, LoadedAbove, FileTree
<1>3. /\ loc \in Paths(locations) \cap Nodes /\ n \in Subtree[loc]
      /\ Ancestors[loc] \cap Paths(locations) = {}
  BY <1>2 DEF WellPlaced
<1>4. loc \in up
  BY <1>3, BelowIsAbove
<1>5. ASSUME NEW m \in up, m \in Subtree[loc] PROVE tree[m].location = loc
  <2>1. loc \in {p \in Paths(locations) \cap Nodes :
                    m \in Subtree[p] /\ Ancestors[p] \cap Paths(locations) = {}}
    BY <1>3, <1>5
  <2>2. m \in DOMAIN tree
    BY <1>2
  <2>3. loc \in IF tree[m].location = NULL THEN {} ELSE {tree[m].location}
    BY <1>1, <2>1, <2>2, OutermostIs
  <2> QED
    BY <2>3
<1>6. loc = Root \/ tree[Parent[loc]].location # loc
  <2> SUFFICES ASSUME loc # Root, tree[Parent[loc]].location = loc PROVE FALSE
    OBVIOUS
  <2>1. /\ loc \in Nodes /\ Ancestors[loc] = {Parent[loc]} \cup Ancestors[Parent[loc]]
        /\ loc \notin Ancestors[loc] /\ Parent[loc] \in up
    BY <1>2, <1>3, <1>4, FileTree
  <2>2. WellPlaced(locations, tree, Parent[loc])
    BY <1>2, <2>1
  <2>3. Parent[loc] \in Subtree[loc]
    BY <1>3, <2>2, FileTree DEF WellPlaced
  <2> QED
    BY <2>1, <2>3, BelowIsAbove
<1>7. Tops(loc)
  BY <1>5, <1>6
<1>8. ASSUME NEW q \in up, Tops(q) PROVE q = loc
  <2>1. q \in Subtree[q] /\ q \in DOMAIN tree
    BY <1>1, <1>2, BelowIsAbove
  <2>2. tree[q].location = loc
    BY <1>8, <2>1
  <2>3. WellPlaced(locations, tree, q)
    BY <1>2, <2>1
  <2>4. q # loc => q # Root /\ tree[Parent[q]].location = loc
    BY <1>3, <2>2, <2>3, FileTree DEF WellPlaced
  <2> QED
    BY <1>8, <2>4
<1>9. LocationNode(n) = CHOOSE q \in up : Tops(q)
  BY DEF LocationNode
<1> HIDE DEF Tops, up, loc
<1> QED
  BY <1>4, <1>7, <1>8, <1>9 DEF loc

-----------------------------------------------------------------------------
(* What the changes leave in the lists, and in the tree.                   *)

\* the tree is up to date with a new list for the location that n is in
NowListed(n, list, locs, t) ==
    LET loc == tree[n].location
    IN  /\ loc \in Paths(locations) \cap Nodes
        /\ locs \in Seq(Location) /\ Len(locs) = Len(locations)
        /\ UpToDate(locs, t) /\ DOMAIN t = DOMAIN tree
        /\ Paths(locs) = Paths(locations)
        /\ ListOf(locs, loc) = list
        /\ \A q \in Paths(locations) \ {loc} : ListOf(locs, q) = ListOf(locations, q)

\* So it is after a refresh of that location.
LEMMA ListChanged ==
  ASSUME TreeInv, NEW n \in DOMAIN tree, tree[n].location # NULL, NEW list \in Seq(Entry)
  PROVE  LET new == SetList(locations, tree[n].location, list)
         IN  NowListed(n, list, new, Refreshed(new, tree, LocationNode(n)))
<1> DEFINE loc == tree[n].location
           new == SetList(locations, loc, list)
<1>1. locations \in Seq(Location) /\ UpToDate(locations, tree) /\ Loaded(DOMAIN tree)
  BY DEF TreeInv, UpToDate
<1>2. \A m \in DOMAIN tree : WellPlaced(locations, tree, m)
  BY <1>1, AllWellPlaced
<1>3. loc \in Paths(locations) \cap Nodes /\ LocationNode(n) = loc
  BY <1>2, LocationNodeIs DEF WellPlaced
<1>4. /\ new \in Seq(Location) /\ Len(new) = Len(locations) /\ Paths(new) = Paths(locations)
      /\ ListOf(new, loc) = list
      /\ \A q \in Paths(locations) \ {loc} : ListOf(new, q) = ListOf(locations, q)
  BY <1>1, <1>3, SetListIs
<1> HIDE DEF new, loc
<1>5. ASSUME NEW m \in DOMAIN tree, m \notin Subtree[loc]
      PROVE  tree[m].location # NULL =>
                ListOf(new, tree[m].location) = ListOf(locations, tree[m].location)
  BY <1>2, <1>4, <1>5 DEF WellPlaced
<1>6. UpToDate(new, Refreshed(new, tree, loc)) /\ DOMAIN Refreshed(new, tree, loc) = DOMAIN tree
  BY <1>1, <1>3, <1>4, <1>5, RefreshKeeps
<1> QED
  BY <1>3, <1>4, <1>6 DEF new, loc, NowListed

\* The numbers behind a name do not run out.
LEMMA NewNameIs ==
  ASSUME NEW n \in Nodes, locations \in Seq(Location)
  PROVE  NewName(n) \in LocationName
<1> DEFINE taken == {locations[i].name : i \in DOMAIN locations}
           N == Len(locations)
           Fresh(k) == <<n, k>> \notin taken /\ \A j \in 0..k-1 : <<n, j>> \in taken
           T == {k \in 0..N : <<n, k>> \notin taken}
<1>1. N \in Nat /\ DOMAIN locations = 1..N
  OBVIOUS
<1>2. T # {}
  <2> SUFFICES ASSUME \A k \in 0..N : <<n, k>> \in taken PROVE FALSE
    OBVIOUS
  <2> DEFINE f == [k \in 0..N |-> CHOOSE i \in 1..N : locations[i].name = <<n, k>>]
  <2>1. \A k \in 0..N : f[k] \in 1..N /\ locations[f[k]].name = <<n, k>>
    <3> SUFFICES ASSUME NEW k \in 0..N
                 PROVE  f[k] \in 1..N /\ locations[f[k]].name = <<n, k>>
      OBVIOUS
    <3>1. \E i \in 1..N : locations[i].name = <<n, k>>
      BY <1>1
    <3> QED
      BY <3>1
  <2>2. f \in [0..N -> 1..N]
    BY <2>1
  <2> HIDE DEF f
  <2> HIDE DEF N
  <2>3. /\ IsFiniteSet(1..N) /\ Cardinality(1..N) = N
        /\ IsFiniteSet(0..N) /\ Cardinality(0..N) = N + 1
    <3>1. N \in Int /\ 0 \in Int /\ 1 \in Int
      BY <1>1
    <3>2. /\ IsFiniteSet(1..N) /\ Cardinality(1..N) = IF 1 > N THEN 0 ELSE N - 1 + 1
          /\ IsFiniteSet(0..N) /\ Cardinality(0..N) = IF 0 > N THEN 0 ELSE N - 0 + 1
      BY <3>1, FS_Interval, Zenon
    <3> QED
      BY <1>1, <3>2
  <2>4. PICK x, y \in 0..N : x # y /\ f[x] = f[y]
    <3>1. Cardinality(1..N) < Cardinality(0..N)
      BY <1>1, <2>3
    <3> QED
      BY <2>2, <2>3, <3>1, FS_PigeonHole
  <2>5. <<n, x>> = <<n, y>>
    BY <2>1, <2>4
  <2> QED
    BY <2>4, <2>5
<1>3. PICK k \in T : \A j \in T : k <= j
  <2>1. T \in SUBSET Nat
    BY <1>1
  <2> HIDE DEF T
  <2> QED
    BY <1>2, <2>1, LeastNatural
<1>4. Fresh(k)
  <2>1. \A j \in 0..k-1 : j \in 0..N /\ ~ (k <= j)
    BY <1>1
  <2> QED
    BY <1>3, <2>1
<1> DEFINE c == CHOOSE j \in 0..N : Fresh(j)
<1>5. c \in 0..N
  <2> HIDE DEF Fresh
  <2> QED
    BY <1>3, <1>4
<1>6. NewName(n) = <<n, c>>
  BY DEF NewName
<1> HIDE DEF c
<1> QED
  BY <1>1, <1>5, <1>6 DEF LocationName

\* A directory is read again.
LEMMA ExpandKeeps ==
  ASSUME TreeInv, NEW n, NEW found, Expand(n, found)
  PROVE  TreeInv'
<1> DEFINE D == (DOMAIN tree \ Below[n]) \cup found
           kept == [m \in D |-> IF m \in found THEN tree[n] ELSE tree[m]]
<1>1. /\ locations \in Seq(Location) /\ UpToDate(locations, tree)
      /\ Loaded(DOMAIN tree) /\ DOMAIN tree \in SUBSET Nodes /\ Root \in DOMAIN tree
      /\ \A m \in DOMAIN tree \ {Root} : Parent[m] \in DOMAIN tree
  BY DEF TreeInv, UpToDate, Loaded
<1>2. /\ n \in DOMAIN tree /\ n \in Nodes
      /\ \A m \in found : m \in Nodes \ {Root} /\ Parent[m] = n
      /\ tree' = Refreshed(locations, kept, n)
      /\ locations' = locations
  BY <1>1 DEF Expand, Children
<1>3. found \subseteq Below[n]
  BY <1>2, FileTree, BelowIsAbove
<1>4. Loaded(D)
  <2>1. D \in SUBSET Nodes
    BY <1>1, <1>2
  <2>2. Root \in D
    BY <1>1, <1>2, FileTree, BelowIsAbove
  <2>3. ASSUME NEW m \in D \ {Root} PROVE Parent[m] \in D
    <3>1. CASE m \in found
      BY <1>2, <3>1, FileTree, BelowIsAbove
    <3>2. CASE m \notin found
      <4>1. m \in DOMAIN tree /\ m \in Nodes /\ m # Root /\ n \notin Ancestors[m]
        BY <1>1, <1>2, <2>3, <3>2, BelowIsAbove
      <4>2. Parent[m] \in DOMAIN tree /\ n \notin Ancestors[Parent[m]]
        BY <1>1, <4>1, FileTree
      <4> QED
        BY <1>2, <4>2, BelowIsAbove
    <3> QED
      BY <3>1, <3>2
  <2> QED
    BY <2>1, <2>2, <2>3 DEF Loaded
<1>5. ASSUME NEW m \in D, m \notin Subtree[n] PROVE m \in DOMAIN tree /\ kept[m] = tree[m]
  BY <1>2, <1>3, <1>5 DEF Subtree
<1>6. DOMAIN kept = D
  OBVIOUS
<1> HIDE DEF kept, D
<1>7. UpToDate(locations, Refreshed(locations, kept, n))
  BY <1>1, <1>2, <1>4, <1>5, <1>6, RefreshKeeps
<1> QED
  BY <1>1, <1>2, <1>7 DEF TreeInv

\* The node is in a location: an Exclude rule for it.
LEMMA IncludedClick ==
  ASSUME TreeInv, NEW n, ActivateIncluded(n)
  PROVE  LET list == ListOf(locations, tree[n].location)
             rule == NewEntry("exclude", FileDirOf(n), "exact", n)
         IN  /\ n \in DOMAIN tree /\ tree[n].location \in Paths(locations) \cap Nodes
             /\ list \in Seq(Entry) /\ rule \in Entry
             /\ NowListed(n, AddEntry(list, rule), locations', tree')
<1> DEFINE loc == tree[n].location
           list == ListOf(locations, loc)
           rule == NewEntry("exclude", FileDirOf(n), "exact", n)
           new == AddEntry(list, rule)
<1>1. /\ n \in DOMAIN tree /\ loc # NULL
      /\ locations' = SetList(locations, loc, new)
      /\ tree' = Refreshed(locations', tree, LocationNode(n))
  BY DEF ActivateIncluded, PlainlyIncluded
<1>2. n \in Nodes /\ WellPlaced(locations, tree, n) /\ locations \in Seq(Location)
  BY <1>1, AllWellPlaced DEF TreeInv, UpToDate, Loaded
<1>3. rule \in Entry
  BY <1>2 DEF NewEntry, Entry, FileDirOf
<1>4. loc \in Paths(locations) \cap Nodes
  BY <1>1, <1>2 DEF WellPlaced
<1>5. list \in Seq(Entry)
  BY <1>2, <1>4, ListOfIs
<1> HIDE DEF rule, list
<1>6. new \in Seq(Entry)
  BY <1>3, <1>5, AddEntryIs
<1> HIDE DEF new
<1>7. NowListed(n, new, locations', tree')
  BY <1>1, <1>6, ListChanged
<1> QED
  BY <1>1, <1>3, <1>4, <1>5, <1>7 DEF new, list, rule

\* The node is left out: its own rule goes, or a path to it is opened.
LEMMA ExcludedClick ==
  ASSUME TreeInv, NEW n, ActivateExcluded(n)
  PROVE  LET list == ListOf(locations, tree[n].location)
             rule == tree[n].excludedBy
         IN  /\ n \in DOMAIN tree /\ n \in Nodes
             /\ tree[n].location \in Paths(locations) \cap Nodes
             /\ tree[n].location # n
             /\ list \in Seq(Entry)
             /\ ~ Stops(n)
             /\ NowListed(n, IF NamesExactly(rule, n) THEN RemoveEntry(list, rule)
                             ELSE OpenPathTo(n, list), locations', tree')
<1> DEFINE loc == tree[n].location
           list == ListOf(locations, loc)
           rule == tree[n].excludedBy
           new == IF NamesExactly(rule, n) THEN RemoveEntry(list, rule) ELSE OpenPathTo(n, list)
<1>1. /\ n \in DOMAIN tree /\ tree[n].includedBy = NULL /\ rule # NULL
      /\ locations' = SetList(locations, loc, new)
      /\ tree' = Refreshed(locations', tree, LocationNode(n))
  BY DEF ActivateExcluded
<1>2. n \in Nodes /\ WellPlaced(locations, tree, n) /\ locations \in Seq(Location)
  BY <1>1, AllWellPlaced DEF TreeInv, UpToDate, Loaded
<1>3. loc # NULL /\ loc \in Paths(locations) \cap Nodes /\ loc # n /\ n # Root
  BY <1>1, <1>2 DEF WellPlaced
<1>4. ~ Stops(n)
  BY <1>1, <1>3 DEF Stops
<1>5. list \in Seq(Entry)
  BY <1>2, <1>3, ListOfIs
<1> HIDE DEF list
<1>6. new \in Seq(Entry)
  BY <1>2, <1>4, <1>5, RemoveEntryIs, OpenPathIs
<1> HIDE DEF new
<1>7. NowListed(n, new, locations', tree')
  BY <1>1, <1>3, <1>6, ListChanged
<1> QED
  BY <1>1, <1>2, <1>3, <1>4, <1>5, <1>7 DEF new, list

\* The node is AlwaysIncluded: the rule goes, and the two that came with it.
LEMMA AlwaysClick ==
  ASSUME TreeInv, NEW n, NEW agreed, ActivateAlwaysIncluded(n, agreed)
  PROVE  LET list   == ListOf(locations, tree[n].location)
             rule   == tree[n].includedBy
             pruned == IF /\ NamesExactly(rule, n)
                          /\ Contains(list, UnderFiles(n))
                          /\ Contains(list, UnderDirs(n))
                       THEN RemoveEntry(RemoveEntry(list, UnderFiles(n)), UnderDirs(n))
                       ELSE list
         IN  /\ n \in DOMAIN tree /\ n \in Nodes
             /\ tree[n].location \in Paths(locations) \cap Nodes
             /\ tree[n].location # n
             /\ list \in Seq(Entry) /\ pruned \in Seq(Entry)
             /\ NamesExactly(rule, n) \/ agreed
             /\ NowListed(n, RemoveEntry(pruned, rule), locations', tree')
<1> DEFINE loc == tree[n].location
           list == ListOf(locations, loc)
           rule == tree[n].includedBy
           pruned == IF /\ NamesExactly(rule, n)
                        /\ Contains(list, UnderFiles(n))
                        /\ Contains(list, UnderDirs(n))
                     THEN RemoveEntry(RemoveEntry(list, UnderFiles(n)), UnderDirs(n))
                     ELSE list
           new == RemoveEntry(pruned, rule)
<1>1. /\ n \in DOMAIN tree /\ rule # NULL
      /\ NamesExactly(rule, n) \/ agreed
      /\ locations' = SetList(locations, loc, new)
      /\ tree' = Refreshed(locations', tree, LocationNode(n))
  BY DEF ActivateAlwaysIncluded
<1>2. n \in Nodes /\ WellPlaced(locations, tree, n) /\ locations \in Seq(Location)
  BY <1>1, AllWellPlaced DEF TreeInv, UpToDate, Loaded
<1>3. loc # NULL /\ loc \in Paths(locations) \cap Nodes /\ loc # n
  BY <1>1, <1>2 DEF WellPlaced
<1>4. list \in Seq(Entry)
  BY <1>2, <1>3, ListOfIs
<1> HIDE DEF list
<1>5. pruned \in Seq(Entry)
  BY <1>4, RemoveEntryIs
<1> HIDE DEF pruned
<1>6. new \in Seq(Entry)
  BY <1>5, RemoveEntryIs
<1> HIDE DEF new
<1>7. NowListed(n, new, locations', tree')
  BY <1>1, <1>3, <1>6, ListChanged
<1> QED
  BY <1>1, <1>2, <1>3, <1>4, <1>5, <1>7 DEF new, pruned, list

\* All four branches leave the tree up to date.
LEMMA ActivateKeeps ==
  ASSUME TreeInv, NEW n, NEW agreed, Activate(n, agreed)
  PROVE  TreeInv' /\ DOMAIN tree' = DOMAIN tree /\ Len(locations') >= Len(locations)
<1>1. CASE \E list : NowListed(n, list, locations', tree')
  <2>1. Len(locations) \in Nat
    BY DEF TreeInv
  <2> QED
    BY <1>1, <2>1 DEF NowListed, TreeInv
<1>2. CASE ActivateOutside(n)
  <2>1. /\ n \in DOMAIN tree /\ tree' = Refreshed(locations', tree, Root)
        /\ locations' = Append(locations, [name |-> NewName(n), path |-> n, excluded |-> <<>>])
    BY <1>2 DEF ActivateOutside
  <2>2. n \in Nodes /\ Loaded(DOMAIN tree) /\ locations \in Seq(Location)
    BY <2>1 DEF TreeInv, UpToDate, Loaded
  <2> DEFINE new == [name |-> NewName(n), path |-> n, excluded |-> <<>>]
  <2>3. new \in Location
    <3>1. NewName(n) \in LocationName /\ <<>> \in Seq(Entry)
      BY <2>2, NewNameIs
    <3> QED
      BY <2>2, <3>1 DEF Location
  <2> HIDE DEF new
  <2>4. locations' \in Seq(Location) /\ Len(locations') = Len(locations) + 1 /\ Len(locations) \in Nat
    <3>1. locations' = Append(locations, new)
      BY <2>1 DEF new
    <3> QED
      BY <2>2, <2>3, <3>1
  <2>5. UpToDate(locations', tree') /\ DOMAIN tree' = DOMAIN tree
    BY <2>1, <2>2, <2>4, AllRefreshed
  <2>6. TreeInv'
    BY <2>4, <2>5 DEF TreeInv
  <2> QED
    BY <2>4, <2>5, <2>6
<1>3. \/ ActivateAlwaysIncluded(n, agreed) \/ ActivateExcluded(n)
      \/ ActivateIncluded(n) \/ ActivateOutside(n)
  BY DEF Activate
<1> QED
  BY <1>1, <1>2, <1>3, IncludedClick, ExcludedClick, AlwaysClick

\* So does taking out a location.
LEMMA LocationClick ==
  ASSUME TreeInv, NEW n, ActivateLocation(n)
  PROVE  /\ TreeInv' /\ DOMAIN tree' = DOMAIN tree
         /\ IndexOf(locations, n) \in 1 .. Len(locations)
         /\ Len(locations') = Len(locations) - 1
<1>1. /\ n \in DOMAIN tree /\ tree[n].location = n /\ tree[n].location # NULL
      /\ locations' = RemoveAt(locations, IndexOf(locations, n))
      /\ tree' = Refreshed(locations', tree, Root)
  BY DEF ActivateLocation, PlainlyIncluded
<1>2. /\ Loaded(DOMAIN tree) /\ locations \in Seq(Location) /\ UpToDate(locations, tree)
      /\ WellPlaced(locations, tree, n)
  BY <1>1, AllWellPlaced DEF TreeInv, UpToDate
<1>3. IndexOf(locations, n) \in 1 .. Len(locations)
  BY <1>1, <1>2, ListOfIs DEF WellPlaced
<1>4. locations' \in Seq(Location) /\ Len(locations') = Len(locations) - 1
  BY <1>1, <1>2, <1>3, RemoveAtProperties
<1> QED
  BY <1>1, <1>2, <1>3, <1>4, AllRefreshed DEF TreeInv

-----------------------------------------------------------------------------
(* The two other pages.                                                    *)

\* rows of the lists, a name, a path and a rule
PageOK(locs, p) ==
    /\ p \in [locRow : Nat, name : LocationName, path : Nodes \cup Texts,
              choiceRow : Nat, ruleRow : Nat, rule : Entry]
    /\ p.locRow <= Len(locs)
    /\ p.choiceRow <= Len(locs)
    /\ p.ruleRow <= Len(RulesOf(locs, p.choiceRow))

\* the place of the first such element of a sequence, 0 if there is none
FirstPlace(s, e) == SelectInSeq(s, LAMBDA x : x = e)

\* It is a place where there is such an element.
LEMMA FirstPlaceIs ==
  ASSUME NEW S, NEW s \in Seq(S), NEW e
  PROVE  LET i == FirstPlace(s, e)
         IN  /\ i \in 0 .. Len(s)
             /\ i # 0 => s[i] = e
             /\ i = 0 => \A j \in 1 .. Len(s) : s[j] # e
<1> DEFINE I == {j \in 1 .. Len(s) : s[j] = e}
           i == FirstPlace(s, e)
<1>1. i = IF I # {} THEN Min(I) ELSE 0
  BY DEF FirstPlace, SelectInSeq
<1>2. I \in SUBSET Nat /\ Len(s) \in Nat
  OBVIOUS
<1> HIDE DEF i
<1>3. /\ I # {} => i \in I
      /\ I = {} => i = 0
  <2> HIDE DEF I
  <2> QED
    BY <1>1, <1>2, FirstIs
<1> QED
  BY <1>2, <1>3 DEF i

\* The location behind a row is one like that in the row.
LEMMA ClientIs ==
  ASSUME NEW locs \in Seq(Location), NEW row \in 0 .. Len(locs)
  PROVE  /\ Client(locs, row) \in 0 .. Len(locs)
         /\ Client(locs, row) = 0 <=> row = 0
         /\ row # 0 => /\ locs[Client(locs, row)] = locs[row] /\ locs[row] \in Location
                       /\ RulesOf(locs, row) = locs[row].excluded
         /\ row = 0 => RulesOf(locs, row) = <<>>
         /\ RulesOf(locs, row) \in Seq(Entry)
<1> DEFINE c == Client(locs, row)
<1>1. CASE row = 0
  <2>1. c = 0 /\ RulesOf(locs, row) = <<>> /\ Len(locs) \in Nat /\ <<>> \in Seq(Entry)
    BY <1>1 DEF Client, RulesOf
  <2> HIDE DEF c
  <2> QED
    BY <1>1, <2>1 DEF c
<1>2. CASE row # 0
  <2>1. c = FirstPlace(locs, locs[row])
    BY <1>2 DEF Client, FirstPlace
  <2>2. row \in 1 .. Len(locs) /\ Len(locs) \in Nat
    BY <1>2
  <2>3. c \in 1 .. Len(locs) /\ locs[c] = locs[row]
    <3> HIDE DEF c
    <3>1. /\ c \in 0 .. Len(locs)
          /\ c # 0 => locs[c] = locs[row]
          /\ c = 0 => \A j \in 1 .. Len(locs) : locs[j] # locs[row]
      BY <2>1, FirstPlaceIs
    <3> QED
      BY <2>2, <3>1
  <2>4. locs[row] \in Location
    BY <2>2
  <2>5. locs[row].excluded \in Seq(Entry)
    BY <2>4 DEF Location
  <2>6. RulesOf(locs, row) = locs[row].excluded
    BY <1>2, <2>3 DEF RulesOf
  <2> QED
    BY <1>2, <2>2, <2>3, <2>4, <2>5, <2>6
<1> QED
  BY <1>1, <1>2

\* The first row, or none.
LEMMA FirstRowIs == \A n \in Nat : Min({1, n}) \in 0 .. n /\ (n # 0 => Min({1, n}) = 1)
<1> SUFFICES ASSUME NEW n \in Nat
             PROVE  Min({1, n}) \in 0 .. n /\ (n # 0 => Min({1, n}) = 1)
  OBVIOUS
<1> DEFINE T == {1, n}
<1>1. T \in SUBSET Nat /\ T # {}
  OBVIOUS
<1>2. Min(T) \in T /\ \A k \in T : Min(T) <= k
  <2> HIDE DEF T
  <2> QED
    BY <1>1, MinIsLeast
<1> QED
  BY <1>2

\* where each location goes when the configuration changes
Moving(before, locs, moved) ==
    /\ before \in Seq(Location)
    /\ locs \in Seq(Location)
    /\ moved \in [1 .. Len(before) -> 0 .. Len(locs)]

\* A row follows its location.
LEMMA RowAfterIs ==
  ASSUME NEW before, NEW locs, NEW moved, Moving(before, locs, moved),
         NEW row \in 0 .. Len(before)
  PROVE  /\ RowAfter(row, before, locs, moved) \in 0 .. Len(locs)
         /\ row # 0 /\ moved[Client(before, row)] # 0
            => RowAfter(row, before, locs, moved) = moved[Client(before, row)]
<1> DEFINE c == Client(before, row)
<1>0. /\ before \in Seq(Location) /\ locs \in Seq(Location)
      /\ moved \in [1 .. Len(before) -> 0 .. Len(locs)]
  BY DEF Moving
<1>1. c \in 0 .. Len(before) /\ (c = 0 <=> row = 0)
  BY <1>0, ClientIs
<1>2. RowAfter(row, before, locs, moved)
         = IF c # 0 /\ moved[c] # 0 THEN moved[c] ELSE Min({1, Len(locs)})
  BY DEF RowAfter
<1>3. Min({1, Len(locs)}) \in 0 .. Len(locs)
  <2>1. Len(locs) \in Nat
    BY <1>0
  <2> QED
    BY <2>1, FirstRowIs
<1>4. c # 0 => c \in 1 .. Len(before)
  <2>1. Len(before) \in Nat
    BY <1>0
  <2> QED
    BY <1>1, <2>1
<1> HIDE DEF c
<1>5. c # 0 => moved[c] \in 0 .. Len(locs)
  BY <1>0, <1>4
<1> QED
  BY <1>1, <1>2, <1>3, <1>5 DEF c

\* Refilled after a change, the pages show what there is.
LEMMA RefilledIs ==
  ASSUME NEW before \in Seq(Location), NEW locs \in Seq(Location), NEW p, PageOK(before, p),
         NEW moved \in [1 .. Len(before) -> 0 .. Len(locs)]
  PROVE  LET q == Refilled(p, before, locs, moved)
         IN  /\ PageOK(locs, q)
             /\ q.choiceRow = RowAfter(p.choiceRow, before, locs, moved)
             /\ q.locRow = RowAfter(p.locRow, before, locs, moved)
             /\ q.path = IF q.locRow = 0 THEN NoPath ELSE locs[q.locRow].path
<1> DEFINE locRow == RowAfter(p.locRow, before, locs, moved)
           choice == RowAfter(p.choiceRow, before, locs, moved)
           c == Client(locs, locRow)
           name == IF c = 0 THEN NoName ELSE locs[c].name
           path == IF c = 0 THEN NoPath ELSE locs[c].path
           old == Client(before, p.choiceRow)
           same == old # 0 /\ moved[old] = choice
           list == RulesOf(locs, choice)
           was == RulesOf(before, p.choiceRow)
           ruleRow == RuleRowAfter(was, p.ruleRow, list, same)
           r == Refilled(p, before, locs, moved)
           Shape == [locRow : Nat, name : LocationName, path : Nodes \cup Texts,
                     choiceRow : Nat, ruleRow : Nat, rule : Entry]
<1>1. /\ p \in Shape
      /\ p.locRow \in 0 .. Len(before) /\ p.choiceRow \in 0 .. Len(before)
  BY DEF PageOK
<1>2. locRow \in 0 .. Len(locs) /\ choice \in 0 .. Len(locs) /\ Len(locs) \in Nat
  <2>1. Len(locs) \in Nat /\ Moving(before, locs, moved)
    BY DEF Moving
  <2> QED
    BY <1>1, <2>1, RowAfterIs
<1>3. r = IF choice = 0
          THEN [p EXCEPT !.locRow = locRow, !.name = name, !.path = path,
                         !.choiceRow = choice, !.ruleRow = 0]
          ELSE [p EXCEPT !.locRow = locRow, !.name = name, !.path = path,
                         !.choiceRow = choice, !.ruleRow = ruleRow,
                         !.rule = IF ruleRow = 0 THEN NoRule ELSE list[ruleRow]]
  <2> DEFINE d == WithDetails([p EXCEPT !.locRow = locRow], locs)
             q == [d EXCEPT !.choiceRow = choice]
  <2>1. d = [p EXCEPT !.locRow = locRow, !.name = name, !.path = path]
    <3>1. [p EXCEPT !.locRow = locRow].locRow = locRow
      BY <1>1
    <3> HIDE DEF locRow
    <3> QED
      BY <3>1 DEF WithDetails
  <2> HIDE DEF locRow, name, path
  <2>2. q = [p EXCEPT !.locRow = locRow, !.name = name, !.path = path, !.choiceRow = choice]
    BY <2>1
  <2>3. q.choiceRow = choice
    BY <1>1, <2>2
  <2>4. r = IF q.choiceRow = 0 THEN [q EXCEPT !.ruleRow = 0]
            ELSE WithRule([q EXCEPT !.ruleRow =
                     RuleRowAfter(was, p.ruleRow, RulesOf(locs, q.choiceRow),
                                  old # 0 /\ moved[old] = q.choiceRow)],
                     RulesOf(locs, q.choiceRow))
    BY DEF Refilled, locRow
  <2>5. r = IF choice = 0 THEN [q EXCEPT !.ruleRow = 0]
            ELSE WithRule([q EXCEPT !.ruleRow = ruleRow], list)
    BY <2>3, <2>4
  <2> HIDE DEF choice, ruleRow, list, r, q, d
  <2>6. [q EXCEPT !.ruleRow = ruleRow].ruleRow = ruleRow
    BY <1>1, <2>2
  <2>7. WithRule([q EXCEPT !.ruleRow = ruleRow], list)
          = [q EXCEPT !.ruleRow = ruleRow,
                      !.rule = IF ruleRow = 0 THEN NoRule ELSE list[ruleRow]]
    BY <2>6 DEF WithRule
  <2> QED
    BY <2>2, <2>5, <2>7
<1>4. c \in 0 .. Len(locs) /\ (c = 0 <=> locRow = 0)
      /\ (locRow # 0 => locs[c] = locs[locRow] /\ locs[locRow] \in Location)
  BY <1>2, ClientIs
<1>5. /\ name \in LocationName /\ path \in Nodes \cup Texts /\ NoRule \in Entry
      /\ path = IF locRow = 0 THEN NoPath ELSE locs[locRow].path
  <2>1. NoName \in LocationName /\ NoPath \in Nodes \cup Texts /\ NoRule \in Entry
    BY BackupPagesAssumption DEF NoName, NoPath, NoRule, NewEntry, Entry, LocationName
  <2>2. locRow # 0 => locs[locRow].name \in LocationName /\ locs[locRow].path \in Nodes \cup Texts
    BY <1>4 DEF Location
  <2> HIDE DEF locRow, c
  <2> QED
    BY <1>4, <2>1, <2>2
<1>6. list \in Seq(Entry) /\ (choice = 0 => list = <<>>)
  BY <1>2, ClientIs
<1>7. ruleRow \in 0 .. Len(list)
  <2> HIDE DEF list, same, was
  <2>1. Len(list) \in Nat
    BY <1>6
  <2>2. Min({1, Len(list)}) \in 0 .. Len(list)
    BY <2>1, FirstRowIs
  <2>3. FirstPlace(list, was[p.ruleRow]) \in 0 .. Len(list)
    BY <1>6, FirstPlaceIs
  <2>4. ruleRow \in {FirstPlace(list, was[p.ruleRow]), Min({1, Len(list)})}
    BY DEF RuleRowAfter, FirstPlace
  <2> QED
    BY <2>2, <2>3, <2>4
<1>8. Len(list) \in Nat /\ (ruleRow # 0 => list[ruleRow] \in Entry)
  <2> HIDE DEF ruleRow, list
  <2>1. Len(list) \in Nat
    BY <1>6
  <2>2. ruleRow # 0 => ruleRow \in 1 .. Len(list)
    BY <1>7, <2>1
  <2> QED
    BY <1>6, <2>1, <2>2
<1> HIDE DEF r, name, path, ruleRow, list, locRow, choice
<1>9. CASE choice = 0
  <2>1. r = [p EXCEPT !.locRow = locRow, !.name = name, !.path = path,
                      !.choiceRow = choice, !.ruleRow = 0]
    BY <1>3, <1>9
  <2>2. r \in Shape /\ r.choiceRow = choice /\ r.locRow = locRow /\ r.ruleRow = 0 /\ r.path = path
    <3>1. p \in Shape /\ locRow \in Nat /\ choice \in Nat /\ 0 \in Nat
      BY <1>1, <1>2
    <3> QED
      BY <1>5, <2>1, <3>1
  <2>3. PageOK(locs, r)
    BY <1>2, <1>8, <2>2 DEF PageOK, list
  <2> QED
    BY <1>5, <2>2, <2>3 DEF r, choice, locRow
<1>10. CASE choice # 0
  <2> DEFINE rule == IF ruleRow = 0 THEN NoRule ELSE list[ruleRow]
  <2>1. r = [p EXCEPT !.locRow = locRow, !.name = name, !.path = path,
                      !.choiceRow = choice, !.ruleRow = ruleRow, !.rule = rule]
    BY <1>3, <1>10
  <2>2. rule \in Entry
    BY <1>5, <1>8
  <2> HIDE DEF rule
  <2>3. /\ r \in Shape /\ r.choiceRow = choice /\ r.locRow = locRow
        /\ r.ruleRow = ruleRow /\ r.path = path
    <3>1. p \in Shape /\ locRow \in Nat /\ choice \in Nat /\ ruleRow \in Nat
      BY <1>1, <1>2, <1>7, <1>8
    <3> QED
      BY <1>5, <2>1, <2>2, <3>1
  <2>4. PageOK(locs, r)
    BY <1>2, <1>7, <1>8, <2>3 DEF PageOK, list
  <2> QED
    BY <1>5, <2>3, <2>4 DEF r, choice, locRow
<1> QED
  BY <1>9, <1>10

\* The row that is selected in a list of rules is one of its rows, or none.
LEMMA RuleRowAfterIs ==
  ASSUME NEW list \in Seq(Entry), NEW old, NEW row, NEW same
  PROVE  RuleRowAfter(old, row, list, same) \in 0 .. Len(list)
<1>1. Len(list) \in Nat
  OBVIOUS
<1>2. Min({1, Len(list)}) \in 0 .. Len(list)
  BY <1>1, FirstRowIs
<1>3. FirstPlace(list, old[row]) \in 0 .. Len(list)
  BY FirstPlaceIs
<1>4. RuleRowAfter(old, row, list, same) \in {FirstPlace(list, old[row]), Min({1, Len(list)})}
  BY DEF RuleRowAfter, FirstPlace
<1> QED
  BY <1>2, <1>3, <1>4

\* The boxes show the row that is selected.
LEMMA WithDetailsIs ==
  ASSUME NEW locs \in Seq(Location), NEW p, PageOK(locs, p), NEW row \in 0 .. Len(locs)
  PROVE  PageOK(locs, WithDetails([p EXCEPT !.locRow = row], locs))
<1> DEFINE c == Client(locs, row)
           name == IF c = 0 THEN NoName ELSE locs[c].name
           path == IF c = 0 THEN NoPath ELSE locs[c].path
           r == WithDetails([p EXCEPT !.locRow = row], locs)
<1>1. /\ p \in [locRow : Nat, name : LocationName, path : Nodes \cup Texts,
                choiceRow : Nat, ruleRow : Nat, rule : Entry]
      /\ row \in Nat /\ row <= Len(locs)
  <2>1. Len(locs) \in Nat
    OBVIOUS
  <2> QED
    BY <2>1 DEF PageOK
<1>2. r = [p EXCEPT !.locRow = row, !.name = name, !.path = path]
  <2>1. [p EXCEPT !.locRow = row].locRow = row
    BY <1>1
  <2> QED
    BY <2>1 DEF WithDetails
<1>3. c # 0 => locs[c] \in Location
  BY ClientIs
<1>4. name \in LocationName /\ path \in Nodes \cup Texts
  <2>1. NoName \in LocationName /\ NoPath \in Nodes \cup Texts
    BY BackupPagesAssumption DEF NoName, NoPath, LocationName
  <2>2. c # 0 => locs[c].name \in LocationName /\ locs[c].path \in Nodes \cup Texts
    BY <1>3 DEF Location
  <2> HIDE DEF c
  <2> QED
    BY <2>1, <2>2
<1> HIDE DEF name, path, r
<1>5. /\ r \in [locRow : Nat, name : LocationName, path : Nodes \cup Texts,
                choiceRow : Nat, ruleRow : Nat, rule : Entry]
      /\ r.locRow = row /\ r.choiceRow = p.choiceRow /\ r.ruleRow = p.ruleRow
  BY <1>1, <1>2, <1>4
<1> QED
  BY <1>1, <1>5 DEF PageOK, r

\* The boxes show the rule that is selected.
LEMMA WithRuleIs ==
  ASSUME NEW locs \in Seq(Location), NEW p, PageOK(locs, p), NEW choice \in 0 .. Len(locs),
         NEW row \in 0 .. Len(RulesOf(locs, choice))
  PROVE  PageOK(locs, WithRule([p EXCEPT !.choiceRow = choice, !.ruleRow = row],
                               RulesOf(locs, choice)))
<1> DEFINE list == RulesOf(locs, choice)
           rule == IF row = 0 THEN NoRule ELSE list[row]
           r == WithRule([p EXCEPT !.choiceRow = choice, !.ruleRow = row], list)
<1>1. list \in Seq(Entry) /\ Len(locs) \in Nat
  BY ClientIs
<1>2. /\ p \in [locRow : Nat, name : LocationName, path : Nodes \cup Texts,
                choiceRow : Nat, ruleRow : Nat, rule : Entry]
      /\ choice \in Nat /\ choice <= Len(locs) /\ row \in Nat /\ row <= Len(list)
  <2>1. Len(list) \in Nat
    BY <1>1
  <2> QED
    BY <1>1, <2>1 DEF PageOK
<1>3. rule \in Entry
  <2>1. NoRule \in Entry
    BY BackupPagesAssumption DEF NoRule, NoPath, NewEntry, Entry
  <2>2. row # 0 => row \in 1 .. Len(list)
    <3>1. Len(list) \in Nat
      BY <1>1
    <3> QED
      BY <1>2, <3>1
  <2> HIDE DEF list
  <2> QED
    BY <1>1, <2>1, <2>2
<1>4. r = [p EXCEPT !.choiceRow = choice, !.ruleRow = row, !.rule = rule]
  <2>1. [p EXCEPT !.choiceRow = choice, !.ruleRow = row].ruleRow = row
    BY <1>2
  <2> QED
    BY <2>1 DEF WithRule
<1> HIDE DEF rule, r, list
<1>5. /\ r \in [locRow : Nat, name : LocationName, path : Nodes \cup Texts,
                choiceRow : Nat, ruleRow : Nat, rule : Entry]
      /\ r.locRow = p.locRow /\ r.choiceRow = choice /\ r.ruleRow = row
  BY <1>2, <1>3, <1>4
<1> QED
  BY <1>2, <1>5 DEF PageOK, r, list

-----------------------------------------------------------------------------
(* The invariant of the panel.                                             *)

PanelInv == TreeInv /\ PageOK(locations, page)

\* Rows stay, or move up.
LEMMA Moves ==
  ASSUME locations \in Seq(Location)
  PROVE  /\ \A n \in Nat : n >= Len(locations) => InPlace \in [1 .. Len(locations) -> 0 .. n]
         /\ \A k \in 1 .. Len(locations) :
               Without(k) \in [1 .. Len(locations) -> 0 .. Len(locations) - 1]
BY DEF InPlace, Without

\* What was loaded is shown.
LEMMA PanelStarts == PanelInit => PanelInv
<1> SUFFICES ASSUME NEW locs \in Seq(Location), NEW loaded \in SUBSET Nodes,
                    Root \in loaded, \A n \in loaded \ {Root} : Parent[n] \in loaded,
                    PagesInit(locs, loaded)
             PROVE  PanelInv
  BY DEF PanelInit
<1> DEFINE old == [n \in loaded |-> NoState]
<1>1. /\ locations = locs /\ tree = Refreshed(locs, old, Root)
      /\ page = Refilled(EmptyPage, <<>>, locs, <<>>)
  BY DEF PagesInit, TreeInit
<1>2. Loaded(DOMAIN old)
  BY DEF Loaded
<1> HIDE DEF old
<1>3. TreeInv
  BY <1>1, <1>2, AllRefreshed DEF TreeInv
<1>4. PageOK(<<>>, EmptyPage)
  <2>1. NoName \in LocationName /\ NoPath \in Nodes \cup Texts /\ NoRule \in Entry
    BY BackupPagesAssumption DEF NoName, NoPath, NoRule, NewEntry, Entry, LocationName
  <2>2. RulesOf(<<>>, 0) = <<>>
    BY DEF RulesOf
  <2> QED
    BY <2>1, <2>2 DEF PageOK, EmptyPage
<1>5. <<>> \in Seq(Location) /\ <<>> \in [1 .. Len(<<>>) -> 0 .. Len(locs)]
  OBVIOUS
<1>6. PageOK(locs, Refilled(EmptyPage, <<>>, locs, <<>>))
  BY <1>4, <1>5, RefilledIs
<1> QED
  BY <1>1, <1>3, <1>6 DEF PanelInv

\* A change of which all pages hear.
LEMMA ChangeKeeps ==
  ASSUME PanelInv, NEW locs \in Seq(Location),
         NEW moved \in [1 .. Len(locations) -> 0 .. Len(locs)], Change(locs, moved)
  PROVE  PanelInv'
<1>1. /\ locations' = locs /\ tree' = Refreshed(locs, tree, Root)
      /\ page' = Refilled(page, locations, locs, moved)
  BY DEF Change
<1>2. locations \in Seq(Location) /\ Loaded(DOMAIN tree) /\ PageOK(locations, page)
  BY DEF PanelInv, TreeInv, UpToDate
<1>3. PageOK(locs, Refilled(page, locations, locs, moved))
  BY <1>2, RefilledIs
<1>4. UpToDate(locs, Refreshed(locs, tree, Root))
  BY <1>2, AllRefreshed
<1> QED
  BY <1>1, <1>3, <1>4 DEF PanelInv, TreeInv

\* The tree page.
LEMMA TreePageKeeps ==
  ASSUME PanelInv
  PROVE  /\ \A n, found : TreeExpand(n, found) => PanelInv'
         /\ \A n, agreed : TreeClick(n, agreed) => PanelInv'
<1>1. TreeInv /\ locations \in Seq(Location) /\ PageOK(locations, page) /\ Len(locations) \in Nat
  BY DEF PanelInv, TreeInv
<1>2. ASSUME NEW n, NEW found, TreeExpand(n, found) PROVE PanelInv'
  <2>1. Expand(n, found) /\ page' = page /\ locations' = locations
    BY <1>2 DEF TreeExpand, Expand
  <2>2. TreeInv'
    BY <1>1, <2>1, ExpandKeeps
  <2> QED
    BY <1>1, <2>1, <2>2 DEF PanelInv
<1>3. ASSUME NEW n, NEW agreed, Activate(n, agreed),
             page' = Refilled(page, locations, locations', InPlace)
      PROVE  PanelInv'
  <2>1. TreeInv' /\ Len(locations') >= Len(locations)
    BY <1>1, <1>3, ActivateKeeps
  <2>2. locations' \in Seq(Location) /\ Len(locations') \in Nat
    BY <2>1 DEF TreeInv
  <2>3. InPlace \in [1 .. Len(locations) -> 0 .. Len(locations')]
    BY <1>1, <2>1, <2>2, Moves
  <2>4. PageOK(locations', page')
    BY <1>1, <1>3, <2>2, <2>3, RefilledIs
  <2> QED
    BY <2>1, <2>4 DEF PanelInv
<1>4. ASSUME NEW n, ActivateLocation(n),
             page' = Refilled(page, locations, locations', Without(IndexOf(locations, n)))
      PROVE  PanelInv'
  <2>1. /\ TreeInv' /\ IndexOf(locations, n) \in 1 .. Len(locations)
        /\ Len(locations') = Len(locations) - 1
    BY <1>1, <1>4, LocationClick
  <2>2. locations' \in Seq(Location)
    BY <2>1 DEF TreeInv
  <2>3. Without(IndexOf(locations, n)) \in [1 .. Len(locations) -> 0 .. Len(locations')]
    BY <1>1, <2>1, Moves
  <2>4. PageOK(locations', page')
    BY <1>1, <1>4, <2>2, <2>3, RefilledIs
  <2> QED
    BY <2>1, <2>4 DEF PanelInv
<1>5. ASSUME NEW n, Refuse(n), UNCHANGED page PROVE PanelInv'
  BY <1>5 DEF Refuse, treeVars, PanelInv, TreeInv
<1> QED
  BY <1>2, <1>3, <1>4, <1>5 DEF TreeClick

\* A new list of rules for a location.
LEMMA SetRulesIs ==
  ASSUME NEW i \in 1 .. Len(locations), NEW list \in Seq(Entry), locations \in Seq(Location)
  PROVE  /\ SetRules(i, list) \in Seq(Location)
         /\ Len(SetRules(i, list)) = Len(locations)
         /\ SetRules(i, list)[i].excluded = list
<1> DEFINE e == [locations[i] EXCEPT !.excluded = list]
           new == SetRules(i, list)
<1>1. new = [locations EXCEPT ![i] = e]
  BY DEF SetRules
<1>2. e \in Location /\ e.excluded = list
  <2>1. locations[i] \in Location
    OBVIOUS
  <2> QED
    BY <2>1 DEF Location
<1> HIDE DEF e, new
<1>3. /\ new \in Seq(Location) /\ Len(new) = Len(locations)
      /\ \A j \in 1 .. Len(locations) : new[j] = IF j = i THEN e ELSE locations[j]
  BY <1>1, <1>2, ExceptSeq
<1> QED
  BY <1>2, <1>3 DEF new

\* Rows and boxes of the Locations page.
LEMMA LocationsPageTyping ==
  ASSUME PanelInv
  PROVE  /\ \A i \in DOMAIN locations : SelectLocationRow(i) => PanelInv'
         /\ \A name \in TypedNames : TypeName(name) => PanelInv'
         /\ \A path \in TypedPaths : TypePath(path) => PanelInv'
<1>1. TreeInv /\ locations \in Seq(Location) /\ PageOK(locations, page) /\ Len(locations) \in Nat
  BY DEF PanelInv, TreeInv
<1>2. ASSUME NEW i \in DOMAIN locations, SelectLocationRow(i) PROVE PanelInv'
  <2>1. /\ page' = WithDetails([page EXCEPT !.locRow = i], locations)
        /\ locations' = locations /\ tree' = tree
    BY <1>2 DEF SelectLocationRow
  <2>2. i \in 0 .. Len(locations)
    BY <1>1
  <2>3. PageOK(locations, page')
    BY <1>1, <2>1, <2>2, WithDetailsIs
  <2> QED
    BY <1>1, <2>1, <2>3 DEF PanelInv, TreeInv
<1>3. ASSUME NEW name \in TypedNames, TypeName(name) PROVE PanelInv'
  <2>1. name \in LocationName /\ page' = [page EXCEPT !.name = name]
        /\ locations' = locations /\ tree' = tree
    BY <1>3, BackupPagesAssumption DEF TypeName
  <2>2. PageOK(locations, page')
    BY <1>1, <2>1 DEF PageOK
  <2> QED
    BY <1>1, <2>1, <2>2 DEF PanelInv, TreeInv
<1>4. ASSUME NEW path \in TypedPaths, TypePath(path) PROVE PanelInv'
  <2>1. path \in Nodes \cup Texts /\ page' = [page EXCEPT !.path = path]
        /\ locations' = locations /\ tree' = tree
    BY <1>4, BackupPagesAssumption DEF TypePath
  <2>2. PageOK(locations, page')
    BY <1>1, <2>1 DEF PageOK
  <2> QED
    BY <1>1, <2>1, <2>2 DEF PanelInv, TreeInv
<1> QED
  BY <1>2, <1>3, <1>4

\* A location that is added, with a copy of the rules of the selected one.
LEMMA AddLocationKeeps ==
  ASSUME PanelInv, AddLocation
  PROVE  PanelInv'
<1> DEFINE new == [name |-> page.name, path |-> page.path,
                   excluded |-> RulesOf(locations, page.locRow)]
           all == Append(locations, new)
           q == Refilled(page, locations, all, InPlace)
           row == FirstPlace(all, new)
<1>1. TreeInv /\ locations \in Seq(Location) /\ PageOK(locations, page)
      /\ Len(locations) \in Nat /\ Loaded(DOMAIN tree)
  BY DEF PanelInv, TreeInv, UpToDate
<1>2. /\ locations' = all /\ tree' = Refreshed(all, tree, Root)
      /\ page' = WithDetails([q EXCEPT !.locRow = row], all)
  BY DEF AddLocation, FirstPlace
<1>3. new \in Location
  <2>1. page.name \in LocationName /\ page.path \in Nodes \cup Texts
        /\ page.locRow \in 0 .. Len(locations)
    BY <1>1 DEF PageOK
  <2>2. RulesOf(locations, page.locRow) \in Seq(Entry)
    BY <1>1, <2>1, ClientIs
  <2> QED
    BY <2>1, <2>2 DEF Location
<1> HIDE DEF new
<1>4. all \in Seq(Location) /\ Len(all) = Len(locations) + 1
  BY <1>1, <1>3
<1> HIDE DEF all
<1>5. InPlace \in [1 .. Len(locations) -> 0 .. Len(all)]
  BY <1>1, <1>4, Moves
<1>6. PageOK(all, q)
  BY <1>1, <1>4, <1>5, RefilledIs
<1>7. row \in 0 .. Len(all)
  BY <1>4, FirstPlaceIs
<1> HIDE DEF q, row
<1>8. PageOK(all, page')
  BY <1>2, <1>4, <1>6, <1>7, WithDetailsIs
<1>9. UpToDate(all, tree')
  BY <1>1, <1>2, <1>4, AllRefreshed
<1> QED
  BY <1>2, <1>4, <1>8, <1>9 DEF PanelInv, TreeInv

\* What the Edit button of the Locations page does: a new name.
LEMMA EditLocationIs ==
  ASSUME PanelInv, EditLocation
  PROVE  LET i == Client(locations, page.locRow)
         IN  /\ i \in 1 .. Len(locations)
             /\ page.name \in LocationName
             /\ locations' = [locations EXCEPT ![i].name = page.name]
             /\ locations' \in Seq(Location)
             /\ tree' = Refreshed(locations', tree, Root)
             /\ PageOK(locations', page')
<1> DEFINE i == Client(locations, page.locRow)
           e == [locations[i] EXCEPT !.name = page.name]
           renamed == [locations EXCEPT ![i].name = page.name]
           reread == Refilled(page, locations, renamed, InPlace)
           moved == [renamed EXCEPT ![i].path = reread.path]
<1>1. TreeInv /\ locations \in Seq(Location) /\ PageOK(locations, page) /\ Len(locations) \in Nat
  BY DEF PanelInv, TreeInv
<1>2. /\ page.locRow # 0 /\ locations' = moved /\ tree' = Refreshed(moved, tree, Root)
      /\ page' = Refilled(reread, renamed, moved, InPlace)
  BY DEF EditLocation, LocationButtons
<1>3. /\ page.name \in LocationName /\ page.locRow \in 0 .. Len(locations)
      /\ page.choiceRow \in 0 .. Len(locations)
  BY <1>1 DEF PageOK
<1>4. i \in 1 .. Len(locations)
  <2>1. i \in 0 .. Len(locations) /\ i # 0
    BY <1>1, <1>2, <1>3, ClientIs
  <2> QED
    BY <1>1, <2>1
<1>5. e \in Location /\ e.path = locations[i].path
  <2>1. locations[i] \in Location
    BY <1>1, <1>4
  <2> QED
    BY <1>3, <2>1 DEF Location
<1>6. /\ renamed \in Seq(Location) /\ Len(renamed) = Len(locations)
      /\ renamed[i] = e
  <2>1. renamed = [locations EXCEPT ![i] = e]
    OBVIOUS
  <2> HIDE DEF i, e, renamed
  <2> QED
    BY <1>1, <1>4, <1>5, <2>1, ExceptSeq
<1>7. InPlace \in [1 .. Len(locations) -> 0 .. Len(renamed)] /\ InPlace[i] = i
  <2>1. InPlace[i] = i
    BY <1>1, <1>4 DEF InPlace
  <2> HIDE DEF renamed, i
  <2> QED
    BY <1>1, <1>6, <2>1, Moves
<1>8. reread.locRow = i /\ reread.path = e.path /\ PageOK(renamed, reread)
  <2> DEFINE k == RowAfter(page.locRow, locations, renamed, InPlace)
  <2>1. k = i
    <3>1. i # 0
      BY <1>1, <1>4
    <3> DEFINE row == page.locRow
    <3>2. row \in 0 .. Len(locations) /\ row # 0 /\ InPlace[i] = i
      BY <1>2, <1>3, <1>7
    <3> HIDE DEF renamed, row
    <3>3. Moving(locations, renamed, InPlace)
      BY <1>1, <1>6, <1>7 DEF Moving
    <3>4. InPlace[Client(locations, row)] # 0
          => RowAfter(row, locations, renamed, InPlace) = InPlace[Client(locations, row)]
      BY <3>2, <3>3, RowAfterIs
    <3> QED
      BY <3>1, <3>2, <3>4 DEF row
  <2>2. /\ reread.locRow = k /\ PageOK(renamed, reread)
        /\ reread.path = IF reread.locRow = 0 THEN NoPath ELSE renamed[reread.locRow].path
    <3> HIDE DEF renamed, k
    <3> QED
      BY <1>1, <1>6, <1>7, RefilledIs DEF k
  <2> HIDE DEF reread, renamed, k, i, e
  <2> QED
    BY <1>1, <1>4, <1>6, <2>1, <2>2
<1> HIDE DEF reread
<1>9. moved = renamed
  <2>1. moved = [renamed EXCEPT ![i] = [renamed[i] EXCEPT !.path = e.path]]
    BY <1>8
  <2>2. [e EXCEPT !.path = e.path] = e
    BY <1>5 DEF Location
  <2> HIDE DEF moved, renamed, e, i
  <2> QED
    BY <1>6, <2>1, <2>2
<1> HIDE DEF moved
<1>10. PageOK(renamed, page')
  <2> HIDE DEF renamed
  <2> QED
    BY <1>2, <1>6, <1>7, <1>8, <1>9, RefilledIs
<1> QED
  BY <1>2, <1>3, <1>4, <1>6, <1>9, <1>10

\* The buttons of the Locations page.
LEMMA LocationsPageKeeps ==
  ASSUME PanelInv, AddLocation \/ EditLocation \/ RemoveLocation
  PROVE  PanelInv'
<1>1. TreeInv /\ locations \in Seq(Location) /\ PageOK(locations, page)
      /\ Len(locations) \in Nat /\ Loaded(DOMAIN tree)
  BY DEF PanelInv, TreeInv, UpToDate
<1>2. CASE AddLocation
  BY <1>2, AddLocationKeeps
<1>3. CASE EditLocation
  <2>1. /\ locations' \in Seq(Location) /\ tree' = Refreshed(locations', tree, Root)
        /\ PageOK(locations', page')
    BY <1>3, EditLocationIs
  <2>2. UpToDate(locations', tree')
    BY <1>1, <2>1, AllRefreshed
  <2> QED
    BY <2>1, <2>2 DEF PanelInv, TreeInv
<1>4. CASE RemoveLocation
  <2> DEFINE i == Client(locations, page.locRow)
             locs == RemoveAt(locations, i)
  <2>1. page.locRow # 0 /\ Change(locs, Without(i))
    BY <1>4 DEF RemoveLocation, LocationButtons
  <2>2. page.locRow \in 0 .. Len(locations)
    BY <1>1 DEF PageOK
  <2>3. i \in 0 .. Len(locations) /\ i # 0
    BY <1>1, <2>1, <2>2, ClientIs
  <2>4. i \in 1 .. Len(locations)
    BY <1>1, <2>3
  <2> HIDE DEF i
  <2>5. locs \in Seq(Location) /\ Len(locs) = Len(locations) - 1
    BY <1>1, <2>4, RemoveAtProperties
  <2>6. Without(i) \in [1 .. Len(locations) -> 0 .. Len(locs)]
    BY <1>1, <2>4, <2>5, Moves
  <2> HIDE DEF locs
  <2> QED
    BY <2>1, <2>5, <2>6, ChangeKeeps
<1> QED
  BY <1>2, <1>3, <1>4

\* A rule is selected after it was added or has replaced another.
LEMMA ChangeAndSelectKeeps ==
  ASSUME PanelInv, page.choiceRow # 0, NEW list \in Seq(Entry),
         ChangeAndSelect(Client(locations, page.choiceRow), list)
  PROVE  PanelInv'
<1> DEFINE choice == page.choiceRow
           i == Client(locations, choice)
           locs == SetRules(i, list)
           q == Refilled(page, locations, locs, InPlace)
           row == FirstPlace(list, page.rule)
<1>1. TreeInv /\ locations \in Seq(Location) /\ PageOK(locations, page)
      /\ Len(locations) \in Nat /\ Loaded(DOMAIN tree)
  BY DEF PanelInv, TreeInv, UpToDate
<1>2. /\ locations' = locs /\ tree' = Refreshed(locs, tree, Root)
      /\ page' = WithRule([q EXCEPT !.ruleRow = row], list)
  BY DEF ChangeAndSelect, FirstPlace
<1>3. choice \in 0 .. Len(locations) /\ choice # 0
  BY <1>1 DEF PageOK
<1>4. i \in 1 .. Len(locations) /\ i # 0
  <2>1. i \in 0 .. Len(locations) /\ i # 0
    <3> HIDE DEF choice
    <3> QED
      BY <1>1, <1>3, ClientIs
  <2> QED
    BY <1>1, <2>1
<1> HIDE DEF i
<1>5. locs \in Seq(Location) /\ Len(locs) = Len(locations) /\ locs[i].excluded = list
  BY <1>1, <1>4, SetRulesIs
<1> HIDE DEF locs
<1>6. Moving(locations, locs, InPlace) /\ InPlace[i] = i
  <2>1. InPlace \in [1 .. Len(locations) -> 0 .. Len(locs)]
    BY <1>1, <1>5, Moves
  <2>2. InPlace[i] = i
    BY <1>1, <1>4 DEF InPlace
  <2> QED
    BY <1>1, <1>5, <2>1, <2>2 DEF Moving
<1>7. RowAfter(choice, locations, locs, InPlace) = i
  <2> HIDE DEF choice
  <2>1. InPlace[Client(locations, choice)] # 0
        => RowAfter(choice, locations, locs, InPlace) = InPlace[Client(locations, choice)]
    BY <1>3, <1>6, RowAfterIs
  <2>2. Client(locations, choice) = i
    BY DEF i
  <2> QED
    BY <1>4, <1>6, <2>1, <2>2
<1>8. PageOK(locs, q) /\ q.choiceRow = i
  BY <1>1, <1>5, <1>6, <1>7, RefilledIs DEF Moving
<1>9. RulesOf(locs, i) = list /\ i \in 0 .. Len(locs)
  BY <1>4, <1>5, ClientIs
<1>10. row \in 0 .. Len(list)
  BY FirstPlaceIs
<1> HIDE DEF q, row
<1>11. [q EXCEPT !.ruleRow = row] = [q EXCEPT !.choiceRow = i, !.ruleRow = row]
  BY <1>8 DEF PageOK
<1>12. PageOK(locs, page')
  BY <1>2, <1>5, <1>8, <1>9, <1>10, <1>11, WithRuleIs
<1>13. UpToDate(locs, tree')
  BY <1>1, <1>2, <1>5, AllRefreshed
<1> QED
  BY <1>2, <1>5, <1>12, <1>13 DEF PanelInv, TreeInv

\* Rows and boxes of the Exclusions page.
LEMMA ExclusionsPageTyping ==
  ASSUME PanelInv
  PROVE  /\ \A i \in DOMAIN locations : SelectChoice(i) => PanelInv'
         /\ \A i : SelectRuleRow(i) => PanelInv'
         /\ \A rule \in TypedRules : TypeRule(rule) => PanelInv'
<1>1. TreeInv /\ locations \in Seq(Location) /\ PageOK(locations, page) /\ Len(locations) \in Nat
  BY DEF PanelInv, TreeInv
<1>2. ASSUME NEW i \in DOMAIN locations, SelectChoice(i) PROVE PanelInv'
  <2> DEFINE list == RulesOf(locations, i)
             c == Client(locations, i)
             same == c = Client(locations, page.choiceRow)
             row == RuleRowAfter(list, page.ruleRow, list, same)
  <2>1. /\ page' = WithRule([page EXCEPT !.choiceRow = c, !.ruleRow = row], list)
        /\ locations' = locations /\ tree' = tree
    BY <1>2 DEF SelectChoice
  <2>2. i \in 0 .. Len(locations) /\ i # 0
    BY <1>1
  <2>3. /\ c \in 0 .. Len(locations) /\ c # 0 /\ locations[c] = locations[i]
        /\ list = locations[i].excluded /\ list \in Seq(Entry)
    BY <1>1, <2>2, ClientIs
  <2>4. RulesOf(locations, c) = list
    <3> HIDE DEF c, list
    <3> QED
      BY <1>1, <2>3, ClientIs
  <2>5. row \in 0 .. Len(list)
    BY <2>3, RuleRowAfterIs
  <2> HIDE DEF list, c, row
  <2>6. PageOK(locations, page')
    BY <1>1, <2>1, <2>3, <2>4, <2>5, WithRuleIs
  <2> QED
    BY <1>1, <2>1, <2>6 DEF PanelInv, TreeInv
<1>3. ASSUME NEW i, SelectRuleRow(i) PROVE PanelInv'
  <2> DEFINE choice == page.choiceRow
             list == RulesOf(locations, choice)
  <2>1. /\ i \in DOMAIN list /\ page' = WithRule([page EXCEPT !.ruleRow = i], list)
        /\ locations' = locations /\ tree' = tree
    BY <1>3 DEF SelectRuleRow
  <2>2. choice \in 0 .. Len(locations)
    BY <1>1 DEF PageOK
  <2>3. list \in Seq(Entry)
    <3> HIDE DEF choice
    <3> QED
      BY <1>1, <2>2, ClientIs
  <2>4. [page EXCEPT !.ruleRow = i] = [page EXCEPT !.choiceRow = choice, !.ruleRow = i]
    BY <1>1 DEF PageOK
  <2>5. i \in 0 .. Len(RulesOf(locations, choice))
    BY <2>1, <2>3
  <2> HIDE DEF choice
  <2>6. PageOK(locations, page')
    BY <1>1, <2>1, <2>2, <2>4, <2>5, WithRuleIs
  <2> QED
    BY <1>1, <2>1, <2>6 DEF PanelInv, TreeInv
<1>4. ASSUME NEW rule \in TypedRules, TypeRule(rule) PROVE PanelInv'
  <2>1. rule \in Entry /\ page' = [page EXCEPT !.rule = rule]
        /\ locations' = locations /\ tree' = tree
    BY <1>4, BackupPagesAssumption DEF TypeRule
  <2>2. PageOK(locations, page')
    BY <1>1, <2>1 DEF PageOK
  <2> QED
    BY <1>1, <2>1, <2>2 DEF PanelInv, TreeInv
<1> QED
  BY <1>2, <1>3, <1>4

\* The buttons of the Exclusions page.
LEMMA ExclusionsPageKeeps ==
  ASSUME PanelInv, AddRule \/ EditRule \/ RemoveRule
  PROVE  PanelInv'
<1> DEFINE choice == page.choiceRow
           i == Client(locations, choice)
           list == RulesOf(locations, choice)
<1>1. TreeInv /\ locations \in Seq(Location) /\ PageOK(locations, page) /\ Len(locations) \in Nat
  BY DEF PanelInv, TreeInv
<1>2. choice # 0
  BY DEF AddRule, EditRule, RemoveRule, RuleButtons
<1>3. choice \in 0 .. Len(locations) /\ page.rule \in Entry
  BY <1>1 DEF PageOK
<1>4. i \in 1 .. Len(locations) /\ list \in Seq(Entry) /\ locations[i].excluded \in Seq(Entry)
  <2> HIDE DEF choice
  <2>1. i \in 0 .. Len(locations) /\ i # 0 /\ list \in Seq(Entry) /\ locations[i] \in Location
    BY <1>1, <1>2, <1>3, ClientIs
  <2> HIDE DEF i, list
  <2> QED
    BY <1>1, <2>1 DEF Location
<1>5. CASE AddRule
  <2>1. ChangeAndSelect(i, AddEntry(locations[i].excluded, page.rule))
    BY <1>5 DEF AddRule
  <2>2. AddEntry(locations[i].excluded, page.rule) \in Seq(Entry)
    BY <1>3, <1>4, AddEntryIs
  <2> QED
    BY <1>2, <2>1, <2>2, ChangeAndSelectKeeps
<1>6. CASE EditRule
  <2>1. ChangeAndSelect(i, ReplaceEntry(list, list[page.ruleRow], page.rule))
    BY <1>6 DEF EditRule
  <2>2. ReplaceEntry(list, list[page.ruleRow], page.rule) \in Seq(Entry)
    BY <1>3, <1>4, ReplaceEntryIs
  <2> QED
    BY <1>2, <2>1, <2>2, ChangeAndSelectKeeps
<1>7. CASE RemoveRule
  <2> DEFINE new == RemoveEntry(list, list[page.ruleRow])
             locs == SetRules(i, new)
  <2>1. Change(locs, InPlace)
    BY <1>7 DEF RemoveRule
  <2>2. new \in Seq(Entry)
    BY <1>4, RemoveEntryIs
  <2> HIDE DEF i, new
  <2>3. locs \in Seq(Location) /\ Len(locs) = Len(locations)
    BY <1>1, <1>4, <2>2, SetRulesIs
  <2> HIDE DEF locs
  <2>4. InPlace \in [1 .. Len(locations) -> 0 .. Len(locs)]
    BY <1>1, <2>3, Moves
  <2> QED
    BY <2>1, <2>3, <2>4, ChangeKeeps
<1> QED
  BY <1>5, <1>6, <1>7

\* Every step keeps the tree up to date and the rows in their lists.
LEMMA PanelKeeps == PanelInv /\ [PanelNext]_vars => PanelInv'
<1> SUFFICES ASSUME PanelInv, [PanelNext]_vars PROVE PanelInv'
  OBVIOUS
<1>1. CASE UNCHANGED vars
  BY <1>1 DEF vars, PanelInv, TreeInv
<1>2. CASE \E n \in DOMAIN tree : \E found \in SUBSET Children(n) : TreeExpand(n, found)
  BY <1>2, TreePageKeeps
<1>3. CASE \E n \in DOMAIN tree, agreed \in BOOLEAN : TreeClick(n, agreed)
  BY <1>3, TreePageKeeps
<1>4. CASE PagesNext
  BY <1>4, LocationsPageTyping, LocationsPageKeeps, ExclusionsPageTyping, ExclusionsPageKeeps
     DEF PagesNext
<1> QED
  BY <1>1, <1>2, <1>3, <1>4 DEF PanelNext

\* So they are always.
THEOREM PanelInvariant == PanelSpec => []PanelInv
<1> QED
  BY PanelStarts, PanelKeeps, PTL DEF PanelSpec

-----------------------------------------------------------------------------
(* What the user sees in the tree.                                         *)

\* After any sequence of clicks, edits and expanded directories, what the
\* tree shows as included is what a backup of the outermost location scans.
THEOREM TreeIsTrue == PanelSpec => []TreeShowsBackup
<1>1. PanelInv => TreeShowsBackup
  BY ShowsBackup DEF PanelInv
<1> QED
  BY <1>1, PanelInvariant, PTL

\* No node keeps a pointer to a location or a rule that was erased.
THEOREM NoRuleDangles == PanelSpec => []RulesNotDangling
<1>1. PanelInv => RulesNotDangling
  BY NothingDangles DEF PanelInv
<1> QED
  BY <1>1, PanelInvariant, PTL

\* The partial tick is on the nodes that have a location below them.
THEOREM TicksAreTrue == PanelSpec => []PartialTicks
<1>1. PanelInv => PartialTicks
  BY TicksArePartial DEF PanelInv
<1> QED
  BY <1>1, PanelInvariant, PTL

-----------------------------------------------------------------------------
(* The Edit button of the Locations page.                                  *)

\* A tree that is up to date stays as it is when no path and no rule changes.
LEMMA TreeStays ==
  ASSUME NEW locs \in Seq(Location), NEW t, UpToDate(locs, t),
         NEW new \in Seq(Location), SameLocations(locs, new)
  PROVE  Refreshed(new, t, Root) = t
<1>1. Loaded(DOMAIN t) /\ t = [n \in DOMAIN t |-> t[n]]
  BY DEF UpToDate
<1>2. ASSUME NEW n \in DOMAIN t PROVE t[n] = UpdateState(new, n, Inherited(t, n))
  <2>1. t[n] = UpdateState(locs, n, Inherited(t, n))
    BY DEF UpToDate
  <2>2. /\ t[n].location = LocationOf(locs, n, Inherited(t, n))
        /\ t[n].location \in (Paths(locs) \cap Nodes) \cup {NULL}
    BY StateIs
  <2>3. Paths(new) = Paths(locs) /\ \A p \in Paths(locs) : ListOf(new, p) = ListOf(locs, p)
    BY DEF SameLocations
  <2> QED
    BY <2>1, <2>2, <2>3, UpdateStateSame
<1>3. UpToDate(new, t)
  BY <1>1, <1>2 DEF UpToDate
<1>4. UpToDate(new, Refreshed(new, t, Root)) /\ DOMAIN Refreshed(new, t, Root) = DOMAIN t
  BY <1>1, AllRefreshed
<1> QED
  BY <1>3, <1>4, UpToDateUnique

\* a location has got a new name
Renamed(locs, new, i, name) ==
    /\ locs \in Seq(Location)
    /\ new \in Seq(Location)
    /\ i \in 1 .. Len(locs)
    /\ new = [locs EXCEPT ![i].name = name]

\* A new name changes no path and no rule.
LEMMA RenamedIs ==
  ASSUME NEW locs, NEW new, NEW i, NEW name, Renamed(locs, new, i, name)
  PROVE  /\ SameLocations(locs, new)
         /\ DOMAIN new = DOMAIN locs
         /\ \A j \in DOMAIN locs : \E nm \in {locs[j].name, name} :
               new[j] = [locs[j] EXCEPT !.name = nm]
<1>0. /\ locs \in Seq(Location) /\ new \in Seq(Location) /\ i \in 1 .. Len(locs)
      /\ new = [locs EXCEPT ![i].name = name]
  BY DEF Renamed
<1>1. /\ DOMAIN new = DOMAIN locs /\ DOMAIN locs = 1 .. Len(locs) /\ Len(new) = Len(locs)
      /\ \A j \in 1 .. Len(locs) : new[j] = IF j = i THEN [locs[j] EXCEPT !.name = name]
                                            ELSE locs[j]
  <2>1. DOMAIN new = DOMAIN locs /\ DOMAIN locs = 1 .. Len(locs) /\ Len(locs) \in Nat
    BY <1>0
  <2>2. Len(new) \in Nat /\ DOMAIN new = 1 .. Len(new)
    BY <1>0
  <2>3. Len(new) = Len(locs)
    BY <2>1, <2>2
  <2> QED
    BY <1>0, <2>1, <2>3
<1>2. ASSUME NEW j \in 1 .. Len(locs)
      PROVE  /\ new[j].path = locs[j].path
             /\ new[j].excluded = locs[j].excluded
             /\ \E nm \in {locs[j].name, name} : new[j] = [locs[j] EXCEPT !.name = nm]
  <2>1. locs[j] \in Location
    BY <1>0
  <2>2. CASE j = i
    <3>1. new[j] = [locs[j] EXCEPT !.name = name]
      BY <1>1, <2>2
    <3> QED
      BY <2>1, <3>1 DEF Location
  <2>3. CASE j # i
    <3>1. new[j] = locs[j]
      BY <1>1, <2>3
    <3>2. [locs[j] EXCEPT !.name = locs[j].name] = locs[j]
      BY <2>1 DEF Location
    <3> QED
      BY <3>1, <3>2
  <2> QED
    BY <2>2, <2>3
<1>3. Paths(new) = Paths(locs)
  BY <1>1, <1>2 DEF Paths
<1>4. ASSUME NEW p \in Paths(locs) PROVE ListOf(new, p) = ListOf(locs, p)
  <2>1. {j \in 1 .. Len(new) : new[j].path = p} = {j \in 1 .. Len(locs) : locs[j].path = p}
    BY <1>1, <1>2
  <2>2. IndexOf(new, p) = IndexOf(locs, p)
    BY <2>1 DEF IndexOf, SelectInSeq
  <2>3. IndexOf(locs, p) \in 1 .. Len(locs)
    BY <1>0, ListOfIs
  <2> QED
    BY <1>2, <2>2, <2>3 DEF ListOf
<1> QED
  BY <1>1, <1>2, <1>3, <1>4 DEF SameLocations

\* The path that was typed is lost, and nothing but the name changes.
THEOREM EditChangesNothingElse == PanelSpec => EditOnlyRenames
<1>1. ASSUME PanelInv, EditLocation
      PROVE  /\ DOMAIN locations' = DOMAIN locations
             /\ \A i \in DOMAIN locations : \E name \in {locations[i].name, page.name} :
                    locations'[i] = [locations[i] EXCEPT !.name = name]
             /\ tree' = tree
  <2> DEFINE i == Client(locations, page.locRow)
  <2>1. locations \in Seq(Location) /\ UpToDate(locations, tree)
    BY <1>1 DEF PanelInv, TreeInv
  <2>2. /\ i \in 1 .. Len(locations)
        /\ locations' = [locations EXCEPT ![i].name = page.name]
        /\ locations' \in Seq(Location)
        /\ tree' = Refreshed(locations', tree, Root)
    BY <1>1, EditLocationIs
  <2> HIDE DEF i
  <2>3. /\ SameLocations(locations, locations') /\ DOMAIN locations' = DOMAIN locations
        /\ \A j \in DOMAIN locations : \E name \in {locations[j].name, page.name} :
               locations'[j] = [locations[j] EXCEPT !.name = name]
    <3>1. Renamed(locations, locations', i, page.name)
      BY <2>1, <2>2 DEF Renamed
    <3> QED
      BY <3>1, RenamedIs
  <2>4. tree' = tree
    BY <2>1, <2>2, <2>3, TreeStays
  <2> QED
    BY <2>3, <2>4
<1>2. PanelInv /\ [PanelNext]_vars =>
         [EditLocation =>
            /\ DOMAIN locations' = DOMAIN locations
            /\ \A i \in DOMAIN locations : \E name \in {locations[i].name, page.name} :
                   locations'[i] = [locations[i] EXCEPT !.name = name]
            /\ tree' = tree]_vars
  BY <1>1
<1> QED
  BY <1>2, PanelInvariant, PTL DEF PanelSpec, EditOnlyRenames

-----------------------------------------------------------------------------
(* How far a click reaches.                                                *)

\* left out by a rule of this list
Out(list, x) == Says(list, "exclude", x) /\ ~ Says(list, "always", x)

\* the nodes on the way from the location down to m
Way(loc, m) == {x \in {m} \cup Ancestors[m] : loc \in Ancestors[x]}

\* Scanned is what no node is left out on the way to.
LEMMA ScannedIs ==
  ASSUME NEW list \in Seq(Entry), NEW loc, NEW m
  PROVE  m \in Scanned(list, loc) <=> m \in Subtree[loc] /\ \A x \in Way(loc, m) : ~ Out(list, x)
<1>1. \A x : ExcludedByBox(list, x) <=> Out(list, x)
  BY ExcludedByBoxIs DEF Out
<1> QED
  BY <1>1 DEF Scanned, Way

\* What is shown as included is what is scanned, in every location.
LEMMA SelectedIs ==
  ASSUME NEW locs \in Seq(Location), NEW t, UpToDate(locs, t), NEW m \in DOMAIN t
  PROVE  /\ t[m].location # NULL /\ (t[m].includedBy # NULL \/ t[m].excludedBy = NULL)
            <=> /\ t[m].location # NULL
                /\ m \in Scanned(ListOf(locs, t[m].location), t[m].location)
BY ShownIsScanned DEF LeftOut

\* The location of a node depends on the paths only.
LEMMA SamePlaces ==
  ASSUME NEW locs \in Seq(Location), NEW t, UpToDate(locs, t),
         NEW new \in Seq(Location), NEW s, UpToDate(new, s),
         Paths(new) = Paths(locs), NEW m \in DOMAIN t \cap DOMAIN s
  PROVE  s[m].location = t[m].location
<1>1. (IF t[m].location = NULL THEN {} ELSE {t[m].location})
         = (IF s[m].location = NULL THEN {} ELSE {s[m].location})
  <2>1. {p \in Paths(locs) \cap Nodes : m \in Subtree[p] /\ Ancestors[p] \cap Paths(locs) = {}}
          = IF t[m].location = NULL THEN {} ELSE {t[m].location}
    BY OutermostIs
  <2>2. {p \in Paths(new) \cap Nodes : m \in Subtree[p] /\ Ancestors[p] \cap Paths(new) = {}}
          = IF s[m].location = NULL THEN {} ELSE {s[m].location}
    BY OutermostIs
  <2> QED
    BY <2>1, <2>2
<1>2. CASE t[m].location = NULL
  BY <1>1, <1>2
<1>3. CASE t[m].location # NULL
  BY <1>1, <1>3
<1> QED
  BY <1>2, <1>3

\* In the location that the clicked node is in, the new rules decide, and
\* elsewhere nothing changes.
LEMMA ClickReaches ==
  ASSUME TreeInv, NEW n \in DOMAIN tree, NEW new \in Seq(Entry), NowListed(n, new, locations', tree')
  PROVE  LET loc  == tree[n].location
             list == ListOf(locations, loc)
         IN  /\ Selected \subseteq DOMAIN tree /\ Selected' \subseteq DOMAIN tree
             /\ \A m \in DOMAIN tree : m \notin Subtree[loc] => (m \in Selected' <=> m \in Selected)
             /\ \A m \in DOMAIN tree \cap Subtree[loc] :
                   /\ m \in Selected <=> \A x \in Way(loc, m) : ~ Out(list, x)
                   /\ m \in Selected' <=> \A x \in Way(loc, m) : ~ Out(new, x)
<1> DEFINE loc == tree[n].location
           list == ListOf(locations, loc)
<1>1. locations \in Seq(Location) /\ UpToDate(locations, tree)
  BY DEF TreeInv
<1>2. /\ loc \in Paths(locations) \cap Nodes
      /\ locations' \in Seq(Location) /\ UpToDate(locations', tree') /\ DOMAIN tree' = DOMAIN tree
      /\ Paths(locations') = Paths(locations) /\ ListOf(locations', loc) = new
      /\ \A q \in Paths(locations) \ {loc} : ListOf(locations', q) = ListOf(locations, q)
  BY DEF NowListed
<1>3. list \in Seq(Entry)
  BY <1>1, <1>2, ListOfIs
<1>4. Selected \subseteq DOMAIN tree /\ Selected' \subseteq DOMAIN tree
  BY <1>2 DEF Selected
<1> HIDE DEF list
<1>5. ASSUME NEW m \in DOMAIN tree
      PROVE  /\ m \in Selected <=> /\ tree[m].location # NULL
                                   /\ m \in Scanned(ListOf(locations, tree[m].location),
                                                    tree[m].location)
             /\ m \in Selected' <=> /\ tree[m].location # NULL
                                    /\ m \in Scanned(ListOf(locations', tree[m].location),
                                                     tree[m].location)
  <2>1. m \in DOMAIN tree' /\ tree'[m].location = tree[m].location
    BY <1>1, <1>2, SamePlaces
  <2>2. m \in Selected <=>
          tree[m].location # NULL /\ (tree[m].includedBy # NULL \/ tree[m].excludedBy = NULL)
    BY DEF Selected, ShownIncluded
  <2>3. m \in Selected' <=>
          tree'[m].location # NULL /\ (tree'[m].includedBy # NULL \/ tree'[m].excludedBy = NULL)
    BY <2>1 DEF Selected, ShownIncluded
  <2>4. m \in Selected <=> /\ tree[m].location # NULL
                           /\ m \in Scanned(ListOf(locations, tree[m].location), tree[m].location)
    BY <1>1, <2>2, SelectedIs
  <2>5. m \in Selected' <=> /\ tree'[m].location # NULL
                            /\ m \in Scanned(ListOf(locations', tree'[m].location), tree'[m].location)
    BY <1>2, <2>1, <2>3, SelectedIs
  <2> QED
    BY <2>1, <2>4, <2>5
<1>6. loc # NULL => Ancestors[loc] \cap Paths(locations) = {}
  BY <1>1, AllWellPlaced DEF WellPlaced
<1>7. ASSUME NEW m \in DOMAIN tree
      PROVE  tree[m].location = loc <=> m \in Subtree[loc]
  <2>1. {p \in Paths(locations) \cap Nodes : m \in Subtree[p] /\ Ancestors[p] \cap Paths(locations) = {}}
          = IF tree[m].location = NULL THEN {} ELSE {tree[m].location}
    BY <1>1, OutermostIs
  <2>2. loc # NULL
    BY <1>2, FileTree
  <2>3. m \in Subtree[loc] => loc \in {p \in Paths(locations) \cap Nodes :
                                  m \in Subtree[p] /\ Ancestors[p] \cap Paths(locations) = {}}
    BY <1>2, <1>6, <2>2
  <2>4. m \in Subtree[loc] => tree[m].location = loc
    BY <2>1, <2>3
  <2>5. tree[m].location = loc => m \in Subtree[loc]
    BY <1>1, <2>2, AllWellPlaced DEF WellPlaced
  <2> QED
    BY <2>4, <2>5
<1>8. ASSUME NEW m \in DOMAIN tree, m \notin Subtree[loc] PROVE m \in Selected' <=> m \in Selected
  <2>1. tree[m].location # loc
    BY <1>7, <1>8
  <2>2. tree[m].location # NULL => tree[m].location \in Paths(locations)
    BY <1>1, AllWellPlaced DEF WellPlaced
  <2>3. tree[m].location # NULL
        => ListOf(locations', tree[m].location) = ListOf(locations, tree[m].location)
    BY <1>2, <2>1, <2>2
  <2> QED
    BY <1>5, <2>3
<1>9. ASSUME NEW m \in DOMAIN tree, m \in Subtree[loc]
      PROVE  /\ m \in Selected <=> \A x \in Way(loc, m) : ~ Out(list, x)
             /\ m \in Selected' <=> \A x \in Way(loc, m) : ~ Out(new, x)
  <2>1. tree[m].location = loc /\ loc # NULL
    BY <1>2, <1>7, <1>9, FileTree
  <2>2. m \in Selected <=> m \in Scanned(list, loc)
    BY <1>5, <2>1 DEF list
  <2>3. m \in Selected' <=> m \in Scanned(new, loc)
    BY <1>2, <1>5, <2>1
  <2> HIDE DEF loc
  <2>4. m \in Scanned(list, loc) <=> \A x \in Way(loc, m) : ~ Out(list, x)
    BY <1>3, <1>9, ScannedIs
  <2>5. m \in Scanned(new, loc) <=> \A x \in Way(loc, m) : ~ Out(new, x)
    BY <1>9, ScannedIs
  <2> QED
    BY <2>2, <2>3, <2>4, <2>5
<1> QED
  BY <1>4, <1>8, <1>9 DEF list

\* A rule that names a path applies to that path only, and the two rules for
\* what is below a directory only to what is below it.
LEMMA AppliesIs ==
  ASSUME NEW n \in Nodes, NEW x \in Nodes
  PROVE  /\ \A e : e.match = "exact" /\ e.value = n /\ Applies(e, x) => x = n
         /\ Applies(AlwaysInclude(n), x) <=> x = n
         /\ Applies(NewEntry("exclude", FileDirOf(n), "exact", n), x) <=> x = n
         /\ \A sense : /\ Applies(NewEntry(sense, "dir", "regex", n), x)
                            <=> x \in Dirs /\ n \in Ancestors[x] /\ Plain[n]
                       /\ Applies(NewEntry(sense, "file", "regex", n), x)
                            <=> x \notin Dirs /\ n \in Ancestors[x] /\ Plain[n]
<1>1. n \notin Patterns
  BY FileSystemAssumption
<1>2. ASSUME NEW e, e.match = "exact", e.value = n, Applies(e, x) PROVE x = n
  BY <1>2 DEF Applies
<1>3. /\ Applies(AlwaysInclude(n), x) <=> x = n
      /\ Applies(NewEntry("exclude", FileDirOf(n), "exact", n), x) <=> x = n
  BY DEF Applies, AlwaysInclude, NewEntry
<1>4. ASSUME NEW sense
      PROVE  /\ Applies(NewEntry(sense, "dir", "regex", n), x)
                  <=> x \in Dirs /\ n \in Ancestors[x] /\ Plain[n]
             /\ Applies(NewEntry(sense, "file", "regex", n), x)
                  <=> x \notin Dirs /\ n \in Ancestors[x] /\ Plain[n]
  BY <1>1 DEF Applies, NewEntry, FileDirOf
<1> QED
  BY <1>2, <1>3, <1>4

\* On the way there are only nodes, on the node's own way down.
LEMMA WayIs ==
  ASSUME NEW loc \in Nodes, NEW m \in Nodes
  PROVE  \A x \in Way(loc, m) : /\ x \in Nodes /\ m \in Subtree[x]
                                /\ x \in {m} \cup Ancestors[m] /\ loc \in Ancestors[x]
BY FileTree, BelowIsAbove DEF Way

\* Excluding a node that no rule mentions takes out that node and all that is
\* below it, and nothing else.
LEMMA ExcludeTakesOutSubtree ==
  ASSUME TreeInv, NEW n, ActivateIncluded(n)
  PROVE  Selected' = Selected \ Subtree[n]
<1> DEFINE loc == tree[n].location
           list == ListOf(locations, loc)
           rule == NewEntry("exclude", FileDirOf(n), "exact", n)
           new == AddEntry(list, rule)
<1>1. /\ n \in DOMAIN tree /\ loc \in Paths(locations) \cap Nodes
      /\ list \in Seq(Entry) /\ rule \in Entry
      /\ NowListed(n, new, locations', tree')
  BY IncludedClick
<1>2. /\ n \in Nodes /\ DOMAIN tree \subseteq Nodes /\ loc # n
      /\ locations \in Seq(Location) /\ UpToDate(locations, tree)
      /\ tree[n].includedBy = NULL /\ tree[n].excludedBy = NULL /\ loc # NULL
      /\ WellPlaced(locations, tree, n)
  BY <1>1, AllWellPlaced DEF TreeInv, UpToDate, Loaded, ActivateIncluded, PlainlyIncluded
<1> HIDE DEF list, rule
<1>3. new \in Seq(Entry) /\ \A x : Contains(new, x) <=> Contains(list, x) \/ x = rule
  BY <1>1, AddEntryIs
<1> HIDE DEF new
<1>4. ~ Says(list, "always", n)
  <2>1. Says(list, "always", n) => FirstMatch(list, "always", n) # NULL
    BY <1>1, FirstMatchIs
  <2>2. /\ LeftOut(Inherited(tree, n)) => tree[n].excludedBy = Inherited(tree, n).excludedBy
        /\ ~ LeftOut(Inherited(tree, n)) => tree[n].includedBy = FirstMatch(list, "always", n)
    BY <1>1, <1>2, StateIs DEF list
  <2> QED
    BY <1>2, <2>1, <2>2 DEF LeftOut
<1>5. ASSUME NEW x \in Nodes PROVE Out(new, x) <=> Out(list, x) \/ x = n
  <2>1. /\ rule.sense = "exclude"
        /\ Applies(rule, x) <=> x = n
    BY <1>2, AppliesIs DEF rule, NewEntry
  <2>2. Says(new, "exclude", x) <=> Says(list, "exclude", x) \/ x = n
    BY <1>3, <2>1 DEF Says
  <2>3. Says(new, "always", x) <=> Says(list, "always", x)
    BY <1>3, <2>1 DEF Says
  <2> QED
    BY <1>4, <2>2, <2>3 DEF Out
<1>6. /\ Selected \subseteq DOMAIN tree /\ Selected' \subseteq DOMAIN tree
      /\ \A m \in DOMAIN tree : m \notin Subtree[loc] => (m \in Selected' <=> m \in Selected)
      /\ \A m \in DOMAIN tree \cap Subtree[loc] :
            /\ m \in Selected <=> \A x \in Way(loc, m) : ~ Out(list, x)
            /\ m \in Selected' <=> \A x \in Way(loc, m) : ~ Out(new, x)
  BY <1>1, <1>3, ClickReaches DEF list
<1>7. n \in Subtree[loc] /\ loc \in Ancestors[n]
  BY <1>1, <1>2, BelowIsAbove DEF WellPlaced
<1> HIDE DEF loc
<1>8. ASSUME NEW m \in DOMAIN tree PROVE m \in Selected' <=> m \in Selected /\ m \notin Subtree[n]
  <2>1. CASE m \notin Subtree[loc]
    <3>1. m \notin Subtree[n]
      BY <1>1, <1>2, <1>7, <2>1, FileTree, BelowIsAbove
    <3> QED
      BY <1>6, <2>1, <3>1
  <2>2. CASE m \in Subtree[loc]
    <3>1. \A x \in Way(loc, m) : x \in Nodes
      BY <1>1, <1>2, WayIs
    <3>2. n \in Way(loc, m) <=> m \in Subtree[n]
      BY <1>2, <1>7, FileTree, BelowIsAbove DEF Way
    <3> QED
      BY <1>5, <1>6, <2>2, <3>1, <3>2
  <2> QED
    BY <2>1, <2>2
<1> QED
  BY <1>6, <1>8

\* A rule is erased, and others go only if they apply to nothing on the way.
LEMMA SaysSame ==
  ASSUME NEW list, NEW new, NEW X,
         \A e : Contains(new, e) => Contains(list, e),
         \A e : Contains(list, e) /\ e \notin X => Contains(new, e),
         NEW x, \A e \in X : ~ Applies(e, x)
  PROVE  Out(new, x) <=> Out(list, x)
BY DEF Out, Says

\* Erasing the rule of a node, and the two that came with it, changes nothing
\* outside the node's own subtree.
LEMMA OwnRuleStaysBelow ==
  ASSUME TreeInv, NEW n, ActivateAlwaysIncluded(n, FALSE)
  PROVE  Selected \ Subtree[n] = Selected' \ Subtree[n]
<1> DEFINE loc == tree[n].location
           list == ListOf(locations, loc)
           rule == tree[n].includedBy
           less == RemoveEntry(list, UnderFiles(n))
           two == /\ NamesExactly(rule, n)
                  /\ Contains(list, UnderFiles(n))
                  /\ Contains(list, UnderDirs(n))
           pruned == IF two THEN RemoveEntry(less, UnderDirs(n)) ELSE list
           new == RemoveEntry(pruned, rule)
           X == {rule, UnderFiles(n), UnderDirs(n)}
<1>1. /\ n \in DOMAIN tree /\ n \in Nodes /\ loc \in Paths(locations) \cap Nodes
      /\ list \in Seq(Entry) /\ pruned \in Seq(Entry)
      /\ NamesExactly(rule, n)
      /\ NowListed(n, new, locations', tree')
  BY AlwaysClick
<1>2. DOMAIN tree \subseteq Nodes
  BY DEF TreeInv, UpToDate, Loaded
<1> HIDE DEF list, rule
<1>3. /\ \A e : Contains(pruned, e) => Contains(list, e)
      /\ \A e : Contains(list, e) /\ e \notin X => Contains(pruned, e)
  <2>1. /\ less \in Seq(Entry)
        /\ \A e : Contains(less, e) => Contains(list, e)
        /\ \A e : Contains(list, e) /\ e # UnderFiles(n) => Contains(less, e)
    BY <1>1, RemoveEntryIs
  <2> HIDE DEF less
  <2>2. /\ \A e : Contains(RemoveEntry(less, UnderDirs(n)), e) => Contains(less, e)
        /\ \A e : Contains(less, e) /\ e # UnderDirs(n)
                     => Contains(RemoveEntry(less, UnderDirs(n)), e)
    BY <2>1, RemoveEntryIs
  <2>3. CASE two
    <3>1. pruned = RemoveEntry(less, UnderDirs(n))
      BY <2>3
    <3> HIDE DEF pruned
    <3> QED
      BY <2>1, <2>2, <3>1
  <2>4. CASE ~ two
    <3>1. pruned = list
      BY <2>4
    <3> HIDE DEF pruned
    <3> QED
      BY <3>1
  <2> QED
    BY <2>3, <2>4
<1> HIDE DEF pruned
<1>4. /\ new \in Seq(Entry)
      /\ \A e : Contains(new, e) => Contains(list, e)
      /\ \A e : Contains(list, e) /\ e \notin X => Contains(new, e)
  <2>1. /\ new \in Seq(Entry)
        /\ \A e : Contains(new, e) => Contains(pruned, e)
        /\ \A e : Contains(pruned, e) /\ e # rule => Contains(new, e)
    BY <1>1, RemoveEntryIs
  <2> HIDE DEF new
  <2> QED
    BY <1>3, <2>1
<1> HIDE DEF new
<1>5. ASSUME NEW x \in Nodes, x \notin Subtree[n] PROVE Out(new, x) <=> Out(list, x)
  <2>1. x # n /\ n \notin Ancestors[x]
    BY <1>1, <1>5, BelowIsAbove
  <2>2. ~ Applies(rule, x)
    BY <1>1, <2>1, AppliesIs DEF NamesExactly
  <2>3. ~ Applies(UnderFiles(n), x) /\ ~ Applies(UnderDirs(n), x)
    BY <1>1, <2>1, AppliesIs DEF UnderFiles, UnderDirs
  <2>4. \A e \in X : ~ Applies(e, x)
    BY <2>2, <2>3
  <2> HIDE DEF X
  <2> QED
    BY <1>4, <2>4, SaysSame
<1>6. /\ Selected \subseteq DOMAIN tree /\ Selected' \subseteq DOMAIN tree
      /\ \A m \in DOMAIN tree : m \notin Subtree[loc] => (m \in Selected' <=> m \in Selected)
      /\ \A m \in DOMAIN tree \cap Subtree[loc] :
            /\ m \in Selected <=> \A x \in Way(loc, m) : ~ Out(list, x)
            /\ m \in Selected' <=> \A x \in Way(loc, m) : ~ Out(new, x)
  BY <1>1, <1>4, ClickReaches DEF list
<1> HIDE DEF loc
<1>7. ASSUME NEW m \in DOMAIN tree, m \notin Subtree[n] PROVE m \in Selected' <=> m \in Selected
  <2>1. CASE m \notin Subtree[loc]
    BY <1>6, <2>1
  <2>2. CASE m \in Subtree[loc]
    <3>1. ASSUME NEW x \in Way(loc, m) PROVE x \in Nodes /\ x \notin Subtree[n]
      <4>1. x \in Nodes /\ m \in Subtree[x]
        BY <1>1, <1>2, WayIs
      <4> QED
        BY <1>1, <1>2, <1>7, <4>1, FileTree, BelowIsAbove
    <3> QED
      BY <1>5, <1>6, <2>2, <3>1
  <2> QED
    BY <2>1, <2>2
<1> QED
  BY <1>6, <1>7

\* What leaves a node out is an Exclude rule.
LEMMA ExcludedByExclude ==
  ASSUME NEW locs \in Seq(Location), NEW t, UpToDate(locs, t)
  PROVE  \A n \in DOMAIN t : t[n].excludedBy # NULL => t[n].excludedBy.sense = "exclude"
<1> DEFINE D == DOMAIN t
           T == {n \in D : t[n].excludedBy # NULL => t[n].excludedBy.sense = "exclude"}
<1>1. Loaded(D) /\ Root \in D
  BY DEF UpToDate, Loaded
<1>2. Root \in T
  <2>1. WellPlaced(locs, t, Root)
    BY <1>1, AllWellPlaced
  <2>2. t[Root].excludedBy = NULL
    BY <2>1 DEF WellPlaced
  <2> QED
    BY <1>1, <2>2
<1>3. ASSUME NEW n \in D \ {Root}, Parent[n] \in T PROVE n \in T
  <2> DEFINE parent == t[Parent[n]]
             list == ListOf(locs, t[n].location)
             ex == FirstMatch(list, "exclude", n)
  <2>1. t[n].excludedBy = parent.excludedBy
        \/ (t[n].location # NULL /\ t[n].excludedBy = ex)
    BY <1>3, StateIs DEF Inherited
  <2>2. t[n].location # NULL => list \in Seq(Entry)
    <3>1. t[n].location \in (Paths(locs) \cap Nodes) \cup {NULL}
      BY <1>3, StateIs
    <3> QED
      BY <3>1, ListOfIs
  <2> HIDE DEF list
  <2>3. t[n].location # NULL /\ ex # NULL => ex.sense = "exclude"
    BY <2>2, FirstMatchIs
  <2>4. parent.excludedBy # NULL => parent.excludedBy.sense = "exclude"
    BY <1>3
  <2> QED
    BY <1>3, <2>1, <2>3, <2>4
<1>4. D \subseteq T
  <2>1. \A n \in D \ {Root} : Parent[n] \in T => n \in T
    BY <1>3
  <2> HIDE DEF D, T
  <2> QED
    BY <1>1, <1>2, <2>1, LoadedInduction
<1> QED
  BY <1>4

-----------------------------------------------------------------------------
(* Opening a path.                                                         *)

\* What the rules say of a node after a path has been opened.
LEMMA OpenPathSays ==
  ASSUME NEW list \in Seq(Entry), NEW n \in Nodes, ~ Stops(n), NEW x \in Nodes
  PROVE  LET new == OpenPathTo(n, list)
             top == Last(ExcludedChain[n])
         IN  /\ Says(new, "always", x) <=>
                   \/ Says(list, "always", x)
                   \/ x \in ({n} \cup Ancestors[n]) \cap Subtree[top]
                   \/ n \in Dirs /\ n \in Ancestors[x] /\ Plain[n]
             /\ Says(new, "exclude", x) <=>
                   \/ Says(list, "exclude", x)
                   \/ n # top /\ top \in Ancestors[x] /\ Plain[top]
<1> DEFINE new == OpenPathTo(n, list)
           top == Last(ExcludedChain[n])
           d == NewEntry("always", "dir", "regex", n)
           f == NewEntry("always", "file", "regex", n)
           Named == ({n} \cup Ancestors[n]) \cap Subtree[top]
<1>1. /\ new \in Seq(Entry)
      /\ \A e : Contains(new, e) <=> Contains(list, e) \/ e \in PathRules(n, top)
  BY OpenPathIs
<1>2. top \in Nodes /\ EndsAt(n, top)
  BY ChainIs DEF EndsAt
<1> HIDE DEF new, top
<1>3. Named \subseteq Nodes
  BY FileTree
<1>4. /\ \A m \in Named : AlwaysInclude(m).sense = "always" /\ (Applies(AlwaysInclude(m), x) <=> m = x)
      /\ d.sense = "always" /\ f.sense = "always"
      /\ UnderDirs(top).sense = "exclude" /\ UnderFiles(top).sense = "exclude"
  BY <1>3, AppliesIs DEF AlwaysInclude, NewEntry, UnderDirs, UnderFiles
<1>5. /\ (Applies(d, x) \/ Applies(f, x)) <=> n \in Ancestors[x] /\ Plain[n]
      /\ (Applies(UnderDirs(top), x) \/ Applies(UnderFiles(top), x))
            <=> top \in Ancestors[x] /\ Plain[top]
  BY <1>2, AppliesIs DEF UnderDirs, UnderFiles
<1>6. \A e : e \in PathRules(n, top) <=>
         \/ \E m \in Named : e = AlwaysInclude(m)
         \/ n # top /\ e \in {UnderFiles(top), UnderDirs(top)}
         \/ n \in Dirs /\ e \in {d, f}
  BY DEF PathRules
<1> HIDE DEF d, f, Named
<1>7. (\E e \in PathRules(n, top) : e.sense = "always" /\ Applies(e, x))
         <=> x \in Named \/ (n \in Dirs /\ n \in Ancestors[x] /\ Plain[n])
  <2>1. ASSUME NEW e \in PathRules(n, top), e.sense = "always", Applies(e, x)
        PROVE  x \in Named \/ (n \in Dirs /\ n \in Ancestors[x] /\ Plain[n])
    BY <1>4, <1>5, <1>6, <2>1
  <2>2. ASSUME x \in Named PROVE \E e \in PathRules(n, top) : e.sense = "always" /\ Applies(e, x)
    <3>1. AlwaysInclude(x) \in PathRules(n, top)
      BY <1>6, <2>2
    <3> QED
      BY <1>4, <2>2, <3>1
  <2>3. ASSUME n \in Dirs, n \in Ancestors[x], Plain[n]
        PROVE  \E e \in PathRules(n, top) : e.sense = "always" /\ Applies(e, x)
    <3>1. d \in PathRules(n, top) /\ f \in PathRules(n, top)
      BY <1>6, <2>3
    <3>2. Applies(d, x) \/ Applies(f, x)
      BY <1>5, <2>3
    <3> QED
      BY <1>4, <3>1, <3>2
  <2> QED
    BY <2>1, <2>2, <2>3
<1>8. (\E e \in PathRules(n, top) : e.sense = "exclude" /\ Applies(e, x))
         <=> n # top /\ top \in Ancestors[x] /\ Plain[top]
  <2>1. ASSUME NEW e \in PathRules(n, top), e.sense = "exclude", Applies(e, x)
        PROVE  n # top /\ top \in Ancestors[x] /\ Plain[top]
    BY <1>4, <1>5, <1>6, <2>1
  <2>2. ASSUME n # top, top \in Ancestors[x], Plain[top]
        PROVE  \E e \in PathRules(n, top) : e.sense = "exclude" /\ Applies(e, x)
    <3>1. UnderFiles(top) \in PathRules(n, top) /\ UnderDirs(top) \in PathRules(n, top)
      BY <1>6, <2>2
    <3>2. Applies(UnderFiles(top), x) \/ Applies(UnderDirs(top), x)
      BY <1>5, <2>2
    <3> QED
      BY <1>4, <3>1, <3>2
  <2> QED
    BY <2>1, <2>2
<1>9. \A sense : Says(new, sense, x) <=>
         Says(list, sense, x) \/ \E e \in PathRules(n, top) : e.sense = sense /\ Applies(e, x)
  BY <1>1 DEF Says
<1> QED
  BY <1>7, <1>8, <1>9 DEF new, top, Named

\* The chain ends at the topmost node that is left out in this location.
LEMMA TopIs ==
  ASSUME TreeInv, NEW n \in DOMAIN tree, tree[n].location # NULL, ~ Stops(n)
  PROVE  LET loc  == tree[n].location
             list == ListOf(locations, loc)
             top  == Last(ExcludedChain[n])
         IN  /\ EndsAt(n, top) /\ top \in Nodes /\ loc \in Nodes
             /\ loc \in Ancestors[top]
             /\ Out(list, top)
             /\ \A x \in Ancestors[top] : loc \in Ancestors[x] => ~ Out(list, x)
<1> DEFINE loc == tree[n].location
           list == ListOf(locations, loc)
           top == Last(ExcludedChain[n])
           q == Parent[top]
<1>1. /\ locations \in Seq(Location) /\ UpToDate(locations, tree) /\ Loaded(DOMAIN tree)
      /\ DOMAIN tree \subseteq Nodes /\ Root \in DOMAIN tree
      /\ \A m \in DOMAIN tree : WellPlaced(locations, tree, m)
  BY AllWellPlaced DEF TreeInv, UpToDate, Loaded
<1>2. EndsAt(n, top)
  BY <1>1, ChainIs
<1> HIDE DEF top
<1>3. /\ top \in {n} \cup Ancestors[n] /\ top \in Nodes /\ ~ Stops(top) /\ Stops(q)
      /\ top # Root /\ q \in Nodes
  BY <1>2, FileTree DEF EndsAt, Stops
<1>4. /\ top \in DOMAIN tree /\ q \in DOMAIN tree
      /\ Ancestors[top] = {q} \cup Ancestors[q] /\ n \in Subtree[top]
  <2>1. top \in DOMAIN tree
    BY <1>1, <1>3, LoadedAbove
  <2> QED
    BY <1>1, <1>3, <2>1, FileTree, BelowIsAbove DEF Loaded
<1>5. /\ loc \in Paths(locations) \cap Nodes /\ n \in Subtree[loc]
      /\ Ancestors[loc] \cap Paths(locations) = {}
  BY <1>1 DEF WellPlaced
<1>6. tree[top].location = loc /\ loc # top
  <2> DEFINE p == tree[top].location
  <2>1. p # NULL /\ p # top
    BY <1>1, <1>3, <1>4 DEF WellPlaced, Stops
  <2>2. /\ p \in Paths(locations) \cap Nodes /\ top \in Subtree[p]
        /\ Ancestors[p] \cap Paths(locations) = {}
    BY <1>1, <1>4, <2>1 DEF WellPlaced
  <2>3. n \in Subtree[p]
    BY <1>1, <1>3, <1>4, <2>2, FileTree, BelowIsAbove
  <2>4. p \in {r \in Paths(locations) \cap Nodes :
                  n \in Subtree[r] /\ Ancestors[r] \cap Paths(locations) = {}}
    BY <2>2, <2>3
  <2>5. {r \in Paths(locations) \cap Nodes :
            n \in Subtree[r] /\ Ancestors[r] \cap Paths(locations) = {}}
          = IF tree[n].location = NULL THEN {} ELSE {tree[n].location}
    BY <1>1, OutermostIs
  <2> HIDE DEF p
  <2>6. p = loc
    BY <2>4, <2>5
  <2> QED
    BY <2>1, <2>6 DEF p
<1>7. tree[q].location = loc /\ top \in Subtree[loc]
  BY <1>1, <1>3, <1>4, <1>6 DEF WellPlaced
<1>8. loc \in Ancestors[top]
  BY <1>3, <1>5, <1>6, <1>7, BelowIsAbove
<1>9. ~ LeftOut(tree[q]) /\ LeftOut(tree[top])
  <2>1. q = Root => tree[q].excludedBy = NULL
    BY <1>1, <1>4 DEF WellPlaced
  <2> QED
    BY <1>3, <2>1 DEF Stops, LeftOut
<1>10. list \in Seq(Entry)
  BY <1>1, <1>5, ListOfIs
<1> HIDE DEF list
<1>11. q \in Scanned(list, loc) /\ top \notin Scanned(list, loc)
  BY <1>1, <1>4, <1>6, <1>7, <1>9, ShownIsScanned DEF list
<1> HIDE DEF loc, q
<1>12. \A x \in Way(loc, q) : ~ Out(list, x)
  BY <1>10, <1>11, ScannedIs
<1>13. \E x \in Way(loc, top) : Out(list, x)
  BY <1>7, <1>10, <1>11, ScannedIs
<1>14. \A x \in Ancestors[top] : loc \in Ancestors[x] => ~ Out(list, x)
  BY <1>4, <1>12 DEF Way
<1>15. Out(list, top)
  BY <1>4, <1>13, <1>14 DEF Way
<1> QED
  BY <1>2, <1>3, <1>5, <1>8, <1>14, <1>15 DEF loc, list, top

\* Two nodes that are above a third are above one another.
LEMMA InOneLine ==
  ASSUME NEW m \in Nodes, NEW a \in {m} \cup Ancestors[m], NEW b \in {m} \cup Ancestors[m]
  PROVE  a = b \/ a \in Ancestors[b] \/ b \in Ancestors[a]
BY FileTree

\* Opening a path to a directory brings in all that is below it.
LEMMA PathBringsAllBelow ==
  ASSUME TreeInv, NEW n, n \in Dirs, ActivateExcluded(n), Plain[n],
         ~ NamesExactly(tree[n].excludedBy, n)
  PROVE  Below[n] \cap DOMAIN tree \subseteq Selected'
<1> DEFINE loc == tree[n].location
           list == ListOf(locations, loc)
           top == Last(ExcludedChain[n])
           new == OpenPathTo(n, list)
           Named == ({n} \cup Ancestors[n]) \cap Subtree[top]
<1>1. /\ n \in DOMAIN tree /\ n \in Nodes
      /\ loc \in Paths(locations) \cap Nodes
      /\ list \in Seq(Entry)
      /\ ~ Stops(n)
      /\ NowListed(n, new, locations', tree')
  BY ExcludedClick
<1>2. DOMAIN tree \subseteq Nodes /\ loc # NULL
  BY <1>1, FileTree DEF TreeInv, UpToDate, Loaded
<1>3. /\ top \in {n} \cup Ancestors[n] /\ top \in Nodes /\ loc \in Ancestors[top]
      /\ \A x \in Ancestors[top] : loc \in Ancestors[x] => ~ Out(list, x)
  BY <1>1, <1>2, TopIs DEF EndsAt
<1> HIDE DEF list
<1>4. new \in Seq(Entry)
  BY <1>1, OpenPathIs
<1>5. /\ \A m \in DOMAIN tree : m \notin Subtree[loc] => (m \in Selected' <=> m \in Selected)
      /\ \A m \in DOMAIN tree \cap Subtree[loc] :
            m \in Selected' <=> \A x \in Way(loc, m) : ~ Out(new, x)
  BY <1>1, <1>4, ClickReaches DEF list
<1>6. ASSUME NEW x \in Nodes
      PROVE  /\ Says(new, "always", x) <=>
                   \/ Says(list, "always", x)
                   \/ x \in Named
                   \/ n \in Ancestors[x]
             /\ Says(new, "exclude", x) => Says(list, "exclude", x) \/ top \in Ancestors[x]
  BY <1>1, OpenPathSays
<1> HIDE DEF new, top, loc
<1>7. ASSUME NEW m \in Below[n] \cap DOMAIN tree PROVE m \in Selected'
  <2>1. m \in Nodes /\ n \in Ancestors[m] /\ m \in Subtree[loc]
    BY <1>1, <1>2, <1>3, <1>7, FileTree, BelowIsAbove
  <2>2. ASSUME NEW x \in Way(loc, m) PROVE ~ Out(new, x)
    <3>1. x \in Nodes /\ x \in {m} \cup Ancestors[m] /\ loc \in Ancestors[x]
      BY <1>1, <2>1, <2>2, WayIs
    <3>2. CASE n \in Ancestors[x]
      BY <1>6, <3>1, <3>2 DEF Out
    <3>3. CASE x \in {n} \cup Ancestors[n] /\ x \in Subtree[top]
      BY <1>6, <3>1, <3>3 DEF Out
    <3>4. CASE x \in {n} \cup Ancestors[n] /\ x \notin Subtree[top]
      <4>1. x \in Ancestors[top] /\ top \notin Ancestors[x]
        BY <1>1, <1>3, <3>1, <3>4, FileTree, InOneLine, BelowIsAbove
      <4> QED
        BY <1>3, <1>6, <3>1, <4>1 DEF Out
    <3>5. n \in Ancestors[x] \/ x \in {n} \cup Ancestors[n]
      BY <2>1, <3>1, InOneLine
    <3> QED
      BY <3>2, <3>3, <3>4, <3>5
  <2> QED
    BY <1>5, <1>7, <2>1, <2>2
<1> QED
  BY <1>7

\* a node that a rule leaves out on its own, or lets in
SpillsOnly(list, n, top, m) ==
    \/ m \in Subtree[n] \cup Ancestors[n]
    \/ FirstMatch(list, "always", m) # NULL
    \/ m \in Below[top] /\ ~ Plain[top]

\* Opening a path takes nothing out, and lets in what is on the path, what is
\* below the node, and what an older AlwaysInclude rule names.
LEMMA PathSpills ==
  ASSUME TreeInv, NEW n, ActivateExcluded(n), ~ NamesExactly(tree[n].excludedBy, n)
  PROVE  /\ Selected \subseteq Selected'
         /\ \A m \in Selected' \ Selected :
               SpillsOnly(ListOf(locations, tree[n].location), n, Last(ExcludedChain[n]), m)
<1> DEFINE loc == tree[n].location
           list == ListOf(locations, loc)
           top == Last(ExcludedChain[n])
           new == OpenPathTo(n, list)
           Named == ({n} \cup Ancestors[n]) \cap Subtree[top]
<1>1. /\ n \in DOMAIN tree /\ n \in Nodes
      /\ loc \in Paths(locations) \cap Nodes
      /\ list \in Seq(Entry)
      /\ ~ Stops(n)
      /\ NowListed(n, new, locations', tree')
  BY ExcludedClick
<1>2. DOMAIN tree \subseteq Nodes /\ loc # NULL
  BY <1>1, FileTree DEF TreeInv, UpToDate, Loaded
<1>3. /\ top \in {n} \cup Ancestors[n] /\ top \in Nodes /\ loc \in Ancestors[top]
      /\ Out(list, top)
      /\ \A x \in Ancestors[top] : loc \in Ancestors[x] => ~ Out(list, x)
  BY <1>1, <1>2, TopIs DEF EndsAt
<1> HIDE DEF list
<1>4. new \in Seq(Entry)
  BY <1>1, OpenPathIs
<1>5. /\ Selected \subseteq DOMAIN tree /\ Selected' \subseteq DOMAIN tree
      /\ \A m \in DOMAIN tree : m \notin Subtree[loc] => (m \in Selected' <=> m \in Selected)
      /\ \A m \in DOMAIN tree \cap Subtree[loc] :
            /\ m \in Selected <=> \A x \in Way(loc, m) : ~ Out(list, x)
            /\ m \in Selected' <=> \A x \in Way(loc, m) : ~ Out(new, x)
  BY <1>1, <1>4, ClickReaches DEF list
<1>6. ASSUME NEW x \in Nodes
      PROVE  /\ Says(new, "always", x) <=>
                   \/ Says(list, "always", x)
                   \/ x \in Named
                   \/ n \in Dirs /\ n \in Ancestors[x] /\ Plain[n]
             /\ Says(new, "exclude", x) <=>
                   \/ Says(list, "exclude", x)
                   \/ n # top /\ top \in Ancestors[x] /\ Plain[top]
  BY <1>1, OpenPathSays
<1> HIDE DEF new, top, loc
<1>7. ASSUME NEW m \in Selected PROVE m \in Selected'
  <2>1. m \in DOMAIN tree /\ m \in Nodes
    BY <1>2, <1>5, <1>7
  <2>2. CASE m \notin Subtree[loc]
    BY <1>5, <1>7, <2>1, <2>2
  <2>3. CASE m \in Subtree[loc]
    <3>1. \A x \in Way(loc, m) : ~ Out(list, x)
      BY <1>5, <1>7, <2>1, <2>3
    <3>2. ASSUME NEW x \in Way(loc, m), Out(new, x) PROVE FALSE
      <4>1. x \in Nodes /\ x \in {m} \cup Ancestors[m] /\ ~ Out(list, x)
        BY <1>1, <2>1, <3>1, <3>2, WayIs
      <4>2. top \in Ancestors[x]
        BY <1>6, <3>2, <4>1 DEF Out
      <4>3. top \in Way(loc, m)
        BY <1>3, <2>1, <4>1, <4>2, FileTree DEF Way
      <4> QED
        BY <1>3, <3>1, <4>3
    <3> QED
      BY <1>5, <2>1, <2>3, <3>2
  <2> QED
    BY <2>2, <2>3
<1>8. ASSUME NEW m \in Selected' \ Selected PROVE SpillsOnly(list, n, top, m)
  <2>1. m \in DOMAIN tree /\ m \in Nodes /\ m \in Subtree[loc]
    BY <1>2, <1>5, <1>8
  <2>2. \A x \in Way(loc, m) : ~ Out(new, x)
    BY <1>5, <1>8, <2>1
  <2>3. PICK x \in Way(loc, m) : Out(list, x)
    BY <1>5, <1>8, <2>1
  <2>4. /\ x \in Nodes /\ x \in {m} \cup Ancestors[m] /\ loc \in Ancestors[x]
        /\ ~ Out(new, x)
    BY <1>1, <2>1, <2>2, <2>3, WayIs
  <2>5. x \in Named \/ n \in Ancestors[x]
    BY <1>6, <2>3, <2>4 DEF Out
  <2>6. CASE n \in Ancestors[x]
    BY <1>1, <2>1, <2>4, <2>6, FileTree, BelowIsAbove DEF SpillsOnly
  <2>7. CASE x \in Named
    <3>1. top \in {m} \cup Ancestors[m]
      BY <1>3, <2>1, <2>4, <2>7, FileTree, BelowIsAbove
    <3>2. CASE m = top
      BY <1>1, <1>3, <3>2, BelowIsAbove DEF SpillsOnly
    <3>3. CASE m # top /\ ~ Plain[top]
      BY <1>3, <2>1, <3>1, <3>3, BelowIsAbove DEF SpillsOnly
    <3>4. CASE m # top /\ Plain[top] /\ n = top
      BY <1>3, <2>1, <3>1, <3>4, BelowIsAbove DEF SpillsOnly
    <3>5. CASE m # top /\ Plain[top] /\ n # top
      <4>1. top \in Ancestors[m]
        BY <3>1, <3>5
      <4>2. m \in Way(loc, m)
        BY <1>3, <2>1, <4>1, FileTree DEF Way
      <4>3. Says(new, "always", m)
        BY <1>6, <2>1, <2>2, <3>5, <4>1, <4>2 DEF Out
      <4>4. CASE Says(list, "always", m)
        BY <1>1, <4>4, FirstMatchIs DEF SpillsOnly
      <4>5. CASE m \in Named \/ n \in Ancestors[m]
        BY <1>1, <2>1, <4>5, BelowIsAbove DEF SpillsOnly
      <4> QED
        BY <1>6, <2>1, <4>3, <4>4, <4>5
    <3> QED
      BY <3>2, <3>3, <3>4, <3>5
  <2> QED
    BY <2>5, <2>6, <2>7
<1> QED
  BY <1>7, <1>8 DEF list, top, loc

\* Erasing the rule of a node takes nothing out, and lets in what is below it.
LEMMA OwnRuleSpills ==
  ASSUME TreeInv, NEW n, ActivateExcluded(n), NamesExactly(tree[n].excludedBy, n)
  PROVE  /\ Selected \subseteq Selected'
         /\ Selected' \ Selected \subseteq Subtree[n]
<1> DEFINE loc == tree[n].location
           list == ListOf(locations, loc)
           rule == tree[n].excludedBy
           new == RemoveEntry(list, rule)
<1>1. /\ n \in DOMAIN tree /\ n \in Nodes
      /\ loc \in Paths(locations) \cap Nodes
      /\ list \in Seq(Entry)
      /\ NowListed(n, new, locations', tree')
  BY ExcludedClick
<1>2. DOMAIN tree \subseteq Nodes /\ rule.sense = "exclude"
  <2>1. locations \in Seq(Location) /\ UpToDate(locations, tree) /\ rule # NULL
    BY DEF TreeInv, ActivateExcluded
  <2> QED
    BY <1>1, <2>1, ExcludedByExclude DEF UpToDate, Loaded
<1> HIDE DEF list, rule
<1>3. /\ new \in Seq(Entry)
      /\ \A e : Contains(new, e) => Contains(list, e)
      /\ \A e : Contains(list, e) /\ e # rule => Contains(new, e)
  BY <1>1, RemoveEntryIs
<1> HIDE DEF new
<1>4. /\ Selected \subseteq DOMAIN tree /\ Selected' \subseteq DOMAIN tree
      /\ \A m \in DOMAIN tree : m \notin Subtree[loc] => (m \in Selected' <=> m \in Selected)
      /\ \A m \in DOMAIN tree \cap Subtree[loc] :
            /\ m \in Selected <=> \A x \in Way(loc, m) : ~ Out(list, x)
            /\ m \in Selected' <=> \A x \in Way(loc, m) : ~ Out(new, x)
  BY <1>1, <1>3, ClickReaches DEF list
<1> HIDE DEF loc
<1>5. ASSUME NEW x \in Nodes
      PROVE  /\ Out(new, x) => Out(list, x)
             /\ x # n /\ Out(list, x) => Out(new, x)
  <2>1. Applies(rule, x) => x = n
    BY <1>1, AppliesIs DEF NamesExactly, rule
  <2>2. Says(new, "always", x) <=> Says(list, "always", x)
    BY <1>2, <1>3 DEF Says
  <2>3. Says(new, "exclude", x) => Says(list, "exclude", x)
    BY <1>3 DEF Says
  <2>4. x # n /\ Says(list, "exclude", x) => Says(new, "exclude", x)
    BY <1>3, <2>1 DEF Says
  <2> QED
    BY <2>2, <2>3, <2>4 DEF Out
<1>6. ASSUME NEW m \in DOMAIN tree
      PROVE  /\ m \in Selected => m \in Selected'
             /\ m \in Selected' /\ m \notin Selected => m \in Subtree[n]
  <2>1. CASE m \notin Subtree[loc]
    BY <1>4, <2>1
  <2>2. CASE m \in Subtree[loc]
    <3>1. \A x \in Way(loc, m) : x \in Nodes /\ m \in Subtree[x]
      BY <1>1, <1>2, WayIs
    <3> QED
      BY <1>4, <1>5, <2>2, <3>1
  <2> QED
    BY <2>1, <2>2
<1> QED
  BY <1>4, <1>6

-----------------------------------------------------------------------------
(* What a click changes.                                                   *)

\* Excluding a node takes out that node and all that is below it, whatever
\* the rules of its location have become.
THEOREM ExcludingIsExact == PanelSpec => ExcludeIsExact
<1>1. ASSUME PanelInv, NEW n \in DOMAIN tree, ActivateIncluded(n)
      PROVE  Selected' = Selected \ Subtree[n]
  BY <1>1, ExcludeTakesOutSubtree DEF PanelInv
<1>2. PanelInv /\ [PanelNext]_vars =>
         [\A n \in DOMAIN tree : ActivateIncluded(n) => Selected' = Selected \ Subtree[n]]_treeVars
  BY <1>1
<1> QED
  BY <1>2, PanelInvariant, PTL DEF PanelSpec, ExcludeIsExact

\* Erasing a node's own AlwaysInclude rule changes nothing outside its subtree.
THEOREM ErasingIsLocal == PanelSpec => OwnRuleIsLocal
<1>1. ASSUME PanelInv, NEW n \in DOMAIN tree, ActivateAlwaysIncluded(n, FALSE)
      PROVE  Selected \ Subtree[n] = Selected' \ Subtree[n]
  BY <1>1, OwnRuleStaysBelow DEF PanelInv
<1>2. PanelInv /\ [PanelNext]_vars =>
         [\A n \in DOMAIN tree :
             ActivateAlwaysIncluded(n, FALSE) =>
                 Selected \ Subtree[n] = Selected' \ Subtree[n]]_treeVars
  BY <1>1
<1> QED
  BY <1>2, PanelInvariant, PTL DEF PanelSpec, OwnRuleIsLocal

\* Opening a path to a directory brings in all that is below it, as long as
\* its path has no special characters.
THEOREM OpeningBringsAllBelow == PanelSpec => IncludeBringsAllBelow
<1>1. ASSUME PanelInv, NEW n \in DOMAIN tree \cap Dirs, ActivateExcluded(n), Plain[n],
             ~ NamesExactly(tree[n].excludedBy, n)
      PROVE  Below[n] \cap DOMAIN tree \subseteq Selected'
  BY <1>1, PathBringsAllBelow DEF PanelInv
<1>2. PanelInv /\ [PanelNext]_vars =>
         [\A n \in DOMAIN tree \cap Dirs :
             /\ ActivateExcluded(n)
             /\ Plain[n]
             /\ ~ NamesExactly(tree[n].excludedBy, n)
             => Below[n] \cap DOMAIN tree \subseteq Selected']_treeVars
  BY <1>1
<1> QED
  BY <1>2, PanelInvariant, PTL DEF PanelSpec, IncludeBringsAllBelow

\* Activating an excluded node takes nothing out, and what it brings in beyond
\* the path and what is below the node comes from old rules or special names.
THEOREM OpeningSpillsThroughOldRules == PanelSpec => IncludeSpillsOnlyThroughOldRules
<1>1. ASSUME PanelInv, NEW n \in DOMAIN tree, ActivateExcluded(n)
      PROVE  /\ Selected \subseteq Selected'
             /\ \A m \in Selected' \ Selected :
                   SpillsOnly(ListOf(locations, tree[n].location), n, Last(ExcludedChain[n]), m)
  <2>1. CASE NamesExactly(tree[n].excludedBy, n)
    BY <1>1, <2>1, OwnRuleSpills DEF PanelInv, SpillsOnly
  <2>2. CASE ~ NamesExactly(tree[n].excludedBy, n)
    BY <1>1, <2>2, PathSpills DEF PanelInv
  <2> QED
    BY <2>1, <2>2
<1>2. PanelInv /\ [PanelNext]_vars =>
         [\A n \in DOMAIN tree : ActivateExcluded(n) =>
             /\ Selected \subseteq Selected'
             /\ \A m \in Selected' \ Selected :
                   \/ m \in Subtree[n] \cup Ancestors[n]
                   \/ FirstMatch(ListOf(locations, tree[n].location), "always", m) # NULL
                   \/ LET top == Last(ExcludedChain[n])
                      IN  m \in Below[top] /\ ~ Plain[top]]_treeVars
  BY <1>1 DEF SpillsOnly
<1> QED
  BY <1>2, PanelInvariant, PTL DEF PanelSpec, IncludeSpillsOnlyThroughOldRules
=============================================================================
