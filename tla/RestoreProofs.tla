----------------------------- MODULE RestoreProofs -----------------------------
(***************************************************************************)
(* Proofs about RestoreSelection and RestoreRun, for every store, any      *)
(* number of entries and whatever fails.  Of the choice: that whatever is  *)
(* clicked the entries stay in order and a null pointer is never read, and *)
(* that a click on a fresh tree turns exactly what it shows.  Of the       *)
(* restore: the request to stop it is not forgotten, and honoured; nothing *)
(* is restored twice; what is counted is what is done; and what has        *)
(* finished has restored what was chosen.                                  *)
(***************************************************************************)
EXTENDS RestoreRun, RestoreSelection, TreeFacts

-----------------------------------------------------------------------------
(* The choice of what to restore.                                          *)

NodeState == [match : Pointer \cup {NULL}, included : BOOLEAN]

\* how entries are ordered
Key == [x \in Entry |-> Rank[x.node]]

-----------------------------------------------------------------------------
(* The tree.                                                               *)

\* The directories above a node are what the definition says: the store is a tree.
LEMMA AncestorsGoUp ==
  IsTree(Nodes, Root, Parent) /\ GoesUp(Ancestors, Nodes, Root, Parent)
<1>1. IsTree(Nodes, Root, Parent)
  BY StoreAssumption, RankedTree
<1> DEFINE Is(up) == up = [n \in Nodes |-> IF n = Root THEN {} ELSE {Parent[n]} \cup up[Parent[n]]]
<1>2. \E up : Is(up)
  BY <1>1, SomethingGoesUp
<1>3. Ancestors = CHOOSE up : Is(up)
  BY DEF Ancestors
<1>4. Is(Ancestors)
  <2> HIDE DEF Is
  <2> QED
    BY <1>2, <1>3
<1> DEFINE up == Ancestors
           T == {n \in Nodes : up[n] \in SUBSET Nodes}
<1>5. /\ up = [n \in Nodes |-> up[n]]
      /\ \A n \in Nodes : up[n] = IF n = Root THEN {} ELSE {Parent[n]} \cup up[Parent[n]]
  BY <1>4
<1> HIDE DEF up, Is
<1>6. Root \in T /\ \A n \in Nodes \ {Root} : Parent[n] \in T => n \in T
  BY <1>5, StoreAssumption
<1>7. Nodes \subseteq T
  <2> HIDE DEF T
  <2> QED
    BY <1>1, <1>6, TreeInduction
<1>8. up \in [Nodes -> SUBSET Nodes]
  BY <1>5, <1>7
<1> QED
  BY <1>1, <1>5, <1>8 DEF GoesUp, up

\* What the proofs need of it.
LEMMA StoreTree ==
  /\ Root \in Nodes /\ Parent \in [Nodes -> Nodes]
  /\ Ancestors \in [Nodes -> SUBSET Nodes]
  /\ Ancestors[Root] = {}
  /\ \A n \in Nodes \ {Root} : Ancestors[n] = {Parent[n]} \cup Ancestors[Parent[n]]
  /\ \A n \in Nodes : n \notin Ancestors[n]
  /\ \A n \in Nodes : \A m \in Ancestors[n] : Ancestors[m] \subseteq Ancestors[n]
<1> DEFINE up == Ancestors
<1>1. IsTree(Nodes, Root, Parent) /\ GoesUp(up, Nodes, Root, Parent)
  BY AncestorsGoUp
<1> HIDE DEF up
<1>2. /\ \A n \in Nodes : n \notin up[n]
      /\ \A n \in Nodes : \A m \in up[n] : up[m] \subseteq up[n]
  BY <1>1, TreeOrder
<1>3. /\ up \in [Nodes -> SUBSET Nodes]
      /\ \A n \in Nodes : up[n] = IF n = Root THEN {} ELSE {Parent[n]} \cup up[Parent[n]]
  BY <1>1 DEF GoesUp
<1>4. Root \in Nodes /\ Parent \in [Nodes -> Nodes]
  BY StoreAssumption
<1>5. up[Root] = {} /\ \A n \in Nodes \ {Root} : up[n] = {Parent[n]} \cup up[Parent[n]]
  BY <1>3, <1>4
<1> QED
  BY <1>2, <1>3, <1>4, <1>5 DEF up

-----------------------------------------------------------------------------
(* The entries.                                                            *)

\* Adding an entry keeps the order, and adds no other.
LEMMA AddEntryProperties ==
  ASSUME NEW list \in Seq(Entry), Sorted(list, Key), NEW e \in Entry
  PROVE  LET new == AddEntry(list, e)
         IN  /\ new \in Seq(Entry) /\ Len(new) <= Len(list) + 1 /\ Sorted(new, Key)
             /\ \A x : Contains(new, x) <=> Contains(list, x) \/ x = e
<1> DEFINE I == {j \in 1 .. Len(list) : Rank[list[j].node] > Rank[e.node]}
           i == IF I # {} THEN Min(I) ELSE 0
           k == IF I # {} THEN Min(I) ELSE Len(list) + 1
<1>1. Key \in [Entry -> Nat] /\ \A x \in Entry : Key[x] = Rank[x.node]
  BY StoreAssumption DEF Key, Entry
<1>2. CASE Contains(list, e)
  BY <1>2 DEF AddEntry
<1>3. CASE ~ Contains(list, e)
  <2>1. AddEntry(list, e) = IF i = 0 THEN Append(list, e) ELSE InsertAt(list, i, e)
    BY <1>3 DEF AddEntry, SelectInSeq
  <2>2. I # {} => Min(I) \in I /\ \A j \in I : Min(I) <= j
    <3>1. I \in SUBSET Nat
      OBVIOUS
    <3> HIDE DEF I
    <3> QED
      BY <3>1, MinIsLeast
  <2>3. /\ k \in 1 .. Len(list) + 1
        /\ AddEntry(list, e) = IF k = Len(list) + 1 THEN Append(list, e) ELSE InsertAt(list, k, e)
    <3>1. CASE I = {}
      BY <2>1, <3>1
    <3>2. CASE I # {}
      <4>1. Min(I) \in 1 .. Len(list)
        BY <2>2, <3>2
      <4> QED
        BY <2>1, <3>2, <4>1
    <3> QED
      BY <3>1, <3>2
  <2>4. ASSUME NEW j \in 1 .. k - 1 PROVE Key[list[j]] <= Key[e]
    <3>1. j \in 1 .. Len(list)
      BY <2>3
    <3>2. j \notin I
      <4>1. CASE I = {}
        BY <4>1
      <4>2. CASE I # {}
        <5>1. k = Min(I) /\ ~ (k <= j)
          BY <2>3, <4>2
        <5> QED
          BY <2>2, <4>2, <5>1
      <4> QED
        BY <4>1, <4>2
    <3>3. Key[list[j]] = Rank[list[j].node] /\ Key[e] = Rank[e.node]
      BY <1>1, <3>1
    <3>4. Key[list[j]] \in Nat /\ Key[e] \in Nat
      BY <1>1, <3>1
    <3>5. ~ (Key[list[j]] > Key[e])
      BY <3>1, <3>2, <3>3
    <3> QED
      BY <3>4, <3>5
  <2>5. k # Len(list) + 1 => Key[list[k]] > Key[e]
    <3> SUFFICES ASSUME k # Len(list) + 1 PROVE Key[list[k]] > Key[e]
      OBVIOUS
    <3>1. k \in I
      BY <2>2
    <3> HIDE DEF k
    <3>2. k \in 1 .. Len(list) /\ Rank[list[k].node] > Rank[e.node]
      BY <3>1
    <3> HIDE DEF I
    <3>3. Key[list[k]] = Rank[list[k].node] /\ Key[e] = Rank[e.node]
      BY <1>1, <3>2
    <3> QED
      BY <3>2, <3>3
  <2> HIDE DEF k, i, I
  <2> DEFINE new == IF k = Len(list) + 1 THEN Append(list, e) ELSE InsertAt(list, k, e)
             key == Key
  <2>6. key \in [Entry -> Nat] /\ Sorted(list, key) /\ k \in 1 .. Len(list) + 1
    BY <1>1, <2>3
  <2>7. /\ \A j \in 1 .. k - 1 : key[list[j]] <= key[e]
        /\ k # Len(list) + 1 => key[list[k]] > key[e]
    BY <2>4, <2>5
  <2>8. /\ new \in Seq(Entry) /\ Len(new) = Len(list) + 1 /\ Sorted(new, key)
        /\ \A x : Contains(new, x) <=> Contains(list, x) \/ x = e
    <3> HIDE DEF key
    <3> QED
      BY <1>3, <2>6, <2>7, InsertBeforeGreater
  <2>9. AddEntry(list, e) = new
    BY <2>3
  <2> HIDE DEF new
  <2> QED
    BY <2>8, <2>9
<1> QED
  BY <1>2, <1>3

\* So does removing one.
LEMMA RemoveEntryProperties ==
  ASSUME NEW list \in Seq(Entry), Sorted(list, Key), NEW e
  PROVE  LET new == RemoveEntry(list, e)
         IN  /\ new \in Seq(Entry) /\ Len(new) <= Len(list) + 1 /\ Sorted(new, Key)
             /\ \A x : Contains(new, x) <=> Contains(list, x) /\ x # e
<1>1. Len(list) \in Nat
  OBVIOUS
<1>2. /\ RemoveEntry(list, e) \in Seq(Entry) /\ Len(RemoveEntry(list, e)) <= Len(list)
      /\ Sorted(RemoveEntry(list, e), Key)
      /\ \A x : Contains(RemoveEntry(list, e), x) <=> Contains(list, x) /\ x # e
  BY RemoveFirstSorted DEF RemoveEntry
<1> QED
  BY <1>1, <1>2

\* The entry that a node matches is the one that says the opposite of its
\* parent; without one the node is what its parent is.
LEMMA UpdateStateProperties ==
  ASSUME NEW list \in Seq(Entry), NEW buffer \in Nat, NEW n \in Nodes, NEW parent \in NodeState
  PROVE  LET opposite == [node |-> n, include |-> ~ parent.included]
         IN  \/ /\ ~ Contains(list, opposite)
                /\ UpdateState(list, buffer, n, parent) = parent
             \/ /\ Contains(list, opposite)
                /\ \E i \in 1 .. Len(list) :
                      /\ list[i] = opposite
                      /\ UpdateState(list, buffer, n, parent) =
                            [match |-> [buffer |-> buffer, pos |-> i], included |-> ~ parent.included]
<1> DEFINE opposite == [node |-> n, include |-> ~ parent.included]
           I == {j \in 1 .. Len(list) : list[j].node = n /\ list[j].include # parent.included}
           i == IF I # {} THEN Min(I) ELSE 0
<1>1. parent.included \in BOOLEAN
  BY DEF NodeState
<1>2. \A j \in 1 .. Len(list) : j \in I <=> list[j] = opposite
  <2>1. \A e \in Entry : e.node = n /\ e.include # parent.included <=> e = opposite
    BY <1>1 DEF Entry
  <2> QED
    BY <2>1
<1>3. UpdateState(list, buffer, n, parent) =
         IF i = 0 THEN parent
         ELSE [match |-> [buffer |-> buffer, pos |-> i], included |-> list[i].include]
  BY DEF UpdateState, SelectInSeq
<1>4. CASE I = {}
  <2>1. ~ Contains(list, opposite)
    BY <1>2, <1>4 DEF Contains
  <2> QED
    BY <1>3, <1>4, <2>1
<1>5. CASE I # {}
  <2>1. i \in I
    <3>1. I \in SUBSET Nat
      OBVIOUS
    <3> HIDE DEF I
    <3> QED
      BY <1>5, <3>1, MinIsLeast
  <2>2. i \in 1 .. Len(list) /\ i # 0
    BY <2>1
  <2>3. list[i] = opposite
    BY <1>2, <2>1, <2>2
  <2>4. UpdateState(list, buffer, n, parent) =
           [match |-> [buffer |-> buffer, pos |-> i], included |-> ~ parent.included]
    BY <1>3, <2>2, <2>3
  <2> HIDE DEF i
  <2> QED
    BY <2>2, <2>3, <2>4 DEF Contains
<1> QED
  BY <1>4, <1>5

\* What is defined from the root down, there is.
LEMMA StoreRecursion ==
  ASSUME NEW V, NEW v0 \in V, NEW step \in [Nodes -> [V -> V]]
  PROVE  \E f \in [Nodes -> V] : \A n \in Nodes :
            f[n] = step[n][IF n = Root THEN v0 ELSE f[Parent[n]]]
<1>1. IsTree(Nodes, Root, Parent)
  BY AncestorsGoUp
<1> QED
  BY <1>1, TreeRecursion

\* The states of the nodes, for one.
LEMMA StatesRecursion ==
  ASSUME NEW step \in [Nodes -> [NodeState -> NodeState]]
  PROVE  \E f \in [Nodes -> NodeState] : \A n \in Nodes :
            f[n] = step[n][IF n = Root THEN NoMatch ELSE f[Parent[n]]]
<1>1. NoMatch \in NodeState
  BY DEF NoMatch, NodeState
<1> QED
  BY <1>1, StoreRecursion, SMTT(60)

\* Updating goes from the root down: a node that is updated takes its parent's
\* new state, another keeps the one it had.
LEMMA UpdatedProperties ==
  ASSUME NEW list \in Seq(Entry), NEW buffer \in Nat, NEW old \in [Nodes -> NodeState], NEW some
  PROVE  LET new == Updated(list, buffer, old, some)
         IN  /\ new \in [Nodes -> NodeState]
             /\ \A n \in Nodes \ some : new[n] = old[n]
             /\ \A n \in some \cap Nodes :
                   new[n] = UpdateState(list, buffer, n,
                                        IF n = Root THEN NoMatch ELSE new[Parent[n]])
<1> DEFINE step == [n \in Nodes |-> [v \in NodeState |->
                       IF n \notin some THEN old[n] ELSE UpdateState(list, buffer, n, v)]]
           Is(new) == new = [n \in Nodes |->
                        IF n \notin some THEN old[n]
                        ELSE UpdateState(list, buffer, n,
                                         IF n = Root THEN NoMatch ELSE new[Parent[n]])]
<1>1. NoMatch \in NodeState
  BY DEF NoMatch, NodeState
<1>2. ASSUME NEW n \in Nodes, NEW v \in NodeState PROVE UpdateState(list, buffer, n, v) \in NodeState
  <2>1. v.included \in BOOLEAN
    BY DEF NodeState
  <2>2. ASSUME NEW i \in 1 .. Len(list)
        PROVE  [match |-> [buffer |-> buffer, pos |-> i], included |-> ~ v.included] \in NodeState
    BY DEF NodeState, Pointer
  <2>3. \/ UpdateState(list, buffer, n, v) = v
        \/ \E i \in 1 .. Len(list) :
              UpdateState(list, buffer, n, v) =
                 [match |-> [buffer |-> buffer, pos |-> i], included |-> ~ v.included]
    BY UpdateStateProperties
  <2> QED
    BY <2>2, <2>3
<1>3. step \in [Nodes -> [NodeState -> NodeState]]
  BY <1>2
<1>4. IsTree(Nodes, Root, Parent)
  BY AncestorsGoUp
<1>5. PICK f \in [Nodes -> NodeState] : \A n \in Nodes :
         f[n] = step[n][IF n = Root THEN NoMatch ELSE f[Parent[n]]]
  <2> HIDE DEF step, Is
  <2> QED
    BY <1>3, StatesRecursion
<1>6. \A n \in Nodes : (IF n = Root THEN NoMatch ELSE f[Parent[n]]) \in NodeState
  BY <1>1, StoreAssumption
<1>7. Is(f)
  <2>1. f = [n \in Nodes |-> f[n]]
    OBVIOUS
  <2>2. \A n \in Nodes : f[n] = IF n \notin some THEN old[n]
                                ELSE UpdateState(list, buffer, n,
                                                 IF n = Root THEN NoMatch ELSE f[Parent[n]])
    BY <1>5, <1>6
  <2> QED
    BY <2>1, <2>2
<1> DEFINE new == Updated(list, buffer, old, some)
<1>8. Is(new)
  <2>1. new = CHOOSE g : Is(g)
    BY DEF Updated
  <2> HIDE DEF Is, new
  <2> QED
    BY <1>7, <2>1
<1>9. /\ new = [n \in Nodes |-> new[n]]
      /\ \A n \in Nodes : new[n] = IF n \notin some THEN old[n]
                                   ELSE UpdateState(list, buffer, n,
                                                    IF n = Root THEN NoMatch ELSE new[Parent[n]])
  BY <1>8
<1> HIDE DEF new, Is, step
<1> DEFINE T == {n \in Nodes : new[n] \in NodeState}
<1>10. Root \in T /\ \A n \in Nodes \ {Root} : Parent[n] \in T => n \in T
  <2>1. ASSUME NEW n \in Nodes, n = Root \/ new[Parent[n]] \in NodeState PROVE new[n] \in NodeState
    <3>1. (IF n = Root THEN NoMatch ELSE new[Parent[n]]) \in NodeState
      BY <1>1, <2>1
    <3> QED
      BY <1>2, <1>9, <3>1
  <2> QED
    BY <2>1, StoreAssumption
<1>11. Nodes \subseteq T
  <2> HIDE DEF T
  <2> QED
    BY <1>4, <1>10, TreeInduction
<1>12. new \in [Nodes -> NodeState]
  BY <1>9, <1>11
<1> QED
  BY <1>9, <1>12 DEF new

\* what has been updated from the root down
IsUpdated(new, list, buffer, old, some) ==
    /\ new \in [Nodes -> NodeState]
    /\ \A n \in Nodes \ some : new[n] = old[n]
    /\ \A n \in some \cap Nodes :
          new[n] = UpdateState(list, buffer, n, IF n = Root THEN NoMatch ELSE new[Parent[n]])

\* The same, under its name.
LEMMA UpdatedIs ==
  ASSUME NEW list \in Seq(Entry), NEW buffer \in Nat, NEW old \in [Nodes -> NodeState], NEW some
  PROVE  IsUpdated(Updated(list, buffer, old, some), list, buffer, old, some)
<1> DEFINE new == Updated(list, buffer, old, some)
<1>1. /\ new \in [Nodes -> NodeState]
      /\ \A n \in Nodes \ some : new[n] = old[n]
      /\ \A n \in some \cap Nodes :
            new[n] = UpdateState(list, buffer, n, IF n = Root THEN NoMatch ELSE new[Parent[n]])
  BY UpdatedProperties
<1> HIDE DEF new
<1>2. IsUpdated(new, list, buffer, old, some)
  BY <1>1 DEF IsUpdated
<1> QED
  BY <1>2 DEF new

-----------------------------------------------------------------------------
(* The vector.                                                             *)

\* A buffer that is full is followed by one with room for one more.
LEMMA CapacityGrows ==
  \A b \in Nat \ {0} : /\ CapacityOf(b) \in Nat /\ CapacityOf(b + 1) \in Nat
                       /\ CapacityOf(b) + 1 <= CapacityOf(b + 1)
<1> DEFINE T == {n \in Nat : 2 ^ n >= 1}
<1>1. \A n \in Nat : 2 ^ n \in Nat /\ 2 ^ (n + 1) = 2 * 2 ^ n
  BY PowersOfTwo
<1>2. 0 \in T /\ \A n \in Nat : n \in T => n + 1 \in T
  BY <1>1, PowersOfTwo
<1>3. Nat \subseteq T
  <2> HIDE DEF T
  <2> QED
    BY <1>2, NatSetInduction
<1>4. CapacityOf(1) = 0 /\ CapacityOf(1 + 1) = 1
  BY PowersOfTwo DEF CapacityOf
<1>5. ASSUME NEW b \in Nat \ {0}, b # 1
      PROVE  /\ CapacityOf(b) \in Nat /\ CapacityOf(b + 1) \in Nat
             /\ CapacityOf(b) + 1 <= CapacityOf(b + 1)
  <2>1. b - 2 \in Nat /\ (b + 1) - 2 = (b - 2) + 1 /\ b + 1 # 1
    BY <1>5
  <2>2. CapacityOf(b) = 2 ^ (b - 2) /\ CapacityOf(b + 1) = 2 ^ ((b - 2) + 1)
    BY <1>5, <2>1 DEF CapacityOf
  <2>3. 2 ^ (b - 2) \in Nat /\ 2 ^ ((b - 2) + 1) = 2 * 2 ^ (b - 2) /\ 2 ^ (b - 2) >= 1
    BY <1>1, <1>3, <2>1
  <2> QED
    BY <2>2, <2>3
<1> QED
  BY <1>4, <1>5

\* the vector itself: its buffers, and how full they are
VectorOK ==
    /\ memory \in Seq(Seq(Entry)) /\ Len(memory) >= 1
    /\ size \in 0 .. Len(Slots) /\ Len(Slots) <= CapacityOf(Buffer)

\* The entries are the first of the slots.
LEMMA EntriesProperties ==
  ASSUME VectorOK
  PROVE  /\ Slots = memory[Buffer] /\ Slots \in Seq(Entry) /\ Buffer \in DOMAIN memory
         /\ Entries \in Seq(Entry) /\ Len(Entries) = size
         /\ \A i \in 1 .. size : Entries[i] = Slots[i]
<1>1. Slots = memory[Buffer] /\ Slots \in Seq(Entry) /\ Buffer \in DOMAIN memory
  BY DEF VectorOK, Slots, Buffer, Last
<1> QED
  BY <1>1, SubSeqProperties DEF VectorOK, Entries

\* After a list with at most one entry more was stored it is what the vector
\* has, and no slot was lost.
LEMMA StoreProperties ==
  ASSUME VectorOK, NEW list \in Seq(Entry), Len(list) <= size + 1, Store(list)
  PROVE  /\ VectorOK' /\ Entries' = list
         /\ Buffer' >= Buffer
         /\ \A b \in 1 .. Buffer : DOMAIN memory[b] \subseteq DOMAIN memory'[b]
<1> USE DEF Buffer
<1>1. /\ Slots = memory[Buffer] /\ Slots \in Seq(Entry) /\ Buffer \in DOMAIN memory
      /\ Len(Slots) \in Nat /\ Len(list) \in Nat /\ size \in Nat /\ size <= Len(Slots)
      /\ size' = Len(list) /\ memory \in Seq(Seq(Entry)) /\ Buffer \in Nat \ {0}
  BY EntriesProperties DEF VectorOK, Store
<1>2. /\ CapacityOf(Buffer) \in Nat /\ CapacityOf(Buffer + 1) \in Nat
      /\ CapacityOf(Buffer) + 1 <= CapacityOf(Buffer + 1)
      /\ Len(Slots) <= CapacityOf(Buffer)
  BY <1>1, CapacityGrows DEF VectorOK
<1>3. Slots' = memory'[Buffer'] /\ Entries' = SubSeq(Slots', 1, size')
  BY DEF Slots, Entries, Last
<1>4. CASE Len(list) > CapacityOf(Buffer)
  <2>1. memory' = Append(memory, list)
    BY <1>4 DEF Store
  <2>2. /\ memory' \in Seq(Seq(Entry)) /\ Buffer' = Buffer + 1 /\ Slots' = list
        /\ \A b \in 1 .. Buffer : memory'[b] = memory[b]
    BY <1>1, <1>3, <2>1
  <2>3. Entries' = list
    BY <1>1, <1>3, <2>2
  <2>4. Len(list) <= CapacityOf(Buffer + 1)
    BY <1>1, <1>2
  <2> QED
    BY <1>1, <2>2, <2>3, <2>4 DEF VectorOK
<1>5. CASE ~ (Len(list) > CapacityOf(Buffer))
  <2> DEFINE rest == SubSeq(Slots, Len(list) + 1, Len(Slots))
             slots == list \o rest
  <2>1. memory' = [memory EXCEPT ![Buffer] = slots]
    BY <1>1, <1>5 DEF Store
  <2>2. /\ rest \in Seq(Entry)
        /\ Len(rest) = IF Len(list) < Len(Slots) THEN Len(Slots) - Len(list) ELSE 0
    BY <1>1, SubSeqProperties
  <2>3. /\ slots \in Seq(Entry)
        /\ Len(slots) = IF Len(list) < Len(Slots) THEN Len(Slots) ELSE Len(list)
        /\ \A i \in 1 .. Len(list) : slots[i] = list[i]
    BY <1>1, <2>2, ConcatProperties
  <2> HIDE DEF slots, rest
  <2>4. /\ memory' \in Seq(Seq(Entry)) /\ Buffer' = Buffer /\ Slots' = slots
        /\ \A b \in 1 .. Buffer : memory'[b] = IF b = Buffer THEN slots ELSE memory[b]
    BY <1>1, <1>3, <2>1, <2>3
  <2>5. Entries' = list
    <3>1. /\ SubSeq(slots, 1, Len(list)) \in Seq(Entry) /\ Len(SubSeq(slots, 1, Len(list))) = Len(list)
          /\ \A i \in 1 .. Len(list) : SubSeq(slots, 1, Len(list))[i] = slots[i]
      BY <1>1, <2>3, SubSeqProperties
    <3>2. SubSeq(slots, 1, Len(list)) = list
      BY <2>3, <3>1, SeqEqual
    <3> QED
      BY <1>1, <1>3, <2>4, <3>2
  <2>6. Len(slots) <= CapacityOf(Buffer) /\ Len(list) \in 0 .. Len(slots)
    BY <1>1, <1>2, <1>5, <2>3
  <2>7. DOMAIN memory[Buffer] \subseteq DOMAIN slots
    <3>1. Len(memory[Buffer]) \in Nat /\ Len(slots) \in Nat /\ Len(memory[Buffer]) <= Len(slots)
      BY <1>1, <2>3
    <3>2. DOMAIN memory[Buffer] = 1 .. Len(memory[Buffer]) /\ DOMAIN slots = 1 .. Len(slots)
      BY <1>1, <2>3
    <3>3. \A a, b \in Nat : a <= b => 1 .. a \subseteq 1 .. b
      OBVIOUS
    <3> QED
      BY <3>1, <3>2, <3>3, Zenon
  <2>8. VectorOK'
    BY <1>1, <2>4, <2>6 DEF VectorOK
  <2>9. \A b \in 1 .. Buffer : DOMAIN memory[b] \subseteq DOMAIN memory'[b]
    BY <2>4, <2>7
  <2>10. Buffer' >= Buffer
    BY <1>1, <2>4
  <2> QED
    BY <2>5, <2>8, <2>9, <2>10
<1> QED
  BY <1>4, <1>5

-----------------------------------------------------------------------------
(* The invariant.                                                          *)

\* every pointer points into a buffer the vector has or had, at a slot of it
PointersOK ==
    /\ tree \in [Nodes -> NodeState]
    /\ \A n \in Nodes : tree[n].match # NULL =>
          /\ tree[n].match.buffer \in 1 .. Buffer
          /\ tree[n].match.pos \in DOMAIN memory[tree[n].match.buffer]

\* A node that matches nothing is not included, and neither it nor a directory
\* above it has an entry that includes.
NullMeansNone ==
    \A n \in Nodes : tree[n].match = NULL =>
        /\ ~ tree[n].included
        /\ ~ Contains(Entries, [node |-> n, include |-> TRUE])
        /\ n # Root => tree[Parent[n]].match = NULL

IInv == VectorOK /\ PointersOK /\ NullMeansNone /\ Sorted(Entries, Key)

\* The invariant implies what the run checks.
LEMMA IInvImpliesSelectionSound == IInv => SelectionSound
<1> SUFFICES ASSUME IInv PROVE SelectionSound
  OBVIOUS
<1>1. TypeOK
  BY DEF IInv, VectorOK, PointersOK, NodeState, TypeOK
<1>2. OrderedEntries
  <2>1. Entries \in Seq(Entry) /\ Len(Entries) = size /\ Sorted(Entries, Key)
    BY EntriesProperties DEF IInv
  <2>2. \A i \in 1 .. size : Key[Entries[i]] = Rank[Entries[i].node]
    BY <2>1 DEF Key
  <2> QED
    BY <2>1, <2>2 DEF OrderedEntries, Sorted
<1>3. NullNeverRead
  BY DEF IInv, NullMeansNone, NullNeverRead, MatchIsOwn
<1> QED
  BY <1>1, <1>2, <1>3 DEF SelectionSound

\* It holds of an empty spec.
LEMMA InitIInv == SelectionInit => IInv
<1> SUFFICES ASSUME SelectionInit PROVE IInv
  OBVIOUS
<1>1. /\ memory = << <<>> >> /\ Len(memory) = 1 /\ memory[1] = <<>> /\ size = 0
      /\ memory \in Seq(Seq(Entry))
  BY DEF SelectionInit
<1>2. VectorOK
  BY <1>1 DEF VectorOK, Slots, Buffer, Last, CapacityOf
<1>3. Entries \in Seq(Entry) /\ Len(Entries) = 0
  BY <1>1, <1>2, EntriesProperties
<1>4. tree \in [Nodes -> NodeState] /\ \A n \in Nodes : tree[n] = [match |-> NULL, included |-> FALSE]
  BY DEF SelectionInit, NoMatch, NodeState
<1>5. \A x : ~ Contains(Entries, x)
  BY <1>3 DEF Contains
<1>6. NullMeansNone /\ PointersOK
  BY <1>4, <1>5, StoreAssumption DEF NullMeansNone, PointersOK
<1>7. Sorted(Entries, Key)
  BY <1>3 DEF Sorted
<1> QED
  BY <1>2, <1>6, <1>7 DEF IInv

\* What an update does to the invariant: it is enough that the nodes it leaves
\* alone keep theirs, and that the pointers they have stay good.
LEMMA UpdatedKeepsPointers ==
  ASSUME PointersOK, VectorOK', NEW some,
         Buffer' >= Buffer, \A b \in 1 .. Buffer : DOMAIN memory[b] \subseteq DOMAIN memory'[b],
         VectorOK, tree' = Updated(Entries', Buffer', tree, some)
  PROVE  PointersOK'
<1> DEFINE new == Updated(Entries', Buffer', tree, some)
           Good(s) == s.match # NULL =>
                         /\ s.match.buffer \in 1 .. Buffer'
                         /\ s.match.pos \in DOMAIN memory'[s.match.buffer]
<1>1. /\ Entries' \in Seq(Entry) /\ Buffer' \in Nat \ {0} /\ Len(Entries') = size'
      /\ 1 .. Len(Entries') \subseteq DOMAIN memory'[Buffer']
  <2>1. /\ Slots' = memory'[Buffer'] /\ Slots' \in Seq(Entry) /\ Buffer' \in DOMAIN memory'
        /\ Entries' \in Seq(Entry) /\ Len(Entries') = size'
    <3>1. Slots' = memory'[Buffer'] /\ Slots' \in Seq(Entry) /\ Buffer' \in DOMAIN memory'
      BY DEF VectorOK, Slots, Buffer, Last
    <3>2. Entries' = SubSeq(Slots', 1, size')
      BY DEF Entries
    <3>3. size' \in 0 .. Len(Slots')
      BY DEF VectorOK
    <3> DEFINE slots == Slots'
    <3>4. slots \in Seq(Entry) /\ size' \in 0 .. Len(slots)
      BY <3>1, <3>3
    <3> HIDE DEF slots
    <3>5. SubSeq(slots, 1, size') \in Seq(Entry) /\ Len(SubSeq(slots, 1, size')) = size'
      BY <3>4, PrefixProperties
    <3> QED
      BY <3>1, <3>2, <3>5 DEF slots
  <2>2. size' \in 0 .. Len(Slots') /\ Buffer' \in Nat \ {0}
    BY DEF VectorOK, Buffer
  <2> QED
    BY <2>1, <2>2
<1>2. tree \in [Nodes -> NodeState]
  BY DEF PointersOK
<1>3. /\ new \in [Nodes -> NodeState]
      /\ \A n \in Nodes \ some : new[n] = tree[n]
      /\ \A n \in some \cap Nodes :
            new[n] = UpdateState(Entries', Buffer', n, IF n = Root THEN NoMatch ELSE new[Parent[n]])
  <2> DEFINE list == Entries'
             buffer == Buffer'
             old == tree
  <2>1. list \in Seq(Entry) /\ buffer \in Nat /\ old \in [Nodes -> NodeState]
    BY <1>1, <1>2
  <2> HIDE DEF list, buffer, old, new, Good
  <2>2. IsUpdated(Updated(list, buffer, old, some), list, buffer, old, some)
    BY <2>1, UpdatedIs
  <2>3. new = Updated(list, buffer, old, some)
    BY DEF list, buffer, old, new
  <2>4. IsUpdated(new, list, buffer, old, some)
    BY <2>2, <2>3
  <2> QED
    BY <2>4 DEF IsUpdated, list, buffer, old
<1>4. tree' = new
  OBVIOUS
<1> HIDE DEF new
<1> DEFINE T == {n \in Nodes : Good(new[n])}
<1>5. \A n \in Nodes : Good(tree[n])
  <2>1. Buffer \in Nat
    BY DEF Buffer, VectorOK
  <2> QED
    BY <1>1, <2>1 DEF PointersOK
<1>6. ASSUME NEW n \in Nodes, NEW p \in NodeState, Good(p)
      PROVE  Good(UpdateState(Entries', Buffer', n, p))
  <2>1. \/ UpdateState(Entries', Buffer', n, p) = p
        \/ \E i \in 1 .. Len(Entries') :
              UpdateState(Entries', Buffer', n, p) =
                 [match |-> [buffer |-> Buffer', pos |-> i], included |-> ~ p.included]
    <3> DEFINE list == Entries'
               buffer == Buffer'
    <3>1. list \in Seq(Entry) /\ buffer \in Nat
      BY <1>1
    <3> HIDE DEF list, buffer
    <3>2. \/ UpdateState(list, buffer, n, p) = p
          \/ \E i \in 1 .. Len(list) :
              UpdateState(list, buffer, n, p) =
                 [match |-> [buffer |-> buffer, pos |-> i], included |-> ~ p.included]
      BY <3>1, UpdateStateProperties
    <3> QED
      BY <3>2 DEF list, buffer
  <2> QED
    BY <1>1, <1>6, <2>1
<1>7. NoMatch \in NodeState /\ Good(NoMatch)
  BY DEF NoMatch, NodeState
<1>8. ASSUME NEW n \in Nodes, n = Root \/ Good(new[Parent[n]]) PROVE Good(new[n])
  <2> DEFINE p == IF n = Root THEN NoMatch ELSE new[Parent[n]]
  <2>1. p \in NodeState /\ Good(p)
    BY <1>3, <1>7, <1>8, StoreAssumption
  <2> HIDE DEF Good
  <2>2. CASE n \in some
    BY <1>3, <1>6, <2>1, <2>2
  <2>3. CASE n \notin some
    BY <1>3, <1>5, <2>3
  <2> QED
    BY <2>2, <2>3
<1>9. Root \in T /\ \A n \in Nodes \ {Root} : Parent[n] \in T => n \in T
  <2> HIDE DEF Good
  <2> QED
    BY <1>8, StoreAssumption
<1>10. Nodes \subseteq T
  <2> HIDE DEF T
  <2> QED
    BY <1>9, AncestorsGoUp, TreeInduction
<1> QED
  BY <1>3, <1>4, <1>10 DEF PointersOK

\* A node matches nothing after an update if its parent then does not and it has
\* no entry that includes.
LEMMA UpdateStateNull ==
  ASSUME NEW list \in Seq(Entry), NEW buffer \in Nat, NEW n \in Nodes, NEW parent \in NodeState,
         parent.match = NULL => ~ parent.included
  PROVE  LET new == UpdateState(list, buffer, n, parent)
         IN  /\ new.match = NULL <=> /\ parent.match = NULL
                                     /\ ~ Contains(list, [node |-> n, include |-> TRUE])
             /\ new.match = NULL => ~ new.included
<1>1. \A i \in 1 .. Len(list) : [buffer |-> buffer, pos |-> i] # NULL
  BY SelectionAssumption DEF Pointer
<1>2. parent.included \in BOOLEAN
  BY DEF NodeState
<1>3. parent.match = NULL => [node |-> n, include |-> ~ parent.included] = [node |-> n, include |-> TRUE]
  BY <1>2
<1>4. CASE UpdateState(list, buffer, n, parent) = parent
           /\ ~ Contains(list, [node |-> n, include |-> ~ parent.included])
  BY <1>3, <1>4
<1>5. CASE /\ Contains(list, [node |-> n, include |-> ~ parent.included])
           /\ \E i \in 1 .. Len(list) : UpdateState(list, buffer, n, parent) =
                 [match |-> [buffer |-> buffer, pos |-> i], included |-> ~ parent.included]
  BY <1>1, <1>3, <1>5
<1> QED
  BY <1>4, <1>5, UpdateStateProperties

\* After an update a node that matches nothing is not included, and has no entry
\* that includes, if that was so of the nodes that are not updated; neither does
\* then its parent match anything.
LEMMA UpdatedKeepsNull ==
  ASSUME NEW list \in Seq(Entry), NEW buffer \in Nat, NEW old \in [Nodes -> NodeState], NEW some,
         \A n \in Nodes : old[n].match = NULL => ~ old[n].included
  PROVE  LET new == Updated(list, buffer, old, some)
         IN  /\ \A n \in Nodes : new[n].match = NULL => ~ new[n].included
             /\ \A n \in Nodes \cap some : new[n].match = NULL <=>
                   /\ n # Root => new[Parent[n]].match = NULL
                   /\ ~ Contains(list, [node |-> n, include |-> TRUE])
<1> DEFINE new == Updated(list, buffer, old, some)
           In(n) == IF n = Root THEN NoMatch ELSE new[Parent[n]]
           T == {n \in Nodes : new[n].match = NULL => ~ new[n].included}
<1>1. /\ new \in [Nodes -> NodeState]
      /\ \A n \in Nodes \ some : new[n] = old[n]
      /\ \A n \in some \cap Nodes : new[n] = UpdateState(list, buffer, n, In(n))
  BY UpdatedProperties
<1>2. NoMatch \in NodeState /\ NoMatch.match = NULL /\ ~ NoMatch.included
  BY DEF NoMatch, NodeState
<1>3. \A n \in Nodes : In(n) \in NodeState
  BY <1>1, <1>2, StoreAssumption
<1> HIDE DEF new
<1>4. ASSUME NEW n \in Nodes, n = Root \/ Parent[n] \in T
      PROVE  /\ n \in T
             /\ n \in some => (new[n].match = NULL <=>
                   /\ n # Root => new[Parent[n]].match = NULL
                   /\ ~ Contains(list, [node |-> n, include |-> TRUE]))
  <2>1. In(n).match = NULL => ~ In(n).included
    BY <1>2, <1>4
  <2>2. In(n).match = NULL <=> (n # Root => new[Parent[n]].match = NULL)
    BY <1>2
  <2>3. In(n) \in NodeState
    BY <1>3
  <2> HIDE DEF In
  <2>4. n \in some => /\ new[n].match = NULL <=> /\ In(n).match = NULL
                                                 /\ ~ Contains(list, [node |-> n, include |-> TRUE])
                      /\ new[n].match = NULL => ~ new[n].included
    BY <1>1, <2>1, <2>3, UpdateStateNull
  <2> QED
    BY <1>1, <2>2, <2>4
<1>5. Nodes \subseteq T
  <2>1. Root \in T /\ \A n \in Nodes \ {Root} : Parent[n] \in T => n \in T
    BY <1>4, StoreAssumption
  <2> HIDE DEF T
  <2> QED
    BY <2>1, AncestorsGoUp, TreeInduction
<1>6. \A n \in Nodes : n = Root \/ Parent[n] \in T
  BY <1>5, StoreAssumption
<1>7. \A n \in Nodes : new[n].match = NULL => ~ new[n].included
  BY <1>5
<1> HIDE DEF T
<1> QED
  BY <1>4, <1>6, <1>7 DEF new

\* A click, whatever entry it adds or removes, if it adds none that includes
\* but for its own node.
LEMMA ClickKeepsIInv ==
  ASSUME IInv, NEW list \in Seq(Entry), Sorted(list, Key), Len(list) <= size + 1, Store(list),
         NEW n \in Nodes,
         \A m \in Nodes \ {n} : Contains(list, [node |-> m, include |-> TRUE])
                                   => Contains(Entries, [node |-> m, include |-> TRUE]),
         tree' = Updated(SubSeq(Last(memory'), 1, size'), Len(memory'), tree, Around(n))
  PROVE  IInv' /\ Entries' = list
<1>1. /\ VectorOK /\ VectorOK' /\ Entries' = list /\ Buffer' >= Buffer
      /\ \A b \in 1 .. Buffer : DOMAIN memory[b] \subseteq DOMAIN memory'[b]
  BY StoreProperties DEF IInv
<1>2. Entries' = SubSeq(Last(memory'), 1, size') /\ Buffer' = Len(memory')
  BY DEF Entries, Slots, Buffer
<1>3. tree' = Updated(Entries', Buffer', tree, Around(n))
  BY <1>2
<1>4. PointersOK'
  BY <1>1, <1>3, UpdatedKeepsPointers DEF IInv
<1> DEFINE new == tree'
           buffer == Buffer'
           U == Around(n)
           Includes(m) == Contains(list, [node |-> m, include |-> TRUE])
<1>5. new = Updated(list, buffer, tree, U) /\ buffer \in Nat /\ tree \in [Nodes -> NodeState]
  BY <1>1, <1>3 DEF VectorOK, Buffer, IInv, PointersOK
<1>6. U = Subtree(n) \cup Ancestors[n]
  BY DEF Around
<1> HIDE DEF buffer, U, new
<1>7. \A m \in Nodes : tree[m].match = NULL => ~ tree[m].included
  BY DEF IInv, NullMeansNone
<1>8. /\ \A m \in Nodes : new[m].match = NULL => ~ new[m].included
      /\ \A m \in Nodes \cap U : new[m].match = NULL <=>
            (m # Root => new[Parent[m]].match = NULL) /\ ~ Includes(m)
      /\ \A m \in Nodes \ U : new[m] = tree[m]
  BY <1>5, <1>7, UpdatedKeepsNull, UpdatedProperties
<1> DEFINE T == {m \in Nodes : m \in Ancestors[n] /\ tree[m].match = NULL => new[m].match = NULL}
<1>9. ASSUME NEW m \in Nodes, tree[m].match = NULL, m # n
      PROVE  ~ Includes(m) /\ (m # Root => tree[Parent[m]].match = NULL)
  BY <1>9 DEF IInv, NullMeansNone
<1>10. Nodes \subseteq T
  <2>1. Root \in T
    BY <1>6, <1>8, <1>9, StoreTree
  <2>2. ASSUME NEW m \in Nodes \ {Root}, Parent[m] \in T PROVE m \in T
    <3> SUFFICES ASSUME m \in Ancestors[n], tree[m].match = NULL PROVE new[m].match = NULL
      OBVIOUS
    <3>1. Parent[m] \in Ancestors[n] /\ m # n /\ m \in U
      BY <1>6, StoreTree
    <3>2. tree[Parent[m]].match = NULL /\ ~ Includes(m)
      BY <1>9, <3>1
    <3> QED
      BY <1>8, <2>2, <3>1, <3>2
  <2> HIDE DEF T
  <2> QED
    BY <2>1, <2>2, AncestorsGoUp, TreeInduction
<1>11. ASSUME NEW m \in Nodes, new[m].match = NULL
       PROVE  /\ ~ new[m].included /\ ~ Includes(m)
              /\ m # Root => new[Parent[m]].match = NULL
  <2>1. CASE m \in U
    BY <1>8, <1>11, <2>1
  <2>2. CASE m \notin U
    <3>1. m # n /\ m \notin Ancestors[n] /\ n \notin Ancestors[m]
      BY <1>6, <2>2, StoreTree DEF Subtree, Below
    <3>2. tree[m].match = NULL /\ ~ Includes(m) /\ (m # Root => tree[Parent[m]].match = NULL)
      BY <1>8, <1>9, <1>11, <2>2, <3>1
    <3>3. m # Root => new[Parent[m]].match = NULL
      <4> SUFFICES ASSUME m # Root PROVE new[Parent[m]].match = NULL
        OBVIOUS
      <4>1. Parent[m] \in Nodes /\ Parent[m] \in Ancestors[m] /\ Ancestors[Parent[m]] \subseteq Ancestors[m]
        BY StoreTree
      <4>2. Parent[m] \notin Subtree(n)
        BY <3>1, <4>1 DEF Subtree, Below
      <4>3. CASE Parent[m] \in Ancestors[n]
        BY <1>10, <3>2, <4>1, <4>3
      <4>4. CASE Parent[m] \notin Ancestors[n]
        BY <1>6, <1>8, <3>2, <4>1, <4>2, <4>4
      <4> QED
        BY <4>3, <4>4
    <3> QED
      BY <1>8, <1>11, <3>2, <3>3
  <2> QED
    BY <2>1, <2>2
<1>12. NullMeansNone'
  BY <1>1, <1>11 DEF NullMeansNone, new
<1> QED
  BY <1>1, <1>4, <1>12 DEF IInv

\* What a pointer reads is an entry, or garbage that no entry is.
LEMMA DerefProperties ==
  ASSUME VectorOK, PointersOK, NEW n \in Nodes, tree[n].match # NULL, NEW e \in Deref(tree[n].match)
  PROVE  e.include \in BOOLEAN
<1> DEFINE p == tree[n].match
<1>1. /\ p.buffer \in 1 .. Buffer /\ p.pos \in DOMAIN memory[p.buffer]
      /\ Slots = memory[Buffer] /\ Buffer = Len(memory) /\ memory \in Seq(Seq(Entry))
  BY EntriesProperties DEF PointersOK, VectorOK, Buffer
<1> HIDE DEF p
<1>2. memory[p.buffer][p.pos] \in Entry
  BY <1>1
<1>3. e = memory[p.buffer][p.pos] \/ e \in Garbage
  BY <1>1 DEF Deref, p
<1> QED
  BY <1>2, <1>3 DEF Entry, Garbage

\* It is inductive.
LEMMA NextIInv == IInv /\ [SelectionNext]_selectionVars => IInv'
<1> SUFFICES ASSUME IInv, [SelectionNext]_selectionVars PROVE IInv'
  OBVIOUS
<1>1. Entries \in Seq(Entry) /\ Len(Entries) = size /\ Sorted(Entries, Key)
  BY EntriesProperties DEF IInv
<1>2. ASSUME NEW n \in Nodes, ActivateOwn(n) PROVE IInv'
  <2>1. PICK e : Store(RemoveEntry(Entries, e))
    BY <1>2 DEF ActivateOwn
  <2> DEFINE list == RemoveEntry(Entries, e)
  <2>2. /\ list \in Seq(Entry) /\ Len(list) <= size + 1 /\ Sorted(list, Key)
        /\ \A x : Contains(list, x) => Contains(Entries, x)
    BY <1>1, RemoveEntryProperties
  <2>3. tree' = Updated(SubSeq(Last(memory'), 1, size'), Len(memory'), tree, Around(n))
    BY <1>2 DEF ActivateOwn
  <2>4. Store(list)
    BY <2>1
  <2> HIDE DEF list
  <2> QED
    BY <2>2, <2>3, <2>4, ClickKeepsIInv
<1>3. ASSUME NEW n \in Nodes, ActivateInherited(n) PROVE IInv'
  <2>1. PICK i \in BOOLEAN : Store(AddEntry(Entries, [node |-> n, include |-> i]))
    <3>1. PICK e \in IF tree[n].match = NULL THEN {[node |-> n, include |-> FALSE]}
                     ELSE Deref(tree[n].match) :
             Store(AddEntry(Entries, [node |-> n, include |-> ~ e.include]))
      BY <1>3 DEF ActivateInherited
    <3>2. e.include \in BOOLEAN
      <4>1. CASE tree[n].match = NULL
        <5>1. e = [node |-> n, include |-> FALSE]
          BY <4>1
        <5> QED
          BY <5>1
      <4>2. CASE tree[n].match # NULL
        <5>1. e \in Deref(tree[n].match) /\ VectorOK /\ PointersOK
          BY <3>1, <4>2 DEF IInv
        <5> QED
          BY <4>2, <5>1, DerefProperties
      <4> QED
        BY <4>1, <4>2
    <3> QED
      BY <3>1, <3>2
  <2> DEFINE new == [node |-> n, include |-> i]
             list == AddEntry(Entries, new)
  <2>2. new \in Entry /\ \A m \in Nodes \ {n} : [node |-> m, include |-> TRUE] # new
    BY DEF Entry
  <2> HIDE DEF new
  <2>3. /\ list \in Seq(Entry) /\ Len(list) <= size + 1 /\ Sorted(list, Key)
        /\ \A x : Contains(list, x) <=> Contains(Entries, x) \/ x = new
    BY <1>1, <2>2, AddEntryProperties
  <2>4. tree' = Updated(SubSeq(Last(memory'), 1, size'), Len(memory'), tree, Around(n))
    BY <1>3 DEF ActivateInherited
  <2>5. Store(list)
    BY <2>1 DEF new
  <2>6. \A m \in Nodes \ {n} : Contains(list, [node |-> m, include |-> TRUE])
                                  => Contains(Entries, [node |-> m, include |-> TRUE])
    BY <2>2, <2>3
  <2> HIDE DEF list
  <2> QED
    BY <2>3, <2>4, <2>5, <2>6, ClickKeepsIInv
<1>4. ASSUME NEW n \in Nodes, Expand(n) PROVE IInv'
  <2>1. /\ memory' = memory /\ size' = size
        /\ VectorOK' /\ Entries' = Entries /\ Buffer' = Buffer
        /\ tree' = Updated(Entries', Buffer', tree, Subtree(n))
    BY <1>4 DEF Expand, VectorOK, Entries, Slots, Buffer, IInv
  <2>2. Buffer' >= Buffer /\ \A b \in 1 .. Buffer : DOMAIN memory[b] \subseteq DOMAIN memory'[b]
    BY <2>1 DEF Buffer, IInv, VectorOK
  <2>3. PointersOK'
    BY <2>1, <2>2, UpdatedKeepsPointers DEF IInv
  <2> DEFINE new == tree'
             U == Subtree(n)
             list == Entries
             buffer == Buffer
  <2>4. /\ new = Updated(list, buffer, tree, U) /\ buffer \in Nat /\ list \in Seq(Entry)
        /\ tree \in [Nodes -> NodeState]
    BY <1>1, <2>1 DEF IInv, PointersOK, VectorOK, Buffer
  <2>5. \A m \in Nodes : tree[m].match = NULL =>
           /\ ~ tree[m].included /\ ~ Contains(list, [node |-> m, include |-> TRUE])
           /\ m # Root => tree[Parent[m]].match = NULL
    BY DEF IInv, NullMeansNone
  <2> HIDE DEF new, U, list, buffer
  <2>6. /\ \A m \in Nodes : new[m].match = NULL => ~ new[m].included
        /\ \A m \in Nodes \cap U : new[m].match = NULL <=>
              (m # Root => new[Parent[m]].match = NULL)
              /\ ~ Contains(list, [node |-> m, include |-> TRUE])
        /\ \A m \in Nodes \ U : new[m] = tree[m]
    <3>1. \A m \in Nodes : tree[m].match = NULL => ~ tree[m].included
      BY <2>5
    <3> QED
      BY <2>4, <3>1, UpdatedKeepsNull, UpdatedProperties
  <2>7. \A m \in Nodes \ U : m # Root => Parent[m] \in Nodes \ U
    BY StoreTree DEF U, Subtree, Below
  <2>8. NullMeansNone'
    <3>1. ASSUME NEW m \in Nodes, new[m].match = NULL
          PROVE  /\ ~ new[m].included /\ ~ Contains(list, [node |-> m, include |-> TRUE])
                 /\ m # Root => new[Parent[m]].match = NULL
      <4>1. CASE m \in U
        BY <2>6, <3>1, <4>1
      <4>2. CASE m \notin U
        BY <2>5, <2>6, <2>7, <3>1, <4>2
      <4> QED
        BY <4>1, <4>2
    <3> QED
      BY <2>1, <3>1 DEF NullMeansNone, new, list
  <2>9. Sorted(Entries', Key)
    BY <1>1, <2>1
  <2> QED
    BY <2>1, <2>3, <2>8, <2>9 DEF IInv
<1>5. CASE UNCHANGED selectionVars
  BY <1>5 DEF selectionVars, IInv, VectorOK, PointersOK, NullMeansNone, Entries, Slots, Buffer
<1> QED
  BY <1>2, <1>3, <1>4, <1>5 DEF SelectionNext

\* Whatever sequence of clicks, on fresh nodes or stale ones: the entries stay
\* in the order of their paths with none twice, every pointer points at a slot
\* that was written, and none that is read is null.
THEOREM SelectionIsSound == SelectionSpec => []SelectionSound
<1>1. SelectionInit => IInv
  BY InitIInv
<1>2. IInv /\ [SelectionNext]_selectionVars => IInv'
  BY NextIInv
<1>3. IInv => SelectionSound
  BY IInvImpliesSelectionSound
<1> QED
  BY <1>1, <1>2, <1>3, PTL DEF SelectionSpec

-----------------------------------------------------------------------------
(* What the entries include.                                               *)

above(n, list) == n # Root /\ Parent[n] \in Chosen(list)

\* A fresh tree, from the root down.
LEMMA ShownProperties ==
  ASSUME NEW list \in Seq(Entry), NEW buffer \in Nat
  PROVE  LET s == Shown(list, buffer)
         IN  /\ s \in [Nodes -> NodeState]
             /\ \A n \in Nodes :
                   s[n] = UpdateState(list, buffer, n, IF n = Root THEN NoMatch ELSE s[Parent[n]])
             /\ \A n \in Nodes : s[n].match = NULL => ~ s[n].included
<1> DEFINE none == [n \in Nodes |-> NoMatch]
<1>1. none \in [Nodes -> NodeState] /\ \A n \in Nodes : ~ none[n].included
  BY DEF NoMatch, NodeState
<1>2. Shown(list, buffer) = Updated(list, buffer, none, Nodes)
  BY DEF Shown
<1> HIDE DEF none
<1> QED
  BY <1>1, <1>2, UpdatedProperties, UpdatedKeepsNull

\* Below what is included the entry that excludes a node is seen, elsewhere the
\* one that includes it.
LEMMA ShownIncludes ==
  ASSUME NEW list \in Seq(Entry), NEW buffer \in Nat, NEW n \in Nodes
  PROVE  LET s == Shown(list, buffer)
             in == n # Root /\ s[Parent[n]].included
         IN  /\ in => (s[n].included <=> ~ Contains(list, [node |-> n, include |-> FALSE]))
             /\ ~ in => (s[n].included <=> Contains(list, [node |-> n, include |-> TRUE]))
<1> DEFINE s == Shown(list, buffer)
           p == IF n = Root THEN NoMatch ELSE s[Parent[n]]
           in == n # Root /\ s[Parent[n]].included
<1>1. s \in [Nodes -> NodeState] /\ s[n] = UpdateState(list, buffer, n, p)
  BY ShownProperties
<1>2. NoMatch \in NodeState /\ NoMatch.included = FALSE
  BY DEF NoMatch, NodeState
<1> HIDE DEF s
<1>3. p \in NodeState /\ p.included \in BOOLEAN
  BY <1>1, <1>2, StoreAssumption DEF NodeState
<1>4. in <=> p.included
  BY <1>2
<1> HIDE DEF p, in
<1>5. \/ /\ ~ Contains(list, [node |-> n, include |-> ~ p.included])
         /\ s[n] = p
      \/ /\ Contains(list, [node |-> n, include |-> ~ p.included])
         /\ s[n].included = ~ p.included
  BY <1>1, <1>3, UpdateStateProperties
<1>6. CASE p.included = TRUE
  <2>1. (~ p.included) = FALSE
    BY <1>6
  <2> QED
    BY <1>4, <1>5, <1>6, <2>1 DEF s, in
<1>7. CASE p.included = FALSE
  <2>1. (~ p.included) = TRUE
    BY <1>7
  <2> QED
    BY <1>4, <1>5, <1>7, <2>1 DEF s, in
<1> QED
  BY <1>3, <1>6, <1>7

\* Where the entries are does not matter to what they include.
LEMMA ChosenProperties ==
  ASSUME NEW list \in Seq(Entry), NEW buffer \in Nat
  PROVE  \A n \in Nodes :
            /\ Shown(list, buffer)[n].included <=> n \in Chosen(list)
            /\ above(n, list) => (n \in Chosen(list) <=> ~ Contains(list, [node |-> n, include |-> FALSE]))
            /\ ~ above(n, list) => (n \in Chosen(list) <=> Contains(list, [node |-> n, include |-> TRUE]))
<1> DEFINE s == Shown(list, buffer)
           z == Shown(list, 0)
           Ex(n) == Contains(list, [node |-> n, include |-> FALSE])
           In(n) == Contains(list, [node |-> n, include |-> TRUE])
           T == {n \in Nodes : s[n].included <=> z[n].included}
<1>1. Chosen(list) = {n \in Nodes : z[n].included}
  BY DEF Chosen
<1>2. ASSUME NEW n \in Nodes
      PROVE  /\ n # Root /\ s[Parent[n]].included => (s[n].included <=> ~ Ex(n))
             /\ ~ (n # Root /\ s[Parent[n]].included) => (s[n].included <=> In(n))
             /\ n # Root /\ z[Parent[n]].included => (z[n].included <=> ~ Ex(n))
             /\ ~ (n # Root /\ z[Parent[n]].included) => (z[n].included <=> In(n))
  BY ShownIncludes
<1> HIDE DEF s, z, Ex, In
<1>3. Root \in T /\ \A n \in Nodes \ {Root} : Parent[n] \in T => n \in T
  BY <1>2, StoreAssumption
<1>4. Nodes \subseteq T
  <2> HIDE DEF T
  <2> QED
    BY <1>3, AncestorsGoUp, TreeInduction
<1>5. ASSUME NEW n \in Nodes
      PROVE  /\ s[n].included <=> n \in Chosen(list)
             /\ above(n, list) => (n \in Chosen(list) <=> ~ Ex(n))
             /\ ~ above(n, list) => (n \in Chosen(list) <=> In(n))
  <2>1. above(n, list) <=> n # Root /\ z[Parent[n]].included
    BY <1>1, StoreAssumption DEF above
  <2> QED
    BY <1>1, <1>2, <1>4, <2>1
<1> QED
  BY <1>5 DEF s, Ex, In

\* Entries of one node make no difference outside its subtree.
LEMMA ChosenOutside ==
  ASSUME NEW list \in Seq(Entry), NEW other \in Seq(Entry), NEW n \in Nodes,
         \A m \in Nodes \ {n} : \A b \in BOOLEAN :
            Contains(list, [node |-> m, include |-> b]) <=> Contains(other, [node |-> m, include |-> b])
  PROVE  /\ Chosen(list) \ Subtree(n) = Chosen(other) \ Subtree(n)
         /\ above(n, list) <=> above(n, other)
<1> DEFINE T == {m \in Nodes : m \notin Subtree(n) => (m \in Chosen(list) <=> m \in Chosen(other))}
           Ex(m, l) == Contains(l, [node |-> m, include |-> FALSE])
           In(m, l) == Contains(l, [node |-> m, include |-> TRUE])
<1>1. \A m \in Nodes \ {n} : (Ex(m, list) <=> Ex(m, other)) /\ (In(m, list) <=> In(m, other))
  OBVIOUS
<1>2. \A m \in Nodes :
         /\ above(m, list) => (m \in Chosen(list) <=> ~ Ex(m, list))
         /\ ~ above(m, list) => (m \in Chosen(list) <=> In(m, list))
         /\ above(m, other) => (m \in Chosen(other) <=> ~ Ex(m, other))
         /\ ~ above(m, other) => (m \in Chosen(other) <=> In(m, other))
  BY ChosenProperties
<1>3. n \in Subtree(n) /\ \A m \in Nodes \ {Root} : m \notin Subtree(n) => Parent[m] \in Nodes \ Subtree(n)
  BY StoreTree DEF Subtree, Below
<1> HIDE DEF Ex, In
<1>4. Root \in T
  BY <1>1, <1>2, <1>3, StoreAssumption DEF above
<1>5. ASSUME NEW m \in Nodes \ {Root}, Parent[m] \in T PROVE m \in T
  <2> SUFFICES ASSUME m \notin Subtree(n) PROVE m \in Chosen(list) <=> m \in Chosen(other)
    OBVIOUS
  <2>1. m # n /\ (above(m, list) <=> above(m, other))
    BY <1>3, <1>5 DEF above
  <2> QED
    BY <1>1, <1>2, <2>1
<1>6. Nodes \subseteq T
  <2> HIDE DEF T
  <2> QED
    BY <1>4, <1>5, AncestorsGoUp, TreeInduction
<1>7. Chosen(list) \subseteq Nodes /\ Chosen(other) \subseteq Nodes
  BY DEF Chosen
<1>8. n # Root => Parent[n] \in Nodes \ Subtree(n)
  BY StoreTree DEF Subtree, Below
<1> QED
  BY <1>6, <1>7, <1>8 DEF above

\* In a fresh tree the entry that a node matches is its own or one of a
\* directory above it, and says what the node is.
LEMMA ShownMatches ==
  ASSUME NEW list \in Seq(Entry), NEW buffer \in Nat
  PROVE  LET s == Shown(list, buffer)
         IN  \A n \in Nodes : s[n].match # NULL =>
                \E i \in 1 .. Len(list) : /\ s[n].match = [buffer |-> buffer, pos |-> i]
                                          /\ list[i].node \in {n} \cup Ancestors[n]
                                          /\ list[i].include = s[n].included
<1> DEFINE s == Shown(list, buffer)
           Good(n, v) == v.match # NULL =>
                 \E i \in 1 .. Len(list) : /\ v.match = [buffer |-> buffer, pos |-> i]
                                           /\ list[i].node \in {n} \cup Ancestors[n]
                                           /\ list[i].include = v.included
           T == {n \in Nodes : Good(n, s[n])}
<1>1. /\ s \in [Nodes -> NodeState]
      /\ \A n \in Nodes : s[n] = UpdateState(list, buffer, n, IF n = Root THEN NoMatch ELSE s[Parent[n]])
  BY ShownProperties
<1>2. NoMatch \in NodeState /\ Good(Root, NoMatch)
  BY DEF NoMatch, NodeState
<1>3. ASSUME NEW n \in Nodes, NEW v \in NodeState, Good(n, v) PROVE Good(n, UpdateState(list, buffer, n, v))
  <2>1. CASE UpdateState(list, buffer, n, v) = v
    BY <1>3, <2>1
  <2>2. CASE \E i \in 1 .. Len(list) :
                /\ list[i] = [node |-> n, include |-> ~ v.included]
                /\ UpdateState(list, buffer, n, v) =
                      [match |-> [buffer |-> buffer, pos |-> i], included |-> ~ v.included]
    BY <2>2
  <2> QED
    BY <2>1, <2>2, UpdateStateProperties
<1>4. \A n \in Nodes \ {Root} : \A v \in NodeState : Good(Parent[n], v) => Good(n, v)
  BY StoreTree
<1> HIDE DEF s, Good
<1>5. Root \in T
  <2>1. Root \in Nodes /\ s[Root] = UpdateState(list, buffer, Root, NoMatch)
    BY <1>1, StoreAssumption
  <2> QED
    BY <1>2, <1>3, <2>1
<1>6. ASSUME NEW n \in Nodes \ {Root}, Parent[n] \in T PROVE n \in T
  <2>1. s[Parent[n]] \in NodeState /\ Good(n, s[Parent[n]])
    BY <1>1, <1>4, <1>6, StoreAssumption
  <2>2. s[n] = UpdateState(list, buffer, n, s[Parent[n]])
    BY <1>1
  <2> QED
    BY <1>3, <2>1, <2>2
<1>7. Nodes \subseteq T
  <2> HIDE DEF T
  <2> QED
    BY <1>5, <1>6, AncestorsGoUp, TreeInduction
<1> QED
  BY <1>7 DEF Good, s

\* Removing a node's own entry, or adding one, turns the node over.
LEMMA TurnedOver ==
  ASSUME NEW list \in Seq(Entry), NEW other \in Seq(Entry), NEW n \in Nodes, NEW b \in BOOLEAN,
         above(n, list) <=> ~ b,
         ~ Contains(list, [node |-> n, include |-> b]), Contains(other, [node |-> n, include |-> b]),
         \A x : x # [node |-> n, include |-> b] => (Contains(list, x) <=> Contains(other, x))
  PROVE  /\ n \in Chosen(list) <=> n \notin Chosen(other)
         /\ Chosen(list) \ Subtree(n) = Chosen(other) \ Subtree(n)
<1>1. \A m \in Nodes \ {n} : \A c \in BOOLEAN :
         Contains(list, [node |-> m, include |-> c]) <=> Contains(other, [node |-> m, include |-> c])
  <2>1. \A m \in Nodes \ {n} : \A c \in BOOLEAN : [node |-> m, include |-> c] # [node |-> n, include |-> b]
    OBVIOUS
  <2> QED
    BY <2>1
<1>2. /\ Chosen(list) \ Subtree(n) = Chosen(other) \ Subtree(n)
      /\ above(n, list) <=> above(n, other)
  BY <1>1, ChosenOutside
<1>3. /\ above(n, list) => (n \in Chosen(list) <=> ~ Contains(list, [node |-> n, include |-> FALSE]))
      /\ ~ above(n, list) => (n \in Chosen(list) <=> Contains(list, [node |-> n, include |-> TRUE]))
      /\ above(n, other) => (n \in Chosen(other) <=> ~ Contains(other, [node |-> n, include |-> FALSE]))
      /\ ~ above(n, other) => (n \in Chosen(other) <=> Contains(other, [node |-> n, include |-> TRUE]))
  <2>1. 0 \in Nat
    OBVIOUS
  <2> QED
    BY <2>1, ChosenProperties
<1>4. CASE b = TRUE
  BY <1>2, <1>3, <1>4
<1>5. CASE b = FALSE
  BY <1>2, <1>3, <1>5
<1> QED
  BY <1>2, <1>4, <1>5

\* What a click does when the node and all above it show what the spec says.
LEMMA FreshClick ==
  ASSUME IInv, NEW n \in Nodes, ActivateOwn(n) \/ ActivateInherited(n),
         \A m \in {n} \cup Ancestors[n] : tree[m] = Now[m]
  PROVE  /\ n \in Chosen(Entries) <=> n \notin Chosen(Entries')
         /\ Chosen(Entries) \ Subtree(n) = Chosen(Entries') \ Subtree(n)
<1> DEFINE list == Entries
           other == Entries'
           s == Now
           p == IF n = Root THEN NoMatch ELSE s[Parent[n]]
           b == ~ p.included
           own == [node |-> n, include |-> b]
<1>1. /\ list \in Seq(Entry) /\ Len(list) = size /\ Sorted(list, Key) /\ Buffer \in Nat
      /\ \A i \in 1 .. size : list[i] = Slots[i]
  BY EntriesProperties DEF IInv, VectorOK, Buffer
<1>2. /\ s \in [Nodes -> NodeState] /\ s[n] = UpdateState(list, Buffer, n, p)
      /\ s[n].match = NULL => ~ s[n].included
  BY <1>1, ShownProperties DEF Now
<1>3. NoMatch \in NodeState /\ NoMatch.match = NULL /\ NoMatch.included = FALSE
  BY DEF NoMatch, NodeState
<1>4. /\ tree[n] = s[n] /\ (n # Root => tree[Parent[n]] = s[Parent[n]])
      /\ \A m \in {n} \cup Ancestors[n] : m # n => m \in Nodes
  BY StoreTree
<1>5. p \in NodeState /\ p.included \in BOOLEAN /\ b \in BOOLEAN
  BY <1>2, <1>3, StoreAssumption DEF NodeState
<1>6. above(n, list) <=> p.included
  <2>1. n # Root => (s[Parent[n]].included <=> Parent[n] \in Chosen(list))
    BY <1>1, ChosenProperties, StoreAssumption DEF Now
  <2> QED
    BY <1>3, <2>1 DEF above
<1>7. \/ ~ Contains(list, own) /\ s[n] = p
      \/ /\ Contains(list, own)
         /\ \E i \in 1 .. Len(list) : list[i] = own /\ s[n].match = [buffer |-> Buffer, pos |-> i]
  <2>1. \/ ~ Contains(list, own) /\ UpdateState(list, Buffer, n, p) = p
        \/ /\ Contains(list, own)
           /\ \E i \in 1 .. Len(list) :
                 /\ list[i] = own
                 /\ UpdateState(list, Buffer, n, p) =
                       [match |-> [buffer |-> Buffer, pos |-> i], included |-> b]
    <3> DEFINE buffer == Buffer
    <3>1. list \in Seq(Entry) /\ buffer \in Nat /\ p \in NodeState
      BY <1>1, <1>5
    <3> HIDE DEF list, p, buffer
    <3>2. \/ /\ ~ Contains(list, [node |-> n, include |-> ~ p.included])
             /\ UpdateState(list, buffer, n, p) = p
          \/ /\ Contains(list, [node |-> n, include |-> ~ p.included])
             /\ \E i \in 1 .. Len(list) :
                   /\ list[i] = [node |-> n, include |-> ~ p.included]
                   /\ UpdateState(list, buffer, n, p) =
                         [match |-> [buffer |-> buffer, pos |-> i], included |-> ~ p.included]
      BY <3>1, UpdateStateProperties
    <3> QED
      BY <3>2 DEF buffer
  <2> HIDE DEF own, b, p, s, list
  <2> QED
    BY <1>2, <2>1
<1>8. MatchIsOwn(n) <=> s[n].match # p.match
  BY <1>3, <1>4 DEF MatchIsOwn
<1>9. ASSUME NEW new \in Seq(Entry), Len(new) <= size + 1, Store(new) PROVE other = new
  BY <1>9, StoreProperties DEF IInv
<1> HIDE DEF s, p
<1>10. CASE ActivateOwn(n)
  <2>1. PICK e \in Deref(tree[n].match) : Store(RemoveEntry(list, e))
    BY <1>10 DEF ActivateOwn
  <2>2. PICK i \in 1 .. Len(list) : /\ Contains(list, own) /\ list[i] = own
                                    /\ s[n].match = [buffer |-> Buffer, pos |-> i]
    BY <1>7, <1>8, <1>10 DEF ActivateOwn
  <2>3. e = own
    BY <1>1, <1>4, <2>2 DEF Deref
  <2> DEFINE new == RemoveEntry(list, own)
  <2>4. /\ new \in Seq(Entry) /\ Len(new) <= size + 1
        /\ \A x : Contains(new, x) <=> Contains(list, x) /\ x # own
    BY <1>1, RemoveEntryProperties
  <2>5. other = new
    BY <1>9, <2>1, <2>3, <2>4
  <2>6. /\ above(n, other) <=> above(n, list)
        /\ Contains(list, own) /\ ~ Contains(other, own)
        /\ \A x : x # own => (Contains(other, x) <=> Contains(list, x))
    <3>1. \A m \in Nodes \ {n} : \A c \in BOOLEAN : [node |-> m, include |-> c] # own
      OBVIOUS
    <3> HIDE DEF own, list, other
    <3>2. \A x : x # own => (Contains(other, x) <=> Contains(list, x))
      BY <2>4, <2>5
    <3>3. other \in Seq(Entry) /\ ~ Contains(other, own)
      BY <2>4, <2>5
    <3> HIDE DEF new
    <3>4. above(n, other) <=> above(n, list)
      BY <1>1, <3>1, <3>2, <3>3, ChosenOutside
    <3> QED
      BY <2>2, <3>2, <3>3, <3>4
  <2>7. above(n, other) <=> ~ b
    BY <1>5, <1>6, <2>6
  <2>8. other \in Seq(Entry)
    BY <2>4, <2>5
  <2> HIDE DEF list, other, b, new
  <2>9. /\ n \in Chosen(other) <=> n \notin Chosen(list)
        /\ Chosen(other) \ Subtree(n) = Chosen(list) \ Subtree(n)
    BY <1>1, <1>5, <2>6, <2>7, <2>8, TurnedOver
  <2> QED
    BY <2>9 DEF list, other
<1>11. CASE ActivateInherited(n)
  <2>1. s[n].match = p.match
    BY <1>8, <1>11 DEF ActivateInherited
  <2>2. ~ Contains(list, own) /\ s[n] = p
    <3> SUFFICES ASSUME NEW i \in 1 .. Len(list), list[i] = own,
                        s[n].match = [buffer |-> Buffer, pos |-> i]
                 PROVE  FALSE
      BY <1>7
    <3>1. p.match # NULL
      BY <1>1, <2>1, SelectionAssumption DEF Pointer
    <3>2. n # Root /\ p.match = s[Parent[n]].match
      BY <1>3, <3>1 DEF p
    <3>3. PICK j \in 1 .. Len(list) : /\ s[Parent[n]].match = [buffer |-> Buffer, pos |-> j]
                                       /\ list[j].node \in {Parent[n]} \cup Ancestors[Parent[n]]
      BY <1>1, <3>1, <3>2, ShownMatches, StoreAssumption DEF s, Now
    <3>4. i = j
      <4>1. [buffer |-> Buffer, pos |-> i] = [buffer |-> Buffer, pos |-> j]
        BY <2>1, <3>2, <3>3
      <4> QED
        BY <4>1
    <3>5. list[j].node = n
      BY <3>4
    <3> QED
      BY <3>2, <3>3, <3>5, StoreTree
  <2>3. PICK e \in IF tree[n].match = NULL THEN {[node |-> n, include |-> FALSE]}
                   ELSE Deref(tree[n].match) :
           Store(AddEntry(list, [node |-> n, include |-> ~ e.include]))
    BY <1>11 DEF ActivateInherited
  <2>4. e.include = p.included
    <3>1. CASE tree[n].match = NULL
      <4>1. e.include = FALSE /\ p.included = FALSE
        BY <1>2, <1>4, <1>5, <2>2, <2>3, <3>1
      <4> QED
        BY <4>1
    <3>2. CASE tree[n].match # NULL
      <4>1. PICK i \in 1 .. Len(list) : /\ s[n].match = [buffer |-> Buffer, pos |-> i]
                                        /\ list[i].include = s[n].included
        BY <1>1, <1>4, <3>2, ShownMatches DEF s, Now
      <4>2. e = list[i]
        BY <1>1, <1>4, <2>3, <3>2, <4>1 DEF Deref
      <4> QED
        BY <2>2, <4>1, <4>2
    <3> QED
      BY <3>1, <3>2
  <2>5. Store(AddEntry(list, own)) /\ own \in Entry
    BY <1>5, <2>3, <2>4 DEF Entry
  <2> DEFINE new == AddEntry(list, own)
  <2>6. /\ new \in Seq(Entry) /\ Len(new) <= size + 1
        /\ \A x : Contains(new, x) <=> Contains(list, x) \/ x = own
    BY <1>1, <2>5, AddEntryProperties
  <2>7. other = new
    BY <1>9, <2>5, <2>6
  <2>8. /\ other \in Seq(Entry) /\ ~ Contains(list, own) /\ Contains(other, own)
        /\ \A x : x # own => (Contains(list, x) <=> Contains(other, x))
    BY <2>2, <2>6, <2>7
  <2>9. above(n, list) <=> ~ b
    BY <1>5, <1>6
  <2> HIDE DEF list, other, b, new
  <2> QED
    BY <1>1, <1>5, <2>8, <2>9, TurnedOver DEF list, other
<1> QED
  BY <1>10, <1>11

\* Activating a node that shows what the spec says, below directories that do,
\* turns that node over and changes nothing outside its subtree, in every store.
THEOREM FreshClicksAreExact == SelectionSpec => FreshClickIsExact
<1>1. SelectionInit => IInv
  BY InitIInv
<1>2. IInv /\ [SelectionNext]_selectionVars => IInv'
  BY NextIInv
<1> DEFINE Exact ==
      \A n \in Nodes :
          /\ ActivateOwn(n) \/ ActivateInherited(n)
          /\ \A m \in {n} \cup Ancestors[n] : tree[m] = Now[m]
          => /\ n \in Chosen(Entries) <=> n \notin Chosen(Entries')
             /\ Chosen(Entries) \ Subtree(n) = Chosen(Entries') \ Subtree(n)
<1>3. IInv => Exact
  BY FreshClick
<1>4. FreshClickIsExact <=> [][Exact]_selectionVars
  BY DEF FreshClickIsExact
<1> HIDE DEF Exact
<1> QED
  BY <1>1, <1>2, <1>3, <1>4, PTL DEF SelectionSpec

-----------------------------------------------------------------------------
(* The restore.                                                            *)

\* The shape of the history.
HistoryOK ==
    /\ history = [asked |-> history.asked, second |-> history.second,
                  unread |-> history.unread, failed |-> history.failed]
    /\ history.asked \in BOOLEAN /\ history.second \in BOOLEAN

\* The request to stop stands until the restore returns.
StopRemembered ==
    pc # "idle" /\ history.asked /\ ~ history.second => stop

IndInv == HistoryOK /\ StopRemembered

-----------------------------------------------------------------------------
\* Nobody has asked for anything yet.
LEMMA InitIndInv == Init => IndInv
  BY DEF Init, Calm, IndInv, HistoryOK, StopRemembered

\* What a restore does itself changes of its history only what has gone wrong.
LEMMA StepHistory ==
  ASSUME Step
  PROVE  \/ UNCHANGED history
         \/ history' = [history EXCEPT !.unread = TRUE]
         \/ history' = [history EXCEPT !.failed = TRUE]
<1>1. CASE CountEntry \/ CountNode \/ CountingEnds \/ RestoreEnds
  BY <1>1 DEF CountEntry, CountNode, CountingEnds, RestoreEnds
<1>2. CASE RestoreEntry
  BY <1>2 DEF RestoreEntry, Failure, Throw
<1>3. CASE RestoreNode
  BY <1>3 DEF RestoreNode, RestoreVersion, RestoreDirectory, RestoreFile, Pass, Failure, Throw
<1> QED
  BY <1>1, <1>2, <1>3 DEF Step

\* Nor does it forget the request to stop before it returns.
LEMMA StepFlags == ASSUME Step PROVE pc # "idle" /\ (UNCHANGED stop \/ pc' = "idle")
<1>1. CASE CountEntry \/ CountNode \/ CountingEnds
  BY <1>1 DEF CountEntry, CountNode, CountingEnds, flags
<1>2. CASE RestoreEntry \/ RestoreNode \/ RestoreEnds
  BY <1>2 DEF RestoreEntry, RestoreNode, RestoreEnds, flags
<1> QED
  BY <1>1, <1>2 DEF Step

\* Every step keeps the invariant.
LEMMA NextIndInv == IndInv /\ [Next]_vars => IndInv'
<1> SUFFICES ASSUME IndInv, [Next]_vars PROVE IndInv'
  OBVIOUS
<1> USE DEF IndInv, HistoryOK, StopRemembered
<1>1. CASE Step
  <2>1. HistoryOK' /\ UNCHANGED <<history.asked, history.second>>
    BY <1>1, StepHistory
  <2> QED
    BY <1>1, <2>1, StepFlags
<1>2. CASE \E n \in Stored : Click(n)
  BY <1>2 DEF Click, flags
<1>3. CASE Start
  BY <1>3 DEF Start, StartTo, Calm
<1>4. CASE Stop
  BY <1>4 DEF Stop
<1>5. CASE SecondRestore
  BY <1>5 DEF SecondRestore
<1>6. CASE UNCHANGED vars
  BY <1>6 DEF vars, flags
<1> QED
  BY <1>1, <1>2, <1>3, <1>4, <1>5, <1>6 DEF Next

\* So the invariant holds in every state.
LEMMA SpecIndInv == Spec => []IndInv
  BY InitIndInv, NextIndInv, PTL DEF Spec

-----------------------------------------------------------------------------
\* No file is restored by a run that was asked to stop.
LEMMA NothingRestored ==
  ASSUME IndInv, [Next]_vars, pc = "restoring", history.asked, ~ history.second
  PROVE  restored' = restored
<1>1. stop
  BY DEF IndInv, StopRemembered
<1>2. CASE Step
  <2>1. CASE CountEntry \/ CountNode \/ CountingEnds \/ RestoreEnds
    BY <2>1 DEF CountEntry, CountNode, CountingEnds, RestoreEnds, disk
  <2>2. CASE RestoreEntry
    BY <2>2 DEF RestoreEntry, Failure, Throw, GiveUp, disk
  <2>3. CASE RestoreNode
    BY <1>1, <2>3 DEF RestoreNode, Stopping, GiveUp, disk
  <2> QED
    BY <1>2, <2>1, <2>2, <2>3 DEF Step
<1>3. CASE \/ \E n \in Stored : Click(n)
           \/ Stop \/ SecondRestore \/ UNCHANGED vars
  BY <1>3 DEF Click, Stop, SecondRestore, vars, disk
<1>4. ~ Start
  BY DEF Start, StartTo
<1> QED
  BY <1>2, <1>3, <1>4 DEF Next

\* StopIsHonoured: once the user has asked for a stop no more files are
\* restored, unless a second restore was started within this one.
THEOREM StopHonoured == Spec => StopIsHonoured
<1>1. IndInv /\ [Next]_vars =>
        [pc = "restoring" /\ history.asked /\ ~ history.second => restored' = restored]_vars
  BY NothingRestored
<1> QED
  BY <1>1, SpecIndInv, PTL DEF Spec, StopIsHonoured

-----------------------------------------------------------------------------
(* How the nodes lie.                                                      *)

\* Below a directory the paths are greater; of two directories above a node one
\* is above the other; of two nodes in a directory neither is above the other;
\* and what is below a directory is one of the nodes in it, or below one.
LEMMA StoreOrder ==
  /\ \A n \in Nodes : \A m \in Ancestors[n] : m \in Nodes /\ Rank[m] < Rank[n]
  /\ \A n \in Nodes : \A a, b \in {n} \cup Ancestors[n] :
        a = b \/ a \in Ancestors[b] \/ b \in Ancestors[a]
  /\ \A a, b \in Nodes \ {Root} : Parent[a] = Parent[b] => a \notin Ancestors[b]
  /\ \A n \in Nodes : \A x \in Below(n) :
        \E c \in Nodes \ {Root} : Parent[c] = n /\ x \in Subtree(c)
<1>1. \A n \in Nodes : \A m \in Ancestors[n] : m \in Nodes /\ Rank[m] < Rank[n]
  <2> DEFINE T == {n \in Nodes : \A m \in Ancestors[n] : m \in Nodes /\ Rank[m] < Rank[n]}
  <2>1. Root \in T
    BY StoreTree
  <2>2. \A n \in Nodes \ {Root} : Parent[n] \in T => n \in T
    BY StoreTree, StoreAssumption
  <2>3. Nodes \subseteq T
    <3> HIDE DEF T
    <3> QED
      BY <2>1, <2>2, AncestorsGoUp, TreeInduction
  <2> QED
    BY <2>3 DEF T
<1>2. \A n \in Nodes : \A a, b \in {n} \cup Ancestors[n] :
         a = b \/ a \in Ancestors[b] \/ b \in Ancestors[a]
  <2>1. \A n \in Nodes : \A a, b \in Ancestors[n] :
           a = b \/ a \in Ancestors[b] \/ b \in Ancestors[a]
    BY AncestorsGoUp, TreeOrder
  <2> QED
    BY <2>1
<1>3. \A a, b \in Nodes \ {Root} : Parent[a] = Parent[b] => a \notin Ancestors[b]
  BY AncestorsGoUp, TreeOrder
<1>4. ASSUME NEW n \in Nodes
      PROVE  \A x \in Below(n) : \E c \in Nodes \ {Root} : Parent[c] = n /\ x \in Subtree(c)
  <2> DEFINE T == {x \in Nodes : n \in Ancestors[x] =>
                      \E c \in Nodes \ {Root} : Parent[c] = n /\ x \in Subtree(c)}
  <2>1. Root \in T
    BY StoreTree
  <2>2. ASSUME NEW x \in Nodes \ {Root}, Parent[x] \in T PROVE x \in T
    <3>1. Ancestors[x] = {Parent[x]} \cup Ancestors[Parent[x]] /\ Parent[x] \in Nodes
      BY StoreTree
    <3>2. CASE n = Parent[x]
      BY <3>2 DEF Subtree
    <3>3. CASE n # Parent[x] /\ n \in Ancestors[x]
      <4>1. PICK c \in Nodes \ {Root} : Parent[c] = n /\ Parent[x] \in Subtree(c)
        BY <2>2, <3>1, <3>3
      <4>2. c \in Ancestors[x]
        BY <3>1, <4>1 DEF Subtree, Below
      <4> QED
        BY <4>1, <4>2 DEF Subtree, Below
    <3> QED
      BY <3>2, <3>3
  <2>3. Nodes \subseteq T
    <3> HIDE DEF T
    <3> QED
      BY <2>1, <2>2, AncestorsGoUp, TreeInduction
  <2> QED
    BY <2>3 DEF T, Below
<1> QED
  BY <1>1, <1>2, <1>3, <1>4

\* What is below a node that is below another is below that.
LEMMA SubtreeProperties ==
  ASSUME NEW n \in Nodes
  PROVE  /\ n \in Subtree(n)
         /\ \A x : x \in Subtree(n) <=> x \in Nodes /\ n \in {x} \cup Ancestors[x]
         /\ \A m \in Subtree(n) : Subtree(m) \subseteq Subtree(n)
<1>1. \A x : x \in Subtree(n) <=> x \in Nodes /\ n \in {x} \cup Ancestors[x]
  BY DEF Subtree, Below
<1>2. ASSUME NEW m \in Subtree(n), NEW x \in Subtree(m) PROVE x \in Subtree(n)
  <2>1. m \in Nodes /\ x \in Nodes /\ m \in {x} \cup Ancestors[x] /\ n \in {m} \cup Ancestors[m]
    BY <1>1, <1>2 DEF Subtree, Below
  <2>2. m # x => Ancestors[m] \subseteq Ancestors[x]
    BY <2>1, StoreTree
  <2> QED
    BY <1>1, <2>1, <2>2
<1> QED
  BY <1>1, <1>2

\* The nodes on the store, as of a date: those in a directory are the ones
\* listed, and everything above them is a directory that is on the store too.
LEMMA StoredProperties ==
  ASSUME date \in Dates
  PROVE  /\ Stored \in SUBSET Nodes /\ Root \in Stored
         /\ \A n \in Nodes : Children(n) \in Seq(Stored)
         /\ \A n, c \in Nodes : Contains(Children(n), c)
               <=> n \in Dirs /\ c \in Stored \ {Root} /\ Parent[c] = n
         /\ \A n \in Nodes : \A i, j \in 1 .. Len(Children(n)) :
               i # j => Children(n)[i] # Children(n)[j]
         /\ \A n \in Stored : Ancestors[n] \subseteq Dirs \cap Stored
<1> DEFINE list(n) == Listing[date][n]
<1>1. Dirs \subseteq Nodes /\ Root \in Dirs /\ Root \in Nodes /\ Parent \in [Nodes -> Nodes]
  BY RunAssumption, StoreAssumption
<1>2. \A n \in Dirs : list(n) \in Seq(Nodes \ {Root})
  BY RunAssumption
<1>3. Stored = {Root} \cup UNION {Range(list(n)) : n \in Dirs}
  BY DEF Stored, StoredAt
<1>4. \A n \in Dirs : \A x : x \in Range(list(n)) <=> \E i \in 1 .. Len(list(n)) : list(n)[i] = x
  BY <1>2 DEF Range
<1>5. \A n \in Dirs : \A x : x \in Range(list(n)) <=> Contains(list(n), x)
  BY <1>4 DEF Contains
<1>6. \A n \in Dirs : \A i, j \in 1 .. Len(list(n)) :
         Parent[list(n)[i]] = n /\ (list(n)[i] = list(n)[j] => i = j)
  BY <1>2, RunAssumption
<1>7. \A n \in Dirs : list(n) # <<>> => n \in Stored
  <2>1. \A n \in Dirs \ {Root} : list(n) # <<>> => \E m \in Dirs : n \in Range(list(m))
    BY RunAssumption
  <2> QED
    BY <1>3, <2>1
<1> HIDE DEF list
<1>8. \A n \in Dirs : \A x \in Range(list(n)) : x \in Nodes \ {Root} /\ Parent[x] = n /\ x \in Stored
  BY <1>2, <1>3, <1>4, <1>6
<1>9. \A n \in Stored \ {Root} : Parent[n] \in Dirs /\ n \in Range(list(Parent[n])) /\ n \in Nodes
  BY <1>3, <1>8
<1>10. Stored \in SUBSET Nodes /\ Root \in Stored
  BY <1>1, <1>3, <1>8
<1>11. \A n \in Dirs : list(n) \in Seq(Stored)
  <2> SUFFICES ASSUME NEW n \in Dirs PROVE list(n) \in Seq(Stored)
    OBVIOUS
  <2>1. \A i \in 1 .. Len(list(n)) : list(n)[i] \in Stored
    BY <1>4, <1>8
  <2> QED
    BY <1>2, <2>1
<1>12. \A n \in Nodes : Children(n) = IF n \in Dirs THEN list(n) ELSE <<>>
  BY DEF Children, list
<1>13. \A n \in Nodes : Children(n) \in Seq(Stored)
  <2>1. <<>> \in Seq(Stored)
    OBVIOUS
  <2>2. \A n \in Nodes : IF n \in Dirs THEN list(n) \in Seq(Stored) ELSE Children(n) = <<>>
    BY <1>11, <1>12
  <2> QED
    BY <1>12, <2>1, <2>2
<1>14. \A n, c \in Nodes : Contains(Children(n), c)
               <=> n \in Dirs /\ c \in Stored \ {Root} /\ Parent[c] = n
  <2> SUFFICES ASSUME NEW n \in Nodes, NEW c \in Nodes
               PROVE  Contains(Children(n), c)
                         <=> n \in Dirs /\ c \in Stored \ {Root} /\ Parent[c] = n
    OBVIOUS
  <2>1. CASE n \in Dirs
    <3>1. Contains(Children(n), c) <=> c \in Range(list(n))
      BY <1>5, <1>12, <2>1
    <3>2. c \in Range(list(n)) => c \in Stored \ {Root} /\ Parent[c] = n
      BY <1>8, <2>1
    <3>3. c \in Stored \ {Root} /\ Parent[c] = n => c \in Range(list(n))
      BY <1>9
    <3> QED
      BY <2>1, <3>1, <3>2, <3>3
  <2>2. CASE n \notin Dirs
    BY <1>12, <2>2, SingletonContains
  <2> QED
    BY <2>1, <2>2
<1>15. \A n \in Nodes : \A i, j \in 1 .. Len(Children(n)) : i # j => Children(n)[i] # Children(n)[j]
  <2>1. Len(<<>>) = 0
    OBVIOUS
  <2> QED
    BY <1>6, <1>12, <2>1
<1>16. \A n \in Stored : Ancestors[n] \subseteq Dirs \cap Stored
  <2> DEFINE T == {n \in Nodes : n \in Stored => Ancestors[n] \subseteq Dirs \cap Stored}
  <2>1. Root \in T
    BY StoreTree
  <2>2. ASSUME NEW n \in Nodes \ {Root}, Parent[n] \in T PROVE n \in T
    <3> SUFFICES ASSUME n \in Stored PROVE Ancestors[n] \subseteq Dirs \cap Stored
      OBVIOUS
    <3>1. Parent[n] \in Dirs /\ list(Parent[n]) # <<>>
      <4>1. Parent[n] \in Dirs /\ Contains(list(Parent[n]), n)
        BY <1>5, <1>9
      <4> QED
        BY <4>1, SingletonContains
    <3>2. Parent[n] \in Dirs \cap Stored
      BY <1>7, <3>1
    <3> QED
      BY <2>2, <3>2, StoreTree
  <2>3. Nodes \subseteq T
    <3> HIDE DEF T
    <3> QED
      BY <2>1, <2>2, AncestorsGoUp, TreeInduction
  <2> QED
    BY <1>10, <2>3 DEF T
<1> QED
  BY <1>10, <1>13, <1>14, <1>15, <1>16

-----------------------------------------------------------------------------
(* What an entry leads to.                                                 *)

Including(n) == [node |-> n, include |-> TRUE]

\* n is u, or below it, and the restore of u comes to it
Leads(u, n) ==
    /\ u \in {n} \cup Ancestors[n]
    /\ \A m \in Ancestors[n] \ Ancestors[u] : Countable(m) /\ m \in Dirs
    /\ \A m \in ({n} \cup Ancestors[n]) \ ({u} \cup Ancestors[u]) : m \in Stored

\* Every node leads to itself.
LEMMA LeadsSelf == \A n \in Nodes : Leads(n, n)
  BY DEF Leads

\* What leads to a node of what it leads to leads to that.
LEMMA LeadsOn ==
  ASSUME NEW u \in Nodes, NEW v \in Nodes, NEW n \in Nodes,
         Leads(u, v), Leads(v, n)
  PROVE  Leads(u, n)
<1>0. v # n => Countable(v) /\ v \in Dirs
  BY StoreTree DEF Leads
<1>1. u \in {v} \cup Ancestors[v] /\ v \in {n} \cup Ancestors[n]
  BY DEF Leads
<1>2. Ancestors[v] \subseteq Ancestors[n]
  BY <1>1, StoreTree
<1>3. CASE v = n
  BY <1>3
<1>4. CASE v # n
  <2>1. u \in {n} \cup Ancestors[n]
    BY <1>1, <1>2, <1>4
  <2>2. ASSUME NEW m \in Ancestors[n] \ Ancestors[u] PROVE Countable(m) /\ m \in Dirs
    <3>1. CASE m \in Ancestors[v] \ Ancestors[u]
      BY <3>1 DEF Leads
    <3>2. CASE m \notin Ancestors[v]
      BY <3>2 DEF Leads
    <3> QED
      BY <1>0, <2>2, <3>1, <3>2
  <2>3. ASSUME NEW m \in ({n} \cup Ancestors[n]) \ ({u} \cup Ancestors[u]) PROVE m \in Stored
    <3>1. CASE m \in {v} \cup Ancestors[v]
      BY <2>3, <3>1 DEF Leads
    <3>2. CASE m \notin {v} \cup Ancestors[v]
      BY <2>3, <3>2 DEF Leads
    <3> QED
      BY <2>3, <3>1, <3>2
  <2> QED
    BY <2>1, <2>2, <2>3 DEF Leads
<1> QED
  BY <1>3, <1>4

\* It leads to everything on the way.
LEMMA LeadsThrough ==
  ASSUME NEW u \in Nodes, NEW v \in Nodes, NEW n \in Nodes,
         Leads(u, n), v \in {n} \cup Ancestors[n], u \in {v} \cup Ancestors[v]
  PROVE  Leads(u, v) /\ (v # n => Countable(v) /\ v \in Dirs) /\ Leads(v, n)
<1>1. Ancestors[v] \subseteq Ancestors[n] /\ Ancestors[u] \subseteq Ancestors[v]
  BY StoreTree
<1>2. v \notin Ancestors[u]
  <2>1. v \in Ancestors[u] => Ancestors[v] \subseteq Ancestors[u]
    BY StoreTree
  <2> QED
    BY <2>1, StoreTree
<1>3. Leads(u, v)
  BY <1>1 DEF Leads
<1>4. v # n => Countable(v) /\ v \in Dirs
  BY <1>2 DEF Leads
<1>5. Leads(v, n)
  BY <1>1 DEF Leads
<1> QED
  BY <1>3, <1>4, <1>5

\* And to the nodes in a directory that it leads to, if that is counted.
LEMMA LeadsDown ==
  ASSUME NEW u \in Nodes, NEW n \in Nodes, NEW c \in Nodes \ {Root},
         Leads(u, n), Countable(n), n \in Dirs, Parent[c] = n, c \in Stored
  PROVE  Leads(u, c)
<1>1. Ancestors[c] = {n} \cup Ancestors[n]
  BY StoreTree
<1>2. Leads(n, c)
  BY <1>1 DEF Leads
<1> QED
  BY <1>2, LeadsOn

\* A node below a directory that an entry leads through is that directory's
\* or below one of its nodes, which is on the store.
LEMMA LeadsPast ==
  ASSUME NEW u \in Nodes, NEW n \in Nodes, NEW x \in Below(n), Leads(u, x), n \notin Ancestors[u]
  PROVE  /\ Countable(n) /\ n \in Dirs
         /\ \E c \in Nodes \ {Root} : Parent[c] = n /\ c \in Stored /\ x \in Subtree(c)
<1>1. x \in Nodes /\ n \in Ancestors[x]
  BY DEF Below
<1>2. Countable(n) /\ n \in Dirs
  BY <1>1 DEF Leads
<1>3. PICK c \in Nodes \ {Root} : Parent[c] = n /\ x \in Subtree(c)
  BY StoreOrder
<1>4. c \in {x} \cup Ancestors[x] /\ n \in Ancestors[c]
  BY <1>3, StoreTree, SubtreeProperties
<1>5. c \notin {u} \cup Ancestors[u]
  BY <1>4, StoreTree
<1>6. c \in Stored
  BY <1>4, <1>5 DEF Leads
<1> QED
  BY <1>2, <1>3, <1>6

\* This is as it was when neither the date nor what is excluded has changed.
LEMMA LeadsSame ==
  ASSUME date' = date, \A n \in Nodes : Excluded(spec', n) <=> Excluded(spec, n)
  PROVE  /\ Stored' = Stored /\ Files' = Files
         /\ \A n : Children(n)' = Children(n)
         /\ \A n \in Nodes : Countable(n)' <=> Countable(n)
         /\ \A u, n \in Nodes : Leads(u, n)' <=> Leads(u, n)
<1>1. Stored' = Stored /\ Files' = Files /\ Missing' = Missing
  BY DEF Stored, Files, Missing
<1>2. \A n \in Nodes : Countable(n)' <=> Countable(n)
  BY <1>1 DEF Countable
<1>3. \A n \in Nodes : Ancestors[n] \subseteq Nodes
  BY StoreTree
<1>4. ASSUME NEW u \in Nodes, NEW n \in Nodes PROVE Leads(u, n)' <=> Leads(u, n)
  <2>1. \A m \in Ancestors[n] \ Ancestors[u] : Countable(m)' <=> Countable(m)
    BY <1>2, <1>3
  <2> QED
    BY <1>1, <2>1 DEF Leads
<1>5. \A n : Children(n)' = Children(n)
  BY DEF Children
<1> QED
  BY <1>1, <1>2, <1>4, <1>5

-----------------------------------------------------------------------------
(* The lists.                                                              *)

\* The first entry of a node that is not excluded includes it, if one does.
LEMMA FirstIncludesProperties ==
  ASSUME NEW list \in Seq(Entry), NEW n \in Nodes
  PROVE  /\ FirstIncludes(list, n) => Contains(list, Including(n))
         /\ Contains(list, Including(n)) /\ ~ Excluded(list, n) => FirstIncludes(list, n)
<1> DEFINE I == {i \in 1 .. Len(list) : list[i].node = n}
<1>1. FirstIncludes(list, n) <=> I # {} /\ list[Min(I)].include
  <2> DEFINE i == IF I # {} THEN Min(I) ELSE 0
  <2>1. SelectInSeq(list, LAMBDA e : e.node = n) = i
    BY DEF SelectInSeq
  <2>2. I # {} => i \in 1 .. Len(list)
    <3>1. I \in SUBSET Nat
      OBVIOUS
    <3> QED
      BY <3>1, MinIsLeast
  <2>3. I # {} <=> i # 0
    BY <2>2
  <2> QED
    BY <2>1, <2>3 DEF FirstIncludes
<1>2. ASSUME I # {} PROVE Min(I) \in 1 .. Len(list) /\ list[Min(I)].node = n
  <2>1. I \in SUBSET Nat
    OBVIOUS
  <2> QED
    BY <1>2, <2>1, MinIsLeast
<1>3. \A i \in 1 .. Len(list) : list[i] = [node |-> list[i].node, include |-> list[i].include]
                                /\ list[i].include \in BOOLEAN
  <2>1. \A i \in 1 .. Len(list) : list[i] \in Entry
    OBVIOUS
  <2>2. \A e \in Entry : e = [node |-> e.node, include |-> e.include] /\ e.include \in BOOLEAN
    BY DEF Entry
  <2> QED
    BY <2>1, <2>2
<1>4. Contains(list, Including(n)) => I # {}
  BY DEF Contains, Including
<1> HIDE DEF I
<1>5. ASSUME FirstIncludes(list, n) PROVE Contains(list, Including(n))
  <2>1. Min(I) \in 1 .. Len(list) /\ list[Min(I)].node = n /\ list[Min(I)].include
    BY <1>1, <1>2, <1>5
  <2>2. list[Min(I)] = Including(n)
    BY <1>3, <2>1 DEF Including
  <2> QED
    BY <2>1, <2>2 DEF Contains
<1>6. ASSUME Contains(list, Including(n)), ~ Excluded(list, n) PROVE FirstIncludes(list, n)
  <2>1. I # {}
    BY <1>4, <1>6
  <2>2. Min(I) \in 1 .. Len(list) /\ list[Min(I)].node = n
    BY <1>2, <2>1
  <2>3. CASE list[Min(I)].include
    BY <1>1, <2>1, <2>3
  <2>4. CASE ~ list[Min(I)].include
    <3>1. list[Min(I)] = [node |-> n, include |-> FALSE]
      BY <1>3, <2>2, <2>4
    <3>2. Excluded(list, n)
      BY <2>2, <3>1 DEF Excluded, Contains
    <3> QED
      BY <1>6, <3>2
  <2> QED
    BY <2>3, <2>4
<1> QED
  BY <1>5, <1>6

\* What is dropped while counting is at most the entry that includes the node;
\* and it is, when that is not the one counted and is not excluded.
LEMMA WithoutRedundantProperties ==
  ASSUME NEW list \in Seq(Entry), Sorted(list, Key), NEW n \in Nodes
  PROVE  LET new == WithoutRedundant(list, n)
         IN  /\ new \in Seq(Entry) /\ Sorted(new, Key)
             /\ \A x : x # Including(n) => (Contains(new, x) <=> Contains(list, x))
             /\ Contains(new, Including(n)) => Contains(list, Including(n))
             /\ n = top => new = list
             /\ n # top /\ ~ Excluded(list, n) => ~ Contains(new, Including(n))
             /\ \A m \in Nodes : Excluded(new, m) <=> Excluded(list, m)
<1> DEFINE new == WithoutRedundant(list, n)
<1>1. CASE n # top /\ FirstIncludes(list, n)
  <2>1. new = RemoveEntry(list, Including(n))
    BY <1>1 DEF WithoutRedundant, Including
  <2>2. /\ new \in Seq(Entry) /\ Sorted(new, Key)
        /\ \A x : Contains(new, x) <=> Contains(list, x) /\ x # Including(n)
    <3> HIDE DEF new
    <3> QED
      BY <2>1, RemoveEntryProperties
  <2> HIDE DEF new
  <2>3. \A m \in Nodes : Excluded(new, m) <=> Excluded(list, m)
    <3>1. \A m : [node |-> m, include |-> FALSE] # Including(n)
      BY DEF Including
    <3> QED
      BY <2>2, <3>1 DEF Excluded
  <2> QED
    BY <1>1, <2>2, <2>3 DEF new
<1>2. CASE ~ (n # top /\ FirstIncludes(list, n))
  <2>1. new = list
    BY <1>2 DEF WithoutRedundant
  <2>2. n # top /\ ~ Excluded(list, n) => ~ Contains(list, Including(n))
    BY <1>2, FirstIncludesProperties
  <2> HIDE DEF new
  <2> QED
    BY <2>1, <2>2 DEF new
<1> QED
  BY <1>1, <1>2

\* A click adds or removes an entry of the node, or removes another.
LEMMA ToggledProperties ==
  ASSUME NEW list \in Seq(Entry), Sorted(list, Key), NEW n \in Nodes
  PROVE  LET new == Toggled(list, n)
         IN  /\ new \in Seq(Entry) /\ Sorted(new, Key)
             /\ \A x : Contains(new, x) => Contains(list, x) \/ x.node = n
<1> DEFINE state == Shown(list, 0)
           own   == IF n = Root THEN state[n].match # NULL
                    ELSE state[Parent[n]].match # state[n].match
           e     == [node |-> n, include |-> ~ state[n].included]
           new   == Toggled(list, n)
<1>1. e \in Entry
  <2>1. state[n].included \in BOOLEAN
    <3>1. state \in [Nodes -> NodeState]
      BY ShownProperties
    <3>2. state[n] \in NodeState
      BY <3>1
    <3> QED
      BY <3>2 DEF NodeState
  <2> QED
    BY <2>1 DEF Entry
<1>2. new = IF own THEN RemoveEntry(list, list[state[n].match.pos]) ELSE AddEntry(list, e)
  BY DEF Toggled
<1>3. e.node = n
  OBVIOUS
<1> DEFINE gone == list[state[n].match.pos]
<1> HIDE DEF own, e, new, state, gone
<1>4. CASE own
  <2>1. new = RemoveEntry(list, gone)
    BY <1>2, <1>4 DEF gone
  <2>2. /\ new \in Seq(Entry) /\ Sorted(new, Key)
        /\ \A x : Contains(new, x) => Contains(list, x)
    BY <2>1, RemoveEntryProperties
  <2> QED
    BY <2>2 DEF new
<1>5. CASE ~ own
  <2>1. new = AddEntry(list, e)
    BY <1>2, <1>5
  <2>2. /\ new \in Seq(Entry) /\ Sorted(new, Key)
        /\ \A x : Contains(new, x) => Contains(list, x) \/ x = e
    BY <1>1, <2>1, AddEntryProperties
  <2> QED
    BY <1>3, <2>2 DEF new
<1> QED
  BY <1>4, <1>5

\* no node of the list is below another, and none comes twice
Apart(s) == \A i, j \in 1 .. Len(s) : i # j => s[i] \notin Subtree(s[j])

\* That is so of what is left when the first is taken off, which is not below
\* any of those, nor any of them below it.
LEMMA ApartTail ==
  ASSUME NEW s \in Seq(Nodes), s # <<>>, Apart(s)
  PROVE  /\ Apart(Tail(s))
         /\ \A k : Contains(Tail(s), k) => k \notin Subtree(Head(s)) /\ Head(s) \notin Subtree(k)
<1> DEFINE t == Tail(s)
<1>1. /\ Len(s) \in Nat /\ Len(s) >= 1 /\ Len(t) = Len(s) - 1 /\ Head(s) = s[1]
      /\ \A i \in 1 .. Len(s) - 1 : t[i] = s[i + 1]
  BY TailProperties
<1> HIDE DEF t
<1>2. \A i \in 1 .. Len(t) : i + 1 \in 1 .. Len(s) /\ t[i] = s[i + 1] /\ i + 1 # 1
  BY <1>1
<1>3. ASSUME NEW i \in 1 .. Len(t), NEW j \in 1 .. Len(t), i # j PROVE t[i] \notin Subtree(t[j])
  <2>1. i + 1 \in 1 .. Len(s) /\ j + 1 \in 1 .. Len(s) /\ i + 1 # j + 1
    BY <1>2, <1>3
  <2>2. s[i + 1] \notin Subtree(s[j + 1])
    BY <2>1 DEF Apart
  <2> QED
    BY <1>2, <2>2
<1>4. ASSUME NEW k, Contains(t, k) PROVE k \notin Subtree(Head(s)) /\ Head(s) \notin Subtree(k)
  <2>1. PICK i \in 1 .. Len(t) : t[i] = k
    BY <1>4 DEF Contains
  <2>2. i + 1 \in 1 .. Len(s) /\ s[i + 1] = k /\ 1 \in 1 .. Len(s) /\ i + 1 # 1
    BY <1>1, <1>2, <2>1
  <2>3. s[i + 1] \notin Subtree(s[1]) /\ s[1] \notin Subtree(s[i + 1])
    BY <2>2 DEF Apart
  <2> QED
    BY <1>1, <2>2, <2>3
<1> QED
  BY <1>3, <1>4 DEF Apart, t

\* It is so of two lists together, if none of one is below one of the other.
LEMMA ApartConcat ==
  ASSUME NEW s \in Seq(Nodes), NEW t \in Seq(Nodes), Apart(s), Apart(t),
         \A a, b : Contains(s, a) /\ Contains(t, b) => a \notin Subtree(b) /\ b \notin Subtree(a)
  PROVE  Apart(s \o t)
<1> DEFINE c == s \o t
<1>1. /\ Len(c) = Len(s) + Len(t) /\ Len(s) \in Nat /\ Len(t) \in Nat
      /\ \A i \in 1 .. Len(s) + Len(t) : c[i] = IF i <= Len(s) THEN s[i] ELSE t[i - Len(s)]
  BY ConcatProperties
<1> HIDE DEF c
<1> SUFFICES ASSUME NEW i \in 1 .. Len(c), NEW j \in 1 .. Len(c), i # j
             PROVE  c[i] \notin Subtree(c[j])
  BY DEF Apart, c
<1>2. CASE i <= Len(s) /\ j <= Len(s)
  BY <1>1, <1>2 DEF Apart
<1>3. CASE i > Len(s) /\ j > Len(s)
  <2>1. i - Len(s) \in 1 .. Len(t) /\ j - Len(s) \in 1 .. Len(t) /\ i - Len(s) # j - Len(s)
    BY <1>1, <1>3
  <2>2. t[i - Len(s)] \notin Subtree(t[j - Len(s)])
    BY <2>1 DEF Apart
  <2> QED
    BY <1>1, <1>3, <2>2
<1>4. CASE i <= Len(s) /\ j > Len(s)
  <2>1. i \in 1 .. Len(s) /\ j - Len(s) \in 1 .. Len(t) /\ c[i] = s[i] /\ c[j] = t[j - Len(s)]
    BY <1>1, <1>4
  <2>2. Contains(s, c[i]) /\ Contains(t, c[j])
    BY <2>1 DEF Contains
  <2> QED
    BY <2>2
<1>5. CASE i > Len(s) /\ j <= Len(s)
  <2>1. j \in 1 .. Len(s) /\ i - Len(s) \in 1 .. Len(t) /\ c[j] = s[j] /\ c[i] = t[i - Len(s)]
    BY <1>1, <1>5
  <2>2. Contains(s, c[j]) /\ Contains(t, c[i])
    BY <2>1 DEF Contains
  <2> QED
    BY <2>2
<1> QED
  BY <1>1, <1>2, <1>3, <1>4, <1>5

\* The nodes in a directory take its place.
LEMMA ApartChildren ==
  ASSUME date \in Dates, NEW s \in Seq(Nodes), s # <<>>, Apart(s)
  PROVE  Apart(Children(Head(s)) \o Tail(s))
<1> DEFINE n == Head(s)
           t == Tail(s)
           c == Children(n)
<1>1. n \in Nodes /\ t \in Seq(Nodes) /\ Apart(t)
  BY TailProperties, ApartTail
<1>2. \A k : Contains(t, k) => k \in Nodes /\ k \notin Subtree(n) /\ n \notin Subtree(k)
  <2>1. \A k : Contains(t, k) => k \in Nodes
    BY <1>1 DEF Contains
  <2> QED
    BY <2>1, ApartTail
<1> HIDE DEF n, t
<1>3. c \in Seq(Nodes) /\ \A i, j \in 1 .. Len(c) : i # j => c[i] # c[j]
  <2>1. Stored \in SUBSET Nodes /\ c \in Seq(Stored)
    BY <1>1, StoredProperties
  <2>2. \A i, j \in 1 .. Len(c) : i # j => c[i] # c[j]
    BY <1>1, StoredProperties
  <2> HIDE DEF c
  <2> QED
    BY <2>1, <2>2
<1>4. \A a \in Nodes : Contains(c, a) => a # Root /\ Parent[a] = n
  BY <1>1, StoredProperties
<1> HIDE DEF c
<1>5. \A a : Contains(c, a) => a \in Nodes \ {Root} /\ Parent[a] = n
  BY <1>3, <1>4 DEF Contains
<1>6. Apart(c)
  <2> SUFFICES ASSUME NEW i \in 1 .. Len(c), NEW j \in 1 .. Len(c), i # j
               PROVE  c[i] \notin Subtree(c[j])
    BY DEF Apart
  <2>1. /\ c[i] \in Nodes \ {Root} /\ Parent[c[i]] = n /\ c[j] \in Nodes \ {Root} /\ Parent[c[j]] = n
        /\ c[i] # c[j]
    BY <1>3, <1>5 DEF Contains
  <2>2. c[j] \notin Ancestors[c[i]]
    BY <2>1, StoreOrder
  <2> QED
    BY <2>1, <2>2, SubtreeProperties
<1>7. ASSUME NEW a, NEW b, Contains(c, a), Contains(t, b)
      PROVE  a \notin Subtree(b) /\ b \notin Subtree(a)
  <2>1. a \in Nodes \ {Root} /\ Parent[a] = n /\ b \in Nodes /\ b \notin Subtree(n) /\ n \notin Subtree(b)
    BY <1>2, <1>5, <1>7
  <2>2. Ancestors[a] = {n} \cup Ancestors[n]
    BY <2>1, StoreTree
  <2>3. a # b
    BY <1>1, <2>1, <2>2, SubtreeProperties
  <2>4. a \notin Subtree(b)
    BY <1>1, <2>1, <2>2, <2>3, SubtreeProperties
  <2>5. b \notin Subtree(a)
    <3>1. a \in Ancestors[b] => Ancestors[a] \subseteq Ancestors[b]
      BY <2>1, StoreTree
    <3> QED
      BY <1>1, <2>1, <2>2, <2>3, <3>1, SubtreeProperties
  <2> QED
    BY <2>4, <2>5
<1> QED
  BY <1>1, <1>3, <1>6, <1>7, ApartConcat DEF n, t, c

\* Nothing is wrong with lists that are empty.
LEMMA EmptyLists == (\A S : <<>> \in Seq(S)) /\ Sorted(<<>>, Key) /\ Apart(<<>>)
  BY DEF Sorted, Apart

-----------------------------------------------------------------------------
(* The invariant.                                                          *)

\* the loop is past the entry that includes u
Past(u) == Contains(spec, Including(u)) /\ ~ Contains(entries, Including(u))

\* the node of the last entry that it is past
Current(v) ==
    /\ Past(v) /\ \A u \in Nodes : Past(u) => Rank[u] <= Rank[v]
    /\ pc = "counting" => v = top

\* the recursion has still to come to n
Unseen(n) == \E k \in Nodes : Contains(todo, k) /\ n \in Subtree(k)

Calmly == ~ history.asked /\ ~ history.unread

\* what there is in every state
ListsOK ==
    /\ date \in Dates
    /\ chosen \in Seq(Entry) /\ Sorted(chosen, Key)
    /\ \A x \in Entry : Contains(chosen, x) => x.node \in Stored
    /\ spec \in Seq(Entry) /\ Sorted(spec, Key)
    /\ entries \in Seq(Entry) /\ Sorted(entries, Key)
    /\ todo \in Seq(Stored)
    /\ restored \subseteq Files /\ made \subseteq Nodes

\* what the phases of a restore begin and end with
PhasesOK ==
    /\ pc \in {"idle", "counting", "restoring"}
    /\ pc = "idle" => todo = <<>> /\ ~ yields
    /\ pc = "counting" => restored = {} /\ made = {} /\ "exception" \notin errors
    /\ pc # "idle" => "Restore Finished" \notin errors
    /\ stop => history.asked

\* the copy has entries of the spec, and all those that exclude
CopyOK ==
    /\ pc # "idle" =>
          /\ \A x : Contains(spec, x) \/ Contains(entries, x) => Contains(chosen, x)
          /\ \A n \in Nodes : Excluded(spec, n) <=> Excluded(chosen, n)
    /\ pc = "restoring" => \A x : Contains(entries, x) => Contains(spec, x)

\* where the loop and the recursion are
WalkOK ==
    pc # "idle" =>
        /\ \A u, w \in Nodes : Past(u) /\ Contains(entries, Including(w)) => Rank[u] <= Rank[w]
        /\ todo # <<>> => \E v \in Nodes :
              Current(v) /\ \A k \in Nodes : Contains(todo, k) => Leads(v, k)
        /\ Apart(todo)

\* what was dropped is led to by something that was not
DroppedOK ==
    pc # "idle" => \A u \in Nodes :
        Contains(chosen, Including(u)) /\ ~ Contains(spec, Including(u))
        => \E w \in Nodes : w # u /\ Contains(spec, Including(w)) /\ Leads(w, u)

\* no entry leads to the node of another, as far as the counting has come
NoneRedundant ==
    /\ pc = "counting" /\ Calmly => \A u, n \in Nodes :
          Past(u) /\ n # u /\ Leads(u, n) /\ Countable(n) /\ ~ (u = top /\ Unseen(n))
          => ~ Contains(spec, Including(n))
    /\ pc = "restoring" /\ Calmly => \A u, n \in Nodes :
          Contains(spec, Including(u)) /\ n # u /\ Leads(u, n) /\ Countable(n)
          => ~ Contains(spec, Including(n))

\* the files that the counting has come to, and all there are for it
FilesSeen == {n \in Files : Countable(n) /\ \E u \in Nodes :
                 Past(u) /\ Leads(u, n) /\ ~ (u = top /\ Unseen(n))}

FilesMeant == {n \in Files : Countable(n) /\ \E u \in Nodes :
                  Contains(spec, Including(u)) /\ Leads(u, n)}

CountedOK ==
    Calmly /\ ~ history.second =>
        /\ pc = "counting" => counted = Cardinality(FilesSeen)
        /\ pc = "restoring" => counted = Cardinality(FilesMeant)

\* nothing has failed yet
GoingWell == (succeeded \/ entries # <<>>) /\ "exception" \notin errors

\* why everything in the destination is there, and what must be there
RestoredOK ==
    /\ ~ history.second => done = Cardinality(restored)
    /\ pc = "restoring" =>
       /\ \A m \in made : \E v \in Nodes :
             Past(v) /\ (m \in Ancestors[v] \/ (Leads(v, m) /\ Countable(m)))
       /\ \A m \in restored : \E v \in Nodes : Past(v) /\ Leads(v, m) /\ Countable(m)
       /\ GoingWell => \A n \in Files : \A u \in Nodes :
             Past(u) /\ Leads(u, n) /\ Countable(n) => n \in restored \/ Unseen(n)
       /\ Calmly => \A m \in restored \cup made : ~ Unseen(m)

\* the invariant; the properties that the runs check are part of it
TInv ==
    /\ IndInv
    /\ ListsOK /\ PhasesOK /\ CopyOK /\ WalkOK /\ DroppedOK /\ NoneRedundant
    /\ CountedOK /\ RestoredOK
    /\ NoDoubleRestore /\ CountIsExact

-----------------------------------------------------------------------------
(* The steps.                                                              *)

\* An empty spec, and nothing done.
LEMMA InitTInv == Init => TInv
<1> SUFFICES ASSUME Init PROVE TInv
  OBVIOUS
<1>1. /\ chosen = <<>> /\ pc = "idle" /\ yields = FALSE /\ spec = <<>> /\ entries = <<>>
      /\ todo = <<>> /\ date \in Dates /\ stop = FALSE /\ done = 0 /\ restored = {} /\ made = {}
      /\ errors = {}
  BY DEF Init
<1>2. <<>> \in Seq(Entry) /\ <<>> \in Seq(Stored) /\ Sorted(<<>>, Key)
  BY DEF Sorted
<1>3. ListsOK
  BY <1>1, <1>2, SingletonContains DEF ListsOK
<1>4. PhasesOK /\ CopyOK /\ WalkOK /\ DroppedOK /\ NoneRedundant /\ CountedOK
  BY <1>1 DEF PhasesOK, CopyOK, WalkOK, DroppedOK, NoneRedundant, CountedOK
<1>5. RestoredOK
  BY <1>1, FS_EmptySet DEF RestoredOK
<1>6. NoDoubleRestore /\ CountIsExact
  BY <1>1 DEF NoDoubleRestore, CountIsExact
<1> QED
  BY <1>3, <1>4, <1>5, <1>6, InitIndInv DEF TInv

\* The user changes the spec while nothing is restored.
LEMMA ClickKeepsTInv ==
  ASSUME TInv, NEW n \in Stored, Click(n)
  PROVE  TInv'
<1>1. /\ pc = "idle" /\ chosen' = Toggled(chosen, n)
      /\ UNCHANGED <<pc, yields, spec, date, entries, top, todo, stop, counted, done, restored,
                     made, succeeded, errors, history>>
  BY DEF Click, walk, flags, counters, disk, result
<1>2. ListsOK /\ PhasesOK /\ CopyOK /\ WalkOK /\ DroppedOK /\ NoneRedundant
      /\ CountedOK /\ RestoredOK /\ NoDoubleRestore /\ CountIsExact /\ IndInv
  BY DEF TInv
<1>3. Stored' = Stored /\ Files' = Files
  BY <1>1 DEF Stored, Files
<1>4. n \in Nodes
  BY <1>2, StoredProperties DEF ListsOK
<1>5. chosen' \in Seq(Entry) /\ Sorted(chosen', Key) /\ \A x \in Entry : Contains(chosen', x) => x.node \in Stored
  <2> DEFINE list == chosen'
  <2>1. /\ list \in Seq(Entry) /\ Sorted(list, Key)
        /\ \A x : Contains(list, x) => Contains(chosen, x) \/ x.node = n
    BY <1>1, <1>2, <1>4, ToggledProperties DEF ListsOK
  <2> QED
    BY <1>2, <2>1 DEF ListsOK
<1>6. ListsOK'
  BY <1>1, <1>2, <1>3, <1>5 DEF ListsOK
<1>7. PhasesOK' /\ CopyOK' /\ WalkOK' /\ DroppedOK' /\ NoneRedundant' /\ CountedOK'
  BY <1>1, <1>2 DEF PhasesOK, CopyOK, WalkOK, DroppedOK, NoneRedundant, CountedOK
<1>8. RestoredOK' /\ NoDoubleRestore' /\ CountIsExact'
  BY <1>1, <1>2 DEF RestoredOK, NoDoubleRestore, CountIsExact, StopUndone
<1>9. IndInv'
  BY <1>1, <1>2 DEF IndInv, HistoryOK, StopRemembered
<1> QED
  BY <1>6, <1>7, <1>8, <1>9 DEF TInv

\* A restore starts with a copy of the spec, and has passed no entry of it.
LEMMA StartKeepsTInv ==
  ASSUME TInv, Start
  PROVE  TInv'
<1>1. PICK d \in Dates : StoredAt[d] = Stored /\ StartTo(d)
  BY DEF Start
<1>2. /\ pc = "idle" /\ pc' = "counting" /\ stop' = FALSE /\ counted' = 0 /\ done' = 0
      /\ spec' = chosen /\ entries' = chosen /\ date' = d /\ restored' = {} /\ made' = {}
      /\ errors' = {} /\ history' = Calm
      /\ UNCHANGED <<chosen, top, todo, succeeded>>
  BY <1>1 DEF StartTo, user
<1>3. ListsOK /\ PhasesOK
  BY DEF TInv
<1>4. Stored' = Stored /\ Files' = Files /\ todo' = <<>>
  BY <1>1, <1>2, <1>3 DEF Stored, Files, PhasesOK
<1>5. ListsOK'
  BY <1>2, <1>3, <1>4 DEF ListsOK
<1>6. PhasesOK' /\ CopyOK'
  BY <1>2, <1>3 DEF PhasesOK, CopyOK, Excluded
<1>7. \A u : ~ Past(u)'
  BY <1>2 DEF Past
<1>8. WalkOK' /\ DroppedOK'
  <2>1. Apart(<<>>)
    BY DEF Apart
  <2> QED
    BY <1>2, <1>4, <1>7, <2>1 DEF WalkOK, DroppedOK
<1>9. NoneRedundant'
  BY <1>2, <1>7 DEF NoneRedundant
<1>10. CountedOK' /\ RestoredOK'
  <2>1. FilesSeen' = {}
    BY <1>7 DEF FilesSeen
  <2> QED
    BY <1>2, <2>1, FS_EmptySet DEF CountedOK, RestoredOK
<1>11. NoDoubleRestore' /\ CountIsExact' /\ IndInv'
  BY <1>2 DEF NoDoubleRestore, CountIsExact, IndInv, HistoryOK, StopRemembered, Calm
<1> QED
  BY <1>5, <1>6, <1>8, <1>9, <1>10, <1>11 DEF TInv

\* What is asked for or started meanwhile leaves the walk alone.
LEMMA FlagsKeepTInv ==
  ASSUME TInv, Stop \/ SecondRestore
  PROVE  TInv'
<1>1. /\ UNCHANGED <<chosen, pc, yields, spec, date, entries, top, todo, restored, made,
                     succeeded, errors>>
      /\ pc # "idle"
      /\ \/ /\ stop' = TRUE /\ history' = [history EXCEPT !.asked = TRUE]
            /\ UNCHANGED <<counted, done>>
         \/ stop' = FALSE /\ history' = [history EXCEPT !.second = TRUE]
  BY DEF Stop, SecondRestore, user, walk, counters, disk, result, TInv, PhasesOK
<1>2. ListsOK /\ PhasesOK /\ CopyOK /\ WalkOK /\ DroppedOK /\ NoneRedundant
      /\ CountedOK /\ RestoredOK /\ NoDoubleRestore /\ CountIsExact /\ IndInv
  BY DEF TInv
<1>3. /\ history' = [asked |-> history'.asked, second |-> history'.second,
                     unread |-> history.unread, failed |-> history.failed]
      /\ history'.unread = history.unread
      /\ \/ stop' = TRUE /\ history'.asked = TRUE /\ history'.second = history.second
            /\ counted' = counted /\ done' = done
         \/ stop' = FALSE /\ history'.asked = history.asked /\ history'.second = TRUE
  BY <1>1, <1>2 DEF IndInv, HistoryOK
<1>4. /\ Calmly' => Calmly
      /\ ~ history'.second => ~ history.second /\ counted' = counted /\ done' = done
  BY <1>2, <1>3 DEF Calmly, IndInv, HistoryOK
<1>5. IndInv'
  BY <1>2, <1>3 DEF IndInv, HistoryOK, StopRemembered
<1>6. /\ Stored' = Stored /\ Files' = Files
      /\ \A n \in Nodes : Countable(n)' <=> Countable(n)
      /\ \A u, n \in Nodes : Leads(u, n)' <=> Leads(u, n)
  BY <1>1, LeadsSame
<1>7. ListsOK' /\ CopyOK'
  BY <1>1, <1>2, <1>6 DEF ListsOK, CopyOK
<1>8. PhasesOK'
  BY <1>1, <1>2, <1>3 DEF PhasesOK
<1>9. WalkOK' /\ DroppedOK'
  BY <1>1, <1>2 DEF WalkOK, DroppedOK, Past, Current, Leads, Countable, Missing, Stored
<1>10. NoneRedundant'
  BY <1>1, <1>2, <1>4 DEF NoneRedundant, Past, Unseen, Leads, Countable, Missing, Stored
<1>11. CountedOK'
  <2>1. FilesSeen' = FilesSeen /\ FilesMeant' = FilesMeant
    BY <1>1 DEF FilesSeen, FilesMeant, Past, Unseen, Leads, Countable, Missing, Stored, Files
  <2> QED
    BY <1>1, <1>2, <1>4, <2>1 DEF CountedOK
<1>12. RestoredOK'
  BY <1>1, <1>2, <1>4 DEF RestoredOK, Past, Unseen, Leads, Countable, Missing, Stored, Files, GoingWell
<1>13. NoDoubleRestore' /\ CountIsExact'
  BY <1>1, <1>2, <1>3 DEF NoDoubleRestore, CountIsExact, StopUndone, IndInv, HistoryOK
<1> QED
  BY <1>5, <1>7, <1>8, <1>9, <1>10, <1>11, <1>12, <1>13 DEF TInv

\* A step that changes nothing.
LEMMA StutterKeepsTInv ==
  ASSUME TInv, UNCHANGED vars
  PROVE  TInv'
<1>1. UNCHANGED <<chosen, pc, yields, spec, date, entries, top, todo, stop, counted, done,
                  restored, made, succeeded, errors, history>>
  BY DEF vars, user, walk, flags, counters, disk, result
<1>2. ListsOK /\ PhasesOK /\ CopyOK /\ WalkOK /\ DroppedOK /\ NoneRedundant
      /\ CountedOK /\ RestoredOK /\ NoDoubleRestore /\ CountIsExact /\ IndInv
  BY DEF TInv
<1>3. IndInv' /\ ListsOK' /\ PhasesOK' /\ CopyOK'
  BY <1>1, <1>2 DEF IndInv, HistoryOK, StopRemembered, ListsOK, PhasesOK, CopyOK, Stored, Files
<1>4. WalkOK' /\ DroppedOK'
  BY <1>1, <1>2 DEF WalkOK, DroppedOK, Past, Current, Leads, Countable, Missing, Stored
<1>5. NoneRedundant'
  BY <1>1, <1>2 DEF NoneRedundant, Calmly, Past, Unseen, Leads, Countable, Missing, Stored
<1>6. CountedOK'
  <2>1. FilesSeen' = FilesSeen /\ FilesMeant' = FilesMeant
    BY <1>1 DEF FilesSeen, FilesMeant, Past, Unseen, Leads, Countable, Missing, Stored, Files
  <2> QED
    BY <1>1, <1>2, <2>1 DEF CountedOK, Calmly
<1>7. RestoredOK'
  BY <1>1, <1>2 DEF RestoredOK, Calmly, Past, Unseen, Leads, Countable, Missing, Stored, Files,
                    GoingWell
<1>8. NoDoubleRestore' /\ CountIsExact'
  BY <1>1, <1>2 DEF NoDoubleRestore, CountIsExact, StopUndone
<1> QED
  BY <1>3, <1>4, <1>5, <1>6, <1>7, <1>8 DEF TInv

\* An entry that includes is the one that includes its node.
LEMMA EntryIncludes ==
  ASSUME NEW e \in Entry
  PROVE  /\ e.node \in Nodes
         /\ e.include => e = Including(e.node)
         /\ \A u : e = Including(u) => e.include /\ e.node = u
         /\ \A u : Including(u).node = u
  BY DEF Entry, Including

\* The next entry is counted, unless it has been dropped.
LEMMA CountEntryKeepsTInv ==
  ASSUME TInv, CountEntry
  PROVE  TInv'
<1>0. PICK e, v : e = Head(entries) /\ v = e.node
  OBVIOUS
<1> DEFINE taken == e.include /\ Contains(spec, e)
<1>1. /\ pc = "counting" /\ todo = <<>> /\ entries # <<>> /\ entries' = Tail(entries)
      /\ taken => top' = v /\ todo' = <<v>>
      /\ ~ taken => top' = top /\ todo' = todo
      /\ yields' = FALSE
      /\ UNCHANGED <<chosen, pc, spec, date, stop, counted, done, restored, made, succeeded,
                     errors, history>>
  BY <1>0 DEF CountEntry, user, flags, counters, disk, result
<1>2. ListsOK /\ PhasesOK /\ CopyOK /\ WalkOK /\ DroppedOK /\ NoneRedundant
      /\ CountedOK /\ RestoredOK /\ NoDoubleRestore /\ CountIsExact /\ IndInv
  BY DEF TInv
<1>3. /\ e \in Entry /\ entries' \in Seq(Entry) /\ Sorted(entries', Key)
      /\ \A x : Contains(entries, x) <=> x = e \/ Contains(entries', x)
      /\ ~ Contains(entries', e)
      /\ \A x : Contains(entries', x) => Key[e] <= Key[x]
  BY <1>0, <1>1, <1>2, TailProperties, TailSorted DEF ListsOK
<1>4. v \in Nodes /\ (taken => e = Including(v)) /\ \A u : e = Including(u) => e.include /\ v = u
  BY <1>0, <1>3, EntryIncludes
<1>5. /\ Stored' = Stored /\ Files' = Files
      /\ \A n \in Nodes : Countable(n)' <=> Countable(n)
      /\ \A u, n \in Nodes : Leads(u, n)' <=> Leads(u, n)
  BY <1>1, LeadsSame
<1>6. \A n : ~ Unseen(n)
  BY <1>1, SingletonContains DEF Unseen
<1>7. taken => \A n : Unseen(n)' <=> n \in Subtree(v)
  BY <1>1, <1>4, SingletonContains DEF Unseen
<1>8. ~ taken => \A n : ~ Unseen(n)'
  BY <1>1, SingletonContains DEF Unseen
<1>9. \A u \in Nodes : Past(u)' <=> Past(u) \/ (taken /\ u = v)
  BY <1>1, <1>3, <1>4 DEF Past
<1>10. taken => Past(v)' /\ ~ Past(v)
  BY <1>1, <1>3, <1>4 DEF Past
<1>11. ListsOK'
  <2>1. todo' \in Seq(Stored)
    <3>1. CASE taken
      <4>1. Contains(chosen, e)
        BY <1>1, <1>2, <3>1 DEF CopyOK
      <4>2. v \in Stored
        BY <1>0, <1>2, <1>3, <4>1 DEF ListsOK
      <4>3. <<v>> \in Seq(Stored)
        BY <4>2
      <4>4. todo' = <<v>>
        BY <1>1, <3>1
      <4> QED
        BY <4>3, <4>4
    <3>2. CASE ~ taken
      BY <1>1, <1>2, <3>2 DEF ListsOK
    <3> QED
      BY <3>1, <3>2
  <2> QED
    BY <1>1, <1>2, <1>3, <1>5, <2>1 DEF ListsOK
<1>12. PhasesOK' /\ CopyOK'
  BY <1>1, <1>2, <1>3 DEF PhasesOK, CopyOK
<1>13. \A u \in Nodes : Past(u)' => \A w \in Nodes : Contains(entries', Including(w)) => Rank[u] <= Rank[w]
  <2> SUFFICES ASSUME NEW u \in Nodes, Past(u)', NEW w \in Nodes, Contains(entries', Including(w))
               PROVE  Rank[u] <= Rank[w]
    OBVIOUS
  <2>1. CASE Past(u)
    BY <1>1, <1>2, <1>3, <2>1 DEF WalkOK
  <2>2. CASE taken /\ u = v
    <3>1. Including(w) \in Entry /\ Including(w).node = w
      BY DEF Including, Entry
    <3>2. Key[e] = Rank[v] /\ Key[Including(w)] = Rank[w]
      BY <1>0, <1>3, <3>1 DEF Key
    <3> QED
      BY <1>3, <2>2, <3>2
  <2> QED
    BY <1>9, <2>1, <2>2
<1>14. taken => \A u \in Nodes : Past(u)' => Rank[u] <= Rank[v]
  <2>1. Rank[v] <= Rank[v]
    BY <1>4, StoreAssumption
  <2>2. taken => \A u \in Nodes : Past(u) => Rank[u] <= Rank[v]
    BY <1>1, <1>2, <1>3, <1>4 DEF WalkOK
  <2> QED
    BY <1>9, <2>1, <2>2
<1>15. WalkOK'
  <2>1. Apart(todo')
    BY <1>1, <1>2 DEF Apart, WalkOK
  <2>2. todo' # <<>> => taken
    BY <1>1
  <2>3. taken => Current(v)'
    BY <1>1, <1>10, <1>14 DEF Current
  <2>4. taken => \A k \in Nodes : Contains(todo', k) => Leads(v, k)'
    <3>1. taken => \A k : Contains(todo', k) => k = v
      BY <1>1, SingletonContains
    <3> QED
      BY <1>4, <1>5, <3>1, LeadsSelf
  <2> QED
    BY <1>4, <1>13, <2>1, <2>2, <2>3, <2>4 DEF WalkOK
<1>16. DroppedOK'
  BY <1>1, <1>2, <1>5 DEF DroppedOK
<1>17. taken => \A n \in Nodes : Leads(v, n) => n \in Subtree(v)
  BY <1>4, SubtreeProperties DEF Leads
<1>18. NoneRedundant'
  <2> SUFFICES ASSUME Calmly, NEW u \in Nodes, NEW n \in Nodes, Past(u)', n # u, Leads(u, n),
                      Countable(n), ~ (u = top' /\ Unseen(n)')
               PROVE  ~ Contains(spec, Including(n))
    BY <1>1, <1>5 DEF NoneRedundant, Calmly
  <2>1. CASE Past(u)
    BY <1>1, <1>2, <1>6, <2>1 DEF NoneRedundant
  <2>2. CASE taken /\ u = v
    BY <1>1, <1>7, <1>17, <2>2
  <2> QED
    BY <1>9, <2>1, <2>2
<1>19. CountedOK'
  <2>1. FilesSeen' = FilesSeen
    <3>1. Files \subseteq Nodes
      BY <1>2, StoredProperties DEF ListsOK, Files
    <3>2. \A n \in Nodes : \A u \in Nodes :
             Past(u)' /\ Leads(u, n) /\ ~ (u = top' /\ Unseen(n)')
             <=> Past(u) /\ Leads(u, n) /\ ~ (u = top /\ Unseen(n))
      BY <1>1, <1>6, <1>7, <1>8, <1>9, <1>10, <1>17
    <3> QED
      BY <1>5, <3>1, <3>2 DEF FilesSeen
  <2> QED
    BY <1>1, <1>2, <2>1 DEF CountedOK, Calmly
<1>20. RestoredOK' /\ NoDoubleRestore' /\ CountIsExact' /\ IndInv'
  BY <1>1, <1>2 DEF RestoredOK, NoDoubleRestore, CountIsExact, StopUndone, IndInv, HistoryOK,
                    StopRemembered
<1> QED
  BY <1>11, <1>12, <1>15, <1>16, <1>18, <1>19, <1>20 DEF TInv

\* At the end of the counting everything that is left in the copy was counted.
LEMMA CountingEndsKeepsTInv ==
  ASSUME TInv, CountingEnds
  PROVE  TInv'
<1>1. /\ pc = "counting" /\ todo = <<>> /\ entries = <<>> /\ pc' = "restoring" /\ entries' = spec
      /\ UNCHANGED <<chosen, spec, date, top, todo, stop, counted, done, restored, made,
                     errors, history>>
  BY DEF CountingEnds, user, flags, counters, disk
<1>2. ListsOK /\ PhasesOK /\ CopyOK /\ WalkOK /\ DroppedOK /\ NoneRedundant
      /\ CountedOK /\ RestoredOK /\ NoDoubleRestore /\ CountIsExact /\ IndInv
  BY DEF TInv
<1>3. /\ Stored' = Stored /\ Files' = Files
      /\ \A n \in Nodes : Countable(n)' <=> Countable(n)
      /\ \A u, n \in Nodes : Leads(u, n)' <=> Leads(u, n)
  BY <1>1, LeadsSame
<1>4. \A n : ~ Unseen(n) /\ ~ Unseen(n)'
  BY <1>1, SingletonContains DEF Unseen
<1>5. \A u : ~ Past(u)' /\ (Past(u) <=> Contains(spec, Including(u)))
  BY <1>1, SingletonContains DEF Past
<1>6. ListsOK' /\ PhasesOK' /\ CopyOK'
  BY <1>1, <1>2, <1>3 DEF ListsOK, PhasesOK, CopyOK
<1>7. WalkOK' /\ DroppedOK'
  BY <1>1, <1>2, <1>3, <1>5 DEF WalkOK, DroppedOK, Apart
<1>8. NoneRedundant'
  BY <1>1, <1>2, <1>3, <1>4, <1>5 DEF NoneRedundant, Calmly
<1>9. CountedOK'
  <2>1. FilesMeant' = FilesSeen
    <3>1. Files \subseteq Nodes
      BY <1>2, StoredProperties DEF ListsOK, Files
    <3> QED
      BY <1>1, <1>3, <1>4, <1>5, <3>1 DEF FilesSeen, FilesMeant
  <2> QED
    BY <1>1, <1>2, <2>1 DEF CountedOK, Calmly
<1>10. RestoredOK'
  BY <1>1, <1>2, <1>5 DEF RestoredOK, PhasesOK
<1>11. NoDoubleRestore' /\ CountIsExact' /\ IndInv'
  BY <1>1, <1>2 DEF NoDoubleRestore, CountIsExact, StopUndone, IndInv, HistoryOK, StopRemembered
<1> QED
  BY <1>6, <1>7, <1>8, <1>9, <1>10, <1>11 DEF TInv

\* What an entry leads to below the next node that is to be visited is in the
\* listing of that node, or below a node of it.
LEMMA HeadSeen ==
  ASSUME date \in Dates, NEW n \in Nodes, NEW v \in Nodes, Leads(v, n),
         NEW u \in Nodes, Rank[u] <= Rank[v], NEW x \in Nodes, Leads(u, x),
         x \in Subtree(n), x # n
  PROVE  /\ Countable(n) /\ n \in Dirs
         /\ \E c \in Nodes : Contains(Children(n), c) /\ x \in Subtree(c)
<1>1. n \notin Ancestors[u]
  <2>1. Rank[n] \in Nat /\ Rank[u] \in Nat /\ Rank[v] \in Nat
    BY StoreAssumption
  <2>2. v \in {n} \cup Ancestors[n]
    BY DEF Leads
  <2>3. Rank[v] <= Rank[n]
    BY <2>1, <2>2, StoreOrder
  <2>4. n \in Ancestors[u] => Rank[n] < Rank[u]
    BY StoreOrder
  <2> QED
    BY <2>1, <2>3, <2>4
<1>2. x \in Below(n)
  BY DEF Subtree
<1>3. /\ Countable(n) /\ n \in Dirs
      /\ \E c \in Nodes \ {Root} : Parent[c] = n /\ c \in Stored /\ x \in Subtree(c)
  BY <1>1, <1>2, LeadsPast
<1> QED
  BY <1>3, StoredProperties

\* The list of nodes still to be visited, when the first is taken off and the
\* nodes in it are put in its place or are not.
LEMMA TodoNext ==
  ASSUME date \in Dates, todo \in Seq(Stored), todo # <<>>, Apart(todo),
         NEW listed \in BOOLEAN,
         NEW next, next = IF listed THEN Children(Head(todo)) \o Tail(todo) ELSE Tail(todo)
  PROVE  /\ Head(todo) \in Stored /\ Head(todo) \in Nodes
         /\ next \in Seq(Stored) /\ Apart(next)
         /\ \A k \in Nodes : Contains(next, k) <=>
               \/ Contains(Tail(todo), k)
               \/ listed /\ Contains(Children(Head(todo)), k)
         /\ \A x \in Nodes : Unseen(x) <=>
               \/ x \in Subtree(Head(todo))
               \/ \E k \in Nodes : Contains(Tail(todo), k) /\ x \in Subtree(k)
         /\ \A k \in Nodes : Contains(next, k) => Head(todo) \notin Subtree(k)
         /\ \A k \in Nodes : Contains(next, k) => \A x \in Subtree(k) : Unseen(x)
<1>1. PICK n, t : n = Head(todo) /\ t = Tail(todo)
  OBVIOUS
<1>2. Stored \in SUBSET Nodes
  BY StoredProperties
<1>3. todo \in Seq(Nodes)
  BY <1>2
<1>4. /\ n \in Stored /\ n \in Nodes /\ t \in Seq(Stored) /\ t \in Seq(Nodes)
      /\ \A k : Contains(todo, k) <=> k = n \/ Contains(t, k)
  BY <1>1, <1>2, <1>3, TailProperties
<1>5. Apart(t) /\ \A k : Contains(t, k) => k \notin Subtree(n) /\ n \notin Subtree(k)
  BY <1>1, <1>3, ApartTail
<1>6. Children(n) \in Seq(Stored)
  BY <1>4, StoredProperties
<1>7. /\ next \in Seq(Stored) /\ Apart(next)
      /\ \A k : Contains(next, k) <=> Contains(t, k) \/ (listed /\ Contains(Children(n), k))
  <2>1. CASE listed
    <3>1. next = Children(n) \o t
      BY <1>1, <2>1
    <3>2. Apart(Children(n) \o t)
      BY <1>1, <1>3, ApartChildren
    <3>3. /\ Children(n) \o t \in Seq(Stored)
          /\ \A k : Contains(Children(n) \o t, k) <=> Contains(Children(n), k) \/ Contains(t, k)
      BY <1>4, <1>6, ConcatContains
    <3> QED
      BY <2>1, <3>1, <3>2, <3>3
  <2>2. CASE ~ listed
    BY <1>1, <1>4, <1>5, <2>2
  <2> QED
    BY <2>1, <2>2
<1>8. \A x \in Nodes : Unseen(x) <=>
          x \in Subtree(n) \/ \E k \in Nodes : Contains(t, k) /\ x \in Subtree(k)
  BY <1>4 DEF Unseen
<1>9. \A k \in Nodes : Contains(Children(n), k) => k # Root /\ Parent[k] = n
  BY <1>4, StoredProperties
<1>10. \A k \in Nodes : Contains(Children(n), k) => n \notin Subtree(k) /\ Subtree(k) \subseteq Subtree(n)
  <2> SUFFICES ASSUME NEW k \in Nodes, k # Root, Parent[k] = n
               PROVE  n \notin Subtree(k) /\ Subtree(k) \subseteq Subtree(n)
    BY <1>9
  <2>1. n \in Ancestors[k]
    BY StoreTree
  <2>2. k \notin {n} \cup Ancestors[n]
    <3>1. k \in Ancestors[n] => Ancestors[k] \subseteq Ancestors[n]
      BY <1>4, StoreTree
    <3> QED
      BY <1>4, <2>1, <3>1, StoreTree
  <2> QED
    BY <1>4, <2>1, <2>2, SubtreeProperties
<1>11. \A k \in Nodes : Contains(next, k) => n \notin Subtree(k)
  BY <1>5, <1>7, <1>10
<1>12. ASSUME NEW k \in Nodes, Contains(next, k), NEW x \in Subtree(k) PROVE Unseen(x)
  <2>1. x \in Nodes
    BY <1>12, SubtreeProperties
  <2> QED
    BY <1>7, <1>8, <1>10, <1>12, <2>1
<1> QED
  BY <1>1, <1>4, <1>7, <1>8, <1>11, <1>12

\* One node is counted: its entry is dropped if something leads to it, and the
\* nodes in it are to be counted next.
LEMMA CountNodeKeepsTInv ==
  ASSUME TInv, CountNode
  PROVE  TInv'
<1>1. PICK n : n = Head(todo)
  OBVIOUS
<1> DEFINE counts == ~ stop /\ Countable(n)
<1>2. /\ pc = "counting" /\ todo # <<>>
      /\ spec' = IF stop \/ n \in Absent[date] THEN spec ELSE WithoutRedundant(spec, n)
      /\ counted' = IF counts /\ n \in Files THEN counted + 1 ELSE counted
      /\ UNCHANGED <<chosen, pc, date, entries, top, stop, done, restored, made, succeeded, errors>>
  BY <1>1 DEF CountNode, user, flags, disk, result
<1>3. ListsOK /\ PhasesOK /\ CopyOK /\ WalkOK /\ DroppedOK /\ NoneRedundant
      /\ CountedOK /\ RestoredOK /\ NoDoubleRestore /\ CountIsExact /\ IndInv
  BY DEF TInv
<1>4. PICK listed \in BOOLEAN :
         /\ todo' = IF listed THEN Children(n) \o Tail(todo) ELSE Tail(todo)
         /\ listed => counts /\ n \in Dirs /\ history' = history
         /\ ~ listed /\ counts /\ n \in Dirs => history' = [history EXCEPT !.unread = TRUE]
         /\ history' = history \/ history' = [history EXCEPT !.unread = TRUE]
  <2>1. Tail(todo) \in Seq(Stored)
    BY <1>2, <1>3, TailProperties DEF ListsOK
  <2>2. <<>> \o Tail(todo) = Tail(todo)
    BY <2>1
  <2>3. CASE counts /\ n \in Dirs
    <3>1. \/ todo' = Children(n) \o Tail(todo) /\ history' = history
          \/ todo' = Tail(todo) /\ history' = [history EXCEPT !.unread = TRUE]
      BY <1>1, <2>3 DEF CountNode
    <3>2. CASE todo' = Children(n) \o Tail(todo) /\ history' = history
      BY <2>3, <3>2
    <3>3. CASE todo' = Tail(todo) /\ history' = [history EXCEPT !.unread = TRUE]
      BY <2>3, <3>3
    <3> QED
      BY <3>1, <3>2, <3>3
  <2>4. CASE ~ (counts /\ n \in Dirs)
    <3>1. todo' = <<>> \o Tail(todo) /\ history' = history
      BY <1>1, <2>4 DEF CountNode
    <3> QED
      BY <2>2, <2>4, <3>1
  <2> QED
    BY <2>3, <2>4
<1> HIDE DEF counts
<1>5. /\ n \in Stored /\ n \in Nodes /\ todo' \in Seq(Stored) /\ Apart(todo')
      /\ \A k \in Nodes : Contains(todo', k) <=>
            Contains(Tail(todo), k) \/ (listed /\ Contains(Children(n), k))
      /\ \A x \in Nodes : Unseen(x) <=>
            x \in Subtree(n) \/ \E k \in Nodes : Contains(Tail(todo), k) /\ x \in Subtree(k)
      /\ \A k \in Nodes : Contains(todo', k) => n \notin Subtree(k)
      /\ \A k \in Nodes : Contains(todo', k) => \A x \in Subtree(k) : Unseen(x)
  BY <1>1, <1>2, <1>3, <1>4, TodoNext DEF ListsOK, WalkOK
<1>6. /\ spec' \in Seq(Entry) /\ Sorted(spec', Key)
      /\ \A x : x # Including(n) => (Contains(spec', x) <=> Contains(spec, x))
      /\ Contains(spec', Including(n)) => Contains(spec, Including(n))
      /\ n = top => spec' = spec
      /\ n # top /\ counts => ~ Contains(spec', Including(n))
      /\ \A m \in Nodes : Excluded(spec', m) <=> Excluded(spec, m)
  <2>1. CASE stop \/ n \in Absent[date]
    <3>1. spec' = spec /\ ~ counts
      BY <1>2, <2>1 DEF counts, Countable, Missing
    <3> QED
      BY <1>3, <3>1 DEF ListsOK
  <2>2. CASE ~ (stop \/ n \in Absent[date])
    <3> DEFINE new == WithoutRedundant(spec, n)
    <3>1. /\ new \in Seq(Entry) /\ Sorted(new, Key)
          /\ \A x : x # Including(n) => (Contains(new, x) <=> Contains(spec, x))
          /\ Contains(new, Including(n)) => Contains(spec, Including(n))
          /\ n = top => new = spec
          /\ n # top /\ ~ Excluded(spec, n) => ~ Contains(new, Including(n))
          /\ \A m \in Nodes : Excluded(new, m) <=> Excluded(spec, m)
      BY <1>3, <1>5, WithoutRedundantProperties DEF ListsOK
    <3>2. spec' = new
      BY <1>2, <2>2
    <3>3. counts => ~ Excluded(spec, n)
      BY DEF counts, Countable
    <3> HIDE DEF new
    <3> QED
      BY <3>1, <3>2, <3>3
  <2> QED
    BY <2>1, <2>2
<1>7. \A u : Including(u) = Including(n) => u = n
  <2>1. \A u : Including(u).node = u
    BY DEF Including
  <2> QED
    BY <2>1
<1>8. /\ Stored' = Stored /\ Files' = Files
      /\ \A k \in Nodes : Countable(k)' <=> Countable(k)
      /\ \A u, k \in Nodes : Leads(u, k)' <=> Leads(u, k)
  BY <1>2, <1>6, LeadsSame
<1>9. /\ top \in Nodes /\ Past(top) /\ \A u \in Nodes : Past(u) => Rank[u] <= Rank[top]
      /\ \A k \in Nodes : Contains(todo, k) => Leads(top, k)
  <2>1. PICK v \in Nodes : Current(v) /\ \A k \in Nodes : Contains(todo, k) => Leads(v, k)
    BY <1>2, <1>3 DEF WalkOK
  <2>2. v = top
    BY <1>2, <2>1 DEF Current
  <2> QED
    BY <2>1, <2>2 DEF Current
<1>10. \A k : Contains(todo, k) <=> k = n \/ Contains(Tail(todo), k)
  BY <1>1, <1>2, <1>3, TailProperties DEF ListsOK
<1>11. Leads(top, n) /\ (Past(n) => n = top)
  <2>1. Leads(top, n)
    BY <1>5, <1>9, <1>10
  <2>2. n # top => Rank[top] < Rank[n]
    BY <1>5, <2>1, StoreOrder DEF Leads
  <2>3. Rank[top] \in Nat /\ Rank[n] \in Nat
    BY <1>5, <1>9, StoreAssumption
  <2> QED
    BY <1>5, <1>9, <2>1, <2>2, <2>3
<1>12. \A u \in Nodes : Past(u)' <=> Past(u)
  <2> SUFFICES ASSUME NEW u \in Nodes PROVE Past(u)' <=> Past(u)
    OBVIOUS
  <2>1. CASE u # n
    BY <1>2, <1>6, <1>7, <2>1 DEF Past
  <2>2. CASE u = n /\ n = top
    BY <1>2, <1>6, <2>2 DEF Past
  <2>3. CASE u = n /\ n # top
    BY <1>2, <1>6, <1>11, <2>3 DEF Past
  <2> QED
    BY <2>1, <2>2, <2>3
<1>13. /\ history' = [asked |-> history.asked, second |-> history.second,
                      unread |-> history'.unread, failed |-> history.failed]
       /\ history'.asked = history.asked /\ history'.second = history.second
       /\ history'.unread = history.unread \/ history'.unread = TRUE
       /\ ~ listed /\ counts /\ n \in Dirs => history'.unread = TRUE
  BY <1>3, <1>4 DEF IndInv, HistoryOK
<1>14. Calmly' => Calmly /\ ~ stop /\ (Countable(n) /\ n \in Dirs => listed)
  BY <1>3, <1>13 DEF Calmly, PhasesOK, counts
<1>15. ListsOK' /\ PhasesOK' /\ CopyOK'
  <2>1. ListsOK'
    BY <1>2, <1>3, <1>5, <1>6, <1>8 DEF ListsOK
  <2>2. PhasesOK'
    BY <1>2, <1>3, <1>13 DEF PhasesOK
  <2>3. \A x : Contains(spec', x) => Contains(spec, x)
    BY <1>6
  <2> QED
    BY <1>2, <1>3, <1>6, <2>1, <2>2, <2>3 DEF CopyOK
<1>16. WalkOK'
  <2>1. \A k \in Nodes : Contains(todo', k) => Leads(top, k)
    <3> SUFFICES ASSUME NEW k \in Nodes, Contains(todo', k) PROVE Leads(top, k)
      OBVIOUS
    <3>1. CASE Contains(Tail(todo), k)
      BY <1>9, <1>10, <3>1
    <3>2. CASE listed /\ Contains(Children(n), k)
      <4>1. n \in Dirs /\ k \in Stored \ {Root} /\ Parent[k] = n
        BY <1>3, <1>5, <3>2, StoredProperties DEF ListsOK
      <4>2. Countable(n)
        BY <1>4, <3>2 DEF counts
      <4> QED
        BY <1>5, <1>9, <1>11, <4>1, <4>2, LeadsDown
    <3> QED
      BY <1>5, <3>1, <3>2
  <2>2. Current(top)'
    BY <1>2, <1>9, <1>12 DEF Current
  <2> QED
    BY <1>2, <1>3, <1>5, <1>8, <1>9, <1>12, <2>1, <2>2 DEF WalkOK
<1>17. DroppedOK'
  <2> SUFFICES ASSUME NEW u \in Nodes, Contains(chosen, Including(u)), ~ Contains(spec', Including(u))
               PROVE  \E w \in Nodes : w # u /\ Contains(spec', Including(w)) /\ Leads(w, u)
    BY <1>2, <1>8 DEF DroppedOK
  <2>1. Contains(spec', Including(top)) /\ top \in Nodes
    BY <1>9, <1>12 DEF Past
  <2>2. CASE u = n
    BY <1>11, <2>1, <2>2
  <2>3. CASE u # n
    <3>1. PICK w \in Nodes : w # u /\ Contains(spec, Including(w)) /\ Leads(w, u)
      BY <1>2, <1>3, <1>6, <1>7, <2>3 DEF DroppedOK
    <3>2. CASE Contains(spec', Including(w))
      BY <3>1, <3>2
    <3>3. CASE ~ Contains(spec', Including(w))
      <4>1. w = n /\ n # top
        BY <1>6, <1>7, <2>1, <3>1, <3>3
      <4>2. top # u
        BY <2>1
      <4> QED
        BY <1>5, <1>9, <1>11, <2>1, <3>1, <4>1, <4>2, LeadsOn
    <3> QED
      BY <3>2, <3>3
  <2> QED
    BY <2>2, <2>3
<1>18. \A u, x \in Nodes :
         Past(u) /\ Leads(u, x) /\ Unseen(x) /\ ~ Unseen(x)' /\ Calmly' => x = n
  <2> SUFFICES ASSUME NEW u \in Nodes, NEW x \in Nodes, Past(u), Leads(u, x), Unseen(x),
                      ~ Unseen(x)', Calmly', x # n
               PROVE  FALSE
    OBVIOUS
  <2>1. \A k \in Nodes : Contains(todo', k) => x \notin Subtree(k)
    BY DEF Unseen
  <2>2. x \in Subtree(n)
    BY <1>5, <2>1
  <2>3. /\ Countable(n) /\ n \in Dirs
        /\ \E c \in Nodes : Contains(Children(n), c) /\ x \in Subtree(c)
    BY <1>3, <1>5, <1>9, <1>11, <2>2, HeadSeen DEF ListsOK
  <2> QED
    BY <1>5, <1>14, <2>1, <2>3
<1>19. \A x \in Nodes : Unseen(x)' => Unseen(x) /\ x # n
  BY <1>5 DEF Unseen
<1>20. NoneRedundant'
  <2> SUFFICES ASSUME Calmly', NEW u \in Nodes, NEW x \in Nodes, Past(u), x # u, Leads(u, x),
                      Countable(x), ~ (u = top /\ Unseen(x)')
               PROVE  ~ Contains(spec', Including(x))
    BY <1>2, <1>8, <1>12 DEF NoneRedundant
  <2>1. CASE u = top /\ Unseen(x)
    <3>1. x = n /\ n # top
      BY <1>18, <2>1
    <3>2. counts
      BY <1>14, <3>1 DEF counts
    <3> QED
      BY <1>6, <3>1, <3>2
  <2>2. CASE ~ (u = top /\ Unseen(x))
    <3>1. ~ Contains(spec, Including(x))
      BY <1>2, <1>3, <1>14, <2>2 DEF NoneRedundant
    <3> QED
      BY <1>6, <1>7, <3>1
  <2> QED
    BY <2>1, <2>2
<1>21. CountedOK'
  <2> SUFFICES ASSUME Calmly', ~ history.second PROVE counted' = Cardinality(FilesSeen')
    BY <1>2, <1>13 DEF CountedOK
  <2>1. Calmly /\ ~ stop /\ counted = Cardinality(FilesSeen)
    BY <1>2, <1>3, <1>14 DEF CountedOK
  <2>2. Files \subseteq Nodes
    BY <1>3, StoredProperties DEF ListsOK, Files
  <2>3. \A x \in FilesSeen' : x \in FilesSeen \/ (x = n /\ n \in Files /\ counts)
    <3> SUFFICES ASSUME NEW x \in FilesSeen', x \notin FilesSeen
                 PROVE  x = n /\ n \in Files /\ counts
      OBVIOUS
    <3>1. x \in Files /\ x \in Nodes /\ Countable(x)
      BY <1>8, <2>2 DEF FilesSeen
    <3>2. PICK u \in Nodes : Past(u) /\ Leads(u, x) /\ ~ (u = top /\ Unseen(x)')
      BY <1>2, <1>8, <1>12, <3>1 DEF FilesSeen
    <3>3. u = top /\ Unseen(x)
      BY <3>1, <3>2 DEF FilesSeen
    <3>4. x = n
      BY <1>18, <3>1, <3>2, <3>3
    <3> QED
      BY <2>1, <3>1, <3>4 DEF counts
  <2>4. \A x \in FilesSeen : x \in FilesSeen'
    <3> SUFFICES ASSUME NEW x \in FilesSeen PROVE x \in FilesSeen'
      OBVIOUS
    <3>1. x \in Files /\ x \in Nodes /\ Countable(x)
      BY <2>2 DEF FilesSeen
    <3>2. PICK u \in Nodes : Past(u) /\ Leads(u, x) /\ ~ (u = top /\ Unseen(x))
      BY DEF FilesSeen
    <3>3. ~ (u = top /\ Unseen(x)')
      BY <1>19, <3>1, <3>2
    <3> QED
      BY <1>2, <1>8, <1>12, <3>1, <3>2, <3>3 DEF FilesSeen
  <2>5. n \notin FilesSeen
    <3> SUFFICES ASSUME n \in FilesSeen PROVE FALSE
      OBVIOUS
    <3>1. PICK u \in Nodes : Past(u) /\ Leads(u, n) /\ ~ (u = top /\ Unseen(n))
      BY DEF FilesSeen
    <3>2. Unseen(n) /\ Countable(n)
      BY <1>5, SubtreeProperties DEF FilesSeen
    <3>3. u # top /\ u \in {n} \cup Ancestors[n] /\ top \in {n} \cup Ancestors[n]
      BY <1>11, <3>1, <3>2 DEF Leads
    <3>4. u \in Ancestors[top]
      <4>1. Rank[u] <= Rank[top] /\ Rank[u] \in Nat /\ Rank[top] \in Nat
        BY <1>9, <3>1, StoreAssumption
      <4>2. top \in Ancestors[u] => Rank[top] < Rank[u]
        BY StoreOrder
      <4>3. u = top \/ u \in Ancestors[top] \/ top \in Ancestors[u]
        BY <1>5, <3>3, StoreOrder
      <4> QED
        BY <3>3, <4>1, <4>2, <4>3
    <3>5. Leads(u, top) /\ Countable(top)
      BY <1>5, <1>9, <3>1, <3>2, <3>3, <3>4, LeadsThrough
    <3>6. ~ Contains(spec, Including(top))
      BY <1>2, <1>3, <1>9, <2>1, <3>1, <3>3, <3>5 DEF NoneRedundant
    <3> QED
      BY <1>9, <3>6 DEF Past
  <2>6. IsFiniteSet(FilesSeen)
    <3>1. FilesSeen \subseteq Nodes
      BY <2>2 DEF FilesSeen
    <3> QED
      BY <3>1, FS_Subset, StoreAssumption
  <2>7. CASE counts /\ n \in Files
    <3>1. n \in FilesSeen'
      <4>1. ~ Unseen(n)'
        BY <1>5, <1>19
      <4>2. n \in Files' /\ Countable(n)'
        BY <1>5, <1>8, <2>7 DEF counts
      <4>3. PICK u \in Nodes : u = top
        BY <1>9
      <4>4. Past(u)' /\ Leads(u, n)'
        BY <1>5, <1>8, <1>9, <1>11, <1>12, <4>3
      <4> QED
        BY <4>1, <4>2, <4>4 DEF FilesSeen
    <3>2. FilesSeen' = FilesSeen \cup {n}
      BY <2>3, <2>4, <3>1
    <3> QED
      BY <1>2, <2>1, <2>5, <2>6, <2>7, <3>2, FS_AddElement
  <2>8. CASE ~ (counts /\ n \in Files)
    <3>1. FilesSeen' = FilesSeen
      BY <2>3, <2>4, <2>8
    <3> QED
      BY <1>2, <2>1, <2>8, <3>1
  <2> QED
    BY <2>7, <2>8
<1>22. RestoredOK' /\ NoDoubleRestore' /\ CountIsExact' /\ IndInv'
  <2>1. RestoredOK'
    BY <1>2, <1>3, <1>13 DEF RestoredOK
  <2>2. NoDoubleRestore' /\ CountIsExact'
    BY <1>2, <1>3, <1>13 DEF NoDoubleRestore, CountIsExact, StopUndone
  <2>3. IndInv'
    BY <1>2, <1>3, <1>13 DEF IndInv, HistoryOK, StopRemembered
  <2> QED
    BY <2>1, <2>2, <2>3
<1> QED
  BY <1>15, <1>16, <1>17, <1>20, <1>21, <1>22 DEF TInv

\* A restore that gives up, or whose loop is left by an exception.
LEMMA GiveUpKeepsTInv ==
  ASSUME TInv, pc = "restoring", todo' = <<>>, entries' = <<>>,
         UNCHANGED <<chosen, pc, spec, date, top, stop, counted, done, restored, made>>,
         ~ succeeded' \/ "exception" \in errors',
         "Restore Finished" \notin errors', NoDoubleRestore',
         history' = history \/ history' = [history EXCEPT !.failed = TRUE]
  PROVE  TInv'
<1>1. ListsOK /\ PhasesOK /\ CopyOK /\ WalkOK /\ DroppedOK /\ NoneRedundant
      /\ CountedOK /\ RestoredOK /\ IndInv
  BY DEF TInv
<1>2. /\ history' = [asked |-> history.asked, second |-> history.second,
                     unread |-> history'.unread, failed |-> history'.failed]
      /\ history'.asked = history.asked /\ history'.second = history.second
      /\ history'.unread = history.unread
  BY <1>1 DEF IndInv, HistoryOK
<1>3. /\ Stored' = Stored /\ Files' = Files
      /\ \A n \in Nodes : Countable(n)' <=> Countable(n)
      /\ \A u, n \in Nodes : Leads(u, n)' <=> Leads(u, n)
  BY LeadsSame
<1>4. Files \subseteq Nodes /\ made \subseteq Nodes /\ restored \subseteq Nodes
  BY <1>1, StoredProperties DEF ListsOK, Files
<1>5. IndInv'
  BY <1>1, <1>2 DEF IndInv, HistoryOK, StopRemembered
<1>6. ListsOK' /\ PhasesOK' /\ CopyOK'
  <2>1. <<>> \in Seq(Entry) /\ <<>> \in Seq(Stored) /\ Sorted(<<>>, Key)
    BY EmptyLists
  <2>2. ListsOK'
    BY <1>1, <1>3, <2>1 DEF ListsOK
  <2>3. PhasesOK' /\ CopyOK'
    BY <1>1, <1>2, SingletonContains DEF PhasesOK, CopyOK
  <2> QED
    BY <2>2, <2>3
<1>7. WalkOK' /\ DroppedOK'
  BY <1>1, <1>3, EmptyLists, SingletonContains DEF WalkOK, DroppedOK
<1>8. NoneRedundant'
  BY <1>1, <1>2, <1>3 DEF NoneRedundant, Calmly
<1>9. CountedOK'
  <2>1. FilesMeant' = FilesMeant
    BY <1>3, <1>4 DEF FilesMeant
  <2> QED
    BY <1>1, <1>2, <2>1 DEF CountedOK, Calmly
<1>10. RestoredOK'
  <2>1. \A u : Past(u) => Past(u)'
    BY SingletonContains DEF Past
  <2>2. \A m : ~ Unseen(m)'
    BY SingletonContains DEF Unseen
  <2>3. ~ GoingWell'
    BY DEF GoingWell
  <2>4. ~ history'.second => done' = Cardinality(restored')
    BY <1>1, <1>2 DEF RestoredOK
  <2>5. \A m \in made : \E v \in Nodes : Past(v)' /\ (m \in Ancestors[v] \/ (Leads(v, m) /\ Countable(m))')
    BY <1>1, <1>3, <1>4, <2>1 DEF RestoredOK
  <2>6. \A m \in restored : \E v \in Nodes : Past(v)' /\ (Leads(v, m) /\ Countable(m))'
    BY <1>1, <1>3, <1>4, <2>1 DEF RestoredOK
  <2> QED
    BY <2>2, <2>3, <2>4, <2>5, <2>6 DEF RestoredOK
<1>11. CountIsExact'
  BY DEF CountIsExact
<1> QED
  BY <1>5, <1>6, <1>7, <1>8, <1>9, <1>10, <1>11 DEF TInv

\* The loop goes on to the next entry; the directories above its node are made.
LEMMA NextEntryKeepsTInv ==
  ASSUME TInv, pc = "restoring", todo = <<>>, entries # <<>>, entries' = Tail(entries),
         UNCHANGED <<chosen, pc, spec, date, top, stop, counted, done, restored, errors, history>>,
         IF Head(entries).include
         THEN /\ todo' = <<Head(entries).node>> /\ succeeded' = TRUE
              /\ made' = made \cup (Ancestors[Head(entries).node] \ {Root})
         ELSE todo' = todo /\ made' = made /\ succeeded' = succeeded
  PROVE  TInv'
<1>1. PICK e, v : e = Head(entries) /\ v = e.node
  OBVIOUS
<1> DEFINE taken == e.include
<1>2. ListsOK /\ PhasesOK /\ CopyOK /\ WalkOK /\ DroppedOK /\ NoneRedundant
      /\ CountedOK /\ RestoredOK /\ NoDoubleRestore /\ CountIsExact /\ IndInv
  BY DEF TInv
<1>3. /\ e \in Entry /\ entries' \in Seq(Entry) /\ Sorted(entries', Key)
      /\ \A x : Contains(entries, x) <=> x = e \/ Contains(entries', x)
      /\ ~ Contains(entries', e)
      /\ \A x : Contains(entries', x) => Key[e] <= Key[x]
  BY <1>1, <1>2, TailProperties, TailSorted DEF ListsOK
<1>4. /\ v \in Nodes /\ (taken => e = Including(v)) /\ \A u : e = Including(u) => e.include /\ v = u
      /\ Contains(spec, e)
  BY <1>1, <1>2, <1>3, EntryIncludes DEF CopyOK
<1>5. /\ Stored' = Stored /\ Files' = Files
      /\ \A n \in Nodes : Countable(n)' <=> Countable(n)
      /\ \A u, n \in Nodes : Leads(u, n)' <=> Leads(u, n)
  BY LeadsSame
<1>6. \A n : ~ Unseen(n)
  BY SingletonContains DEF Unseen
<1>7. taken => \A n : Unseen(n)' <=> n \in Subtree(v)
  BY <1>1, <1>4, SingletonContains DEF Unseen
<1>8. ~ taken => \A n : ~ Unseen(n)'
  BY <1>1, SingletonContains DEF Unseen
<1>9. \A u \in Nodes : Past(u)' <=> Past(u) \/ (taken /\ u = v)
  BY <1>3, <1>4 DEF Past
<1>10. taken => Past(v)' /\ Contains(entries, Including(v)) /\ Contains(spec, Including(v))
  BY <1>3, <1>4 DEF Past
<1>11. Files \subseteq Nodes /\ made \subseteq Nodes /\ restored \subseteq Nodes /\ v \in Stored
  <2>1. v \in Stored
    BY <1>1, <1>2, <1>3, <1>4 DEF ListsOK, CopyOK
  <2> QED
    BY <1>2, <2>1, StoredProperties DEF ListsOK, Files
<1>12. ListsOK'
  <2>1. made' \subseteq Nodes
    BY <1>1, <1>4, <1>11, StoreTree
  <2>2. todo' \in Seq(Stored)
    <3>1. <<v>> \in Seq(Stored)
      BY <1>11
    <3>2. todo' = <<v>> \/ todo' = todo
      BY <1>1
    <3> QED
      BY <1>2, <3>1, <3>2 DEF ListsOK
  <2> QED
    BY <1>2, <1>3, <1>5, <2>1, <2>2 DEF ListsOK
<1>13. PhasesOK' /\ CopyOK'
  BY <1>2, <1>3 DEF PhasesOK, CopyOK
<1>14. \A u \in Nodes : Past(u) => Rank[u] <= Rank[v] \/ ~ taken
  BY <1>2, <1>4, <1>10 DEF WalkOK
<1>15. WalkOK'
  <2>1. \A u \in Nodes : Past(u)' => \A w \in Nodes : Contains(entries', Including(w)) => Rank[u] <= Rank[w]
    <3> SUFFICES ASSUME NEW u \in Nodes, Past(u)', NEW w \in Nodes, Contains(entries', Including(w))
                 PROVE  Rank[u] <= Rank[w]
      OBVIOUS
    <3>1. CASE Past(u)
      BY <1>2, <1>3, <3>1 DEF WalkOK
    <3>2. CASE taken /\ u = v
      <4>1. Including(w) \in Entry /\ Including(w).node = w
        BY DEF Including, Entry
      <4>2. Key[e] = Rank[v] /\ Key[Including(w)] = Rank[w]
        BY <1>1, <1>3, <4>1 DEF Key
      <4> QED
        BY <1>3, <3>2, <4>2
    <3> QED
      BY <1>9, <3>1, <3>2
  <2>2. Apart(todo')
    BY DEF Apart
  <2>3. todo' # <<>> => taken
    BY <1>1
  <2>4. Rank[v] <= Rank[v]
    BY <1>4, StoreAssumption
  <2>5. taken => Current(v)'
    BY <1>9, <1>10, <1>14, <2>4 DEF Current
  <2>6. taken => \A k \in Nodes : Contains(todo', k) => Leads(v, k)'
    <3>1. taken => \A k : Contains(todo', k) => k = v
      BY <1>1, SingletonContains
    <3> QED
      BY <1>4, <1>5, <3>1, LeadsSelf
  <2> QED
    BY <1>4, <2>1, <2>2, <2>3, <2>5, <2>6 DEF WalkOK
<1>16. DroppedOK' /\ NoneRedundant'
  BY <1>2, <1>5 DEF DroppedOK, NoneRedundant, Calmly
<1>17. CountedOK'
  <2>1. FilesMeant' = FilesMeant
    BY <1>5, <1>11 DEF FilesMeant
  <2> QED
    BY <1>2, <2>1 DEF CountedOK, Calmly
<1>18. \A m \in made' : \E u \in Nodes : Past(u)' /\ (m \in Ancestors[u] \/ (Leads(u, m) /\ Countable(m))')
  <2> SUFFICES ASSUME NEW m \in made'
               PROVE  \E u \in Nodes : Past(u)' /\ (m \in Ancestors[u] \/ (Leads(u, m) /\ Countable(m))')
    OBVIOUS
  <2>1. CASE m \in made
    <3>1. PICK u \in Nodes : Past(u) /\ (m \in Ancestors[u] \/ (Leads(u, m) /\ Countable(m)))
      BY <1>2, <2>1 DEF RestoredOK
    <3> QED
      BY <1>5, <1>9, <1>11, <2>1, <3>1
  <2>2. CASE m \notin made
    <3>1. taken /\ m \in Ancestors[v]
      BY <1>1, <2>2
    <3> QED
      BY <1>4, <1>10, <3>1
  <2> QED
    BY <2>1, <2>2
<1>19. \A m \in restored : \E u \in Nodes : Past(u)' /\ (Leads(u, m) /\ Countable(m))'
  BY <1>2, <1>5, <1>9, <1>11 DEF RestoredOK
<1>20. GoingWell' => \A n \in Files : \A u \in Nodes :
          Past(u)' /\ Leads(u, n) /\ Countable(n) => n \in restored \/ Unseen(n)'
  <2> SUFFICES ASSUME GoingWell', NEW n \in Files, NEW u \in Nodes, Past(u)', Leads(u, n),
                      Countable(n), n \notin restored
               PROVE  Unseen(n)'
    OBVIOUS
  <2>1. GoingWell
    BY DEF GoingWell
  <2>2. ~ Past(u)
    BY <1>2, <1>6, <2>1 DEF RestoredOK
  <2>3. taken /\ u = v
    BY <1>9, <2>2
  <2>4. n \in Subtree(v)
    BY <1>4, <1>11, <2>3, SubtreeProperties DEF Leads
  <2> QED
    BY <1>7, <2>3, <2>4
<1>21. Calmly => \A m \in restored \cup made' : ~ Unseen(m)'
  <2> SUFFICES ASSUME Calmly, NEW m \in restored \cup made', taken, m \in Subtree(v)
               PROVE  FALSE
    BY <1>7, <1>8
  <2>1. m \in Nodes /\ v \in {m} \cup Ancestors[m]
    BY <1>4, SubtreeProperties
  <2>2. CASE m \in Ancestors[v]
    <3>1. Rank[m] < Rank[v] /\ (v # m => Rank[v] < Rank[m]) /\ Rank[m] \in Nat /\ Rank[v] \in Nat
      BY <1>4, <2>1, <2>2, StoreOrder, StoreAssumption
    <3> QED
      BY <2>2, <3>1
  <2>3. CASE m \notin Ancestors[v]
    <3>1. m \in restored \cup made
      BY <1>1, <2>3
    <3>2. PICK u \in Nodes : Past(u) /\ (m \in Ancestors[u] \/ (Leads(u, m) /\ Countable(m)))
      BY <1>2, <3>1 DEF RestoredOK
    <3>3. u # v /\ v \notin Ancestors[u]
      <4>1. Rank[u] <= Rank[v] /\ Rank[u] \in Nat /\ Rank[v] \in Nat
        BY <1>4, <1>14, <3>2, StoreAssumption
      <4>2. v \in Ancestors[u] => Rank[v] < Rank[u]
        BY StoreOrder
      <4>3. u # v
        BY <1>10, <3>2 DEF Past
      <4> QED
        BY <4>1, <4>2, <4>3
    <3>4. CASE m \in Ancestors[u]
      <4>1. v \in Ancestors[u]
        BY <2>1, <3>4, StoreTree
      <4> QED
        BY <3>3, <4>1
    <3>5. CASE Leads(u, m) /\ Countable(m)
      <4>1. u \in Ancestors[v]
        <5>1. u \in {m} \cup Ancestors[m]
          BY <3>5 DEF Leads
        <5> QED
          BY <2>1, <3>3, <5>1, StoreOrder
      <4>2. Leads(u, v) /\ Countable(v)
        BY <1>4, <2>1, <3>5, <4>1, LeadsThrough
      <4>3. ~ Contains(spec, Including(v))
        BY <1>2, <1>4, <3>2, <3>3, <4>2 DEF NoneRedundant, Past
      <4> QED
        BY <1>10, <4>3
    <3> QED
      BY <3>2, <3>4, <3>5
  <2> QED
    BY <2>2, <2>3
<1>22. RestoredOK'
  <2>1. ~ history'.second => done' = Cardinality(restored')
    BY <1>2 DEF RestoredOK
  <2>2. GoingWell' => \A n \in Files' : \A u \in Nodes :
          Past(u)' /\ (Leads(u, n) /\ Countable(n))' => n \in restored' \/ Unseen(n)'
    BY <1>5, <1>11, <1>20
  <2>3. Calmly' => \A m \in restored' \cup made' : ~ Unseen(m)'
    BY <1>21 DEF Calmly
  <2> QED
    BY <1>18, <1>19, <2>1, <2>2, <2>3 DEF RestoredOK
<1>23. NoDoubleRestore' /\ CountIsExact' /\ IndInv'
  BY <1>2 DEF NoDoubleRestore, CountIsExact, StopUndone, IndInv, HistoryOK, StopRemembered
<1> QED
  BY <1>12, <1>13, <1>15, <1>16, <1>17, <1>22, <1>23 DEF TInv

\* One node is restored, unless there is nothing to restore, and those in it
\* are to be restored next.
LEMMA NextNodeKeepsTInv ==
  ASSUME TInv, pc = "restoring", todo # <<>>, NEW n, n = Head(todo), NEW goes \in BOOLEAN,
         goes <=> Countable(n),
         goes /\ n # Root => n \notin restored \cup made,
         todo' = IF goes /\ n \in Dirs THEN Children(n) \o Tail(todo) ELSE Tail(todo),
         restored' = IF goes /\ n \notin Dirs THEN restored \cup {n} ELSE restored,
         done' = IF goes /\ n \notin Dirs THEN done + 1 ELSE done,
         made' = IF goes /\ n \in Dirs THEN made \cup ({n} \ {Root}) ELSE made,
         UNCHANGED <<chosen, pc, spec, date, entries, top, stop, counted, succeeded, errors, history>>
  PROVE  TInv'
<1>1. ListsOK /\ PhasesOK /\ CopyOK /\ WalkOK /\ DroppedOK /\ NoneRedundant
      /\ CountedOK /\ RestoredOK /\ NoDoubleRestore /\ CountIsExact /\ IndInv
  BY DEF TInv
<1> DEFINE listed == goes /\ n \in Dirs
<1>2. /\ n \in Stored /\ n \in Nodes /\ todo' \in Seq(Stored) /\ Apart(todo')
      /\ \A k \in Nodes : Contains(todo', k) <=>
            Contains(Tail(todo), k) \/ (listed /\ Contains(Children(n), k))
      /\ \A x \in Nodes : Unseen(x) <=>
            x \in Subtree(n) \/ \E k \in Nodes : Contains(Tail(todo), k) /\ x \in Subtree(k)
      /\ \A k \in Nodes : Contains(todo', k) => n \notin Subtree(k)
      /\ \A k \in Nodes : Contains(todo', k) => \A x \in Subtree(k) : Unseen(x)
  BY <1>1, TodoNext DEF ListsOK, WalkOK
<1>3. /\ Stored' = Stored /\ Files' = Files
      /\ \A k \in Nodes : Countable(k)' <=> Countable(k)
      /\ \A u, k \in Nodes : Leads(u, k)' <=> Leads(u, k)
  BY LeadsSame
<1>4. \A u : Past(u)' <=> Past(u)
  BY DEF Past
<1>5. PICK v \in Nodes : /\ Past(v) /\ Current(v) /\ \A u \in Nodes : Past(u) => Rank[u] <= Rank[v]
                         /\ \A k \in Nodes : Contains(todo, k) => Leads(v, k)
  BY <1>1 DEF WalkOK, Current
<1>6. \A k : Contains(todo, k) <=> k = n \/ Contains(Tail(todo), k)
  BY <1>1, TailProperties DEF ListsOK
<1>7. Leads(v, n)
  BY <1>2, <1>5, <1>6
<1>8. Files \subseteq Nodes /\ made \subseteq Nodes /\ restored \subseteq Nodes /\ Root \in Dirs
  BY <1>1, StoredProperties, RunAssumption DEF ListsOK, Files
<1>9. \A x \in Nodes : Unseen(x)' => Unseen(x) /\ x # n
  BY <1>2 DEF Unseen
<1>10. \A u, x \in Nodes :
         Past(u) /\ Leads(u, x) /\ Countable(x) /\ Unseen(x) /\ ~ Unseen(x)' => x = n
  <2> SUFFICES ASSUME NEW u \in Nodes, NEW x \in Nodes, Past(u), Leads(u, x), Unseen(x),
                      ~ Unseen(x)', x # n
               PROVE  FALSE
    OBVIOUS
  <2>1. \A k \in Nodes : Contains(todo', k) => x \notin Subtree(k)
    BY DEF Unseen
  <2>2. x \in Subtree(n)
    BY <1>2, <2>1
  <2>3. /\ Countable(n) /\ n \in Dirs
        /\ \E c \in Nodes : Contains(Children(n), c) /\ x \in Subtree(c)
    BY <1>1, <1>2, <1>5, <1>7, <2>2, HeadSeen DEF ListsOK
  <2> QED
    BY <1>2, <2>1, <2>3
<1>11. goes /\ n \notin Dirs => n \notin restored /\ n \in Files
  BY <1>2, <1>8 DEF Files
<1>12. ListsOK' /\ PhasesOK' /\ CopyOK'
  <2>1. restored' \subseteq Files /\ made' \subseteq Nodes
    BY <1>1, <1>2, <1>11 DEF ListsOK
  <2> QED
    BY <1>1, <1>2, <1>3, <2>1 DEF ListsOK, PhasesOK, CopyOK
<1>13. WalkOK'
  <2>1. \A k \in Nodes : Contains(todo', k) => Leads(v, k)
    <3> SUFFICES ASSUME NEW k \in Nodes, Contains(todo', k) PROVE Leads(v, k)
      OBVIOUS
    <3>1. CASE Contains(Tail(todo), k)
      BY <1>5, <1>6, <3>1
    <3>2. CASE listed /\ Contains(Children(n), k)
      <4>1. n \in Dirs /\ k \in Stored \ {Root} /\ Parent[k] = n
        BY <1>1, <1>2, <3>2, StoredProperties DEF ListsOK
      <4> QED
        BY <1>2, <1>7, <3>2, <4>1, LeadsDown
    <3> QED
      BY <1>2, <3>1, <3>2
  <2>2. Current(v)'
    BY <1>4, <1>5 DEF Current
  <2> QED
    BY <1>1, <1>2, <1>3, <1>4, <2>1, <2>2 DEF WalkOK
<1>14. DroppedOK' /\ NoneRedundant'
  BY <1>1, <1>3 DEF DroppedOK, NoneRedundant, Calmly
<1>15. CountedOK'
  <2>1. FilesMeant' = FilesMeant
    BY <1>3, <1>8 DEF FilesMeant
  <2> QED
    BY <1>1, <2>1 DEF CountedOK, Calmly
<1>16. ~ history'.second => done' = Cardinality(restored')
  <2> SUFFICES ASSUME ~ history.second PROVE done' = Cardinality(restored')
    OBVIOUS
  <2>1. done = Cardinality(restored)
    BY <1>1 DEF RestoredOK
  <2>2. IsFiniteSet(restored)
    BY <1>8, FS_Subset, StoreAssumption
  <2> QED
    BY <1>11, <2>1, <2>2, FS_AddElement
<1>17. \A m \in made' : \E u \in Nodes : Past(u)' /\ (m \in Ancestors[u] \/ (Leads(u, m) /\ Countable(m))')
  <2> SUFFICES ASSUME NEW m \in made'
               PROVE  \E u \in Nodes : Past(u)' /\ (m \in Ancestors[u] \/ (Leads(u, m) /\ Countable(m))')
    OBVIOUS
  <2>1. CASE m \in made
    <3>1. PICK u \in Nodes : Past(u) /\ (m \in Ancestors[u] \/ (Leads(u, m) /\ Countable(m)))
      BY <1>1, <2>1 DEF RestoredOK
    <3> QED
      BY <1>3, <1>4, <1>8, <2>1, <3>1
  <2>2. CASE m \notin made
    <3>1. m = n /\ Countable(n)
      BY <2>2
    <3> QED
      BY <1>2, <1>3, <1>4, <1>5, <1>7, <3>1
  <2> QED
    BY <2>1, <2>2
<1>18. \A m \in restored' : \E u \in Nodes : Past(u)' /\ (Leads(u, m) /\ Countable(m))'
  <2> SUFFICES ASSUME NEW m \in restored'
               PROVE  \E u \in Nodes : Past(u)' /\ (Leads(u, m) /\ Countable(m))'
    OBVIOUS
  <2>1. CASE m \in restored
    <3>1. PICK u \in Nodes : Past(u) /\ Leads(u, m) /\ Countable(m)
      BY <1>1, <2>1 DEF RestoredOK
    <3> QED
      BY <1>3, <1>4, <1>8, <2>1, <3>1
  <2>2. CASE m \notin restored
    <3>1. m = n /\ Countable(n)
      BY <2>2
    <3> QED
      BY <1>2, <1>3, <1>4, <1>5, <1>7, <3>1
  <2> QED
    BY <2>1, <2>2
<1>19. GoingWell' => \A x \in Files' : \A u \in Nodes :
          Past(u)' /\ (Leads(u, x) /\ Countable(x))' => x \in restored' \/ Unseen(x)'
  <2> SUFFICES ASSUME GoingWell, NEW x \in Files, NEW u \in Nodes, Past(u), Leads(u, x),
                      Countable(x), x \notin restored', ~ Unseen(x)'
               PROVE  FALSE
    BY <1>3, <1>4, <1>8 DEF GoingWell
  <2>1. x \notin restored
    OBVIOUS
  <2>2. Unseen(x)
    BY <1>1, <2>1 DEF RestoredOK
  <2>3. x = n
    BY <1>8, <1>10, <2>2
  <2> QED
    BY <2>3 DEF Files
<1>20. Calmly' => \A m \in restored' \cup made' : ~ Unseen(m)'
  <2> SUFFICES ASSUME Calmly, NEW m \in restored' \cup made' PROVE ~ Unseen(m)'
    BY DEF Calmly
  <2>1. CASE m \in restored \cup made
    BY <1>1, <1>8, <1>9, <2>1 DEF RestoredOK
  <2>2. CASE m \notin restored \cup made
    <3>1. m = n
      BY <2>2
    <3> QED
      BY <1>2, <1>9, <3>1
  <2> QED
    BY <2>1, <2>2
<1>21. RestoredOK'
  BY <1>16, <1>17, <1>18, <1>19, <1>20 DEF RestoredOK
<1>22. NoDoubleRestore' /\ CountIsExact' /\ IndInv'
  BY <1>1 DEF NoDoubleRestore, CountIsExact, StopUndone, IndInv, HistoryOK, StopRemembered
<1> QED
  BY <1>12, <1>13, <1>14, <1>15, <1>21, <1>22 DEF TInv

\* The next entry is restored, or the restore goes no further.
LEMMA RestoreEntryKeepsTInv ==
  ASSUME TInv, RestoreEntry
  PROVE  TInv'
<1>1. ListsOK /\ PhasesOK /\ CopyOK /\ NoDoubleRestore /\ IndInv
  BY DEF TInv
<1>2. /\ pc = "restoring" /\ todo = <<>> /\ entries # <<>>
      /\ UNCHANGED <<chosen, pc, spec, date, top, stop, counted>>
  BY DEF RestoreEntry, user, flags
<1>3. Head(entries).include \in BOOLEAN
  <2>1. Head(entries) \in Entry
    BY <1>1, <1>2, TailProperties DEF ListsOK
  <2> QED
    BY <2>1 DEF Entry
<1>4. CASE Failure \/ Throw
  <2>1. /\ todo' = <<>> /\ entries' = <<>> /\ UNCHANGED <<done, restored, made>>
        /\ ~ succeeded' \/ "exception" \in errors'
        /\ \A x : x \in errors' => x \in errors \/ x = "exception"
        /\ history' = [history EXCEPT !.failed = TRUE]
    BY <1>4 DEF Failure, Throw, GiveUp, disk
  <2>2. "Restore Finished" \notin errors'
    BY <1>1, <1>2, <2>1 DEF PhasesOK
  <2>3. NoDoubleRestore'
    BY <1>1, <2>1 DEF NoDoubleRestore, StopUndone, IndInv, HistoryOK
  <2> QED
    BY <1>2, <2>1, <2>2, <2>3, GiveUpKeepsTInv
<1>5. CASE /\ Head(entries).include
           /\ entries' = Tail(entries)
           /\ todo' = <<Head(entries).node>>
           /\ made' = made \cup (Ancestors[Head(entries).node] \ {Root})
           /\ succeeded' = TRUE
           /\ UNCHANGED <<errors, done, restored, history>>
  BY <1>2, <1>5, NextEntryKeepsTInv
<1>6. CASE /\ ~ Head(entries).include
           /\ entries' = IF succeeded THEN Tail(entries) ELSE <<>>
           /\ UNCHANGED <<todo, succeeded, errors, done, disk, history>>
  <2>1. CASE succeeded
    BY <1>2, <1>6, <2>1, NextEntryKeepsTInv DEF disk
  <2>2. CASE ~ succeeded
    <3>1. entries' = <<>> /\ todo' = <<>>
      BY <1>2, <1>6, <2>2
    <3>2. "Restore Finished" \notin errors' /\ NoDoubleRestore'
      BY <1>1, <1>2, <1>6 DEF PhasesOK, NoDoubleRestore, StopUndone
    <3> QED
      BY <1>2, <1>6, <2>2, <3>1, <3>2, GiveUpKeepsTInv DEF disk
  <2> QED
    BY <2>1, <2>2
<1> QED
  BY <1>3, <1>4, <1>5, <1>6 DEF RestoreEntry

\* The next node is restored, or passed by, or the restore goes no further.
LEMMA RestoreNodeKeepsTInv ==
  ASSUME TInv, RestoreNode
  PROVE  TInv'
<1>1. ListsOK /\ PhasesOK /\ RestoredOK /\ NoDoubleRestore /\ IndInv
  BY DEF TInv
<1>2. PICK n : n = Head(todo)
  OBVIOUS
<1>3. /\ pc = "restoring" /\ todo # <<>>
      /\ UNCHANGED <<chosen, pc, spec, date, top, stop, counted>>
  BY DEF RestoreNode, user, flags
<1>4. "Restore Finished" \notin errors /\ n \in Stored /\ n \in Nodes
  BY <1>1, <1>2, <1>3, TailProperties, StoredProperties DEF PhasesOK, ListsOK
<1>5. CASE \E messages \in {{}, {"not found"}} : GiveUp(messages) /\ UNCHANGED history
  <2>1. /\ todo' = <<>> /\ entries' = <<>> /\ UNCHANGED <<done, restored, made, history>>
        /\ ~ succeeded'
        /\ \A x : x \in errors' => x \in errors \/ x = "not found"
    BY <1>5 DEF GiveUp, disk
  <2>2. "Restore Finished" \notin errors' /\ NoDoubleRestore'
    BY <1>1, <1>4, <2>1 DEF NoDoubleRestore, StopUndone
  <2> QED
    BY <1>3, <2>1, <2>2, GiveUpKeepsTInv
<1>6. CASE ~ stop /\ n # Root /\ n \in restored \cup made
           /\ GiveUp({"object already exists"}) /\ UNCHANGED history
  <2>1. /\ todo' = <<>> /\ entries' = <<>> /\ UNCHANGED <<done, restored, made, history>>
        /\ ~ succeeded'
        /\ \A x : x \in errors' => x \in errors \/ x = "object already exists"
    BY <1>6 DEF GiveUp, disk
  <2>2. Unseen(n)
    <3>1. Contains(todo, n)
      BY <1>1, <1>2, <1>3, TailProperties DEF ListsOK
    <3> QED
      BY <1>4, <3>1, SubtreeProperties DEF Unseen
  <2>3. ~ Calmly
    BY <1>1, <1>3, <1>6, <2>2 DEF RestoredOK
  <2>4. NoDoubleRestore'
    BY <1>1, <1>3, <1>6, <2>1, <2>3
       DEF NoDoubleRestore, StopUndone, Calmly, IndInv, HistoryOK, StopRemembered
  <2>5. "Restore Finished" \notin errors'
    BY <1>4, <2>1
  <2> QED
    BY <1>3, <2>1, <2>4, <2>5, GiveUpKeepsTInv
<1>7. CASE Failure \/ Throw
  <2>1. /\ todo' = <<>> /\ entries' = <<>> /\ UNCHANGED <<done, restored, made>>
        /\ ~ succeeded' \/ "exception" \in errors'
        /\ \A x : x \in errors' => x \in errors \/ x = "exception"
        /\ history' = [history EXCEPT !.failed = TRUE]
    BY <1>7 DEF Failure, Throw, GiveUp, disk
  <2>2. "Restore Finished" \notin errors'
    BY <1>4, <2>1
  <2>3. NoDoubleRestore'
    BY <1>1, <2>1 DEF NoDoubleRestore, StopUndone, IndInv, HistoryOK
  <2> QED
    BY <1>3, <2>1, <2>2, <2>3, GiveUpKeepsTInv
<1>8. CASE ~ Countable(n) /\ Pass
  <2>1. /\ todo' = Tail(todo)
        /\ UNCHANGED <<entries, succeeded, errors, done, restored, made, history>>
    BY <1>8 DEF Pass, result, disk
  <2>2. PICK goes \in BOOLEAN : goes = FALSE
    OBVIOUS
  <2> QED
    BY <1>2, <1>3, <1>8, <2>1, <2>2, NextNodeKeepsTInv
<1>9. CASE Countable(n) /\ (n # Root => n \notin restored \cup made)
           /\ IF n \in Dirs THEN RestoreDirectory(n) ELSE RestoreFile(n)
  <2>1. UNCHANGED <<entries, succeeded, errors, history>>
    BY <1>9 DEF RestoreDirectory, RestoreFile, result
  <2>2. n \in Dirs => /\ todo' = Children(n) \o Tail(todo) /\ made' = made \cup ({n} \ {Root})
                      /\ UNCHANGED <<done, restored>>
    BY <1>9 DEF RestoreDirectory
  <2>3. n \notin Dirs => /\ todo' = Tail(todo) /\ restored' = restored \cup {n} /\ done' = done + 1
                         /\ UNCHANGED made
    BY <1>9 DEF RestoreFile
  <2>4. PICK goes \in BOOLEAN : goes = TRUE
    OBVIOUS
  <2> QED
    BY <1>2, <1>3, <1>9, <2>1, <2>2, <2>3, <2>4, NextNodeKeepsTInv
<1>10. Countable(n) <=> ~ (n \in Absent[date] \/ Excluded(spec, n)) /\ n \notin Gone[date]
  BY DEF Countable, Missing
<1>11. \/ \E messages \in {{}, {"not found"}} : GiveUp(messages) /\ UNCHANGED history
       \/ ~ stop /\ (n \in Absent[date] \/ Excluded(spec, n)) /\ Pass
       \/ ~ stop /\ ~ (n \in Absent[date] \/ Excluded(spec, n)) /\ RestoreVersion(n)
  BY <1>2 DEF RestoreNode, Stopping
<1>12. CASE ~ stop /\ ~ (n \in Absent[date] \/ Excluded(spec, n)) /\ RestoreVersion(n)
  <2>1. CASE n # Root /\ n \in restored \cup made
    BY <1>6, <1>12, <2>1 DEF RestoreVersion
  <2>2. CASE ~ (n # Root /\ n \in restored \cup made) /\ n \in Gone[date]
    BY <1>8, <1>10, <1>12, <2>2 DEF RestoreVersion
  <2>3. CASE ~ (n # Root /\ n \in restored \cup made) /\ n \notin Gone[date]
    <3>1. \/ IF n \in Dirs THEN RestoreDirectory(n) ELSE RestoreFile(n)
          \/ Failure \/ Throw
      BY <1>12, <2>3 DEF RestoreVersion
    <3> QED
      BY <1>7, <1>9, <1>10, <1>12, <2>3, <3>1
  <2> QED
    BY <2>1, <2>2, <2>3
<1> QED
  BY <1>5, <1>8, <1>10, <1>11, <1>12

\* A restore that says it has finished has restored what there was to restore.
LEMMA RestoredIsMeant ==
  ASSUME TInv, RestoreEnds, "Restore Finished" \in errors'
  PROVE  restored = FilesMeant /\ ~ stop
<1>1. /\ pc = "restoring" /\ todo = <<>> /\ entries = <<>>
      /\ "exception" \notin errors /\ ~ stop /\ succeeded
  <2>1. "Restore Finished" \notin errors
    BY DEF RestoreEnds, TInv, PhasesOK
  <2> QED
    BY <2>1 DEF RestoreEnds
<1>2. ListsOK /\ RestoredOK
  BY DEF TInv
<1>3. \A u : Past(u) <=> Contains(spec, Including(u))
  BY <1>1, SingletonContains DEF Past
<1>4. \A x : ~ Unseen(x)
  BY <1>1, SingletonContains DEF Unseen
<1>5. Files \subseteq Nodes
  BY <1>2, StoredProperties DEF ListsOK, Files
<1>6. GoingWell
  BY <1>1 DEF GoingWell
<1>7. \A x \in FilesMeant : x \in restored
  BY <1>1, <1>2, <1>3, <1>4, <1>5, <1>6 DEF RestoredOK, FilesMeant
<1>8. \A x \in restored : x \in FilesMeant
  BY <1>1, <1>2, <1>3, <1>5 DEF RestoredOK, FilesMeant, ListsOK
<1> QED
  BY <1>1, <1>7, <1>8

\* Then what was counted is what was done.
LEMMA RestoreEndsKeepsTInv ==
  ASSUME TInv, RestoreEnds
  PROVE  TInv'
<1>1. ListsOK /\ PhasesOK /\ CountedOK /\ RestoredOK /\ NoDoubleRestore /\ IndInv
  BY DEF TInv
<1>2. /\ pc = "restoring" /\ todo = <<>> /\ entries = <<>> /\ pc' = "idle" /\ yields' = FALSE
      /\ stop' = FALSE
      /\ UNCHANGED <<chosen, spec, date, entries, top, todo, counted, done, restored, made,
                     succeeded, history>>
  BY DEF RestoreEnds, user, walk, counters, disk
<1>3. "object already exists" \in errors' => "object already exists" \in errors
  BY DEF RestoreEnds
<1>4. Stored' = Stored /\ Files' = Files
  BY <1>2 DEF Stored, Files
<1>5. ListsOK'
  BY <1>1, <1>2, <1>4 DEF ListsOK
<1>6. PhasesOK' /\ CopyOK' /\ WalkOK' /\ DroppedOK' /\ NoneRedundant' /\ CountedOK' /\ RestoredOK'
  BY <1>1, <1>2 DEF PhasesOK, CopyOK, WalkOK, DroppedOK, NoneRedundant, CountedOK, RestoredOK
<1>7. NoDoubleRestore' /\ IndInv'
  BY <1>1, <1>2, <1>3 DEF NoDoubleRestore, StopUndone, IndInv, HistoryOK, StopRemembered
<1>8. CountIsExact'
  <2> SUFFICES ASSUME "Restore Finished" \in errors', ~ history.unread, ~ history.second
               PROVE  counted = done
    BY <1>2 DEF CountIsExact
  <2>1. restored = FilesMeant /\ ~ stop
    BY RestoredIsMeant
  <2>2. Calmly
    BY <1>1, <1>2, <2>1 DEF Calmly, IndInv, HistoryOK, StopRemembered
  <2> QED
    BY <1>1, <1>2, <2>1, <2>2 DEF CountedOK, RestoredOK
<1> QED
  BY <1>5, <1>6, <1>7, <1>8 DEF TInv

\* The invariant is inductive.
LEMMA NextTInv == TInv /\ [Next]_vars => TInv'
<1> SUFFICES ASSUME TInv, [Next]_vars PROVE TInv'
  OBVIOUS
<1>1. CASE \E n \in Stored : Click(n)
  BY <1>1, ClickKeepsTInv
<1>2. CASE Start
  BY <1>2, StartKeepsTInv
<1>3. CASE Stop \/ SecondRestore
  BY <1>3, FlagsKeepTInv
<1>4. CASE CountEntry
  BY <1>4, CountEntryKeepsTInv
<1>5. CASE CountNode
  BY <1>5, CountNodeKeepsTInv
<1>6. CASE CountingEnds
  BY <1>6, CountingEndsKeepsTInv
<1>7. CASE RestoreEntry
  BY <1>7, RestoreEntryKeepsTInv
<1>8. CASE RestoreNode
  BY <1>8, RestoreNodeKeepsTInv
<1>9. CASE RestoreEnds
  BY <1>9, RestoreEndsKeepsTInv
<1>10. CASE UNCHANGED vars
  BY <1>10, StutterKeepsTInv
<1> QED
  BY <1>1, <1>2, <1>3, <1>4, <1>5, <1>6, <1>7, <1>8, <1>9, <1>10 DEF Next, Step

\* So it holds in every state.
LEMMA SpecTInv == Spec => []TInv
  BY InitTInv, NextTInv, PTL DEF Spec

\* NoDoubleRestore: a restore never finds an object that it has restored
\* already, whatever is on the store and in the spec.
THEOREM NothingIsRestoredTwice == Spec => []NoDoubleRestore
<1>1. TInv => NoDoubleRestore
  BY DEF TInv
<1> QED
  BY <1>1, SpecTInv, PTL

\* CountIsExact: a restore that says it has finished has done what it counted.
THEOREM CountingIsExact == Spec => []CountIsExact
<1>1. TInv => CountIsExact
  BY DEF TInv
<1> QED
  BY <1>1, SpecTInv, PTL

-----------------------------------------------------------------------------
(* What was chosen, and what is restored.                                  *)

\* u is n or above it, and nothing from u down to n is excluded
Open(u, n) ==
    /\ u \in {n} \cup Ancestors[n]
    /\ \A m \in ({n} \cup Ancestors[n]) \ Ancestors[u] : ~ Excluded(chosen, m)

\* Below a node with an entry that includes it a node is shown as included, if
\* none is excluded on the way.
LEMMA OpenIsChosen ==
  ASSUME ListsOK, NEW u \in Nodes, Contains(chosen, Including(u))
  PROVE  \A n \in Nodes : Open(u, n) => n \in Chosen(chosen)
<1>1. /\ \A n \in Nodes : above(n, chosen) => (n \in Chosen(chosen) <=> ~ Excluded(chosen, n))
      /\ \A n \in Nodes : ~ above(n, chosen) => (n \in Chosen(chosen) <=> Contains(chosen, Including(n)))
  BY ChosenProperties DEF ListsOK, Excluded, Including
<1>2. Open(u, u) => u \in Chosen(chosen)
  <2>1. Open(u, u) => ~ Excluded(chosen, u)
    BY StoreTree DEF Open
  <2> QED
    BY <1>1, <2>1
<1> DEFINE T == {n \in Nodes : Open(u, n) => n \in Chosen(chosen)}
<1>3. Root \in T
  <2>1. Open(u, Root) => u = Root
    BY StoreTree DEF Open
  <2> QED
    BY <1>2, <2>1, StoreTree
<1>4. ASSUME NEW n \in Nodes \ {Root}, Parent[n] \in T PROVE n \in T
  <2> SUFFICES ASSUME Open(u, n), u # n PROVE n \in Chosen(chosen)
    BY <1>2
  <2>1. Ancestors[n] = {Parent[n]} \cup Ancestors[Parent[n]] /\ Parent[n] \in Nodes
    BY StoreTree
  <2>2. Open(u, Parent[n])
    BY <2>1 DEF Open
  <2>3. above(n, chosen)
    BY <1>4, <2>2 DEF above
  <2>4. n \notin Ancestors[u]
    <3>1. u \in Ancestors[n]
      BY DEF Open
    <3>2. n \in Ancestors[u] => Ancestors[u] \subseteq Ancestors[n] /\ Ancestors[n] \subseteq Ancestors[u]
      BY <3>1, StoreTree
    <3> QED
      BY <3>1, <3>2, StoreTree
  <2>5. ~ Excluded(chosen, n)
    BY <2>4 DEF Open
  <2> QED
    BY <1>1, <2>3, <2>5
<1>5. Nodes \subseteq T
  <2> HIDE DEF T
  <2> QED
    BY <1>3, <1>4, AncestorsGoUp, TreeInduction
<1> QED
  BY <1>5 DEF T

\* A node is shown as included only for such an entry, when no node is both
\* included and excluded.
LEMMA ChosenIsOpen ==
  ASSUME ListsOK, Unambiguous
  PROVE  \A n \in Chosen(chosen) : \E u \in Nodes : Contains(chosen, Including(u)) /\ Open(u, n)
<1>1. /\ \A n \in Nodes : above(n, chosen) => (n \in Chosen(chosen) <=> ~ Excluded(chosen, n))
      /\ \A n \in Nodes : ~ above(n, chosen) => (n \in Chosen(chosen) <=> Contains(chosen, Including(n)))
  BY ChosenProperties DEF ListsOK, Excluded, Including
<1>2. \A n : Contains(chosen, Including(n)) => ~ Excluded(chosen, n)
  <2> SUFFICES ASSUME NEW n, Contains(chosen, Including(n)), Excluded(chosen, n) PROVE FALSE
    OBVIOUS
  <2>1. PICK i \in 1 .. Len(chosen) : chosen[i] = Including(n)
    BY DEF Contains
  <2>2. PICK j \in 1 .. Len(chosen) : chosen[j] = [node |-> n, include |-> FALSE]
    BY DEF Contains, Excluded
  <2>3. i \in DOMAIN chosen /\ j \in DOMAIN chosen
    BY DEF ListsOK
  <2>4. i = j
    BY <2>1, <2>2, <2>3 DEF Unambiguous, Including
  <2> QED
    BY <2>1, <2>2, <2>4 DEF Including
<1> DEFINE T == {n \in Nodes : n \in Chosen(chosen) =>
                    \E u \in Nodes : Contains(chosen, Including(u)) /\ Open(u, n)}
<1>3. \A n \in Nodes : Contains(chosen, Including(n)) => n \in T
  <2>1. \A n \in Nodes : ~ Excluded(chosen, n) => Open(n, n)
    BY StoreTree DEF Open
  <2> QED
    BY <1>2, <2>1
<1>4. Root \in T
  BY <1>1, <1>3, StoreTree DEF above
<1>5. ASSUME NEW n \in Nodes \ {Root}, Parent[n] \in T PROVE n \in T
  <2>1. Ancestors[n] = {Parent[n]} \cup Ancestors[Parent[n]] /\ Parent[n] \in Nodes
    BY StoreTree
  <2>2. CASE above(n, chosen)
    <3> SUFFICES ASSUME n \in Chosen(chosen)
                 PROVE  \E u \in Nodes : Contains(chosen, Including(u)) /\ Open(u, n)
      OBVIOUS
    <3>1. PICK u \in Nodes : Contains(chosen, Including(u)) /\ Open(u, Parent[n])
      BY <1>5, <2>2 DEF above
    <3>2. ~ Excluded(chosen, n)
      BY <1>1, <2>2
    <3>3. Open(u, n)
      BY <2>1, <3>1, <3>2 DEF Open
    <3> QED
      BY <3>1, <3>3
  <2>3. CASE ~ above(n, chosen)
    BY <1>1, <1>3, <2>3
  <2> QED
    BY <2>2, <2>3
<1>6. Nodes \subseteq T
  <2> HIDE DEF T
  <2> QED
    BY <1>4, <1>5, AncestorsGoUp, TreeInduction
<1> QED
  BY <1>6 DEF T, Chosen

\* What is chosen is a list of entries.
LEMMA ChosenList == ListsOK => chosen \in Seq(Entry) /\ DOMAIN chosen = 1 .. Len(chosen)
<1> SUFFICES ASSUME ListsOK PROVE chosen \in Seq(Entry) /\ DOMAIN chosen = 1 .. Len(chosen)
  OBVIOUS
<1>1. chosen \in Seq(Entry)
  BY DEF ListsOK
<1> QED
  BY <1>1

\* The files that the entries lead to are the ones the restore means.
LEMMA WantedIsMeant ==
  ASSUME TInv, pc = "restoring"
  PROVE  Wanted = FilesMeant
<1>1. ListsOK /\ CopyOK /\ DroppedOK
  BY DEF TInv
<1>2. Files \subseteq Stored /\ Stored \in SUBSET Nodes /\ \A n \in Stored : Ancestors[n] \subseteq Dirs \cap Stored
  BY <1>1, StoredProperties DEF ListsOK, Files
<1>3. \A m \in Nodes : Countable(m) <=> m \notin Missing /\ ~ Excluded(chosen, m)
  BY <1>1 DEF CopyOK, Countable
<1>4. \A u \in Nodes : u \notin Ancestors[u] /\ \A n \in Nodes : n \in Ancestors[u] => u \notin Ancestors[n]
  BY StoreTree
<1>5. ASSUME NEW n \in Files, NEW u \in Nodes, u \in {n} \cup Ancestors[n],
             \A m \in ({n} \cup Ancestors[n]) \ Ancestors[u] : m \notin Missing /\ ~ Excluded(chosen, m)
      PROVE  Leads(u, n) /\ Countable(n)
  <2>1. \A m \in ({n} \cup Ancestors[n]) \ Ancestors[u] : Countable(m)
    BY <1>2, <1>3, <1>5, StoreTree
  <2>2. n \notin Ancestors[u]
    BY <1>2, <1>4, <1>5
  <2> QED
    BY <1>2, <1>5, <2>1, <2>2 DEF Leads
<1>6. ASSUME NEW n \in Files, NEW u \in Nodes, Contains(spec, Including(u)), Leads(u, n), Countable(n)
      PROVE  n \in Wanted
  <2>1. Contains(chosen, Including(u))
    BY <1>1, <1>6 DEF CopyOK
  <2>2. PICK i \in 1 .. Len(chosen) : chosen[i] = Including(u)
    BY <2>1 DEF Contains
  <2>3. i \in DOMAIN chosen /\ chosen[i].include /\ chosen[i].node = u
    BY <1>1, <2>2 DEF ListsOK, Including
  <2>4. \A m \in ({n} \cup Ancestors[n]) \ Ancestors[u] : m \notin Missing /\ ~ Excluded(chosen, m)
    BY <1>2, <1>3, <1>6, StoreTree DEF Leads
  <2>5. u \in {n} \cup Ancestors[n]
    BY <1>6 DEF Leads
  <2> QED
    BY <1>2, <2>3, <2>4, <2>5 DEF Wanted, Reached
<1>7. ASSUME NEW n \in Wanted PROVE n \in FilesMeant
  <2>1. n \in Files /\ n \in Nodes
    BY <1>2 DEF Wanted
  <2>2. PICK i \in DOMAIN chosen :
           /\ chosen[i].include
           /\ chosen[i].node \in {n} \cup Ancestors[n]
           /\ \A m \in ({n} \cup Ancestors[n]) \ Ancestors[chosen[i].node] :
                 m \notin Missing /\ ~ Excluded(chosen, m)
    BY DEF Wanted, Reached
  <2>3. PICK u : u = chosen[i].node
    OBVIOUS
  <2>4. u \in Nodes /\ Contains(chosen, Including(u))
    <3>1. chosen[i] \in Entry /\ i \in 1 .. Len(chosen)
      BY <1>1, <2>2 DEF ListsOK
    <3>2. chosen[i] = Including(u) /\ u \in Nodes
      BY <2>2, <2>3, <3>1, EntryIncludes
    <3> QED
      BY <3>1, <3>2 DEF Contains
  <2>5. Leads(u, n) /\ Countable(n)
    BY <1>5, <2>1, <2>2, <2>3, <2>4
  <2>6. PICK w \in Nodes : Contains(spec, Including(w)) /\ Leads(w, n)
    <3>1. CASE Contains(spec, Including(u))
      BY <2>4, <2>5, <3>1
    <3>2. CASE ~ Contains(spec, Including(u))
      <4>1. PICK w \in Nodes : Contains(spec, Including(w)) /\ Leads(w, u)
        BY <1>1, <2>4, <3>2 DEF DroppedOK
      <4> QED
        BY <2>1, <2>4, <2>5, <4>1, LeadsOn
    <3> QED
      BY <3>1, <3>2
  <2> QED
    BY <2>1, <2>5, <2>6 DEF FilesMeant
<1> QED
  BY <1>6, <1>7 DEF FilesMeant

\* All of those files are shown as included; and all that are shown, if no node
\* is both included and excluded and nothing is gone, are among them.
LEMMA WantedIsChosen ==
  ASSUME ListsOK
  PROVE  /\ Wanted \subseteq Chosen(chosen)
         /\ Unambiguous /\ Missing = {} => Files \cap Chosen(chosen) \subseteq Wanted
<1>1. chosen \in Seq(Entry) /\ DOMAIN chosen = 1 .. Len(chosen)
  BY ChosenList
<1>2. Files \subseteq Stored /\ Stored \in SUBSET Nodes
  BY StoredProperties DEF ListsOK, Files
<1>3. \A n \in Wanted : n \in Chosen(chosen)
  <2> SUFFICES ASSUME NEW n \in Wanted PROVE n \in Chosen(chosen)
    OBVIOUS
  <2>1. PICK i \in DOMAIN chosen :
           /\ chosen[i].include
           /\ chosen[i].node \in {n} \cup Ancestors[n]
           /\ \A m \in ({n} \cup Ancestors[n]) \ Ancestors[chosen[i].node] :
                 m \notin Missing /\ ~ Excluded(chosen, m)
    BY DEF Wanted, Reached
  <2>2. chosen[i] \in Entry /\ i \in 1 .. Len(chosen)
    BY <1>1, <2>1
  <2>3. PICK u \in Nodes : u = chosen[i].node
    BY <2>2, EntryIncludes
  <2>4. Contains(chosen, Including(u))
    BY <2>1, <2>2, <2>3, EntryIncludes DEF Contains
  <2>5. Open(u, n) /\ n \in Nodes
    BY <1>2, <2>1, <2>3 DEF Open, Wanted
  <2> QED
    BY <2>4, <2>5, OpenIsChosen
<1>4. ASSUME Unambiguous, Missing = {}, NEW n \in Files, n \in Chosen(chosen) PROVE n \in Wanted
  <2>1. PICK u \in Nodes : Contains(chosen, Including(u)) /\ Open(u, n)
    BY <1>4, ChosenIsOpen
  <2>2. PICK i \in 1 .. Len(chosen) : chosen[i] = Including(u)
    BY <2>1 DEF Contains
  <2>3. i \in DOMAIN chosen /\ chosen[i].include /\ chosen[i].node = u
    BY <1>1, <2>2 DEF Including
  <2> QED
    BY <1>2, <1>4, <2>1, <2>3 DEF Wanted, Reached, Open
<1> QED
  BY <1>3, <1>4

\* FinishedIsComplete: a restore that says it has finished has restored exactly
\* the files that the entries lead to, all of which the tree shows as included;
\* and all those, if no node is both included and excluded and nothing is gone.
THEOREM FinishedMeansRestored == Spec => FinishedIsComplete
<1> DEFINE Complete == RestoreEnds /\ "Restore Finished" \in errors' =>
                          /\ restored = Wanted
                          /\ restored \subseteq Chosen(chosen)
                          /\ Unambiguous /\ Missing = {} => restored = Files \cap Chosen(chosen)
<1>1. TInv => Complete
  <2> SUFFICES ASSUME TInv, RestoreEnds, "Restore Finished" \in errors'
               PROVE  /\ restored = Wanted
                      /\ restored \subseteq Chosen(chosen)
                      /\ Unambiguous /\ Missing = {} => restored = Files \cap Chosen(chosen)
    OBVIOUS
  <2>1. restored = Wanted
    <3>1. pc = "restoring"
      BY DEF RestoreEnds
    <3> QED
      BY <3>1, RestoredIsMeant, WantedIsMeant
  <2>2. ListsOK
    BY DEF TInv
  <2> QED
    BY <2>1, <2>2, WantedIsChosen DEF Wanted
<1>2. TInv /\ [Next]_vars => [Complete]_vars
  BY <1>1
<1> QED
  BY <1>2, SpecTInv, PTL DEF Spec, FinishedIsComplete
================================================================================
