-------------------------- MODULE ServerCacheProofs --------------------------
(***************************************************************************)
(* Proofs about ServerCache, for any names, any number of objects and of   *)
(* connections: what the trees show is the last listing, the pointers that *)
(* they hold survive a listing that brings no new name, and the cache      *)
(* implements Catalogue: each of its steps is one of Catalogue, or none.   *)
(***************************************************************************)
EXTENDS ServerCache, TreeFacts

-----------------------------------------------------------------------------
(* What GetChildren works on: the vector and the hash table.               *)

Slot == [buffer : Nat, pos : Nat \ {0}]

Acc == [nodes : Seq(Node), buffer : Nat, capacity : Nat, table : [Names -> Slot \cup {NULL}]]

\* the nodes fit the buffer, a name has one node, nothing is remembered as most recent
Whole(a) ==
    /\ Len(a.nodes) <= a.capacity
    /\ \A i \in DOMAIN a.nodes : a.nodes[i].mostRecent = NULL
    /\ \A i, j \in DOMAIN a.nodes : a.nodes[i].name = a.nodes[j].name => i = j

\* the table has the names of the nodes and where each of them is, or was
\* before the vector moved away from a buffer it has had since b0
Tabled(a, b0) ==
    \A n \in Names :
        IF a.table[n] = NULL THEN \A i \in DOMAIN a.nodes : a.nodes[i].name # n
        ELSE /\ a.table[n].pos \in DOMAIN a.nodes
             /\ a.nodes[a.table[n].pos].name = n
             /\ b0 <= a.table[n].buffer
             /\ a.table[n].buffer <= a.buffer

\* the nodes that were there are where they were
Extended(a, old, b0) ==
    /\ b0 <= a.buffer
    /\ Len(old) <= Len(a.nodes)
    /\ \A i \in DOMAIN old : a.nodes[i].name = old[i].name

\* the versions are those of entries that were taken
FromEntries(ns, done) ==
    \A i \in DOMAIN ns : \A v \in Range(ns[i].versions) : [name |-> ns[i].name, id |-> v] \in done

\* an entry has its version among the nodes
HasVersion(ns, e) == \E i \in DOMAIN ns : ns[i].name = e.name /\ e.id \in Range(ns[i].versions)

Complete(a, b0, done) == a.buffer = b0 => \A e \in done : HasVersion(a.nodes, e)

\* only a new name makes the vector grow
Grown(a, old, b0, done) ==
    \/ a.buffer = b0 /\ Len(a.nodes) = Len(old)
    \/ \E e \in done : \A i \in DOMAIN old : old[i].name # e.name

\* the buffer is the one from before the listing, or there was no room in that one
Roomy(a, b0) == IF a.buffer = b0 THEN a.capacity = capacity ELSE capacity < Len(a.nodes)

\* the nodes have the names that were there, and those of the entries
Named(a, old, done) ==
    \A n \in Names :
        (\E i \in DOMAIN a.nodes : a.nodes[i].name = n) <=>
            ((\E i \in DOMAIN old : old[i].name = n) \/ (\E e \in done : e.name = n))

\* every new node, but perhaps one, has a version
Offering(ns, old, but) == \A i \in DOMAIN ns : Len(old) < i /\ i # but => ns[i].versions # <<>>

AccOK(a, old, b0, done) ==
    /\ a \in Acc /\ Whole(a) /\ Tabled(a, b0) /\ Extended(a, old, b0)
    /\ FromEntries(a.nodes, done) /\ Complete(a, b0, done)
    /\ Grown(a, old, b0, done)
    /\ Roomy(a, b0) /\ Named(a, old, done) /\ Offering(a.nodes, old, 0)

\* the node that is written to next
Pending(b, e) == IF b.table[e.name].buffer = b.buffer THEN b.table[e.name].pos ELSE 0

EmptyNode(n) == [name |-> n, versions |-> <<>>, mostRecent |-> NULL]

\* A node that was just made.
LEMMA EmptyNodeIs ==
  ASSUME NEW n \in Names
  PROVE  EmptyNode(n) \in Node /\ EmptyNode(n).name = n /\ EmptyNode(n).mostRecent = NULL
         /\ Range(EmptyNode(n).versions) = {}
BY DEF EmptyNode, Node, Range

\* A sequence with one more element.
LEMMA AppendIs ==
  ASSUME NEW S, NEW s \in Seq(S), NEW x \in S
  PROVE  /\ Append(s, x) \in Seq(S)
         /\ Len(Append(s, x)) = Len(s) + 1
         /\ DOMAIN Append(s, x) = 1 .. Len(s) + 1
         /\ Append(s, x)[Len(s) + 1] = x
         /\ \A i \in 1 .. Len(s) : Append(s, x)[i] = s[i]
         /\ Range(Append(s, x)) = Range(s) \cup {x}
<1>1. /\ Append(s, x) \in Seq(S)
      /\ Len(Append(s, x)) = Len(s) + 1
      /\ DOMAIN Append(s, x) = 1 .. Len(s) + 1
      /\ Append(s, x)[Len(s) + 1] = x
      /\ \A i \in 1 .. Len(s) : Append(s, x)[i] = s[i]
  OBVIOUS
<1>2. DOMAIN s = 1 .. Len(s) /\ Len(s) \in Nat
  OBVIOUS
<1> DEFINE t == Append(s, x)
<1> HIDE DEF t
<1>3. Range(t) = Range(s) \cup {x}
  <2>1. \A i \in 1 .. Len(s) + 1 : i \in 1 .. Len(s) \/ i = Len(s) + 1
    BY <1>2
  <2>2. \A i \in 1 .. Len(s) : i \in 1 .. Len(s) + 1
    BY <1>2
  <2>3. Len(s) + 1 \in 1 .. Len(s) + 1
    BY <1>2
  <2> QED
    BY <1>1, <1>2, <2>1, <2>2, <2>3 DEF Range, t
<1> QED
  BY <1>1, <1>3 DEF t

\* A new node goes behind the others, and its pointer into the table.
LEMMA PushBackIs ==
  ASSUME NEW a, NEW old \in Seq(Node), NEW b0 \in Nat, NEW done, NEW e \in DirEntry,
         AccOK(a, old, b0, done), a.table[e.name] = NULL, capacity \in Nat
  PROVE  LET b == PushBack(a, e.name)
         IN  /\ b \in Acc /\ Whole(b) /\ Tabled(b, b0) /\ Extended(b, old, b0)
             /\ FromEntries(b.nodes, done) /\ Complete(b, b0, done)
             /\ Grown(b, old, b0, done \cup {e})
             /\ Roomy(b, b0) /\ Named(b, old, done \cup {e})
             /\ Offering(b.nodes, old, Pending(b, e))
             /\ b.table[e.name] # NULL
<1> DEFINE b == PushBack(a, e.name)
           ns == Append(a.nodes, EmptyNode(e.name))
           slot == [buffer |-> b.buffer, pos |-> Len(a.nodes) + 1]
<1>1. /\ a.nodes \in Seq(Node) /\ a.buffer \in Nat /\ a.capacity \in Nat
      /\ a.table \in [Names -> Slot \cup {NULL}]
      /\ e.name \in Names
  BY DEF AccOK, Acc, DirEntry
<1>2. /\ b = [nodes |-> ns, buffer |-> b.buffer, capacity |-> b.capacity,
              table |-> [a.table EXCEPT ![e.name] = slot]]
      /\ b.nodes = ns /\ b.table = [a.table EXCEPT ![e.name] = slot]
  BY DEF PushBack, EmptyNode
<1>3. /\ b.buffer \in Nat /\ b.capacity \in Nat /\ a.buffer <= b.buffer
      /\ Len(a.nodes) + 1 <= b.capacity
  <2>1. /\ b.buffer = IF Len(a.nodes) = a.capacity THEN a.buffer + 1 ELSE a.buffer
        /\ b.capacity = IF Len(a.nodes) # a.capacity THEN a.capacity
                        ELSE IF a.capacity = 0 THEN 1 ELSE 2 * a.capacity
    BY DEF PushBack
  <2>2. Len(a.nodes) \in Nat /\ Len(a.nodes) <= a.capacity
    BY <1>1 DEF AccOK, Whole
  <2> HIDE DEF b
  <2> QED
    BY <1>1, <2>1, <2>2
<1> HIDE DEF b
<1>4. EmptyNode(e.name) \in Node /\ EmptyNode(e.name).name = e.name
      /\ EmptyNode(e.name).mostRecent = NULL /\ Range(EmptyNode(e.name).versions) = {}
  BY <1>1, EmptyNodeIs
<1>5. /\ ns \in Seq(Node) /\ Len(ns) = Len(a.nodes) + 1 /\ DOMAIN ns = 1 .. Len(a.nodes) + 1
      /\ ns[Len(a.nodes) + 1] = EmptyNode(e.name)
      /\ \A i \in 1 .. Len(a.nodes) : ns[i] = a.nodes[i]
  BY <1>1, <1>4, AppendIs
<1>6. DOMAIN a.nodes = 1 .. Len(a.nodes) /\ Len(a.nodes) \in Nat
  BY <1>1
<1> HIDE DEF ns
<1>7. slot \in Slot /\ slot # NULL
  BY <1>3, <1>6, CacheAssumption DEF Slot
<1>8. b \in Acc
  <2>1. [a.table EXCEPT ![e.name] = slot] \in [Names -> Slot \cup {NULL}]
    BY <1>1, <1>7
  <2> QED
    BY <1>2, <1>3, <1>5, <2>1 DEF Acc
<1>9. \A i \in DOMAIN a.nodes : a.nodes[i].name # e.name
  BY <1>1 DEF AccOK, Tabled
<1>10. ASSUME NEW i \in DOMAIN ns
       PROVE  (i \in DOMAIN a.nodes /\ ns[i] = a.nodes[i])
              \/ (i = Len(a.nodes) + 1 /\ ns[i] = EmptyNode(e.name))
  BY <1>5, <1>6
<1>11. Whole(b)
  <2>1. \A i \in DOMAIN ns : ns[i].mostRecent = NULL
    BY <1>4, <1>10 DEF AccOK, Whole
  <2>2. \A i, j \in DOMAIN ns : ns[i].name = ns[j].name => i = j
    BY <1>4, <1>9, <1>10 DEF AccOK, Whole
  <2> QED
    BY <1>2, <1>3, <1>5, <2>1, <2>2 DEF Whole
<1>12. Tabled(b, b0)
  <2> SUFFICES ASSUME NEW n \in Names
               PROVE  IF b.table[n] = NULL THEN \A i \in DOMAIN b.nodes : b.nodes[i].name # n
                      ELSE /\ b.table[n].pos \in DOMAIN b.nodes
                           /\ b.nodes[b.table[n].pos].name = n
                           /\ b0 <= b.table[n].buffer
                           /\ b.table[n].buffer <= b.buffer
    BY DEF Tabled
  <2>1. CASE n = e.name
    <3>1. b.table[n] = slot /\ slot.pos = Len(a.nodes) + 1 /\ slot.buffer = b.buffer
      BY <1>1, <1>2, <2>1
    <3>2. b0 <= a.buffer
      BY DEF AccOK, Extended
    <3>3. Len(a.nodes) + 1 \in DOMAIN ns
      BY <1>5, <1>6
    <3> HIDE DEF slot
    <3> QED
      BY <1>1, <1>2, <1>3, <1>4, <1>5, <1>7, <2>1, <3>1, <3>2, <3>3
  <2>2. CASE n # e.name
    <3>1. b.table[n] = a.table[n]
      BY <1>1, <1>2, <2>2
    <3>2. IF a.table[n] = NULL THEN \A i \in DOMAIN a.nodes : a.nodes[i].name # n
          ELSE /\ a.table[n].pos \in DOMAIN a.nodes
               /\ a.nodes[a.table[n].pos].name = n
               /\ b0 <= a.table[n].buffer
               /\ a.table[n].buffer <= a.buffer
      BY DEF AccOK, Tabled
    <3>3. CASE a.table[n] = NULL
      BY <1>2, <1>4, <1>10, <2>2, <3>1, <3>2, <3>3
    <3>4. CASE a.table[n] # NULL
      <4>1. a.table[n] \in Slot
        BY <1>1, <3>4
      <4>2. a.table[n].pos \in DOMAIN ns /\ ns[a.table[n].pos] = a.nodes[a.table[n].pos]
        BY <1>5, <1>6, <3>2, <3>4
      <4>3. a.table[n].buffer \in Nat
        BY <4>1 DEF Slot
      <4>4. a.table[n].buffer <= b.buffer
        BY <1>1, <1>3, <3>2, <3>4, <4>3
      <4> QED
        BY <1>2, <3>1, <3>2, <3>4, <4>2, <4>4
    <3> QED
      BY <3>3, <3>4
  <2> QED
    BY <2>1, <2>2
<1>13. Extended(b, old, b0)
  <2>1. b0 <= a.buffer /\ Len(old) <= Len(a.nodes) /\ \A i \in DOMAIN old : a.nodes[i].name = old[i].name
    BY DEF AccOK, Extended
  <2>2. DOMAIN old = 1 .. Len(old) /\ Len(old) \in Nat
    OBVIOUS
  <2>3. \A i \in DOMAIN old : ns[i] = a.nodes[i]
    BY <1>5, <1>6, <2>1, <2>2
  <2>4. b0 <= b.buffer
    BY <1>1, <1>3, <2>1
  <2>5. Len(old) <= Len(ns)
    BY <1>5, <1>6, <2>1, <2>2
  <2>6. b.nodes = ns
    BY <1>2
  <2> QED
    BY <2>1, <2>3, <2>4, <2>5, <2>6 DEF Extended
<1>14. FromEntries(b.nodes, done)
  BY <1>2, <1>4, <1>10 DEF AccOK, FromEntries
<1>15. Complete(b, b0, done)
  <2> SUFFICES ASSUME b.buffer = b0, NEW d \in done
               PROVE  HasVersion(b.nodes, d)
    BY DEF Complete
  <2>1. a.buffer = b0
    BY <1>1, <1>3 DEF AccOK, Extended
  <2>2. PICK i \in DOMAIN a.nodes : a.nodes[i].name = d.name /\ d.id \in Range(a.nodes[i].versions)
    BY <2>1 DEF AccOK, Complete, HasVersion
  <2>3. i \in DOMAIN ns /\ ns[i] = a.nodes[i]
    BY <1>5, <1>6
  <2> QED
    BY <1>2, <2>2, <2>3 DEF HasVersion
<1>16. Grown(b, old, b0, done \cup {e})
  <2>1. DOMAIN old = 1 .. Len(old) /\ Len(old) \in Nat
    OBVIOUS
  <2>2. \A i \in DOMAIN old : i \in DOMAIN a.nodes /\ a.nodes[i].name = old[i].name
    BY <1>6, <2>1 DEF AccOK, Extended
  <2>3. \A i \in DOMAIN old : old[i].name # e.name
    BY <1>9, <2>2
  <2> QED
    BY <2>3 DEF Grown
<1>17. b.table[e.name] # NULL
  BY <1>1, <1>2, <1>7
<1>18. Roomy(b, b0)
  <2>1. /\ b.buffer = IF Len(a.nodes) = a.capacity THEN a.buffer + 1 ELSE a.buffer
        /\ Len(a.nodes) # a.capacity => b.capacity = a.capacity
    BY DEF b, PushBack
  <2>2. IF a.buffer = b0 THEN a.capacity = capacity ELSE capacity < Len(a.nodes)
    BY DEF AccOK, Roomy
  <2>3. b0 <= a.buffer
    BY DEF AccOK, Extended
  <2>4. Len(b.nodes) = Len(a.nodes) + 1
    BY <1>2, <1>5
  <2> QED
    BY <1>1, <1>6, <2>1, <2>2, <2>3, <2>4 DEF Roomy
<1>19. Named(b, old, done \cup {e})
  <2> SUFFICES ASSUME NEW n \in Names
               PROVE  (\E i \in DOMAIN ns : ns[i].name = n) <=>
                        ((\E i \in DOMAIN old : old[i].name = n)
                         \/ (\E d \in done \cup {e} : d.name = n))
    BY <1>2 DEF Named
  <2>1. (\E i \in DOMAIN ns : ns[i].name = n) <=>
           ((\E i \in DOMAIN a.nodes : a.nodes[i].name = n) \/ n = e.name)
    <3>1. \A i \in DOMAIN a.nodes : i \in DOMAIN ns /\ ns[i] = a.nodes[i]
      BY <1>5, <1>6
    <3>2. Len(a.nodes) + 1 \in DOMAIN ns
      BY <1>5, <1>6
    <3> QED
      BY <1>4, <1>5, <1>10, <3>1, <3>2
  <2>2. (\E i \in DOMAIN a.nodes : a.nodes[i].name = n) <=>
           ((\E i \in DOMAIN old : old[i].name = n) \/ (\E d \in done : d.name = n))
    BY DEF AccOK, Named
  <2> QED
    BY <2>1, <2>2
<1>20. Offering(b.nodes, old, Pending(b, e))
  <2>1. Pending(b, e) = Len(a.nodes) + 1
    <3>1. b.table[e.name] = slot
      BY <1>1, <1>2
    <3>2. slot.buffer = b.buffer /\ slot.pos = Len(a.nodes) + 1
      OBVIOUS
    <3> HIDE DEF slot
    <3> QED
      BY <3>1, <3>2 DEF Pending
  <2>2. \A i \in DOMAIN a.nodes : Len(old) < i => a.nodes[i].versions # <<>>
    BY <1>6 DEF AccOK, Offering
  <2> QED
    BY <1>2, <1>10, <2>1, <2>2 DEF Offering
<1> QED
  BY <1>8, <1>11, <1>12, <1>13, <1>14, <1>15, <1>16, <1>17, <1>18, <1>19, <1>20 DEF b

\* the same after an entry has its node, and before it has its version
Ready(b, old, b0, done, e) ==
    /\ b \in Acc /\ Whole(b) /\ Tabled(b, b0) /\ Extended(b, old, b0)
    /\ FromEntries(b.nodes, done) /\ Complete(b, b0, done)
    /\ Grown(b, old, b0, done \cup {e})
    /\ Roomy(b, b0) /\ Named(b, old, done \cup {e})
    /\ Offering(b.nodes, old, Pending(b, e))
    /\ b.table[e.name] # NULL

\* A version that is written through a good pointer.
LEMMA VersionIsPut ==
  ASSUME NEW b, NEW old \in Seq(Node), NEW b0 \in Nat, NEW done, NEW e \in DirEntry,
         Ready(b, old, b0, done, e)
  PROVE  AccOK([b EXCEPT !.nodes[b.table[e.name].pos].versions = Append(@, e.id)],
               old, b0, done \cup {e})
<1> DEFINE i == b.table[e.name].pos
           ns == b.nodes
           m == [ns[i] EXCEPT !.versions = Append(ns[i].versions, e.id)]
           ms == [ns EXCEPT ![i] = m]
           c == [b EXCEPT !.nodes = ms]
<1>1. /\ ns \in Seq(Node) /\ b.table \in [Names -> Slot \cup {NULL}]
      /\ e.name \in Names /\ e.id \in 1 .. MaxId /\ e = [name |-> e.name, id |-> e.id]
  BY DEF Ready, Acc, DirEntry
<1>2. i \in DOMAIN ns /\ ns[i].name = e.name
  BY <1>1 DEF Ready, Tabled
<1>3. [b EXCEPT !.nodes[b.table[e.name].pos].versions = Append(@, e.id)] = c
  OBVIOUS
<1> HIDE DEF i
<1>4. ns[i] \in Node /\ ns[i].versions \in Seq(1 .. MaxId)
  <2>1. ns[i] \in Node
    <3> HIDE DEF ns
    <3> QED
      BY <1>1, <1>2
  <2> QED
    BY <2>1 DEF Node
<1>5. /\ m \in Node /\ m.name = e.name /\ m.mostRecent = ns[i].mostRecent
      /\ m.versions = Append(ns[i].versions, e.id)
  <2>1. Append(ns[i].versions, e.id) \in Seq(1 .. MaxId)
    BY <1>1, <1>4
  <2> QED
    BY <1>2, <1>4, <2>1 DEF Node
<1>6. Range(m.versions) = Range(ns[i].versions) \cup {e.id}
  <2> DEFINE vs == ns[i].versions
             S == 1 .. MaxId
  <2>1. vs \in Seq(S) /\ e.id \in S
    BY <1>1, <1>4
  <2> HIDE DEF vs, S
  <2>2. Range(Append(vs, e.id)) = Range(vs) \cup {e.id}
    BY <2>1, AppendIs
  <2> QED
    BY <1>5, <2>2 DEF vs
<1> HIDE DEF m
<1>7. /\ ms \in Seq(Node) /\ DOMAIN ms = DOMAIN ns /\ Len(ms) = Len(ns)
      /\ \A j \in DOMAIN ns : ms[j] = IF j = i THEN m ELSE ns[j]
  <2> HIDE DEF ns
  <2>1. ms \in Seq(Node) /\ Len(ms) = Len(ns)
    BY <1>1, <1>2, <1>5
  <2> QED
    BY <2>1
<1>8. \A j \in DOMAIN ns : ms[j].name = ns[j].name /\ ms[j].mostRecent = ns[j].mostRecent
  BY <1>2, <1>5, <1>7
<1> HIDE DEF ms
<1>9. /\ c = [nodes |-> ms, buffer |-> b.buffer, capacity |-> b.capacity, table |-> b.table]
      /\ c.nodes = ms /\ c.buffer = b.buffer /\ c.capacity = b.capacity /\ c.table = b.table
  BY DEF Ready, Acc
<1> HIDE DEF ms, c
<1>10. c \in Acc
  BY <1>7, <1>9 DEF Ready, Acc
<1>11. Whole(c)
  BY <1>7, <1>8, <1>9 DEF Ready, Whole
<1>12. Tabled(c, b0)
  BY <1>7, <1>8, <1>9 DEF Ready, Tabled
<1>13. Extended(c, old, b0)
  <2>1. DOMAIN old = 1 .. Len(old) /\ DOMAIN ns = 1 .. Len(ns) /\ Len(old) \in Nat /\ Len(ns) \in Nat
    BY <1>1
  <2>2. Len(old) <= Len(ns) /\ b0 <= b.buffer /\ \A j \in DOMAIN old : ns[j].name = old[j].name
    BY DEF Ready, Extended
  <2>3. \A j \in DOMAIN old : j \in DOMAIN ns
    BY <2>1, <2>2
  <2> QED
    BY <1>7, <1>8, <1>9, <2>2, <2>3 DEF Extended
<1>14. FromEntries(c.nodes, done \cup {e})
  <2> SUFFICES ASSUME NEW j \in DOMAIN ns, NEW v \in Range(ms[j].versions)
               PROVE  [name |-> ms[j].name, id |-> v] \in done \cup {e}
    BY <1>7, <1>9 DEF FromEntries
  <2>1. \A w \in Range(ns[j].versions) : [name |-> ns[j].name, id |-> w] \in done
    BY DEF Ready, FromEntries
  <2>2. CASE j = i
    <3>1. v \in Range(ns[i].versions) \/ v = e.id
      BY <1>6, <1>7, <2>2
    <3> QED
      BY <1>1, <1>2, <1>8, <2>1, <2>2, <3>1
  <2>3. CASE j # i
    BY <1>7, <2>1, <2>3
  <2> QED
    BY <2>2, <2>3
<1>15. Complete(c, b0, done \cup {e})
  <2> SUFFICES ASSUME c.buffer = b0, NEW d \in done \cup {e}
               PROVE  HasVersion(ms, d)
    BY <1>9 DEF Complete
  <2>1. CASE d = e
    <3>1. ms[i].name = e.name /\ e.id \in Range(ms[i].versions)
      BY <1>2, <1>5, <1>6, <1>7
    <3> QED
      BY <1>2, <1>7, <2>1, <3>1 DEF HasVersion
  <2>2. CASE d \in done
    <3>1. PICK j \in DOMAIN ns : ns[j].name = d.name /\ d.id \in Range(ns[j].versions)
      BY <1>9, <2>2 DEF Ready, Complete, HasVersion
    <3>2. d.id \in Range(ms[j].versions)
      BY <1>6, <1>7, <3>1
    <3> QED
      BY <1>7, <1>8, <3>1, <3>2 DEF HasVersion
  <2> QED
    BY <2>1, <2>2
<1>16. Grown(c, old, b0, done \cup {e})
  BY <1>7, <1>9 DEF Ready, Grown
<1>17. Roomy(c, b0) /\ Named(c, old, done \cup {e})
  <2>1. Roomy(b, b0) /\ Named(b, old, done \cup {e})
    BY DEF Ready
  <2> QED
    BY <1>7, <1>8, <1>9, <2>1 DEF Roomy, Named
<1>18. Offering(c.nodes, old, 0)
  <2> SUFFICES ASSUME NEW j \in DOMAIN ns, Len(old) < j PROVE ms[j].versions # <<>>
    BY <1>7, <1>9 DEF Offering
  <2>1. CASE j = i
    BY <1>5, <1>6, <1>7, <2>1 DEF Range
  <2>2. CASE j # i
    <3>1. j # Pending(b, e)
      <4>1. j # 0
        BY <1>1
      <4> QED
        BY <2>2, <4>1 DEF Pending, i
    <3>2. ns[j].versions # <<>>
      BY <3>1 DEF Ready, Offering
    <3> QED
      BY <1>7, <2>2, <3>2
  <2> QED
    BY <2>1, <2>2
<1>19. AccOK(c, old, b0, done \cup {e})
  BY <1>10, <1>11, <1>12, <1>13, <1>14, <1>15, <1>16, <1>17, <1>18 DEF AccOK
<1> QED
  BY <1>3, <1>19

\* Each entry of a listing keeps things in order.
LEMMA TakeEntryIs ==
  ASSUME NEW a, NEW old \in Seq(Node), NEW b0 \in Nat, NEW done, NEW e \in DirEntry,
         AccOK(a, old, b0, done), capacity \in Nat
  PROVE  AccOK(TakeEntry(a, e), old, b0, done \cup {e})
<1> DEFINE b == IF a.table[e.name] = NULL THEN PushBack(a, e.name) ELSE a
           p == b.table[e.name]
<1>1. Ready(b, old, b0, done, e)
  <2>1. CASE a.table[e.name] = NULL
    <3> DEFINE q == PushBack(a, e.name)
    <3>1. b = q
      BY <2>1
    <3>2. /\ q \in Acc /\ Whole(q) /\ Tabled(q, b0) /\ Extended(q, old, b0)
          /\ FromEntries(q.nodes, done) /\ Complete(q, b0, done)
          /\ Grown(q, old, b0, done \cup {e})
          /\ Roomy(q, b0) /\ Named(q, old, done \cup {e})
          /\ Offering(q.nodes, old, Pending(q, e))
          /\ q.table[e.name] # NULL
      BY <2>1, PushBackIs
    <3> HIDE DEF q, b
    <3> QED
      BY <3>1, <3>2 DEF Ready
  <2>2. CASE a.table[e.name] # NULL
    <3>1. b = a
      BY <2>2
    <3>2. Grown(a, old, b0, done \cup {e})
      BY DEF AccOK, Grown
    <3>3. Named(a, old, done \cup {e})
      <4>1. \E i \in DOMAIN a.nodes : a.nodes[i].name = e.name
        BY <2>2 DEF AccOK, Tabled, DirEntry
      <4> QED
        BY <4>1 DEF AccOK, Named
    <3>4. Offering(a.nodes, old, Pending(a, e))
      <4>1. \A i \in DOMAIN a.nodes : i # 0
        BY DEF AccOK, Acc
      <4> QED
        BY <4>1 DEF AccOK, Offering
    <3> HIDE DEF b
    <3> QED
      BY <2>2, <3>1, <3>2, <3>3, <3>4 DEF AccOK, Ready
  <2> QED
    BY <2>1, <2>2
<1>2. TakeEntry(a, e) = IF p.buffer = b.buffer
                        THEN [b EXCEPT !.nodes[p.pos].versions = Append(@, e.id)] ELSE b
  BY DEF TakeEntry
<1> HIDE DEF b
<1>3. CASE p.buffer = b.buffer
  <2>1. TakeEntry(a, e) = [b EXCEPT !.nodes[b.table[e.name].pos].versions = Append(@, e.id)]
    BY <1>2, <1>3
  <2> DEFINE c == [b EXCEPT !.nodes[b.table[e.name].pos].versions = Append(@, e.id)]
  <2>2. AccOK(c, old, b0, done \cup {e})
    BY <1>1, VersionIsPut
  <2>3. TakeEntry(a, e) = c
    BY <2>1
  <2> HIDE DEF p, c
  <2> QED
    BY <2>2, <2>3
<1>4. CASE p.buffer # b.buffer
  <2>1. e.name \in Names /\ b.buffer \in Nat /\ b.table \in [Names -> Slot \cup {NULL}]
    BY <1>1 DEF Ready, Acc, DirEntry
  <2>2. p \in Slot /\ b0 <= p.buffer /\ p.buffer <= b.buffer
    BY <1>1, <2>1 DEF Ready, Tabled
  <2>3. p.buffer \in Nat
    BY <2>2 DEF Slot
  <2>4. b.buffer # b0
    BY <1>4, <2>1, <2>2, <2>3
  <2>5. Complete(b, b0, done \cup {e})
    BY <2>4 DEF Complete
  <2>6. FromEntries(b.nodes, done \cup {e})
    BY <1>1 DEF Ready, FromEntries
  <2>7. Pending(b, e) = 0
    BY <1>4 DEF Pending
  <2>8. AccOK(b, old, b0, done \cup {e})
    BY <1>1, <2>5, <2>6, <2>7 DEF Ready, AccOK
  <2> QED
    BY <1>2, <1>4, <2>8
<1> QED
  BY <1>3, <1>4

\* A listing, entry by entry.
LEMMA ListingIs ==
  ASSUME NEW old \in Seq(Node), NEW b0 \in Nat, NEW a0, AccOK(a0, old, b0, {}),
         NEW s \in Seq(DirEntry), capacity \in Nat
  PROVE  AccOK(FoldLeft(TakeEntry, a0, s), old, b0, Range(s))
<1> DEFINE D == 1 .. Len(s)
           N == SUBSET D
           up == Fewer(Len(s))
           V == {a \in Acc : \E done \in SUBSET DirEntry : AccOK(a, old, b0, done)}
           put(q, v) == IF q = {} THEN a0 ELSE TakeEntry(v, s[Max(q)])
           step == [q \in N |-> [v \in V |-> put(q, v)]]
           Is(f) == f = [q \in SUBSET (DOMAIN s) |->
                           IF q = {} THEN a0 ELSE TakeEntry(f[q \ {Max(q)}], s[Max(q)])]
           fold == CHOOSE f : Is(f)
<1>1. DOMAIN s = D /\ Len(s) \in Nat
  OBVIOUS
<1>2. FoldLeft(TakeEntry, a0, s) = fold[DOMAIN s]
  BY DEF FoldLeft, MapThenFoldSet
<1>3. /\ IsTree(N, {}, up)
      /\ \A q \in N : q # {} => /\ Max(q) \in q /\ Max(q) \in D /\ q \ {Max(q)} \in N
                                /\ up[q] = q \ {Max(q)}
  BY <1>1, IndexSets
<1> HIDE DEF up
<1>4. \A q \in N : q # {} => s[Max(q)] \in DirEntry
  BY <1>1, <1>3
<1>5. a0 \in V
  BY DEF AccOK
<1>6. ASSUME NEW v \in V, NEW e \in DirEntry PROVE TakeEntry(v, e) \in V
  <2>1. PICK done \in SUBSET DirEntry : AccOK(v, old, b0, done)
    OBVIOUS
  <2>2. AccOK(TakeEntry(v, e), old, b0, done \cup {e})
    BY <2>1, TakeEntryIs
  <2>3. TakeEntry(v, e) \in Acc
    BY <2>2 DEF AccOK
  <2>4. done \cup {e} \in SUBSET DirEntry
    OBVIOUS
  <2> QED
    BY <2>2, <2>3, <2>4
<1>7. step \in [N -> [V -> V]]
  <2> HIDE DEF N, V
  <2>1. \A q \in N, v \in V : put(q, v) \in V
    BY <1>4, <1>5, <1>6
  <2> QED
    BY <2>1
<1>8. \E f : Is(f)
  <2> DEFINE z == {}
  <2>1. StepsDown(N, z, up, V, a0, step)
    BY <1>3, <1>5, <1>7 DEF StepsDown
  <2>2. PICK f \in [N -> V] : \A q \in N : f[q] = step[q][IF q = z THEN a0 ELSE f[up[q]]]
    <3> HIDE DEF N, V, step, z
    <3> QED
      BY <2>1, DefinedDown
  <2>3. ASSUME NEW q \in N
        PROVE  f[q] = IF q = {} THEN a0 ELSE TakeEntry(f[q \ {Max(q)}], s[Max(q)])
    <3>1. CASE q = {}
      <4> HIDE DEF N, V
      <4>1. f[q] = step[q][a0]
        BY <2>2, <3>1
      <4> QED
        BY <1>5, <3>1, <4>1
    <3>2. CASE q # {}
      <4>1. up[q] = q \ {Max(q)} /\ q \ {Max(q)} \in N
        BY <1>3, <3>2
      <4> DEFINE w == f[q \ {Max(q)}]
      <4> HIDE DEF N, V
      <4>2. w \in V
        BY <4>1
      <4>3. f[q] = step[q][w]
        <5> HIDE DEF step
        <5> QED
          BY <2>2, <3>2, <4>1
      <4> HIDE DEF w
      <4>4. f[q] = TakeEntry(w, s[Max(q)])
        BY <3>2, <4>2, <4>3
      <4> QED
        BY <3>2, <4>4 DEF w
    <3> QED
      BY <3>1, <3>2
  <2>4. f = [q \in N |-> f[q]]
    <3> HIDE DEF N, V
    <3> QED
      OBVIOUS
  <2>5. f = [q \in N |-> IF q = {} THEN a0 ELSE TakeEntry(f[q \ {Max(q)}], s[Max(q)])]
    <3> HIDE DEF N, V
    <3> QED
      BY <2>3, <2>4
  <2>6. N = SUBSET (DOMAIN s)
    BY <1>1
  <2>7. Is(f)
    <3> HIDE DEF N
    <3> QED
      BY <2>5, <2>6
  <2> QED
    BY <2>7
<1>9. Is(fold)
  <2> HIDE DEF Is
  <2> QED
    BY <1>8
<1>10. N = SUBSET (DOMAIN s)
  BY <1>1
<1> HIDE DEF fold
<1>11. \A q \in N : fold[q] = IF q = {} THEN a0 ELSE TakeEntry(fold[q \ {Max(q)}], s[Max(q)])
  <2> HIDE DEF N
  <2> QED
    BY <1>9, <1>10
<1> HIDE DEF V, step, Is
<1> DEFINE T == {q \in N : AccOK(fold[q], old, b0, {s[i] : i \in q})}
<1>12. {} \in T
  <2>1. {s[i] : i \in {}} = {} /\ {} \in N
    OBVIOUS
  <2>2. fold[{}] = a0
    BY <1>11, <2>1
  <2> QED
    BY <2>1, <2>2
<1>13. ASSUME NEW q \in N \ {{}}, up[q] \in T PROVE q \in T
  <2> DEFINE less == q \ {Max(q)}
             e == s[Max(q)]
             done == {s[i] : i \in less}
  <2>1. less \in N /\ up[q] = less /\ Max(q) \in q /\ e \in DirEntry
    BY <1>3, <1>4
  <2>2. AccOK(fold[less], old, b0, done)
    BY <1>13, <2>1
  <2>3. fold[q] = TakeEntry(fold[less], e)
    BY <1>11
  <2>4. {s[i] : i \in q} = done \cup {e}
    BY <2>1
  <2> HIDE DEF less, e, done
  <2>5. AccOK(fold[q], old, b0, done \cup {e})
    BY <2>1, <2>2, <2>3, TakeEntryIs
  <2> QED
    BY <2>4, <2>5
<1>14. D \in T
  <2> DEFINE z == {}
  <2>1. IsTree(N, z, up) /\ z \in T /\ \A q \in N \ {z} : up[q] \in T => q \in T
    BY <1>3, <1>12, <1>13
  <2> HIDE DEF N, T, z
  <2>2. N \subseteq T
    BY <2>1, TreeInduction
  <2>3. D \in N
    BY DEF N
  <2> QED
    BY <2>2, <2>3
<1>15. {s[i] : i \in D} = Range(s)
  BY <1>1 DEF Range
<1> QED
  BY <1>1, <1>2, <1>14, <1>15

-----------------------------------------------------------------------------
(* The invariant.                                                          *)

\* A pointer that the tree holds is into a buffer that the vector has or has
\* had, and in the one it has it is good.
HeldOK ==
    \A p \in held :
        /\ p.buffer <= buffer
        /\ p.buffer = buffer => p.pos \in DOMAIN nodes /\ nodes[p.pos].name = p.name

Inv == CacheIsTrue /\ HeldOK

\* The hash table before the listing.
LEMMA TableIs ==
  ASSUME NEW ns \in Seq(Node), buffer \in Nat
  PROVE  /\ TableOf(ns) \in [Names -> Slot \cup {NULL}]
         /\ \A n \in Names :
               IF TableOf(ns)[n] = NULL THEN \A i \in DOMAIN ns : ns[i].name # n
               ELSE /\ TableOf(ns)[n].pos \in DOMAIN ns
                    /\ ns[TableOf(ns)[n].pos].name = n
                    /\ TableOf(ns)[n].buffer = buffer
<1> DEFINE At(n) == {i \in 1 .. Len(ns) : ns[i].name = n}
           Found(n) == IF At(n) # {} THEN Min(At(n)) ELSE 0
<1>1. DOMAIN ns = 1 .. Len(ns) /\ Len(ns) \in Nat
  OBVIOUS
<1>2. TableOf(ns) = [n \in Names |-> IF Found(n) = 0 THEN NULL
                                     ELSE [buffer |-> buffer, pos |-> Found(n)]]
  BY DEF TableOf, SelectInSeq
<1>3. ASSUME NEW n, At(n) # {} PROVE Found(n) \in At(n) /\ Found(n) # 0
  <2>1. At(n) \in SUBSET Nat
    OBVIOUS
  <2>2. Min(At(n)) \in At(n)
    <3> HIDE DEF At
    <3> QED
      BY <1>3, <2>1, MinIsLeast
  <2> QED
    BY <1>3, <2>2
<1>4. \A n : At(n) = {} => Found(n) = 0
  OBVIOUS
<1>5. \A n : Found(n) # 0 => [buffer |-> buffer, pos |-> Found(n)] \in Slot
  <2> SUFFICES ASSUME NEW n, Found(n) # 0
               PROVE  [buffer |-> buffer, pos |-> Found(n)] \in Slot
    OBVIOUS
  <2>1. Found(n) \in 1 .. Len(ns)
    BY <1>3, <1>4
  <2> HIDE DEF Found
  <2> QED
    BY <1>1, <2>1 DEF Slot
<1>6. \A r \in Slot : r # NULL
  BY CacheAssumption DEF Slot
<1> HIDE DEF Found
<1>7. TableOf(ns) \in [Names -> Slot \cup {NULL}]
  BY <1>2, <1>5
<1>8. ASSUME NEW n \in Names
      PROVE  IF TableOf(ns)[n] = NULL THEN \A i \in DOMAIN ns : ns[i].name # n
             ELSE /\ TableOf(ns)[n].pos \in DOMAIN ns
                  /\ ns[TableOf(ns)[n].pos].name = n
                  /\ TableOf(ns)[n].buffer = buffer
  <2>1. CASE Found(n) = 0
    <3>1. TableOf(ns)[n] = NULL /\ At(n) = {}
      BY <1>2, <1>3, <2>1
    <3> QED
      BY <1>1, <3>1
  <2>2. CASE Found(n) # 0
    <3>1. TableOf(ns)[n] = [buffer |-> buffer, pos |-> Found(n)]
      BY <1>2, <2>2
    <3>2. TableOf(ns)[n] # NULL
      BY <1>5, <1>6, <2>2, <3>1
    <3>3. Found(n) \in At(n)
      BY <1>3, <1>4, <2>2
    <3> QED
      BY <1>1, <3>1, <3>2, <3>3
  <2> QED
    BY <2>1, <2>2
<1> QED
  BY <1>7, <1>8

\* What a listing begins with.
LEMMA ListingBegins ==
  ASSUME CacheIsTrue
  PROVE  AccOK([nodes |-> Cleared(nodes), buffer |-> buffer, capacity |-> capacity,
                table |-> TableOf(nodes)], nodes, buffer, {})
<1> DEFINE ns == Cleared(nodes)
           table == TableOf(nodes)
           a == [nodes |-> ns, buffer |-> buffer, capacity |-> capacity, table |-> table]
<1>1. /\ nodes \in Seq(Node) /\ buffer \in Nat /\ capacity \in Nat /\ Len(nodes) <= capacity
      /\ \A i, j \in DOMAIN nodes : nodes[i].name = nodes[j].name => i = j
  BY DEF CacheIsTrue, TypeOK
<1>2. \A i \in DOMAIN nodes : nodes[i].name \in Names
  <2>1. \A i \in DOMAIN nodes : nodes[i] \in Node
    BY <1>1
  <2> QED
    BY <2>1 DEF Node
<1>3. ns = [i \in 1 .. Len(nodes) |-> EmptyNode(nodes[i].name)]
  BY <1>1 DEF Cleared, EmptyNode
<1>4. /\ ns \in Seq(Node) /\ DOMAIN ns = DOMAIN nodes /\ Len(ns) = Len(nodes)
      /\ \A i \in DOMAIN nodes : ns[i] = EmptyNode(nodes[i].name)
  <2>1. \A i \in 1 .. Len(nodes) : EmptyNode(nodes[i].name) \in Node
    BY <1>1, <1>2, EmptyNodeIs
  <2> HIDE DEF ns
  <2> QED
    BY <1>1, <1>3, <2>1
<1>5. \A i \in DOMAIN nodes : /\ ns[i].name = nodes[i].name /\ ns[i].mostRecent = NULL
                              /\ Range(ns[i].versions) = {}
  <2> HIDE DEF ns
  <2>1. ASSUME NEW i \in DOMAIN nodes
        PROVE  /\ ns[i].name = nodes[i].name /\ ns[i].mostRecent = NULL
               /\ Range(ns[i].versions) = {}
    <3>1. nodes[i].name \in Names /\ ns[i] = EmptyNode(nodes[i].name)
      BY <1>2, <1>4
    <3> QED
      BY <3>1, EmptyNodeIs
  <2> QED
    BY <2>1
<1>6. /\ table \in [Names -> Slot \cup {NULL}]
      /\ \A n \in Names :
            IF table[n] = NULL THEN \A i \in DOMAIN nodes : nodes[i].name # n
            ELSE /\ table[n].pos \in DOMAIN nodes
                 /\ nodes[table[n].pos].name = n
                 /\ table[n].buffer = buffer
  BY <1>1, TableIs
<1> HIDE DEF ns, table
<1>7. a \in Acc
  BY <1>1, <1>4, <1>6 DEF Acc
<1>8. a.nodes = ns /\ a.buffer = buffer /\ a.capacity = capacity /\ a.table = table
  OBVIOUS
<1> HIDE DEF a
<1>9. Whole(a)
  BY <1>1, <1>4, <1>5, <1>8 DEF Whole
<1>10. Tabled(a, buffer)
  BY <1>1, <1>4, <1>5, <1>6, <1>8 DEF Tabled
<1>11. Extended(a, nodes, buffer)
  BY <1>1, <1>4, <1>5, <1>8 DEF Extended
<1>12. FromEntries(a.nodes, {})
  BY <1>4, <1>5, <1>8 DEF FromEntries
<1>13. Complete(a, buffer, {}) /\ Grown(a, nodes, buffer, {})
  BY <1>4, <1>8 DEF Complete, Grown
<1>14. Named(a, nodes, {})
  BY <1>4, <1>5, <1>8 DEF Named
<1>15. Offering(a.nodes, nodes, 0)
  BY <1>1, <1>4, <1>8 DEF Offering
<1>16. Roomy(a, buffer)
  BY DEF Roomy, a
<1> QED
  BY <1>7, <1>9, <1>10, <1>11, <1>12, <1>13, <1>14, <1>15, <1>16 DEF AccOK, a, ns, table

\* What a listing ends with.
LEMMA GetChildrenIs ==
  ASSUME CacheIsTrue, GetChildren
  PROVE  \E a : /\ AccOK(a, nodes, buffer, Range(server))
                /\ nodes' = a.nodes /\ buffer' = a.buffer /\ capacity' = a.capacity
<1> DEFINE a0 == [nodes |-> Cleared(nodes), buffer |-> buffer, capacity |-> capacity,
                  table |-> TableOf(nodes)]
           a == FoldLeft(TakeEntry, a0, server)
<1>1. AccOK(a0, nodes, buffer, {})
  BY ListingBegins
<1>2. nodes' = a.nodes /\ buffer' = a.buffer /\ capacity' = a.capacity
  BY DEF GetChildren
<1>3. nodes \in Seq(Node) /\ buffer \in Nat /\ capacity \in Nat /\ server \in Seq(DirEntry)
  BY DEF CacheIsTrue, TypeOK
<1> HIDE DEF a0
<1>4. AccOK(a, nodes, buffer, Range(server))
  BY <1>1, <1>3, ListingIs
<1> HIDE DEF a
<1> QED
  BY <1>2, <1>4

\* The greatest of the versions.
LEMMA NewestIs ==
  ASSUME NEW versions \in Seq(1 .. MaxId), versions # <<>>
  PROVE  /\ Newest(versions) \in Range(versions) /\ Newest(versions) \in 1 .. MaxId
         /\ \A v \in Range(versions) : v <= Newest(versions)
<1>1. Range(versions) \in SUBSET (1 .. MaxId) /\ Range(versions) # {}
  <2>1. DOMAIN versions = 1 .. Len(versions) /\ Len(versions) \in Nat /\ Len(versions) # 0
    OBVIOUS
  <2> DEFINE S == 1 .. MaxId
  <2>2. \A i \in 1 .. Len(versions) : versions[i] \in S
    <3>1. versions \in Seq(S)
      OBVIOUS
    <3> HIDE DEF S
    <3> QED
      BY <3>1
  <2>3. 1 \in DOMAIN versions
    BY <2>1
  <2> QED
    BY <2>1, <2>2, <2>3 DEF Range
<1>2. MaxId \in Nat
  BY CacheAssumption
<1>3. Max(Range(versions)) \in Range(versions)
      /\ \A v \in Range(versions) : v <= Max(Range(versions))
  BY <1>1, <1>2, MaxIsGreatest
<1> QED
  BY <1>1, <1>3 DEF Newest

\* The directory as it is on the store, and the connection, have their types.
LEMMA NextStoreTyped ==
  ASSUME TypeOK, Next
  PROVE  /\ server' \in Seq(DirEntry) /\ listed' \in Seq(DirEntry)
         /\ newest' \in 0 .. MaxId
         /\ index' \in 1 .. MaxIndex
         /\ cachedIndex' \in 1 .. MaxIndex \cup {NULL}
<1>1. /\ server \in Seq(DirEntry) /\ listed \in Seq(DirEntry) /\ newest \in 0 .. MaxId
      /\ index \in 1 .. MaxIndex /\ cachedIndex \in 1 .. MaxIndex \cup {NULL}
      /\ MaxId \in Nat /\ MaxIndex \in Nat
  BY CacheAssumption DEF TypeOK
<1>2. ASSUME NEW n \in Names, Upload(n) PROVE server' \in Seq(DirEntry) /\ newest' \in 0 .. MaxId
  <2>1. newest' \in 1 .. MaxId
    BY <1>1, <1>2 DEF Upload
  <2>2. [name |-> n, id |-> newest'] \in DirEntry
    BY <2>1 DEF DirEntry
  <2> QED
    BY <1>1, <1>2, <2>1, <2>2 DEF Upload
<1>3. ASSUME NEW i \in DOMAIN server, Expire(i) PROVE server' \in Seq(DirEntry)
  BY <1>1, <1>3, RemoveAtProperties DEF Expire
<1>4. CASE \E n \in Names : Upload(n)
  BY <1>1, <1>2, <1>4 DEF Upload
<1>5. CASE \E i \in DOMAIN server : Expire(i)
  BY <1>1, <1>3, <1>5 DEF Expire
<1>6. CASE Reconnect
  BY <1>1, <1>6 DEF Reconnect, store
<1>7. CASE GetChildren
  <2>1. server' = server /\ newest' = newest /\ listed' = server
        /\ \E now \in {index, index + 1} : now <= MaxIndex /\ index' = now /\ cachedIndex' = now
    BY <1>7 DEF GetChildren, store
  <2> QED
    BY <1>1, <2>1
<1>8. CASE Expand
  BY <1>1, <1>8 DEF Expand, store
<1>9. CASE \E i \in DOMAIN nodes : GetMostRecent(i)
  BY <1>1, <1>9 DEF GetMostRecent, store
<1> QED
  BY <1>4, <1>5, <1>6, <1>7, <1>8, <1>9 DEF Next

\* At the beginning there is nothing.
LEMMA InitInv == Init => Inv
<1> SUFFICES ASSUME Init PROVE Inv
  OBVIOUS
<1>1. \A S : <<>> \in Seq(S)
  OBVIOUS
<1>2. TypeOK
  BY <1>1, CacheAssumption DEF Init, TypeOK
<1> QED
  BY <1>2 DEF Init, Inv, CacheIsTrue, HeldOK

\* The pointers that are held stay good through a listing that leaves the vector
\* where it is.
LEMMA GetChildrenHeld ==
  ASSUME Inv, GetChildren
  PROVE  /\ buffer' \in Nat /\ buffer <= buffer'
         /\ \A i \in DOMAIN nodes : i \in DOMAIN nodes' /\ nodes'[i].name = nodes[i].name
<1>1. PICK a : /\ AccOK(a, nodes, buffer, Range(server))
               /\ nodes' = a.nodes /\ buffer' = a.buffer /\ capacity' = a.capacity
  BY GetChildrenIs DEF Inv
<1>2. nodes \in Seq(Node) /\ a.nodes \in Seq(Node) /\ a.buffer \in Nat
  BY <1>1 DEF Inv, CacheIsTrue, TypeOK, AccOK, Acc
<1>3. /\ buffer <= a.buffer /\ Len(nodes) <= Len(a.nodes)
      /\ \A i \in DOMAIN nodes : a.nodes[i].name = nodes[i].name
  BY <1>1 DEF AccOK, Extended
<1>4. DOMAIN nodes \subseteq DOMAIN a.nodes
  BY <1>2, <1>3
<1> QED
  BY <1>1, <1>2, <1>3, <1>4

\* A listing keeps the invariant.
LEMMA GetChildrenKeepsInv == Inv /\ GetChildren => Inv'
<1> SUFFICES ASSUME Inv, GetChildren PROVE Inv'
  OBVIOUS
<1>1. PICK a : /\ AccOK(a, nodes, buffer, Range(server))
               /\ nodes' = a.nodes /\ buffer' = a.buffer /\ capacity' = a.capacity
  BY GetChildrenIs DEF Inv
<1>2. held' = held /\ listed' = server
  BY DEF GetChildren
<1>3. TypeOK'
  <2>1. /\ a.nodes \in Seq(Node) /\ a.buffer \in Nat /\ a.capacity \in Nat
        /\ Len(a.nodes) <= a.capacity
    BY <1>1 DEF AccOK, Acc, Whole
  <2>2. /\ server' \in Seq(DirEntry) /\ listed' \in Seq(DirEntry) /\ newest' \in 0 .. MaxId
        /\ index' \in 1 .. MaxIndex /\ cachedIndex' \in 1 .. MaxIndex \cup {NULL}
    BY NextStoreTyped DEF Inv, CacheIsTrue, Next
  <2>3. held \subseteq Pointer
    BY DEF Inv, CacheIsTrue, TypeOK
  <2> QED
    BY <1>1, <1>2, <2>1, <2>2, <2>3 DEF TypeOK
<1>4. CacheIsTrue'
  <2>1. /\ \A i \in DOMAIN a.nodes : a.nodes[i].mostRecent = NULL
        /\ \A i, j \in DOMAIN a.nodes : a.nodes[i].name = a.nodes[j].name => i = j
        /\ \A i \in DOMAIN a.nodes : \A v \in Range(a.nodes[i].versions) :
               [name |-> a.nodes[i].name, id |-> v] \in Range(server)
    BY <1>1 DEF AccOK, Whole, FromEntries
  <2> QED
    BY <1>1, <1>2, <1>3, <2>1 DEF CacheIsTrue
<1>5. HeldOK'
  <2> SUFFICES ASSUME NEW p \in held
               PROVE  /\ p.buffer <= buffer'
                      /\ p.buffer = buffer' => p.pos \in DOMAIN nodes' /\ nodes'[p.pos].name = p.name
    BY <1>2 DEF HeldOK
  <2>1. p.buffer \in Nat /\ buffer \in Nat
    BY DEF Inv, CacheIsTrue, TypeOK, Pointer
  <2>2. /\ p.buffer <= buffer
        /\ p.buffer = buffer => p.pos \in DOMAIN nodes /\ nodes[p.pos].name = p.name
    BY DEF Inv, HeldOK
  <2>3. /\ buffer' \in Nat /\ buffer <= buffer'
        /\ \A i \in DOMAIN nodes : i \in DOMAIN nodes' /\ nodes'[i].name = nodes[i].name
    BY GetChildrenHeld
  <2>4. p.buffer <= buffer' /\ (p.buffer = buffer' => p.buffer = buffer)
    BY <2>1, <2>2, <2>3
  <2> QED
    BY <2>2, <2>3, <2>4
<1> QED
  BY <1>4, <1>5 DEF Inv

\* To look for the most recent version keeps the invariant.
LEMMA GetMostRecentKeepsInv ==
  ASSUME Inv, NEW i \in DOMAIN nodes, GetMostRecent(i)
  PROVE  Inv' /\ DOMAIN nodes' = DOMAIN nodes
         /\ \A j \in DOMAIN nodes : nodes'[j].name = nodes[j].name
<1> DEFINE m == Newest(nodes[i].versions)
           n == [nodes[i] EXCEPT !.mostRecent = m]
<1>1. nodes \in Seq(Node) /\ TypeOK
  BY DEF Inv, CacheIsTrue, TypeOK
<1>2. nodes[i] \in Node /\ nodes[i].versions \in Seq(1 .. MaxId) /\ nodes[i].versions # <<>>
  <2>1. nodes[i] \in Node
    BY <1>1
  <2> QED
    BY <2>1 DEF Node, GetMostRecent
<1>3. /\ m \in Range(nodes[i].versions) /\ m \in 1 .. MaxId
      /\ \A v \in Range(nodes[i].versions) : v <= m
  BY <1>2, NewestIs
<1> HIDE DEF m
<1>4. /\ n \in Node /\ n.name = nodes[i].name /\ n.versions = nodes[i].versions
      /\ n.mostRecent = m
  BY <1>2, <1>3 DEF Node
<1>5. nodes' = [nodes EXCEPT ![i] = n]
  BY DEF GetMostRecent, m
<1> HIDE DEF n
<1>6. /\ nodes' \in Seq(Node) /\ Len(nodes') = Len(nodes) /\ DOMAIN nodes' = DOMAIN nodes
      /\ \A j \in DOMAIN nodes : nodes'[j] = IF j = i THEN n ELSE nodes[j]
  <2>1. nodes' \in Seq(Node) /\ Len(nodes') = Len(nodes) /\ DOMAIN nodes' = DOMAIN nodes
    BY <1>1, <1>4, <1>5
  <2> QED
    BY <1>5, <2>1
<1>7. \A j \in DOMAIN nodes : nodes'[j].name = nodes[j].name /\ nodes'[j].versions = nodes[j].versions
  BY <1>4, <1>6
<1>8. UNCHANGED <<server, newest, index, buffer, capacity, cachedIndex, listed, held>>
  BY DEF GetMostRecent, store
<1>9. TypeOK'
  BY <1>1, <1>6, <1>8 DEF TypeOK
<1>10. CacheIsTrue'
  <2>1. \A j, k \in DOMAIN nodes' : nodes'[j].name = nodes'[k].name => j = k
    BY <1>6, <1>7 DEF Inv, CacheIsTrue
  <2>2. \A j \in DOMAIN nodes' : \A v \in Range(nodes'[j].versions) :
           [name |-> nodes'[j].name, id |-> v] \in Range(listed')
    BY <1>6, <1>7, <1>8 DEF Inv, CacheIsTrue
  <2>3. \A j \in DOMAIN nodes' : nodes'[j].mostRecent # NULL =>
           /\ nodes'[j].mostRecent \in Range(nodes'[j].versions)
           /\ \A v \in Range(nodes'[j].versions) : v <= nodes'[j].mostRecent
    <3> SUFFICES ASSUME NEW j \in DOMAIN nodes, nodes'[j].mostRecent # NULL
                 PROVE  /\ nodes'[j].mostRecent \in Range(nodes'[j].versions)
                        /\ \A v \in Range(nodes'[j].versions) : v <= nodes'[j].mostRecent
      BY <1>6
    <3>1. CASE j = i
      BY <1>3, <1>4, <1>6, <3>1
    <3>2. CASE j # i
      BY <1>6, <3>2 DEF Inv, CacheIsTrue
    <3> QED
      BY <3>1, <3>2
  <2> QED
    BY <1>9, <2>1, <2>2, <2>3 DEF CacheIsTrue
<1>11. HeldOK'
  BY <1>6, <1>7, <1>8 DEF Inv, HeldOK
<1> QED
  BY <1>6, <1>7, <1>10, <1>11 DEF Inv

\* Every step keeps the invariant.
LEMMA NextInv == Inv /\ [Next]_vars => Inv'
<1> SUFFICES ASSUME Inv, [Next]_vars PROVE Inv'
  OBVIOUS
<1>1. ASSUME Next, UNCHANGED <<nodes, buffer, capacity, listed>>, HeldOK', held' \subseteq Pointer
      PROVE  Inv'
  <2>1. TypeOK'
    <3>1. /\ server' \in Seq(DirEntry) /\ listed' \in Seq(DirEntry) /\ newest' \in 0 .. MaxId
          /\ index' \in 1 .. MaxIndex /\ cachedIndex' \in 1 .. MaxIndex \cup {NULL}
      BY <1>1, NextStoreTyped DEF Inv, CacheIsTrue
    <3> QED
      BY <1>1, <3>1 DEF Inv, CacheIsTrue, TypeOK
  <2>2. CacheIsTrue'
    BY <1>1, <2>1 DEF Inv, CacheIsTrue
  <2> QED
    BY <1>1, <2>2 DEF Inv
<1>2. held \subseteq Pointer
  BY DEF Inv, CacheIsTrue, TypeOK
<1>3. ASSUME Next, UNCHANGED <<vector, listed, held>> PROVE Inv'
  <2>1. HeldOK'
    BY <1>3 DEF vector, Inv, HeldOK
  <2> QED
    BY <1>1, <1>2, <1>3, <2>1 DEF vector
<1>4. CASE \E n \in Names : Upload(n)
  BY <1>3, <1>4 DEF Upload, Next
<1>5. CASE \E i \in DOMAIN server : Expire(i)
  BY <1>3, <1>5 DEF Expire, Next
<1>6. CASE Reconnect
  BY <1>3, <1>6 DEF Reconnect, Next
<1>7. CASE GetChildren
  BY <1>7, GetChildrenKeepsInv
<1>8. CASE Expand
  <2>1. /\ nodes \in Seq(Node) /\ buffer \in Nat
    BY DEF Inv, CacheIsTrue, TypeOK
  <2>2. \A i \in DOMAIN nodes : i \in Nat \ {0} /\ nodes[i].name \in Names
    <3>1. \A i \in DOMAIN nodes : i \in Nat \ {0} /\ nodes[i] \in Node
      BY <2>1
    <3> QED
      BY <3>1 DEF Node
  <2>3. held' \subseteq Pointer
    BY <1>2, <1>8, <2>1, <2>2 DEF Expand, Pointer
  <2>4. HeldOK'
    <3> SUFFICES ASSUME NEW p \in held'
                 PROVE  /\ p.buffer <= buffer
                        /\ p.buffer = buffer => p.pos \in DOMAIN nodes /\ nodes[p.pos].name = p.name
      BY <1>8 DEF Expand, vector, HeldOK
    <3>1. CASE p \in held
      BY <3>1 DEF Inv, HeldOK
    <3>2. CASE p \notin held
      <4>1. PICK i \in DOMAIN nodes : p = [buffer |-> buffer, pos |-> i, name |-> nodes[i].name]
        BY <1>8, <3>2 DEF Expand
      <4> QED
        BY <2>1, <4>1
    <3> QED
      BY <3>1, <3>2
  <2> QED
    BY <1>1, <1>8, <2>3, <2>4 DEF Expand, vector, Next
<1>9. CASE \E i \in DOMAIN nodes : GetMostRecent(i)
  BY <1>9, GetMostRecentKeepsInv
<1>10. CASE UNCHANGED vars
  BY <1>10 DEF vars, vector, store, Inv, CacheIsTrue, HeldOK, TypeOK
<1> QED
  BY <1>4, <1>5, <1>6, <1>7, <1>8, <1>9, <1>10 DEF Next

\* The invariant holds.
LEMMA SpecInv == Spec => []Inv
BY InitInv, NextInv, PTL DEF Spec

\* What the trees show and offer is the last listing and nothing older, for any
\* number of listings over any number of connections (ServerCacheNode::GetChildren
\* and GetMostRecent).
THEOREM ListingIsTrue == Spec => []CacheIsTrue
<1>1. Inv => CacheIsTrue
  BY DEF Inv
<1> QED
  BY <1>1, SpecInv, PTL

\* A listing that brings no new name leaves the vector where it is.
LEMMA SameNamesStay ==
  ASSUME Inv, GetChildren, {e.name : e \in Range(listed')} \subseteq {c.name : c \in Range(nodes)}
  PROVE  buffer' = buffer
<1>1. PICK a : /\ AccOK(a, nodes, buffer, Range(server))
               /\ nodes' = a.nodes /\ buffer' = a.buffer /\ capacity' = a.capacity
  BY GetChildrenIs DEF Inv
<1>2. listed' = server
  BY DEF GetChildren
<1>3. ASSUME NEW e \in Range(server) PROVE \E i \in DOMAIN nodes : nodes[i].name = e.name
  <2>1. PICK c \in Range(nodes) : c.name = e.name
    BY <1>2
  <2>2. PICK i \in DOMAIN nodes : c = nodes[i]
    BY DEF Range
  <2> QED
    BY <2>1, <2>2
<1>4. a.buffer = buffer
  BY <1>1, <1>3 DEF AccOK, Grown
<1> QED
  BY <1>1, <1>4

\* The pointers to children that the tree on the screen holds survive a listing
\* under a new connection that brings no new name, and every other step.
THEOREM HeldSurvives == Spec => HeldSurvivesSameNames
<1> DEFINE Survives ==
      \A p \in held :
          (/\ p.buffer = buffer
           /\ {e.name : e \in Range(listed')} \subseteq {c.name : c \in Range(nodes)})
          => /\ p.buffer = buffer'
             /\ p.pos \in DOMAIN nodes'
             /\ nodes'[p.pos].name = p.name
<1>1. ASSUME Inv, [Next]_vars PROVE [Survives]_vars
  <2> SUFFICES ASSUME Next, NEW p \in held, p.buffer = buffer,
                      {e.name : e \in Range(listed')} \subseteq {c.name : c \in Range(nodes)}
               PROVE  /\ p.buffer = buffer'
                      /\ p.pos \in DOMAIN nodes'
                      /\ nodes'[p.pos].name = p.name
    BY <1>1
  <2>1. p.pos \in DOMAIN nodes /\ nodes[p.pos].name = p.name
    BY <1>1 DEF Inv, HeldOK
  <2>2. CASE GetChildren
    BY <1>1, <2>1, <2>2, SameNamesStay, GetChildrenHeld
  <2>3. CASE \E i \in DOMAIN nodes : GetMostRecent(i)
    <3>1. PICK i \in DOMAIN nodes : GetMostRecent(i)
      BY <2>3
    <3>2. buffer' = buffer
      BY <3>1 DEF GetMostRecent
    <3> QED
      BY <1>1, <2>1, <3>1, <3>2, GetMostRecentKeepsInv
  <2>4. CASE UNCHANGED vector
    BY <2>1, <2>4 DEF vector
  <2> QED
    BY <2>2, <2>3, <2>4 DEF Next, Upload, Expire, Reconnect, Expand
<1> QED
  <2>1. Spec => [][Survives]_vars
    <3> HIDE DEF Survives
    <3> QED
      BY <1>1, SpecInv, PTL DEF Spec
  <2> QED
    BY <2>1 DEF HeldSurvivesSameNames

-----------------------------------------------------------------------------
(* The refinement.                                                         *)

\* Names have one node.
OneNode(ns) == \A i, j \in DOMAIN ns : ns[i].name = ns[j].name => i = j

\* The node of a name is the only one there is.
LEMMA OfIs ==
  ASSUME NEW ns, OneNode(ns), NEW n
  PROVE  /\ \A i \in DOMAIN ns : ns[i].name = n => Of(ns, n) = {ns[i]}
         /\ (\A i \in DOMAIN ns : ns[i].name # n) => Of(ns, n) = {}
BY DEF Of, OneNode

\* What is offered of a name are the versions of its node.
LEMMA OfferedIs ==
  ASSUME NEW ns, OneNode(ns), NEW n \in Names
  PROVE  /\ \A i \in DOMAIN ns : ns[i].name = n =>
               Offered(ns)[n] = Range(ns[i].versions) /\ Best(ns)[n] = BestOf(ns[i])
         /\ (\A i \in DOMAIN ns : ns[i].name # n) => Offered(ns)[n] = {} /\ Best(ns)[n] = {}
<1>1. /\ Offered(ns)[n] = UNION {Range(c.versions) : c \in Of(ns, n)}
      /\ Best(ns)[n] = UNION {BestOf(c) : c \in Of(ns, n)}
  BY DEF Offered, Best
<1>2. ASSUME NEW i \in DOMAIN ns, ns[i].name = n
      PROVE  Offered(ns)[n] = Range(ns[i].versions) /\ Best(ns)[n] = BestOf(ns[i])
  <2>1. Of(ns, n) = {ns[i]}
    BY <1>2, OfIs
  <2> QED
    BY <1>1, <2>1
<1>3. ASSUME \A i \in DOMAIN ns : ns[i].name # n PROVE Offered(ns)[n] = {} /\ Best(ns)[n] = {}
  <2>1. Of(ns, n) = {}
    BY <1>3, OfIs
  <2> QED
    BY <1>1, <2>1
<1> QED
  BY <1>2, <1>3

\* There are as many names as nodes.
LEMMA NamesCounted ==
  ASSUME NEW ns \in Seq(Node), OneNode(ns)
  PROVE  Cardinality({c.name : c \in Range(ns)}) = Len(ns)
<1> DEFINE S == {c.name : c \in Range(ns)}
           f == [i \in 1 .. Len(ns) |-> ns[i].name]
<1>1. Len(ns) \in Nat /\ DOMAIN ns = 1 .. Len(ns)
  OBVIOUS
<1>2. f \in Bijection(1 .. Len(ns), S)
  <2>1. \A i \in 1 .. Len(ns) : ns[i].name \in S
    BY <1>1 DEF Range
  <2>2. \A x \in S : \E i \in 1 .. Len(ns) : ns[i].name = x
    BY <1>1 DEF Range
  <2>3. \A i, j \in 1 .. Len(ns) : ns[i].name = ns[j].name => i = j
    BY <1>1 DEF OneNode
  <2> HIDE DEF S
  <2> QED
    BY <2>1, <2>2, <2>3, Zenon DEF Bijection, Injection, Surjection, IsInjective
<1>3. ExistsBijection(1 .. Len(ns), S)
  BY <1>2 DEF ExistsBijection
<1> HIDE DEF S
<1> QED
  BY <1>1, <1>3, FS_CountingElements DEF S

\* An upload puts a version on the server.
LEMMA UploadPuts ==
  ASSUME TypeOK, NEW n \in Names, Upload(n)
  PROVE  Directory!Put(n)
<1>1. server \in Seq(DirEntry) /\ newest \in 0 .. MaxId /\ MaxId \in Nat
  BY CacheAssumption DEF TypeOK
<1>2. newest' = newest + 1 /\ newest' \in 1 .. MaxId
  BY <1>1 DEF Upload
<1> DEFINE e == [name |-> n, id |-> newest']
<1>3. e \in DirEntry /\ server' = Append(server, e)
  BY <1>2 DEF Upload, DirEntry
<1> HIDE DEF e
<1>4. Range(server') = Range(server) \cup {e}
  BY <1>1, <1>3, AppendIs
<1>5. Stored(server') = [Stored(server) EXCEPT ![n] = @ \cup {newest'}]
  BY <1>2, <1>4 DEF Stored, e
<1>6. Stored(server)' = Stored(server')
  BY DEF Stored
<1>7. UNCHANGED <<nodes, capacity, index, cachedIndex>>
  BY DEF Upload, vector
<1> QED
  BY <1>2, <1>5, <1>6, <1>7 DEF Directory!Put, Offered, Best, Of, BestOf

\* When housekeeping removes an object its version is no longer on the server.
LEMMA ExpireRemoves ==
  ASSUME TypeOK, NEW i \in DOMAIN server, Expire(i)
  PROVE  [Directory!Next]_Directory!vars
<1> DEFINE n == server[i].name
           v == server[i].id
<1>1. server \in Seq(DirEntry) /\ i \in 1 .. Len(server)
  BY DEF TypeOK
<1>2. n \in Names /\ v \in 1 .. MaxId /\ server[i] = [name |-> n, id |-> v]
  <2>1. server[i] \in DirEntry
    BY <1>1
  <2> QED
    BY <2>1 DEF DirEntry
<1>3. server' = RemoveAt(server, i)
      /\ UNCHANGED <<newest, nodes, capacity, index, cachedIndex>>
  BY DEF Expire, vector
<1>4. Range(server') \in {Range(server), Range(server) \ {server[i]}}
  <2> DEFINE t == RemoveAt(server, i)
  <2>1. /\ Len(t) = Len(server) - 1 /\ t \in Seq(DirEntry)
        /\ \A j \in 1 .. Len(server) - 1 : t[j] = IF j < i THEN server[j] ELSE server[j + 1]
    BY <1>1, RemoveAtProperties
  <2> HIDE DEF t
  <2>2. Range(t) \subseteq Range(server)
    BY <1>1, <2>1 DEF Range
  <2>3. ASSUME NEW j \in 1 .. Len(server), j # i PROVE server[j] \in Range(t)
    <3>1. CASE j < i
      <4>1. j \in DOMAIN t /\ t[j] = server[j]
        BY <1>1, <2>1, <3>1
      <4> QED
        BY <4>1 DEF Range
    <3>2. CASE j > i
      <4>1. j - 1 \in DOMAIN t /\ t[j - 1] = server[j]
        BY <1>1, <2>1, <3>2
      <4> QED
        BY <4>1 DEF Range
    <3> QED
      BY <1>1, <2>3, <3>1, <3>2
  <2>4. \A x \in Range(server) : x = server[i] \/ x \in Range(t)
    BY <1>1, <2>3 DEF Range
  <2>5. Range(t) = Range(server) \/ Range(t) = Range(server) \ {server[i]}
    BY <2>2, <2>4
  <2> QED
    BY <1>3, <2>5 DEF t
<1>5. Stored(server)' = Stored(server')
  BY DEF Stored
<1> HIDE DEF n, v
<1>6. CASE Range(server') = Range(server)
  <2>1. Stored(server') = Stored(server)
    BY <1>6 DEF Stored
  <2> QED
    BY <1>3, <1>5, <2>1 DEF Directory!vars, Offered, Best, Of, BestOf
<1>7. CASE Range(server') = Range(server) \ {server[i]}
  <2>1. Stored(server') = [Stored(server) EXCEPT ![n] = @ \ {v}]
    <3>1. ASSUME NEW m \in Names, NEW w \in 1 .. MaxId
          PROVE  [name |-> m, id |-> w] \in Range(server') <=>
                   [name |-> m, id |-> w] \in Range(server) /\ ~ (m = n /\ w = v)
      BY <1>2, <1>7
    <3>2. \A m \in Names : Stored(server')[m] = IF m = n THEN Stored(server)[m] \ {v}
                                                ELSE Stored(server)[m]
      BY <3>1 DEF Stored
    <3>3. DOMAIN Stored(server') = Names /\ DOMAIN Stored(server) = Names
          /\ Stored(server') = [m \in Names |-> Stored(server')[m]]
      BY DEF Stored
    <3>4. [Stored(server) EXCEPT ![n] = @ \ {v}] =
            [m \in Names |-> IF m = n THEN Stored(server)[m] \ {v} ELSE Stored(server)[m]]
      BY <1>2, <3>3
    <3> QED
      BY <3>2, <3>3, <3>4
  <2>2. v \in Stored(server)[n]
    BY <1>1, <1>2 DEF Stored, Range
  <2>3. Directory!Remove(n, v)
    BY <1>3, <1>5, <2>1 DEF Directory!Remove, Offered, Best, Of, BestOf
  <2> QED
    BY <1>2, <2>2, <2>3 DEF Directory!Next
<1> QED
  BY <1>4, <1>6, <1>7

\* A listing is one of Catalogue: it shows every name, offers what is stored
\* unless the vector had to grow, and a version of every new name even then.
LEMMA GetChildrenLists ==
  ASSUME Inv, GetChildren
  PROVE  Directory!List
<1> DEFINE before == {c.name : c \in Range(nodes)}
           after == {c.name : c \in Range(nodes')}
           all == {n \in Names : Stored(server)[n] # {}}
<1>1. PICK a : /\ AccOK(a, nodes, buffer, Range(server))
               /\ nodes' = a.nodes /\ buffer' = a.buffer /\ capacity' = a.capacity
  BY GetChildrenIs DEF Inv
<1>2. /\ nodes \in Seq(Node) /\ nodes' \in Seq(Node) /\ server \in Seq(DirEntry)
      /\ capacity \in Nat /\ capacity' \in Nat
  BY <1>1 DEF Inv, CacheIsTrue, TypeOK, AccOK, Acc
<1>3. /\ OneNode(nodes') /\ \A i \in DOMAIN nodes' : nodes'[i].mostRecent = NULL
      /\ Len(nodes') <= capacity'
  BY <1>1 DEF AccOK, Whole, OneNode
<1>4. /\ cachedIndex # index /\ index' \in {index, index + 1} /\ cachedIndex' = index'
      /\ server' = server /\ newest' = newest
  BY DEF GetChildren, store
<1>5. \A i \in DOMAIN nodes' : nodes'[i].name \in Names /\ nodes'[i].versions \in Seq(1 .. MaxId)
  <2>1. \A i \in DOMAIN nodes' : nodes'[i] \in Node
    BY <1>2
  <2> QED
    BY <2>1 DEF Node
<1>6. \A i \in DOMAIN nodes : nodes[i].name \in Names
  <2>1. \A i \in DOMAIN nodes : nodes[i] \in Node
    BY <1>2
  <2> QED
    BY <2>1 DEF Node
<1>7. \A e \in Range(server) : e \in DirEntry
  BY <1>2 DEF Range
<1>8. \A n : n \in before <=> \E i \in DOMAIN nodes : nodes[i].name = n
  BY DEF Range
<1>9. \A n : n \in after <=> \E i \in DOMAIN nodes' : nodes'[i].name = n
  BY DEF Range
<1>10. \A n \in Names : n \in all <=> \E e \in Range(server) : e.name = n
  <2> SUFFICES ASSUME NEW n \in Names
               PROVE  Stored(server)[n] # {} <=> \E e \in Range(server) : e.name = n
    OBVIOUS
  <2>1. Stored(server)[n] = {v \in 1 .. MaxId : [name |-> n, id |-> v] \in Range(server)}
    BY DEF Stored
  <2>2. \A e \in Range(server) : e = [name |-> e.name, id |-> e.id] /\ e.id \in 1 .. MaxId
    BY <1>7 DEF DirEntry
  <2> QED
    BY <2>1, <2>2
<1>11. after = before \cup all
  <2>1. \A n \in Names : n \in after <=> n \in before \/ n \in all
    <3>1. \A n \in Names : (\E i \in DOMAIN nodes' : nodes'[i].name = n) <=>
             ((\E i \in DOMAIN nodes : nodes[i].name = n) \/ (\E e \in Range(server) : e.name = n))
      BY <1>1 DEF AccOK, Named
    <3> HIDE DEF before, after, all
    <3> QED
      BY <1>8, <1>9, <1>10, <3>1
  <2>2. before \subseteq Names /\ after \subseteq Names /\ all \subseteq Names
    <3>1. all \subseteq Names
      OBVIOUS
    <3> HIDE DEF before, after, all
    <3> QED
      BY <1>5, <1>6, <1>8, <1>9, <3>1
  <2> HIDE DEF before, after, all
  <2> QED
    BY <2>1, <2>2
<1>12. Cardinality(after) = Len(nodes')
  BY <1>2, <1>3, NamesCounted
<1>13. \A i \in DOMAIN nodes' : Offered(nodes')[nodes'[i].name] = Range(nodes'[i].versions)
  BY <1>3, <1>5, OfferedIs
<1>14. \A n \in Names : n \notin after => Offered(nodes')[n] = {}
  BY <1>3, <1>9, OfferedIs
<1> HIDE DEF before, after, all
<1>15. \A n \in Names : Offered(nodes')[n] \subseteq Stored(server)[n]
  <2> SUFFICES ASSUME NEW n \in Names, NEW v \in Offered(nodes')[n]
               PROVE  v \in Stored(server)[n]
    OBVIOUS
  <2>1. PICK i \in DOMAIN nodes' : nodes'[i].name = n
    BY <1>9, <1>14
  <2>2. v \in Range(nodes'[i].versions)
    BY <1>13, <2>1
  <2>3. [name |-> n, id |-> v] \in Range(server)
    BY <1>1, <2>1, <2>2 DEF AccOK, FromEntries
  <2>4. v \in 1 .. MaxId
    <3> DEFINE vs == nodes'[i].versions
               S == 1 .. MaxId
    <3>1. vs \in Seq(S) /\ v \in Range(vs)
      BY <1>5, <2>2
    <3> HIDE DEF vs, S
    <3>2. v \in S
      BY <3>1 DEF Range
    <3> QED
      BY <3>2 DEF S
  <2> QED
    BY <2>3, <2>4 DEF Stored
<1>16. ASSUME NEW n \in after \ before PROVE Offered(nodes')[n] # {}
  <2>1. PICK i \in DOMAIN nodes' : nodes'[i].name = n
    BY <1>9
  <2>2. \A j \in DOMAIN nodes : nodes'[j].name = nodes[j].name
    BY <1>1 DEF AccOK, Extended
  <2>3. i \notin DOMAIN nodes
    BY <1>8, <2>1, <2>2
  <2>4. Len(nodes) < i /\ i # 0
    BY <1>2, <2>3
  <2>5. nodes'[i].versions # <<>>
    BY <1>1, <2>4 DEF AccOK, Offering
  <2>6. Range(nodes'[i].versions) # {}
    <3> DEFINE vs == nodes'[i].versions
    <3>1. vs \in Seq(1 .. MaxId) /\ vs # <<>>
      BY <1>5, <2>5
    <3> HIDE DEF vs
    <3>2. 1 \in DOMAIN vs
      BY <3>1
    <3>3. Range(vs) # {}
      BY <3>2 DEF Range
    <3> QED
      BY <3>3 DEF vs
  <2> QED
    BY <1>13, <2>1, <2>6
<1>17. ASSUME Cardinality(after) <= capacity
       PROVE  capacity' = capacity /\ Offered(nodes') = Stored(server)
  <2>1. a.buffer = buffer
    <3>1. IF a.buffer = buffer THEN a.capacity = capacity ELSE capacity < Len(a.nodes)
      BY <1>1 DEF AccOK, Roomy
    <3> QED
      BY <1>1, <1>2, <1>12, <1>17, <3>1
  <2>2. capacity' = capacity
    BY <1>1, <2>1 DEF AccOK, Roomy
  <2>3. ASSUME NEW n \in Names, NEW v \in Stored(server)[n] PROVE v \in Offered(nodes')[n]
    <3>1. [name |-> n, id |-> v] \in Range(server)
      BY <2>3 DEF Stored
    <3>2. PICK i \in DOMAIN nodes' : nodes'[i].name = n /\ v \in Range(nodes'[i].versions)
      BY <1>1, <2>1, <3>1 DEF AccOK, Complete, HasVersion
    <3> QED
      BY <1>13, <3>2
  <2>4. \A n \in Names : Offered(nodes')[n] = Stored(server)[n]
    BY <1>15, <2>3
  <2> QED
    BY <2>2, <2>4 DEF Offered, Stored
<1>18. Best(nodes') = [n \in Names |-> Directory!Greatest(Offered(nodes')[n])]
  <2>1. ASSUME NEW n \in Names PROVE Best(nodes')[n] = Directory!Greatest(Offered(nodes')[n])
    <3>1. CASE n \in after
      <4>1. PICK i \in DOMAIN nodes' : nodes'[i].name = n
        BY <1>9, <3>1
      <4>2. Best(nodes')[n] = BestOf(nodes'[i])
        BY <1>3, <4>1, OfferedIs
      <4>3. Offered(nodes')[n] = Range(nodes'[i].versions) /\ nodes'[i].mostRecent = NULL
        BY <1>3, <1>13, <4>1
      <4> QED
        BY <4>2, <4>3 DEF BestOf, Directory!Greatest
    <3>2. CASE n \notin after
      <4>1. Best(nodes')[n] = {} /\ Offered(nodes')[n] = {}
        BY <1>3, <1>9, <3>2, OfferedIs
      <4> QED
        BY <4>1 DEF Directory!Greatest
    <3> QED
      BY <3>1, <3>2
  <2> QED
    BY <2>1 DEF Best
<1>19. /\ Stored(server)' = Stored(server) /\ Offered(nodes)' = Offered(nodes')
       /\ Best(nodes)' = Best(nodes')
  BY <1>4 DEF Stored, Offered, Best, Of, BestOf
<1>20. {c.name : c \in Range(nodes)}' = after /\ {c.name : c \in Range(nodes)} = before
  BY DEF after, before, Range
<1>21. {c.name : c \in Range(nodes)}' =
         {c.name : c \in Range(nodes)} \cup {n \in Names : Stored(server)[n] # {}}
  <2>1. all = {n \in Names : Stored(server)[n] # {}}
    BY DEF all
  <2> QED
    BY <1>11, <1>20, <2>1
<1>22. IF Cardinality({c.name : c \in Range(nodes)}') <= capacity
       THEN capacity' = capacity /\ Offered(nodes)' = Stored(server)
       ELSE /\ capacity' >= Cardinality({c.name : c \in Range(nodes)}')
            /\ \A n \in Names :
                  /\ Offered(nodes)'[n] \subseteq Stored(server)[n]
                  /\ n \in {c.name : c \in Range(nodes)}' \ {c.name : c \in Range(nodes)}
                       => Offered(nodes)'[n] # {}
  <2>1. CASE Cardinality(after) <= capacity
    BY <1>17, <1>19, <1>20, <2>1
  <2>2. CASE ~ (Cardinality(after) <= capacity)
    <3>1. capacity' >= Cardinality(after)
      BY <1>2, <1>3, <1>12
    <3>2. \A n \in Names : /\ Offered(nodes')[n] \subseteq Stored(server)[n]
                           /\ n \in after \ before => Offered(nodes')[n] # {}
      BY <1>15, <1>16
    <3> QED
      BY <1>19, <1>20, <2>2, <3>1, <3>2
  <2> QED
    BY <2>1, <2>2
<1>23. Best(nodes)' = [n \in Names |-> Directory!Greatest(Offered(nodes)'[n])]
  BY <1>18, <1>19
<1>24. Directory!Cardinality({c.name : c \in Range(nodes)}') =
         Cardinality({c.name : c \in Range(nodes)}')
  BY DEF Directory!Cardinality, Cardinality
<1> QED
  BY <1>4, <1>19, <1>21, <1>22, <1>23, <1>24 DEF Directory!List

\* To remember the most recent version changes nothing that is shown or offered.
LEMMA GetMostRecentShows ==
  ASSUME Inv, NEW i \in DOMAIN nodes, GetMostRecent(i)
  PROVE  UNCHANGED Directory!vars
<1> DEFINE m == Newest(nodes[i].versions)
           n == [nodes[i] EXCEPT !.mostRecent = m]
<1>1. nodes \in Seq(Node) /\ OneNode(nodes)
  BY DEF Inv, CacheIsTrue, TypeOK, OneNode
<1>2. nodes[i] \in Node
  BY <1>1
<1>3. /\ nodes[i].versions \in Seq(1 .. MaxId) /\ nodes[i].versions # <<>>
      /\ nodes[i].mostRecent = NULL
  BY <1>2 DEF Node, GetMostRecent
<1>4. /\ m \in Range(nodes[i].versions) /\ m \in 1 .. MaxId
      /\ \A v \in Range(nodes[i].versions) : v <= m
  BY <1>3, NewestIs
<1>5. nodes' = [nodes EXCEPT ![i] = n]
  BY DEF GetMostRecent
<1> HIDE DEF m
<1>6. n.name = nodes[i].name /\ n.versions = nodes[i].versions /\ n.mostRecent = m
  BY <1>2 DEF Node
<1> HIDE DEF n
<1>7. DOMAIN nodes' = DOMAIN nodes /\ \A j \in DOMAIN nodes : nodes'[j] = IF j = i THEN n ELSE nodes[j]
  BY <1>1, <1>5
<1>8. BestOf(n) = BestOf(nodes[i])
  <2>1. m # NULL
    BY <1>4, CacheAssumption
  <2>2. BestOf(n) = {m}
    BY <1>6, <2>1 DEF BestOf
  <2>3. BestOf(nodes[i]) = {v \in Range(nodes[i].versions) :
                              \A w \in Range(nodes[i].versions) : w <= v}
    BY <1>3 DEF BestOf
  <2>4. ASSUME NEW v \in Range(nodes[i].versions), m <= v PROVE v = m
    <3>1. v \in Nat
      <4> DEFINE vs == nodes[i].versions
                 S == 1 .. MaxId
      <4>1. vs \in Seq(S) /\ v \in Range(vs)
        BY <1>3
      <4> HIDE DEF vs, S
      <4>2. v \in S
        BY <4>1 DEF Range
      <4> QED
        BY <4>2 DEF S
    <3>2. v <= m
      BY <1>4
    <3> QED
      BY <1>4, <2>4, <3>1, <3>2
  <2> QED
    BY <1>4, <2>2, <2>3, <2>4
<1>9. /\ OneNode(nodes')
      /\ \A j \in DOMAIN nodes : /\ nodes'[j].name = nodes[j].name
                                 /\ nodes'[j].versions = nodes[j].versions
                                 /\ BestOf(nodes'[j]) = BestOf(nodes[j])
  BY <1>1, <1>6, <1>7, <1>8 DEF OneNode
<1>10. ASSUME NEW x \in Names
       PROVE  Offered(nodes')[x] = Offered(nodes)[x] /\ Best(nodes')[x] = Best(nodes)[x]
  <2>1. CASE \E j \in DOMAIN nodes : nodes[j].name = x
    <3>1. PICK j \in DOMAIN nodes : nodes[j].name = x
      BY <2>1
    <3>2. Offered(nodes)[x] = Range(nodes[j].versions) /\ Best(nodes)[x] = BestOf(nodes[j])
      BY <1>1, <3>1, OfferedIs
    <3>3. Offered(nodes')[x] = Range(nodes'[j].versions) /\ Best(nodes')[x] = BestOf(nodes'[j])
      BY <1>7, <1>9, <3>1, OfferedIs
    <3> QED
      BY <1>9, <3>2, <3>3
  <2>2. CASE \A j \in DOMAIN nodes : nodes[j].name # x
    <3>1. Offered(nodes)[x] = {} /\ Best(nodes)[x] = {}
      BY <1>1, <2>2, OfferedIs
    <3>2. \A j \in DOMAIN nodes' : nodes'[j].name # x
      BY <1>7, <1>9, <2>2
    <3>3. Offered(nodes')[x] = {} /\ Best(nodes')[x] = {}
      BY <1>9, <3>2, OfferedIs
    <3> QED
      BY <3>1, <3>3
  <2> QED
    BY <2>1, <2>2
<1>11. Offered(nodes') = Offered(nodes) /\ Best(nodes') = Best(nodes)
  BY <1>10 DEF Offered, Best
<1>12. {c.name : c \in Range(nodes')} = {c.name : c \in Range(nodes)}
  BY <1>7, <1>9 DEF Range
<1>13. UNCHANGED <<server, newest, index, capacity, cachedIndex>>
  BY DEF GetMostRecent, store
<1>14. /\ Stored(server)' = Stored(server) /\ Offered(nodes)' = Offered(nodes)
       /\ Best(nodes)' = Best(nodes)
       /\ {c.name : c \in Range(nodes)}' = {c.name : c \in Range(nodes)}
  <2>1. /\ Stored(server)' = Stored(server') /\ Offered(nodes)' = Offered(nodes')
        /\ Best(nodes)' = Best(nodes')
        /\ {c.name : c \in Range(nodes)}' = {c.name : c \in Range(nodes')}
    BY DEF Stored, Offered, Best, Of, BestOf, Range
  <2>2. server' = server
    BY <1>13
  <2> QED
    BY <1>11, <1>12, <2>1, <2>2
<1> QED
  BY <1>13, <1>14 DEF Directory!vars

\* At the beginning nothing is stored and nothing is shown.
LEMMA InitIsCatalogue == Init => Directory!Init
<1> SUFFICES ASSUME Init PROVE Directory!Init
  OBVIOUS
<1>1. server = <<>> /\ newest = 0 /\ index = 1 /\ nodes = <<>> /\ capacity = 0 /\ cachedIndex = NULL
  BY DEF Init
<1>2. Range(server) = {} /\ Range(nodes) = {} /\ DOMAIN nodes = {}
  BY <1>1 DEF Range
<1>3. Stored(server) = [n \in Names |-> {}]
  BY <1>2 DEF Stored
<1>4. OneNode(nodes)
  BY <1>2 DEF OneNode
<1>5. \A n \in Names : Offered(nodes)[n] = {} /\ Best(nodes)[n] = {}
  BY <1>2, <1>4, OfferedIs
<1>6. Offered(nodes) = [n \in Names |-> {}] /\ Best(nodes) = [n \in Names |-> {}]
  BY <1>5 DEF Offered, Best
<1>7. {c.name : c \in Range(nodes)} = {}
  BY <1>2
<1> QED
  BY <1>1, <1>3, <1>6, <1>7 DEF Directory!Init

\* Every step is one of Catalogue, or changes nothing that it speaks of.
LEMMA NextIsCatalogue ==
  ASSUME Inv, [Next]_vars
  PROVE  [Directory!Next]_Directory!vars
<1>1. TypeOK
  BY DEF Inv, CacheIsTrue
<1>2. CASE \E n \in Names : Upload(n)
  BY <1>1, <1>2, UploadPuts DEF Directory!Next
<1>3. CASE \E i \in DOMAIN server : Expire(i)
  BY <1>1, <1>3, ExpireRemoves
<1>4. CASE Reconnect
  <2>1. index' = index + 1 /\ UNCHANGED <<server, newest, nodes, capacity, cachedIndex>>
    BY <1>4 DEF Reconnect, store, vector
  <2>2. Directory!Connect
    BY <2>1 DEF Directory!Connect, Stored, Offered, Best, Of, BestOf
  <2> QED
    BY <2>2 DEF Directory!Next
<1>5. CASE GetChildren
  BY <1>5, GetChildrenLists DEF Directory!Next
<1>6. CASE Expand
  <2>1. UNCHANGED <<server, newest, index, nodes, capacity, cachedIndex>>
    BY <1>6 DEF Expand, store, vector
  <2> QED
    BY <2>1 DEF Directory!vars, Stored, Offered, Best, Of, BestOf
<1>7. CASE \E i \in DOMAIN nodes : GetMostRecent(i)
  BY <1>7, GetMostRecentShows
<1>8. CASE UNCHANGED vars
  <2>1. UNCHANGED <<server, newest, index, nodes, capacity, cachedIndex>>
    BY <1>8 DEF vars, store, vector
  <2> QED
    BY <2>1 DEF Directory!vars, Stored, Offered, Best, Of, BestOf
<1> QED
  BY <1>2, <1>3, <1>4, <1>5, <1>6, <1>7, <1>8 DEF Next

\* The cached directory keeps what Catalogue promises, for any names, versions
\* and connections: it is listed once in a session, shows every name that was
\* ever listed and offers exactly the versions of the last listing, unless that
\* one brought more names than the vector had room for; and what GetMostRecent
\* remembers makes no difference to anyone (IsCatalogue).
THEOREM CacheIsCatalogue == Spec => IsCatalogue
<1>1. ASSUME Inv, [Next]_vars PROVE [Directory!Next]_Directory!vars
  BY <1>1, NextIsCatalogue
<1> QED
  BY <1>1, InitIsCatalogue, SpecInv, PTL DEF Spec, IsCatalogue, Directory!Spec
=============================================================================
