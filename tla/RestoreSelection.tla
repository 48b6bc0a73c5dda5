-------------------------- MODULE RestoreSelection --------------------------
(***************************************************************************)
(* The tree of files on the store in which the user chooses what to        *)
(* restore: RestoreFilesPanel::OnTreeNodeActivate over the nodes' cached   *)
(* pointers to entries of the restore spec.                                *)
(*                                                                         *)
(* The entries are the elements of a std::vector.  memory holds every      *)
(* buffer the vector has had, the last being the one it has: a pointer     *)
(* into that one reads whatever is in its slot now, and a pointer into an  *)
(* earlier one, which was freed, reads what was there or anything at all.  *)
(* The icons are left out.                                                 *)
(***************************************************************************)
EXTENDS RestoreSpec

Pointer == [buffer : Nat, pos : Nat \ {0}]

ASSUME SelectionAssumption == NULL \notin Pointer

VARIABLES
    memory,   \* the buffers of mEntries, each a sequence of the slots written
    size,     \* mEntries.size()
    tree      \* mpMatchingEntry and mIncluded of each node

selectionVars == <<memory, size, tree>>

Slots   == Last(memory)
Buffer  == Len(memory)
Entries == SubSeq(Slots, 1, size)

\* a buffer is twice as large as the one before; the first one is empty
CapacityOf(b) == IF b = 1 THEN 0 ELSE 2 ^ (b - 2)

SelectionInit ==
    /\ memory = << <<>> >>
    /\ size = 0
    /\ tree = [n \in Nodes |-> NoMatch]

-----------------------------------------------------------------------------
Garbage == [node : {NULL}, include : BOOLEAN]

\* what *p may be
Deref(p) ==
    IF p.buffer = Buffer THEN {Slots[p.pos]}
    ELSE {memory[p.buffer][p.pos]} \cup Garbage

\* std::vector::insert and erase: slots behind the end keep what they held
Store(list) ==
    /\ size' = Len(list)
    /\ memory' = IF Len(list) > CapacityOf(Buffer) THEN Append(memory, list)
                 ELSE [memory EXCEPT ![Buffer] =
                          list \o SubSeq(@, Len(list) + 1, Len(@))]

\* UpdateStateIcon(pNode, TRUE, TRUE)
Around(n) == Subtree(n) \cup Ancestors[n]

\* the entry is taken for the node's own: the parent matches another
MatchIsOwn(n) ==
    LET p == tree[n].match
    IN  IF n = Root THEN p # NULL ELSE tree[Parent[n]].match # p

ActivateOwn(n) ==
    /\ MatchIsOwn(n)
    /\ \E e \in Deref(tree[n].match) :
          /\ n = Root => e.include
          /\ Store(RemoveEntry(Entries, e))
    /\ tree' = Updated(SubSeq(Last(memory'), 1, size'), Len(memory'), tree, Around(n))

\* a new entry, of the opposite sense
ActivateInherited(n) ==
    /\ ~ MatchIsOwn(n)
    /\ size < MaxEntries
    /\ \E e \in IF tree[n].match = NULL THEN {[node |-> n, include |-> FALSE]}
                ELSE Deref(tree[n].match) :
          Store(AddEntry(Entries, [node |-> n, include |-> ~ e.include]))
    /\ tree' = Updated(SubSeq(Last(memory'), 1, size'), Len(memory'), tree, Around(n))

\* opening a directory makes its nodes again and updates them
Expand(n) ==
    /\ Below(n) # {}
    /\ tree' = Updated(Entries, Buffer, tree, Subtree(n))
    /\ UNCHANGED <<memory, size>>

SelectionNext == \E n \in Nodes : ActivateOwn(n) \/ ActivateInherited(n) \/ Expand(n)

SelectionSpec == SelectionInit /\ [][SelectionNext]_selectionVars

-----------------------------------------------------------------------------
(* Properties.                                                             *)

\* The entries fit the buffer, and every pointer points into a buffer the
\* vector has or had, at a slot that was written.
TypeOK ==
    /\ memory \in Seq(Seq(Entry))
    /\ size \in 0 .. Len(Slots) /\ Len(Slots) <= CapacityOf(Buffer)
    /\ tree \in [Nodes -> [match : Pointer \cup {NULL}, included : BOOLEAN]]
    /\ \A n \in Nodes : tree[n].match # NULL =>
          tree[n].match.pos \in DOMAIN memory[tree[n].match.buffer]

\* Whatever stale pointers are clicked, the entries stay in the order of their
\* paths, parents before children, and none comes twice: what StartRestore and
\* CountFilesRecursive rely on.
OrderedEntries ==
    \A i, j \in 1 .. size : i < j =>
        /\ Rank[Entries[i].node] <= Rank[Entries[j].node]
        /\ Entries[i] # Entries[j]

\* OnTreeNodeActivate dereferences its entry without looking when the parent
\* matches another: it is never NULL then.
NullNeverRead == \A n \in Nodes : MatchIsOwn(n) => tree[n].match # NULL

\* Any sequence of clicks, at stale nodes too, keeps the entries in order, reads
\* only what was once written, and never reads through a null pointer.
SelectionSound == TypeOK /\ OrderedEntries /\ NullNeverRead

Now == Shown(Entries, Buffer)

\* Activating a node that shows what the spec says, below a parent that does,
\* turns that node over and changes nothing outside its subtree.
FreshClickIsExact ==
    [][\A n \in Nodes :
          /\ ActivateOwn(n) \/ ActivateInherited(n)
          /\ \A m \in {n} \cup Ancestors[n] : tree[m] = Now[m]
          => /\ n \in Chosen(Entries) <=> n \notin Chosen(Entries')
             /\ Chosen(Entries) \ Subtree(n) = Chosen(Entries') \ Subtree(n)]_selectionVars

\* The comment in OnTreeNodeActivate: "non-root node, and parent matches a
\* different entry, this one must be ours".  What is removed is the node's own.
RemovesOurs ==
    [][\A n \in Nodes : ActivateOwn(n) =>
          \A m \in Nodes \ {n} : \A b \in BOOLEAN :
              LET e == [node |-> m, include |-> b]
              IN  Contains(Entries, e) <=> Contains(Entries', e)]_selectionVars
=============================================================================
