---------------------------- MODULE RestoreSpec ----------------------------
(***************************************************************************)
(* What the user has chosen to restore: RestoreSpecEntry and RestoreSpec,  *)
(* a vector of entries ordered by path, and what it says of a node of the  *)
(* store (RestoreTreeNode::UpdateState).  All in RestoreFilesPanel.cc and  *)
(* RestoreFilesPanel.h.                                                    *)
(***************************************************************************)
EXTENDS Naturals, FiniteSets, Sequences, SequencesExt

CONSTANTS
    Nodes,    \* the files and directories on the store
    Root,     \* the root of the store
    Parent,   \* the directory that holds a node
    Rank,     \* where the full path of a node comes when paths are compared
    NULL,     \* the null pointer
    MaxEntries  \* bound: entries in the spec

ASSUME StoreAssumption ==
    /\ IsFiniteSet(Nodes)
    /\ Root \in Nodes
    /\ Parent \in [Nodes -> Nodes]
    /\ Rank \in [Nodes -> Nat]
    /\ \A m, n \in Nodes : Rank[m] = Rank[n] => m = n
    /\ \A n \in Nodes \ {Root} : Rank[Parent[n]] < Rank[n]
    /\ NULL \notin Nodes
    /\ MaxEntries \in Nat

Ancestors[n \in Nodes] ==
    IF n = Root THEN {} ELSE {Parent[n]} \cup Ancestors[Parent[n]]

Below(n) == {m \in Nodes : n \in Ancestors[m]}

Subtree(n) == {n} \cup Below(n)

Entry == [node : Nodes, include : BOOLEAN]

-----------------------------------------------------------------------------
(* The vector.  IsSameAs is equality of entries.                           *)

\* mutant: the entry goes to the end
AddAtEnd(list, e) == IF Contains(list, e) THEN list ELSE Append(list, e)

\* before the first entry with a greater path
AddEntry(list, e) ==
    LET i == SelectInSeq(list, LAMBDA x : Rank[x.node] > Rank[e.node])
    IN  IF Contains(list, e) THEN list
        ELSE IF i = 0 THEN Append(list, e) ELSE InsertAt(list, i, e)

RemoveEntry(list, e) == RemoveFirst(list, e)

-----------------------------------------------------------------------------
(* The state of a tree node: mpMatchingEntry, a pointer into the vector,   *)
(* which is a buffer and a position in it, and mIncluded.                  *)

NoMatch == [match |-> NULL, included |-> FALSE]

\* mutant: redundant entries are seen
UpdateStateSeesAll(list, buffer, n, parent) ==
    LET i == SelectInSeq(list, LAMBDA e : e.node = n)
    IN  IF i = 0 THEN parent
        ELSE [match |-> [buffer |-> buffer, pos |-> i], included |-> list[i].include]

\* an entry that says what the parent's state says already is not seen
UpdateState(list, buffer, n, parent) ==
    LET i == SelectInSeq(list, LAMBDA e : e.node = n /\ e.include # parent.included)
    IN  IF i = 0 THEN parent
        ELSE [match |-> [buffer |-> buffer, pos |-> i], included |-> list[i].include]

\* the nodes in some are updated, top down
Updated(list, buffer, old, some) ==
    LET new[n \in Nodes] ==
            IF n \notin some THEN old[n]
            ELSE UpdateState(list, buffer, n,
                             IF n = Root THEN NoMatch ELSE new[Parent[n]])
    IN  new

\* what a tree that was just opened shows
Shown(list, buffer) == Updated(list, buffer, [n \in Nodes |-> NoMatch], Nodes)

Chosen(list) == LET shown == Shown(list, 0) IN {n \in Nodes : shown[n].included}
=============================================================================
