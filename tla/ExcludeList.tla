---------------------------- MODULE ExcludeList ----------------------------
(***************************************************************************)
(* The exclusion rules of one backup location: BoxiExcludeEntry,           *)
(* BoxiExcludeList and BoxiLocation::GetExcludedState (Location.cc and     *)
(* Location.h), over an abstract file system.                              *)
(*                                                                         *)
(* A path is a node of a tree.  A rule is a record of its four parts; an   *)
(* exact rule carries the node it names, or a text that names none, and a  *)
(* regular expression carries either the node n of "^<path of n>/", the    *)
(* only form Boxi writes itself, or a pattern that somebody typed.  Boxi   *)
(* does not escape the path, so that the expression of a directory whose   *)
(* name holds special characters does not match what is below it.          *)
(***************************************************************************)
EXTENDS Naturals, FiniteSets, Sequences, SequencesExt

CONSTANTS
    Nodes,    \* the files and directories the program can see
    Root,     \* "/"
    Parent,   \* the directory that holds a node
    Dirs,     \* the nodes that are directories
    Special,  \* the nodes with special characters in their own name
    Patterns, \* the regular expressions that people type
    MatchedBy,\* the paths that each of them matches
    Texts,    \* what a box for a path may hold that names no node
    NULL      \* the null pointer

ASSUME FileSystemAssumption ==
    /\ IsFiniteSet(Nodes)
    /\ Root \in Dirs
    /\ Dirs \subseteq Nodes
    /\ Parent \in [Nodes -> Dirs]
    /\ Special \subseteq Nodes
    /\ MatchedBy \in [Patterns -> SUBSET Nodes]
    /\ Patterns \cap Nodes = {}
    /\ NULL \notin Nodes

Ancestors ==
    LET up[n \in Nodes] == IF n = Root THEN {} ELSE {Parent[n]} \cup up[Parent[n]]
    IN  [n \in Nodes |-> up[n]]

\* the nodes at most k steps below the root
DownTo[k \in Nat] ==
    IF k = 0 THEN {Root}
    ELSE LET above == DownTo[k - 1] IN {n \in Nodes : n = Root \/ Parent[n] \in above}

\* every node hangs below the root
ASSUME TreeAssumption == Nodes = DownTo[Cardinality(Nodes)]

Children(n) == {m \in Nodes \ {Root} : Parent[m] = n}

Below == [n \in Nodes |-> {m \in Nodes : n \in Ancestors[m]}]

Subtree == [n \in Nodes |-> {n} \cup Below[n]]

\* no special character in the whole path
Plain == [n \in Nodes |-> ({n} \cup Ancestors[n]) \cap Special = {}]

-----------------------------------------------------------------------------
(* Rules.                                                                  *)

Entry == [sense : {"exclude", "always"}, fileDir : {"file", "dir"},
          match : {"exact", "regex"}, value : Nodes \cup Patterns \cup Texts]

ASSUME EntryAssumption == NULL \notin Entry

NewEntry(sense, fileDir, match, value) ==
    [sense |-> sense, fileDir |-> fileDir, match |-> match, value |-> value]

FileDirOf(n) == IF n \in Dirs THEN "dir" ELSE "file"

\* the tests one rule makes of one path: its kind first, then its value
Applies(e, n) ==
    /\ e.fileDir = FileDirOf(n)
    /\ \/ e.match = "exact" /\ e.value = n
       \/ e.match = "regex" /\ e.value \in Patterns /\ n \in MatchedBy[e.value]
       \/ e.match = "regex" /\ e.value \in Ancestors[n] /\ Plain[e.value]

-----------------------------------------------------------------------------
(* The list.  IsSameAs on entries is equality of the four parts.           *)

AddEntry(list, e) == IF Contains(list, e) THEN list ELSE Append(list, e)

\* index counts from zero and is clipped at the end of the list
InsertEntry(list, index, e) ==
    IF Contains(list, e) THEN list
    ELSE InsertAt(list, 1 + (IF index < Len(list) THEN index ELSE Len(list)), e)

\* the first entry that is the same as old; no check for a duplicate of new
ReplaceEntry(list, old, new) ==
    ReplaceAt(list, SelectInSeq(list, LAMBDA e : e = old), new)

\* mutant: the loop stops one element early
RemoveEntryOneEarly(list, e) ==
    LET i == SelectInSeq(list, LAMBDA x : x = e)
    IN  RemoveAt(list, IF i > 1 THEN i - 1 ELSE i)

RemoveEntry(list, e) == RemoveFirst(list, e)

-----------------------------------------------------------------------------
(* What the rules say of a path.                                           *)

FirstMatch(list, sense, n) ==
    LET i == SelectInSeq(list, LAMBDA e : e.sense = sense /\ Applies(e, n))
    IN  IF i = 0 THEN NULL ELSE list[i]

\* mutant: the second pass does not override the first
ExcludeWins(list, locationPath, n, inherited) ==
    IF n = locationPath
    THEN [inherited EXCEPT !.matched = TRUE]
    ELSE LET ex == FirstMatch(list, "exclude", n)
             in == FirstMatch(list, "always", n)
         IN  [excludedBy |-> ex,
              includedBy |-> IF ex = NULL THEN in ELSE NULL,
              matched    |-> ex # NULL \/ in # NULL]

\* inherited is what the caller's pointers held before the call
GetExcludedState(list, locationPath, n, inherited) ==
    IF n = locationPath
    THEN [inherited EXCEPT !.matched = TRUE]
    ELSE LET ex == FirstMatch(list, "exclude", n)
             in == FirstMatch(list, "always", n)
         IN  [excludedBy |-> IF ex = NULL /\ in # NULL
                             THEN inherited.excludedBy ELSE ex,
              includedBy |-> in,
              matched    |-> ex # NULL \/ in # NULL]

-----------------------------------------------------------------------------
(* What the Box Backup library does with the same rules: it walks down     *)
(* from the location and leaves out, with all that is below it, whatever   *)
(* some Exclude rule names and no AlwaysInclude rule does.                 *)

ExcludedByBox(list, n) ==
    /\ \E i \in DOMAIN list : list[i].sense = "exclude" /\ Applies(list[i], n)
    /\ ~ \E i \in DOMAIN list : list[i].sense = "always" /\ Applies(list[i], n)

Scanned(list, locationPath) ==
    {n \in Subtree[locationPath] :
        \A m \in {n} \cup Ancestors[n] :
            locationPath \in Ancestors[m] => ~ ExcludedByBox(list, m)}
=============================================================================
