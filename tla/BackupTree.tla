----------------------------- MODULE BackupTree -----------------------------
(***************************************************************************)
(* The tree of local files in which the user chooses what to back up       *)
(* (BackupLocationsPanel.cc and FileTree.cc): the configured locations     *)
(* with their rules, the nodes the tree control has loaded so far, and the *)
(* state each of them caches about the locations (the one it is in, the    *)
(* rules that exclude and always-include it, its icon).  The user expands  *)
(* nodes and activates them; BackupPages adds the two other pages of the   *)
(* panel, which change the same locations.                                 *)
(*                                                                         *)
(* A pointer to a location is its path, a pointer to a rule is the rule:   *)
(* the lists are std::list, so a pointer stays good until its own element  *)
(* is erased, and the program finds the elements by value.                 *)
(***************************************************************************)
EXTENDS ExcludeList

CONSTANTS
    Names,          \* the names people give to locations
    MaxEntries,     \* bound: rules in one list
    MaxLocations    \* bound: locations

ASSUME BackupTreeAssumption ==
    /\ MaxEntries \in Nat
    /\ MaxLocations \in Nat

VARIABLES
    locations,  \* mLocations of ClientConfig: name, path, excluded
    tree        \* what each loaded node of the tree caches: location (its path),
                \* excludedBy and includedBy (a rule, or NULL), icon

treeVars == <<locations, tree>>

\* a name is a text and the number that was put behind it, if there is one
LocationName == (Nodes \cup Names) \X Nat

Paths(locs) == {locs[i].path : i \in DOMAIN locs}

IndexOf(locs, p) == SelectInSeq(locs, LAMBDA l : l.path = p)

ListOf(locs, p) == locs[IndexOf(locs, p)].excluded

SetList(locs, p, list) ==
    [locs EXCEPT ![IndexOf(locs, p)].excluded = list]

-----------------------------------------------------------------------------
(* Refreshing the tree.                                                    *)

IconOf(locs, n, loc, s) ==
    IF s.includedBy # NULL
    THEN IF s.matched THEN "always" ELSE "alwaysGrey"
    ELSE IF s.excludedBy # NULL
    THEN IF s.matched THEN "crossed" ELSE "crossedGrey"
    ELSE IF loc # NULL
    THEN IF s.matched THEN "checked" ELSE "checkedGrey"
    ELSE IF Below[n] \cap Paths(locs) # {} THEN "partial" ELSE "empty"

NoState == [location |-> NULL, excludedBy |-> NULL, includedBy |-> NULL]

NodeState(locs, n, loc, s) ==
    [location |-> loc, excludedBy |-> s.excludedBy, includedBy |-> s.includedBy,
     icon |-> IconOf(locs, n, loc, s)]

\* the location the parent is in, or else one that starts here
LocationOf(locs, n, parent) ==
    IF parent.location # NULL THEN parent.location
    ELSE IF n \in Paths(locs) THEN n ELSE NULL

Unmatched(parent) ==
    [excludedBy |-> parent.excludedBy, includedBy |-> parent.includedBy, matched |-> FALSE]

\* mutant: the rules are asked even below an excluded directory
RulesSayAfresh(locs, n, loc, parent) ==
    IF loc = NULL THEN Unmatched(NoState)
    ELSE GetExcludedState(ListOf(locs, loc), loc, n, Unmatched(NoState))

\* the rules are asked unless the parent is left out already
RulesSay(locs, n, loc, parent) ==
    IF \/ loc = NULL
       \/ parent.excludedBy # NULL /\ parent.includedBy = NULL
    THEN Unmatched(parent)
    ELSE GetExcludedState(ListOf(locs, loc), loc, n, Unmatched(parent))

\* BackupTreeNode::UpdateState
UpdateState(locs, n, parent) ==
    NodeState(locs, n, LocationOf(locs, n, parent),
              RulesSay(locs, n, LocationOf(locs, n, parent), parent))

\* UpdateStateIcon(from, false, true): from and what is loaded below it, each
\* node after its parent
Refreshed(locs, old, from) ==
    LET new[n \in DOMAIN old] ==
            IF n \in Subtree[from]
            THEN UpdateState(locs, n, IF n = Root THEN NoState ELSE new[Parent[n]])
            ELSE old[n]
    IN  [n \in DOMAIN old |-> new[n]]

\* The directory is read again, its children are made anew and get their state.
\* It may be unreadable, or have changed since it was read the last time.
Expand(n, found) ==
    /\ n \in DOMAIN tree \cap Dirs
    /\ found \subseteq Children(n)
    /\ LET kept == [m \in (DOMAIN tree \ Below[n]) \cup found |->
                        IF m \in found THEN tree[n] ELSE tree[m]]
       IN  tree' = Refreshed(locations, kept, n)
    /\ UNCHANGED locations

-----------------------------------------------------------------------------
(* Activating a node: one action for each branch of OnTreeNodeActivate.    *)

\* the highest node above n, or n, that is in the same location as n
LocationNode(n) ==
    CHOOSE q \in {n} \cup Ancestors[n] :
        /\ \A m \in {n} \cup Ancestors[n] :
               m \in Subtree[q] => tree[m].location = tree[n].location
        /\ q = Root \/ tree[Parent[q]].location # tree[n].location

NamesExactly(e, n) == e.match = "exact" /\ e.value = n

UnderDirs(n)  == NewEntry("exclude", "dir", "regex", n)
UnderFiles(n) == NewEntry("exclude", "file", "regex", n)

\* the node is AlwaysIncluded: the rule goes if it names this very node, or
\* if the user agrees to exclude all that the rule covers
ActivateAlwaysIncluded(n, agreed) ==
    LET rule   == tree[n].includedBy
        loc    == tree[n].location
        list   == ListOf(locations, loc)
        own    == NamesExactly(rule, n)
        pruned == IF own /\ Contains(list, UnderFiles(n))
                         /\ Contains(list, UnderDirs(n))
                  THEN RemoveEntry(RemoveEntry(list, UnderFiles(n)), UnderDirs(n))
                  ELSE list
    IN  /\ n \in DOMAIN tree
        /\ rule # NULL
        /\ own \/ agreed
        /\ locations' = SetList(locations, loc, RemoveEntry(pruned, rule))
        /\ tree' = Refreshed(locations', tree, LocationNode(n))

\* n and the nodes above it that are left out and not AlwaysIncluded,
\* from n upwards
ExcludedChain ==
    [n \in Nodes |->
        LET up[m \in Nodes] ==
                IF \/ tree[m].excludedBy = NULL
                   \/ tree[m].includedBy # NULL
                   \/ m = Root
                THEN <<>> ELSE <<m>> \o up[Parent[m]]
        IN  up[n]]

AlwaysInclude(n) == NewEntry("always", FileDirOf(n), "exact", n)

\* mutant: nothing keeps the rest of the highest directory out
OpenWholeDirectory(n, list) ==
    FoldLeft(LAMBDA l, m : InsertEntry(l, Len(list), AlwaysInclude(m)),
             list, ExcludedChain[n])

\* mutant: no rule for the directories below n
OpenPathToFiles(n, list) ==
    LET pos   == Len(list)
        chain == ExcludedChain[n]
        top   == Last(chain)
        l1    == FoldLeft(LAMBDA l, m : InsertEntry(l, pos, AlwaysInclude(m)),
                          list, chain)
        l2    == IF n = top THEN l1
                 ELSE InsertEntry(InsertEntry(l1, pos, UnderFiles(top)),
                                  pos, UnderDirs(top))
    IN  IF n \in Dirs THEN AddEntry(l2, NewEntry("always", "file", "regex", n))
        ELSE AddEntry(l2, AlwaysInclude(n))

\* AlwaysInclude rules for the whole chain, rules that keep the rest of its
\* highest directory out, and rules for what is below n
OpenPathTo(n, list) ==
    LET pos   == Len(list)
        chain == ExcludedChain[n]
        top   == Last(chain)
        l1    == FoldLeft(LAMBDA l, m : InsertEntry(l, pos, AlwaysInclude(m)),
                          list, chain)
        l2    == IF n = top THEN l1
                 ELSE InsertEntry(InsertEntry(l1, pos, UnderFiles(top)),
                                  pos, UnderDirs(top))
    IN  IF n \in Dirs
        THEN AddEntry(AddEntry(l2, NewEntry("always", "dir", "regex", n)),
                      NewEntry("always", "file", "regex", n))
        ELSE AddEntry(l2, AlwaysInclude(n))

\* the node is left out: drop the rule if it names this very node,
\* open a path to it otherwise
ActivateExcluded(n) ==
    LET rule == tree[n].excludedBy
        loc  == tree[n].location
        list == ListOf(locations, loc)
        new  == IF NamesExactly(rule, n) THEN RemoveEntry(list, rule)
                ELSE OpenPathTo(n, list)
    IN  /\ n \in DOMAIN tree
        /\ tree[n].includedBy = NULL
        /\ rule # NULL
        /\ Len(new) <= MaxEntries
        /\ locations' = SetList(locations, loc, new)
        /\ tree' = Refreshed(locations', tree, LocationNode(n))

PlainlyIncluded(n) ==
    /\ n \in DOMAIN tree
    /\ tree[n].includedBy = NULL
    /\ tree[n].excludedBy = NULL
    /\ tree[n].location # NULL

\* the node is a location: the whole location goes, if the user is sure
ActivateLocation(n) ==
    /\ PlainlyIncluded(n)
    /\ tree[n].location = n
    /\ locations' = RemoveAt(locations, IndexOf(locations, n))
    /\ tree' = Refreshed(locations', tree, Root)

\* the node is inside a location: exclude it
ActivateIncluded(n) ==
    LET loc == tree[n].location
        new == AddEntry(ListOf(locations, loc),
                        NewEntry("exclude", FileDirOf(n), "exact", n))
    IN  /\ PlainlyIncluded(n)
        /\ loc # n
        /\ Len(new) <= MaxEntries
        /\ locations' = SetList(locations, loc, new)
        /\ tree' = Refreshed(locations', tree, LocationNode(n))

\* the name of the node, with a number behind it if the name is taken
NewName(n) ==
    LET taken == {locations[i].name : i \in DOMAIN locations}
        k     == CHOOSE k \in 0..Len(locations) :
                     <<n, k>> \notin taken /\ \A j \in 0..k-1 : <<n, j>> \in taken
    IN  <<n, k>>

\* mutant: the parents of the new location are not refreshed
ActivateOutsideUnseen(n) ==
    /\ n \in DOMAIN tree
    /\ tree[n].location = NULL
    /\ tree[n].includedBy = NULL
    /\ tree[n].excludedBy = NULL
    /\ Len(locations) < MaxLocations
    /\ locations' = Append(locations, [name |-> NewName(n), path |-> n, excluded |-> <<>>])
    /\ tree' = Refreshed(locations', tree, n)

\* the node is outside every location: it becomes one
ActivateOutside(n) ==
    /\ n \in DOMAIN tree
    /\ tree[n].location = NULL
    /\ tree[n].includedBy = NULL
    /\ tree[n].excludedBy = NULL
    /\ Len(locations) < MaxLocations
    /\ locations' = Append(locations, [name |-> NewName(n), path |-> n, excluded |-> <<>>])
    /\ tree' = Refreshed(locations', tree, Root)

-----------------------------------------------------------------------------
\* the panel with a configuration that has been loaded and a tree of which the
\* given nodes have been expanded
TreeInit(locs, loaded) ==
    /\ locations = locs
    /\ tree = Refreshed(locs, [n \in loaded |-> NoState], Root)

\* activating the node brings up a question
Asks(n) ==
    \/ /\ n \in DOMAIN tree
       /\ tree[n].includedBy # NULL
       /\ ~ NamesExactly(tree[n].includedBy, n)
    \/ /\ PlainlyIncluded(n)
       /\ tree[n].location = n

\* the user says No
Refuse(n) ==
    /\ Asks(n)
    /\ UNCHANGED treeVars

Activate(n, agreed) ==
    \/ ActivateAlwaysIncluded(n, agreed)
    \/ ActivateExcluded(n)
    \/ ActivateIncluded(n)
    \/ ActivateOutside(n)

-----------------------------------------------------------------------------
(* Properties.                                                             *)

ShownIncluded(n) ==
    /\ tree[n].location # NULL
    /\ tree[n].includedBy # NULL \/ tree[n].excludedBy = NULL

Selected == {n \in DOMAIN tree : ShownIncluded(n)}

OutermostLocations(n) ==
    {p \in Paths(locations) \cap Nodes : n \in Subtree[p] /\ Ancestors[p] \cap Paths(locations) = {}}

\* What the tree shows as included is what a backup of the outermost
\* location scans, after any sequence of clicks and edits: the refreshes
\* that follow each change of the rules start high enough in the tree.
TreeShowsBackup ==
    \A n \in DOMAIN tree :
        ShownIncluded(n) <=>
            \E p \in OutermostLocations(n) : n \in Scanned(ListOf(locations, p), p)

\* No node keeps a pointer to a location or to a rule that has been erased,
\* so that the next activation finds the rule that it erases (RemoveEntry
\* throws otherwise).
RulesNotDangling ==
    \A n \in DOMAIN tree : tree[n].location # NULL =>
        /\ tree[n].location \in Paths(locations)
        /\ \A r \in {tree[n].excludedBy, tree[n].includedBy} \ {NULL} :
               Contains(ListOf(locations, tree[n].location), r)

\* The partial tick is on exactly the nodes that are outside every location
\* and have one below them.
PartialTicks ==
    \A n \in DOMAIN tree : tree[n].icon = "partial" <=>
        /\ OutermostLocations(n) = {}
        /\ Below[n] \cap Paths(locations) # {}

\* Excluding a node that no rule mentions takes out that node and all that
\* is below it, and nothing else.
ExcludeIsExact ==
    [][\A n \in DOMAIN tree : ActivateIncluded(n) => Selected' = Selected \ Subtree[n]]_treeVars

\* Activating an excluded node never takes anything out.  Outside the path to
\* the node and what is below it, it brings in only what an AlwaysInclude
\* rule, left over from earlier clicks, already named - or else a name on the
\* path of the highest directory that was left out has characters which are
\* special in a regular expression, and all of that directory comes in.
IncludeSpillsOnlyThroughOldRules ==
    [][\A n \in DOMAIN tree : ActivateExcluded(n) =>
          /\ Selected \subseteq Selected'
          /\ \A m \in Selected' \ Selected :
                \/ m \in Subtree[n] \cup Ancestors[n]
                \/ FirstMatch(ListOf(locations, tree[n].location), "always", m) # NULL
                \/ LET top == Last(ExcludedChain[n])
                   IN  m \in Below[top] /\ ~ Plain[top]]_treeVars

\* Opening a path to an excluded directory brings in all that is below it, as
\* long as no name on its path has special characters.
IncludeBringsAllBelow ==
    [][\A n \in DOMAIN tree \cap Dirs :
          /\ ActivateExcluded(n)
          /\ Plain[n]
          /\ ~ NamesExactly(tree[n].excludedBy, n)
          => Below[n] \cap DOMAIN tree \subseteq Selected']_treeVars

\* Erasing the AlwaysInclude rule that names a node, and the two rules that
\* came with it, changes nothing outside that node's own subtree.
OwnRuleIsLocal ==
    [][\A n \in DOMAIN tree :
          ActivateAlwaysIncluded(n, FALSE) =>
              Selected \ Subtree[n] = Selected' \ Subtree[n]]_treeVars
=============================================================================
