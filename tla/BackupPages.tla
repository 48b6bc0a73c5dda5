----------------------------- MODULE BackupPages ----------------------------
(***************************************************************************)
(* The Locations and Exclusions pages beside the tree of BackupTree        *)
(* (EditorPanel, LocationsPanel and ExclusionsPanel of                     *)
(* BackupLocationsPanel.cc).  Each page shows a list with a selected row   *)
(* and boxes with the details of that row; every change of the             *)
(* configuration, whoever makes it, refills lists and boxes, and the       *)
(* handlers of the buttons go on with what the boxes hold afterwards.      *)
(*                                                                         *)
(* A row keeps a pointer to the first location, or rule, that is the same  *)
(* as the one it shows.  Row 0 stands for no selection.                    *)
(***************************************************************************)
EXTENDS BackupTree

CONSTANTS
    TypedNames,  \* the names people type
    TypedPaths,  \* the paths they type
    TypedRules   \* the rules they put together in the boxes

ASSUME BackupPagesAssumption ==
    /\ TypedNames \subseteq LocationName
    /\ TypedPaths \subseteq Nodes \cup Texts
    /\ TypedRules \subseteq Entry
    /\ "" \in Names \cap Texts

VARIABLE page  \* what the two pages hold: of the locations, the row that is
               \* selected and the boxes for name and path; of the rules, the
               \* location and the row that are chosen and the rule in the boxes

vars == <<locations, tree, page>>

NoName == <<"", 0>>
NoPath == ""
NoRule == NewEntry("exclude", "dir", "exact", NoPath)

EmptyPage == [locRow |-> 0, name |-> NoName, path |-> NoPath,
              choiceRow |-> 0, ruleRow |-> 0, rule |-> NoRule]

-----------------------------------------------------------------------------
(* Refilling the lists.  moved[i] is where the location that was number i  *)
(* is after the change, 0 if it is gone.                                   *)

\* the location behind a row
Client(locs, row) ==
    IF row = 0 THEN 0 ELSE SelectInSeq(locs, LAMBDA l : l = locs[row])

InPlace == [i \in DOMAIN locations |-> i]

Without(k) ==
    [i \in DOMAIN locations |-> IF i = k THEN 0 ELSE IF i > k THEN i - 1 ELSE i]

\* mutant: a row whose location is gone is not replaced
RowOrNone(row, before, locs, moved) ==
    LET old == Client(before, row) IN IF old = 0 THEN 0 ELSE moved[old]

\* the row follows its location, and falls back to the first one
RowAfter(row, before, locs, moved) ==
    LET old == Client(before, row)
    IN  IF old # 0 /\ moved[old] # 0 THEN moved[old]
        ELSE Min({1, Len(locs)})

WithDetails(p, locs) ==
    LET i == Client(locs, p.locRow)
    IN  [p EXCEPT !.name = IF i = 0 THEN NoName ELSE locs[i].name,
                  !.path = IF i = 0 THEN NoPath ELSE locs[i].path]

RulesOf(locs, row) ==
    IF row = 0 THEN <<>> ELSE locs[Client(locs, row)].excluded

Occurrences(list, e) == {i \in DOMAIN list : list[i] = e}

\* same: the rules are those of the location that was shown before
RuleRowAfter(old, row, new, same) ==
    LET stays == /\ same /\ row # 0
                 /\ Cardinality(Occurrences(new, old[row]))
                        >= Cardinality(Occurrences(old, old[row]))
    IN  IF stays THEN SelectInSeq(new, LAMBDA e : e = old[row])
        ELSE Min({1, Len(new)})

WithRule(p, list) ==
    [p EXCEPT !.rule = IF p.ruleRow = 0 THEN NoRule ELSE list[p.ruleRow]]

\* the two pages hear that the configuration was before and is now locs
Refilled(p, before, locs, moved) ==
    LET q    == [WithDetails([p EXCEPT !.locRow = RowAfter(p.locRow, before, locs, moved)], locs)
                    EXCEPT !.choiceRow = RowAfter(p.choiceRow, before, locs, moved)]
        old  == Client(before, p.choiceRow)
        same == /\ old # 0
                /\ moved[old] = q.choiceRow
        list == RulesOf(locs, q.choiceRow)
    IN  IF q.choiceRow = 0
        THEN [q EXCEPT !.ruleRow = 0]
        ELSE WithRule([q EXCEPT !.ruleRow =
                 RuleRowAfter(RulesOf(before, p.choiceRow), p.ruleRow, list, same)], list)

Within(locs) ==
    /\ Len(locs) <= MaxLocations
    /\ \A i \in DOMAIN locs : Len(locs[i].excluded) <= MaxEntries

\* mutant: the tree is not told
ChangeUnheard(locs, moved) ==
    /\ Within(locs)
    /\ locations' = locs
    /\ page' = Refilled(page, locations, locs, moved)
    /\ UNCHANGED tree

\* mpConfig changes and tells its listeners: the tree and the two pages
Change(locs, moved) ==
    /\ Within(locs)
    /\ locations' = locs
    /\ page' = Refilled(page, locations, locs, moved)
    /\ tree' = Refreshed(locs, tree, Root)

-----------------------------------------------------------------------------
(* The tree page, heard by the two others.                                 *)

TreeExpand(n, found) ==
    /\ Expand(n, found)
    /\ UNCHANGED page

TreeClick(n, agreed) ==
    \/ /\ Activate(n, agreed)
       /\ page' = Refilled(page, locations, locations', InPlace)
    \/ /\ agreed
       /\ ActivateLocation(n)
       /\ page' = Refilled(page, locations, locations', Without(IndexOf(locations, n)))
    \/ /\ ~ agreed
       /\ Refuse(n)
       /\ UNCHANGED page

-----------------------------------------------------------------------------
(* The Locations page.                                                     *)

SelectLocationRow(i) ==
    /\ i \in DOMAIN locations
    /\ page' = WithDetails([page EXCEPT !.locRow = i], locations)
    /\ UNCHANGED <<locations, tree>>

TypeName(name) ==
    /\ page' = [page EXCEPT !.name = name]
    /\ UNCHANGED <<locations, tree>>

TypePath(path) ==
    /\ page' = [page EXCEPT !.path = path]
    /\ UNCHANGED <<locations, tree>>

MatchesLocation ==
    \E i \in DOMAIN locations :
        locations[i].name = page.name /\ locations[i].path = page.path

\* UpdateEnabledState of the Locations page
LocationButtons ==
    (IF MatchesLocation THEN {} ELSE {"add location"})
    \cup (IF page.locRow = 0 THEN {}
          ELSE IF MatchesLocation THEN {"remove location"} ELSE {"edit location"})

\* a copy of the rules of the selected location goes with the new one
AddLocation ==
    LET new == [name |-> page.name, path |-> page.path,
                excluded |-> RulesOf(locations, page.locRow)]
        all == Append(locations, new)
    IN  /\ "add location" \in LocationButtons
        /\ Len(all) <= MaxLocations
        /\ locations' = all
        /\ tree' = Refreshed(all, tree, Root)
        /\ page' = WithDetails([Refilled(page, locations, all, InPlace)
                       EXCEPT !.locRow = SelectInSeq(all, LAMBDA l : l = new)], all)

\* mutant: both boxes are read before anything is changed
EditLocationAtOnce ==
    LET i == Client(locations, page.locRow)
    IN  /\ "edit location" \in LocationButtons
        /\ Change([locations EXCEPT ![i].name = page.name, ![i].path = page.path], InPlace)

\* SetName tells the listeners, and the page puts the old path back into the
\* box that is read for SetPath
EditLocation ==
    LET i       == Client(locations, page.locRow)
        renamed == [locations EXCEPT ![i].name = page.name]
        reread  == Refilled(page, locations, renamed, InPlace)
        moved   == [renamed EXCEPT ![i].path = reread.path]
    IN  /\ "edit location" \in LocationButtons
        /\ locations' = moved
        /\ tree' = Refreshed(moved, tree, Root)
        /\ page' = Refilled(reread, renamed, moved, InPlace)

\* the button is enabled when the boxes show some location, the selected one goes
RemoveLocation ==
    /\ "remove location" \in LocationButtons
    /\ LET i == Client(locations, page.locRow)
       IN  Change(RemoveAt(locations, i), Without(i))

-----------------------------------------------------------------------------
(* The Exclusions page.                                                    *)

\* the list of locations is refilled too, and with it the row that was chosen
SelectChoice(i) ==
    LET list == RulesOf(locations, i)
        same == Client(locations, i) = Client(locations, page.choiceRow)
    IN  /\ i \in DOMAIN locations
        /\ page' = WithRule([page EXCEPT
                       !.choiceRow = Client(locations, i),
                       !.ruleRow = RuleRowAfter(list, page.ruleRow, list, same)], list)
        /\ UNCHANGED <<locations, tree>>

SelectRuleRow(i) ==
    LET list == RulesOf(locations, page.choiceRow)
    IN  /\ i \in DOMAIN list
        /\ page' = WithRule([page EXCEPT !.ruleRow = i], list)
        /\ UNCHANGED <<locations, tree>>

TypeRule(rule) ==
    /\ page.choiceRow # 0
    /\ page' = [page EXCEPT !.rule = rule]
    /\ UNCHANGED <<locations, tree>>

SetRules(i, list) == [locations EXCEPT ![i].excluded = list]

\* the rule in the boxes is selected after it was added or has replaced another
ChangeAndSelect(i, list) ==
    LET locs == SetRules(i, list)
    IN  /\ Len(list) <= MaxEntries
        /\ locations' = locs
        /\ tree' = Refreshed(locs, tree, Root)
        /\ page' = WithRule([Refilled(page, locations, locs, InPlace)
                       EXCEPT !.ruleRow = SelectInSeq(list, LAMBDA e : e = page.rule)], list)

\* UpdateEnabledState of the Exclusions page
RuleButtons ==
    LET matches == Contains(RulesOf(locations, page.choiceRow), page.rule)
    IN  IF page.choiceRow = 0 THEN {}
        ELSE (IF matches THEN {} ELSE {"add rule"})
             \cup (IF page.ruleRow = 0 THEN {}
                   ELSE IF matches THEN {"remove rule"} ELSE {"edit rule"})

AddRule ==
    LET i == Client(locations, page.choiceRow)
    IN  /\ "add rule" \in RuleButtons
        /\ ChangeAndSelect(i, AddEntry(locations[i].excluded, page.rule))

EditRule ==
    LET i    == Client(locations, page.choiceRow)
        list == RulesOf(locations, page.choiceRow)
    IN  /\ "edit rule" \in RuleButtons
        /\ ChangeAndSelect(i, ReplaceEntry(list, list[page.ruleRow], page.rule))

\* the button is enabled when the boxes show some rule, the selected one goes
RemoveRule ==
    LET i    == Client(locations, page.choiceRow)
        list == RulesOf(locations, page.choiceRow)
    IN  /\ "remove rule" \in RuleButtons
        /\ Change(SetRules(i, RemoveEntry(list, list[page.ruleRow])), InPlace)

-----------------------------------------------------------------------------
PagesInit(locs, loaded) ==
    /\ TreeInit(locs, loaded)
    /\ page = Refilled(EmptyPage, <<>>, locs, <<>>)

PagesNext ==
    \/ \E i \in DOMAIN locations : SelectLocationRow(i) \/ SelectChoice(i)
    \/ \E name \in TypedNames : TypeName(name)
    \/ \E path \in TypedPaths : TypePath(path)
    \/ AddLocation
    \/ EditLocation
    \/ RemoveLocation
    \/ \E i \in 1..MaxEntries : SelectRuleRow(i)
    \/ \E rule \in TypedRules : TypeRule(rule)
    \/ AddRule
    \/ EditRule
    \/ RemoveRule

\* a location as a configuration file may give it
Location == [name : LocationName, path : Nodes \cup Texts, excluded : Seq(Entry)]

\* the panel on a configuration that was loaded, with a tree that was opened
\* from the root down
PanelInit ==
    \E locs \in Seq(Location), loaded \in SUBSET Nodes :
        /\ Root \in loaded
        /\ \A n \in loaded \ {Root} : Parent[n] \in loaded
        /\ PagesInit(locs, loaded)

\* all that the user can do with it
PanelNext ==
    \/ \E n \in DOMAIN tree : \E found \in SUBSET Children(n) : TreeExpand(n, found)
    \/ \E n \in DOMAIN tree, agreed \in BOOLEAN : TreeClick(n, agreed)
    \/ PagesNext

PanelSpec == PanelInit /\ [][PanelNext]_vars

-----------------------------------------------------------------------------
(* Properties.                                                             *)

\* The Edit button of the Locations page can rename a location and do nothing
\* else: the path that was typed is lost, what is backed up stays as it is.
EditOnlyRenames ==
    [][EditLocation =>
          /\ DOMAIN locations' = DOMAIN locations
          /\ \A i \in DOMAIN locations : \E name \in {locations[i].name, page.name} :
                 locations'[i] = [locations[i] EXCEPT !.name = name]
          /\ tree' = tree]_vars
=============================================================================
