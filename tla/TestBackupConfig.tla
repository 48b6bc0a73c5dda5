-------------------------- MODULE TestBackupConfig --------------------------
(***************************************************************************)
(* The test of the panel for the backup locations (TestBackupConfig.cc and *)
(* TestBackupConfig2.cc), played against the model: a script of what the   *)
(* test does and of what it asserts in between.  The model passes the test *)
(* if each step can be taken and each assertion holds where it is made.    *)
(*                                                                         *)
(* The disk is the one the test makes, with the directory for temporary    *)
(* files above it.  The rules of the first location stand for the titles   *)
(* in which the test reads them.                                           *)
(***************************************************************************)
EXTENDS BackupPages

VARIABLES
    who,  \* who works with the panel: "user" or "test"
    at    \* the next step of the test

testVars == <<locations, tree, page, who, at>>

\* what the directories hold: the disk of the first tests, then that of the last
TestDisk == [
    root |-> {"tmp", "etc"}, tmp |-> {"temp"}, temp |-> {"testdata"},
    testdata |-> {"another", "depth1", "exclude_dir", "exclude_dir_2", "sub23",
                  "this_dir_ALWAYSINCLUDE", "dont_excludethis", "excluded_1",
                  "excluded_2", "not_this_dir", "zEXCLUDEu"},
    depth1 |-> {"depth2", "dir1", "file1"}, depth2 |-> {"depth3", "dir2", "file2"},
    depth3 |-> {"depth4"}, depth4 |-> {"depth5"},
    depth5 |-> {"depth6", "dir3", "file3"}, depth6 |-> {"dir4", "file4"},
    dir4 |-> {"dir5", "file5"}, dir3 |-> {"dir6", "file6"},
    sub23 |-> {"sub23_not_this_dir", "somefile_excludethis"}]

TestDirs == DOMAIN TestDisk \cup
    {"etc", "another", "dir1", "dir2", "dir5", "dir6", "exclude_dir",
     "exclude_dir_2", "sub23_not_this_dir", "this_dir_ALWAYSINCLUDE"}

TestNodes == {"root"} \cup UNION Range(TestDisk)

TestParent == [n \in TestNodes |->
    IF n = "root" THEN n ELSE CHOOSE d \in DOMAIN TestDisk : n \in TestDisk[d]]

\* the regular expressions of the test, and what they match on this disk
TestPatterns == [any |-> TestNodes, depth1_depth2 |-> {"depth2"},
    end_excludethis |-> {"dont_excludethis", "somefile_excludethis"},
    EXCLUDE |-> {"zEXCLUDEu"},
    any_not_this_dir |-> {"not_this_dir", "sub23_not_this_dir", "this_dir_ALWAYSINCLUDE"},
    ALWAYSINCLUDE |-> {"this_dir_ALWAYSINCLUDE"}]

-----------------------------------------------------------------------------
(* The eight kinds of rules, in the order of the list they are chosen from. *)

ExDir(v)   == NewEntry("exclude", "dir", "exact", v)
ExDirs(v)  == NewEntry("exclude", "dir", "regex", v)
ExFile(v)  == NewEntry("exclude", "file", "exact", v)
ExFiles(v) == NewEntry("exclude", "file", "regex", v)
InDir(v)   == NewEntry("always", "dir", "exact", v)
InDirs(v)  == NewEntry("always", "dir", "regex", v)
InFile(v)  == NewEntry("always", "file", "exact", v)
InFiles(v) == NewEntry("always", "file", "regex", v)

-----------------------------------------------------------------------------
(* Steps.                                                                  *)

Open(n, found)    == [do |-> "open", n |-> n, found |-> found]
Click(n)          == [do |-> "click", n |-> n, asked |-> FALSE, agreed |-> FALSE]
Answer(n, agreed) == [do |-> "click", n |-> n, asked |-> TRUE, agreed |-> agreed]
Put(e)            == [do |-> "put", e |-> e]
Take(e)           == [do |-> "take", e |-> e]
PutLocation       == [do |-> "put location"]
TakeLocation      == [do |-> "take location"]
EnterName(name)   == [do |-> "name", name |-> <<name, 0>>]
EnterPath(path)   == [do |-> "path", path |-> path]
EnterRule(e)      == [do |-> "rule", e |-> e]
Pick(list, i)     == [do |-> "pick", list |-> list, i |-> i]
Press(button)     == [do |-> "press", button |-> button]
See(seen)         == [do |-> "see", seen |-> seen, icons |-> <<>>]
SeeTree(icons)    == [do |-> "see", seen |-> <<>>, icons |-> icons]

TheLocation == [name |-> <<"testdata", 0>>, path |-> "testdata", excluded |-> <<>>]

FirstRules == locations[1].excluded

\* what a step of the test does to the panel
Played(s) ==
    \/ s.do = "open" /\ TreeExpand(s.n, s.found)
    \/ s.do = "click" /\ Asks(s.n) = s.asked /\ TreeClick(s.n, s.agreed)
    \/ s.do = "put" /\ Change(SetRules(1, AddEntry(FirstRules, s.e)), InPlace)
    \/ s.do = "take" /\ Change(SetRules(1, RemoveEntry(FirstRules, s.e)), InPlace)
    \/ s.do = "put location" /\ Change(Append(locations, TheLocation), InPlace)
    \/ s.do = "take location" /\ Change(Tail(locations), Without(1))
    \/ s.do = "name" /\ TypeName(s.name)
    \/ s.do = "path" /\ TypePath(s.path)
    \/ s.do = "rule" /\ TypeRule(s.e)
    \/ s.do = "pick" /\ \/ s.list = "locations" /\ SelectLocationRow(s.i)
                        \/ s.list = "choice" /\ SelectChoice(s.i)
                        \/ s.list = "rules" /\ SelectRuleRow(s.i)
    \/ s.do = "press" /\ \/ s.button = "add location" /\ AddLocation
                         \/ s.button = "remove location" /\ RemoveLocation
                         \/ s.button = "add rule" /\ AddRule
                         \/ s.button = "edit rule" /\ EditRule
                         \/ s.button = "remove rule" /\ RemoveRule
    \/ s.do = "see" /\ UNCHANGED vars

\* what the test can read on the panel
OnPanel ==
    [count     |-> Len(locations),
     loc       |-> page.locRow,
     name      |-> page.name[1],
     path      |-> page.path,
     choice    |-> page.choiceRow,
     rules     |-> IF locations = <<>> THEN <<>> ELSE FirstRules,
     ruleCount |-> Len(RulesOf(locations, page.choiceRow)),
     row       |-> page.ruleRow,
     rule      |-> page.rule]

\* a node that is there, a button that is enabled, a question when one is due
Possible(s) ==
    CASE s.do = "open" -> s.n \in DOMAIN tree
      [] s.do = "click" -> s.n \in DOMAIN tree /\ Asks(s.n) = s.asked
      [] s.do = "take" -> Contains(FirstRules, s.e)
      [] s.do = "press" -> s.button \in LocationButtons \cup RuleButtons
      [] s.do = "rule" -> page.choiceRow # 0
      [] s.do = "pick" -> s.i <= [locations |-> Len(locations), choice |-> Len(locations),
                                  rules |-> OnPanel.ruleCount][s.list]
      [] OTHER -> TRUE

\* an assertion names some of what is on the panel, or the nodes that show an icon
Holds(s) ==
    /\ \A what \in DOMAIN s.seen : OnPanel[what] = s.seen[what]
    /\ \A icon \in DOMAIN s.icons : \A n \in s.icons[icon] :
           n \in DOMAIN tree /\ tree[n].icon = icon

OneLocation == [count |-> 1, loc |-> 1, choice |-> 1]
NoLocation  == [count |-> 0, loc |-> 0, choice |-> 0]

-----------------------------------------------------------------------------
(* The tests, in their order.                                              *)

RootLocation == <<
    See(NoLocation @@ [ruleCount |-> 0]), See([name |-> "", path |-> ""]),
    SeeTree([empty |-> {"root"}]),
    Click("root"), See([count |-> 1, name |-> "root", path |-> "root"]),
    Answer("root", FALSE), See([count |-> 1]),
    Answer("root", TRUE), See([count |-> 0])>>

OpenTheTree == <<
    Open("root", TestDisk.root), Open("tmp", TestDisk.tmp), Open("temp", TestDisk.temp),
    Open("testdata", {"another", "depth1"}), Open("depth1", TestDisk.depth1),
    Open("depth2", TestDisk.depth2), Open("depth3", TestDisk.depth3),
    Open("depth4", TestDisk.depth4), Open("depth5", TestDisk.depth5),
    Open("depth6", TestDisk.depth6), Open("dir4", TestDisk.dir4),
    Open("dir3", TestDisk.dir3)>>

AddAndRemoveSimpleLocationInTree == <<
    Click("testdata"), SeeTree([checked |-> {"testdata"}]),
    See([count |-> 1, rules |-> <<>>]),
    Put(ExFiles("any")), Put(ExDirs("any")), Put(InDir("depth1")),
    See([ruleCount |-> 3]),
    SeeTree([checked |-> {"testdata"}, always |-> {"depth1"},
             crossed |-> {"another", "dir1", "file1", "depth2"},
             crossedGrey |-> {"dir2", "file2", "depth3"}]),
    Put(InDirs("depth1_depth2")),
    SeeTree([always |-> {"depth2"}, crossedGrey |-> {"depth4"},
             crossed |-> {"dir1", "file1", "dir2", "file2", "depth3"}]),
    Put(InDir("file1")), Put(InFile("dir1")),
    SeeTree([crossed |-> {"dir1", "file1"}]),
    Put(InDir("dir3")), Put(InFile("file3")),
    SeeTree([crossedGrey |-> {"dir3", "file3"}]),
    Answer("testdata", TRUE), SeeTree([empty |-> {"testdata"}]), See([count |-> 0])>>

AddLocationInTree == <<
    Click("testdata"),
    SeeTree([checked |-> {"testdata"}, partial |-> {"root", "tmp", "temp"},
             checkedGrey |-> {"depth1", "depth2", "depth3", "depth4", "depth5", "depth6"}]),
    See(OneLocation @@ [rules |-> <<>>, name |-> "testdata", path |-> "testdata"])>>

SimpleExcludeInTree == <<
    Click("depth2"),
    See(OneLocation @@ [rules |-> <<ExDir("depth2")>>, row |-> 1]),
    SeeTree([checked |-> {"testdata"}, checkedGrey |-> {"depth1"}, crossed |-> {"depth2"},
             crossedGrey |-> {"depth3", "depth4", "depth5", "depth6"}])>>

DeepRules == <<
    ExDirs("depth2"), ExFiles("depth2"), InDir("depth3"), InDir("depth4"),
    InDir("depth5"), InDir("depth6"), InDirs("depth6"), InFiles("depth6")>>

DeepIncludePattern ==
    <<See([count |-> 1, ruleCount |-> 1]), Take(ExDir("depth2"))>>
    \o [i \in DOMAIN DeepRules |-> Put(DeepRules[i])]
    \o <<SeeTree([checked |-> {"testdata"},
                  checkedGrey |-> {"another", "depth1", "dir1", "file1", "depth2"},
                  crossed |-> {"dir2", "file2", "dir3", "file3"},
                  always |-> {"depth3", "depth4", "depth5", "depth6",
                              "dir4", "file4", "dir5", "file5"}]),
         Put(ExDir("depth2"))>>
    \o [i \in DOMAIN DeepRules |-> Take(DeepRules[i])]

UpToDepth5 == <<
    ExDir("depth2"), ExDirs("depth2"), ExFiles("depth2"), InDir("depth2"),
    InDir("depth3"), InDir("depth4"), InDir("depth5")>>

OpenDownTo5 ==
    [checked |-> {"testdata"}, checkedGrey |-> {"depth1"},
     always |-> {"depth2", "depth3", "depth4", "depth5"}]

AlwaysIncludeFileDeepInTree == <<
    Click("file3"),
    See(OneLocation @@ [rules |-> Append(UpToDepth5, InFile("file3")), row |-> 1]),
    SeeTree(OpenDownTo5), SeeTree([always |-> {"file3"}, crossed |-> {"dir3", "depth6"},
             crossedGrey |-> {"file4", "dir4", "file5", "dir5"}]),
    Click("file3"),
    See([rules |-> UpToDepth5]),
    SeeTree(OpenDownTo5), SeeTree([crossed |-> {"file3", "dir3", "depth6"},
             crossedGrey |-> {"file4", "dir4", "file5", "dir5"}])>>

WithDir3 == UpToDepth5 \o <<InDir("dir3"), InDirs("dir3"), InFiles("dir3")>>

AddAlwaysIncludeInTree == <<
    Click("dir3"),
    See(OneLocation @@ [rules |-> WithDir3, ruleCount |-> 10, row |-> 1]),
    SeeTree(OpenDownTo5), SeeTree([always |-> {"dir3", "dir6", "file6"},
             crossed |-> {"file3", "depth6"},
             crossedGrey |-> {"dir4", "file4", "dir5", "file5"}])>>

ExcludeUnderAlwaysIncludePromptsToRemove == <<
    See([ruleCount |-> 10]), Answer("dir6", FALSE), See([ruleCount |-> 10]),
    Answer("dir6", TRUE),
    See([ruleCount |-> 9, rules |-> UpToDepth5 \o <<InDir("dir3"), InFiles("dir3")>>]),
    SeeTree([always |-> {"dir3", "file6"}, crossed |-> {"dir6"}])>>

RemoveMultipleAlwaysIncludesInTree == <<
    See([count |-> 1, ruleCount |-> 9]), Answer("file6", TRUE), Click("dir3"), Click("depth5"),
    Click("depth4"), Click("depth3"), Click("depth2"),
    See([count |-> 1, rules |-> <<ExDir("depth2")>>, ruleCount |-> 1])>>

AlwaysIncludeDirWithSubdirsDeepInTree == <<
    See(OneLocation @@ [ruleCount |-> 1, row |-> 1]),
    Click("depth4"),
    See([row |-> 1, rules |-> SubSeq(UpToDepth5, 1, 6)
                        \o <<InDirs("depth4"), InFiles("depth4")>>])>>

RemoveExcludeInTree ==
    LET left == <<InDir("depth3"), InDir("depth4"), InDirs("depth4"), InFiles("depth4")>>
    IN  <<See(OneLocation @@ [ruleCount |-> 8, row |-> 1]),
          Click("depth2"), See([rules |-> <<ExDir("depth2")>> \o left]),
          Click("depth2"), See([rules |-> left, ruleCount |-> 4, row |-> 1])>>

OldRules == <<InDir("depth3"), InDirs("depth4"), InFiles("depth4")>>

RemoveAlwaysIncludeInTree == <<
    See(OneLocation @@ [ruleCount |-> 4, row |-> 1]),
    Click("depth4"), See([rules |-> OldRules, ruleCount |-> 3, row |-> 1])>>

AddExcludeInIncludedNode == <<
    See(OneLocation @@ [ruleCount |-> 3, row |-> 1]), Click("depth4"),
    See([rules |-> Append(OldRules, ExDir("depth4")), ruleCount |-> 4, row |-> 1])>>

AddHigherExcludeInTree == <<
    Click("depth2"),
    See(OneLocation @@ [rules |-> OldRules \o <<ExDir("depth4"), ExDir("depth2")>>,
                        ruleCount |-> 5, row |-> 1]),
    SeeTree([checked |-> {"testdata"}, checkedGrey |-> {"depth1"}, crossed |-> {"depth2"},
             crossedGrey |-> {"depth3", "depth4", "depth5", "depth6"}])>>

RemoveEntriesFromTree == <<
    Click("depth4"), Click("depth3"), Click("depth2"), Answer("testdata", TRUE),
    See(NoLocation)>>

-----------------------------------------------------------------------------
(* TestBackupConfig2.cc from TestAddTwoLocations on: the two other pages.  *)

NewLocation(name, path) == <<EnterName(name), EnterPath(path), Press("add location")>>

AddTwoLocations ==
    NewLocation("tmp", "tmp")
    \o <<See([count |-> 1, loc |-> 1, name |-> "tmp", path |-> "tmp"])>>
    \o NewLocation("etc", "etc")
    \o <<See([count |-> 2, loc |-> 2, name |-> "etc", path |-> "etc"])>>

AddExcludeEntry == <<
    See([choice |-> 1, row |-> 0, rule |-> ExDir("")]),
    EnterRule(ExDir("/tmp/foo")), Press("add rule"),
    See([choice |-> 1, ruleCount |-> 1, row |-> 1, rule |-> ExDir("/tmp/foo")])>>

AddAnotherExcludeEntry == <<
    EnterRule(ExDirs("/tmp/bar")), Press("add rule"),
    See([choice |-> 1, ruleCount |-> 2, row |-> 2, rule |-> ExDirs("/tmp/bar")])>>

\* choosing row i shows the rule e in the boxes
PickRule(i, e) == <<Pick("rules", i), See([row |-> i, rule |-> e])>>

SelectExcludeEntry == PickRule(1, ExDir("/tmp/foo")) \o PickRule(2, ExDirs("/tmp/bar"))

EditExcludeEntries ==
    PickRule(1, ExDir("/tmp/foo"))
    \o <<EnterRule(ExFile("/tmp/baz")), Press("edit rule"),
         See([row |-> 1, rule |-> ExFile("/tmp/baz")])>>
    \o PickRule(2, ExDirs("/tmp/bar"))
    \o <<EnterRule(ExFiles("/tmp/whee")), Press("edit rule"),
         See([row |-> 2, rule |-> ExFiles("/tmp/whee")])>>
    \o PickRule(1, ExFile("/tmp/baz")) \o PickRule(2, ExFiles("/tmp/whee"))

AddExcludeBasedOnExisting ==
    PickRule(1, ExFile("/tmp/baz"))
    \o <<EnterRule(ExFile("/tmp/foo")), Press("add rule"),
         See([ruleCount |-> 3, row |-> 3, rule |-> ExFile("/tmp/foo")])>>
    \o PickRule(1, ExFile("/tmp/baz"))
    \o <<EnterRule(ExDirs("/tmp/baz")), Press("add rule"),
         See([ruleCount |-> 4, row |-> 4, rule |-> ExDirs("/tmp/baz")])>>
    \o PickRule(1, ExFile("/tmp/baz"))

FirstOfFour == See([choice |-> 1, ruleCount |-> 4, row |-> 1, rule |-> ExFile("/tmp/baz")])

AddExcludeEntryToSecondLoc == <<
    FirstOfFour,
    Pick("choice", 2), See([choice |-> 2, ruleCount |-> 0, row |-> 0]),
    EnterRule(InDir("fubar")), Press("add rule"),
    See([choice |-> 2, ruleCount |-> 1, row |-> 1]),
    Pick("choice", 1), FirstOfFour,
    Pick("choice", 2), See([choice |-> 2, ruleCount |-> 1, row |-> 1, rule |-> InDir("fubar")]),
    Press("remove rule"), See([choice |-> 2, ruleCount |-> 0, row |-> 0]),
    Pick("choice", 1), FirstOfFour>>

RemoveExcludeEntries ==
    LET Removed(i, e, left, next) ==
            PickRule(i, e) \o <<See([ruleCount |-> left + 1]), Press("remove rule"),
                See([ruleCount |-> left, row |-> IF left = 0 THEN 0 ELSE 1, rule |-> next])>>
        first == ExFile("/tmp/baz")
    IN  Removed(4, ExDirs("/tmp/baz"), 3, first)
        \o Removed(3, ExFile("/tmp/foo"), 2, first)
        \o Removed(2, ExFiles("/tmp/whee"), 1, first)
        \o Removed(1, first, 0, ExDir(""))

\* choosing row i shows this location in the boxes
PickLocation(i, name, path) ==
    <<Pick("locations", i), See([loc |-> i, name |-> name, path |-> path])>>

AddLocationOnLocationsPanel ==
    <<See([count |-> 2, loc |-> 2])>> \o PickLocation(1, "tmp", "tmp")
    \o NewLocation("foobar", "whee")
    \o <<See([count |-> 3, loc |-> 3, name |-> "foobar", path |-> "whee"])>>

SwitchLocations ==
    PickLocation(1, "tmp", "tmp") \o PickLocation(2, "etc", "etc")
    \o PickLocation(3, "foobar", "whee")

RemoveLocations ==
    PickLocation(1, "tmp", "tmp")
    \o <<Press("remove location"),
         See([count |-> 2, loc |-> 1, name |-> "etc", path |-> "etc"])>>
    \o PickLocation(2, "foobar", "whee")
    \o <<Press("remove location"),
         See([count |-> 1, loc |-> 1, name |-> "etc", path |-> "etc"]),
         Press("remove location"),
         See([count |-> 0, loc |-> 0, name |-> "", path |-> ""])>>

AllExcluded == <<
    See([count |-> 0]), PutLocation, See([count |-> 1]), SeeTree([checked |-> {"testdata"}]),
    Put(ExFiles("any")), Put(ExDirs("any")), SeeTree([checked |-> {"testdata"}]),
    See([count |-> 1]), TakeLocation, See([count |-> 0])>>

ComplexRules == <<
    ExFile("excluded_1"), ExFile("excluded_2"), ExFiles("end_excludethis"), ExFiles("EXCLUDE"),
    InFile("dont_excludethis"), ExDir("exclude_dir"), ExDir("exclude_dir_2"),
    ExDirs("any_not_this_dir"), InDirs("ALWAYSINCLUDE")>>

ComplexExcludes ==
    <<PutLocation, See([count |-> 1]), SeeTree([checked |-> {"testdata"}])>>
    \o [i \in DOMAIN ComplexRules |-> Put(ComplexRules[i])]
    \o <<Open("testdata", TestDisk.testdata \ {"depth1"}), Open("sub23", TestDisk.sub23),
         SeeTree([checkedGrey |-> {"another", "sub23", "not_this_dir"},
                  always |-> {"this_dir_ALWAYSINCLUDE", "dont_excludethis"},
                  crossed |-> {"exclude_dir", "exclude_dir_2", "sub23_not_this_dir",
                               "somefile_excludethis", "excluded_1", "excluded_2",
                               "zEXCLUDEu"}]),
         See([count |-> 1]), TakeLocation, See([count |-> 0])>>

Script == RootLocation \o OpenTheTree \o AddAndRemoveSimpleLocationInTree
    \o AddLocationInTree \o SimpleExcludeInTree \o DeepIncludePattern
    \o AlwaysIncludeFileDeepInTree \o AddAlwaysIncludeInTree
    \o ExcludeUnderAlwaysIncludePromptsToRemove \o RemoveMultipleAlwaysIncludesInTree
    \o AlwaysIncludeDirWithSubdirsDeepInTree \o RemoveExcludeInTree
    \o RemoveAlwaysIncludeInTree \o AddExcludeInIncludedNode \o AddHigherExcludeInTree
    \o RemoveEntriesFromTree \o AddTwoLocations \o AddExcludeEntry
    \o AddAnotherExcludeEntry \o SelectExcludeEntry \o EditExcludeEntries
    \o AddExcludeBasedOnExisting \o AddExcludeEntryToSecondLoc \o RemoveExcludeEntries
    \o AddLocationOnLocationsPanel \o SwitchLocations \o RemoveLocations
    \o AllExcluded \o ComplexExcludes

-----------------------------------------------------------------------------
\* the test starts with nothing to back up and a tree that shows its root
TestInit ==
    /\ who = "test"
    /\ at = 1
    /\ PagesInit(<<>>, {"root"})

TestStep ==
    /\ who = "test"
    /\ at \in DOMAIN Script
    /\ Played(Script[at])
    /\ at' = at + 1
    /\ UNCHANGED who

\* The panel passes its test: each step of the script can be taken (a button
\* that is pressed is enabled, a question comes when the test expects it) and
\* each assertion holds at its place.
TestPasses ==
    who = "test" /\ at \in DOMAIN Script =>
        /\ Possible(Script[at])
        /\ Script[at].do = "see" => Holds(Script[at])
=============================================================================
