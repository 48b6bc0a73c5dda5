----------------------------- MODULE TestRestore -----------------------------
(***************************************************************************)
(* The restore panel (RestorePanel.cc) and the program's test of restores  *)
(* (TestRestore.cc), played against the model: what the test clicks in the *)
(* tree, which is that of RestoreSelection with its stale pointers, what   *)
(* the restores of RestoreRun then bring back, and what it asserts.        *)
(*                                                                         *)
(* The test backs up three times; Dates has the store after each of them   *)
(* and the store of a date between the second and the third.               *)
(*                                                                         *)
(* Left out: sizes in bytes, how many connections were made, and what is   *)
(* in the files.                                                           *)
(***************************************************************************)
EXTENDS RestoreRun, TestFiles

VARIABLES
    memory, size, tree,  \* the spec and the tree, as in RestoreSelection
    icon,    \* the icon of each node of the tree, as it was last set
    form,    \* the panel: the destination in its box ("unset", one that is "new"
             \* or one that "exists"), what is ticked under "to date" and chosen
             \* there, and is the progress panel shown; and the latest backup
    who,     \* who works with the program: "user" or "test"
    at       \* the next step of the test

Tree == INSTANCE RestoreSelection

window == <<memory, size, tree, icon, form>>

testVars == <<vars, window, who, at>>

-----------------------------------------------------------------------------
(* The tree, with its icons.                                               *)

\* directories before files
InTree(n) ==
    SelectSeq(Children(n), LAMBDA m : m \in Dirs)
    \o SelectSeq(Children(n), LAMBDA m : m \notin Dirs)

IncludesBelow(list, n) ==
    \E i \in DOMAIN list : list[i].include /\ list[i].node \in Below(n)

\* what the node's pointer points to when it gets its icon
Includes(p) == memory'[p.buffer][p.pos].include

IconOf(n) ==
    LET match    == tree'[n].match
        inherits == n # Root /\ tree'[Parent[n]].match = match
    IN  IF match = NULL THEN IF IncludesBelow(chosen', n) THEN "partial" ELSE "empty"
        ELSE IF Includes(match) THEN IF inherits THEN "checkedGrey" ELSE "checked"
        ELSE IF inherits THEN "crossedGrey" ELSE "crossed"

\* a restore copies the spec of the tree; some nodes get their icon again
Heard(some) ==
    /\ chosen' = Tree!Entries'
    /\ icon' = [n \in Nodes |-> IF n \in some THEN IconOf(n) ELSE icon[n]]

ActivateNode(n) ==
    /\ Tree!ActivateOwn(n) \/ Tree!ActivateInherited(n)
    /\ Heard(Tree!Around(n))

ExpandNode(n) ==
    /\ Tree!Expand(n)
    /\ Heard(Subtree(n))

\* the test takes the first entry out of the spec itself: no icon is set
RemoveFirstEntry ==
    /\ Tree!Store(RemoveEntry(chosen, chosen[1]))
    /\ UNCHANGED tree
    /\ Heard({})

-----------------------------------------------------------------------------
(* The panel.                                                              *)

\* UpdateRestoreSpec: the date of the controls counts when the box is ticked
RestoreToDate == IF form.ticked THEN form.date ELSE form.backup

\* OnClickToDateCheckBox
TickToDate == form' = [form EXCEPT !.ticked = ~ @, !.date = form.backup]

\* OnClickStartButton: only a new destination will do
StartButton ==
    \/ /\ form.dest = "new"
       /\ StartTo(RestoreToDate)
       /\ form' = [form EXCEPT !.dest = "exists", !.shown = TRUE]
    \/ form.dest # "new" /\ UNCHANGED <<vars, form>>

-----------------------------------------------------------------------------
(* Steps.                                                                  *)

Activate(n)     == [do |-> "activate", node |-> n]
Expand(n)       == [do |-> "expand", node |-> n]
DropFirst       == [do |-> "drop"]
\* when this is in the box for the destination
PressStart(d)   == [do |-> "start", dest |-> d]
PressClose      == [do |-> "close"]
\* what is in a control or happens outside of the program
Enter(x, value) == [do |-> "enter", x |-> x, value |-> value]
Destination(d)  == Enter("dest", d)
Date(d)         == Enter("date", d)
BackedUp(d)     == Enter("backup", d)
Tick            == [do |-> "tick"]
\* assertions
Icons(nodes)    == [do |-> "icons", of |-> nodes]
Lists(n, list)  == [do |-> "lists", node |-> n, list |-> list]
SpecIs(list)    == [do |-> "spec", list |-> list]
Finished        == [do |-> "finished"]
FilesDone(n)    == [do |-> "files", n |-> n]
Restored(in, out) == [do |-> "restored", in |-> in, out |-> out]
Compared(n, k)  == [do |-> "compared", node |-> n, differences |-> k]
DateIs(b, d)    == [do |-> "date", ticked |-> b, date |-> d]

Asserts == {"icons", "lists", "spec", "finished", "files", "restored", "compared", "date"}

others == <<clicks, pc, yields, walk, flags, counters, disk, result, seconds, history>>

Played(s) ==
    \/ /\ \/ s.do = "activate" /\ ActivateNode(s.node)
          \/ s.do = "expand"   /\ ExpandNode(s.node)
          \/ s.do = "drop"     /\ RemoveFirstEntry
       /\ UNCHANGED <<others, form>>
    \/ /\ \/ s.do = "start" /\ StartButton
          \/ s.do = "close" /\ ~ running /\ form' = [form EXCEPT !.shown = FALSE]
                            /\ UNCHANGED vars
          \/ s.do = "enter" /\ form' = [form EXCEPT ![s.x] = s.value] /\ UNCHANGED vars
          \/ s.do = "tick"  /\ TickToDate /\ UNCHANGED vars
       /\ UNCHANGED <<memory, size, tree, icon>>
    \/ s.do \in Asserts /\ UNCHANGED <<vars, window>>

\* what a comparison with the store tells: what is missing in a directory that
\* is there, and the directories that were only made for what is below them
Differences(n) ==
    {m \in Subtree(n) \cap Stored :
        m \notin restored \cup made /\ Parent[m] \in made}
    \cup ((Subtree(n) \cap made) \ Reached)

Possible(s) ==
    CASE s.do = "start"    -> ~ form.shown /\ form.dest = s.dest
      [] s.do = "close"    -> form.shown
      [] s.do = "icons"    -> \A i \in DOMAIN s.of : \A n \in s.of[i] : icon[n] = i
      [] s.do = "lists"    -> InTree(s.node) = s.list
      [] s.do = "spec"     -> chosen = s.list
      [] s.do = "finished" -> form.shown /\ errors = {"Restore Finished"}
      [] s.do = "files"    -> ~ form.shown /\ <<counted, done>> = <<s.n, s.n>>
      [] s.do = "restored" -> /\ s.in \subseteq restored \cup made
                              /\ s.out \cap (restored \cup made) = {}
      [] s.do = "compared" -> Cardinality(Differences(s.node)) = s.differences
      [] s.do = "date"     -> form.ticked = s.ticked /\ RestoreToDate = s.date
      [] OTHER             -> TRUE

-----------------------------------------------------------------------------
(* What is on the store, and the order of the paths on it.                 *)

InOrder == <<
    "testdata", "anotehr", "nameser.h", "telnet.h", "tftp.h", "apropos", "chsh", "df324",
    "df9834.dsf", "dir23", "dont.excludethis", "f1.dat", "f45.df", "spacetest", "d1", "f3",
    "f4", "d2", "d3", "d4", "f5", "d6", "d7", "f1", "f2", "sub23", "dhsfdss", "bfdlink.h",
    "bitstring.h", "blf.h", "dfsfd", "a.out.h", "dsfsfdslkjfkdsjf", "error", "false",
    "find2perl", "pem2.h", "ping!", "apply", "pkcs12.h", "pkcs7.h", "rand.h", "symlink1",
    "symlink3", "x1", "cxfxcv", ".profile", "dsfdsfs98.fd", "xx_not_this_dir_22",
    "xx_not_this_dir_ALWAYSINCLUDE">>

Backed == Range(InOrder)

\* after the second backup only test2 is there, after the third test3 as well
Dropped == [first  |-> {},
            second |-> Backed \ ({"testdata"} \cup Archive.test2),
            third  |-> Backed \ ({"testdata"} \cup Archive.test2 \cup Archive.test3)]

TestDates == {"first", "second", "third", "epoch"}

TestListing ==
    [n \in Dirs |-> IF n = Root THEN <<"testdata">>
                    ELSE SelectSeq(Tail(InOrder), LAMBDA m : TestParent[m] = n)]

TestGone  == [d \in TestDates |-> IF d = "epoch" THEN Dropped.third ELSE Dropped[d]]

\* later than the date in between; a directory has no date
Later == {"bfdlink.h"} \cup ((Archive.test3 \ Archive.test2) \ ArchivedDirs)

TestAbsent == [d \in TestDates |-> IF d = "epoch" THEN Later ELSE {}]

-----------------------------------------------------------------------------
(* The script, one definition for each function of the test.               *)

Include(n) == [node |-> n, include |-> TRUE]
Exclude(n) == [node |-> n, include |-> FALSE]

\* CHECK_RESTORE_OK
RestoreOk(n) == <<PressStart("new"), Finished, PressClose, FilesDone(n)>>

\* what was restored is deleted
Deleted == <<Destination("new")>>

Labels == <<
    "anotehr", "dir23", "spacetest", "sub23", "x1", "xx_not_this_dir_ALWAYSINCLUDE",
    "apropos", "chsh", "df324", "df9834.dsf", "dont.excludethis", "f1.dat", "f45.df",
    "symlink1", "symlink3", "xx_not_this_dir_22">>

TestRestoreFile ==
    <<Expand(Root), Lists(Root, <<"testdata">>), Expand("testdata"),
      Lists("testdata", Labels), Icons([empty |-> Range(Labels)]),
      Activate("df9834.dsf"),
      Icons([checked |-> {"df9834.dsf"}, partial |-> {"testdata", Root},
             empty |-> Range(Labels) \ {"df9834.dsf"}]),
      SpecIs(<<Include("df9834.dsf")>>),
      PressStart("unset"), Destination("new")>>
    \o RestoreOk(1)
    \o <<Restored({"testdata", "df9834.dsf"}, {}), PressStart("exists")>> \o Deleted

TestRestoreWholeDir ==
    <<Activate("sub23"),
      Icons([checked |-> {"sub23", "df9834.dsf"},
             empty |-> Range(Labels) \ {"sub23", "df9834.dsf"}])>>
    \o RestoreOk(13)
    \o <<Restored({"sub23", "df9834.dsf"}, {}), Compared("sub23", 0)>> \o Deleted

TestRestoreSpec ==
    <<SpecIs(<<Include("df9834.dsf"), Include("sub23")>>), DropFirst,
      Icons([checked |-> {"sub23"}]), Expand("sub23"), Icons([checkedGrey |-> {"dhsfdss"}])>>

TestDoubleIncludes ==
    <<Activate("sub23"), Icons([empty |-> {"sub23", "dhsfdss"}]),
      Activate("dhsfdss"), Icons([partial |-> {"sub23"}, checked |-> {"dhsfdss"}]),
      Activate("sub23"), Icons([checked |-> {"sub23"}, checkedGrey |-> {"dhsfdss"}]),
      SpecIs(<<Include("sub23"), Include("dhsfdss")>>)>>
    \o RestoreOk(12)
    \o <<Restored({"sub23"}, {"df9834.dsf"}), Compared("sub23", 0)>> \o Deleted

TestDoubleAndConflictingIncludes ==
    <<Activate("dhsfdss"), Icons([checked |-> {"sub23"}, crossed |-> {"dhsfdss"}]),
      SpecIs(<<Include("sub23"), Include("dhsfdss"), Exclude("dhsfdss")>>)>>
    \o RestoreOk(8)
    \o <<Restored({"sub23"}, {"df9834.dsf"}), Compared("sub23", 1)>> \o Deleted
    \o <<Expand("dhsfdss"), Expand("dfsfd")>>

TestIncludeInsideExclude ==
    <<Icons([crossedGrey |-> {"bfdlink.h"}]), Activate("bfdlink.h"),
      Icons([crossed |-> {"dhsfdss"}, checked |-> {"bfdlink.h"}, crossedGrey |-> {"dfsfd"}]),
      Activate("dfsfd"),
      Icons([crossed |-> {"dhsfdss"}, checked |-> {"dfsfd"}, checkedGrey |-> {"a.out.h"}]),
      SpecIs(<<Include("sub23"), Include("dhsfdss"), Exclude("dhsfdss"),
               Include("bfdlink.h"), Include("dfsfd")>>)>>
    \o RestoreOk(10) \o <<Restored({"sub23"}, {}), Compared("sub23", 4)>> \o Deleted

TestRestoreServerRoot ==
    <<Icons([crossed |-> {"dhsfdss"}]), Activate("dhsfdss"),
      Icons([checkedGrey |-> {"dhsfdss"}, checked |-> {"sub23"}]), Activate("sub23"),
      Icons([partial |-> {"sub23"}, checked |-> {"dhsfdss"}]), Activate("dhsfdss"),
      Icons([partial |-> {"dhsfdss"}, checked |-> {"bfdlink.h"}]), Activate("bfdlink.h"),
      Icons([empty |-> {"bfdlink.h"}, checked |-> {"dfsfd"}]), Activate("dfsfd"),
      Icons([empty |-> {"dfsfd", "dhsfdss", Root}]), Activate(Root),
      Icons([checked |-> {Root}]), SpecIs(<<Include(Root)>>)>>
    \o RestoreOk(32)
    \o <<Restored({"testdata", "sub23"}, {}), Compared("testdata", 0)>> \o Deleted

TestOldAndDeletedFilesNotRestored ==
    <<BackedUp("second")>> \o RestoreOk(11) \o Deleted
    \o <<BackedUp("third")>> \o RestoreOk(17) \o Deleted

\* all of test2 but for one file that is later, and a directory of test3
TestRestoreToDate ==
    LET expected == ({"testdata", "ping!"} \cup Archive.test2) \ {"bfdlink.h"}
    IN  <<DateIs(FALSE, "third"), Tick, DateIs(TRUE, "third"),
          Date("epoch"), DateIs(TRUE, "epoch")>>
        \o RestoreOk(10) \o <<Restored(expected, Backed \ expected)>> \o Deleted

Script ==
    TestRestoreFile \o TestRestoreWholeDir \o TestRestoreSpec \o TestDoubleIncludes
    \o TestDoubleAndConflictingIncludes \o TestIncludeInsideExclude
    \o TestRestoreServerRoot \o TestOldAndDeletedFilesNotRestored \o TestRestoreToDate

-----------------------------------------------------------------------------
\* the window with nothing chosen
WindowInit ==
    /\ Tree!SelectionInit
    /\ icon = [n \in Nodes |-> "empty"]
    /\ form = [dest |-> "unset", ticked |-> FALSE, date |-> "first", shown |-> FALSE,
               backup |-> "first"]

\* after the first backup
TestInit ==
    /\ who = "test" /\ at = 1
    /\ Init /\ date = "first"
    /\ WindowInit

\* neither the server nor the disk fails; the test waits for a restore to end
TestStep ==
    /\ who = "test"
    /\ \/ pc = "idle" /\ at \in DOMAIN Script /\ Played(Script[at]) /\ at' = at + 1
       \/ Step /\ ~ history'.failed /\ ~ history'.unread /\ UNCHANGED <<window, at>>
    /\ UNCHANGED who

\* The restore passes its test: the icons, the spec and the files that come
\* back are what the test asserts, entries inside and against one another,
\* deleted files and a restore to a date included.
TestPasses ==
    who = "test" /\ pc = "idle" /\ at \in DOMAIN Script => Possible(Script[at])
=============================================================================
