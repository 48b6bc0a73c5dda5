------------------------------ MODULE TestBackup ------------------------------
(***************************************************************************)
(* The tests of backup and compare (TestBackup.cc, TestCompare.cc), played *)
(* against the model: a script of what they do to the files, the server    *)
(* and the panels, and of what they assert in between.  The tests compare  *)
(* by the library's own comparison, and TestCompare by the panel.          *)
(*                                                                         *)
(* Left out: the sizes in bytes and in blocks, access times, and the last  *)
(* part of TestBackup, a restore by the library.                           *)
(***************************************************************************)
EXTENDS ProgressRuns, TestFiles

VARIABLES
    who,     \* who works with the program: "user", "backup test", "compare test"
    at,      \* the next step of the test
    chooser  \* the radio button of the compare panel, and the locations and the
             \* row of its choice of one location

testVars == <<vars, who, at, chooser>>

-----------------------------------------------------------------------------
(* The compare panel.                                                      *)

\* mutant: the row is left as it is
RowKept(locations) == chooser.row

\* Update: the row of the location, which is the first, or none
RowOf(locations) == IF locations = 0 THEN 0 ELSE 1

Pick(radio) == chooser' = [chooser EXCEPT !.radio = radio]

Locations(n) ==
    chooser' = [chooser EXCEPT !.locations = n, !.row = RowOf(n)]

ChoiceEnabled == chooser.radio = "one"
TreesEnabled  == chooser.radio = "dir"

-----------------------------------------------------------------------------
(* Steps.                                                                  *)

\* what a step makes of the files, at a time
ExistingTime == 1

Unpacked(a, keep, now) ==
    LET old == Archive[a]
    IN  [n \in DOMAIN disk \cup old |->
            IF n \in old /\ n \in ArchivedDirs
            THEN IF n \in DOMAIN disk THEN disk[n]
                 ELSE [kind |-> "dir", data |-> 0, mode |-> "plain", time |-> IF keep THEN ExistingTime ELSE now]
            ELSE IF n \in old
            THEN [kind |-> "file", data |-> IF a = "test3" THEN 2 ELSE 1, mode |-> "plain",
                  time |-> IF keep THEN ExistingTime ELSE now]
            ELSE disk[n]]

Removed(n) == Without(disk, {n} \cup Below[n])

Moved(pairs) ==
    LET from == {p[1] : p \in pairs}
        to   == {p[2] : p \in pairs}
    IN  [n \in (DOMAIN disk \ from) \cup to |->
            IF n \in to THEN disk[CHOOSE m \in from : <<m, n>> \in pairs] ELSE disk[n]]

\* the steps
Unzip(a, keep)      == [do |-> "unzip", archive |-> a, keep |-> keep]
Delete(n)           == [do |-> "delete", node |-> n]
Move(pairs)         == [do |-> "move", pairs |-> pairs]
Create(n, k, mode)  == [do |-> "put", node |-> n, kind |-> k, data |-> 1, mode |-> mode]
File(n)             == Create(n, "file", "plain")
Dir(n)              == Create(n, "dir", "plain")
Append1(n)          == [do |-> "put", node |-> n, kind |-> "file", data |-> 3, mode |-> "plain"]
Mode(n, mode)       == [do |-> "mode", node |-> n, mode |-> mode]
Time(n, t)          == [do |-> "time", node |-> n, time |-> t]
\* to what it was when the file was backed up
TimeBack(n)         == [do |-> "time back", node |-> n]
Set(setting, v)     == [do |-> "set", setting |-> setting, v |-> v]
Sleep(t)            == [do |-> "sleep", time |-> t]
Press(b)            == [do |-> "press", button |-> b]
Choose(radio)       == [do |-> "choose", radio |-> radio]
Default(n)          == [do |-> "locations", n |-> n]
Sees(e)             == [do |-> "see", last |-> e]
Lists(l)            == [do |-> "list", errors |-> l]
Counts(l)           == [do |-> "compare", counts |-> l]
Direct(l)           == [do |-> "direct", counts |-> l]
OnStore(in, out)    == [do |-> "store", in |-> in, out |-> out]
Files(n)            == [do |-> "files", n |-> n]
Chooser(choice, trees, locations) ==
    [do |-> "chooser", choice |-> choice, trees |-> trees, locations |-> locations]

OnDisk(tree, now) ==
    /\ disk' = tree
    /\ env' = [env EXCEPT !.now = now]
    /\ UNCHANGED <<store, lastSync, pc, yields, panel, flags, gauge, walk, daemon, spent,
                   history, chooser>>

Configured(e) == env' = e /\ UNCHANGED <<disk, store, lastSync, pc, yields, panel, flags, gauge,
                                         walk, daemon, spent, history>>

Asserts == {"see", "list", "compare", "direct", "store", "files", "chooser"}

Played(s) ==
    LET now == env.now + 1 IN
    \/ s.do = "unzip"  /\ OnDisk(Unpacked(s.archive, s.keep, now), now)
    \/ s.do = "delete" /\ OnDisk(Removed(s.node), now)
    \/ s.do = "move"   /\ OnDisk(Moved(s.pairs), now)
    \/ s.do = "put"    /\ OnDisk(Put(disk, s.node, [kind |-> s.kind, data |-> s.data,
                                                    mode |-> s.mode, time |-> now]), now)
    \/ s.do = "mode"   /\ OnDisk([disk EXCEPT ![s.node].mode = s.mode], now)
    \/ s.do = "time"   /\ OnDisk([disk EXCEPT ![s.node].time = s.time], now)
    \/ s.do = "time back" /\ OnDisk([disk EXCEPT ![s.node].time = store[s.node].time], now)
    \/ s.do = "sleep"  /\ OnDisk(disk, env.now + s.time)
    \/ s.do = "set"    /\ Configured([env EXCEPT ![s.setting] = s.v]) /\ UNCHANGED chooser
    \/ s.do = "press"  /\ UNCHANGED chooser
                       /\ CASE s.button = "close"  -> StopOrClose
                            [] s.button = "backup" -> Start("backup") \/ StartRefused
                            [] OTHER               -> Start("compare")
    \/ s.do = "choose" /\ Pick(s.radio) /\ UNCHANGED vars
    \/ s.do = "locations" /\ Locations(s.n) /\ UNCHANGED vars
    \/ s.do \in Asserts /\ UNCHANGED <<vars, chooser>>

-----------------------------------------------------------------------------
(* What the library's comparison counts.                                   *)

\* the nodes that it looks at
Visited(hidden) ==
    {n \in DOMAIN disk \cup DOMAIN store :
        \A a \in Ancestors[n] : Entered(a, hidden)}

How(hidden, verdict) == {n \in Visited(hidden) : verdict \in Verdict(n, hidden)}

DiffKinds == {"remote missing", "local missing", "contents", "attributes", "not deleted"}

\* differences at files that were modified after the last backup began, or so
\* late before that they were too new for it
Explained(hidden) ==
    {<<n, d>> \in Visited(hidden) \X (DiffKinds \ {"local missing", "not deleted"}) :
        d \in Verdict(n, hidden) /\ disk[n].time + env.minAge > lastSync}

Differences(hidden) ==
    {<<n, d>> \in Visited(hidden) \X DiffKinds : d \in Verdict(n, hidden)}

\* differences, explained ones, unchecked files, excluded directories and files
Counted(hidden) ==
    <<Cardinality(Differences(hidden)), Cardinality(Explained(hidden)),
      Cardinality(How(hidden, "unchecked")), Cardinality(How(hidden, "excluded dir")),
      Cardinality(How(hidden, "excluded file"))>>

Possible(s) ==
    CASE s.do = "see"     -> shown /\ errors # <<>> /\ Last(errors) = <<s.last>>
      [] s.do = "list"    -> errors = s.errors
      [] s.do = "compare" -> Counted(Hidden[env.rules]) = s.counts
      [] s.do = "direct"  -> SubSeq(Counted({}), 1, 2) = s.counts
      [] s.do = "store"   -> s.in \subseteq DOMAIN store /\ DOMAIN store \cap s.out = {}
      [] s.do = "files"   -> ~ shown /\ <<counted, done, range>> = <<s.n, s.n, s.n>>
      [] s.do = "chooser" -> /\ ChoiceEnabled <=> s.choice
                             /\ TreesEnabled <=> s.trees
                             /\ chooser.locations = s.locations
                             /\ chooser.row = s.locations
      [] s.do = "delete"  -> s.node \in DOMAIN disk
      [] s.do = "press"   -> shown <=> s.button = "close"
      [] OTHER            -> TRUE
-----------------------------------------------------------------------------
(* The script, one definition for each function of the tests.              *)

\* CHECK_BACKUP_ERROR, CHECK_BACKUP_OK, CHECK_COMPARE_LOC_OK and
\* CHECK_COMPARE_LOC_FAILS
BackupTells(e) == <<Press("backup"), Sees(e), Press("close")>>
BackupOk       == BackupTells("Finished")
Same(exdirs, exfiles) == <<Counts(<<0, 0, 0, exdirs, exfiles>>)>>
BackupAndSame(exdirs, exfiles) == BackupOk \o Same(exdirs, exfiles)

Unset(setting) ==
    <<Set("unset", {setting})>> \o BackupTells("config error") \o <<Set("unset", {})>>

TestConfigChecks ==
    FlattenSeq([i \in 1 .. 7 |->
        Unset(<<"StoreHostname", "KeysFile", "AccountNumber", "MinimumFileAge", "MaxUploadWait",
                "FileTrackingSizeThreshold", "DiffingUploadSizeThreshold">>[i])])
    \o <<Set("server", FALSE)>> \o BackupTells("connection") \o <<Set("server", TRUE)>>

SpaceTest ==
    <<Unzip("spacetest1", FALSE)>> \o TestConfigChecks
    \o <<Counts(<<1, 0, 0, 0, 0>>), Set("rules", "onlySpacetest"), Counts(<<1, 0, 0, 0, 0>>)>>
    \o BackupAndSame(5, 2)
    \o <<Default(0), Default(1), Set("rules", "default"), Counts(<<7, 0, 0, 0, 0>>)>>
    \o BackupAndSame(0, 0)
    \o <<Set("full", TRUE), Sleep(1), Unzip("spacetest2", FALSE), Delete("f3"), Delete("d4"),
         Counts(<<4, 2, 0, 0, 0>>)>>
    \o BackupTells("store full")
    \o <<Counts(<<2, 0, 0, 0, 0>>), Set("full", FALSE), Unzip("test_base", FALSE)>>
    \o BackupAndSame(0, 0)

ReplaceByOtherType ==
    <<Delete("dsfdsfs98.fd"), File("symlink-to-dir"), Append1("f45.df")>>
    \o BackupAndSame(0, 0)
    \o <<Delete("symlink-to-dir"), Dir("symlink-to-dir"), Dir("dir-to-file"), File("contents")>>
    \o BackupAndSame(0, 0)
    \o <<Delete("contents"), Delete("dir-to-file"), File("dir-to-file")>>
    \o BackupAndSame(0, 0)
    \o <<Delete("dir-to-file"), Dir("dir-to-file"), File("contents2")>>
    \o BackupAndSame(0, 0)
    \o <<Delete("contents2"), Delete("dir-to-file"), File("dir-to-file")>>
    \o BackupAndSame(0, 0)

TestRenameTrackedOverDeleted ==
    <<Move({<<"df9834.dsf", "dsfdsfs98.fd">>})>> \o BackupAndSame(0, 0)
    \o <<Move({<<"dsfdsfs98.fd", "df9834.dsf">>})>>

TestVeryOldFiles == <<Unzip("test2", TRUE)>> \o BackupAndSame(0, 0)

TestModifyExisting == <<Append1("rand.h"), Time("rand.h", 0)>> \o BackupAndSame(0, 0)

TestExclusions ==
    <<Unzip("testexclude", TRUE)>> \o BackupAndSame(3, 4)
    \o <<Direct(<<7, 0>>),
         OnStore({"testdata", "xx_not_this_dir_22", "dont.excludethis", "sub23",
                  "xx_not_this_dir_ALWAYSINCLUDE"},
                 {"excluded_1", "excluded_2", "exclude_dir", "exclude_dir_2", "zEXCLUDEu",
                  "sub23/xx_not_this_dir_22", "somefile.excludethis"})>>

TestReadErrors ==
    <<Create("read-fail-test-dir", "dir", "closed"), Create("read-fail-test-file", "file", "closed")>>
    \o <<Press("backup"), Sees("Finished"),
         Lists(<< <<"access denied", "read-fail-test-file">>,
                  <<"list failed", "read-fail-test-dir">>, <<"Finished">> >>),
         Press("close"), Counts(<<1, 0, 1, 3, 4>>),
         Delete("read-fail-test-dir"), Delete("read-fail-test-file")>>

TestMinimumFileAge ==
    <<Set("minAge", 5), File("continuous-update")>>
    \o BackupOk \o <<Counts(<<1, 1, 0, 3, 4>>), Sleep(5)>> \o BackupAndSame(3, 4)
    \o <<Set("minAge", 0)>>

TestBackupOfAttributes ==
    <<Delete("x1"), Mode("df9834.dsf", "readonly")>> \o BackupAndSame(3, 4)
    \o <<Mode("f1.dat", "closed"), Counts(<<1, 0, 1, 3, 4>>),
         Mode("f1.dat", "readonly"), Counts(<<1, 0, 0, 3, 4>>),
         Mode("f1.dat", "plain"), Counts(<<0, 0, 0, 3, 4>>),
         Time("f1.dat", 0), Counts(<<1, 0, 0, 3, 4>>)>>

TestAddMoreFiles ==
    <<TimeBack("f1.dat"), Counts(<<0, 0, 0, 3, 4>>), Unzip("test3", FALSE)>>
    \o BackupAndSame(3, 4)

TestRenameDir ==
    <<Move({<<"dhsfdss", "renamed-dir">>, <<"bfdlink.h", "new/bfdlink.h">>,
            <<"bitstring.h", "new/bitstring.h">>, <<"blf.h", "new/blf.h">>,
            <<"dfsfd", "new/dfsfd">>, <<"a.out.h", "new/a.out.h">>,
            <<"dsfsfdslkjfkdsjf", "new/dsfsfdslkjfkdsjf">>})>>
    \o BackupAndSame(3, 4)
    \o <<Move({<<"df324", "df324-ren">>, <<"find2perl", "find2perl-ren">>})>>
    \o BackupAndSame(3, 4)
    \o <<File("in-the-future"), Time("in-the-future", Late), Press("backup"),
         Lists(<< <<"future", "in-the-future">>, <<"Finished">> >>), Press("close"),
         Counts(<<0, 0, 0, 3, 4>>)>>

ComparePanelRadios ==
    <<Chooser(FALSE, FALSE, 1), Choose("one"), Chooser(TRUE, FALSE, 1),
      Choose("all"), Chooser(FALSE, FALSE, 1), Choose("one"), Chooser(TRUE, FALSE, 1),
      Default(0), Chooser(TRUE, FALSE, 0), Default(1), Chooser(TRUE, FALSE, 1),
      Choose("dir"), Chooser(FALSE, TRUE, 1)>>

AssertCompareOK(n) ==
    <<Press("compare"), Lists(<< <<"Finished">> >>), Press("close"), Files(n)>>

CompareScript ==
    ComparePanelRadios
    \o <<Unzip("spacetest1", TRUE), Unzip("test_base", TRUE), Unzip("test2", TRUE),
         Unzip("testexclude", TRUE), Unzip("test3", TRUE)>>
    \o BackupOk
    \o <<Choose("all"), Chooser(FALSE, FALSE, 1)>>
    \o AssertCompareOK(32)

BackupScript ==
    SpaceTest \o ReplaceByOtherType \o TestRenameTrackedOverDeleted \o TestVeryOldFiles
    \o TestModifyExisting \o TestExclusions \o TestReadErrors \o TestMinimumFileAge
    \o TestBackupOfAttributes \o TestAddMoreFiles \o TestRenameDir

Script == IF who = "compare test" THEN CompareScript ELSE BackupScript

-----------------------------------------------------------------------------
Fresh == [kind |-> "dir", data |-> 0, mode |-> "plain", time |-> 0]

\* TestWithServer::setUp: an empty directory, an empty store and a server
TestInit ==
    /\ who \in {"backup test", "compare test"}
    /\ at = 1
    /\ Idle
    /\ disk = [n \in {Root} |-> Fresh] /\ store = <<>> /\ lastSync = 0
    /\ env = [unset |-> {}, server |-> TRUE, full |-> FALSE, rules |-> "default",
              minAge |-> 0, now |-> 10]
    /\ chooser = [radio |-> "all", locations |-> 1, row |-> 1]

\* the test waits until the run is over
TestStep ==
    /\ who # "user"
    /\ \/ pc = "idle" /\ at \in DOMAIN Script /\ Played(Script[at]) /\ at' = at + 1
       \/ Step /\ UNCHANGED <<at, chooser>>
    /\ UNCHANGED who

\* The panels pass their tests: a backup and a compare tell what the tests
\* assert, find and leave the differences that they count, and show how many
\* files they counted and did.
TestPasses ==
    who # "user" /\ pc = "idle" /\ at \in DOMAIN Script => Possible(Script[at])
=============================================================================
