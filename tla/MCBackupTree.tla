---------------------------- MODULE MCBackupTree ----------------------------
(* Three ways to work with the panel, each on its part of one disk:        *)
(*   "clicker"  clicks in a tree of its own: a chain of directories, or    *)
(*              one with a special character in a name, read as it opens   *)
(*   "editor"   clicks mixed with the two other pages, on the chain, over  *)
(*              lists as a configuration file may hold them                *)
(*   "test"     the test of TestBackupConfig, on the disk it makes         *)
EXTENDS TestBackupConfig

\* /z is the location, /z/l/a/b a chain, f a file in a
Chain == {"root", "z", "l", "a", "b", "f"}

\* the directory s has a special character in its name
Odd == {"root", "z", "s", "t", "u", "v"}

MCNodes == TestNodes \cup Chain \cup Odd
MCDirs  == TestDirs \cup {"z", "l", "a", "b", "s", "t"}

MCParent == TestParent @@ [z |-> "root", l |-> "z", a |-> "l", b |-> "a", f |-> "a",
                           s |-> "z", t |-> "s", u |-> "t", v |-> "s"]

MCSpecial == {"s"}
MCTexts   == {"", "/tmp/foo", "/tmp/bar", "/tmp/baz", "/tmp/whee", "whee", "fubar"}
MCNames   == {"", "foobar"}

MCPatterns  == DOMAIN TestPatterns
MCMatchedBy == [p \in MCPatterns |-> IF p = "any" THEN MCNodes ELSE TestPatterns[p]]

Z(list) == [name |-> <<"z", 0>>, path |-> "z", excluded |-> list]
L(list) == [name |-> <<"l", 0>>, path |-> "l", excluded |-> list]

\* a repeated rule, a pattern that matches all files, a location inside another
Loaded == {
    <<Z(<<ExDir("a"), ExDir("a")>>)>>,
    <<L(<<ExDirs("any"), InDir("a")>>), Z(<<>>)>>}

MCTypedNames == {<<"foobar", 0>>}
MCTypedPaths == {"l"}
MCTypedRules == {ExDirs("any")}

Limit == [clicker |-> [locations |-> 1, entries |-> 7],
          editor  |-> [locations |-> 2, entries |-> 2],
          test    |-> [locations |-> 3, entries |-> 12]]

MCInit ==
    \/ /\ who = "clicker" /\ at = 0
       /\ \E loaded \in {Chain, {"root", "z"}} : PagesInit(<<Z(<<>>)>>, loaded)
    \/ /\ who = "editor" /\ at = 0
       /\ \E locs \in Loaded : PagesInit(locs, {"root", "z", "l", "a"})
    \/ TestInit

Reading ==
    /\ DOMAIN tree \subseteq Odd
    /\ \E n \in {"z", "s", "t"} :
          \E found \in {{}, Children(n) \cap Odd} : TreeExpand(n, found)

Clicked == [clicker |-> Nodes, editor |-> {"z", "a"}, test |-> {}]

Clicking ==
    \E n \in Clicked[who] \cap DOMAIN tree, agreed \in BOOLEAN : TreeClick(n, agreed)

Bounded ==
    /\ Len(locations') <= Limit[who].locations
    /\ \A i \in DOMAIN locations' : Len(locations'[i].excluded) <= Limit[who].entries

MCNext ==
    \/ /\ \/ Clicking
          \/ who = "clicker" /\ Reading
          \/ who = "editor" /\ PagesNext
       /\ Bounded
       /\ UNCHANGED <<who, at>>
    \/ TestStep

MCSpec == MCInit /\ [][MCNext]_testVars
=============================================================================
