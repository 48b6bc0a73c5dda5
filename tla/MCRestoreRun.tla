---------------------------- MODULE MCRestoreRun ----------------------------
(* Restores by a user, from a small store, and by the test.  The user's has *)
(* a directory p with a file x and a directory d with a file m in it, and a *)
(* file t beside p.  Earlier, d had been deleted for a while and x was not  *)
(* there yet.                                                               *)
EXTENDS TestRestore

UserNodes == {"root", "p", "d", "m", "x", "t"}

MCNodes  == UserNodes \cup Backed
MCDirs   == {"root", "p", "d", "testdata"} \cup (ArchivedDirs \cap Backed)

MCParent == [root |-> "root", testdata |-> "root", p |-> "root", d |-> "p", m |-> "d",
             x |-> "p", t |-> "root"] @@ [n \in Backed |-> TestParent[n]]

MCRank   == [root |-> 0, p |-> 1, d |-> 2, m |-> 3, x |-> 4, t |-> 5]
            @@ [n \in Backed |-> 5 + CHOOSE i \in DOMAIN InOrder : InOrder[i] = n]

UserDates == {"none", "earlier"}
MCDates   == UserDates \cup TestDates
MCListing ==
    [d \in UserDates |-> [n \in MCDirs |->
        IF n \in UserNodes THEN [root |-> <<"p", "t">>, p |-> <<"d", "x">>, d |-> <<"m">>][n]
        ELSE <<>>]]
    @@ [d \in TestDates |-> TestListing]
MCGone    == [none |-> {}, earlier |-> {"d"}] @@ TestGone
MCAbsent  == [none |-> {}, earlier |-> {"x"}] @@ TestAbsent

\* the user's clicks are those of RestoreRun itself
NoWindow ==
    /\ memory = <<>> /\ size = 0 /\ tree = <<>>
    /\ icon = <<>> /\ form = <<>>

MCInit ==
    \/ who = "user" /\ at = 0 /\ Init /\ date \in UserDates /\ NoWindow
    \/ TestInit

MCNext ==
    \/ who = "user" /\ Next /\ UNCHANGED <<window, who, at>>
    \/ TestStep

\* StartRestore goes on until it returns: it is a function that is called
MCSpec == MCInit /\ [][MCNext]_testVars
          /\ WF_testVars(Step /\ UNCHANGED <<window, who, at>>)
=============================================================================
