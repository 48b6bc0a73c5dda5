--------------------------- MODULE MCProgressRuns ---------------------------
(* Instance of ProgressRuns for TLC: a user with a few files, or the tests. *)
EXTENDS TestBackup

MCHidden == [default |-> DefaultExcluded,
             onlySpacetest |-> TestNodes \ {"testdata", "spacetest"}]

Plain(k, d) == [kind |-> k, data |-> d, mode |-> "plain", time |-> 0]

\* the user's files: two, a directory with one in it, and one that is excluded
UserFiles == {"f1", "df324", "excluded_1"}

UserDisk ==
    [n \in UserFiles \cup {"testdata", "spacetest"} |->
        Plain(IF n \in UserFiles THEN "file" ELSE "dir", 1)]

\* the same with a file or a directory that cannot be read
UserDisks == {UserDisk, [UserDisk EXCEPT !["f1"].mode = "closed"],
              [UserDisk EXCEPT !["spacetest"].mode = "closed"]}

UserStores ==
    {<<>>, [UserDisk EXCEPT !["df324"].data = 2], [UserDisk EXCEPT !["spacetest"].time = 1]}

\* all is well, or one thing is not
UserEnvs ==
    {e \in [unset : {{}, {"StoreHostname"}}, server : BOOLEAN, full : BOOLEAN,
            rules : {"default"}, minAge : {0}, now : {0}] :
        Cardinality({b \in {"unset", "server", "full"} :
            \/ b = "unset" /\ e.unset # {}
            \/ b = "server" /\ ~ e.server
            \/ b = "full" /\ e.full}) <= 1}

MCInit ==
    \/ /\ who = "user" /\ at = 0
       /\ chooser = [radio |-> "all", locations |-> 1, row |-> 1]
       /\ Idle
       /\ disk \in UserDisks /\ store \in UserStores /\ lastSync = 0
       /\ env \in UserEnvs
    \/ TestInit

MCOthers ==
    \/ \E n \in UserFiles \cup {"spacetest"} : Vanish(n)
    \/ \E n \in UserFiles : Write(n, 2)

MCNext ==
    \/ who = "user" /\ (Step \/ Fault \/ User \/ MCOthers) /\ UNCHANGED <<who, at, chooser>>
    \/ TestStep

\* a run goes on until it returns: it is a function that is called
MCSpec == MCInit /\ [][MCNext]_testVars
          /\ WF_testVars((Step \/ DaemonMissed) /\ UNCHANGED <<who, at, chooser>>)
=============================================================================
