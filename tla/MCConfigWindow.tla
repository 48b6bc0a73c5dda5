--------------------------- MODULE MCConfigWindow ---------------------------
(* Instance of ConfigWindow for TLC: a user, or the tests. *)
EXTENDS TestConfig, TLC

CONSTANTS Account, v, home, etc, path, rule, fileA, fileB

mcStringProps == {PidFile}
mcIntProps == {Account}
mcDefault == [p \in mcStringProps \cup mcIntProps |-> Unset]

Home == [name |-> home, path |-> path, rules |-> NoRules]

Complete == [val |-> [p \in mcStringProps \cup mcIntProps |-> v], locs |-> <<Home>>]
BadNumber == [val |-> (Account :> Malformed) @@ (PidFile :> Unset),
              locs |-> <<>>]
NoBlock == [val |-> (Account :> v) @@ (PidFile :> v),
            locs |-> NoLocations]

\* a good file beside a wrong one, or a missing file beside another wrong one
mcDiskChoices ==
    {(fileA :> Complete) @@ (fileB :> BadNumber),
     (fileA :> Unreadable) @@ (fileB :> NoBlock)}

MCInit ==
    \/ who = "user" /\ at = 0 /\ Init
    \/ TestInit

MCNext ==
    \/ who = "user" /\ Next /\ UNCHANGED <<who, at>>
    \/ TestStep

MCSpec == MCInit /\ [][MCNext]_testVars
=============================================================================
