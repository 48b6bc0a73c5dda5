------------------------- MODULE MCRestoreSelection -------------------------
(* A small store for RestoreSelection: a directory p with two files.       *)
EXTENDS RestoreSelection

MCNodes  == {"root", "p", "s", "x"}
MCParent == [root |-> "root", p |-> "root", s |-> "p", x |-> "p"]
MCRank   == [root |-> 0, p |-> 1, s |-> 2, x |-> 3]
=============================================================================
