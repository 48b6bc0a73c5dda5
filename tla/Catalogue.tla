------------------------------ MODULE Catalogue ------------------------------
(***************************************************************************)
(* What a cached directory of a server promises: it is listed at most once *)
(* in a session, shows every name that was ever listed, and offers the     *)
(* versions that the last listing had, the newest first.  Only a listing   *)
(* that brings more names than there is room for may lose versions, though *)
(* not all versions of a name that was not shown before.                   *)
(***************************************************************************)
EXTENDS Naturals, FiniteSets

CONSTANTS Names, None

VARIABLES
    stored,    \* the versions of each name that are on the server
    last,      \* the last version that was stored
    session,   \* the session with the server
    known,     \* the names that are shown
    room,      \* for so many of them
    offered,   \* the versions of each name that are offered
    best,      \* the one that is offered first, if there is one
    of         \* the session of the last listing

vars == <<stored, last, session, known, room, offered, best, of>>

Greatest(S) == {v \in S : \A w \in S : w <= v}

Init ==
    /\ stored = [n \in Names |-> {}] /\ last = 0
    /\ session = 1 /\ of = None
    /\ known = {} /\ room = 0
    /\ offered = [n \in Names |-> {}] /\ best = [n \in Names |-> {}]

Put(n) ==
    /\ last' = last + 1
    /\ stored' = [stored EXCEPT ![n] = @ \cup {last'}]
    /\ UNCHANGED <<session, known, room, offered, best, of>>

Remove(n, v) ==
    /\ stored' = [stored EXCEPT ![n] = @ \ {v}]
    /\ UNCHANGED <<last, session, known, room, offered, best, of>>

Connect ==
    /\ session' = session + 1
    /\ UNCHANGED <<stored, last, known, room, offered, best, of>>

\* a listing may itself need a new session
List ==
    /\ of # session
    /\ session' \in {session, session + 1}
    /\ of' = session'
    /\ known' = known \cup {n \in Names : stored[n] # {}}
    /\ IF Cardinality(known') <= room
       THEN room' = room /\ offered' = stored
       ELSE /\ room' >= Cardinality(known')
            /\ \A n \in Names : /\ offered'[n] \subseteq stored[n]
                                /\ n \in known' \ known => offered'[n] # {}
    /\ best' = [n \in Names |-> Greatest(offered'[n])]
    /\ UNCHANGED <<stored, last>>

Next ==
    \/ \E n \in Names : Put(n) \/ \E v \in stored[n] : Remove(n, v)
    \/ Connect
    \/ List

Spec == Init /\ [][Next]_vars
=============================================================================
