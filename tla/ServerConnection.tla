-------------------------- MODULE ServerConnection --------------------------
(***************************************************************************)
(* The one connection to the store server that all panels share            *)
(* (ServerConnection.cc): connected when a request needs it, in read-only  *)
(* or read-write mode, and dropped when a read from the server fails.      *)
(*                                                                         *)
(* An attempt to connect makes at most one socket and one protocol object, *)
(* so both are named by the number of the attempt; wire is what has become *)
(* of the attempt on the network, which the program finds out only when it *)
(* uses it.  The calls run one at a time; the steps of a call are actions  *)
(* of their own, because every one of them can fail and leave something    *)
(* half done.                                                              *)
(***************************************************************************)
EXTENDS Naturals

CONSTANTS
    MaxAttempts,  \* bound: attempts to connect
    NULL          \* the null pointer

Attempts == 1 .. MaxAttempts

ASSUME ConnectionAssumption ==
    /\ MaxAttempts \in Nat
    /\ NULL \notin Attempts

VARIABLES
    pc,           \* the step of the call that runs, or "idle", or "ended"
    call,         \* the call that runs, or ran last
    failure,      \* the exception that is being handled
    attempts,     \* attempts made so far
    connected,    \* mIsConnected
    writable,     \* mIsWritable
    index,        \* mConnectionIndex
    socket,       \* mpSocket
    connection,   \* mpConnection
    sockets,      \* the SocketStreamTLS objects not deleted
    connections,  \* the BackupProtocolClient objects not deleted
    wire,         \* the attempts on the network
    listing,      \* the last listing a panel cached, and the index it noted
    lent          \* the raw pointer that a comparison was given

objects == <<socket, connection, sockets, connections>>
flags   == <<connected, writable, index>>
users   == <<listing, lent>>
vars    == <<pc, call, failure, attempts, flags, objects, wire, users>>

Requests == {"list", "file", "usage", "lend", "connect", "undelete", "delete"}
Writes   == {"undelete", "delete"}

Call == [request : Requests, writable : BOOLEAN]

\* UndeleteDirectory and DeleteDirectory are the only ones that need to write
Calls == {c \in Call : c.writable <=> c.request \in Writes}

ModeOf(w) == IF w THEN "writer" ELSE "reader"

LoggedIn == {"reader", "writer"}

\* TLSReadFailed is the one failure that HandleException looks at
Failures == {"TLSReadFailed", "other"}

\* Every variable has its type.
TypeOK ==
    /\ pc \in {"idle", "connecting", "handshaking", "versioning", "login",
               "asking", "handling", "ended"}
    /\ call \in Call
    /\ failure \in Failures
    /\ attempts \in 0 .. MaxAttempts
    /\ connected \in BOOLEAN /\ writable \in BOOLEAN
    /\ index \in 0 .. MaxAttempts
    /\ socket \in Attempts \cup {NULL}
    /\ connection \in Attempts \cup {NULL}
    /\ sockets \subseteq Attempts
    /\ connections \subseteq Attempts
    /\ wire \in [Attempts -> {"none", "open", "dead", "closed"} \cup LoggedIn]
    /\ listing \in [index : 0 .. MaxAttempts, attempt : Attempts] \cup {NULL}
    /\ lent \in Attempts \cup {NULL}

Init ==
    /\ pc = "idle"
    /\ call = [request |-> "connect", writable |-> FALSE]
    /\ failure = "other"
    /\ attempts = 0
    /\ connected = FALSE /\ writable = FALSE /\ index = 0
    /\ socket = NULL /\ connection = NULL
    /\ sockets = {} /\ connections = {}
    /\ wire = [k \in Attempts |-> "none"]
    /\ listing = NULL /\ lent = NULL

-----------------------------------------------------------------------------
\* mutant: the handshake object is forgotten, not finished
DropUnfinished ==
    /\ sockets' = sockets \ {socket}
    /\ connections' = connections \ {connection}
    /\ socket' = NULL
    /\ connection' = NULL
    /\ connected' = FALSE
    /\ UNCHANGED <<wire, writable, index>>

\* mutant: only the socket is deleted
DropSocketOnly ==
    /\ wire' = wire
    /\ sockets' = sockets \ {socket}
    /\ socket' = NULL
    /\ connected' = FALSE
    /\ UNCHANGED <<connection, connections, writable, index>>

\* Disconnect: what is deleted says good-bye first if it can
Drop ==
    /\ wire' = [k \in Attempts |->
                  IF k \in {connection, socket} /\ wire[k] # "none"
                  THEN "closed" ELSE wire[k]]
    /\ sockets' = sockets \ {socket}
    /\ connections' = connections \ {connection}
    /\ socket' = NULL
    /\ connection' = NULL
    /\ connected' = FALSE
    /\ UNCHANGED <<writable, index>>

\* mutant: a connection in the other mode is good enough
ReuseAnyMode(c) == connected

\* mutant: a connection is never used twice
ReuseNothing(c) == FALSE

Reusable(c) == connected /\ writable = c.writable

\* A panel makes a call: Connect comes first in each of them
Enter(c) ==
    /\ pc = "idle"
    /\ call' = c
    /\ \/ /\ Reusable(c)
          /\ pc' = "asking"
          /\ UNCHANGED <<flags, objects, wire>>
       \/ /\ ~ Reusable(c)
          /\ pc' = "connecting"
          /\ IF connected THEN Drop ELSE UNCHANGED <<flags, objects, wire>>
    /\ UNCHANGED <<failure, attempts, users>>

-----------------------------------------------------------------------------
(* Connect2, step by step.                                                 *)

Fail(f) ==
    /\ pc' = "handling"
    /\ failure' = f

\* Connect2 returned FALSE
Refuse ==
    /\ pc' = "idle"
    /\ connected' = FALSE
    /\ writable' = FALSE
    /\ UNCHANGED <<call, failure, attempts, index, objects, wire, users>>

\* no host name, no keys file or no usable TLS context: nothing is made yet
NotConfigured ==
    /\ pc = "connecting"
    /\ Refuse

\* BackupClientCryptoKeys_Setup throws
BadKeys ==
    /\ pc = "connecting"
    /\ Fail("other")
    /\ UNCHANGED <<call, attempts, flags, objects, wire, users>>

\* a new SocketStreamTLS is opened; the protocol object is made only then
Open ==
    /\ pc = "connecting"
    /\ attempts < MaxAttempts
    /\ LET k == attempts + 1 IN
          /\ attempts' = k
          /\ socket' = k
          /\ sockets' = sockets \cup {k}
          /\ \/ /\ connection' = k
                /\ connections' = connections \cup {k}
                /\ wire' = [wire EXCEPT ![k] = "open"]
                /\ pc' = "handshaking"
                /\ UNCHANGED failure
             \/ /\ Fail("other")
                /\ UNCHANGED <<connection, connections, wire>>
    /\ UNCHANGED <<call, flags, users>>

Alive == wire[connection] \in {"open"} \cup LoggedIn

\* the exchange with the server breaks off; a read fails only on a dead wire
Break(f) ==
    /\ f = "TLSReadFailed" => ~ Alive
    /\ Fail(f)
    /\ UNCHANGED <<call, attempts, flags, objects, wire, users>>

HandshakeStep ==
    /\ pc = "handshaking"
    /\ \/ /\ Alive
          /\ pc' = "versioning"
          /\ UNCHANGED <<call, failure, attempts, flags, objects, wire, users>>
       \/ \E f \in Failures : Break(f)

VersionStep ==
    /\ pc = "versioning"
    /\ \/ /\ Alive
          /\ pc' = "login"
          /\ UNCHANGED <<call, failure, attempts, flags, objects, wire, users>>
       \/ Alive /\ Refuse                  \* the wrong version
       \/ \E f \in Failures : Break(f)

\* mutant: the index stays
LoginSameIndex ==
    /\ wire' = [wire EXCEPT ![connection] = ModeOf(call.writable)]
    /\ connected' = TRUE
    /\ writable' = call.writable
    /\ index' = index
    /\ pc' = "asking"
    /\ UNCHANGED <<call, failure, attempts, objects, users>>

\* the server lets the account in and Connect notes it
LoggedInNow ==
    /\ wire' = [wire EXCEPT ![connection] = ModeOf(call.writable)]
    /\ connected' = TRUE
    /\ writable' = call.writable
    /\ index' = index + 1
    /\ pc' = "asking"
    /\ UNCHANGED <<call, failure, attempts, objects, users>>

LoginStep ==
    /\ pc = "login"
    /\ \/ Alive /\ LoggedInNow
       \/ Refuse                           \* no account number configured
       \/ \E f \in Failures : Break(f)

-----------------------------------------------------------------------------
(* The request itself, and the handler of its exceptions.                  *)

\* what the caller keeps of the answer
Answered ==
    /\ pc = "asking"
    /\ call.request \notin {"lend", "connect"} => Alive
    /\ listing' = IF call.request = "list"
                  THEN [index |-> index, attempt |-> connection] ELSE listing
    /\ lent' = IF call.request = "lend" THEN connection ELSE lent
    /\ pc' = "idle"
    /\ UNCHANGED <<call, failure, attempts, flags, objects, wire>>

NotAnswered ==
    /\ pc = "asking"
    /\ call.request \notin {"lend", "connect"}
    /\ \E f \in Failures : Break(f)

HandleException ==
    /\ pc = "handling"
    /\ pc' = "idle"
    /\ IF failure = "TLSReadFailed" THEN Drop ELSE UNCHANGED <<flags, objects, wire>>
    /\ UNCHANGED <<call, failure, attempts, users>>

\* a caller disconnects, or the last window closes
Disconnect ==
    /\ pc = "idle"
    /\ Drop
    /\ UNCHANGED <<pc, call, failure, attempts, users>>

Destroy ==
    /\ pc = "idle"
    /\ pc' = "ended"
    /\ IF connected THEN Drop ELSE UNCHANGED <<flags, objects, wire>>
    /\ UNCHANGED <<call, failure, attempts, users>>

\* the comparison is over
GiveBack ==
    /\ pc = "idle"
    /\ lent # NULL
    /\ lent' = NULL
    /\ UNCHANGED <<pc, call, failure, attempts, flags, objects, wire, listing>>

\* the server or the network drops an attempt at any time
WireDies(k) ==
    /\ wire[k] \in {"open"} \cup LoggedIn
    /\ wire' = [wire EXCEPT ![k] = "dead"]
    /\ UNCHANGED <<pc, call, failure, attempts, flags, objects, users>>

Next ==
    \/ \E c \in Calls : Enter(c)
    \/ NotConfigured \/ BadKeys \/ Open
    \/ HandshakeStep \/ VersionStep \/ LoginStep
    \/ Answered \/ NotAnswered \/ HandleException
    \/ Disconnect \/ Destroy \/ GiveBack
    \/ \E k \in Attempts : WireDies(k)

Spec == Init /\ [][Next]_vars

-----------------------------------------------------------------------------
(* Properties.                                                             *)

\* A request goes out only on a protocol object that is there, over a session
\* that was logged in, in the mode the request needs; it may have died since.
RequestOnItsSession ==
    pc = "asking" =>
        /\ connection \in connections
        /\ wire[connection] \in {ModeOf(call.writable), "dead"}

\* The program never forgets a session that is logged in, which would keep
\* the account locked on the server: whatever failed, reconnected or changed
\* mode before, the only one is the current connection.
NoForgottenSession ==
    \A k \in Attempts : wire[k] \in LoggedIn => connection = k /\ connected

\* mpSocket and mpConnection point to objects that exist, and no protocol
\* object outlives the socket it reads from, failed attempts included.
PointersLive ==
    /\ socket # NULL => socket \in sockets
    /\ connection # NULL => connection \in connections
    /\ connections \subseteq sockets

\* A listing cached under the current index (ServerCacheNode::GetChildren) was
\* read from the session that is connected now, never from an earlier one.
ListingFresh ==
    (listing # NULL /\ connected /\ listing.index = index)
        => listing.attempt = connection

\* The protocol object under a running comparison is deleted only by a read
\* failure, by Disconnect, by the end, or by a call that wants to write: the
\* reads of the other panels leave it alone.
LentSurvivesReads ==
    [][(lent \in connections /\ lent \notin connections') =>
          \/ pc = "handling" /\ failure = "TLSReadFailed"
          \/ Disconnect
          \/ Destroy
          \/ \E c \in Calls : Enter(c) /\ c.writable # writable]_vars
=============================================================================
