----------------------------- MODULE ServerCache -----------------------------
(***************************************************************************)
(* One directory of the store as the restore and compare trees see it      *)
(* (ServerCacheNode, RestoreFilesPanel.cc): its children are listed once   *)
(* per connection and kept with all their versions.                        *)
(*                                                                         *)
(* The children are the elements of a std::vector, so a pointer to a child *)
(* is a buffer and a position in it, and stops being good when the vector  *)
(* moves to a larger buffer; what is written through it then is lost.  A   *)
(* version is the id of its object on the store; newer objects have        *)
(* greater ids.                                                            *)
(***************************************************************************)
EXTENDS Naturals, Sequences, SequencesExt, FiniteSetsExt

CONSTANTS
    Names,        \* names of files and directories in the directory
    MaxId,        \* bound: objects ever stored
    MaxIndex,     \* bound: connections
    NULL          \* the null pointer

\* a connection has been made when the panel opens; a null pointer points at nothing
ASSUME CacheAssumption ==
    /\ MaxId \in Nat
    /\ MaxIndex \in Nat \ {0}
    /\ NULL \notin Nat \cup [buffer : Nat, pos : Nat \ {0}]

VARIABLES
    server,       \* external: the directory on the store, a sequence of entries
    newest,       \* external: the greatest id given out
    index,        \* mConnectionIndex of the connection
    nodes,        \* mChildren
    buffer,       \* which buffer the vector has
    capacity,     \* of that buffer
    cachedIndex,  \* mConnectionIndex of the node, NULL while mCached is false
    listed,       \* the listing that the nodes were last made from
    held          \* the pointers to children that the tree on the screen holds

vector == <<nodes, buffer, capacity>>
store  == <<server, newest>>
vars   == <<store, index, vector, cachedIndex, listed, held>>

DirEntry == [name : Names, id : 1 .. MaxId]

Node == [name : Names, versions : Seq(1 .. MaxId), mostRecent : 1 .. MaxId \cup {NULL}]

Pointer == [buffer : Nat, pos : Nat \ {0}, name : Names]

Init ==
    /\ server = <<>> /\ newest = 0
    /\ index = 1
    /\ nodes = <<>> /\ buffer = 0 /\ capacity = 0
    /\ cachedIndex = NULL
    /\ listed = <<>>
    /\ held = {}

-----------------------------------------------------------------------------
(* The store, and the connection to it.                                    *)

\* bbackupd uploads a file, as a new version if the name is there already
Upload(name) ==
    /\ newest < MaxId
    /\ newest' = newest + 1
    /\ server' = Append(server, [name |-> name, id |-> newest'])
    /\ UNCHANGED <<index, vector, cachedIndex, listed, held>>

\* housekeeping removes an object
Expire(i) ==
    /\ server' = RemoveAt(server, i)
    /\ UNCHANGED <<newest, index, vector, cachedIndex, listed, held>>

\* some request of another panel had to connect again
Reconnect ==
    /\ index < MaxIndex
    /\ index' = index + 1
    /\ UNCHANGED <<store, vector, cachedIndex, listed, held>>

-----------------------------------------------------------------------------
(* GetChildren.                                                            *)

\* mutant: the pointer to the most recent version is not reset
ClearedVersions(ns) == [i \in DOMAIN ns |-> [ns[i] EXCEPT !.versions = <<>>]]

\* mutant: children that are no longer listed are erased
WithoutUnlisted(ns) ==
    LET kept == SelectSeq(ns, LAMBDA c : \E e \in Range(server) : e.name = c.name)
    IN  [i \in DOMAIN kept |->
            [name |-> kept[i].name, versions |-> <<>>, mostRecent |-> NULL]]

\* the existing nodes lose their versions and go into the hash table
Cleared(ns) ==
    [i \in DOMAIN ns |->
        [name |-> ns[i].name, versions |-> <<>>, mostRecent |-> NULL]]

TableOf(ns) ==
    [n \in Names |->
        LET i == SelectInSeq(ns, LAMBDA c : c.name = n)
        IN  IF i = 0 THEN NULL ELSE [buffer |-> buffer, pos |-> i]]

\* mChildren.push_back: a full vector moves to a buffer twice as large
PushBack(a, name) ==
    LET full == Len(a.nodes) = a.capacity
        b    == IF full THEN a.buffer + 1 ELSE a.buffer
    IN  [nodes    |-> Append(a.nodes, [name |-> name, versions |-> <<>>,
                                       mostRecent |-> NULL]),
         buffer   |-> b,
         capacity |-> IF ~ full THEN a.capacity
                      ELSE IF a.capacity = 0 THEN 1 ELSE 2 * a.capacity,
         table    |-> [a.table EXCEPT ![name] =
                          [buffer |-> b, pos |-> Len(a.nodes) + 1]]]

\* mutant: only new nodes get a version
TakeNewEntry(a, e) ==
    IF a.table[e.name] # NULL THEN a
    ELSE LET b == PushBack(a, e.name)
         IN  [b EXCEPT !.nodes[b.table[e.name].pos].versions = <<e.id>>]

\* a new version for a directory entry, through the pointer in the table
TakeEntry(a, e) ==
    LET b == IF a.table[e.name] = NULL THEN PushBack(a, e.name) ELSE a
        p == b.table[e.name]
    IN  IF p.buffer = b.buffer
        THEN [b EXCEPT !.nodes[p.pos].versions = Append(@, e.id)]
        ELSE b

\* the listing may itself have had to connect again; the tree takes the
\* pointers to the children it is given
GetChildren ==
    \E now \in {index, index + 1} :
        /\ cachedIndex # index
        /\ now <= MaxIndex
        /\ LET a == FoldLeft(TakeEntry,
                        [nodes |-> Cleared(nodes), buffer |-> buffer,
                         capacity |-> capacity, table |-> TableOf(nodes)], server)
           IN  /\ nodes' = a.nodes
               /\ buffer' = a.buffer
               /\ capacity' = a.capacity
        /\ index' = now
        /\ cachedIndex' = now
        /\ listed' = server
        /\ UNCHANGED <<store, held>>

\* the tree is expanded: it keeps a pointer to every child
Expand ==
    /\ cachedIndex = index
    /\ held' = held \cup {[buffer |-> buffer, pos |-> i, name |-> nodes[i].name] :
                            i \in DOMAIN nodes}
    /\ UNCHANGED <<store, index, vector, cachedIndex, listed>>

Newest(versions) == Max(Range(versions))

\* GetMostRecent keeps what it finds
GetMostRecent(i) ==
    /\ nodes[i].mostRecent = NULL
    /\ nodes[i].versions # <<>>
    /\ nodes' = [nodes EXCEPT ![i].mostRecent = Newest(nodes[i].versions)]
    /\ UNCHANGED <<store, index, buffer, capacity, cachedIndex, listed, held>>

Next ==
    \/ \E n \in Names : Upload(n)
    \/ \E i \in DOMAIN server : Expire(i)
    \/ Reconnect
    \/ GetChildren
    \/ Expand
    \/ \E i \in DOMAIN nodes : GetMostRecent(i)

Spec == Init /\ [][Next]_vars

-----------------------------------------------------------------------------
(* Properties.                                                             *)

\* Every variable has its type, and the vector fits its buffer.
TypeOK ==
    /\ server \in Seq(DirEntry) /\ listed \in Seq(DirEntry)
    /\ newest \in 0 .. MaxId
    /\ index \in 1 .. MaxIndex
    /\ nodes \in Seq(Node)
    /\ buffer \in Nat
    /\ capacity \in Nat /\ Len(nodes) <= capacity
    /\ cachedIndex \in 1 .. MaxIndex \cup {NULL}
    /\ held \subseteq Pointer

\* What the trees show and offer is the last listing and nothing older, however
\* often the directory was listed over however many connections: a name has one
\* node, every version that can be restored was listed under that name, and the
\* most recent version that a node keeps a pointer to is one it still has, and
\* the newest.
CacheIsTrue ==
    /\ TypeOK
    /\ \A i \in DOMAIN nodes :
           /\ \A j \in DOMAIN nodes : nodes[i].name = nodes[j].name => i = j
           /\ \A v \in Range(nodes[i].versions) :
                  [name |-> nodes[i].name, id |-> v] \in Range(listed)
           /\ nodes[i].mostRecent # NULL =>
                  /\ nodes[i].mostRecent \in Range(nodes[i].versions)
                  /\ \A v \in Range(nodes[i].versions) : v <= nodes[i].mostRecent

\* Listing again under a new connection leaves the pointers that the tree holds
\* good, and pointing to the same names, as long as it brings no new name.
HeldSurvivesSameNames ==
    [][\A p \in held :
          (/\ p.buffer = buffer
           /\ {e.name : e \in Range(listed')} \subseteq {c.name : c \in Range(nodes)})
          => /\ p.buffer = buffer'
             /\ p.pos \in DOMAIN nodes'
             /\ nodes'[p.pos].name = p.name]_vars

\* what Catalogue calls the stored, the offered and the best versions of a name
Stored(s) == [n \in Names |-> {v \in 1 .. MaxId : [name |-> n, id |-> v] \in Range(s)}]

Of(ns, n) == {ns[i] : i \in {j \in DOMAIN ns : ns[j].name = n}}

Offered(ns) == [n \in Names |-> UNION {Range(c.versions) : c \in Of(ns, n)}]

BestOf(c) == IF c.mostRecent # NULL THEN {c.mostRecent}
             ELSE {v \in Range(c.versions) : \A w \in Range(c.versions) : w <= v}

Best(ns) == [n \in Names |-> UNION {BestOf(c) : c \in Of(ns, n)}]

Directory == INSTANCE Catalogue WITH
    stored <- Stored(server), last <- newest, session <- index,
    known <- {c.name : c \in Range(nodes)}, room <- capacity,
    offered <- Offered(nodes), best <- Best(nodes),
    of <- cachedIndex, None <- NULL

\* GetChildren and GetMostRecent keep the promises of Catalogue: whatever was
\* listed, had expired or was asked for before, a listing offers what is on the
\* store, all of it unless the vector has to grow; and what GetMostRecent
\* remembers is no more than what it would find.
IsCatalogue == Directory!Spec

\* The comment in GetChildren: "create new nodes for all unique names that did
\* not exist before, and new versions for every directory entry".
VersionForEveryEntry ==
    \A e \in Range(listed) : \E i \in DOMAIN nodes :
        nodes[i].name = e.name /\ e.id \in Range(nodes[i].versions)
=============================================================================
