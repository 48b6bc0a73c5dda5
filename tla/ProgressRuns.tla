----------------------------- MODULE ProgressRuns -----------------------------
(***************************************************************************)
(* A backup (BackupProgressPanel) and a compare (CompareProgressPanel):    *)
(* both count the local files first (ProgressPanel::CountLocalFiles) and   *)
(* then leave the work to the library, which reports to the panel.         *)
(*                                                                         *)
(* Either run is one call in the only thread of the program.  It calls     *)
(* wxYield now and then: the user may click Stop, or Start again.  A       *)
(* wxYield inside a wxYield is refused, so this second run goes from start *)
(* to end within one step of the first.  Other programs change the files   *)
(* meanwhile.                                                              *)
(*                                                                         *)
(* There is one location.  The library's part is modelled by the calls     *)
(* that it makes back and by what the program's tests expect of it.  Sizes *)
(* in bytes are left out, and symbolic links are files.                    *)
(***************************************************************************)
EXTENDS Naturals, FiniteSets, FiniteSetsExt, Sequences, SequencesExt

CONSTANTS
    Nodes,       \* files and directories that there may be
    Root,        \* the directory of the location
    Parent,      \* the directory that a node is in
    Hidden,      \* for a choice of rules, the nodes that they exclude
    Late,        \* bound: times from here on are in the future
    MaxSeconds,  \* bound: runs started from within a run
    MaxChanges   \* bound: changes of files by other programs

\* the nodes at most k steps below the root
DownTo[k \in Nat] ==
    IF k = 0 THEN {Root}
    ELSE LET above == DownTo[k - 1] IN {n \in Nodes : n = Root \/ Parent[n] \in above}

ASSUME RunsAssumption ==
    /\ IsFiniteSet(Nodes) /\ Root \in Nodes /\ Parent \in [Nodes -> Nodes]
    /\ Nodes = DownTo[Cardinality(Nodes)]
    /\ \A r \in DOMAIN Hidden : Hidden[r] \subseteq Nodes \ {Root}
    /\ Late \in Nat /\ MaxSeconds \in Nat /\ MaxChanges \in Nat

VARIABLES
    disk,      \* the files and directories that are there, each with its kind,
               \* data, mode (nobody reads what is "closed") and time
    store,     \* what the server has of them
    lastSync,  \* the time of last_sync_start
    env,       \* the settings without a value, does the server answer, is the
               \* account full, which rules, MinimumFileAge, and the time
    pc,        \* where the run is
    yields,    \* has the last step called wxYield?
    kind,      \* "backup" or "compare"
    shown,     \* is the panel of the run shown?
    errors,    \* what is in its list of errors
    running,   \* mBackupRunning or mCompareRunning
    stop,      \* mBackupStopRequested or mCompareStopRequested
    counted,   \* mNumFilesCounted
    done,      \* mNumFilesDone
    range,     \* the range of the gauge
    frames,    \* the calls of CountLocalFiles, the innermost first
    todo,      \* the nodes the library has still to visit
    daemon,    \* mapDaemon: is it there, did it exceed the limit of the store?
    spent,     \* of the bounds: runs from within a run, changes of files
    history    \* for the properties: was a stop asked for, did a second run
               \* come in, did InitCrypto throw, which directories were read,
               \* how many nodes have gone and how many come or changed?

world == <<disk, store, lastSync, env>>
panel == <<kind, shown, errors>>
flags == <<running, stop>>
gauge == <<counted, done, range>>
walk  == <<frames, todo>>
vars  == <<world, pc, yields, panel, flags, gauge, walk, daemon, spent, history>>

NoDaemon   == [there |-> FALSE, exceeded |-> FALSE]
Unwritten  == [asked |-> FALSE, second |-> FALSE, crypto |-> FALSE,
               opened |-> {}, gone |-> 0, come |-> 0]

\* in one order or another
Listed(S) == FoldSet(LAMBDA n, seq : Append(seq, n), <<>>, S)

Ancestors[n \in Nodes] ==
    IF n = Root THEN {} ELSE {Parent[n]} \cup Ancestors[Parent[n]]

Below == [n \in Nodes |-> {m \in Nodes : n \in Ancestors[m]}]

Inside(tree, n)  == {m \in DOMAIN tree \ {Root} : Parent[m] = n}
IsFile(tree, n)  == tree[n].kind = "file"
Excluded(n)      == n \in Hidden[env.rules]
Put(tree, n, o)  == [m \in DOMAIN tree \cup {n} |-> IF m = n THEN o ELSE tree[m]]
Without(tree, S) == [m \in DOMAIN tree \ S |-> tree[m]]

\* the files that neither a rule nor a directory that cannot be listed hides
VisibleFiles ==
    {f \in DOMAIN disk :
        /\ IsFile(disk, f)
        /\ \A a \in {f} \cup Ancestors[f] :
              /\ ~ Excluded(a)
              /\ a # f => disk[a].mode # "closed"}

Object == [kind : {"file", "dir"}, data : Nat, mode : {"plain", "readonly", "closed"}, time : Nat]

\* whatever is there is in a directory that is there
IsFileTree(tree) ==
    /\ DOMAIN tree \subseteq Nodes /\ tree \in [DOMAIN tree -> Object]
    /\ Root \in DOMAIN tree => tree[Root].kind = "dir"
    /\ \A n \in DOMAIN tree \ {Root} : Parent[n] \in DOMAIN tree /\ tree[Parent[n]].kind = "dir"

\* any files, with times that are past or in the future; any store; any settings
WorldOK ==
    /\ IsFileTree(disk) /\ IsFileTree(store)
    /\ \A n \in DOMAIN disk : disk[n].time <= env.now \/ disk[n].time >= Late
    /\ lastSync \in Nat
    /\ env \in [unset : SUBSET STRING, server : BOOLEAN, full : BOOLEAN,
                rules : DOMAIN Hidden, minAge : Nat, now : Nat]

Idle ==
    /\ pc = "idle" /\ yields = FALSE
    /\ kind = "backup" /\ shown = FALSE /\ errors = <<>>
    /\ running = FALSE /\ stop = FALSE
    /\ counted = 0 /\ done = 0 /\ range = 0
    /\ frames = <<>> /\ todo = <<>>
    /\ daemon = NoDaemon
    /\ spent = [seconds |-> 0, changes |-> 0] /\ history = Unwritten

Alive == pc \notin {"idle", "ended"}

-----------------------------------------------------------------------------
(* Starting.                                                               *)

ResetCounters == /\ counted' = 0 /\ done' = 0

\* OnClickStartButton, StartBackup and StartCompare up to their first wxYield;
\* a backup checks the configuration first
Start(k) ==
    /\ pc = "idle"
    /\ k = "compare" \/ env.unset = {}
    /\ kind' = k /\ shown' = TRUE /\ errors' = <<>>
    /\ ResetCounters
    /\ running' = TRUE /\ stop' = FALSE
    /\ pc' = "starting" /\ yields' = TRUE
    /\ history' = Unwritten
    /\ UNCHANGED <<world, range, walk, daemon, spent>>

StartRefused ==
    /\ pc = "idle"
    /\ env.unset # {}
    /\ kind' = "backup" /\ shown' = TRUE
    /\ errors' = << <<"config error">> >>
    /\ history' = Unwritten
    /\ UNCHANGED <<world, pc, yields, flags, gauge, walk, daemon, spent>>

\* OnStopCloseClicked
StopOrClose ==
    /\ yields \/ pc = "idle"
    /\ shown
    /\ IF running
       THEN /\ stop' = TRUE
            /\ history' = [history EXCEPT !.asked = TRUE]
            /\ UNCHANGED shown
       ELSE /\ shown' = FALSE
            /\ UNCHANGED <<stop, history>>
    /\ UNCHANGED <<world, pc, yields, kind, errors, running, gauge, walk, daemon, spent>>

Connected == env.server /\ "StoreHostname" \notin env.unset

\* what a backup leaves on the store when nothing stands in its way
Synced ==
    [n \in {m \in DOMAIN disk : \A a \in {m} \cup Ancestors[m] :
                ~ Excluded(a) /\ disk[a].mode # "closed"} |-> disk[n]]

\* another run of the same panel, which goes well or does not get anywhere: it
\* resets the flags when it ends and, if it is a backup, replaces the daemon of
\* the first and then destroys its own
SecondRun ==
    /\ yields
    /\ spent.seconds < MaxSeconds
    /\ spent' = [spent EXCEPT !.seconds = @ + 1]
    /\ running' = FALSE /\ stop' = FALSE
    /\ shown' = TRUE
    /\ IF Connected /\ ~ env.full
       THEN /\ errors' = << <<"Finished">> >>
            /\ store' = IF kind = "backup" THEN Synced ELSE store
            /\ counted' = Cardinality(VisibleFiles)
            /\ done' = counted' /\ range' = counted'
       ELSE /\ errors' = << <<"connection">> >>
            /\ counted' = 0 /\ done' = 0
            /\ UNCHANGED <<store, range>>
    /\ daemon' = NoDaemon
    /\ history' = [history EXCEPT !.second = TRUE]
    /\ UNCHANGED <<disk, lastSync, env, pc, yields, kind, walk>>

-----------------------------------------------------------------------------
(* Ends.                                                                   *)

Over ==
    /\ pc' = "idle" /\ yields' = FALSE
    /\ frames' = <<>> /\ todo' = <<>>
    /\ daemon' = NoDaemon
    /\ running' = FALSE /\ stop' = FALSE
    /\ UNCHANGED <<disk, store, env, kind, shown, gauge, spent>>

\* an exception is caught and told
Fail(why) ==
    /\ Over
    /\ errors' = Append(errors, <<why>>)

\* a stop reaches a backup as such, and a compare as any other exception
Interrupted == IF kind = "backup" THEN "interrupted" ELSE "unknown error"

\* nobody catches what happens: the program ends
Ends ==
    /\ pc' = "ended" /\ yields' = FALSE
    /\ UNCHANGED <<world, panel, flags, gauge, walk, daemon, spent>>

\* the user starts the program again
Restart ==
    /\ pc = "ended"
    /\ pc' = "idle" /\ shown' = FALSE /\ errors' = <<>>
    /\ running' = FALSE /\ stop' = FALSE
    /\ counted' = 0 /\ done' = 0 /\ range' = 0
    /\ frames' = <<>> /\ todo' = <<>>
    /\ daemon' = NoDaemon
    /\ history' = Unwritten
    /\ UNCHANGED <<world, yields, kind, spent>>

\* the backup works with a daemon that is not there any more
DaemonMissed ==
    /\ kind = "backup" /\ pc \in {"counting", "working"}
    /\ ~ daemon.there
    /\ Ends /\ UNCHANGED history

\* the connection breaks, or the library throws for another reason
Broken ==
    /\ pc \in {"counting", "working"}
    /\ \E why \in {"connection", "unknown error"} : Fail(why)
    /\ UNCHANGED <<lastSync, history>>

-----------------------------------------------------------------------------
(* Connecting, and counting.                                               *)

\* entries that are left, files that were counted, and st, which keeps the
\* type of the last file that could be examined (and is not initialised)
Frame(n) == [dir |-> n, entered |-> FALSE, left |-> <<>>, files |-> 0, st |-> "none"]

NewDaemon == IF kind = "backup" THEN [NoDaemon EXCEPT !.there = TRUE] ELSE NoDaemon

\* InitCrypto throws, before the try block
InitCryptoThrows ==
    /\ pc = "starting" /\ kind = "backup"
    /\ Ends
    /\ history' = [history EXCEPT !.crypto = TRUE]

\* up to the first call of CountLocalFiles, which yields at once
Connect ==
    /\ pc = "starting"
    /\ lastSync' = IF kind = "backup" THEN env.now ELSE lastSync
    /\ IF Connected
       THEN /\ pc' = "counting" /\ yields' = TRUE
            /\ frames' = <<Frame(Root)>>
            /\ daemon' = NewDaemon
            /\ UNCHANGED <<disk, store, env, panel, flags, gauge, todo, spent>>
       ELSE Fail("connection")
    /\ UNCHANGED history

Top      == Head(frames)
WithTop(f) == <<f>> \o Tail(frames)

\* mutant: nobody asks whether a stop was requested
StopNotAsked == FALSE

IsStopRequested == stop

\* the directory is opened, unless that fails
CountOpen ==
    /\ pc = "counting" /\ frames # <<>> /\ ~ Top.entered
    /\ ~ IsStopRequested
    /\ IF Top.dir \in DOMAIN disk /\ disk[Top.dir].kind = "dir" /\ disk[Top.dir].mode # "closed"
       THEN frames' = WithTop([Top EXCEPT !.entered = TRUE,
                                          !.left = Listed(Inside(disk, Top.dir))])
       ELSE frames' = Tail(frames)
    /\ yields' = FALSE
    /\ history' = [history EXCEPT !.opened = @ \cup {Top.dir}]
    /\ UNCHANGED <<world, pc, panel, flags, gauge, todo, daemon, spent>>

CountStopped ==
    /\ pc = "counting" /\ frames # <<>> /\ ~ Top.entered
    /\ IsStopRequested
    /\ Fail(Interrupted)
    /\ UNCHANGED <<lastSync, history>>

\* mutant: every entry counts
FilesWith(n) == Top.files + 1

FilesAfter(n) == IF Excluded(n) THEN Top.files ELSE Top.files + 1

\* the type by which an entry is counted
Types(n) == IF n \in DOMAIN disk THEN {disk[n].kind}
            ELSE IF Top.st # "none" THEN {Top.st}
            ELSE {"file", "dir", "other"}

CountEntry ==
    /\ pc = "counting" /\ frames # <<>> /\ Top.entered /\ Top.left # <<>>
    /\ \E st \in Types(Head(Top.left)) :
       LET n    == Head(Top.left)
           gone == n \notin DOMAIN disk
           next == [Top EXCEPT !.left = Tail(@), !.st = st,
                               !.files = IF st = "file" THEN FilesAfter(n) ELSE @]
           down == st = "dir" /\ ~ Excluded(n)
       IN  /\ errors' = IF gone THEN Append(errors, <<"counting", n>>) ELSE errors
           /\ frames' = (IF down THEN <<Frame(n)>> ELSE <<>>) \o WithTop(next)
           /\ yields' = down
    /\ UNCHANGED <<world, pc, kind, shown, flags, gauge, todo, daemon, spent, history>>

\* NotifyMoreFilesCounted
CountClose ==
    /\ pc = "counting" /\ frames # <<>> /\ Top.entered /\ Top.left = <<>>
    /\ counted' = counted + Top.files
    /\ frames' = Tail(frames)
    /\ yields' = TRUE
    /\ UNCHANGED <<world, pc, panel, flags, done, range, todo, daemon, spent, history>>

\* mutant: where there are no files there is no work
CountingEndsWithFiles ==
    /\ pc = "counting" /\ frames = <<>>
    /\ counted > 0
    /\ pc' = "working" /\ yields' = TRUE
    /\ range' = counted
    /\ todo' = <<Root>>
    /\ UNCHANGED <<world, panel, flags, counted, done, frames, daemon, spent, history>>

CountingEnds ==
    /\ pc = "counting" /\ frames = <<>>
    /\ pc' = "working" /\ yields' = TRUE
    /\ range' = counted
    /\ todo' = <<Root>>
    /\ UNCHANGED <<world, panel, flags, counted, done, frames, daemon, spent, history>>

-----------------------------------------------------------------------------
(* The work.  The library visits the files of a directory before the       *)
(* directories in it.                                                      *)

InOrder(tree, S) ==
    Listed({n \in S : IsFile(tree, n)}) \o Listed({n \in S : ~ IsFile(tree, n)})

Working(k) ==
    /\ pc = "working" /\ kind = k
    /\ kind = "backup" => daemon.there
    /\ todo # <<>>

\* what is visited
node == Head(todo)

Old(n) == disk[n].time >= Late \/ disk[n].time + env.minAge <= env.now

\* what is on the store below n and has gone here, or is excluded now
Obsolete(n) ==
    {m \in Below[n] : \E c \in Inside(store, n) :
        m \in {c} \cup Below[c] /\ (c \notin DOMAIN disk \/ Excluded(c))}

SyncGone ==
    /\ Working("backup") /\ node \notin DOMAIN disk
    /\ todo' = Tail(todo)
    /\ errors' = Append(errors, <<"read failed", node>>)
    /\ yields' = TRUE
    /\ UNCHANGED <<world, pc, kind, shown, flags, gauge, frames, daemon, spent, history>>

SyncStopped ==
    /\ Working("backup") /\ node \in DOMAIN disk /\ ~ IsFile(disk, node)
    /\ IsStopRequested
    /\ Fail(Interrupted)
    /\ UNCHANGED <<lastSync, history>>

\* StopRun, NotifyScanDirectory and NotifyDirListFailed; the directory is made
\* on the store, unless that is full, and what has gone is deleted there
SyncDirectory ==
    /\ Working("backup") /\ node \in DOMAIN disk /\ ~ IsFile(disk, node)
    /\ ~ IsStopRequested
    /\ LET there  == node \in DOMAIN store /\ ~ IsFile(store, node)
           closed == disk[node].mode = "closed"
           full   == ~ there /\ env.full
       IN  /\ store' = IF full THEN store
                       ELSE Put(Without(store, IF closed THEN {} ELSE Obsolete(node)), node, disk[node])
           /\ daemon' = [daemon EXCEPT !.exceeded = @ \/ full]
           /\ errors' = IF closed THEN Append(errors, <<"list failed", node>>) ELSE errors
           /\ todo' = (IF closed \/ full THEN <<>>
                       ELSE InOrder(disk, {m \in Inside(disk, node) : ~ Excluded(m)}))
                      \o Tail(todo)
    /\ yields' = TRUE
    /\ history' = [history EXCEPT !.opened = @ \cup {node}]
    /\ UNCHANGED <<disk, lastSync, env, pc, kind, shown, flags, gauge, frames, spent>>

\* NotifyFileUploadException, NotifyFileSkippedServerFull: not synchronised
SyncFileFails ==
    LET closed == disk[node].mode = "closed"
    IN  /\ errors' = Append(errors, <<IF closed THEN "access denied" ELSE "no space", node>>)
        /\ daemon' = [daemon EXCEPT !.exceeded = @ \/ ~ closed]
        /\ UNCHANGED <<store, done>>

\* NotifyFileModifiedInFuture and NotifyFileSynchronised
SyncFileSucceeds(upload) ==
    /\ store' = IF upload THEN Put(Without(store, Below[node]), node, disk[node]) ELSE store
    /\ errors' = IF disk[node].time >= Late THEN Append(errors, <<"future", node>>) ELSE errors
    /\ done' = done + 1
    /\ UNCHANGED daemon

SyncFile ==
    /\ Working("backup") /\ node \in DOMAIN disk /\ IsFile(disk, node)
    /\ LET upload == Old(node) /\ ~ (node \in DOMAIN store /\ store[node] = disk[node])
       IN  IF disk[node].mode = "closed" \/ (upload /\ env.full) THEN SyncFileFails
           ELSE SyncFileSucceeds(upload)
    /\ todo' = Tail(todo)
    /\ yields' = TRUE
    /\ UNCHANGED <<disk, lastSync, env, pc, kind, shown, flags, counted, range, frames,
                   spent, history>>

\* what a comparison finds at a node, when some nodes are excluded
Verdict(n, hidden) ==
    IF n \notin DOMAIN store THEN
       IF n \notin hidden THEN {"remote missing"}
       ELSE {IF IsFile(disk, n) THEN "excluded file" ELSE "excluded dir"}
    ELSE IF n \notin DOMAIN disk THEN {"local missing"}
    ELSE IF n \in hidden THEN {"not deleted"}
    ELSE IF disk[n].kind # store[n].kind THEN {"remote missing", "local missing"}
    ELSE (IF disk[n].mode = "closed" THEN {"unchecked"}
          ELSE IF IsFile(disk, n) /\ disk[n].data # store[n].data THEN {"contents"} ELSE {})
         \cup IF \/ disk[n].mode # store[n].mode
                 \/ IsFile(disk, n) /\ disk[n].time # store[n].time
              THEN {"attributes"} ELSE {}

\* a directory on both sides, which can be listed and is not excluded
Entered(n, hidden) ==
    /\ n \in DOMAIN disk \cap DOMAIN store /\ n \notin hidden
    /\ ~ IsFile(disk, n) /\ ~ IsFile(store, n) /\ disk[n].mode # "closed"

Told(n, hidden) == Verdict(n, hidden) \ {"excluded file", "excluded dir"}

\* NotifyDirComparing or NotifyFileComparing, and what comes of it; a file that
\* is on both sides is done when it was compared
CompareNode ==
    /\ Working("compare")
    /\ LET hidden == Hidden[env.rules]
           both   == node \in DOMAIN disk \cap DOMAIN store
           inside == Inside(disk, node) \cup Inside(store, node)
       IN  /\ IF node \in DOMAIN disk \cup DOMAIN store
              THEN errors' = errors \o [i \in 1 .. Cardinality(Told(node, hidden)) |->
                                            <<Listed(Told(node, hidden))[i], node>>]
              ELSE UNCHANGED errors
           /\ todo' = (IF Entered(node, hidden) THEN Listed(inside) ELSE <<>>) \o Tail(todo)
           /\ done' = IF both /\ Told(node, hidden) \subseteq {"contents", "attributes"}
                          /\ IsFile(disk, node) THEN done + 1 ELSE done
    /\ yields' = TRUE
    /\ UNCHANGED <<world, pc, kind, shown, flags, counted, range, frames, daemon, spent, history>>

\* mutant: the limit of the store is forgotten
FinishedWhateverHappens == <<"Finished">>

Outcome == IF daemon.exceeded THEN <<"store full">> ELSE <<"Finished">>

\* mutant: the flags are left as they are
FinishRunning ==
    /\ pc = "working" /\ todo = <<>>
    /\ kind = "backup" => daemon.there
    /\ pc' = "idle" /\ yields' = FALSE
    /\ errors' = Append(errors, Outcome)
    /\ daemon' = NoDaemon
    /\ UNCHANGED <<world, kind, shown, flags, gauge, walk, spent, history>>

Finish ==
    /\ pc = "working" /\ todo = <<>>
    /\ kind = "backup" => daemon.there
    /\ Over
    /\ errors' = Append(errors, Outcome)
    /\ UNCHANGED <<lastSync, history>>

-----------------------------------------------------------------------------
(* Other programs.                                                         *)

Change(tree) ==
    /\ Alive
    /\ spent.changes < MaxChanges
    /\ spent' = [spent EXCEPT !.changes = @ + 1]
    /\ disk' = tree
    /\ UNCHANGED <<store, lastSync, env, pc, yields, panel, flags, gauge, walk, daemon>>

Vanish(n) ==
    /\ n \in DOMAIN disk \ {Root}
    /\ LET S == ({n} \cup Below[n]) \cap DOMAIN disk
       IN  /\ Change(Without(disk, S))
           /\ history' = [history EXCEPT !.gone = @ + Cardinality(S)]

Write(n, data) ==
    /\ Parent[n] \in DOMAIN disk /\ disk[Parent[n]].kind = "dir"
    /\ n \in DOMAIN disk => IsFile(disk, n) /\ disk[n].data # data
    /\ Change(Put(disk, n, [kind |-> "file", data |-> data, mode |-> "plain", time |-> env.now]))
    /\ history' = [history EXCEPT !.come = @ + 1]

-----------------------------------------------------------------------------
\* what the run does next by itself
Step ==
    \/ Connect
    \/ CountOpen \/ CountStopped \/ CountEntry \/ CountClose \/ CountingEnds
    \/ SyncGone \/ SyncStopped \/ SyncDirectory \/ SyncFile \/ CompareNode
    \/ Finish

\* what is outside of it
Fault == InitCryptoThrows \/ DaemonMissed \/ Broken \/ Restart

User == Start("backup") \/ Start("compare") \/ StartRefused \/ StopOrClose \/ SecondRun

Others == \E n \in Nodes : Vanish(n) \/ \E data \in Nat : Write(n, data)

Next == Step \/ Fault \/ User \/ Others

\* the files, the store and the settings are any
Spec == WorldOK /\ Idle /\ [][Next]_vars

-----------------------------------------------------------------------------
(* Properties.                                                             *)

\* what a list of errors may tell
Texts == {"config error", "connection", "unknown error", "interrupted", "Finished", "store full",
          "counting", "read failed", "list failed", "access denied", "no space", "future",
          "remote missing", "local missing", "not deleted", "unchecked", "contents", "attributes"}

\* Every variable has its type, and whatever runs do or break off, the files and
\* the store stay trees: nothing is left on the store in a directory that was
\* deleted there or has become a file.
TypeOK ==
    /\ WorldOK
    /\ pc \in {"idle", "starting", "counting", "working", "ended"} /\ yields \in BOOLEAN
    /\ kind \in {"backup", "compare"} /\ shown \in BOOLEAN
    /\ errors \in Seq(Seq(Texts \cup Nodes))
    /\ running \in BOOLEAN /\ stop \in BOOLEAN
    /\ counted \in Nat /\ done \in Nat /\ range \in Nat
    /\ frames \in Seq([dir : Nodes, entered : BOOLEAN, left : Seq(Nodes), files : Nat,
                       st : {"none", "file", "dir", "other"}])
    /\ todo \in Seq(Nodes)
    /\ daemon \in [there : BOOLEAN, exceeded : BOOLEAN]
    /\ spent \in [seconds : 0 .. MaxSeconds, changes : 0 .. MaxChanges]
    /\ history \in [asked : BOOLEAN, second : BOOLEAN, crypto : BOOLEAN,
                    opened : SUBSET Nodes, gone : Nat, come : Nat]

\* When the work begins, the gauge is set to the files that the rules leave:
\* a file or directory that goes while the files are counted (a vanished one
\* is taken for what the entry before it was) makes a difference of one at
\* most, and no more files get done than were counted, new ones apart.
GaugeIsRight ==
    pc = "working" /\ ~ history.second =>
        /\ range <= Cardinality(VisibleFiles) + history.gone
        /\ Cardinality(VisibleFiles) <= range + history.come
        /\ done <= range + history.come

\* the same, but for the times of directories, which nobody compares
Alike(tree, other) ==
    /\ DOMAIN tree = DOMAIN other
    /\ \A n \in DOMAIN tree :
          IF IsFile(tree, n) THEN tree[n] = other[n]
          ELSE <<tree[n].kind, tree[n].mode>> = <<other[n].kind, other[n].mode>>

\* A run that ends and tells nothing but that it has finished leaves on the
\* store, or finds there, exactly what the rules leave of the files, if nobody
\* changed them in the meantime and no file may be too new for the server.
FinishedMeansSame ==
    [][/\ pc = "working" /\ pc' # "working" /\ errors' = << <<"Finished">> >>
       /\ ~ history.second /\ history.gone + history.come = 0 /\ env.minAge = 0
       => IF kind = "backup" THEN store' = Synced' ELSE Alike(store', Synced')]_vars

\* Once the user has asked for a stop no directory is listed anymore, unless a
\* second run comes in; a compare that has begun to compare does not ask.
StopIsHonoured ==
    [][history.asked /\ ~ history.second /\ ~ (kind = "compare" /\ pc = "working")
          => history'.opened \subseteq history.opened]_vars

\* As long as no second run comes in, the button of the panel stops the run
\* while there is one and hides the panel when there is none, the panel stays,
\* and only an exception of InitCrypto ends the program.
AloneIsSafe ==
    ~ history.second =>
        /\ pc # "ended" => (running <=> Alive)
        /\ Alive => shown
        /\ pc = "ended" => history.crypto

\* A run that was started comes to an end, or the program does.
RunReturns == Alive ~> ~ Alive
=============================================================================
