------------------------------ MODULE RestoreRun ------------------------------
(***************************************************************************)
(* A restore (RestoreProgressPanel.cc): StartRestore copies the spec,      *)
(* counts the files that its entries include, dropping the entries that    *)
(* would restore a file twice, and then restores them into a new           *)
(* directory.                                                              *)
(*                                                                         *)
(* The whole of it runs on the one thread of the program, inside the       *)
(* handler of the Start button, and now and then calls wxYield, which      *)
(* handles other events: the user may click Stop, or change the            *)
(* destination and click Start again.  A wxYield inside a wxYield is       *)
(* refused, so this second restore runs from start to end in one step of   *)
(* the first.  The recursion over directories is a stack of nodes still to *)
(* be visited.  The user's clicks are those at an up-to-date tree          *)
(* (RestoreSelection has the others); during a restore they do not matter, *)
(* since it has a copy of the spec, and are left out.                      *)
(***************************************************************************)
EXTENDS RestoreSpec

CONSTANTS
    Dirs,         \* the nodes that are directories
    Dates,        \* the dates to restore to, "none" perhaps among them
    Listing,      \* for a date, what the store lists of each directory
    Gone,         \* for a date, the nodes whose version of then is a deleted one
    Absent,       \* for a date, the nodes that have no version as old as that
    MaxClicks,    \* bound: clicks in the tree
    MaxSeconds    \* bound: restores started from within the restore

ASSUME RunAssumption ==
    /\ Dirs \subseteq Nodes /\ Root \in Dirs
    /\ Listing \in [Dates -> [Dirs -> Seq(Nodes \ {Root})]]
    /\ \A d \in Dates : \A n \in Dirs \ {Root} : Listing[d][n] # <<>> =>
          \E m \in Dirs : n \in Range(Listing[d][m])
    /\ \A d \in Dates : \A n \in Dirs : \A i \in DOMAIN Listing[d][n] :
          /\ Parent[Listing[d][n][i]] = n
          /\ \A j \in DOMAIN Listing[d][n] : Listing[d][n][i] = Listing[d][n][j] => i = j
    /\ Gone \in [Dates -> SUBSET (Nodes \ {Root})]
    /\ Absent \in [Dates -> SUBSET (Nodes \ {Root})]
    /\ MaxClicks \in Nat /\ MaxSeconds \in Nat

VARIABLES
    chosen,    \* the spec of the tree
    clicks,    \* clicks made so far
    pc,        \* where StartRestore is
    yields,    \* has the last step called wxYield?
    spec,      \* its own copy of the spec
    date,      \* and of the date in it
    entries,   \* the entries that its loop has still to look at
    top,       \* pRootNode of CountFilesRecursive
    todo,      \* the nodes that the recursion has still to visit
    running,   \* mRestoreRunning
    stop,      \* mRestoreStopRequested
    counted,   \* mNumFilesCounted
    done,      \* mNumFilesDone
    restored,  \* the files that are in the destination directory
    made,      \* the directories that are there
    succeeded, \* the local variable of that name
    errors,    \* what is in the list of errors, as a set of messages
    seconds,   \* restores that were started from within this one
    history    \* for the properties: was a stop asked for, did a second restore
               \* run, could a directory not be listed, did anything fail?

user     == <<chosen, clicks>>
walk     == <<spec, date, entries, top, todo>>
flags    == <<running, stop>>
counters == <<counted, done>>
disk     == <<restored, made>>
result   == <<succeeded, errors>>
vars     == <<user, pc, yields, walk, flags, counters, disk, result, seconds, history>>

Calm == [asked |-> FALSE, second |-> FALSE, unread |-> FALSE, failed |-> FALSE]

StoredAt == [d \in Dates |-> {Root} \cup UNION {Range(Listing[d][n]) : n \in Dirs}]

Stored == StoredAt[date]

Files == Stored \ Dirs

Init ==
    /\ chosen = <<>> /\ clicks = 0
    /\ pc = "idle" /\ yields = FALSE
    /\ spec = <<>> /\ entries = <<>> /\ top = NULL /\ todo = <<>>
    /\ date \in Dates
    /\ running = FALSE /\ stop = FALSE
    /\ counted = 0 /\ done = 0
    /\ restored = {} /\ made = {}
    /\ succeeded = FALSE /\ errors = {}
    /\ seconds = 0 /\ history = Calm

Children(n) == IF n \in Dirs THEN Listing[date][n] ELSE <<>>

Excluded(list, n) == Contains(list, [node |-> n, include |-> FALSE])

\* GetVersionToRestore finds nothing, or nothing to restore
Missing == Gone[date] \cup Absent[date]

\* the first entry for a node includes it
FirstIncludes(list, n) ==
    LET i == SelectInSeq(list, LAMBDA e : e.node = n)
    IN  i # 0 /\ list[i].include

-----------------------------------------------------------------------------
(* The user.                                                               *)

\* what a click at an up-to-date node does to the spec
Toggled(list, n) ==
    LET state == Shown(list, 0)
        own   == IF n = Root THEN state[n].match # NULL
                 ELSE state[Parent[n]].match # state[n].match
    IN  IF own THEN RemoveEntry(list, list[state[n].match.pos])
        ELSE AddEntry(list, [node |-> n, include |-> ~ state[n].included])

Click(n) ==
    /\ pc = "idle"
    /\ clicks < MaxClicks
    /\ clicks' = clicks + 1
    /\ chosen' = Toggled(chosen, n)
    /\ Len(chosen') <= MaxEntries
    /\ UNCHANGED <<pc, yields, walk, flags, counters, disk, result, seconds, history>>

\* the new destination is made, and everything is set for the restore
StartTo(d) ==
    /\ pc = "idle"
    /\ pc' = "counting" /\ yields' = TRUE
    /\ running' = TRUE /\ stop' = FALSE
    /\ counted' = 0 /\ done' = 0
    /\ spec' = chosen /\ entries' = chosen
    /\ date' = d
    /\ restored' = {} /\ made' = {}
    /\ errors' = {}
    /\ history' = Calm
    /\ UNCHANGED <<user, top, todo, succeeded, seconds>>

\* to some date; the store is what it was
Start == \E d \in Dates : StoredAt[d] = Stored /\ StartTo(d)

\* OnStopCloseClicked while a restore runs; otherwise it hides the panel
Stop ==
    /\ yields
    /\ running
    /\ stop' = TRUE
    /\ history' = [history EXCEPT !.asked = TRUE]
    /\ UNCHANGED <<user, pc, yields, walk, running, counters, disk, result, seconds>>

\* another restore, which leaves these flags and some counters behind
SecondRestore ==
    /\ yields
    /\ seconds < MaxSeconds
    /\ seconds' = seconds + 1
    /\ running' = FALSE /\ stop' = FALSE
    /\ counted' \in 0 .. Cardinality(Files)
    /\ done' \in 0 .. counted'
    /\ history' = [history EXCEPT !.second = TRUE]
    /\ UNCHANGED <<user, pc, yields, walk, disk, result>>

-----------------------------------------------------------------------------
(* Counting.                                                               *)

\* mutant: nothing is redundant
AllOf(list, n) == list

\* the include entry of a node below the one that is counted is dropped
WithoutRedundant(list, n) ==
    IF n # top /\ FirstIncludes(list, n)
    THEN RemoveEntry(list, [node |-> n, include |-> TRUE])
    ELSE list

\* mutant: the entries are not asked
HasVersion(n) == n \notin Missing

\* is the node counted, or its directory read?
Countable(n) == n \notin Missing /\ ~ Excluded(spec, n)

\* mutant: an entry that was dropped is not passed over
CountEntryStuck ==
    /\ pc = "counting" /\ todo = <<>> /\ entries # <<>>
    /\ IF Head(entries).include /\ Contains(spec, Head(entries))
       THEN /\ top' = Head(entries).node
            /\ todo' = <<Head(entries).node>>
            /\ entries' = Tail(entries)
       ELSE UNCHANGED <<top, todo, entries>>
    /\ yields' = FALSE
    /\ UNCHANGED <<user, pc, spec, date, flags, counters, disk, result, seconds, history>>

\* the next entry, unless it has been dropped
CountEntry ==
    /\ pc = "counting" /\ todo = <<>> /\ entries # <<>>
    /\ entries' = Tail(entries)
    /\ IF Head(entries).include /\ Contains(spec, Head(entries))
       THEN /\ top' = Head(entries).node
            /\ todo' = <<Head(entries).node>>
       ELSE UNCHANGED <<top, todo>>
    /\ yields' = FALSE
    /\ UNCHANGED <<user, pc, spec, date, flags, counters, disk, result, seconds, history>>

\* CountFilesRecursive for one node; the yield is before the listing, which
\* the connection may fail to give
CountNode ==
    /\ pc = "counting" /\ todo # <<>>
    /\ LET n == Head(todo)
           counts == ~ stop /\ Countable(n)
       IN  /\ spec' = IF stop \/ n \in Absent[date] THEN spec ELSE WithoutRedundant(spec, n)
           /\ \/ /\ todo' = (IF counts /\ n \in Dirs THEN Children(n) ELSE <<>>)
                            \o Tail(todo)
                 /\ UNCHANGED history
              \/ /\ counts /\ n \in Dirs
                 /\ todo' = Tail(todo)
                 /\ history' = [history EXCEPT !.unread = TRUE]
           /\ counted' = IF counts /\ n \in Files THEN counted + 1 ELSE counted
           /\ yields' = counts
    /\ UNCHANGED <<user, pc, date, entries, top, flags, done, disk, result, seconds>>

\* the entries are loaded again
CountingEnds ==
    /\ pc = "counting" /\ todo = <<>> /\ entries = <<>>
    /\ pc' = "restoring" /\ yields' = TRUE
    /\ entries' = spec
    /\ succeeded' = FALSE
    /\ UNCHANGED <<user, spec, date, top, todo, flags, counters, disk, errors, seconds, history>>

-----------------------------------------------------------------------------
(* Restoring.                                                              *)

\* RestoreFilesRecursive or MakeLocalPath failed: the loop ends
GiveUp(messages) ==
    /\ todo' = <<>> /\ entries' = <<>>
    /\ succeeded' = FALSE
    /\ errors' = errors \cup messages
    /\ yields' = FALSE
    /\ UNCHANGED <<done, disk>>

\* something outside the program failed
Failure ==
    /\ GiveUp({})
    /\ history' = [history EXCEPT !.failed = TRUE]

\* WriteAttributes throws: past the loop, and past its end
Throw ==
    /\ todo' = <<>> /\ entries' = <<>>
    /\ errors' = errors \cup {"exception"}
    /\ history' = [history EXCEPT !.failed = TRUE]
    /\ yields' = FALSE
    /\ UNCHANGED <<succeeded, done, disk>>

\* the next entry: MakeLocalPath makes the directories above an include entry,
\* and an exclude entry goes by the result of the entry before it
RestoreEntry ==
    /\ pc = "restoring" /\ todo = <<>> /\ entries # <<>>
    /\ LET e == Head(entries) IN
          \/ /\ e.include
             /\ entries' = Tail(entries)
             /\ todo' = <<e.node>>
             /\ made' = made \cup (Ancestors[e.node] \ {Root})
             /\ succeeded' = TRUE
             /\ yields' = FALSE
             /\ UNCHANGED <<errors, done, restored, history>>
          \/ e.include /\ (Failure \/ Throw)
          \/ /\ ~ e.include
             /\ entries' = IF succeeded THEN Tail(entries) ELSE <<>>
             /\ yields' = FALSE
             /\ UNCHANGED <<todo, succeeded, errors, done, disk, history>>
    /\ UNCHANGED <<user, pc, spec, date, top, flags, counted, seconds>>

\* nothing to restore here
Pass ==
    /\ todo' = Tail(todo)
    /\ yields' = FALSE
    /\ UNCHANGED <<entries, result, done, disk, history>>

\* mutant: what is in the directory is forgotten
RestoreDirectoryOnly(n) ==
    /\ todo' = Tail(todo)
    /\ made' = made \cup ({n} \ {Root})
    /\ yields' = FALSE
    /\ UNCHANGED <<entries, result, done, restored, history>>

RestoreDirectory(n) ==
    /\ todo' = Children(n) \o Tail(todo)
    /\ made' = made \cup ({n} \ {Root})
    /\ yields' = FALSE
    /\ UNCHANGED <<entries, result, done, restored, history>>

RestoreFile(n) ==
    /\ todo' = Tail(todo)
    /\ restored' = restored \cup {n}
    /\ done' = done + 1
    /\ yields' = TRUE
    /\ UNCHANGED <<entries, result, made, history>>

\* a node whose version was found; the root is there already
RestoreVersion(n) ==
    IF n # Root /\ n \in restored \cup made
    THEN GiveUp({"object already exists"}) /\ UNCHANGED history
    ELSE IF n \in Gone[date] THEN Pass
    ELSE \/ IF n \in Dirs THEN RestoreDirectory(n) ELSE RestoreFile(n)
         \/ Failure
         \/ Throw

\* mutant: nobody looks whether a stop was requested
NeverStopping == FALSE

Stopping == stop

\* RestoreFilesRecursive for one node
RestoreNode ==
    /\ pc = "restoring" /\ todo # <<>>
    /\ LET n == Head(todo) IN
          IF Stopping THEN GiveUp({}) /\ UNCHANGED history
          ELSE IF n \in Absent[date] /\ FirstIncludes(spec, n)
          THEN GiveUp({"not found"}) /\ UNCHANGED history
          ELSE IF n \in Absent[date] \/ Excluded(spec, n) THEN Pass
          ELSE RestoreVersion(n)
    /\ UNCHANGED <<user, pc, spec, date, top, flags, counted, seconds>>

\* the end of the loop, and of StartRestore
RestoreEnds ==
    /\ pc = "restoring" /\ todo = <<>> /\ entries = <<>>
    /\ errors' = errors \cup
          IF "exception" \in errors THEN {}
          ELSE IF stop THEN {"Restore interrupted"}
          ELSE IF succeeded THEN {"Restore Finished"} ELSE {"Restore Failed"}
    /\ pc' = "idle" /\ yields' = FALSE
    /\ running' = FALSE /\ stop' = FALSE
    /\ UNCHANGED <<user, walk, counters, disk, succeeded, seconds, history>>

Step ==
    \/ CountEntry \/ CountNode \/ CountingEnds
    \/ RestoreEntry \/ RestoreNode \/ RestoreEnds

Next ==
    \/ \E n \in Stored : Click(n)
    \/ Start \/ Stop \/ SecondRestore
    \/ Step

\* StartRestore goes on until it returns: it is a function that is called
Spec == Init /\ [][Next]_vars /\ WF_vars(Step)

-----------------------------------------------------------------------------
(* Properties.                                                             *)

\* the nodes that some include entry leads to through directories that are
\* there and are not excluded
Reached ==
    {n \in Stored : \E i \in DOMAIN chosen :
        /\ chosen[i].include
        /\ chosen[i].node \in {n} \cup Ancestors[n]
        /\ \A m \in ({n} \cup Ancestors[n]) \ Ancestors[chosen[i].node] :
              m \notin Missing /\ ~ Excluded(chosen, m)}

Wanted == Files \cap Reached

Unambiguous == \A i, j \in DOMAIN chosen : chosen[i].node = chosen[j].node => i = j

\* a second restore may make the program forget that a stop was asked for
StopUndone == history.asked /\ history.second

\* A restore into an empty directory never finds an object that exists already:
\* the entries that are dropped as redundant while counting are all that could
\* restore something twice, if every directory could be listed then and no
\* stop was undone.
NoDoubleRestore ==
    ~ history.unread /\ ~ StopUndone => "object already exists" \notin errors

\* A restore that says it has finished has restored exactly the files that the
\* entries lead to, and no file that the tree does not show as included; with
\* no node both included and excluded, it left out only what is gone.
FinishedIsComplete ==
    [][RestoreEnds /\ "Restore Finished" \in errors' =>
          /\ restored = Wanted
          /\ restored \subseteq Chosen(chosen)
          /\ Unambiguous /\ Missing = {}
                => restored = Files \cap Chosen(chosen)]_vars

\* The gauge is full when a restore finishes: counting and restoring agree on
\* what there is to do, unless a second restore has used the same counters.
CountIsExact ==
    (/\ pc = "idle" /\ "Restore Finished" \in errors
     /\ ~ history.unread /\ ~ history.second) => counted = done

\* Once the user has asked for a stop, no more files are restored, unless a
\* second restore was started within this one.
StopIsHonoured ==
    [][pc = "restoring" /\ history.asked /\ ~ history.second
          => restored' = restored]_vars

\* The comment at the head of RestoreFilesRecursive: "stop if requested".  Once
\* the user has asked for a stop, no more files are restored, whatever else runs.
StopAlwaysHonoured ==
    [][pc = "restoring" /\ history.asked => restored' = restored]_vars

\* A restore that was started ends, whatever fails and whatever is clicked.
RestoreReturns == pc # "idle" ~> pc = "idle"

\* The comment in StartRestore: "Go through the records again, this time
\* syncing them".  Unless something fails or is stopped, no record is left out.
EveryRecordSynced ==
    [][RestoreEnds /\ ~ stop /\ ~ history.failed /\ errors = {}
          => Wanted \subseteq restored]_vars
=============================================================================
