-------------------------- MODULE ProgressRunsProofs --------------------------
(***************************************************************************)
(* What ProgressRuns keeps whatever the files, the store and the settings  *)
(* are, and whatever other programs do.                                    *)
(*                                                                         *)
(* The control of a run: the button is right and the panel stays as long   *)
(* as no second run comes in, and a stop is honoured (IndInv).             *)
(*                                                                         *)
(* The data of a run: every variable has its type and the store stays a    *)
(* tree, which needs what the library has still to do (TypeInv); the gauge *)
(* is set to the files there are, which needs how many of them each call   *)
(* of CountLocalFiles has counted and has still to count (GaugeInv); and a *)
(* run that tells only that it has finished has left the same files on the *)
(* store, which needs what is settled already (SyncOK).                    *)
(*                                                                         *)
(* Nodes is a finite tree below Root: RunsAssumption is all that is        *)
(* assumed.                                                                *)
(***************************************************************************)
EXTENDS ProgressRuns, TreeFacts

\* The type of what a run is controlled by.
ControlOK ==
    /\ pc \in {"idle", "starting", "counting", "working", "ended"}
    /\ kind \in {"backup", "compare"}
    /\ shown \in BOOLEAN /\ running \in BOOLEAN /\ stop \in BOOLEAN
    /\ daemon \in [there : BOOLEAN, exceeded : BOOLEAN]
    /\ history = [asked |-> history.asked, second |-> history.second,
                  crypto |-> history.crypto, opened |-> history.opened,
                  gone |-> history.gone, come |-> history.come]
    /\ history.asked \in BOOLEAN /\ history.second \in BOOLEAN /\ history.crypto \in BOOLEAN

\* A backup that works alone has its daemon: only a second one destroys it.
DaemonStays ==
    ~ history.second /\ kind = "backup" /\ pc \in {"counting", "working"} => daemon.there

\* The request to stop is not forgotten while the run goes on.
StopRemembered ==
    ~ history.second /\ history.asked /\ Alive => stop

\* However a run has ended, a second one or not, the button starts another.
IdleIsIdle == pc = "idle" => ~ running

IndInv == ControlOK /\ DaemonStays /\ StopRemembered /\ IdleIsIdle /\ AloneIsSafe

-----------------------------------------------------------------------------
\* Nothing has been started yet.
LEMMA InitIndInv == Idle => IndInv
<1> SUFFICES ASSUME Idle PROVE IndInv
  OBVIOUS
<1> USE DEF Idle
<1>1. pc = "idle" /\ ~ Alive
  BY DEF Alive
<1>2. history.asked = FALSE /\ history.second = FALSE /\ history.crypto = FALSE
  BY DEF Unwritten
<1>3. ControlOK
  <2>1. history = [asked |-> history.asked, second |-> history.second,
                   crypto |-> history.crypto, opened |-> history.opened,
                   gone |-> history.gone, come |-> history.come]
    BY DEF Unwritten
  <2>2. daemon \in [there : BOOLEAN, exceeded : BOOLEAN]
    BY DEF NoDaemon
  <2> QED
    BY <1>2, <2>1, <2>2 DEF ControlOK
<1> QED
  BY <1>1, <1>2, <1>3 DEF IndInv, DaemonStays, StopRemembered, IdleIsIdle, AloneIsSafe

\* The record of a run keeps its shape when one of its fields changes.
LEMMA HistoryShape ==
  ASSUME ControlOK,
         \/ UNCHANGED history
         \/ \E o : history' = [history EXCEPT !.opened = o]
         \/ \E n : history' = [history EXCEPT !.gone = n]
         \/ \E n : history' = [history EXCEPT !.come = n]
  PROVE  /\ history' = [asked |-> history'.asked, second |-> history'.second,
                        crypto |-> history'.crypto, opened |-> history'.opened,
                        gone |-> history'.gone, come |-> history'.come]
         /\ UNCHANGED <<history.asked, history.second, history.crypto>>
  BY DEF ControlOK

\* However a run ends, its flags are reset with it.
LEMMA OverStep ==
  ASSUME IndInv, Over, UNCHANGED history
  PROVE  IndInv'
<1> USE DEF IndInv, Over
<1>1. pc' = "idle" /\ ~ Alive' /\ running' = FALSE /\ stop' = FALSE
  BY DEF Alive
<1>2. ControlOK'
  BY <1>1 DEF ControlOK, NoDaemon
<1> QED
  BY <1>1, <1>2 DEF DaemonStays, StopRemembered, IdleIsIdle, AloneIsSafe

\* When nothing runs anymore, nothing of the invariant is left to keep.
LEMMA IdleAgain ==
  ASSUME IndInv, pc' = "idle", running' = FALSE, stop' = FALSE, shown' = FALSE,
         daemon' = NoDaemon, history' = Unwritten, UNCHANGED kind
  PROVE  IndInv'
<1>1. ~ Alive' /\ history'.asked = FALSE
  BY DEF Alive, Unwritten
<1>2. ControlOK'
  BY DEF IndInv, ControlOK, NoDaemon, Unwritten
<1> QED
  BY <1>1, <1>2 DEF IndInv, DaemonStays, StopRemembered, IdleIsIdle, AloneIsSafe

\* Nor does it matter to the invariant what else changes.
LEMMA SameControl ==
  ASSUME IndInv, UNCHANGED <<pc, kind, shown, running, stop, daemon>>,
         \/ UNCHANGED history
         \/ \E o : history' = [history EXCEPT !.opened = o]
         \/ \E n : history' = [history EXCEPT !.gone = n]
         \/ \E n : history' = [history EXCEPT !.come = n]
  PROVE  IndInv'
<1>1. /\ history' = [asked |-> history'.asked, second |-> history'.second,
                     crypto |-> history'.crypto, opened |-> history'.opened,
                     gone |-> history'.gone, come |-> history'.come]
      /\ UNCHANGED <<history.asked, history.second, history.crypto>>
  BY HistoryShape DEF IndInv
<1>2. ControlOK'
  BY <1>1 DEF IndInv, ControlOK
<1>3. UNCHANGED Alive
  BY DEF Alive
<1> QED
  BY <1>1, <1>2, <1>3 DEF IndInv, DaemonStays, StopRemembered, IdleIsIdle, AloneIsSafe

\* While a run goes on by itself its kind, its window and its flags stay, and
\* a backup gets a daemon or keeps the one it has.
LEMMA GoOnStep ==
  ASSUME IndInv, Alive, pc' \in {"counting", "working"},
         UNCHANGED <<kind, shown, flags>>,
         daemon' \in [there : BOOLEAN, exceeded : BOOLEAN],
         \/ kind = "backup" => daemon'.there
         \/ pc \in {"counting", "working"} /\ daemon'.there = daemon.there,
         \/ UNCHANGED history
         \/ \E o : history' = [history EXCEPT !.opened = o]
  PROVE  IndInv'
<1> USE DEF IndInv
<1>1. /\ history' = [asked |-> history'.asked, second |-> history'.second,
                     crypto |-> history'.crypto, opened |-> history'.opened,
                     gone |-> history'.gone, come |-> history'.come]
      /\ UNCHANGED <<history.asked, history.second, history.crypto>>
  BY HistoryShape
<1>2. Alive' /\ pc' # "ended" /\ pc # "ended"
  BY DEF Alive
<1>3. ControlOK'
  BY <1>1 DEF ControlOK, flags
<1>4. DaemonStays'
  BY <1>1 DEF DaemonStays
<1>5. StopRemembered'
  BY <1>1, <1>2 DEF StopRemembered, flags
<1>6. AloneIsSafe'
  <2>1. UNCHANGED <<shown, running>>
    BY DEF flags
  <2>2. ~ history.second => (running <=> Alive) /\ (Alive => shown)
    BY <1>2 DEF AloneIsSafe
  <2> QED
    BY <1>1, <1>2, <2>1, <2>2 DEF AloneIsSafe, ControlOK
<1> QED
  BY <1>2, <1>3, <1>4, <1>5, <1>6 DEF IdleIsIdle

\* Connecting, and counting.
LEMMA CountingStep ==
  ASSUME IndInv,
         Connect \/ CountOpen \/ CountStopped \/ CountEntry \/ CountClose \/ CountingEnds
  PROVE  IndInv'
<1>1. CASE Connect
  <2>1. CASE Connected
    <3>1. daemon' = NewDaemon
      BY <1>1, <2>1 DEF Connect
    <3>2. NewDaemon = [there |-> kind = "backup", exceeded |-> FALSE]
      BY DEF NewDaemon, NoDaemon
    <3>3. daemon' \in [there : BOOLEAN, exceeded : BOOLEAN] /\ (kind = "backup" => daemon'.there)
      BY <3>1, <3>2
    <3> QED
      BY <1>1, <2>1, <3>3, GoOnStep DEF Connect, Alive, panel
  <2>2. CASE ~ Connected
    BY <1>1, <2>2, OverStep DEF Connect, Fail
  <2> QED
    BY <2>1, <2>2
<1>2. CASE CountStopped
  BY <1>2, OverStep DEF CountStopped, Fail
<1>3. CASE CountOpen \/ CountEntry \/ CountClose \/ CountingEnds
  <2>1. daemon' \in [there : BOOLEAN, exceeded : BOOLEAN] /\ daemon'.there = daemon.there
    BY <1>3 DEF CountOpen, CountEntry, CountClose, CountingEnds, IndInv, ControlOK
  <2>2. Alive /\ pc \in {"counting", "working"} /\ pc' \in {"counting", "working"}
    BY <1>3 DEF CountOpen, CountEntry, CountClose, CountingEnds, Alive
  <2>3. UNCHANGED <<kind, shown, flags>>
    BY <1>3 DEF CountOpen, CountEntry, CountClose, CountingEnds, panel
  <2>4. UNCHANGED history \/ \E o : history' = [history EXCEPT !.opened = o]
    BY <1>3 DEF CountOpen, CountEntry, CountClose, CountingEnds
  <2> QED
    BY <2>1, <2>2, <2>3, <2>4, GoOnStep
<1> QED
  BY <1>1, <1>2, <1>3

\* The work of the library.
LEMMA WorkStep ==
  ASSUME IndInv,
         SyncGone \/ SyncStopped \/ SyncDirectory \/ SyncFile \/ CompareNode \/ Finish
  PROVE  IndInv'
<1>1. CASE SyncStopped \/ Finish
  BY <1>1, OverStep DEF SyncStopped, Finish, Fail
<1>2. CASE SyncGone \/ SyncDirectory \/ SyncFile \/ CompareNode
  <2>1. daemon' \in [there : BOOLEAN, exceeded : BOOLEAN] /\ daemon'.there = daemon.there
    <3>1. daemon \in [there : BOOLEAN, exceeded : BOOLEAN]
      BY DEF IndInv, ControlOK
    <3>2. UNCHANGED daemon \/ \E b : daemon' = [daemon EXCEPT !.exceeded = @ \/ b]
      BY <1>2 DEF SyncGone, SyncDirectory, SyncFile, SyncFileFails, SyncFileSucceeds, CompareNode
    <3> QED
      BY <3>1, <3>2
  <2>2. Alive /\ pc \in {"counting", "working"} /\ pc' \in {"counting", "working"}
    BY <1>2 DEF SyncGone, SyncDirectory, SyncFile, CompareNode, Working, Alive
  <2>3. UNCHANGED <<kind, shown, flags>>
    BY <1>2 DEF SyncGone, SyncDirectory, SyncFile, CompareNode
  <2>4. UNCHANGED history \/ \E o : history' = [history EXCEPT !.opened = o]
    BY <1>2 DEF SyncGone, SyncDirectory, SyncFile, CompareNode
  <2> QED
    BY <2>1, <2>2, <2>3, <2>4, GoOnStep
<1> QED
  BY <1>1, <1>2

\* What comes from outside of a run.
LEMMA FaultStep == ASSUME IndInv, Fault PROVE IndInv'
<1>1. CASE InitCryptoThrows
  <2>1. history' = [history EXCEPT !.crypto = TRUE]
    BY <1>1 DEF InitCryptoThrows
  <2>2. pc' = "ended" /\ UNCHANGED <<kind, shown, running, stop, daemon>>
    BY <1>1 DEF InitCryptoThrows, Ends, panel, flags
  <2>3. ControlOK' /\ history'.crypto
    BY <2>1, <2>2 DEF IndInv, ControlOK
  <2> QED
    BY <2>2, <2>3 DEF IndInv, DaemonStays, StopRemembered, IdleIsIdle, AloneIsSafe, Alive
<1>2. CASE DaemonMissed
  <2>1. pc' = "ended" /\ UNCHANGED <<kind, shown, running, stop, daemon, history>>
    BY <1>2 DEF DaemonMissed, Ends, panel, flags
  <2>2. history.second
    BY <1>2 DEF DaemonMissed, IndInv, DaemonStays, ControlOK
  <2>3. ControlOK'
    BY <2>1 DEF IndInv, ControlOK
  <2> QED
    BY <2>1, <2>2, <2>3 DEF IndInv, DaemonStays, StopRemembered, IdleIsIdle, AloneIsSafe, Alive
<1>3. CASE Broken
  BY <1>3, OverStep DEF Broken, Fail
<1>4. CASE Restart
  <2>1. /\ pc' = "idle" /\ running' = FALSE /\ stop' = FALSE /\ shown' = FALSE
        /\ daemon' = NoDaemon /\ history' = Unwritten /\ UNCHANGED kind
    BY <1>4 DEF Restart
  <2> QED
    BY <2>1, IdleAgain
<1> QED
  BY <1>1, <1>2, <1>3, <1>4 DEF Fault

\* What the user does.
LEMMA UserStep == ASSUME IndInv, User PROVE IndInv'
<1>1. ASSUME NEW k \in {"backup", "compare"}, Start(k) PROVE IndInv'
  <2>1. /\ pc' = "starting" /\ kind' = k /\ shown' = TRUE /\ running' = TRUE /\ stop' = FALSE
        /\ UNCHANGED daemon /\ history' = Unwritten
    BY <1>1 DEF Start
  <2>2. ControlOK' /\ history'.asked = FALSE
    BY <2>1 DEF IndInv, ControlOK, Unwritten
  <2> QED
    BY <2>1, <2>2 DEF IndInv, DaemonStays, StopRemembered, IdleIsIdle, AloneIsSafe, Alive
<1>2. CASE StartRefused
  <2>1. /\ pc = "idle" /\ pc' = pc /\ kind' = "backup" /\ shown' = TRUE
        /\ UNCHANGED <<running, stop, daemon>> /\ history' = Unwritten
    BY <1>2 DEF StartRefused, flags
  <2>2. ControlOK' /\ history'.asked = FALSE
    BY <2>1 DEF IndInv, ControlOK, Unwritten
  <2>3. ~ running
    BY <2>1 DEF IndInv, IdleIsIdle
  <2> QED
    BY <2>1, <2>2, <2>3 DEF IndInv, DaemonStays, StopRemembered, IdleIsIdle, AloneIsSafe, Alive
<1>3. CASE StopOrClose
  <2>1. UNCHANGED <<pc, kind, running, daemon>>
    BY <1>3 DEF StopOrClose
  <2>2. CASE running
    <3>1. stop' = TRUE /\ UNCHANGED shown /\ history' = [history EXCEPT !.asked = TRUE]
      BY <1>3, <2>2 DEF StopOrClose
    <3>2. ControlOK' /\ UNCHANGED <<history.second, history.crypto>>
      BY <2>1, <3>1 DEF IndInv, ControlOK
    <3> QED
      BY <2>1, <3>1, <3>2 DEF IndInv, DaemonStays, StopRemembered, IdleIsIdle, AloneIsSafe, Alive
  <2>3. CASE ~ running
    <3>1. shown' = FALSE /\ UNCHANGED <<stop, history>>
      BY <1>3, <2>3 DEF StopOrClose
    <3>2. ControlOK'
      BY <2>1, <3>1 DEF IndInv, ControlOK
    <3> QED
      BY <2>1, <2>3, <3>1, <3>2 DEF IndInv, DaemonStays, StopRemembered, IdleIsIdle, AloneIsSafe, Alive
  <2> QED
    BY <2>2, <2>3
<1>4. CASE SecondRun
  <2>1. /\ shown' = TRUE /\ running' = FALSE /\ stop' = FALSE /\ daemon' = NoDaemon
        /\ UNCHANGED <<pc, kind>> /\ history' = [history EXCEPT !.second = TRUE]
    BY <1>4 DEF SecondRun
  <2>2. ControlOK' /\ history'.second
    BY <2>1 DEF IndInv, ControlOK, NoDaemon
  <2> QED
    BY <2>1, <2>2 DEF IndInv, DaemonStays, StopRemembered, IdleIsIdle, AloneIsSafe
<1>5. (Start("backup") => IndInv') /\ (Start("compare") => IndInv')
  BY <1>1, Zenon
<1> QED
  BY <1>2, <1>3, <1>4, <1>5, Zenon DEF User

\* A change of the files changes nothing of what controls a run.
LEMMA OthersStep == ASSUME IndInv, Others PROVE IndInv'
<1>1. /\ UNCHANGED <<pc, kind, shown, running, stop, daemon>>
      /\ \/ \E n : history' = [history EXCEPT !.gone = n]
         \/ \E n : history' = [history EXCEPT !.come = n]
  BY DEF Others, Vanish, Write, Change, panel, flags
<1> QED
  BY <1>1, SameControl DEF IndInv

\* Every step keeps the invariant.
LEMMA NextIndInv == IndInv /\ [Next]_vars => IndInv'
<1> SUFFICES ASSUME IndInv, [Next]_vars PROVE IndInv'
  OBVIOUS
<1>1. CASE Step
  BY <1>1, CountingStep, WorkStep DEF Step
<1>2. CASE UNCHANGED vars
  <2>1. UNCHANGED <<pc, kind, shown, running, stop, daemon, history>>
    BY <1>2 DEF vars, panel, flags
  <2> QED
    BY <2>1, SameControl
<1> QED
  BY <1>1, <1>2, FaultStep, UserStep, OthersStep DEF Next

\* So the invariant holds in every state.
LEMMA SpecIndInv == Spec => []IndInv
<1> QED
  BY InitIndInv, NextIndInv, PTL DEF Spec

-----------------------------------------------------------------------------
\* AloneIsSafe: without a second run the button is right, the panel stays and
\* the program ends only when InitCrypto throws, whatever the files are.
THEOREM AloneSafe == Spec => []AloneIsSafe
<1>1. IndInv => AloneIsSafe
  BY DEF IndInv
<1> QED
  BY <1>1, SpecIndInv, PTL

\* A step that opens a directory is one of a run that was not asked to stop.
LEMMA OpensUnasked ==
  ASSUME IndInv, [Next]_vars, history.asked, ~ history.second,
         ~ (kind = "compare" /\ pc = "working")
  PROVE  history'.opened \subseteq history.opened
<1>1. CASE Step
  <2>1. Alive => stop
    BY DEF IndInv, StopRemembered
  <2>2. ~ CountOpen /\ ~ SyncDirectory
    BY <2>1 DEF CountOpen, SyncDirectory, Working, IsStopRequested, Alive
  <2>3. UNCHANGED history
    BY <1>1, <2>2 DEF Step, Connect, CountStopped, CountEntry, CountClose, CountingEnds,
          SyncGone, SyncStopped, SyncFile, CompareNode, Finish
  <2> QED
    BY <2>3
<1>2. CASE Fault
  <2>1. \/ UNCHANGED history \/ history' = Unwritten
        \/ history' = [history EXCEPT !.crypto = TRUE]
    BY <1>2 DEF Fault, InitCryptoThrows, DaemonMissed, Broken, Restart
  <2> QED
    BY <2>1 DEF Unwritten, IndInv, ControlOK
<1>3. CASE User
  <2>1. \/ UNCHANGED history \/ history' = Unwritten
        \/ history' = [history EXCEPT !.asked = TRUE]
        \/ history' = [history EXCEPT !.second = TRUE]
    BY <1>3 DEF User, Start, StartRefused, StopOrClose, SecondRun
  <2> QED
    BY <2>1 DEF Unwritten, IndInv, ControlOK
<1>4. CASE Others
  <2>1. \/ \E n : history' = [history EXCEPT !.gone = n]
        \/ \E n : history' = [history EXCEPT !.come = n]
    BY <1>4 DEF Others, Vanish, Write
  <2> QED
    BY <2>1 DEF IndInv, ControlOK
<1>5. CASE UNCHANGED vars
  BY <1>5 DEF vars
<1> QED
  BY <1>1, <1>2, <1>3, <1>4, <1>5 DEF Next

\* StopIsHonoured: after the user has asked for a stop no directory is listed.
THEOREM StopHonoured == Spec => StopIsHonoured
<1>1. IndInv /\ [Next]_vars =>
        [history.asked /\ ~ history.second /\ ~ (kind = "compare" /\ pc = "working")
           => history'.opened \subseteq history.opened]_vars
  BY OpensUnasked
<1> QED
  BY <1>1, SpecIndInv, PTL DEF Spec, StopIsHonoured

-----------------------------------------------------------------------------
(* The tree of nodes.                                                      *)

\* The nodes are a tree below the root, with the nodes above each of them.
LEMMA FileTree ==
  /\ IsFiniteSet(Nodes) /\ Root \in Nodes /\ Parent \in [Nodes -> Nodes]
  /\ IsTree(Nodes, Root, Parent)
  /\ Ancestors \in [Nodes -> SUBSET Nodes]
  /\ Ancestors[Root] = {}
  /\ \A n \in Nodes \ {Root} : Ancestors[n] = {Parent[n]} \cup Ancestors[Parent[n]]
  /\ \A n \in Nodes : n \notin Ancestors[n]
  /\ \A n \in Nodes \ {Root} : Root \in Ancestors[n]
  /\ \A n \in Nodes : \A a \in Ancestors[n] : Ancestors[a] \subseteq Ancestors[n]
  /\ \A m, n \in Nodes \ {Root} : Parent[m] = Parent[n] => m \notin Ancestors[n]
<1>1. /\ IsFiniteSet(Nodes) /\ Root \in Nodes /\ Parent \in [Nodes -> Nodes]
      /\ Nodes = DownTo[Cardinality(Nodes)]
  BY RunsAssumption
<1> DEFINE D == DownTo
           up == Ancestors
<1>2. D = CHOOSE g : g = [k \in Nat |->
                IF k = 0 THEN {Root}
                ELSE LET above == g[k - 1] IN {n \in Nodes : n = Root \/ Parent[n] \in above}]
  BY DEF DownTo
<1>3. up = CHOOSE g : g = [n \in Nodes |->
                IF n = Root THEN {} ELSE {Parent[n]} \cup g[Parent[n]]]
  BY DEF Ancestors
<1>4. Nodes = D[Cardinality(Nodes)]
  BY <1>1
<1> HIDE DEF D, up
<1>5. IsTree(Nodes, Root, Parent)
  BY <1>1, <1>2, <1>4, DepthsMakeTree
<1>6. GoesUp(up, Nodes, Root, Parent)
  BY <1>3, <1>5, DefinitionGoesUp
<1>7. /\ \A n \in Nodes : \A m \in up[n] : up[m] \subseteq up[n]
      /\ \A n \in Nodes : n \notin up[n]
      /\ \A n \in Nodes : n # Root => Root \in up[n]
      /\ \A a, b \in Nodes \ {Root} : Parent[a] = Parent[b] => a \notin up[b]
  BY <1>5, <1>6, TreeOrder
<1>8. /\ up \in [Nodes -> SUBSET Nodes]
      /\ \A n \in Nodes : up[n] = IF n = Root THEN {} ELSE {Parent[n]} \cup up[Parent[n]]
  BY <1>6 DEF GoesUp
<1>9. up[Root] = {} /\ \A n \in Nodes \ {Root} : up[n] = {Parent[n]} \cup up[Parent[n]]
  BY <1>1, <1>8
<1> QED
  BY <1>1, <1>5, <1>7, <1>8, <1>9 DEF up

\* What is below a node is what the node is above of.
LEMMA BelowIsAbove ==
  \A n \in Nodes : Below[n] = {m \in Nodes : n \in Ancestors[m]}
  BY DEF Below

\* The way down from a node to one below it begins with a child.
LEMMA OnTheWay ==
  ASSUME NEW n \in Nodes, NEW a \in Ancestors[n]
  PROVE  \E c \in Nodes \ {Root} : Parent[c] = a /\ (c = n \/ c \in Ancestors[n])
<1> DEFINE T == {m \in Nodes : \A b \in Ancestors[m] :
                    \E c \in Nodes \ {Root} : Parent[c] = b /\ (c = m \/ c \in Ancestors[m])}
<1>1. Root \in T
  BY FileTree
<1>2. ASSUME NEW m \in Nodes \ {Root}, Parent[m] \in T PROVE m \in T
  <2>1. Ancestors[m] = {Parent[m]} \cup Ancestors[Parent[m]] /\ Parent[m] \in Nodes
    BY FileTree
  <2>2. ASSUME NEW b \in Ancestors[m]
        PROVE  \E c \in Nodes \ {Root} : Parent[c] = b /\ (c = m \/ c \in Ancestors[m])
    <3>1. CASE b = Parent[m]
      BY <3>1
    <3>2. CASE b \in Ancestors[Parent[m]]
      BY <1>2, <2>1, <3>2
    <3> QED
      BY <2>1, <3>1, <3>2
  <2> QED
    BY <2>2
<1>3. Nodes \subseteq T
  <2> HIDE DEF T
  <2> QED
    BY <1>1, <1>2, FileTree, TreeInduction
<1> QED
  BY <1>3

\* What is there is in directories that are there, all the way up.
LEMMA PathIsThere ==
  ASSUME NEW tree, IsFileTree(tree), NEW n \in DOMAIN tree
  PROVE  n \in Nodes /\ \A a \in Ancestors[n] : a \in DOMAIN tree /\ tree[a].kind = "dir"
<1> DEFINE T == {m \in Nodes : m \in DOMAIN tree =>
                    \A a \in Ancestors[m] : a \in DOMAIN tree /\ tree[a].kind = "dir"}
<1>1. Root \in T
  BY FileTree
<1>2. ASSUME NEW m \in Nodes \ {Root}, Parent[m] \in T PROVE m \in T
  <2>1. Ancestors[m] = {Parent[m]} \cup Ancestors[Parent[m]]
    BY FileTree
  <2>2. m \in DOMAIN tree => Parent[m] \in DOMAIN tree /\ tree[Parent[m]].kind = "dir"
    BY DEF IsFileTree
  <2> QED
    BY <1>2, <2>1, <2>2
<1>3. Nodes \subseteq T
  <2> HIDE DEF T
  <2> QED
    BY <1>1, <1>2, FileTree, TreeInduction
<1> QED
  BY <1>3 DEF IsFileTree

-----------------------------------------------------------------------------
(* Lists.                                                                  *)

\* Nothing is twice in a sequence.
Distinct(seq) == \A i, j \in 1 .. Len(seq) : i # j => seq[i] # seq[j]

\* A sequence has the elements of a set, each of them once.
Lists(seq, S) ==
    /\ IsFiniteSet(S)
    /\ seq \in Seq(S) /\ Len(seq) = Cardinality(S)
    /\ \A x : Contains(seq, x) <=> x \in S
    /\ Distinct(seq)

\* The empty sequence lists nothing.
LEMMA NothingListed == Lists(<<>>, {})
  BY FS_EmptySet DEF Lists, Distinct, Contains

\* One more element, at the end.
LEMMA OneMoreListed ==
  ASSUME NEW S, NEW seq, Lists(seq, S), NEW x, x \notin S
  PROVE  Lists(Append(seq, x), S \cup {x})
<1> DEFINE T == S \cup {x}
           new == Append(seq, x)
<1>1. IsFiniteSet(T) /\ Cardinality(T) = Cardinality(S) + 1
  BY FS_AddElement DEF Lists
<1>2. seq \in Seq(T) /\ x \in T
  BY DEF Lists
<1> HIDE DEF T
<1>3. /\ new \in Seq(T) /\ Len(new) = Len(seq) + 1 /\ Len(seq) \in Nat
      /\ \A i \in 1 .. Len(seq) : new[i] = seq[i]
      /\ new[Len(seq) + 1] = x
  BY <1>2
<1> HIDE DEF new
<1>4. \A y : Contains(new, y) <=> Contains(seq, y) \/ y = x
  BY <1>3 DEF Contains
<1>5. \A i \in 1 .. Len(seq) : seq[i] \in S
  BY DEF Lists
<1>6. ASSUME NEW i \in 1 .. Len(new), NEW j \in 1 .. Len(new), i # j PROVE new[i] # new[j]
  BY <1>3, <1>5, <1>6 DEF Lists, Distinct
<1> QED
  BY <1>1, <1>3, <1>4, <1>6 DEF Lists, Distinct, T, new

\* The sets that are left when an element after the other is taken away are a tree.
LEMMA TakenAway ==
  ASSUME NEW S, IsFiniteSet(S)
  PROVE  LET up == [q \in SUBSET S |-> q \ {CHOOSE x \in q : TRUE}]
         IN  IsTree(SUBSET S, {}, up)
<1> DEFINE N == SUBSET S
           pick(q) == CHOOSE x \in q : TRUE
           up == [q \in N |-> q \ {pick(q)}]
           rank == [q \in N |-> Cardinality(q)]
           z == {}
<1>1. \A q \in N : IsFiniteSet(q) /\ Cardinality(q) \in Nat
  BY FS_Subset, FS_CardinalityType
<1>2. rank \in [N -> Nat]
  BY <1>1
<1>3. up \in [N -> N] /\ z \in N
  OBVIOUS
<1>4. ASSUME NEW q \in N \ {z} PROVE rank[up[q]] < rank[q]
  <2>1. pick(q) \in q
    OBVIOUS
  <2>2. Cardinality(q \ {pick(q)}) = Cardinality(q) - 1
    BY <1>1, <2>1, FS_RemoveElement
  <2>3. q \ {pick(q)} \in N
    OBVIOUS
  <2> HIDE DEF pick
  <2>4. rank[up[q]] = Cardinality(q) - 1 /\ rank[q] = Cardinality(q) /\ Cardinality(q) \in Nat
    BY <1>1, <2>2, <2>3
  <2> QED
    BY <2>4
<1> HIDE DEF N, up, rank, z
<1>5. IsTree(N, z, up)
  BY <1>2, <1>3, <1>4, RankedTree
<1> QED
  BY <1>5 DEF N, up, z

\* Listed lists a finite set.
LEMMA ListedIs ==
  ASSUME NEW S, IsFiniteSet(S)
  PROVE  Lists(Listed(S), S)
<1> DEFINE N == SUBSET S
           V == Seq(S)
           z == {}
           pick(q) == CHOOSE x \in q : TRUE
           up == [q \in N |-> q \ {pick(q)}]
           put(q, v) == IF q = z THEN <<>> ELSE Append(v, pick(q))
           step == [q \in N |-> [v \in V |-> put(q, v)]]
           Is(f) == f = [q \in SUBSET S |->
                           IF q = {} THEN <<>> ELSE Append(f[q \ {pick(q)}], pick(q))]
           fold == CHOOSE f : Is(f)
<1>1. Listed(S) = fold[S]
  BY DEF Listed, FoldSet, MapThenFoldSet
<1>2. IsTree(N, z, up)
  BY TakenAway
<1>3. \A q \in N : q # {} => pick(q) \in q
  OBVIOUS
<1>4. \A q \in N : up[q] = q \ {pick(q)} /\ up[q] \in N
  OBVIOUS
<1> HIDE DEF up, pick
<1>5. step \in [N -> [V -> V]]
  <2>1. ASSUME NEW q \in N, NEW v \in V PROVE put(q, v) \in V
    BY <1>3
  <2> HIDE DEF N, V, put
  <2> QED
    BY <2>1
<1>6. \E f : Is(f)
  <2> DEFINE v0 == <<>>
  <2>1. StepsDown(N, z, up, V, v0, step)
    BY <1>2, <1>5 DEF StepsDown
  <2>2. PICK f \in [N -> V] : \A q \in N : f[q] = step[q][IF q = z THEN v0 ELSE f[up[q]]]
    <3> HIDE DEF N, V, step, z, v0
    <3> QED
      BY <2>1, DefinedDown
  <2>3. ASSUME NEW q \in N
        PROVE  f[q] = IF q = {} THEN <<>> ELSE Append(f[q \ {pick(q)}], pick(q))
    <3> DEFINE w == IF q = z THEN v0 ELSE f[up[q]]
    <3>1. w \in V
      <4> HIDE DEF N
      <4> QED
        BY <1>4
    <3>2. f[q] = step[q][w]
      <4> HIDE DEF step
      <4> QED
        BY <2>2
    <3>3. step[q][w] = put(q, w)
      <4> HIDE DEF w, put, V, N
      <4> QED
        BY <3>1
    <3> QED
      BY <1>4, <3>2, <3>3
  <2>4. f = [q \in N |-> f[q]]
    <3> HIDE DEF N, V
    <3> QED
      OBVIOUS
  <2>5. Is(f)
    BY <2>3, <2>4
  <2> QED
    BY <2>5
<1>7. Is(fold)
  <2> HIDE DEF Is
  <2> QED
    BY <1>6
<1> HIDE DEF fold
<1>8. \A q \in N : fold[q] = IF q = {} THEN <<>> ELSE Append(fold[q \ {pick(q)}], pick(q))
  BY <1>7
<1> HIDE DEF Is
<1> DEFINE T == {q \in N : Lists(fold[q], q)}
<1>9. z \in T
  <2>1. fold[{}] = <<>>
    BY <1>8
  <2> QED
    BY <2>1, NothingListed
<1>10. ASSUME NEW q \in N \ {z}, up[q] \in T PROVE q \in T
  <2> DEFINE less == q \ {pick(q)}
  <2>1. Lists(fold[less], less) /\ less \in N
    BY <1>4, <1>10
  <2>2. pick(q) \in q /\ pick(q) \notin less /\ q = less \cup {pick(q)}
    BY <1>3
  <2>3. fold[q] = Append(fold[less], pick(q))
    BY <1>8
  <2> HIDE DEF less
  <2>4. Lists(Append(fold[less], pick(q)), less \cup {pick(q)})
    BY <2>1, <2>2, OneMoreListed
  <2> QED
    BY <2>2, <2>3, <2>4
<1>11. N \subseteq T
  <2> HIDE DEF N, T, z
  <2> QED
    BY <1>2, <1>9, <1>10, TreeInduction
<1>12. S \in N
  OBVIOUS
<1> QED
  BY <1>1, <1>11, <1>12

\* Two sequences with nothing in common, one after the other.
LEMMA DistinctJoin ==
  ASSUME NEW S, NEW s \in Seq(S), NEW t \in Seq(S), Distinct(s), Distinct(t),
         \A x : ~ (Contains(s, x) /\ Contains(t, x))
  PROVE  Distinct(s \o t)
<1> DEFINE u == s \o t
<1>1. /\ Len(u) = Len(s) + Len(t) /\ Len(s) \in Nat /\ Len(t) \in Nat
      /\ \A i \in 1 .. Len(u) : u[i] = IF i <= Len(s) THEN s[i] ELSE t[i - Len(s)]
  OBVIOUS
<1> HIDE DEF u
<1>2. ASSUME NEW i \in 1 .. Len(u), NEW j \in 1 .. Len(u), i < j PROVE u[i] # u[j]
  <2>1. CASE i <= Len(s) /\ j <= Len(s)
    BY <1>1, <1>2, <2>1 DEF Distinct
  <2>2. CASE i <= Len(s) /\ j > Len(s)
    <3>1. u[i] = s[i] /\ u[j] = t[j - Len(s)] /\ i \in 1 .. Len(s) /\ j - Len(s) \in 1 .. Len(t)
      BY <1>1, <2>2
    <3>2. Contains(s, u[i]) /\ Contains(t, u[j])
      BY <3>1 DEF Contains
    <3> QED
      BY <3>2
  <2>3. CASE i > Len(s)
    <3>1. /\ u[i] = t[i - Len(s)] /\ i - Len(s) \in 1 .. Len(t)
          /\ u[j] = t[j - Len(s)] /\ j - Len(s) \in 1 .. Len(t) /\ i - Len(s) # j - Len(s)
      BY <1>1, <1>2, <2>3
    <3> QED
      BY <3>1 DEF Distinct
  <2> QED
    BY <1>1, <1>2, <2>1, <2>2, <2>3
<1>3. \A i, j \in 1 .. Len(u) : i # j => u[i] # u[j]
  <2> TAKE i, j \in 1 .. Len(u)
  <2>1. i < j \/ j < i \/ i = j
    BY <1>1
  <2> QED
    BY <1>2, <2>1
<1> QED
  BY <1>3 DEF Distinct, u

\* Two lists of different elements, one after the other.
LEMMA ListsJoin ==
  ASSUME NEW S, NEW T, S \cap T = {}, NEW s, Lists(s, S), NEW t, Lists(t, T)
  PROVE  Lists(s \o t, S \cup T)
<1> DEFINE U == S \cup T
           u == s \o t
<1>1. IsFiniteSet(U) /\ Cardinality(U) = Cardinality(S) + Cardinality(T)
  <2>1. IsFiniteSet(S) /\ IsFiniteSet(T)
    BY DEF Lists
  <2>2. Cardinality(S) \in Nat /\ Cardinality(T) \in Nat /\ Cardinality(S \cap T) = 0
    BY <2>1, FS_EmptySet, FS_CardinalityType
  <2>3. IsFiniteSet(U) /\ Cardinality(U) = Cardinality(S) + Cardinality(T) - Cardinality(S \cap T)
    BY <2>1, FS_Union
  <2> QED
    BY <2>2, <2>3
<1>2. s \in Seq(U) /\ t \in Seq(U)
  BY DEF Lists
<1> HIDE DEF U
<1>3. u \in Seq(U) /\ \A x : Contains(u, x) <=> Contains(s, x) \/ Contains(t, x)
  BY <1>2, ConcatContains
<1>4. Len(u) = Len(s) + Len(t)
  BY <1>2
<1>5. Distinct(u)
  BY <1>2, DistinctJoin DEF Lists
<1> HIDE DEF u
<1>6. Len(u) = Cardinality(U)
  BY <1>1, <1>4 DEF Lists
<1>7. \A x : Contains(u, x) <=> x \in U
  BY <1>3 DEF Lists, U
<1> QED
  BY <1>1, <1>3, <1>5, <1>6, <1>7 DEF Lists, U, u

\* InOrder lists a set of nodes, too.
LEMMA InOrderIs ==
  ASSUME NEW tree, NEW S, IsFiniteSet(S)
  PROVE  Lists(InOrder(tree, S), S)
<1> DEFINE A == {n \in S : IsFile(tree, n)}
           B == {n \in S : ~ IsFile(tree, n)}
<1>1. IsFiniteSet(A) /\ IsFiniteSet(B) /\ A \cap B = {} /\ S = A \cup B
  BY FS_Subset
<1>2. InOrder(tree, S) = Listed(A) \o Listed(B)
  BY DEF InOrder
<1> HIDE DEF A, B
<1>3. Lists(Listed(A), A) /\ Lists(Listed(B), B)
  BY <1>1, ListedIs
<1>4. Lists(Listed(A) \o Listed(B), A \cup B)
  BY <1>1, <1>3, ListsJoin
<1> QED
  BY <1>1, <1>2, <1>4

-----------------------------------------------------------------------------
(* Trees of files.                                                         *)

\* The tree of files, one fact for each part of its definition.
LEMMA FileTreeIs ==
  ASSUME NEW tree, IsFileTree(tree)
  PROVE  /\ DOMAIN tree \subseteq Nodes
         /\ \A n \in DOMAIN tree : tree[n] \in Object
         /\ Root \in DOMAIN tree => tree[Root].kind = "dir"
         /\ \A n \in DOMAIN tree \ {Root} :
               Parent[n] \in DOMAIN tree /\ tree[Parent[n]].kind = "dir"
  BY DEF IsFileTree

\* Deleting nodes with what is in them leaves a tree.
LEMMA WithoutTree ==
  ASSUME NEW tree, IsFileTree(tree), NEW S,
         \A m \in DOMAIN tree \ {Root} : Parent[m] \in S => m \in S
  PROVE  IsFileTree(Without(tree, S))
<1> DEFINE new == Without(tree, S)
<1>1. DOMAIN new = DOMAIN tree \ S /\ \A m \in DOMAIN new : new[m] = tree[m]
  BY DEF Without
<1> HIDE DEF new
<1>2. DOMAIN new \subseteq Nodes /\ \A m \in DOMAIN new : new[m] \in Object
  BY <1>1, FileTreeIs
<1>3. new \in [DOMAIN new -> Object]
  <2>1. Without(tree, S) \in [DOMAIN tree \ S -> Object]
    BY FileTreeIs DEF Without
  <2> QED
    BY <1>1, <2>1 DEF new
<1>4. Root \in DOMAIN new => new[Root].kind = "dir"
  BY <1>1, FileTreeIs
<1>5. \A m \in DOMAIN new \ {Root} : Parent[m] \in DOMAIN new /\ new[Parent[m]].kind = "dir"
  BY <1>1, FileTreeIs
<1> QED
  BY <1>2, <1>3, <1>4, <1>5 DEF IsFileTree, new

\* Something put into a directory that is there leaves a tree, if nothing is in it
\* or it is a directory.
LEMMA PutTree ==
  ASSUME NEW tree, IsFileTree(tree), NEW n \in Nodes, NEW o \in Object,
         IF n = Root THEN o.kind = "dir"
         ELSE Parent[n] \in DOMAIN tree /\ tree[Parent[n]].kind = "dir",
         o.kind = "dir" \/ \A m \in DOMAIN tree \ {Root} : Parent[m] # n
  PROVE  IsFileTree(Put(tree, n, o))
<1> DEFINE new == Put(tree, n, o)
<1>1. /\ DOMAIN new = DOMAIN tree \cup {n} /\ new[n] = o
      /\ \A m \in DOMAIN tree : m # n => new[m] = tree[m]
  BY DEF Put
<1> HIDE DEF new
<1>2. DOMAIN new \subseteq Nodes /\ \A m \in DOMAIN new : new[m] \in Object
  BY <1>1, FileTreeIs
<1>3. new \in [DOMAIN new -> Object]
  <2>1. Put(tree, n, o) \in [DOMAIN tree \cup {n} -> Object]
    BY FileTreeIs DEF Put
  <2> QED
    BY <1>1, <2>1 DEF new
<1>4. Root \in DOMAIN new => new[Root].kind = "dir"
  BY <1>1, FileTreeIs
<1>5. ASSUME NEW m \in DOMAIN new \ {Root}
      PROVE  Parent[m] \in DOMAIN new /\ new[Parent[m]].kind = "dir"
  <2>1. Parent[m] \in DOMAIN tree /\ tree[Parent[m]].kind = "dir"
    BY <1>1, FileTreeIs
  <2>2. CASE Parent[m] = n
    <3>1. CASE m \in DOMAIN tree
      BY <1>1, <2>2, <3>1
    <3>2. CASE m = n
      <4>1. n \in Nodes \ {Root} /\ Parent[n] = n
        BY <2>2, <3>2
      <4>2. n \in Ancestors[n] /\ n \notin Ancestors[n]
        BY <4>1, FileTree
      <4> QED
        BY <4>2
    <3> QED
      BY <1>1, <3>1, <3>2
  <2> QED
    BY <1>1, <2>1, <2>2
<1> QED
  BY <1>2, <1>3, <1>4, <1>5 DEF IsFileTree, new

\* A node goes with what is below it.
LEMMA BelowGoesToo ==
  ASSUME NEW n \in Nodes, NEW m \in Nodes \ {Root}, Parent[m] \in {n} \cup Below[n]
  PROVE  m \in Below[n]
  BY FileTree, BelowIsAbove

\* So does what SyncDirectory deletes on the store.
LEMMA ObsoleteGoesToo ==
  ASSUME NEW n \in Nodes, IsFileTree(store), NEW m \in DOMAIN store \ {Root},
         Parent[m] \in Obsolete(n)
  PROVE  m \in Obsolete(n)
<1>1. m \in Nodes \ {Root}
  BY FileTreeIs
<1>2. PICK c \in Inside(store, n) :
        Parent[m] \in {c} \cup Below[c] /\ (c \notin DOMAIN disk \/ Excluded(c))
  BY DEF Obsolete
<1>3. c \in Nodes /\ Parent[m] \in Below[n]
  BY FileTreeIs DEF Inside, Obsolete
<1>4. m \in Below[c] /\ m \in Below[n]
  BY <1>1, <1>2, <1>3, BelowGoesToo
<1> QED
  BY <1>2, <1>4 DEF Obsolete

\* What is obsolete in a directory is what cannot be reached on the disk through
\* a child of it that is there and that no rule excludes.
LEMMA ObsoleteIs ==
  ASSUME NEW n \in Nodes, IsFileTree(store), NEW m \in DOMAIN store
  PROVE  m \in Obsolete(n) <=>
           \E c \in Nodes \ {Root} : /\ Parent[c] = n /\ (c = m \/ c \in Ancestors[m])
                                     /\ (c \notin DOMAIN disk \/ Excluded(c))
<1>1. m \in Nodes /\ \A a \in Ancestors[m] : a \in DOMAIN store
  BY PathIsThere
<1>2. ASSUME NEW c \in Nodes \ {Root}, Parent[c] = n, c = m \/ c \in Ancestors[m]
      PROVE  c \in Inside(store, n) /\ m \in Below[n] /\ m \in {c} \cup Below[c]
  <2>1. c \in DOMAIN store /\ n \in Ancestors[c]
    BY <1>1, <1>2, FileTree
  <2>2. n \in Ancestors[m]
    BY <1>1, <1>2, <2>1, FileTree
  <2> QED
    BY <1>1, <1>2, <2>1, <2>2, BelowIsAbove DEF Inside
<1>3. ASSUME NEW c \in Inside(store, n), m \in {c} \cup Below[c]
      PROVE  c \in Nodes \ {Root} /\ Parent[c] = n /\ (c = m \/ c \in Ancestors[m])
  <2>1. c \in Nodes \ {Root} /\ Parent[c] = n
    BY FileTreeIs DEF Inside
  <2> QED
    BY <1>3, <2>1, BelowIsAbove
<1> QED
  BY <1>2, <1>3 DEF Obsolete

\* What a backup leaves on the store is a tree.
LEMMA SyncedTree ==
  ASSUME IsFileTree(disk)
  PROVE  /\ IsFileTree(Synced)
         /\ \A m \in DOMAIN Synced : m \in DOMAIN disk /\ Synced[m] = disk[m]
         /\ \A m : m \in DOMAIN Synced <=>
              m \in DOMAIN disk /\ \A a \in {m} \cup Ancestors[m] :
                                      ~ Excluded(a) /\ disk[a].mode # "closed"
<1> DEFINE new == Synced
           Open(a) == ~ Excluded(a) /\ disk[a].mode # "closed"
<1>1. new = [m \in DOMAIN new |-> disk[m]]
  BY DEF Synced
<1>2. \A m : m \in DOMAIN new <=> m \in DOMAIN disk /\ \A a \in {m} \cup Ancestors[m] : Open(a)
  BY DEF Synced
<1> HIDE DEF new, Open
<1>3. DOMAIN new \subseteq DOMAIN disk /\ \A m \in DOMAIN new : new[m] = disk[m]
  BY <1>1, <1>2
<1>4. DOMAIN new \subseteq Nodes /\ new \in [DOMAIN new -> Object]
  BY <1>1, <1>3, FileTreeIs
<1>5. Root \in DOMAIN new => new[Root].kind = "dir"
  BY <1>3, FileTreeIs
<1>6. ASSUME NEW m \in DOMAIN new \ {Root}
      PROVE  Parent[m] \in DOMAIN new /\ new[Parent[m]].kind = "dir"
  <2>1. m \in Nodes \ {Root} /\ m \in DOMAIN disk
    BY <1>3, <1>4
  <2>2. Ancestors[m] = {Parent[m]} \cup Ancestors[Parent[m]]
    BY <2>1, FileTree
  <2>3. Parent[m] \in DOMAIN disk /\ disk[Parent[m]].kind = "dir"
    BY <2>1, FileTreeIs
  <2> QED
    BY <1>2, <1>3, <2>2, <2>3
<1>7. IsFileTree(new)
  BY <1>4, <1>5, <1>6 DEF IsFileTree
<1> QED
  BY <1>2, <1>3, <1>7 DEF new, Open

-----------------------------------------------------------------------------
(* What a sequence of nodes leads to.                                      *)

\* The nodes of a sequence and those below them.
LeftOf(seq) == {n \in Nodes : \E a \in {n} \cup Ancestors[n] : Contains(seq, a)}

\* No node is twice in a sequence, nor is one of the nodes above it.
Apart(seq) ==
    /\ Distinct(seq)
    /\ \A x, y \in Nodes : Contains(seq, x) /\ Contains(seq, y) => x \notin Ancestors[y]

\* Nothing is left of the empty sequence, and everything of the root.
LEMMA LeftOfEnds ==
  /\ LeftOf(<<>>) = {}
  /\ LeftOf(<<Root>>) = Nodes
  /\ Apart(<<Root>>)
<1>1. \A x : ~ Contains(<<>>, x) /\ (Contains(<<Root>>, x) <=> x = Root)
  BY SingletonContains
<1>2. LeftOf(<<>>) = {}
  BY <1>1 DEF LeftOf
<1>3. LeftOf(<<Root>>) = Nodes
  BY <1>1, FileTree DEF LeftOf
<1>4. Distinct(<<Root>>)
  BY DEF Distinct
<1> QED
  BY <1>1, <1>2, <1>3, <1>4, FileTree DEF Apart

\* The first of a sequence that is apart is apart from the others.
LEMMA HeadIsApart ==
  ASSUME NEW old \in Seq(Nodes), old # <<>>, Apart(old)
  PROVE  /\ Head(old) \in Nodes /\ Tail(old) \in Seq(Nodes) /\ Apart(Tail(old))
         /\ \A x : Contains(old, x) <=> x = Head(old) \/ Contains(Tail(old), x)
         /\ \A x \in Nodes : Contains(Tail(old), x) =>
               x # Head(old) /\ x \notin Ancestors[Head(old)] /\ Head(old) \notin Ancestors[x]
<1> DEFINE h == Head(old)
           t == Tail(old)
<1>1. /\ h \in Nodes /\ t \in Seq(Nodes) /\ Len(old) >= 1 /\ Len(t) = Len(old) - 1 /\ h = old[1]
      /\ \A i \in 1 .. Len(old) - 1 : t[i] = old[i + 1]
      /\ \A x : Contains(old, x) <=> x = h \/ Contains(t, x)
  BY TailProperties
<1>2. Len(old) \in Nat
  OBVIOUS
<1> HIDE DEF h, t
<1>3. \A x : Contains(t, x) => x # h
  BY <1>1, <1>2 DEF Apart, Distinct, Contains
<1>4. Distinct(t)
  BY <1>1, <1>2 DEF Apart, Distinct
<1>5. Apart(t)
  BY <1>1, <1>4 DEF Apart
<1> QED
  BY <1>1, <1>3, <1>5 DEF Apart, h, t

\* A node goes and some of its children come in its place.
LEMMA VisitedNode ==
  ASSUME NEW old \in Seq(Nodes), old # <<>>, Apart(old), NEW S, NEW seq, Lists(seq, S),
         \A x \in S : x \in Nodes \ {Root} /\ Parent[x] = Head(old)
  PROVE  LET new == seq \o Tail(old)
         IN  /\ new \in Seq(Nodes) /\ Apart(new)
             /\ \A x : Contains(new, x) <=> x \in S \/ Contains(Tail(old), x)
<1> DEFINE h == Head(old)
           t == Tail(old)
           new == seq \o t
<1>1. /\ h \in Nodes /\ t \in Seq(Nodes) /\ Apart(t)
      /\ \A x \in Nodes : Contains(t, x) =>
            x # h /\ x \notin Ancestors[h] /\ h \notin Ancestors[x]
  BY HeadIsApart
<1>2. \A x \in S : x \in Nodes \ {Root} /\ Parent[x] = h
  OBVIOUS
<1> HIDE DEF h, t
<1>3. S \subseteq Nodes /\ seq \in Seq(S)
  BY <1>2 DEF Lists
<1>4. seq \in Seq(Nodes)
  BY <1>3
<1>5. new \in Seq(Nodes) /\ \A x : Contains(new, x) <=> Contains(seq, x) \/ Contains(t, x)
  BY <1>1, <1>4, ConcatContains
<1>6. \A x : Contains(seq, x) <=> x \in S
  BY DEF Lists
<1>7. \A x \in S : Ancestors[x] = {h} \cup Ancestors[h]
  BY <1>2, FileTree
<1>8. \A x \in S : ~ Contains(t, x)
  BY <1>1, <1>2, <1>7
<1>9. Distinct(new)
  BY <1>1, <1>4, <1>6, <1>8, DistinctJoin DEF Lists, Apart
<1> HIDE DEF new
<1>10. ASSUME NEW x \in Nodes, NEW y \in Nodes, Contains(new, x), Contains(new, y)
       PROVE  x \notin Ancestors[y]
  <2>1. CASE x \in S /\ y \in S
    BY <1>2, <2>1, FileTree
  <2>2. CASE x \in S /\ Contains(t, y)
    <3>1. x \in Ancestors[y] => h \in Ancestors[y]
      BY <1>2, <1>7, <2>2, FileTree
    <3> QED
      BY <1>1, <2>2, <3>1
  <2>3. CASE Contains(t, x) /\ y \in S
    BY <1>1, <1>7, <2>3
  <2>4. CASE Contains(t, x) /\ Contains(t, y)
    BY <1>1, <2>4 DEF Apart
  <2> QED
    BY <1>5, <1>6, <1>10, <2>1, <2>2, <2>3, <2>4
<1> QED
  BY <1>5, <1>6, <1>9, <1>10 DEF Apart, new, t

\* With it goes what is in none of them.
LEMMA VisitedLeaves ==
  ASSUME NEW old \in Seq(Nodes), old # <<>>, Apart(old), NEW S, NEW seq, Lists(seq, S),
         \A x \in S : x \in Nodes \ {Root} /\ Parent[x] = Head(old)
  PROVE  LET new == seq \o Tail(old)
         IN  /\ LeftOf(new) \subseteq LeftOf(old) \ {Head(old)}
             /\ \A n \in LeftOf(old) \ LeftOf(new) :
                   \/ n = Head(old)
                   \/ \E c \in (Nodes \ {Root}) \ S :
                         Parent[c] = Head(old) /\ (c = n \/ c \in Ancestors[n])
<1> DEFINE h == Head(old)
           t == Tail(old)
           new == seq \o t
<1>1. /\ h \in Nodes
      /\ \A x : Contains(old, x) <=> x = h \/ Contains(t, x)
      /\ \A x \in Nodes : Contains(t, x) =>
            x # h /\ x \notin Ancestors[h] /\ h \notin Ancestors[x]
  BY HeadIsApart
<1>2. \A x \in S : x \in Nodes \ {Root} /\ Parent[x] = h
  OBVIOUS
<1>3. \A x : Contains(new, x) <=> x \in S \/ Contains(t, x)
  BY VisitedNode
<1> HIDE DEF h, t, new
<1>4. \A x \in S : Ancestors[x] = {h} \cup Ancestors[h]
  BY <1>2, FileTree
<1>5. h \notin LeftOf(new)
  <2>1. ASSUME NEW a \in {h} \cup Ancestors[h] PROVE ~ Contains(new, a)
    <3>1. a \in Nodes
      BY <1>1, FileTree
    <3>2. a \notin S
      BY <1>1, <1>4, FileTree
    <3> QED
      BY <1>1, <1>3, <3>1, <3>2
  <2> QED
    BY <2>1 DEF LeftOf
<1>6. ASSUME NEW n \in LeftOf(new) PROVE n \in LeftOf(old)
  <2>1. PICK a \in {n} \cup Ancestors[n] : Contains(new, a)
    BY DEF LeftOf
  <2>2. n \in Nodes
    BY DEF LeftOf
  <2>3. CASE a \in S
    <3>1. h \in Ancestors[n]
      BY <1>4, <2>1, <2>2, <2>3, FileTree
    <3> QED
      BY <1>1, <2>2, <3>1 DEF LeftOf
  <2>4. CASE Contains(t, a)
    BY <1>1, <2>1, <2>2, <2>4 DEF LeftOf
  <2> QED
    BY <1>3, <2>1, <2>3, <2>4
<1>7. ASSUME NEW n \in LeftOf(old) \ LeftOf(new), n # h
      PROVE  \E c \in (Nodes \ {Root}) \ S : Parent[c] = h /\ (c = n \/ c \in Ancestors[n])
  <2>1. PICK a \in {n} \cup Ancestors[n] : Contains(old, a)
    BY DEF LeftOf
  <2>2. n \in Nodes /\ \A b \in {n} \cup Ancestors[n] : ~ Contains(new, b)
    BY DEF LeftOf
  <2>3. a = h /\ h \in Ancestors[n]
    BY <1>1, <1>3, <1>7, <2>1, <2>2
  <2>4. PICK c \in Nodes \ {Root} : Parent[c] = h /\ (c = n \/ c \in Ancestors[n])
    BY <2>2, <2>3, OnTheWay
  <2> QED
    BY <1>3, <2>2, <2>4
<1> QED
  BY <1>5, <1>6, <1>7 DEF h, t, new

-----------------------------------------------------------------------------
(* Types.                                                                  *)

\* Nothing keeps the library from reading n, unless it has gone.
Readable(n) == n \in DOMAIN disk => disk[n].mode # "closed"

\* The library works on nodes apart, down directories that can be listed and that
\* no rule excludes.
TodoOK ==
    pc = "working" =>
        /\ Apart(todo)
        /\ \A n \in Nodes : Contains(todo, n) =>
              /\ \A a \in Ancestors[n] : ~ Excluded(a) /\ Readable(a)
              /\ kind = "backup" => ~ Excluded(n)

\* What is to be synchronised has its directory on the store.
StoreOK ==
    pc = "working" /\ kind = "backup" =>
        \A n \in Nodes \ {Root} :
            Contains(todo, n) /\ Parent[n] \in DOMAIN disk /\ disk[Parent[n]].kind = "dir"
            => Parent[n] \in DOMAIN store /\ store[Parent[n]].kind = "dir"

\* The types of the calls of CountLocalFiles and of what is told.
Call == [dir : Nodes, entered : BOOLEAN, left : Seq(Nodes), files : Nat,
         st : {"none", "file", "dir", "other"}]
Message == Seq(Texts \cup Nodes)

\* TypeOK, with names for them.
TypesOK ==
    /\ WorldOK
    /\ pc \in {"idle", "starting", "counting", "working", "ended"} /\ yields \in BOOLEAN
    /\ kind \in {"backup", "compare"} /\ shown \in BOOLEAN
    /\ errors \in Seq(Message)
    /\ running \in BOOLEAN /\ stop \in BOOLEAN
    /\ counted \in Nat /\ done \in Nat /\ range \in Nat
    /\ frames \in Seq(Call) /\ todo \in Seq(Nodes)
    /\ daemon \in [there : BOOLEAN, exceeded : BOOLEAN]
    /\ spent \in [seconds : 0 .. MaxSeconds, changes : 0 .. MaxChanges]
    /\ history \in [asked : BOOLEAN, second : BOOLEAN, crypto : BOOLEAN,
                    opened : SUBSET Nodes, gone : Nat, come : Nat]

\* The types, with what the library has still to do.
TypeInv == TypesOK /\ TodoOK /\ StoreOK

\* They are the same.
LEMMA TypesAre == TypeOK <=> TypesOK
  BY DEF TypeOK, TypesOK, Message, Call

\* The files, the store and the settings stay as they are.
LEMMA WorldStays ==
  ASSUME WorldOK, UNCHANGED <<disk, store, env>>, lastSync' \in Nat
  PROVE  WorldOK'
  BY DEF WorldOK

\* Outside of the work there is nothing to do.
LEMMA NotWorking == pc' # "working" => TodoOK' /\ StoreOK'
  BY DEF TodoOK, StoreOK

\* What is to do stays, and so does the world.
LEMMA WorkStays ==
  ASSUME TodoOK, StoreOK, UNCHANGED <<disk, store, env, pc, kind, todo>>
  PROVE  TodoOK' /\ StoreOK'
  BY DEF TodoOK, StoreOK, Readable, Excluded

\* Short sequences.
LEMMA ShortSequences ==
  ASSUME NEW U
  PROVE  /\ \A x \in U : <<x>> \in Seq(U)
         /\ \A x, y \in U : <<x, y>> \in Seq(U)
         /\ \A s \in Seq(U), x \in U : Append(s, x) \in Seq(U)
         /\ <<>> \in Seq(U)
<1>1. ASSUME NEW x \in U PROVE <<x>> \in Seq(U)
  OBVIOUS
<1>2. ASSUME NEW x \in U, NEW y \in U PROVE <<x, y>> \in Seq(U)
  OBVIOUS
<1>3. ASSUME NEW s \in Seq(U), NEW x \in U PROVE Append(s, x) \in Seq(U)
  OBVIOUS
<1> QED
  BY <1>1, <1>2, <1>3

\* One more message.
LEMMA MessageAppended ==
  /\ \A why \in Texts : <<why>> \in Message
  /\ \A why \in Texts, n \in Nodes : <<why, n>> \in Message
  /\ \A e \in Seq(Message), m \in Message : Append(e, m) \in Seq(Message)
  /\ <<>> \in Seq(Message)
<1> DEFINE U == Texts \cup Nodes
<1>1. Texts \subseteq U /\ Nodes \subseteq U /\ Message = Seq(U)
  BY DEF Message
<1> HIDE DEF U
<1>2. (\A x \in U : <<x>> \in Message) /\ (\A x, y \in U : <<x, y>> \in Message)
  BY <1>1, ShortSequences
<1>3. /\ \A e \in Seq(Message), m \in Message : Append(e, m) \in Seq(Message)
      /\ <<>> \in Seq(Message)
  BY ShortSequences
<1>4. /\ \A why \in Texts : <<why>> \in Message
      /\ \A why \in Texts, n \in Nodes : <<why, n>> \in Message
  BY <1>1, <1>2
<1> QED
  BY <1>3, <1>4

\* However a run ends, the types are kept.
LEMMA OverTypes ==
  ASSUME TypesOK, Over, errors' \in Seq(Message), UNCHANGED history, lastSync' \in Nat
  PROVE  TypeInv'
<1>1. WorldOK'
  BY WorldStays DEF TypesOK, Over
<1>2. /\ pc' = "idle" /\ yields' = FALSE /\ frames' = <<>> /\ todo' = <<>>
      /\ daemon' = NoDaemon /\ running' = FALSE /\ stop' = FALSE
      /\ UNCHANGED <<kind, shown, counted, done, range, spent>>
  BY DEF Over, gauge
<1>3. daemon' \in [there : BOOLEAN, exceeded : BOOLEAN]
  BY <1>2 DEF NoDaemon
<1>4. frames' \in Seq(Call) /\ todo' \in Seq(Nodes)
  BY <1>2
<1>5. TypesOK'
  BY <1>1, <1>2, <1>3, <1>4 DEF TypesOK
<1> QED
  BY <1>2, <1>5, NotWorking DEF TypeInv

\* An exception is told.
LEMMA FailTypes ==
  ASSUME TypesOK, NEW why \in Texts, Fail(why), UNCHANGED history, lastSync' \in Nat
  PROVE  TypeInv'
<1>1. errors' \in Seq(Message)
  BY MessageAppended DEF Fail, TypesOK
<1> QED
  BY <1>1, OverTypes DEF Fail

\* The nodes in a directory can be listed.
LEMMA InsideIs ==
  ASSUME NEW tree, IsFileTree(tree), NEW n \in Nodes, NEW S \in SUBSET Inside(tree, n)
  PROVE  /\ IsFiniteSet(S) /\ S \in SUBSET Nodes
         /\ \A x \in S : x \in Nodes \ {Root} /\ Parent[x] = n /\ x \in DOMAIN tree
<1>1. \A x \in S : x \in Nodes \ {Root} /\ Parent[x] = n /\ x \in DOMAIN tree
  BY FileTreeIs DEF Inside
<1> QED
  BY <1>1, FileTree, FS_Subset

\* A list of nodes is a sequence of nodes.
LEMMA ListedNodes ==
  ASSUME NEW S \in SUBSET Nodes
  PROVE  Lists(Listed(S), S) /\ Listed(S) \in Seq(Nodes)
<1>1. Lists(Listed(S), S)
  BY FileTree, FS_Subset, ListedIs
<1> DEFINE s == Listed(S)
<1>2. s \in Seq(S)
  BY <1>1 DEF Lists
<1> HIDE DEF s
<1>3. s \in Seq(Nodes)
  BY <1>2
<1> QED
  BY <1>1, <1>3 DEF s

\* Calls of CountLocalFiles.
LEMMA CallIs ==
  /\ \A n \in Nodes : Frame(n) \in Call
  /\ \A f \in Call, l \in Seq(Nodes) :
        [f EXCEPT !.entered = TRUE, !.left = l] \in Call
  /\ \A f \in Call, l \in Seq(Nodes), t \in {"file", "dir", "other"}, k \in Nat :
        [f EXCEPT !.left = l, !.st = t, !.files = k] \in Call
<1>1. \A n \in Nodes : Frame(n) \in Call
  BY DEF Frame, Call
<1> DEFINE S == Seq(Nodes)
<1>2. Call = [dir : Nodes, entered : BOOLEAN, left : S, files : Nat,
              st : {"none", "file", "dir", "other"}]
  BY DEF Call
<1> HIDE DEF S
<1>3. \A f \in Call, l \in S : [f EXCEPT !.entered = TRUE, !.left = l] \in Call
  BY <1>2
<1>4. \A f \in Call, l \in S, t \in {"file", "dir", "other"}, k \in Nat :
        [f EXCEPT !.left = l, !.st = t, !.files = k] \in Call
  BY <1>2
<1> QED
  BY <1>1, <1>3, <1>4 DEF S

\* The innermost call and the others.
LEMMA FramesSplit ==
  ASSUME NEW fs \in Seq(Call), fs # <<>>
  PROVE  /\ Head(fs) \in Call /\ Tail(fs) \in Seq(Call)
         /\ Head(fs).dir \in Nodes /\ Head(fs).left \in Seq(Nodes) /\ Head(fs).files \in Nat
         /\ Head(fs).entered \in BOOLEAN
         /\ Head(fs).st \in {"none", "file", "dir", "other"}
<1>1. Head(fs) \in Call /\ Tail(fs) \in Seq(Call)
  OBVIOUS
<1> QED
  BY <1>1 DEF Call

\* A call inside of others.
LEMMA Pushed ==
  ASSUME NEW fs \in Seq(Call), NEW f \in Call
  PROVE  /\ <<f>> \o fs \in Seq(Call)
         /\ Len(<<f>> \o fs) = Len(fs) + 1
         /\ (<<f>> \o fs)[1] = f
         /\ \A i \in 1 .. Len(fs) : (<<f>> \o fs)[i + 1] = fs[i]
  OBVIOUS

\* Types while the files are counted.
LEMMA CountingTypes ==
  ASSUME TypesOK,
         Connect \/ CountOpen \/ CountStopped \/ CountEntry \/ CountClose \/ CountingEnds
  PROVE  TypesOK' /\ (pc' # "working" \/ CountingEnds)
<1>1. CASE Connect
  <2>1. lastSync' \in Nat
    BY <1>1 DEF Connect, TypesOK, WorldOK
  <2>2. CASE Connected
    <3>1. /\ pc' = "counting" /\ yields' = TRUE /\ frames' = <<Frame(Root)>>
          /\ daemon' = NewDaemon
          /\ UNCHANGED <<disk, store, env, kind, shown, errors, running, stop,
                         counted, done, range, todo, spent, history>>
      BY <1>1, <2>2 DEF Connect, panel, flags, gauge
    <3>2. WorldOK'
      BY <2>1, <3>1, WorldStays DEF TypesOK
    <3>3. NewDaemon \in [there : BOOLEAN, exceeded : BOOLEAN]
      BY DEF NewDaemon, NoDaemon
    <3>4. <<Frame(Root)>> \in Seq(Call)
      BY FileTree, CallIs, ShortSequences
    <3> QED
      BY <3>1, <3>2, <3>3, <3>4 DEF TypesOK
  <2>3. CASE ~ Connected
    <3>1. Fail("connection") /\ UNCHANGED history
      BY <1>1, <2>3 DEF Connect
    <3>2. TypesOK'
      BY <2>1, <3>1, FailTypes DEF TypeInv, Texts
    <3> QED
      BY <3>1, <3>2 DEF Fail, Over
  <2> QED
    BY <2>2, <2>3
<1>2. CASE CountStopped
  <2>1. Interrupted \in Texts
    BY DEF Interrupted, Texts
  <2>2. Fail(Interrupted) /\ UNCHANGED <<lastSync, history>>
    BY <1>2 DEF CountStopped
  <2>3. lastSync' \in Nat
    BY <2>2 DEF TypesOK, WorldOK
  <2>4. TypesOK'
    BY <2>1, <2>2, <2>3, FailTypes DEF TypeInv
  <2> QED
    BY <2>2, <2>4 DEF Fail, Over
<1>3. CASE CountOpen
  <2>1. /\ pc = "counting" /\ frames # <<>> /\ yields' = FALSE
        /\ history' = [history EXCEPT !.opened = @ \cup {Top.dir}]
        /\ UNCHANGED <<disk, store, lastSync, env, pc, kind, shown, errors, running, stop,
                       counted, done, range, todo, daemon, spent>>
    BY <1>3 DEF CountOpen, world, panel, flags, gauge
  <2>2. WorldOK'
    BY <2>1, WorldStays DEF TypesOK, WorldOK
  <2>3. Top \in Call /\ Tail(frames) \in Seq(Call) /\ Top.dir \in Nodes
    BY <2>1, FramesSplit DEF TypesOK, Top
  <2>4. Listed(Inside(disk, Top.dir)) \in Seq(Nodes)
    <3>1. Inside(disk, Top.dir) \in SUBSET Nodes
      BY <2>3, FileTreeIs DEF TypesOK, WorldOK, Inside
    <3> QED
      BY <3>1, ListedNodes
  <2>5. [Top EXCEPT !.entered = TRUE, !.left = Listed(Inside(disk, Top.dir))] \in Call
    BY <2>3, <2>4, CallIs
  <2>6. frames' \in Seq(Call)
    BY <1>3, <2>3, <2>5, Pushed DEF CountOpen, WithTop
  <2>7. history' \in [asked : BOOLEAN, second : BOOLEAN, crypto : BOOLEAN,
                      opened : SUBSET Nodes, gone : Nat, come : Nat]
    BY <2>1, <2>3 DEF TypesOK
  <2> QED
    BY <2>1, <2>2, <2>6, <2>7 DEF TypesOK
<1>4. CASE CountEntry
  <2>1. /\ pc = "counting" /\ frames # <<>> /\ Top.left # <<>>
        /\ UNCHANGED <<disk, store, lastSync, env, pc, kind, shown, running, stop,
                       counted, done, range, todo, daemon, spent, history>>
    BY <1>4 DEF CountEntry, world, flags, gauge
  <2>2. WorldOK'
    BY <2>1, WorldStays DEF TypesOK, WorldOK
  <2>3. Top \in Call /\ Tail(frames) \in Seq(Call) /\ Top.left \in Seq(Nodes) /\ Top.files \in Nat
        /\ Top.st \in {"none", "file", "dir", "other"}
    BY <2>1, FramesSplit DEF TypesOK, Top
  <2> DEFINE n == Head(Top.left)
  <2>4. n \in Nodes /\ Tail(Top.left) \in Seq(Nodes)
    BY <2>1, <2>3, TailProperties
  <2>5. PICK st \in Types(n) :
          /\ errors' = IF n \notin DOMAIN disk THEN Append(errors, <<"counting", n>>) ELSE errors
          /\ frames' = (IF st = "dir" /\ ~ Excluded(n) THEN <<Frame(n)>> ELSE <<>>)
                       \o WithTop([Top EXCEPT !.left = Tail(@), !.st = st,
                                     !.files = IF st = "file" THEN FilesAfter(n) ELSE @])
          /\ yields' = (st = "dir" /\ ~ Excluded(n))
    BY <1>4 DEF CountEntry
  <2> HIDE DEF n
  <2>6. st \in {"file", "dir", "other"}
    <3>1. n \in DOMAIN disk => disk[n].kind \in {"file", "dir"}
      BY FileTreeIs DEF TypesOK, WorldOK, Object
    <3> QED
      BY <2>3, <2>5, <3>1 DEF Types
  <2> DEFINE k == IF st = "file" THEN FilesAfter(n) ELSE Top.files
             next == [Top EXCEPT !.left = Tail(@), !.st = st,
                        !.files = IF st = "file" THEN FilesAfter(n) ELSE @]
  <2>7. k \in Nat
    BY <2>3 DEF FilesAfter
  <2>8. next = [Top EXCEPT !.left = Tail(Top.left), !.st = st, !.files = k]
    BY <2>3 DEF Call
  <2> HIDE DEF k, next
  <2>9. next \in Call
    BY <2>3, <2>4, <2>6, <2>7, <2>8, CallIs
  <2>10. WithTop(next) \in Seq(Call)
    BY <2>3, <2>9, Pushed DEF WithTop
  <2>11. <<Frame(n)>> \o WithTop(next) \in Seq(Call)
    BY <2>4, <2>10, CallIs, Pushed
  <2>12. <<>> \o WithTop(next) \in Seq(Call)
    BY <2>10
  <2>13. frames' \in Seq(Call)
    BY <2>5, <2>11, <2>12 DEF next
  <2>14. errors' \in Seq(Message)
    <3>1. <<"counting", n>> \in Message
      BY <2>4, MessageAppended DEF Texts
    <3> QED
      BY <2>5, <3>1, MessageAppended DEF TypesOK
  <2>15. yields' \in BOOLEAN
    BY <2>5
  <2> QED
    BY <2>1, <2>2, <2>13, <2>14, <2>15 DEF TypesOK
<1>5. CASE CountClose
  <2>1. /\ pc = "counting" /\ frames # <<>> /\ yields' = TRUE
        /\ counted' = counted + Top.files /\ frames' = Tail(frames)
        /\ UNCHANGED <<disk, store, lastSync, env, pc, kind, shown, errors, running, stop,
                       done, range, todo, daemon, spent, history>>
    BY <1>5 DEF CountClose, world, panel, flags
  <2>2. WorldOK'
    BY <2>1, WorldStays DEF TypesOK, WorldOK
  <2>3. Top.files \in Nat /\ Tail(frames) \in Seq(Call)
    BY <2>1, FramesSplit DEF TypesOK, Top
  <2> QED
    BY <2>1, <2>2, <2>3 DEF TypesOK
<1>6. CASE CountingEnds
  <2>1. /\ pc = "counting" /\ pc' = "working" /\ yields' = TRUE
        /\ range' = counted /\ todo' = <<Root>>
        /\ UNCHANGED <<disk, store, lastSync, env, kind, shown, errors, running, stop,
                       counted, done, frames, daemon, spent, history>>
    BY <1>6 DEF CountingEnds, world, panel, flags
  <2>2. WorldOK'
    BY <2>1, WorldStays DEF TypesOK, WorldOK
  <2>3. <<Root>> \in Seq(Nodes)
    BY FileTree
  <2>4. TypesOK'
    BY <2>1, <2>2, <2>3 DEF TypesOK
  <2> QED
    BY <1>6, <2>4
<1> QED
  BY <1>1, <1>2, <1>3, <1>4, <1>5, <1>6

\* The rules do not exclude the directory of the location.
LEMMA RootStays == WorldOK => ~ Excluded(Root)
  BY RunsAssumption DEF WorldOK, Excluded

\* Connecting and counting keep the types and lead to the work.
LEMMA CountingKeepsTypes ==
  ASSUME TypeInv,
         Connect \/ CountOpen \/ CountStopped \/ CountEntry \/ CountClose \/ CountingEnds
  PROVE  TypeInv'
<1>1. TypesOK' /\ (pc' # "working" \/ CountingEnds)
  BY CountingTypes DEF TypeInv
<1>2. CASE pc' # "working"
  BY <1>1, <1>2, NotWorking DEF TypeInv
<1>3. CASE CountingEnds
  <2>1. todo' = <<Root>> /\ UNCHANGED env
    BY <1>3 DEF CountingEnds, world
  <2>2. \A n : Contains(todo', n) <=> n = Root
    BY <2>1, SingletonContains
  <2>3. ~ Excluded(Root)'
    BY <2>1, RootStays DEF TypeInv, TypesOK, Excluded
  <2>4. TodoOK'
    BY <2>1, <2>2, <2>3, LeftOfEnds, FileTree DEF TodoOK
  <2>5. StoreOK'
    BY <2>2 DEF StoreOK
  <2> QED
    BY <1>1, <2>4, <2>5 DEF TypeInv
<1> QED
  BY <1>1, <1>2, <1>3

\* The next node is visited, and some of its children come in its place.
Visits(S, seq) ==
    /\ pc = "working" /\ todo # <<>>
    /\ Lists(seq, S) /\ todo' = seq \o Tail(todo)
    /\ \A x \in S : /\ x \in Nodes \ {Root} /\ Parent[x] = node
                    /\ ~ Excluded(node) /\ Readable(node)
                    /\ kind = "backup" => ~ Excluded(x)
    /\ UNCHANGED <<disk, env, pc, kind>>

\* What is known of a node that is visited.
LEMMA NodeIs ==
  ASSUME TypesOK, TodoOK, pc = "working", todo # <<>>
  PROVE  /\ node \in Nodes /\ Contains(todo, node) /\ Apart(todo) /\ todo \in Seq(Nodes)
         /\ \A a \in Ancestors[node] : ~ Excluded(a) /\ Readable(a)
         /\ kind = "backup" => ~ Excluded(node)
         /\ node \in DOMAIN disk => \A a \in Ancestors[node] : a \in DOMAIN disk
<1>1. todo \in Seq(Nodes) /\ Apart(todo)
  BY DEF TypesOK, TodoOK
<1>2. node \in Nodes /\ Contains(todo, node)
  BY <1>1, HeadIsApart DEF node
<1>3. node \in DOMAIN disk => \A a \in Ancestors[node] : a \in DOMAIN disk
  BY PathIsThere DEF TypesOK, WorldOK
<1> QED
  BY <1>1, <1>2, <1>3 DEF TodoOK

\* What is to do stays apart.
LEMMA VisitKeepsTodo ==
  ASSUME TypesOK, TodoOK, NEW S, NEW seq, Visits(S, seq)
  PROVE  /\ todo' \in Seq(Nodes) /\ TodoOK'
         /\ \A x : Contains(todo', x) <=> x \in S \/ Contains(Tail(todo), x)
<1>1. /\ pc = "working" /\ todo # <<>> /\ Lists(seq, S) /\ todo' = seq \o Tail(todo)
      /\ \A x \in S : /\ x \in Nodes \ {Root} /\ Parent[x] = node
                      /\ ~ Excluded(node) /\ Readable(node)
                      /\ kind = "backup" => ~ Excluded(x)
      /\ UNCHANGED <<disk, env, pc, kind>>
  BY DEF Visits
<1>2. /\ node \in Nodes /\ todo \in Seq(Nodes) /\ Apart(todo)
      /\ \A a \in Ancestors[node] : ~ Excluded(a) /\ Readable(a)
  BY <1>1, NodeIs
<1>3. /\ todo' \in Seq(Nodes) /\ Apart(todo')
      /\ \A x : Contains(todo', x) <=> x \in S \/ Contains(Tail(todo), x)
  BY <1>1, <1>2, VisitedNode DEF node
<1>4. \A x : Contains(Tail(todo), x) => Contains(todo, x)
  BY <1>1, <1>2, TailProperties
<1>5. ASSUME NEW n \in Nodes, Contains(todo', n)
      PROVE  /\ \A a \in Ancestors[n] : ~ Excluded(a) /\ Readable(a)
             /\ kind = "backup" => ~ Excluded(n)
  <2>1. CASE n \in S
    <3>1. Ancestors[n] = {node} \cup Ancestors[node]
      BY <1>1, <2>1, FileTree
    <3> QED
      BY <1>1, <1>2, <2>1, <3>1
  <2>2. CASE Contains(todo, n)
    BY <1>1, <2>2 DEF TodoOK
  <2> QED
    BY <1>3, <1>4, <1>5, <2>1, <2>2
<1>6. (\A a : Excluded(a)' = Excluded(a)) /\ (\A a : Readable(a)' = Readable(a))
  BY <1>1 DEF Excluded, Readable
<1>7. TodoOK'
  BY <1>1, <1>3, <1>5, <1>6 DEF TodoOK
<1> QED
  BY <1>3, <1>7

\* The directories of what is to do stay on the store, when nothing changes there
\* but at and below the node that is visited.
LEMMA VisitKeepsStore ==
  ASSUME TypeInv, NEW S, NEW seq, Visits(S, seq),
         \A m \in DOMAIN store : m # node /\ m \notin Below[node] =>
            m \in DOMAIN store' /\ store'[m] = store[m],
         S # {} => node \in DOMAIN store' /\ store'[node].kind = "dir"
  PROVE  StoreOK'
<1>1. /\ pc = "working" /\ todo # <<>>
      /\ \A x \in S : Parent[x] = node
      /\ UNCHANGED <<disk, pc, kind>>
  BY DEF Visits
<1>2. \A x : Contains(todo', x) <=> x \in S \/ Contains(Tail(todo), x)
  BY VisitKeepsTodo DEF TypeInv
<1>3. node \in Nodes /\ todo \in Seq(Nodes) /\ Apart(todo)
  BY <1>1, NodeIs DEF TypeInv
<1>4. /\ \A x : Contains(todo, x) <=> x = node \/ Contains(Tail(todo), x)
      /\ \A x \in Nodes : Contains(Tail(todo), x) => node \notin Ancestors[x]
  BY <1>1, <1>3, HeadIsApart DEF node
<1>5. ASSUME NEW n \in Nodes \ {Root}, kind = "backup", Contains(todo', n),
             Parent[n] \in DOMAIN disk, disk[Parent[n]].kind = "dir"
      PROVE  Parent[n] \in DOMAIN store' /\ store'[Parent[n]].kind = "dir"
  <2>1. CASE n \in S
    BY <1>1, <2>1
  <2>2. CASE Contains(Tail(todo), n)
    <3>1. Parent[n] \in DOMAIN store /\ store[Parent[n]].kind = "dir"
      BY <1>1, <1>4, <1>5, <2>2 DEF TypeInv, StoreOK
    <3>2. Parent[n] \in Ancestors[n] /\ Parent[n] \in Nodes
      BY FileTree
    <3>3. Parent[n] # node /\ node \notin Ancestors[Parent[n]]
      BY <1>4, <2>2, <3>2, FileTree
    <3>4. Parent[n] \notin Below[node]
      BY <1>3, <3>2, <3>3, BelowIsAbove
    <3> QED
      BY <3>1, <3>3, <3>4
  <2> QED
    BY <1>2, <1>5, <2>1, <2>2
<1> QED
  BY <1>1, <1>5 DEF StoreOK

\* Nothing comes in the place of a file, or of a node that is not there.
LEMMA NoneVisited ==
  ASSUME TypesOK, pc = "working", todo # <<>>, todo' = Tail(todo), UNCHANGED <<disk, env, pc, kind>>
  PROVE  Visits({}, <<>>)
<1>1. Tail(todo) \in Seq(Nodes)
  BY DEF TypesOK
<1>2. todo' = <<>> \o Tail(todo)
  BY <1>1
<1> QED
  BY <1>2, NothingListed DEF Visits

\* The library lists a directory for a backup: what the step does to what is to do.
LEMMA DirectoryVisits ==
  ASSUME TypesOK, TodoOK, SyncDirectory
  PROVE  LET S == IF disk[node].mode = "closed" \/ (~ (node \in DOMAIN store /\ ~ IsFile(store, node)) /\ env.full)
                  THEN {} ELSE {m \in Inside(disk, node) : ~ Excluded(m)}
         IN  \E seq : Visits(S, seq)
<1> DEFINE there == node \in DOMAIN store /\ ~ IsFile(store, node)
           none == disk[node].mode = "closed" \/ (~ there /\ env.full)
           In == {m \in Inside(disk, node) : ~ Excluded(m)}
           seq == IF none THEN <<>> ELSE InOrder(disk, In)
           S == IF none THEN {} ELSE In
<1>1. /\ pc = "working" /\ todo # <<>> /\ todo' = seq \o Tail(todo)
      /\ kind = "backup" /\ UNCHANGED <<disk, env, pc, kind>>
  BY DEF SyncDirectory, Working
<1>2. node \in Nodes /\ ~ Excluded(node)
  BY <1>1, NodeIs
<1>3. IsFileTree(disk) /\ In \in SUBSET Inside(disk, node)
  BY DEF TypesOK, WorldOK
<1> HIDE DEF In
<1>4. IsFiniteSet(In) /\ \A x \in In : x \in Nodes \ {Root} /\ Parent[x] = node
  BY <1>2, <1>3, InsideIs
<1>5. Lists(seq, S)
  BY <1>4, InOrderIs, NothingListed
<1>6. \A x \in In : ~ Excluded(x)
  BY DEF In
<1>7. ~ none => Readable(node)
  BY DEF Readable
<1> HIDE DEF none, seq
<1>8. Visits(S, seq)
  BY <1>1, <1>2, <1>4, <1>5, <1>6, <1>7 DEF Visits
<1> QED
  BY <1>8 DEF none, In

\* The step that visits a directory keeps the types, and the store a tree.
LEMMA DirectoryTypes ==
  ASSUME TypeInv, SyncDirectory
  PROVE  TypeInv'
<1> DEFINE full == ~ (node \in DOMAIN store /\ ~ IsFile(store, node)) /\ env.full
           closed == disk[node].mode = "closed"
           X == IF closed THEN {} ELSE Obsolete(node)
           left == Without(store, X)
           S == IF closed \/ full THEN {} ELSE {m \in Inside(disk, node) : ~ Excluded(m)}
<1>1. /\ pc = "working" /\ kind = "backup" /\ todo # <<>>
      /\ node \in DOMAIN disk /\ ~ IsFile(disk, node)
      /\ store' = IF full THEN store ELSE Put(left, node, disk[node])
      /\ daemon' = [daemon EXCEPT !.exceeded = @ \/ full]
      /\ errors' = IF closed THEN Append(errors, <<"list failed", node>>) ELSE errors
      /\ yields' = TRUE /\ history' = [history EXCEPT !.opened = @ \cup {node}]
      /\ UNCHANGED <<disk, lastSync, env, pc, kind, shown, running, stop, counted, done, range,
                     frames, spent>>
  BY DEF SyncDirectory, Working, flags, gauge
<1>2. node \in Nodes /\ node \notin Ancestors[node] /\ Contains(todo, node)
  BY <1>1, NodeIs, FileTree DEF TypeInv
<1>3. IsFileTree(disk) /\ IsFileTree(store)
  BY DEF TypeInv, TypesOK, WorldOK
<1>4. PICK seq : Visits(S, seq)
  BY DirectoryVisits DEF TypeInv
<1>5. todo' \in Seq(Nodes) /\ TodoOK'
  BY <1>4, VisitKeepsTodo DEF TypeInv
<1>6. X \subseteq Below[node]
  BY DEF Obsolete
<1>7. IsFileTree(left)
  <2>1. \A m \in DOMAIN store \ {Root} : Parent[m] \in X => m \in X
    BY <1>2, <1>3, ObsoleteGoesToo
  <2> HIDE DEF X
  <2> QED
    BY <1>3, <2>1, WithoutTree
<1>8. disk[node] \in Object /\ disk[node].kind = "dir"
  <2>1. disk[node] \in Object
    BY <1>1, <1>3, FileTreeIs
  <2> QED
    BY <1>1, <2>1 DEF IsFile, Object
<1> HIDE DEF X
<1>9. \A m \in DOMAIN store : m \notin Below[node] => m \in DOMAIN left /\ left[m] = store[m]
  BY <1>6 DEF Without
<1>10. node # Root => Parent[node] \in DOMAIN left /\ left[Parent[node]].kind = "dir"
  <2>1. CASE node # Root
    <3>1. Parent[node] \in DOMAIN disk /\ disk[Parent[node]].kind = "dir"
      BY <1>1, <1>3, <2>1, FileTreeIs
    <3>2. Parent[node] \in DOMAIN store /\ store[Parent[node]].kind = "dir"
      BY <1>1, <1>2, <2>1, <3>1 DEF TypeInv, StoreOK
    <3>3. Parent[node] \in Nodes /\ node \notin Ancestors[Parent[node]]
      BY <1>2, <2>1, FileTree
    <3>4. Parent[node] \notin Below[node]
      BY <1>2, <3>3, BelowIsAbove
    <3> QED
      BY <1>9, <3>2, <3>4
  <2> QED
    BY <2>1
<1> HIDE DEF left, full, closed
<1>11. IsFileTree(Put(left, node, disk[node]))
  BY <1>2, <1>7, <1>8, <1>10, PutTree
<1>12. IsFileTree(store')
  BY <1>1, <1>3, <1>11
<1>13. WorldOK'
  BY <1>1, <1>12 DEF TypeInv, TypesOK, WorldOK
<1>14. \A m \in DOMAIN store : m # node /\ m \notin Below[node] =>
          m \in DOMAIN store' /\ store'[m] = store[m]
  BY <1>1, <1>9 DEF Put
<1>15. S # {} => node \in DOMAIN store' /\ store'[node].kind = "dir"
  BY <1>1, <1>8 DEF Put
<1>16. StoreOK'
  <2> HIDE DEF S
  <2> QED
    BY <1>4, <1>14, <1>15, VisitKeepsStore
<1>17. errors' \in Seq(Message)
  <2>1. <<"list failed", node>> \in Message
    BY <1>2, MessageAppended DEF Texts
  <2> QED
    BY <1>1, <2>1, MessageAppended DEF TypeInv, TypesOK
<1>18. daemon' \in [there : BOOLEAN, exceeded : BOOLEAN]
  <2>1. full \in BOOLEAN
    BY DEF full, TypeInv, TypesOK, WorldOK
  <2> QED
    BY <1>1, <2>1 DEF TypeInv, TypesOK
<1>19. history' \in [asked : BOOLEAN, second : BOOLEAN, crypto : BOOLEAN,
                     opened : SUBSET Nodes, gone : Nat, come : Nat]
  BY <1>1, <1>2 DEF TypeInv, TypesOK
<1>20. TypesOK'
  <2>1. TypesOK
    BY DEF TypeInv
  <2> QED
    BY <1>1, <1>5, <1>13, <1>17, <1>18, <1>19, <2>1 DEF TypesOK
<1> QED
  BY <1>5, <1>16, <1>20 DEF TypeInv

\* So does the step that visits a file.
LEMMA FileTypes ==
  ASSUME TypeInv, SyncFile
  PROVE  TypeInv'
<1> DEFINE left == Without(store, Below[node])
<1>1. /\ pc = "working" /\ kind = "backup" /\ todo # <<>> /\ todo' = Tail(todo)
      /\ node \in DOMAIN disk /\ IsFile(disk, node)
      /\ store' \in {store, Put(left, node, disk[node])}
      /\ \/ UNCHANGED <<done, store>> /\ \E b \in BOOLEAN : daemon' = [daemon EXCEPT !.exceeded = @ \/ b]
         \/ done' = done + 1 /\ UNCHANGED daemon
      /\ \/ UNCHANGED errors
         \/ \E why \in {"access denied", "no space", "future"} : errors' = Append(errors, <<why, node>>)
      /\ yields' = TRUE
      /\ UNCHANGED <<disk, lastSync, env, pc, kind, shown, running, stop, counted, range,
                     frames, spent, history>>
  <2>1. SyncFileFails \/ \E up : SyncFileSucceeds(up)
    BY DEF SyncFile
  <2>2. CASE SyncFileFails
    BY <2>2 DEF SyncFile, SyncFileFails, Working, flags
  <2>3. CASE \E up : SyncFileSucceeds(up)
    BY <2>3 DEF SyncFile, SyncFileSucceeds, Working, flags
  <2> QED
    BY <2>1, <2>2, <2>3
<1>2. node \in Nodes /\ node \notin Ancestors[node] /\ Contains(todo, node)
  BY <1>1, NodeIs, FileTree DEF TypeInv
<1>3. IsFileTree(disk) /\ IsFileTree(store)
  BY DEF TypeInv, TypesOK, WorldOK
<1>4. Visits({}, <<>>)
  BY <1>1, NoneVisited DEF TypeInv
<1>5. todo' \in Seq(Nodes) /\ TodoOK'
  BY <1>4, VisitKeepsTodo DEF TypeInv
<1>6. IsFileTree(left)
  <2>1. \A m \in DOMAIN store \ {Root} : Parent[m] \in Below[node] => m \in Below[node]
    BY <1>2, <1>3, FileTreeIs, BelowGoesToo
  <2> QED
    BY <1>3, <2>1, WithoutTree
<1>7. \A m \in DOMAIN store : m \notin Below[node] => m \in DOMAIN left /\ left[m] = store[m]
  BY DEF Without
<1>8. disk[node] \in Object /\ node # Root
  BY <1>1, <1>3, FileTreeIs DEF IsFile
<1>9. Parent[node] \in DOMAIN left /\ left[Parent[node]].kind = "dir"
  <2>1. Parent[node] \in DOMAIN disk /\ disk[Parent[node]].kind = "dir"
    BY <1>1, <1>3, <1>8, FileTreeIs
  <2>2. Parent[node] \in DOMAIN store /\ store[Parent[node]].kind = "dir"
    BY <1>1, <1>2, <1>8, <2>1 DEF TypeInv, StoreOK
  <2>3. Parent[node] \in Nodes /\ node \notin Ancestors[Parent[node]]
    BY <1>2, <1>8, FileTree
  <2>4. Parent[node] \notin Below[node]
    BY <1>2, <2>3, BelowIsAbove
  <2> QED
    BY <1>7, <2>2, <2>4
<1>10. \A m \in DOMAIN left \ {Root} : Parent[m] # node
  <2>1. \A m \in DOMAIN left : m \in Nodes /\ m \notin Below[node]
    BY <1>3, FileTreeIs DEF Without
  <2> QED
    BY <1>2, <2>1, FileTree, BelowIsAbove
<1> HIDE DEF left
<1>11. IsFileTree(Put(left, node, disk[node]))
  BY <1>2, <1>6, <1>8, <1>9, <1>10, PutTree
<1>12. IsFileTree(store')
  BY <1>1, <1>3, <1>11
<1>13. WorldOK'
  BY <1>1, <1>12 DEF TypeInv, TypesOK, WorldOK
<1>14. \A m \in DOMAIN store : m # node /\ m \notin Below[node] =>
          m \in DOMAIN store' /\ store'[m] = store[m]
  BY <1>1, <1>7 DEF Put
<1>15. StoreOK'
  BY <1>4, <1>14, VisitKeepsStore
<1>16. errors' \in Seq(Message)
  <2>1. \A why \in {"access denied", "no space", "future"} : <<why, node>> \in Message
    BY <1>2, MessageAppended DEF Texts
  <2>2. errors \in Seq(Message)
    BY DEF TypeInv, TypesOK
  <2>3. UNCHANGED errors \/ \E m \in Message : errors' = Append(errors, m)
    BY <1>1, <2>1
  <2> QED
    BY <2>2, <2>3, MessageAppended
<1>17. daemon' \in [there : BOOLEAN, exceeded : BOOLEAN] /\ done' \in Nat
  <2>1. daemon \in [there : BOOLEAN, exceeded : BOOLEAN] /\ done \in Nat
    BY DEF TypeInv, TypesOK
  <2>2. UNCHANGED daemon \/ \E b \in BOOLEAN : daemon' = [daemon EXCEPT !.exceeded = @ \/ b]
    BY <1>1
  <2>3. daemon' \in [there : BOOLEAN, exceeded : BOOLEAN]
    BY <2>1, <2>2
  <2>4. done' = done \/ done' = done + 1
    BY <1>1
  <2> QED
    BY <2>1, <2>3, <2>4
<1>18. TypesOK'
  <2>1. TypesOK
    BY DEF TypeInv
  <2> QED
    BY <1>1, <1>5, <1>13, <1>16, <1>17, <2>1 DEF TypesOK
<1> QED
  BY <1>5, <1>15, <1>18 DEF TypeInv

\* What a comparison tells is some of the texts, each of them once.
LEMMA ToldIs ==
  ASSUME NEW n, NEW hidden
  PROVE  /\ Told(n, hidden) \subseteq Texts
         /\ Lists(Listed(Told(n, hidden)), Told(n, hidden))
<1> DEFINE All == {"remote missing", "local missing", "not deleted", "unchecked", "contents",
                   "attributes", "excluded file", "excluded dir"}
           T == Told(n, hidden)
<1>1. Verdict(n, hidden) \subseteq All
  BY DEF Verdict
<1>2. T \subseteq Texts /\ T \subseteq All
  BY <1>1 DEF Told, Texts
<1>3. IsFiniteSet(T)
  <2>1. \A x : IsFiniteSet({x})
    BY FS_Singleton
  <2>2. \A x, y : IsFiniteSet({x, y})
    <3> TAKE x, y
    <3>1. IsFiniteSet({x} \cup {y}) /\ {x, y} = {x} \cup {y}
      BY <2>1, FS_AddElement
    <3> QED
      BY <3>1
  <2> DEFINE A == {"remote missing", "local missing"}
             B == {"not deleted", "unchecked"}
             C == {"contents", "attributes"}
             D == {"excluded file", "excluded dir"}
  <2>3. IsFiniteSet(A) /\ IsFiniteSet(B) /\ IsFiniteSet(C) /\ IsFiniteSet(D)
    BY <2>2
  <2>4. All = (A \cup B) \cup (C \cup D)
    OBVIOUS
  <2> HIDE DEF A, B, C, D, All
  <2>5. IsFiniteSet(A \cup B) /\ IsFiniteSet(C \cup D)
    BY <2>3, FS_Union
  <2>6. IsFiniteSet(All)
    BY <2>4, <2>5, FS_Union
  <2> QED
    BY <1>2, <2>6, FS_Subset
<1> HIDE DEF T
<1>4. Lists(Listed(T), T)
  BY <1>3, ListedIs
<1> QED
  BY <1>2, <1>4 DEF T

\* What is told of a node follows what was told before.
LEMMA ToldErrors ==
  ASSUME NEW n \in Nodes, NEW hidden, errors \in Seq(Message)
  PROVE  LET new == [i \in 1 .. Cardinality(Told(n, hidden)) |->
                        <<Listed(Told(n, hidden))[i], n>>]
         IN  /\ errors \o new \in Seq(Message)
             /\ errors \o new = <<>> => errors = <<>> /\ Told(n, hidden) = {}
<1> DEFINE T == Told(n, hidden)
           s == Listed(T)
           k == Cardinality(T)
           new == [i \in 1 .. k |-> <<s[i], n>>]
<1>1. T \subseteq Texts /\ IsFiniteSet(T) /\ s \in Seq(T) /\ Len(s) = k
  BY ToldIs DEF Lists
<1>2. k \in Nat /\ (k = 0 => T = {})
  BY <1>1, FS_CardinalityType, FS_EmptySet
<1> HIDE DEF T, s, k
<1>3. \A i \in 1 .. k : s[i] \in Texts
  BY <1>1
<1>4. \A i \in 1 .. k : <<s[i], n>> \in Message
  BY <1>3, MessageAppended
<1>5. new \in Seq(Message) /\ Len(new) = k
  BY <1>2, <1>4
<1> HIDE DEF new
<1>6. errors \o new \in Seq(Message)
  BY <1>5, ConcatProperties
<1>7. errors \o new = <<>> => errors = <<>> /\ k = 0
  BY <1>2, <1>5
<1> QED
  BY <1>2, <1>6, <1>7 DEF new, k, s, T

\* The nodes that a comparison goes on to.
Compared == IF Entered(node, Hidden[env.rules]) THEN Inside(disk, node) \cup Inside(store, node)
            ELSE {}

\* The step that compares a node visits it.
LEMMA CompareVisits ==
  ASSUME TypesOK, TodoOK, CompareNode
  PROVE  \E seq : Visits(Compared, seq)
<1> DEFINE In == Inside(disk, node) \cup Inside(store, node)
           E == Entered(node, Hidden[env.rules])
           seq == IF E THEN Listed(In) ELSE <<>>
<1>1. /\ pc = "working" /\ todo # <<>> /\ todo' = seq \o Tail(todo)
      /\ kind = "compare" /\ UNCHANGED <<disk, env, pc, kind>>
  BY DEF CompareNode, Working, world
<1>2. node \in Nodes
  BY <1>1, NodeIs
<1>3. \A x \in In : x \in Nodes \ {Root} /\ Parent[x] = node
  BY FileTreeIs DEF TypesOK, WorldOK, Inside
<1>4. E => ~ Excluded(node) /\ Readable(node)
  BY DEF Entered, Excluded, Readable
<1>5. Lists(Listed(In), In)
  BY <1>3, ListedNodes
<1> HIDE DEF In, E
<1>6. Lists(seq, IF E THEN In ELSE {})
  BY <1>5, NothingListed
<1> HIDE DEF seq
<1>7. Visits(IF E THEN In ELSE {}, seq)
  BY <1>1, <1>3, <1>4, <1>6 DEF Visits
<1> QED
  BY <1>7 DEF Compared, E, In

\* It keeps the types.
LEMMA CompareTypes ==
  ASSUME TypeInv, CompareNode
  PROVE  TypeInv'
<1>1. /\ pc = "working" /\ kind = "compare" /\ todo # <<>> /\ yields' = TRUE
      /\ done' \in {done, done + 1}
      /\ UNCHANGED <<disk, store, lastSync, env, pc, kind, shown, running, stop, counted, range,
                     frames, daemon, spent, history>>
  BY DEF CompareNode, Working, world, flags
<1>2. TypesOK /\ TodoOK
  BY DEF TypeInv
<1>3. node \in Nodes
  BY <1>1, <1>2, NodeIs
<1>4. PICK seq : Visits(Compared, seq)
  BY <1>2, CompareVisits
<1>5. todo' \in Seq(Nodes) /\ TodoOK'
  BY <1>2, <1>4, VisitKeepsTodo
<1>6. StoreOK'
  BY <1>1 DEF StoreOK
<1>7. errors' \in Seq(Message)
  <2>1. errors \in Seq(Message)
    BY <1>2 DEF TypesOK
  <2>2. \/ UNCHANGED errors
        \/ errors' = errors \o [i \in 1 .. Cardinality(Told(node, Hidden[env.rules])) |->
                                   <<Listed(Told(node, Hidden[env.rules]))[i], node>>]
    BY DEF CompareNode
  <2> QED
    BY <1>3, <2>1, <2>2, ToldErrors
<1>8. WorldOK' /\ done' \in Nat
  BY <1>1, <1>2 DEF TypesOK, WorldOK
<1>9. TypesOK'
  BY <1>1, <1>2, <1>5, <1>7, <1>8 DEF TypesOK
<1> QED
  BY <1>5, <1>6, <1>9 DEF TypeInv

\* So does a node that is not there, when it is synchronised.
LEMMA GoneTypes ==
  ASSUME TypeInv, SyncGone
  PROVE  TypeInv'
<1>1. /\ pc = "working" /\ todo # <<>> /\ todo' = Tail(todo) /\ yields' = TRUE
      /\ errors' = Append(errors, <<"read failed", node>>)
      /\ UNCHANGED <<disk, store, lastSync, env, pc, kind, shown, running, stop, counted, done,
                     range, frames, daemon, spent, history>>
  BY DEF SyncGone, Working, world, flags, gauge
<1>2. TypesOK /\ TodoOK
  BY DEF TypeInv
<1>3. node \in Nodes
  BY <1>1, <1>2, NodeIs
<1>4. Visits({}, <<>>)
  BY <1>1, <1>2, NoneVisited
<1>5. todo' \in Seq(Nodes) /\ TodoOK'
  BY <1>2, <1>4, VisitKeepsTodo
<1>6. StoreOK'
  BY <1>1, <1>4, VisitKeepsStore
<1>7. errors' \in Seq(Message)
  <2>1. <<"read failed", node>> \in Message
    BY <1>3, MessageAppended DEF Texts
  <2> QED
    BY <1>1, <1>2, <2>1, MessageAppended DEF TypesOK
<1>8. WorldOK'
  BY <1>1, <1>2 DEF TypesOK, WorldOK
<1>9. TypesOK'
  BY <1>1, <1>2, <1>5, <1>7, <1>8 DEF TypesOK
<1> QED
  BY <1>5, <1>6, <1>9 DEF TypeInv

\* The work keeps the types.
LEMMA WorkKeepsTypes ==
  ASSUME TypeInv,
         SyncGone \/ SyncStopped \/ SyncDirectory \/ SyncFile \/ CompareNode \/ Finish
  PROVE  TypeInv'
<1>1. CASE SyncStopped
  <2>1. Fail(Interrupted) /\ UNCHANGED <<lastSync, history>>
    BY <1>1 DEF SyncStopped
  <2>2. Interrupted \in Texts
    BY DEF Interrupted, Texts
  <2>3. lastSync' \in Nat
    BY <2>1 DEF TypeInv, TypesOK, WorldOK
  <2> QED
    BY <2>1, <2>2, <2>3, FailTypes DEF TypeInv
<1>2. CASE Finish
  <2>1. Over /\ errors' = Append(errors, Outcome) /\ UNCHANGED <<lastSync, history>>
    BY <1>2 DEF Finish
  <2>2. Outcome \in Message
    BY MessageAppended DEF Outcome, Texts
  <2>3. errors' \in Seq(Message) /\ lastSync' \in Nat
    BY <2>1, <2>2, MessageAppended DEF TypeInv, TypesOK, WorldOK
  <2> QED
    BY <2>1, <2>3, OverTypes DEF TypeInv
<1> QED
  BY <1>1, <1>2, GoneTypes, DirectoryTypes, FileTypes, CompareTypes

\* The records of a run.
Records == [asked : BOOLEAN, second : BOOLEAN, crypto : BOOLEAN,
            opened : SUBSET Nodes, gone : Nat, come : Nat]

\* The record of a run that has not been started.
LEMMA RecordTypes == Unwritten \in Records /\ NoDaemon \in [there : BOOLEAN, exceeded : BOOLEAN]
  BY DEF Unwritten, NoDaemon, Records

\* What comes from outside of a run keeps the types.
LEMMA FaultKeepsTypes ==
  ASSUME TypeInv, Fault
  PROVE  TypeInv'
<1>1. TypesOK /\ WorldOK /\ history \in Records
  BY DEF TypeInv, TypesOK, Records
<1>2. ASSUME Ends, history' \in Records PROVE TypeInv'
  <2>1. /\ pc' = "ended" /\ yields' = FALSE
        /\ UNCHANGED <<disk, store, lastSync, env, kind, shown, errors, running, stop,
                       counted, done, range, frames, todo, daemon, spent>>
    BY <1>2 DEF Ends, world, panel, flags, gauge, walk
  <2>2. WorldOK'
    BY <1>1, <2>1 DEF WorldOK
  <2>3. TypesOK'
    BY <1>1, <1>2, <2>1, <2>2 DEF TypesOK, Records
  <2> QED
    BY <2>1, <2>3, NotWorking DEF TypeInv
<1>3. CASE InitCryptoThrows
  <2>1. history' = [history EXCEPT !.crypto = TRUE]
    BY <1>3 DEF InitCryptoThrows
  <2>2. history' \in Records
    BY <1>1, <2>1 DEF Records
  <2> QED
    BY <1>2, <1>3, <2>2 DEF InitCryptoThrows
<1>4. CASE DaemonMissed
  BY <1>1, <1>2, <1>4 DEF DaemonMissed
<1>5. CASE Broken
  <2>1. PICK why \in {"connection", "unknown error"} : Fail(why)
    BY <1>5 DEF Broken
  <2>2. UNCHANGED <<lastSync, history>> /\ why \in Texts
    BY <1>5 DEF Broken, Texts
  <2>3. lastSync' \in Nat
    BY <1>1, <2>2 DEF WorldOK
  <2> QED
    BY <1>1, <2>1, <2>2, <2>3, FailTypes
<1>6. CASE Restart
  <2>1. /\ pc' = "idle" /\ shown' = FALSE /\ errors' = <<>> /\ running' = FALSE /\ stop' = FALSE
        /\ counted' = 0 /\ done' = 0 /\ range' = 0 /\ frames' = <<>> /\ todo' = <<>>
        /\ daemon' = NoDaemon /\ history' = Unwritten
        /\ UNCHANGED <<disk, store, lastSync, env, yields, kind, spent>>
    BY <1>6 DEF Restart, world
  <2>2. WorldOK'
    BY <1>1, <2>1 DEF WorldOK
  <2>3. frames' \in Seq(Call) /\ todo' \in Seq(Nodes) /\ errors' \in Seq(Message)
    BY <2>1
  <2>4. TypesOK'
    BY <1>1, <2>1, <2>2, <2>3, RecordTypes DEF TypesOK, Records
  <2> QED
    BY <2>1, <2>4, NotWorking DEF TypeInv
<1> QED
  BY <1>3, <1>4, <1>5, <1>6 DEF Fault

\* The files that are visible are finitely many.
LEMMA VisibleIs ==
  ASSUME TypesOK
  PROVE  /\ VisibleFiles \subseteq Nodes /\ IsFiniteSet(VisibleFiles)
         /\ Cardinality(VisibleFiles) \in Nat
<1>1. VisibleFiles \subseteq Nodes
  BY FileTreeIs DEF VisibleFiles, TypesOK, WorldOK
<1> QED
  BY <1>1, FileTree, FS_Subset, FS_CardinalityType

\* A second run keeps the types.
LEMMA SecondRunTypes ==
  ASSUME TypeInv, SecondRun
  PROVE  TypeInv'
<1>1. /\ spent.seconds < MaxSeconds /\ spent' = [spent EXCEPT !.seconds = @ + 1]
      /\ running' = FALSE /\ stop' = FALSE /\ shown' = TRUE
      /\ daemon' = NoDaemon /\ history' = [history EXCEPT !.second = TRUE]
      /\ UNCHANGED <<disk, lastSync, env, pc, yields, kind, frames, todo>>
  BY DEF SecondRun, walk
<1>2. TypesOK /\ WorldOK /\ history \in Records /\ IsFileTree(disk) /\ IsFileTree(store)
  BY DEF TypeInv, TypesOK, WorldOK, Records
<1>3. \/ /\ errors' = << <<"Finished">> >>
         /\ counted' = Cardinality(VisibleFiles) /\ done' = counted' /\ range' = counted'
      \/ /\ errors' = << <<"connection">> >>
         /\ counted' = 0 /\ done' = 0 /\ UNCHANGED range
  BY DEF SecondRun
<1>4. store' = store \/ (kind = "backup" /\ store' = Synced)
  BY DEF SecondRun
<1>5. WorldOK'
  <2>1. IsFileTree(store')
    BY <1>2, <1>4, SyncedTree
  <2> QED
    BY <1>1, <1>2, <2>1 DEF WorldOK
<1>6. errors' \in Seq(Message)
  <2>1. <<"Finished">> \in Message /\ <<"connection">> \in Message
    BY MessageAppended DEF Texts
  <2> QED
    BY <1>3, <2>1, ShortSequences
<1>7. counted' \in Nat /\ done' \in Nat /\ range' \in Nat
  BY <1>2, <1>3, VisibleIs DEF TypesOK
<1>8. history' \in Records
  BY <1>1, <1>2 DEF Records
<1>9. spent' \in [seconds : 0 .. MaxSeconds, changes : 0 .. MaxChanges]
  <2>1. spent \in [seconds : 0 .. MaxSeconds, changes : 0 .. MaxChanges] /\ MaxSeconds \in Nat
    BY <1>2, RunsAssumption DEF TypesOK
  <2>2. spent.seconds + 1 \in 0 .. MaxSeconds
    BY <1>1, <2>1
  <2> QED
    BY <1>1, <2>1, <2>2
<1>10. TypesOK'
  BY <1>1, <1>2, <1>5, <1>6, <1>7, <1>8, <1>9, RecordTypes DEF TypesOK, Records
<1>11. TodoOK'
  BY <1>1 DEF TypeInv, TodoOK, Readable, Excluded
<1>12. StoreOK'
  <2>1. ASSUME NEW n \in Nodes \ {Root}, pc = "working", kind = "backup", Contains(todo, n),
               Parent[n] \in DOMAIN disk, disk[Parent[n]].kind = "dir"
        PROVE  Parent[n] \in DOMAIN store' /\ store'[Parent[n]].kind = "dir"
    <3>1. Ancestors[n] = {Parent[n]} \cup Ancestors[Parent[n]]
      BY FileTree
    <3>2. \A a \in Ancestors[n] : ~ Excluded(a) /\ Readable(a)
      BY <2>1 DEF TypeInv, TodoOK
    <3>3. \A a \in Ancestors[n] : a \in DOMAIN disk
      BY <1>2, <2>1, <3>1, PathIsThere
    <3>4. Parent[n] \in DOMAIN Synced /\ Synced[Parent[n]] = disk[Parent[n]]
      BY <1>2, <2>1, <3>1, <3>2, <3>3, SyncedTree DEF Readable
    <3>5. Parent[n] \in DOMAIN store /\ store[Parent[n]].kind = "dir"
      BY <2>1 DEF TypeInv, StoreOK
    <3> QED
      BY <1>4, <2>1, <3>4, <3>5
  <2> QED
    BY <1>1, <2>1 DEF StoreOK
<1> QED
  BY <1>10, <1>11, <1>12 DEF TypeInv

\* What the user does keeps the types.
LEMMA UserKeepsTypes ==
  ASSUME TypeInv, User
  PROVE  TypeInv'
<1>1. TypesOK /\ WorldOK /\ history \in Records
  BY DEF TypeInv, TypesOK, Records
<1>2. ASSUME NEW k \in {"backup", "compare"}, Start(k) PROVE TypeInv'
  <2>1. /\ pc' = "starting" /\ kind' = k /\ shown' = TRUE /\ errors' = <<>>
        /\ counted' = 0 /\ done' = 0 /\ running' = TRUE /\ stop' = FALSE /\ yields' = TRUE
        /\ history' = Unwritten
        /\ UNCHANGED <<disk, store, lastSync, env, range, frames, todo, daemon, spent>>
    BY <1>2 DEF Start, ResetCounters, world, walk
  <2>2. WorldOK'
    BY <1>1, <2>1 DEF WorldOK
  <2>3. TypesOK'
    BY <1>1, <2>1, <2>2, RecordTypes, MessageAppended DEF TypesOK, Records
  <2> QED
    BY <2>1, <2>3, NotWorking DEF TypeInv
<1>3. CASE StartRefused
  <2>1. /\ pc = "idle" /\ kind' = "backup" /\ shown' = TRUE
        /\ errors' = << <<"config error">> >> /\ history' = Unwritten
        /\ UNCHANGED <<disk, store, lastSync, env, pc, yields, running, stop, counted, done, range,
                       frames, todo, daemon, spent>>
    BY <1>3 DEF StartRefused, world, flags, gauge, walk
  <2>2. WorldOK'
    BY <1>1, <2>1 DEF WorldOK
  <2>3. <<"config error">> \in Message
    BY MessageAppended DEF Texts
  <2>4. errors' \in Seq(Message)
    BY <2>1, <2>3, ShortSequences
  <2>5. TypesOK'
    BY <1>1, <2>1, <2>2, <2>4, RecordTypes DEF TypesOK, Records
  <2> QED
    BY <2>1, <2>5, NotWorking DEF TypeInv
<1>4. CASE StopOrClose
  <2>1. /\ UNCHANGED <<disk, store, lastSync, env, pc, yields, kind, errors, running, counted, done,
                       range, frames, todo, daemon, spent>>
        /\ \/ stop' = TRUE /\ history' = [history EXCEPT !.asked = TRUE] /\ UNCHANGED shown
           \/ shown' = FALSE /\ UNCHANGED <<stop, history>>
    BY <1>4 DEF StopOrClose, world, gauge, walk
  <2>2. WorldOK'
    BY <1>1, <2>1 DEF WorldOK
  <2>3. history' \in Records
    BY <1>1, <2>1 DEF Records
  <2>4. stop' \in BOOLEAN /\ shown' \in BOOLEAN
    BY <1>1, <2>1 DEF TypesOK
  <2>5. TypesOK'
    BY <1>1, <2>1, <2>2, <2>3, <2>4 DEF TypesOK, Records
  <2>6. TodoOK' /\ StoreOK'
    BY <2>1, WorkStays DEF TypeInv
  <2> QED
    BY <2>5, <2>6 DEF TypeInv
<1>5. (Start("backup") => TypeInv') /\ (Start("compare") => TypeInv')
  BY <1>2, Zenon
<1> QED
  BY <1>3, <1>4, <1>5, SecondRunTypes, Zenon DEF User

\* What other programs may do to the files: some go, and others become files that
\* can be read.
Changed ==
    \A a \in DOMAIN disk' :
        \/ a \in DOMAIN disk /\ disk'[a] = disk[a]
        \/ disk'[a].kind = "file" /\ disk'[a].mode = "plain"

\* The work is not disturbed by it.
LEMMA ChangeKeepsWork ==
  ASSUME TodoOK, StoreOK, Changed, UNCHANGED <<store, env, pc, kind, todo>>
  PROVE  TodoOK' /\ StoreOK'
<1>1. \A a : Readable(a) => Readable(a)'
  BY DEF Readable, Changed
<1>2. \A a : Excluded(a)' = Excluded(a)
  BY DEF Excluded
<1>3. TodoOK'
  BY <1>1, <1>2 DEF TodoOK
<1>4. \A a \in DOMAIN disk' : disk'[a].kind = "dir" => a \in DOMAIN disk /\ disk[a].kind = "dir"
  BY DEF Changed
<1>5. StoreOK'
  BY <1>4 DEF StoreOK
<1> QED
  BY <1>3, <1>5

\* A change of the files, when they are a tree again.
LEMMA ChangeTypes ==
  ASSUME TypeInv, NEW tree, Change(tree), IsFileTree(tree), Changed,
         \A a \in DOMAIN tree : tree[a].time <= env.now \/ tree[a].time >= Late,
         history' \in Records
  PROVE  TypeInv'
<1>1. /\ spent.changes < MaxChanges /\ spent' = [spent EXCEPT !.changes = @ + 1] /\ disk' = tree
      /\ UNCHANGED <<store, lastSync, env, pc, yields, kind, shown, errors, running, stop,
                     counted, done, range, frames, todo, daemon>>
  BY DEF Change, panel, flags, gauge, walk
<1>2. TypesOK /\ WorldOK
  BY DEF TypeInv, TypesOK
<1>3. WorldOK'
  BY <1>1, <1>2 DEF WorldOK
<1>4. spent' \in [seconds : 0 .. MaxSeconds, changes : 0 .. MaxChanges]
  <2>1. spent \in [seconds : 0 .. MaxSeconds, changes : 0 .. MaxChanges]
    BY <1>2 DEF TypesOK
  <2>2. spent.changes + 1 \in 0 .. MaxChanges
    BY <1>1, <2>1, RunsAssumption
  <2> QED
    BY <1>1, <2>1, <2>2
<1>5. history' \in [asked : BOOLEAN, second : BOOLEAN, crypto : BOOLEAN,
                    opened : SUBSET Nodes, gone : Nat, come : Nat]
  BY DEF Records
<1>6. TypesOK'
  BY <1>1, <1>2, <1>3, <1>4, <1>5 DEF TypesOK
<1>7. TodoOK' /\ StoreOK'
  BY <1>1, ChangeKeepsWork DEF TypeInv
<1> QED
  BY <1>6, <1>7 DEF TypeInv

\* What goes when a node vanishes.
Gone(n) == ({n} \cup Below[n]) \cap DOMAIN disk

\* A node goes with everything in it.
LEMMA VanishIs ==
  ASSUME TypesOK, NEW n \in Nodes, Vanish(n)
  PROVE  /\ n \in DOMAIN disk \ {Root}
         /\ DOMAIN disk' = DOMAIN disk \ Gone(n)
         /\ \A a \in DOMAIN disk' : disk'[a] = disk[a]
         /\ IsFiniteSet(Gone(n)) /\ Cardinality(Gone(n)) \in Nat \ {0}
         /\ history' = [history EXCEPT !.gone = @ + Cardinality(Gone(n))]
         /\ Change(disk') /\ IsFileTree(disk')
         /\ \A m \in DOMAIN disk \ {Root} : Parent[m] \in Gone(n) => m \in Gone(n)
<1>1. /\ n \in DOMAIN disk \ {Root} /\ Change(Without(disk, Gone(n)))
      /\ history' = [history EXCEPT !.gone = @ + Cardinality(Gone(n))]
  BY DEF Vanish, Gone
<1>2. disk' = Without(disk, Gone(n))
  BY <1>1 DEF Change
<1>3. DOMAIN disk' = DOMAIN disk \ Gone(n) /\ \A a \in DOMAIN disk' : disk'[a] = disk[a]
  BY <1>2 DEF Without
<1>4. Gone(n) \subseteq Nodes /\ n \in Gone(n)
  BY <1>1 DEF Gone, Below
<1>5. IsFiniteSet(Gone(n)) /\ Cardinality(Gone(n)) \in Nat \ {0}
  BY <1>4, FileTree, FS_Subset, FS_CardinalityType, FS_EmptySet
<1>6. \A m \in DOMAIN disk \ {Root} : Parent[m] \in Gone(n) => m \in Gone(n)
  BY FileTreeIs, BelowGoesToo DEF Gone, TypesOK, WorldOK
<1>7. IsFileTree(disk')
  BY <1>2, <1>6, WithoutTree DEF TypesOK, WorldOK
<1> QED
  BY <1>1, <1>2, <1>3, <1>5, <1>6, <1>7

\* A file is written into a directory that is there.
LEMMA WriteIs ==
  ASSUME TypesOK, NEW n \in Nodes, NEW data \in Nat, Write(n, data)
  PROVE  /\ n # Root /\ (n \in DOMAIN disk => disk[n].kind = "file")
         /\ DOMAIN disk' = DOMAIN disk \cup {n}
         /\ \A a \in DOMAIN disk : a # n => disk'[a] = disk[a]
         /\ disk'[n] = [kind |-> "file", data |-> data, mode |-> "plain", time |-> env.now]
         /\ history' = [history EXCEPT !.come = @ + 1]
         /\ Change(disk') /\ IsFileTree(disk')
<1> DEFINE o == [kind |-> "file", data |-> data, mode |-> "plain", time |-> env.now]
<1>1. /\ Parent[n] \in DOMAIN disk /\ disk[Parent[n]].kind = "dir"
      /\ n \in DOMAIN disk => disk[n].kind = "file"
      /\ Change(Put(disk, n, o))
      /\ history' = [history EXCEPT !.come = @ + 1]
  BY DEF Write, IsFile
<1>2. disk' = Put(disk, n, o)
  BY <1>1 DEF Change
<1>3. /\ DOMAIN disk' = DOMAIN disk \cup {n} /\ disk'[n] = o
      /\ \A a \in DOMAIN disk : a # n => disk'[a] = disk[a]
  BY <1>2 DEF Put
<1>4. IsFileTree(disk) /\ env.now \in Nat
  BY DEF TypesOK, WorldOK
<1>5. n # Root
  <2>1. Root \in DOMAIN disk
    BY <1>1, <1>4, FileTree, PathIsThere
  <2>2. disk[Root].kind = "dir"
    BY <1>4, <2>1, FileTreeIs
  <2> QED
    BY <1>1, <2>1, <2>2
<1>6. o \in Object
  BY <1>4 DEF Object
<1>7. \A m \in DOMAIN disk \ {Root} : Parent[m] # n
  BY <1>1, <1>4, FileTreeIs
<1> HIDE DEF o
<1>8. IsFileTree(disk')
  BY <1>1, <1>2, <1>4, <1>5, <1>6, <1>7, PutTree
<1> QED
  BY <1>1, <1>2, <1>3, <1>5, <1>8 DEF o

\* Other programs keep the types.
LEMMA OthersKeepTypes ==
  ASSUME TypeInv, Others
  PROVE  TypeInv'
<1>1. TypesOK /\ history \in Records /\ env.now \in Nat
      /\ \A a \in DOMAIN disk : disk[a].time <= env.now \/ disk[a].time >= Late
  BY DEF TypeInv, TypesOK, Records, WorldOK
<1>2. ASSUME NEW n \in Nodes, Vanish(n) PROVE TypeInv'
  <2>1. /\ DOMAIN disk' \subseteq DOMAIN disk /\ \A a \in DOMAIN disk' : disk'[a] = disk[a]
        /\ Cardinality(Gone(n)) \in Nat
        /\ history' = [history EXCEPT !.gone = @ + Cardinality(Gone(n))]
        /\ Change(disk') /\ IsFileTree(disk')
    BY <1>1, <1>2, VanishIs
  <2>2. history' \in Records
    BY <1>1, <2>1 DEF Records
  <2>3. Changed /\ \A a \in DOMAIN disk' : disk'[a].time <= env.now \/ disk'[a].time >= Late
    BY <1>1, <2>1 DEF Changed
  <2> QED
    BY <2>1, <2>2, <2>3, ChangeTypes
<1>3. ASSUME NEW n \in Nodes, NEW data \in Nat, Write(n, data) PROVE TypeInv'
  <2>1. /\ DOMAIN disk' = DOMAIN disk \cup {n}
        /\ \A a \in DOMAIN disk : a # n => disk'[a] = disk[a]
        /\ disk'[n] = [kind |-> "file", data |-> data, mode |-> "plain", time |-> env.now]
        /\ history' = [history EXCEPT !.come = @ + 1]
        /\ Change(disk') /\ IsFileTree(disk')
    BY <1>1, <1>3, WriteIs
  <2>2. history' \in Records
    BY <1>1, <2>1 DEF Records
  <2>3. disk'[n].kind = "file" /\ disk'[n].mode = "plain" /\ disk'[n].time <= env.now
    BY <1>1, <2>1
  <2>4. Changed
    BY <2>1, <2>3 DEF Changed
  <2>5. \A a \in DOMAIN disk' : disk'[a].time <= env.now \/ disk'[a].time >= Late
    BY <1>1, <2>1, <2>3
  <2> QED
    BY <2>1, <2>2, <2>4, <2>5, ChangeTypes
<1> QED
  BY <1>2, <1>3 DEF Others

\* Nothing has been started: the types are right.
LEMMA InitTypes ==
  ASSUME WorldOK, Idle
  PROVE  TypeInv
<1> USE DEF Idle
<1>1. spent \in [seconds : 0 .. MaxSeconds, changes : 0 .. MaxChanges]
  BY RunsAssumption
<1>2. /\ frames \in Seq(Call) /\ todo \in Seq(Nodes) /\ errors \in Seq(Message)
      /\ daemon \in [there : BOOLEAN, exceeded : BOOLEAN]
      /\ history \in [asked : BOOLEAN, second : BOOLEAN, crypto : BOOLEAN,
                      opened : SUBSET Nodes, gone : Nat, come : Nat]
  BY RecordTypes DEF Records
<1>3. TypesOK
  BY <1>1, <1>2 DEF TypesOK
<1>4. TodoOK /\ StoreOK
  BY DEF TodoOK, StoreOK
<1> QED
  BY <1>3, <1>4 DEF TypeInv

\* Every step keeps them.
LEMMA NextKeepsTypes == TypeInv /\ [Next]_vars => TypeInv'
<1> SUFFICES ASSUME TypeInv, [Next]_vars PROVE TypeInv'
  OBVIOUS
<1>1. CASE Step
  BY <1>1, CountingKeepsTypes, WorkKeepsTypes DEF Step
<1>2. CASE UNCHANGED vars
  <2>1. UNCHANGED <<disk, store, lastSync, env, pc, yields, kind, shown, errors, running, stop,
                    counted, done, range, frames, todo, daemon, spent, history>>
    BY <1>2 DEF vars, world, panel, flags, gauge, walk
  <2>2. TypesOK'
    BY <2>1 DEF TypeInv, TypesOK, WorldOK
  <2>3. TodoOK' /\ StoreOK'
    BY <2>1, WorkStays DEF TypeInv
  <2> QED
    BY <2>2, <2>3 DEF TypeInv
<1> QED
  BY <1>1, <1>2, FaultKeepsTypes, UserKeepsTypes, OthersKeepTypes DEF Next

\* So they are always right.
LEMMA SpecTypeInv == Spec => []TypeInv
<1>1. WorldOK /\ Idle => TypeInv
  BY InitTypes
<1> QED
  BY <1>1, NextKeepsTypes, PTL DEF Spec

\* TypeOK: every variable has its type, and the files and the store are trees.
THEOREM TypesCorrect == Spec => []TypeOK
<1>1. TypeInv => TypeOK
  BY TypesAre DEF TypeInv
<1> QED
  BY <1>1, SpecTypeInv, PTL

-----------------------------------------------------------------------------
(* The calls of CountLocalFiles.                                           *)

\* All calls, and those that call number i is inside of.
Calls(fs)    == {fs[i] : i \in 1 .. Len(fs)}
Outer(fs, i) == {fs[k] : k \in i + 1 .. Len(fs)}

\* A call inside of others: it is for a directory in all of theirs, and comes to
\* its entries only once.
Fits(f, outer) ==
    /\ ~ Excluded(f.dir)
    /\ f.entered => Readable(f.dir)
    /\ ~ f.entered => f.left = <<>> /\ f.files = 0
    /\ Distinct(f.left)
    /\ \A x \in Nodes : Contains(f.left, x) => x # Root /\ Parent[x] = f.dir
    /\ Ancestors[f.dir] = {c.dir : c \in outer}
    /\ \A c \in outer : /\ c.entered
                        /\ \A x \in {f.dir} \cup Ancestors[f.dir] : ~ Contains(c.left, x)

\* Every call is inside of the ones after it.
Stack(fs) == \A i \in 1 .. Len(fs) : Fits(fs[i], Outer(fs, i))

FramesOK == pc = "counting" => Stack(frames)

\* The nodes that a call, or all of them, will still come to, and those that have
\* gone before.
PendingIn(f) == LeftOf(f.left) \cup (IF f.entered THEN {} ELSE Below[f.dir])
MissingIn(f) == {n \in Nodes : Contains(f.left, n) /\ n \notin DOMAIN disk /\ ~ Excluded(n)}
Pending(fs)  == UNION {PendingIn(f) : f \in Calls(fs)}
Missing(fs)  == UNION {MissingIn(f) : f \in Calls(fs)}

\* The files of all calls, added to those that were counted before.
Adds(fs, before, after) ==
    \E sum \in [1 .. Len(fs) + 1 -> Nat] :
        /\ sum[1] = before /\ sum[Len(fs) + 1] = after
        /\ \A i \in 1 .. Len(fs) : sum[i + 1] = sum[i] + fs[i].files

\* There is no call.
LEMMA NoCalls ==
  /\ Calls(<<>>) = {} /\ Stack(<<>>) /\ Pending(<<>>) = {} /\ Missing(<<>>) = {}
  BY DEF Calls, Stack, Pending, Missing

\* A call is made inside of the others.
LEMMA CallsAre ==
  ASSUME NEW fs \in Seq(Call), NEW f \in Call
  PROVE  LET new == <<f>> \o fs
         IN  /\ Calls(new) = {f} \cup Calls(fs)
             /\ Outer(new, 1) = Calls(fs)
             /\ \A i \in 1 .. Len(fs) : Outer(new, i + 1) = Outer(fs, i)
<1> DEFINE new == <<f>> \o fs
<1>1. /\ Len(fs) \in Nat /\ Len(new) = Len(fs) + 1 /\ new[1] = f
      /\ \A i \in 1 .. Len(fs) : new[i + 1] = fs[i]
  BY Pushed
<1> HIDE DEF new
<1>2. \A i \in 0 .. Len(fs) : \A x : x \in Outer(new, i + 1) <=> x \in Outer(fs, i)
  <2> TAKE i \in 0 .. Len(fs)
  <2> TAKE x
  <2>1. x \in Outer(new, i + 1) => x \in Outer(fs, i)
    <3> SUFFICES ASSUME x \in Outer(new, i + 1) PROVE x \in Outer(fs, i)
      OBVIOUS
    <3>1. PICK k \in (i + 1) + 1 .. Len(new) : x = new[k]
      BY DEF Outer
    <3>2. k - 1 \in i + 1 .. Len(fs) /\ (k - 1) + 1 = k /\ k - 1 \in 1 .. Len(fs)
      BY <1>1, <3>1
    <3>3. x = fs[k - 1]
      BY <1>1, <3>1, <3>2
    <3> QED
      BY <3>2, <3>3 DEF Outer
  <2>2. x \in Outer(fs, i) => x \in Outer(new, i + 1)
    <3> SUFFICES ASSUME x \in Outer(fs, i) PROVE x \in Outer(new, i + 1)
      OBVIOUS
    <3>1. PICK k \in i + 1 .. Len(fs) : x = fs[k]
      BY DEF Outer
    <3>2. k + 1 \in (i + 1) + 1 .. Len(new) /\ k \in 1 .. Len(fs)
      BY <1>1, <3>1
    <3>3. x = new[k + 1]
      BY <1>1, <3>1, <3>2
    <3> QED
      BY <3>2, <3>3 DEF Outer
  <2> QED
    BY <2>1, <2>2
<1>3. Outer(fs, 0) = Calls(fs)
  <2>1. 0 + 1 = 1
    OBVIOUS
  <2> QED
    BY <2>1 DEF Outer, Calls
<1>4. Outer(new, 1) = Calls(fs)
  <2>1. 0 + 1 = 1 /\ 0 \in 0 .. Len(fs)
    BY <1>1
  <2>2. \A x : x \in Outer(new, 1) <=> x \in Outer(fs, 0)
    BY <1>2, <2>1
  <2> QED
    BY <1>3, <2>2
<1>5. ASSUME NEW i \in 1 .. Len(fs) PROVE Outer(new, i + 1) = Outer(fs, i)
  <2>1. i \in 0 .. Len(fs)
    BY <1>1
  <2>2. \A x : x \in Outer(new, i + 1) <=> x \in Outer(fs, i)
    BY <1>2, <2>1
  <2> QED
    BY <2>2
<1>6. Calls(new) = {f} \cup Outer(new, 1)
  <2>1. \A x \in Calls(new) : x = f \/ x \in Outer(new, 1)
    <3> TAKE x \in Calls(new)
    <3>1. PICK k \in 1 .. Len(new) : x = new[k]
      BY DEF Calls
    <3>2. k = 1 \/ k \in 1 + 1 .. Len(new)
      BY <1>1, <3>1
    <3> QED
      BY <1>1, <3>1, <3>2 DEF Outer
  <2>2. f \in Calls(new)
    <3>1. 1 \in 1 .. Len(new)
      BY <1>1
    <3> QED
      BY <1>1, <3>1 DEF Calls
  <2>3. Outer(new, 1) \subseteq Calls(new)
    BY <1>1 DEF Outer, Calls
  <2> QED
    BY <2>1, <2>2, <2>3
<1> QED
  BY <1>4, <1>5, <1>6 DEF new

\* A stack of calls is a call that fits into a stack.
LEMMA StackIs ==
  ASSUME NEW fs \in Seq(Call), NEW f \in Call
  PROVE  LET new == <<f>> \o fs
         IN  /\ Stack(new) <=> Fits(f, Calls(fs)) /\ Stack(fs)
             /\ Pending(new) = PendingIn(f) \cup Pending(fs)
             /\ Missing(new) = MissingIn(f) \cup Missing(fs)
<1> DEFINE new == <<f>> \o fs
<1>1. /\ Len(fs) \in Nat /\ Len(new) = Len(fs) + 1 /\ new[1] = f
      /\ \A i \in 1 .. Len(fs) : new[i + 1] = fs[i]
  BY Pushed
<1>2. /\ Calls(new) = {f} \cup Calls(fs)
      /\ Outer(new, 1) = Calls(fs)
      /\ \A i \in 1 .. Len(fs) : Outer(new, i + 1) = Outer(fs, i)
  BY CallsAre
<1> HIDE DEF new
<1>3. Stack(new) => Fits(f, Calls(fs)) /\ Stack(fs)
  <2> SUFFICES ASSUME Stack(new) PROVE Fits(f, Calls(fs)) /\ Stack(fs)
    OBVIOUS
  <2>1. Fits(new[1], Outer(new, 1)) /\ \A i \in 1 .. Len(fs) : Fits(new[i + 1], Outer(new, i + 1))
    BY <1>1 DEF Stack
  <2> QED
    BY <1>1, <1>2, <2>1 DEF Stack
<1>4. Fits(f, Calls(fs)) /\ Stack(fs) => Stack(new)
  <2> SUFFICES ASSUME Fits(f, Calls(fs)), Stack(fs), NEW i \in 1 .. Len(new)
               PROVE  Fits(new[i], Outer(new, i))
    BY DEF Stack
  <2>1. CASE i = 1
    BY <1>1, <1>2, <2>1
  <2>2. CASE i # 1
    <3>1. i - 1 \in 1 .. Len(fs) /\ (i - 1) + 1 = i
      BY <1>1, <2>2
    <3>2. Fits(fs[i - 1], Outer(fs, i - 1))
      BY <3>1 DEF Stack
    <3> QED
      BY <1>1, <1>2, <3>1, <3>2
  <2> QED
    BY <2>1, <2>2
<1>5. Pending(new) = PendingIn(f) \cup Pending(fs) /\ Missing(new) = MissingIn(f) \cup Missing(fs)
  BY <1>2 DEF Pending, Missing
<1> QED
  BY <1>3, <1>4, <1>5 DEF new

\* The innermost call is on top.
LEMMA TopIs ==
  ASSUME NEW fs \in Seq(Call), fs # <<>>
  PROVE  fs = <<Head(fs)>> \o Tail(fs)
  OBVIOUS

\* What holds of the directories of all calls.
LEMMA StackDirs ==
  ASSUME NEW fs \in Seq(Call), Stack(fs), NEW c \in Calls(fs)
  PROVE  /\ c \in Call /\ ~ Excluded(c.dir) /\ (c.entered => Readable(c.dir))
         /\ \A x \in Nodes : Contains(c.left, x) => x # Root /\ Parent[x] = c.dir
<1>1. PICK i \in 1 .. Len(fs) : c = fs[i]
  BY DEF Calls
<1>2. Fits(c, Outer(fs, i)) /\ c \in Call
  BY <1>1 DEF Stack
<1> QED
  BY <1>2 DEF Fits

\* Sums.
LEMMA AddsNothing == \A b \in Nat : Adds(<<>>, b, b) /\ \A c : Adds(<<>>, b, c) => c = b
<1> TAKE b \in Nat
<1>1. Len(<<>>) = 0
  OBVIOUS
<1>2. Adds(<<>>, b, b)
  <2> DEFINE sum == [i \in 1 .. 0 + 1 |-> b]
  <2>1. sum \in [1 .. 0 + 1 -> Nat] /\ sum[1] = b /\ sum[0 + 1] = b
    OBVIOUS
  <2> HIDE DEF sum
  <2> DEFINE none == <<>>
  <2>2. Len(none) = 0
    OBVIOUS
  <2> HIDE DEF none
  <2>3. \A i : i \notin 1 .. 0
    OBVIOUS
  <2>4. Adds(none, b, b)
    BY <2>1, <2>2, <2>3 DEF Adds
  <2> QED
    BY <2>4 DEF none
<1>3. \A c : Adds(<<>>, b, c) => c = b
  BY <1>1 DEF Adds
<1> QED
  BY <1>2, <1>3

\* The innermost call adds its files to those that were counted before.
LEMMA AddsOne ==
  ASSUME NEW fs \in Seq(Call), NEW f \in Call, NEW b \in Nat, NEW c \in Nat
  PROVE  Adds(<<f>> \o fs, b, c) <=> Adds(fs, b + f.files, c)
<1> DEFINE new == <<f>> \o fs
           n == Len(fs)
<1>1. /\ n \in Nat /\ Len(new) = n + 1 /\ new[1] = f
      /\ \A i \in 1 .. n : new[i + 1] = fs[i]
      /\ f.files \in Nat /\ \A i \in 1 .. n : fs[i].files \in Nat
  <2>1. f \in Call /\ \A i \in 1 .. n : fs[i] \in Call
    OBVIOUS
  <2>2. f.files \in Nat /\ \A i \in 1 .. n : fs[i].files \in Nat
    BY <2>1 DEF Call
  <2> QED
    BY <2>2, Pushed
<1>2. Len(fs) = n
  OBVIOUS
<1> HIDE DEF new, n
<1>3. Adds(new, b, c) => Adds(fs, b + f.files, c)
  <2> SUFFICES ASSUME Adds(new, b, c) PROVE Adds(fs, b + f.files, c)
    OBVIOUS
  <2>1. PICK sum \in [1 .. (n + 1) + 1 -> Nat] :
           /\ sum[1] = b /\ sum[(n + 1) + 1] = c
           /\ \A i \in 1 .. n + 1 : sum[i + 1] = sum[i] + new[i].files
    BY <1>1 DEF Adds
  <2> DEFINE rest == [i \in 1 .. n + 1 |-> sum[i + 1]]
  <2>2. rest \in [1 .. n + 1 -> Nat]
    BY <1>1
  <2>3. rest[1] = b + f.files
    <3>1. rest[1] = sum[1 + 1] /\ sum[1 + 1] = sum[1] + new[1].files
      BY <1>1, <2>1
    <3> QED
      BY <1>1, <2>1, <3>1
  <2>4. rest[n + 1] = c
    BY <1>1, <2>1
  <2>5. ASSUME NEW i \in 1 .. n PROVE rest[i + 1] = rest[i] + fs[i].files
    <3>1. rest[i + 1] = sum[(i + 1) + 1] /\ rest[i] = sum[i + 1] /\ i + 1 \in 1 .. n + 1
      BY <1>1
    <3>2. sum[(i + 1) + 1] = sum[i + 1] + new[i + 1].files
      BY <2>1, <3>1
    <3> QED
      BY <1>1, <3>1, <3>2
  <2> HIDE DEF rest
  <2> QED
    BY <1>2, <2>2, <2>3, <2>4, <2>5 DEF Adds
<1>4. Adds(fs, b + f.files, c) => Adds(new, b, c)
  <2> SUFFICES ASSUME Adds(fs, b + f.files, c) PROVE Adds(new, b, c)
    OBVIOUS
  <2>1. PICK sum \in [1 .. n + 1 -> Nat] :
           /\ sum[1] = b + f.files /\ sum[n + 1] = c
           /\ \A i \in 1 .. n : sum[i + 1] = sum[i] + fs[i].files
    BY <1>2 DEF Adds
  <2> DEFINE all == [i \in 1 .. (n + 1) + 1 |-> IF i = 1 THEN b ELSE sum[i - 1]]
  <2>2. all \in [1 .. (n + 1) + 1 -> Nat]
    BY <1>1
  <2>3. all[1] = b /\ all[(n + 1) + 1] = c
    BY <1>1, <2>1
  <2>4. ASSUME NEW i \in 1 .. n + 1 PROVE all[i + 1] = all[i] + new[i].files
    <3>1. all[i + 1] = sum[i]
      BY <1>1
    <3>2. CASE i = 1
      BY <1>1, <2>1, <3>1, <3>2
    <3>3. CASE i # 1
      <4>1. i - 1 \in 1 .. n /\ (i - 1) + 1 = i /\ all[i] = sum[i - 1]
        BY <1>1, <3>3
      <4>2. sum[i] = sum[i - 1] + fs[i - 1].files /\ new[i] = fs[i - 1]
        BY <1>1, <2>1, <4>1
      <4> QED
        BY <3>1, <4>1, <4>2
    <3> QED
      BY <3>2, <3>3
  <2> HIDE DEF all
  <2> QED
    BY <1>1, <2>2, <2>3, <2>4 DEF Adds
<1> QED
  BY <1>3, <1>4 DEF new

\* One more before is one more after.
LEMMA AddsMore ==
  ASSUME NEW fs \in Seq(Call), NEW b \in Nat, NEW c \in Nat, Adds(fs, b, c)
  PROVE  Adds(fs, b + 1, c + 1)
<1> DEFINE n == Len(fs)
<1>1. n \in Nat /\ Len(fs) = n /\ \A i \in 1 .. n : fs[i].files \in Nat
  <2>1. \A i \in 1 .. n : fs[i] \in Call
    OBVIOUS
  <2> QED
    BY <2>1 DEF Call
<1> HIDE DEF n
<1>2. PICK sum \in [1 .. n + 1 -> Nat] :
         /\ sum[1] = b /\ sum[n + 1] = c
         /\ \A i \in 1 .. n : sum[i + 1] = sum[i] + fs[i].files
  BY <1>1 DEF Adds
<1> DEFINE more == [i \in 1 .. n + 1 |-> sum[i] + 1]
<1>3. more \in [1 .. n + 1 -> Nat] /\ more[1] = b + 1 /\ more[n + 1] = c + 1
  BY <1>1, <1>2
<1>4. ASSUME NEW i \in 1 .. n PROVE more[i + 1] = more[i] + fs[i].files
  <2>1. i \in 1 .. n + 1 /\ i + 1 \in 1 .. n + 1
    BY <1>1
  <2>2. more[i + 1] = sum[i + 1] + 1 /\ more[i] = sum[i] + 1 /\ sum[i] \in Nat /\ sum[i + 1] \in Nat
    BY <1>2, <2>1
  <2>3. sum[i + 1] = sum[i] + fs[i].files /\ fs[i].files \in Nat
    BY <1>1, <1>2
  <2> HIDE DEF more
  <2> QED
    BY <2>2, <2>3
<1> HIDE DEF more
<1> QED
  BY <1>1, <1>3, <1>4 DEF Adds

\* A file is seen when it is there, no rule hides it, and the directories above
\* it can be listed and are not excluded.
LEMMA SeenIs ==
  ASSUME TypesOK
  PROVE  \A f \in Nodes : f \in VisibleFiles <=>
            /\ f \in DOMAIN disk /\ disk[f].kind = "file" /\ ~ Excluded(f)
            /\ \A a \in Ancestors[f] : ~ Excluded(a) /\ Readable(a)
<1> TAKE f \in Nodes
<1>1. f \in DOMAIN disk => \A a \in Ancestors[f] : a \in DOMAIN disk
  BY PathIsThere DEF TypesOK, WorldOK
<1>2. f \notin Ancestors[f]
  BY FileTree
<1> QED
  BY <1>1, <1>2 DEF VisibleFiles, IsFile, Readable

\* Nothing is seen below what is not a directory that may be listed.
LEMMA NothingBelow ==
  ASSUME TypesOK, NEW n \in Nodes,
         \/ n \notin DOMAIN disk \/ disk[n].kind # "dir"
         \/ Excluded(n) \/ ~ Readable(n)
  PROVE  VisibleFiles \cap Below[n] = {}
<1> SUFFICES ASSUME NEW f \in VisibleFiles, f \in Below[n] PROVE FALSE
  OBVIOUS
<1>1. f \in Nodes /\ n \in Ancestors[f]
  BY BelowIsAbove
<1>2. f \in DOMAIN disk /\ ~ Excluded(n) /\ Readable(n)
  BY <1>1, SeenIs
<1>3. n \in DOMAIN disk /\ disk[n].kind = "dir"
  BY <1>1, <1>2, PathIsThere DEF TypesOK, WorldOK
<1> QED
  BY <1>2, <1>3

\* Nobody sees but what is not above itself: a list of children leads to each of
\* them and to what is below.
LEMMA LeftOfChildren ==
  ASSUME NEW left \in Seq(Nodes), left # <<>>, Distinct(left), NEW dir \in Nodes,
         \A x \in Nodes : Contains(left, x) => x # Root /\ Parent[x] = dir
  PROVE  /\ Head(left) \in Nodes \ {Root} /\ Parent[Head(left)] = dir
         /\ Contains(left, Head(left)) /\ Tail(left) \in Seq(Nodes) /\ Distinct(Tail(left))
         /\ \A x : Contains(left, x) <=> x = Head(left) \/ Contains(Tail(left), x)
         /\ ~ Contains(Tail(left), Head(left))
         /\ LeftOf(left) = {Head(left)} \cup Below[Head(left)] \cup LeftOf(Tail(left))
         /\ Head(left) \notin LeftOf(Tail(left))
<1> DEFINE h == Head(left)
           t == Tail(left)
<1>1. Apart(left)
  BY FileTree DEF Apart
<1>2. /\ h \in Nodes /\ t \in Seq(Nodes) /\ Apart(t)
      /\ \A x : Contains(left, x) <=> x = h \/ Contains(t, x)
      /\ \A x \in Nodes : Contains(t, x) =>
            x # h /\ x \notin Ancestors[h] /\ h \notin Ancestors[x]
  BY <1>1, HeadIsApart
<1> HIDE DEF h, t
<1>3. h # Root /\ Parent[h] = dir /\ Contains(left, h)
  BY <1>2
<1>4. LeftOf(left) = {h} \cup Below[h] \cup LeftOf(t)
  BY <1>2, BelowIsAbove DEF LeftOf
<1>5. h \notin LeftOf(t) /\ ~ Contains(t, h)
  BY <1>2, FileTree DEF LeftOf
<1> QED
  BY <1>2, <1>3, <1>4, <1>5 DEF h, t, Apart

\* What the outer calls will still come to is not in the directory of the inner.
LEMMA OuterIsApart ==
  ASSUME NEW fs \in Seq(Call), NEW f \in Call, Fits(f, Calls(fs)), Stack(fs),
         NEW n \in Nodes \ {Root}, Parent[n] = f.dir
  PROVE  n \notin Pending(fs) /\ n \notin Missing(fs)
<1>1. ASSUME NEW c \in Calls(fs) PROVE n \notin LeftOf(c.left) /\ ~ Contains(c.left, n) /\ c.entered
  <2>1. /\ c.entered /\ \A x \in {f.dir} \cup Ancestors[f.dir] : ~ Contains(c.left, x)
        /\ c.dir \in Ancestors[f.dir]
    BY DEF Fits
  <2>2. Contains(c.left, n) => Parent[n] = c.dir
    BY StackDirs
  <2>3. f.dir \notin Ancestors[f.dir] /\ Ancestors[n] = {f.dir} \cup Ancestors[f.dir]
    BY FileTree DEF Call
  <2> QED
    BY <2>1, <2>2, <2>3 DEF LeftOf
<1> QED
  BY <1>1 DEF Pending, Missing, PendingIn, MissingIn

\* What a call becomes when it goes on.
LEMMA CallFields ==
  /\ \A f \in Call, l \in Seq(Nodes) :
        LET g == [f EXCEPT !.entered = TRUE, !.left = l]
        IN  g.dir = f.dir /\ g.entered = TRUE /\ g.left = l /\ g.files = f.files
  /\ \A f \in Call, l \in Seq(Nodes), t \in {"file", "dir", "other"}, k \in Nat :
        LET g == [f EXCEPT !.left = l, !.st = t, !.files = k]
        IN  g.dir = f.dir /\ g.entered = f.entered /\ g.left = l /\ g.files = k
<1> DEFINE S == Seq(Nodes)
<1>1. Call = [dir : Nodes, entered : BOOLEAN, left : S, files : Nat,
              st : {"none", "file", "dir", "other"}]
  BY DEF Call
<1> HIDE DEF S
<1>2. \A f \in Call, l \in S :
        LET g == [f EXCEPT !.entered = TRUE, !.left = l]
        IN  g.dir = f.dir /\ g.entered = TRUE /\ g.left = l /\ g.files = f.files
  BY <1>1
<1>3. \A f \in Call, l \in S, t \in {"file", "dir", "other"}, k \in Nat :
        LET g == [f EXCEPT !.left = l, !.st = t, !.files = k]
        IN  g.dir = f.dir /\ g.entered = f.entered /\ g.left = l /\ g.files = k
  BY <1>1
<1> QED
  BY <1>2, <1>3 DEF S

\* CountLocalFiles asks for the entries of a directory, or cannot.
LEMMA OpenKeepsStack ==
  ASSUME TypesOK, pc = "counting", frames # <<>>, Stack(frames), CountOpen
  PROVE  /\ Stack(frames)' /\ frames' \in Seq(Call)
         /\ VisibleFiles \cap Pending(frames') = VisibleFiles \cap Pending(frames)
         /\ Missing(frames') = Missing(frames)
         /\ \A b, c \in Nat : Adds(frames, b, c) => Adds(frames', b, c)
<1>0. IsFileTree(disk)
  BY DEF TypesOK, WorldOK
<1> DEFINE T == Tail(frames)
           dir == Top.dir
           In == Inside(disk, dir)
           new == [Top EXCEPT !.entered = TRUE, !.left = Listed(In)]
<1>1. /\ ~ Top.entered
      /\ \/ /\ dir \in DOMAIN disk /\ disk[dir].kind = "dir" /\ disk[dir].mode # "closed"
            /\ frames' = <<new>> \o T
         \/ /\ ~ (dir \in DOMAIN disk /\ disk[dir].kind = "dir" /\ disk[dir].mode # "closed")
            /\ frames' = T
      /\ UNCHANGED <<disk, env>>
  BY DEF CountOpen, WithTop, world
<1>2. /\ Top \in Call /\ T \in Seq(Call) /\ dir \in Nodes /\ frames = <<Top>> \o T
      /\ frames \in Seq(Call)
  BY FramesSplit, TopIs DEF TypesOK, Top
<1>3. Fits(Top, Calls(T)) /\ Stack(T)
  BY <1>2, StackIs
<1>4. /\ Pending(frames) = PendingIn(Top) \cup Pending(T)
      /\ Missing(frames) = MissingIn(Top) \cup Missing(T)
  BY <1>2, StackIs
<1>5. ~ Excluded(dir) /\ Top.left = <<>> /\ Top.files = 0
  BY <1>1, <1>3 DEF Fits
<1>6. PendingIn(Top) = Below[dir] /\ MissingIn(Top) = {}
  <2>1. \A x : ~ Contains(<<>>, x)
    BY SingletonContains
  <2> QED
    BY <1>1, <1>5, <2>1, LeftOfEnds DEF PendingIn, MissingIn
<1>7. (\A n : Excluded(n)' = Excluded(n)) /\ (\A n : Readable(n)' = Readable(n))
  BY <1>1 DEF Excluded, Readable
<1>8. Stack(frames)' <=> Stack(frames')
  BY <1>7 DEF Stack, Outer, Fits
<1>9. CASE frames' = T /\ ~ (dir \in DOMAIN disk /\ disk[dir].kind = "dir" /\ disk[dir].mode # "closed")
  <2>1. VisibleFiles \cap Below[dir] = {}
    BY <1>2, <1>9, NothingBelow DEF Readable
  <2>2. \A b, c \in Nat : Adds(frames, b, c) => Adds(T, b, c)
    <3> SUFFICES ASSUME NEW b \in Nat, NEW c \in Nat, Adds(frames, b, c) PROVE Adds(T, b, c)
      OBVIOUS
    <3>1. Adds(T, b + Top.files, c)
      BY <1>2, AddsOne
    <3> QED
      BY <1>5, <3>1
  <2> QED
    BY <1>2, <1>3, <1>4, <1>6, <1>8, <1>9, <2>1, <2>2
<1>10. CASE /\ dir \in DOMAIN disk /\ disk[dir].kind = "dir" /\ disk[dir].mode # "closed"
            /\ frames' = <<new>> \o T
  <2>1. In \in SUBSET Nodes /\ \A x \in In : x \in Nodes \ {Root} /\ Parent[x] = dir /\ x \in DOMAIN disk
    <3>1. \A x \in In : x \in Nodes \ {Root} /\ Parent[x] = dir /\ x \in DOMAIN disk
      BY <1>0, FileTreeIs DEF Inside
    <3> QED
      BY <3>1
  <2>2. Lists(Listed(In), In) /\ Listed(In) \in Seq(Nodes)
    BY <2>1, ListedNodes
  <2>3. \A x : Contains(Listed(In), x) <=> x \in In
    BY <2>2 DEF Lists
  <2>4. /\ new \in Call /\ new.dir = dir /\ new.entered = TRUE /\ new.left = Listed(In)
        /\ new.files = 0
    <3>1. new \in Call
      BY <1>2, <2>2, CallIs
    <3> QED
      BY <1>2, <1>5, <2>2, <3>1, CallFields
  <2> HIDE DEF new
  <2>5. Fits(new, Calls(T))
    <3>1. Distinct(new.left) /\ Readable(dir)
      BY <1>10, <2>2, <2>4 DEF Lists, Readable
    <3>2. \A x \in Nodes : Contains(new.left, x) => x # Root /\ Parent[x] = dir
      BY <2>1, <2>3, <2>4
    <3> QED
      BY <1>3, <1>5, <2>4, <3>1, <3>2 DEF Fits
  <2>6. /\ Stack(frames') /\ Pending(frames') = PendingIn(new) \cup Pending(T)
        /\ Missing(frames') = MissingIn(new) \cup Missing(T)
    BY <1>2, <1>3, <1>10, <2>4, <2>5, StackIs
  <2>7. MissingIn(new) = {}
    BY <2>1, <2>3, <2>4 DEF MissingIn
  <2>8. PendingIn(new) = LeftOf(Listed(In))
    BY <2>4 DEF PendingIn
  <2>9. VisibleFiles \cap LeftOf(Listed(In)) = VisibleFiles \cap Below[dir]
    <3>1. ASSUME NEW n \in LeftOf(Listed(In)) PROVE n \in Below[dir]
      <4>1. PICK a \in {n} \cup Ancestors[n] : n \in Nodes /\ a \in In
        BY <2>3 DEF LeftOf
      <4>2. dir \in Ancestors[a]
        BY <2>1, <4>1, FileTree
      <4> QED
        BY <1>2, <2>1, <4>1, <4>2, FileTree, BelowIsAbove
    <3>2. ASSUME NEW n \in VisibleFiles, n \in Below[dir] PROVE n \in LeftOf(Listed(In))
      <4>1. n \in Nodes /\ dir \in Ancestors[n]
        BY <1>2, <3>2, BelowIsAbove
      <4>2. PICK c \in Nodes \ {Root} : Parent[c] = dir /\ (c = n \/ c \in Ancestors[n])
        BY <4>1, OnTheWay
      <4>3. n \in DOMAIN disk /\ \A a \in Ancestors[n] : a \in DOMAIN disk
        BY <1>0, <3>2, <4>1, SeenIs, PathIsThere
      <4>4. c \in In
        BY <4>2, <4>3 DEF Inside
      <4>5. Contains(Listed(In), c) /\ c \in {n} \cup Ancestors[n]
        BY <2>3, <4>2, <4>4
      <4> QED
        BY <4>1, <4>5 DEF LeftOf
    <3> QED
      BY <3>1, <3>2
  <2>10. \A b, c \in Nat : Adds(frames, b, c) => Adds(frames', b, c)
    <3> SUFFICES ASSUME NEW b \in Nat, NEW c \in Nat, Adds(frames, b, c) PROVE Adds(frames', b, c)
      OBVIOUS
    <3>1. Adds(T, b + 0, c)
      BY <1>2, <1>5, AddsOne
    <3>2. Adds(<<new>> \o T, b, c)
      BY <1>2, <2>4, <3>1, AddsOne
    <3> QED
      BY <1>10, <3>2
  <2>11. frames' \in Seq(Call)
    BY <1>2, <1>10, <2>4, Pushed
  <2> QED
    BY <1>4, <1>6, <1>8, <2>6, <2>7, <2>8, <2>9, <2>10, <2>11
<1> QED
  BY <1>1, <1>9, <1>10

\* CountLocalFiles comes to the next entry, which it counts if it is a file that
\* is seen, or if it has gone: nothing else that is seen is lost.
LEMMA EntryKeepsStack ==
  ASSUME TypesOK, pc = "counting", frames # <<>>, Stack(frames), CountEntry
  PROVE  LET n == Head(Top.left)
         IN  /\ Stack(frames)' /\ frames' \in Seq(Call)
             /\ n \in Pending(frames) /\ n \notin Pending(frames')
             /\ VisibleFiles \cap Pending(frames) \subseteq Pending(frames') \cup {n}
             /\ Pending(frames') \subseteq Pending(frames)
             /\ Missing(frames') = Missing(frames) \ {n}
             /\ \E k \in {0, 1} :
                   /\ n \in VisibleFiles => k = 1
                   /\ k = 1 => n \in VisibleFiles \/ n \in Missing(frames)
                   /\ \A b, c \in Nat : Adds(frames, b, c) => Adds(frames', b, c + k)
<1>0. IsFileTree(disk)
  BY DEF TypesOK, WorldOK
<1> DEFINE T == Tail(frames)
           n == Head(Top.left)
           t == Tail(Top.left)
<1>1. Top.entered /\ Top.left # <<>> /\ UNCHANGED <<disk, env>>
  BY DEF CountEntry, world
<1>2. /\ Top \in Call /\ T \in Seq(Call) /\ frames = <<Top>> \o T
      /\ Top.dir \in Nodes /\ Top.left \in Seq(Nodes) /\ Top.files \in Nat
      /\ Top.st \in {"none", "file", "dir", "other"}
  BY FramesSplit, TopIs DEF TypesOK, Top
<1>3. PICK st \in Types(n) :
         frames' = (IF st = "dir" /\ ~ Excluded(n) THEN <<Frame(n)>> ELSE <<>>)
                   \o WithTop([Top EXCEPT !.left = Tail(@), !.st = st,
                                 !.files = IF st = "file" THEN FilesAfter(n) ELSE @])
  BY DEF CountEntry
<1> DEFINE k == IF st = "file" /\ ~ Excluded(n) THEN 1 ELSE 0
           next == [Top EXCEPT !.left = t, !.st = st, !.files = Top.files + k]
           down == st = "dir" /\ ~ Excluded(n)
<1>4. Fits(Top, Calls(T)) /\ Stack(T)
  BY <1>2, StackIs
<1>5. /\ Distinct(Top.left) /\ ~ Excluded(Top.dir) /\ Readable(Top.dir)
      /\ \A x \in Nodes : Contains(Top.left, x) => x # Root /\ Parent[x] = Top.dir
  BY <1>1, <1>4 DEF Fits
<1>6. /\ n \in Nodes \ {Root} /\ Parent[n] = Top.dir
      /\ Contains(Top.left, n) /\ t \in Seq(Nodes) /\ Distinct(t)
      /\ \A x : Contains(Top.left, x) <=> x = n \/ Contains(t, x)
      /\ ~ Contains(t, n)
      /\ LeftOf(Top.left) = {n} \cup Below[n] \cup LeftOf(t)
      /\ n \notin LeftOf(t)
  BY <1>1, <1>2, <1>5, LeftOfChildren
<1>7. n \notin Pending(T) /\ n \notin Missing(T)
  BY <1>2, <1>4, <1>6, OuterIsApart
<1>8. n \in VisibleFiles <=> n \in DOMAIN disk /\ disk[n].kind = "file" /\ ~ Excluded(n)
  <2>1. ASSUME NEW a \in Ancestors[n] PROVE ~ Excluded(a) /\ Readable(a)
    <3>1. CASE a = Top.dir
      BY <1>5, <3>1
    <3>2. CASE a \in Ancestors[Top.dir]
      <4>1. PICK c \in Calls(T) : a = c.dir /\ c.entered
        BY <1>4, <3>2 DEF Fits
      <4> QED
        BY <1>2, <1>4, <4>1, StackDirs
    <3> QED
      BY <1>6, <2>1, <3>1, <3>2, FileTree
  <2> QED
    BY <1>6, <2>1, SeenIs
<1>9. /\ Pending(frames) = PendingIn(Top) \cup Pending(T)
      /\ Missing(frames) = MissingIn(Top) \cup Missing(T)
  BY <1>2, StackIs
<1>10. n \in DOMAIN disk => disk[n].kind \in {"file", "dir"} /\ st = disk[n].kind
  <2>1. n \in DOMAIN disk => disk[n] \in Object
    BY <1>0, FileTreeIs
  <2> QED
    BY <1>3, <2>1 DEF Types, Object
<1>11. st \in {"file", "dir", "other"}
  BY <1>2, <1>3, <1>10 DEF Types
<1>12. frames' = (IF down THEN <<Frame(n)>> ELSE <<>>) \o (<<next>> \o T)
  <2>1. (IF st = "file" THEN FilesAfter(n) ELSE Top.files) = Top.files + k
    BY <1>2 DEF FilesAfter
  <2>2. [Top EXCEPT !.left = Tail(@), !.st = st,
                    !.files = IF st = "file" THEN FilesAfter(n) ELSE @]
        = [Top EXCEPT !.left = t, !.st = st,
                      !.files = IF st = "file" THEN FilesAfter(n) ELSE Top.files]
    BY <1>2 DEF Call
  <2> QED
    BY <1>3, <2>1, <2>2 DEF WithTop
<1>13. k \in {0, 1}
  OBVIOUS
<1>14. /\ next \in Call /\ next.dir = Top.dir /\ next.entered = Top.entered /\ next.left = t
       /\ next.files = Top.files + k
  <2>1. Top.files + k \in Nat
    BY <1>2, <1>13
  <2> DEFINE sum == Top.files + k
  <2> HIDE DEF k, t, n, sum
  <2>2. Top \in Call /\ t \in Seq(Nodes) /\ st \in {"file", "dir", "other"} /\ sum \in Nat
    BY <1>2, <1>6, <1>11, <2>1 DEF sum
  <2>3. [Top EXCEPT !.left = t, !.st = st, !.files = sum] \in Call
    BY <2>2, CallIs
  <2>4. LET g == [Top EXCEPT !.left = t, !.st = st, !.files = sum]
        IN  g.dir = Top.dir /\ g.entered = Top.entered /\ g.left = t /\ g.files = sum
    BY <2>2, CallFields
  <2> QED
    BY <2>3, <2>4 DEF sum
<1> HIDE DEF next, n, t, k
<1> DEFINE rest == <<next>> \o T
<1>15. Fits(next, Calls(T))
  <2>1. \A x \in Nodes : Contains(t, x) => x # Root /\ Parent[x] = Top.dir
    BY <1>5, <1>6
  <2> QED
    BY <1>1, <1>4, <1>6, <1>14, <2>1 DEF Fits
<1>16. /\ Stack(rest) /\ Pending(rest) = PendingIn(next) \cup Pending(T)
       /\ Missing(rest) = MissingIn(next) \cup Missing(T)
       /\ Calls(rest) = {next} \cup Calls(T) /\ rest \in Seq(Call)
  BY <1>2, <1>4, <1>14, <1>15, StackIs, CallsAre, Pushed
<1> HIDE DEF rest
<1>17. /\ PendingIn(Top) = {n} \cup Below[n] \cup LeftOf(t) /\ PendingIn(next) = LeftOf(t)
  BY <1>1, <1>6, <1>14 DEF PendingIn
<1>18. MissingIn(next) = MissingIn(Top) \ {n}
  BY <1>6, <1>14 DEF MissingIn
<1>19. (\A x : Excluded(x)' = Excluded(x)) /\ (\A x : Readable(x)' = Readable(x))
  BY <1>1 DEF Excluded, Readable
<1>20. Stack(frames)' <=> Stack(frames')
  BY <1>19 DEF Stack, Outer, Fits
<1>21. Missing(rest) = Missing(frames) \ {n}
  BY <1>7, <1>9, <1>16, <1>18
<1>22. n \in Pending(frames)
  BY <1>9, <1>17
<1>23. \A b, c \in Nat : Adds(frames, b, c) => Adds(rest, b, c + k)
  <2> SUFFICES ASSUME NEW b \in Nat, NEW c \in Nat, Adds(frames, b, c) PROVE Adds(rest, b, c + k)
    OBVIOUS
  <2>1. Adds(T, b + Top.files, c) /\ b + Top.files \in Nat
    <3>1. Adds(T, b + Top.files, c)
      BY <1>2, AddsOne
    <3> QED
      BY <1>2, <3>1
  <2>2. Adds(T, (b + Top.files) + k, c + k) /\ c + k \in Nat
    <3> DEFINE m == b + Top.files
    <3>1. CASE k = 0
      <4>1. m + k = m /\ c + k = c
        BY <2>1, <3>1
      <4> QED
        BY <2>1, <4>1
    <3>2. CASE k = 1
      <4> HIDE DEF m
      <4>1. m \in Nat /\ Adds(T, m, c)
        BY <2>1 DEF m
      <4>2. Adds(T, m + 1, c + 1)
        BY <1>2, <4>1, AddsMore
      <4> QED
        BY <3>2, <4>2 DEF m
    <3> QED
      BY <1>13, <3>1, <3>2
  <2>3. (b + Top.files) + k = b + next.files
    BY <1>2, <1>13, <1>14
  <2>4. Adds(T, b + next.files, c + k)
    BY <2>2, <2>3
  <2> QED
    BY <1>2, <1>14, <2>2, <2>4, AddsOne DEF rest
<1>24. /\ n \in VisibleFiles => k = 1
       /\ k = 1 => n \in VisibleFiles \/ n \in Missing(frames)
  <2>1. n \in VisibleFiles => k = 1
    BY <1>8, <1>10 DEF k
  <2>2. k = 1 => n \in VisibleFiles \/ n \in MissingIn(Top)
    BY <1>6, <1>8, <1>10 DEF k, MissingIn
  <2> QED
    BY <1>9, <2>1, <2>2
<1>25. CASE down
  <2>1. frames' = <<Frame(n)>> \o rest
    BY <1>12, <1>25 DEF rest
  <2>2. /\ Frame(n) \in Call /\ Frame(n).dir = n /\ Frame(n).entered = FALSE
        /\ Frame(n).left = <<>> /\ Frame(n).files = 0
    BY <1>6, CallIs DEF Frame
  <2>3. \A x : ~ Contains(<<>>, x)
    BY SingletonContains
  <2>4. Fits(Frame(n), Calls(rest))
    <3>1. Ancestors[n] = {Top.dir} \cup Ancestors[Top.dir] /\ n \notin Ancestors[n]
      BY <1>6, FileTree
    <3>2. Ancestors[n] = {c.dir : c \in Calls(rest)}
      BY <1>4, <1>14, <1>16, <3>1 DEF Fits
    <3>3. \A c \in Calls(rest) : c.entered
      BY <1>1, <1>4, <1>14, <1>16 DEF Fits
    <3>4. ASSUME NEW c \in Calls(T), NEW x \in {n} \cup Ancestors[n] PROVE ~ Contains(c.left, x)
      <4>1. x \in Ancestors[n] => ~ Contains(c.left, x)
        BY <1>4, <3>1 DEF Fits
      <4>2. ~ Contains(c.left, n)
        <5>1. Contains(c.left, n) => Parent[n] = c.dir
          BY <1>2, <1>4, <1>6, StackDirs
        <5>2. c.dir \in Ancestors[Top.dir]
          BY <1>4 DEF Fits
        <5> QED
          BY <1>2, <1>6, <5>1, <5>2, FileTree
      <4> QED
        BY <3>4, <4>1, <4>2
    <3>5. ASSUME NEW x \in {n} \cup Ancestors[n] PROVE ~ Contains(t, x)
      <4>1. x \in Nodes
        BY <1>6, FileTree
      <4>2. Contains(t, x) => x \in Nodes \ {Root} /\ Parent[x] = Parent[n]
        BY <1>5, <1>6, <4>1
      <4> QED
        BY <1>6, <3>5, <4>2, FileTree
    <3>6. Distinct(<<>>)
      BY DEF Distinct
    <3> QED
      BY <1>14, <1>16, <1>25, <2>2, <2>3, <3>2, <3>3, <3>4, <3>5, <3>6 DEF Fits
  <2>5. /\ Stack(frames') /\ frames' \in Seq(Call)
        /\ Pending(frames') = PendingIn(Frame(n)) \cup Pending(rest)
        /\ Missing(frames') = MissingIn(Frame(n)) \cup Missing(rest)
    BY <1>16, <2>1, <2>2, <2>4, StackIs, Pushed
  <2>6. PendingIn(Frame(n)) = Below[n] /\ MissingIn(Frame(n)) = {}
    BY <2>2, <2>3, LeftOfEnds DEF PendingIn, MissingIn
  <2>7. \A b, c \in Nat : Adds(frames, b, c) => Adds(frames', b, c + k)
    <3> SUFFICES ASSUME NEW b \in Nat, NEW c \in Nat, Adds(frames, b, c) PROVE Adds(frames', b, c + k)
      OBVIOUS
    <3>1. Adds(rest, b, c + k) /\ c + k \in Nat /\ b + 0 = b
      BY <1>13, <1>23
    <3> QED
      BY <1>16, <2>1, <2>2, <3>1, AddsOne
  <2>8. n \notin Below[n]
    BY <1>6, FileTree, BelowIsAbove
  <2>9. n \notin Pending(frames')
    BY <1>6, <1>7, <1>16, <1>17, <2>5, <2>6, <2>8
  <2>10. Pending(frames') \subseteq Pending(frames) /\ Pending(frames) \subseteq Pending(frames') \cup {n}
    BY <1>9, <1>16, <1>17, <2>5, <2>6
  <2>11. Missing(frames') = Missing(frames) \ {n}
    BY <1>21, <2>5, <2>6
  <2> QED
    BY <1>13, <1>20, <1>22, <1>24, <2>5, <2>7, <2>9, <2>10, <2>11 DEF n
<1>26. CASE ~ down
  <2>1. frames' = rest
    BY <1>12, <1>16, <1>26 DEF rest
  <2>2. VisibleFiles \cap Below[n] = {}
    <3>1. n \notin DOMAIN disk \/ disk[n].kind # "dir" \/ Excluded(n)
      BY <1>10, <1>26
    <3> QED
      BY <1>6, <3>1, NothingBelow
  <2>3. n \notin Pending(frames')
    BY <1>6, <1>7, <1>16, <1>17, <2>1
  <2>4. /\ Pending(frames') \subseteq Pending(frames)
        /\ VisibleFiles \cap Pending(frames) \subseteq Pending(frames') \cup {n}
    BY <1>9, <1>16, <1>17, <2>1, <2>2
  <2> QED
    BY <1>13, <1>16, <1>20, <1>21, <1>22, <1>23, <1>24, <2>1, <2>3, <2>4 DEF n
<1> QED
  BY <1>25, <1>26

-----------------------------------------------------------------------------
(* The gauge.                                                              *)

\* The files that are seen, but for those that are still to come, have been
\* counted. The nodes that have gone explain what was counted too much, where
\* every one that is still to be missed counts twice; those that have come
\* explain what was not counted.
CountedRight(c, P, G) ==
    /\ c + Cardinality(G) <= Cardinality(VisibleFiles \ P) + history.gone
    /\ Cardinality(VisibleFiles \ P) <= c + history.come

\* The counting goes on right: what is counted with what the calls will add.
CountingOK ==
    ~ history.second =>
        /\ pc \in {"starting", "counting"} => done = 0
        /\ pc = "starting" => counted = 0
        /\ pc = "counting" =>
              \E c \in Nat : Adds(frames, counted, c)
                             /\ CountedRight(c, Pending(frames), Missing(frames))

\* The files that are done and those that the library may still come to are not
\* more than the gauge has room for.
WorkOK ==
    pc = "working" /\ ~ history.second =>
        /\ range <= Cardinality(VisibleFiles) + history.gone
        /\ Cardinality(VisibleFiles) <= range + history.come
        /\ done + Cardinality(VisibleFiles \cap LeftOf(todo)) <= range + history.come

\* The types, the calls, and what they and the work count.
GaugeInv == TypeInv /\ FramesOK /\ CountingOK /\ WorkOK

\* Sets of nodes are finite.
LEMMA NodeSets ==
  \A S \in SUBSET Nodes : IsFiniteSet(S) /\ Cardinality(S) \in Nat
  BY FileTree, FS_Subset, FS_CardinalityType

\* A smaller set, and one with one more node.
LEMMA NodeCounts ==
  /\ \A S, T \in SUBSET Nodes : S \subseteq T => Cardinality(S) <= Cardinality(T)
  /\ \A S \in SUBSET Nodes, n \in Nodes : n \notin S => Cardinality(S \cup {n}) = Cardinality(S) + 1
  /\ \A S \in SUBSET Nodes, n \in Nodes : n \in S => Cardinality(S \ {n}) = Cardinality(S) - 1
<1>1. ASSUME NEW S \in SUBSET Nodes, NEW T \in SUBSET Nodes, S \subseteq T
      PROVE  Cardinality(S) <= Cardinality(T)
  <2>1. IsFiniteSet(T) /\ S \in SUBSET T
    BY <1>1, NodeSets
  <2> QED
    BY <2>1, FS_Subset
<1>2. \A S \in SUBSET Nodes, n \in Nodes : n \notin S => Cardinality(S \cup {n}) = Cardinality(S) + 1
  BY NodeSets, FS_AddElement
<1>3. \A S \in SUBSET Nodes, n \in Nodes : n \in S => Cardinality(S \ {n}) = Cardinality(S) - 1
  BY NodeSets, FS_RemoveElement
<1> QED
  BY <1>1, <1>2, <1>3

\* What is missing is to come, and is not seen.
LEMMA MissingIs ==
  ASSUME NEW fs
  PROVE  /\ Missing(fs) \subseteq Pending(fs) /\ Missing(fs) \subseteq Nodes
         /\ Missing(fs) \cap DOMAIN disk = {}
<1>1. \A f : MissingIn(f) \subseteq PendingIn(f) /\ MissingIn(f) \subseteq Nodes
             /\ MissingIn(f) \cap DOMAIN disk = {}
  BY DEF MissingIn, PendingIn, LeftOf
<1> QED
  BY <1>1 DEF Missing, Pending

\* What is seen, what is missing and what fits only depends on the files and the
\* rules.
LEMMA SameSeen ==
  ASSUME UNCHANGED <<disk, env>>
  PROVE  /\ VisibleFiles' = VisibleFiles
         /\ (Missing(frames))' = Missing(frames')
         /\ (Pending(frames))' = Pending(frames')
         /\ (Stack(frames))' <=> Stack(frames')
         /\ (LeftOf(todo))' = LeftOf(todo')
         /\ \A c : (Adds(frames, counted, c))' <=> Adds(frames', counted', c)
<1>1. VisibleFiles' = VisibleFiles
  BY DEF VisibleFiles, IsFile, Excluded
<1>2. (Missing(frames))' = Missing(frames')
  BY DEF Missing, MissingIn, Calls, Excluded
<1>3. (Pending(frames))' = Pending(frames') /\ (LeftOf(todo))' = LeftOf(todo')
  BY DEF Pending, PendingIn, Calls, LeftOf
<1>4. (Stack(frames))' <=> Stack(frames')
  BY DEF Stack, Outer, Fits, Readable, Excluded
<1>5. \A c : (Adds(frames, counted, c))' <=> Adds(frames', counted', c)
  BY DEF Adds
<1> QED
  BY <1>1, <1>2, <1>3, <1>4, <1>5

\* Nothing that matters changes.
LEMMA GaugeStays ==
  ASSUME GaugeInv,
         UNCHANGED <<disk, env, pc, counted, done, range, frames, todo, history.second,
                     history.gone, history.come>>
  PROVE  FramesOK' /\ CountingOK' /\ WorkOK'
<1>1. /\ VisibleFiles' = VisibleFiles
      /\ (Missing(frames))' = Missing(frames) /\ (Pending(frames))' = Pending(frames)
      /\ (Stack(frames))' <=> Stack(frames)
      /\ (LeftOf(todo))' = LeftOf(todo)
      /\ \A c : (Adds(frames, counted, c))' <=> Adds(frames, counted, c)
  BY SameSeen
<1>2. FramesOK'
  BY <1>1 DEF GaugeInv, FramesOK
<1>3. WorkOK'
  BY <1>1 DEF GaugeInv, WorkOK
<1>4. CountingOK'
  BY <1>1 DEF GaugeInv, CountingOK, CountedRight
<1> QED
  BY <1>2, <1>3, <1>4

\* Neither counting nor work.
LEMMA GaugeRests ==
  ASSUME pc' \notin {"starting", "counting", "working"}
  PROVE  FramesOK' /\ CountingOK' /\ WorkOK'
  BY DEF FramesOK, CountingOK, WorkOK

\* The first call: everything is still to come.
LEMMA ConnectGauge ==
  ASSUME GaugeInv, Connect
  PROVE  FramesOK' /\ CountingOK' /\ WorkOK'
<1>1. CASE ~ Connected
  <2>1. pc' = "idle"
    BY <1>1 DEF Connect, Fail, Over
  <2> QED
    BY <2>1, GaugeRests
<1>2. CASE Connected
  <2>1. /\ pc = "starting" /\ pc' = "counting" /\ frames' = <<Frame(Root)>>
        /\ UNCHANGED <<disk, env, counted, done, history>>
    BY <1>2 DEF Connect, gauge
  <2>2. TypesOK /\ WorldOK /\ history.come \in Nat /\ history.gone \in Nat
    BY DEF GaugeInv, TypeInv, TypesOK
  <2>3. <<>> \in Seq(Call) /\ <<Frame(Root)>> = <<Frame(Root)>> \o <<>> /\ Root \in Nodes
    BY FileTree
  <2>4. /\ Frame(Root) \in Call /\ Frame(Root).dir = Root /\ Frame(Root).entered = FALSE
        /\ Frame(Root).left = <<>> /\ Frame(Root).files = 0
    BY <2>3, CallIs DEF Frame
  <2>5. \A x : ~ Contains(<<>>, x)
    BY SingletonContains
  <2>6. Fits(Frame(Root), Calls(<<>>))
    <3>1. Distinct(<<>>)
      BY DEF Distinct
    <3>2. Ancestors[Root] = {} /\ Calls(<<>>) = {}
      BY FileTree, NoCalls
    <3>3. ~ Excluded(Root)
      BY <2>2, RootStays
    <3> QED
      BY <2>4, <2>5, <3>1, <3>2, <3>3 DEF Fits
  <2>7. /\ Stack(frames') /\ Pending(frames') = PendingIn(Frame(Root))
        /\ Missing(frames') = MissingIn(Frame(Root))
    <3> DEFINE none == <<>>
               first == Frame(Root)
    <3>1. /\ none \in Seq(Call) /\ first \in Call /\ Fits(first, Calls(none))
          /\ Stack(none) /\ Pending(none) = {} /\ Missing(none) = {}
      BY <2>3, <2>4, <2>6, NoCalls
    <3>2. frames' = <<first>> \o none
      BY <2>1, <2>3
    <3> HIDE DEF none, first
    <3>3. /\ Stack(<<first>> \o none) <=> Fits(first, Calls(none)) /\ Stack(none)
          /\ Pending(<<first>> \o none) = PendingIn(first) \cup Pending(none)
          /\ Missing(<<first>> \o none) = MissingIn(first) \cup Missing(none)
      BY <3>1, StackIs
    <3>4. /\ Stack(frames') /\ Pending(frames') = PendingIn(first)
          /\ Missing(frames') = MissingIn(first)
      BY <3>1, <3>2, <3>3
    <3> QED
      BY <3>4 DEF first
  <2>8. Pending(frames') = Below[Root] /\ Missing(frames') = {}
    BY <2>4, <2>5, <2>7, LeftOfEnds DEF PendingIn, MissingIn
  <2>9. VisibleFiles \ Below[Root] = {}
    <3>1. Root \notin VisibleFiles
      <4>1. Root \in DOMAIN disk => disk[Root].kind = "dir"
        BY <2>2, FileTreeIs DEF WorldOK
      <4> QED
        BY <2>2, <2>3, <4>1, SeenIs
    <3>2. VisibleFiles \subseteq Nodes
      BY <2>2, VisibleIs
    <3>3. \A n \in Nodes : n = Root \/ n \in Below[Root]
      BY FileTree, BelowIsAbove
    <3> QED
      BY <3>1, <3>2, <3>3
  <2>10. Adds(frames', 0, 0)
    <3> DEFINE none == <<>>
               first == Frame(Root)
    <3>1. none \in Seq(Call) /\ first \in Call /\ frames' = <<first>> \o none
      BY <2>1, <2>3, <2>4
    <3>2. Adds(none, 0, 0)
      BY AddsNothing
    <3>3. 0 + first.files = 0
      BY <2>4
    <3> HIDE DEF none, first
    <3>4. Adds(none, 0 + first.files, 0)
      BY <3>2, <3>3
    <3>5. Adds(<<first>> \o none, 0, 0)
      BY <3>1, <3>4, AddsOne
    <3> QED
      BY <3>1, <3>5
  <2>11. FramesOK'
    BY <2>1, <2>7, SameSeen DEF FramesOK
  <2>12. CountingOK'
    <3> SUFFICES ASSUME ~ history.second PROVE CountingOK'
      BY <2>1 DEF CountingOK
    <3>1. counted = 0 /\ done = 0
      BY <2>1 DEF GaugeInv, CountingOK
    <3>2. CountedRight(0, Pending(frames), Missing(frames))'
      <4> DEFINE uncounted == (VisibleFiles \ Pending(frames))'
                 lost == (Missing(frames))'
      <4>1. uncounted = {} /\ lost = {}
        BY <2>1, <2>8, <2>9, SameSeen
      <4>2. history'.gone \in Nat /\ history'.come \in Nat
        BY <2>1, <2>2
      <4> HIDE DEF uncounted, lost
      <4>3. Cardinality(uncounted) = 0 /\ Cardinality(lost) = 0
        BY <4>1, FS_EmptySet
      <4>4. /\ 0 + Cardinality(lost) <= Cardinality(uncounted) + history'.gone
            /\ Cardinality(uncounted) <= 0 + history'.come
        BY <4>2, <4>3
      <4> QED
        BY <4>4 DEF CountedRight, uncounted, lost
    <3>3. (Adds(frames, counted, 0))'
      BY <2>1, <2>10, <3>1, SameSeen
    <3>4. \E c \in Nat : (Adds(frames, counted, c) /\ CountedRight(c, Pending(frames), Missing(frames)))'
      BY <3>2, <3>3
    <3>5. pc' = "counting" /\ done' = 0
      BY <2>1, <3>1
    <3> QED
      BY <3>4, <3>5 DEF CountingOK
  <2> QED
    BY <2>1, <2>11, <2>12 DEF WorkOK
<1> QED
  BY <1>1, <1>2

\* Counting goes on.
LEMMA CountingGoesOn ==
  ASSUME pc = "counting", pc' = "counting",
         UNCHANGED <<disk, env, done, history.second, history.gone, history.come>>,
         CountingOK, Stack(frames'),
         ~ history.second =>
            \E c \in Nat : /\ Adds(frames', counted', c)
                           /\ CountedRight(c, Pending(frames'), Missing(frames'))
  PROVE  FramesOK' /\ CountingOK' /\ WorkOK'
<1>1. /\ VisibleFiles' = VisibleFiles
      /\ (Missing(frames))' = Missing(frames') /\ (Pending(frames))' = Pending(frames')
      /\ (Stack(frames))' <=> Stack(frames')
      /\ \A c : (Adds(frames, counted, c))' <=> Adds(frames', counted', c)
  BY SameSeen
<1>2. FramesOK' /\ WorkOK'
  BY <1>1 DEF FramesOK, WorkOK
<1>3. CountingOK'
  <2> SUFFICES ASSUME ~ history.second PROVE CountingOK'
    BY DEF CountingOK
  <2>1. done' = 0
    BY DEF CountingOK
  <2>2. PICK c \in Nat : /\ Adds(frames', counted', c)
                         /\ CountedRight(c, Pending(frames'), Missing(frames'))
    OBVIOUS
  <2>3. (Adds(frames, counted, c))'
    BY <1>1, <2>2
  <2>4. (CountedRight(c, Pending(frames), Missing(frames)))'
    BY <1>1, <2>2 DEF CountedRight
  <2>5. \E d \in Nat : (Adds(frames, counted, d) /\ CountedRight(d, Pending(frames), Missing(frames)))'
    BY <2>3, <2>4
  <2> QED
    BY <2>1, <2>5 DEF CountingOK
<1> QED
  BY <1>2, <1>3

\* A directory is opened.
LEMMA OpenGauge ==
  ASSUME GaugeInv, CountOpen
  PROVE  FramesOK' /\ CountingOK' /\ WorkOK'
<1>1. /\ pc = "counting" /\ pc' = "counting" /\ frames # <<>>
      /\ UNCHANGED <<disk, env, counted, done, history.second, history.gone, history.come>>
  <2>1. history' = [history EXCEPT !.opened = @ \cup {Top.dir}]
    BY DEF CountOpen
  <2>2. UNCHANGED <<history.second, history.gone, history.come>>
    BY <2>1 DEF GaugeInv, TypeInv, TypesOK
  <2> QED
    BY <2>2 DEF CountOpen, world, gauge
<1>2. TypesOK /\ Stack(frames) /\ CountingOK
  BY <1>1 DEF GaugeInv, TypeInv, FramesOK
<1>3. /\ Stack(frames)' /\ frames' \in Seq(Call)
      /\ VisibleFiles \cap Pending(frames') = VisibleFiles \cap Pending(frames)
      /\ Missing(frames') = Missing(frames)
      /\ \A b, c \in Nat : Adds(frames, b, c) => Adds(frames', b, c)
  BY <1>1, <1>2, OpenKeepsStack
<1>4. Stack(frames')
  BY <1>1, <1>3, SameSeen
<1>5. VisibleFiles \ Pending(frames') = VisibleFiles \ Pending(frames)
  BY <1>3
<1>6. ASSUME ~ history.second
      PROVE  \E c \in Nat : /\ Adds(frames', counted', c)
                            /\ CountedRight(c, Pending(frames'), Missing(frames'))
  <2>1. PICK c \in Nat : Adds(frames, counted, c) /\ CountedRight(c, Pending(frames), Missing(frames))
    BY <1>1, <1>2, <1>6 DEF CountingOK
  <2>2. counted \in Nat /\ counted' = counted
    BY <1>1, <1>2 DEF TypesOK
  <2>3. Adds(frames', counted', c)
    BY <1>3, <2>1, <2>2
  <2>4. CountedRight(c, Pending(frames'), Missing(frames'))
    BY <1>3, <1>5, <2>1 DEF CountedRight
  <2> QED
    BY <2>3, <2>4
<1> QED
  BY <1>1, <1>2, <1>4, <1>6, CountingGoesOn

\* An entry is counted, or not.
LEMMA EntryGauge ==
  ASSUME GaugeInv, CountEntry
  PROVE  FramesOK' /\ CountingOK' /\ WorkOK'
<1> DEFINE n == Head(Top.left)
           V == VisibleFiles
           P == Pending(frames)
           Q == Pending(frames')
           G == Missing(frames)
<1>1. /\ pc = "counting" /\ pc' = "counting" /\ frames # <<>> /\ Top.left # <<>>
      /\ UNCHANGED <<disk, env, counted, done, history>>
  BY DEF CountEntry, world, gauge
<1>2. TypesOK /\ Stack(frames) /\ CountingOK /\ history.gone \in Nat /\ history.come \in Nat
      /\ counted \in Nat
  BY <1>1 DEF GaugeInv, TypeInv, FramesOK, TypesOK
<1>3. /\ Stack(frames)' /\ frames' \in Seq(Call)
      /\ n \in P /\ n \notin Q
      /\ V \cap P \subseteq Q \cup {n}
      /\ Q \subseteq P
      /\ Missing(frames') = G \ {n}
      /\ \E k \in {0, 1} :
            /\ n \in V => k = 1
            /\ k = 1 => n \in V \/ n \in G
            /\ \A b, c \in Nat : Adds(frames, b, c) => Adds(frames', b, c + k)
  BY <1>1, <1>2, EntryKeepsStack
<1>4. Stack(frames')
  BY <1>1, <1>3, SameSeen
<1>5. /\ V \subseteq Nodes /\ V \subseteq DOMAIN disk /\ G \subseteq Nodes /\ G \cap DOMAIN disk = {}
  BY <1>2, VisibleIs, MissingIs DEF VisibleFiles
<1> HIDE DEF n, V, P, Q, G
<1>6. ASSUME ~ history.second
      PROVE  \E c \in Nat : /\ Adds(frames', counted', c)
                            /\ CountedRight(c, Pending(frames'), Missing(frames'))
  <2>1. PICK c \in Nat : Adds(frames, counted, c) /\ CountedRight(c, P, G)
    BY <1>1, <1>2, <1>6 DEF CountingOK, P, G
  <2>2. PICK k \in {0, 1} :
           /\ n \in V => k = 1
           /\ k = 1 => n \in V \/ n \in G
           /\ \A b, d \in Nat : Adds(frames, b, d) => Adds(frames', b, d + k)
    BY <1>3
  <2>3. Adds(frames', counted', c + k) /\ c + k \in Nat
    BY <1>1, <1>2, <2>1, <2>2
  <2>4. /\ c + Cardinality(G) <= Cardinality(V \ P) + history.gone
        /\ Cardinality(V \ P) <= c + history.come
    BY <2>1 DEF CountedRight, V
  <2>5. /\ Cardinality(V \ P) \in Nat /\ Cardinality(V \ Q) \in Nat
        /\ Cardinality(G) \in Nat /\ Cardinality(G \ {n}) \in Nat
    BY <1>5, NodeSets
  <2>6. /\ (c + k) + Cardinality(G \ {n}) <= Cardinality(V \ Q) + history.gone
        /\ Cardinality(V \ Q) <= (c + k) + history.come
    <3>1. CASE n \in V
      <4>1. V \ Q = (V \ P) \cup {n} /\ n \notin V \ P /\ n \in Nodes
        BY <1>3, <1>5, <3>1
      <4>2. G \ {n} = G /\ k = 1
        BY <1>5, <2>2, <3>1
      <4>3. Cardinality(V \ Q) = Cardinality(V \ P) + 1
        BY <1>5, <4>1, NodeCounts
      <4> QED
        BY <1>2, <2>4, <2>5, <4>2, <4>3
    <3>2. CASE n \notin V
      <4>1. V \ Q = V \ P
        BY <1>3, <3>2
      <4>2. CASE k = 1
        <5>1. Cardinality(G \ {n}) = Cardinality(G) - 1
          BY <1>5, <2>2, <3>2, <4>2, NodeCounts
        <5> QED
          BY <1>2, <2>4, <2>5, <4>1, <4>2, <5>1
      <4>3. CASE k = 0
        <5>1. Cardinality(G \ {n}) <= Cardinality(G)
          BY <1>5, NodeCounts
        <5> QED
          BY <1>2, <2>4, <2>5, <4>1, <4>3, <5>1
      <4> QED
        BY <2>2, <4>2, <4>3
    <3> QED
      BY <3>1, <3>2
  <2>7. CountedRight(c + k, Q, G \ {n})
    BY <2>6 DEF CountedRight, V
  <2> QED
    BY <1>3, <2>3, <2>7 DEF Q
<1> QED
  BY <1>1, <1>2, <1>4, <1>6, CountingGoesOn

\* A directory is done.
LEMMA CloseGauge ==
  ASSUME GaugeInv, CountClose
  PROVE  FramesOK' /\ CountingOK' /\ WorkOK'
<1> DEFINE T == Tail(frames)
<1>1. /\ pc = "counting" /\ pc' = "counting" /\ frames # <<>>
      /\ Top.entered /\ Top.left = <<>> /\ counted' = counted + Top.files /\ frames' = T
      /\ UNCHANGED <<disk, env, done, history>>
  BY DEF CountClose, world
<1>2. TypesOK /\ Stack(frames) /\ CountingOK /\ counted \in Nat
  BY <1>1 DEF GaugeInv, TypeInv, FramesOK, TypesOK
<1>3. Top \in Call /\ T \in Seq(Call) /\ frames = <<Top>> \o T
  BY <1>1, <1>2, FramesSplit, TopIs DEF TypesOK, Top
<1> HIDE DEF T
<1>4. /\ Stack(T)
      /\ Pending(frames) = PendingIn(Top) \cup Pending(T)
      /\ Missing(frames) = MissingIn(Top) \cup Missing(T)
  BY <1>2, <1>3, StackIs
<1>5. PendingIn(Top) = {} /\ MissingIn(Top) = {}
  <2>1. \A x : ~ Contains(<<>>, x)
    BY SingletonContains
  <2> QED
    BY <1>1, <2>1, LeftOfEnds DEF PendingIn, MissingIn
<1>6. ASSUME ~ history.second
      PROVE  \E c \in Nat : /\ Adds(frames', counted', c)
                            /\ CountedRight(c, Pending(frames'), Missing(frames'))
  <2>1. PICK c \in Nat : Adds(frames, counted, c) /\ CountedRight(c, Pending(frames), Missing(frames))
    BY <1>1, <1>2, <1>6 DEF CountingOK
  <2>2. Adds(T, counted + Top.files, c)
    BY <1>2, <1>3, <2>1, AddsOne
  <2>3. CountedRight(c, Pending(T), Missing(T))
    BY <1>4, <1>5, <2>1
  <2> QED
    BY <1>1, <2>2, <2>3
<1> QED
  BY <1>1, <1>2, <1>4, <1>6, CountingGoesOn

\* When all directories are done nothing is to come and all is counted.
LEMMA EndGauge ==
  ASSUME GaugeInv, CountingEnds
  PROVE  FramesOK' /\ CountingOK' /\ WorkOK'
<1>1. /\ pc = "counting" /\ pc' = "working" /\ frames = <<>> /\ range' = counted /\ todo' = <<Root>>
      /\ UNCHANGED <<disk, env, done, history>>
  BY DEF CountingEnds, world
<1>2. TypesOK /\ CountingOK /\ counted \in Nat /\ history.gone \in Nat /\ history.come \in Nat
  BY DEF GaugeInv, TypeInv, TypesOK
<1>3. VisibleFiles' = VisibleFiles /\ (LeftOf(todo))' = Nodes
  BY <1>1, SameSeen, LeftOfEnds
<1>4. VisibleFiles \subseteq Nodes /\ Cardinality(VisibleFiles) \in Nat
  BY <1>2, VisibleIs
<1>5. ASSUME ~ history.second
      PROVE  /\ done = 0 /\ counted <= Cardinality(VisibleFiles) + history.gone
             /\ Cardinality(VisibleFiles) <= counted + history.come
  <2>1. PICK c \in Nat : Adds(<<>>, counted, c) /\ CountedRight(c, Pending(<<>>), Missing(<<>>))
    BY <1>1, <1>2, <1>5 DEF CountingOK
  <2>2. c = counted
    BY <1>2, <2>1, AddsNothing
  <2>3. CountedRight(counted, {}, {})
    BY <2>1, <2>2, NoCalls
  <2>4. Cardinality({}) = 0 /\ VisibleFiles \ {} = VisibleFiles
    BY FS_EmptySet
  <2>5. done = 0
    BY <1>1, <1>2, <1>5 DEF CountingOK
  <2> QED
    BY <1>2, <2>3, <2>4, <2>5 DEF CountedRight
<1>6. WorkOK'
  <2> SUFFICES ASSUME ~ history.second PROVE WorkOK'
    BY <1>1 DEF WorkOK
  <2>1. VisibleFiles \cap Nodes = VisibleFiles
    BY <1>4
  <2>2. 0 + Cardinality(VisibleFiles) = Cardinality(VisibleFiles)
    BY <1>4
  <2> QED
    BY <1>1, <1>3, <1>5, <2>1, <2>2 DEF WorkOK
<1> QED
  BY <1>1, <1>6 DEF FramesOK, CountingOK

\* A set of nodes in two parts.
LEMMA SplitCounts ==
  ASSUME NEW S \in SUBSET Nodes, NEW P
  PROVE  Cardinality(S) = Cardinality(S \ P) + Cardinality(S \cap P)
<1> DEFINE A == S \ P
           B == S \cap P
<1>1. A \in SUBSET Nodes /\ B \in SUBSET Nodes /\ A \cap B = {} /\ A \cup B = S
  OBVIOUS
<1> HIDE DEF A, B
<1>2. IsFiniteSet(A) /\ IsFiniteSet(B) /\ Cardinality(A) \in Nat /\ Cardinality(B) \in Nat
  BY <1>1, NodeSets
<1> DEFINE U == A \cup B
           n == Cardinality(A \cap B)
<1>3. Cardinality(U) = Cardinality(A) + Cardinality(B) - n
  BY <1>2, FS_Union
<1>4. n = 0 /\ U = S
  BY <1>1, FS_EmptySet
<1> HIDE DEF n, U
<1>5. Cardinality(S) = Cardinality(A) + Cardinality(B)
  BY <1>2, <1>3, <1>4
<1> QED
  BY <1>5 DEF A, B

\* Other programs change the files: the calls stay as they are.
LEMMA ChangeGauge ==
  ASSUME GaugeInv, NEW tree, Change(tree), Changed,
         history'.second = history.second,
         ~ history.second =>
            /\ pc = "counting" =>
                  \A c \in Nat : CountedRight(c, Pending(frames), Missing(frames))
                                 => (CountedRight(c, Pending(frames), Missing(frames)))'
            /\ pc = "working" => WorkOK'
  PROVE  FramesOK' /\ CountingOK' /\ WorkOK'
<1>1. UNCHANGED <<store, env, pc, kind, counted, done, range, frames, todo>>
  BY DEF Change, panel, gauge, walk
<1>2. (\A x : Excluded(x)' = Excluded(x)) /\ (\A x : Readable(x) => Readable(x)')
  BY <1>1 DEF Excluded, Readable, Changed
<1>3. Stack(frames) => (Stack(frames))'
  <2> SUFFICES ASSUME Stack(frames), NEW i \in 1 .. Len(frames)
               PROVE  (Fits(frames[i], Outer(frames, i)))'
    BY <1>1 DEF Stack
  <2>1. Fits(frames[i], Outer(frames, i))
    BY DEF Stack
  <2> QED
    BY <1>1, <1>2, <2>1 DEF Fits, Outer
<1>4. \A c : (Adds(frames, counted, c))' <=> Adds(frames, counted, c)
  BY <1>1 DEF Adds
<1>5. FramesOK'
  BY <1>1, <1>3 DEF GaugeInv, FramesOK
<1>6. WorkOK'
  BY <1>1 DEF WorkOK
<1>7. CountingOK'
  <2> SUFFICES ASSUME ~ history.second PROVE CountingOK'
    BY DEF CountingOK
  <2>1. pc = "counting" =>
           \E c \in Nat : (Adds(frames, counted, c) /\ CountedRight(c, Pending(frames), Missing(frames)))'
    BY <1>4 DEF GaugeInv, CountingOK
  <2> QED
    BY <1>1, <2>1 DEF GaugeInv, CountingOK
<1> QED
  BY <1>5, <1>6, <1>7

\* A node goes, and what is in it.
LEMMA VanishGauge ==
  ASSUME GaugeInv, NEW n \in Nodes, Vanish(n)
  PROVE  FramesOK' /\ CountingOK' /\ WorkOK'
<1> DEFINE V == VisibleFiles
           W == VisibleFiles'
           P == Pending(frames)
           G == Missing(frames)
           H == (Missing(frames))'
           D == Gone(n)
           L == LeftOf(todo)
<1>1. TypesOK /\ TypesOK'
  BY OthersKeepTypes DEF GaugeInv, TypeInv, Others
<1>2. /\ DOMAIN disk' = DOMAIN disk \ D
      /\ \A a \in DOMAIN disk' : disk'[a] = disk[a]
      /\ IsFiniteSet(D) /\ Cardinality(D) \in Nat
      /\ history' = [history EXCEPT !.gone = @ + Cardinality(D)]
      /\ Change(disk')
  BY <1>1, VanishIs
<1>3. UNCHANGED <<env, pc, counted, done, range, frames, todo>>
  BY <1>2 DEF Change, gauge, walk
<1>4. /\ history'.gone = history.gone + Cardinality(D)
      /\ UNCHANGED <<history.second, history.come>>
      /\ history.gone \in Nat /\ history.come \in Nat
  BY <1>1, <1>2 DEF TypesOK
<1>5. D \subseteq Nodes /\ V \subseteq Nodes /\ W \subseteq Nodes /\ G \subseteq Nodes
  <2>1. V \subseteq Nodes /\ G \subseteq Nodes /\ DOMAIN disk \subseteq Nodes
    BY <1>1, VisibleIs, MissingIs, FileTreeIs DEF TypesOK, WorldOK
  <2>2. W \subseteq DOMAIN disk'
    BY DEF VisibleFiles
  <2> QED
    BY <1>2, <2>1, <2>2 DEF Gone
<1>6. W = V \ D
  <2>1. \A f \in Nodes : f \in W <=> f \in V \ D
    <3> TAKE f \in Nodes
    <3>1. f \in V <=> /\ f \in DOMAIN disk /\ disk[f].kind = "file" /\ ~ Excluded(f)
                      /\ \A a \in Ancestors[f] : ~ Excluded(a) /\ Readable(a)
      BY <1>1, SeenIs
    <3>2. f \in DOMAIN disk' => \A a \in Ancestors[f] : a \in DOMAIN disk'
      <4>1. IsFileTree(disk')
        BY <1>1 DEF TypesOK, WorldOK
      <4> QED
        BY <4>1, PathIsThere
    <3>3. f \notin Ancestors[f]
      BY FileTree
    <3>4. f \in W <=> /\ f \in DOMAIN disk' /\ disk'[f].kind = "file" /\ ~ Excluded(f)'
                      /\ \A a \in Ancestors[f] : ~ Excluded(a)' /\ Readable(a)'
      BY <3>2, <3>3 DEF VisibleFiles, IsFile, Readable
    <3>5. \A a : Excluded(a)' = Excluded(a)
      BY <1>3 DEF Excluded
    <3> QED
      BY <1>2, <3>1, <3>2, <3>4, <3>5 DEF Readable
  <2> QED
    BY <1>5, <2>1
<1>7. H \subseteq G \cup (D \cap P) /\ H \subseteq Nodes
  <2>1. ASSUME NEW m \in H PROVE m \in Nodes /\ (m \in G \/ m \in D \cap P)
    <3>1. PICK f \in Calls(frames) :
             m \in Nodes /\ Contains(f.left, m) /\ m \notin DOMAIN disk' /\ ~ Excluded(m)'
      BY <1>3 DEF Missing, MissingIn, Calls
    <3>2. ~ Excluded(m) /\ m \in PendingIn(f)
      BY <1>3, <3>1 DEF Excluded, PendingIn, LeftOf
    <3> QED
      BY <1>2, <3>1, <3>2 DEF Missing, MissingIn, Pending
  <2> QED
    BY <2>1
<1>8. Changed
  BY <1>2 DEF Changed
<1>9. (Pending(frames))' = P /\ (LeftOf(todo))' = L
  BY <1>3 DEF Pending, PendingIn, Calls, LeftOf
<1> HIDE DEF V, W, P, G, H, D, L
<1>10. /\ \A S \in SUBSET Nodes : Cardinality(S) \in Nat
       /\ \A S, T \in SUBSET Nodes : S \subseteq T => Cardinality(S) <= Cardinality(T)
  BY NodeSets, NodeCounts
<1>11. \A S, T \in SUBSET Nodes : Cardinality(S \cup T) <= Cardinality(S) + Cardinality(T)
  <2> TAKE S, T \in SUBSET Nodes
  <2>1. IsFiniteSet(S) /\ IsFiniteSet(T) /\ S \cap T \in SUBSET Nodes
    BY NodeSets
  <2>2. Cardinality(S \cup T) = Cardinality(S) + Cardinality(T) - Cardinality(S \cap T)
    BY <2>1, FS_Union
  <2> QED
    BY <1>10, <2>1, <2>2
<1>12. ASSUME NEW c \in Nat, CountedRight(c, P, G)
       PROVE  /\ c + Cardinality(H) <= Cardinality(W \ P) + history'.gone
              /\ Cardinality(W \ P) <= c + history'.come
  <2>1. /\ c + Cardinality(G) <= Cardinality(V \ P) + history.gone
        /\ Cardinality(V \ P) <= c + history.come
    BY <1>12 DEF CountedRight, V
  <2>2. Cardinality(W \ P) <= Cardinality(V \ P)
    BY <1>5, <1>6, <1>10
  <2>3. Cardinality(V \ P) <= Cardinality(W \ P) + Cardinality(D \ P)
    <3>1. V \ P \subseteq (W \ P) \cup (D \ P)
      BY <1>6
    <3>2. /\ Cardinality(V \ P) <= Cardinality((W \ P) \cup (D \ P))
          /\ Cardinality((W \ P) \cup (D \ P)) <= Cardinality(W \ P) + Cardinality(D \ P)
      BY <1>5, <1>10, <1>11, <3>1
    <3>3. (V \ P) \in SUBSET Nodes /\ (W \ P) \in SUBSET Nodes /\ (D \ P) \in SUBSET Nodes
          /\ ((W \ P) \cup (D \ P)) \in SUBSET Nodes
      BY <1>5
    <3> QED
      BY <1>10, <3>2, <3>3
  <2>4. Cardinality(H) <= Cardinality(G) + Cardinality(D \cap P)
    <3>1. /\ Cardinality(H) <= Cardinality(G \cup (D \cap P))
          /\ Cardinality(G \cup (D \cap P)) <= Cardinality(G) + Cardinality(D \cap P)
      BY <1>5, <1>7, <1>10, <1>11
    <3>2. H \in SUBSET Nodes /\ G \in SUBSET Nodes /\ (D \cap P) \in SUBSET Nodes
          /\ (G \cup (D \cap P)) \in SUBSET Nodes
      BY <1>5, <1>7
    <3> QED
      BY <1>10, <3>1, <3>2
  <2>5. Cardinality(D) = Cardinality(D \ P) + Cardinality(D \cap P)
    BY <1>5, SplitCounts
  <2>6. /\ Cardinality(D \ P) \in Nat /\ Cardinality(D \cap P) \in Nat /\ Cardinality(G) \in Nat
        /\ Cardinality(H) \in Nat /\ Cardinality(V \ P) \in Nat /\ Cardinality(W \ P) \in Nat
    BY <1>5, <1>7, <1>10
  <2> QED
    BY <1>4, <2>1, <2>2, <2>3, <2>4, <2>5, <2>6
<1>13. ASSUME pc = "working", ~ history.second PROVE WorkOK'
  <2>1. /\ range <= Cardinality(V) + history.gone
        /\ Cardinality(V) <= range + history.come
        /\ done + Cardinality(V \cap L) <= range + history.come
    BY <1>13 DEF GaugeInv, WorkOK, V, L
  <2>2. Cardinality(V) <= Cardinality(W) + Cardinality(D)
    <3>1. /\ Cardinality(V) <= Cardinality(W \cup D)
          /\ Cardinality(W \cup D) <= Cardinality(W) + Cardinality(D)
      BY <1>5, <1>6, <1>10, <1>11
    <3>2. V \in SUBSET Nodes /\ W \in SUBSET Nodes /\ D \in SUBSET Nodes /\ (W \cup D) \in SUBSET Nodes
      BY <1>5
    <3> QED
      BY <1>10, <3>1, <3>2
  <2>3. Cardinality(W) <= Cardinality(V) /\ Cardinality(W \cap L) <= Cardinality(V \cap L)
    BY <1>5, <1>6, <1>10
  <2>4. /\ Cardinality(V) \in Nat /\ Cardinality(W) \in Nat /\ Cardinality(D) \in Nat
        /\ Cardinality(V \cap L) \in Nat /\ Cardinality(W \cap L) \in Nat
        /\ range \in Nat /\ done \in Nat
    BY <1>1, <1>5, <1>10 DEF TypesOK
  <2>5. /\ range <= Cardinality(W) + history'.gone
        /\ Cardinality(W) <= range + history'.come
        /\ done + Cardinality(W \cap L) <= range + history'.come
    BY <1>4, <2>1, <2>2, <2>3, <2>4
  <2> QED
    BY <1>3, <1>9, <2>5 DEF WorkOK, W
<1>14. ASSUME NEW c \in Nat, CountedRight(c, Pending(frames), Missing(frames))
       PROVE  (CountedRight(c, Pending(frames), Missing(frames)))'
  <2>1. CountedRight(c, P, G)
    BY <1>14 DEF P, G
  <2> QED
    BY <1>9, <1>12, <2>1 DEF CountedRight, W, H
<1> QED
  BY <1>2, <1>4, <1>8, <1>13, <1>14, ChangeGauge

\* A file comes, or its contents change.
LEMMA WriteGauge ==
  ASSUME GaugeInv, NEW n \in Nodes, NEW data \in Nat, Write(n, data)
  PROVE  FramesOK' /\ CountingOK' /\ WorkOK'
<1> DEFINE V == VisibleFiles
           W == VisibleFiles'
           P == Pending(frames)
           G == Missing(frames)
           H == (Missing(frames))'
           L == LeftOf(todo)
<1>1. TypesOK /\ TypesOK' /\ IsFileTree(disk)
  BY OthersKeepTypes DEF GaugeInv, TypeInv, Others, TypesOK, WorldOK
<1>2. /\ n # Root /\ (n \in DOMAIN disk => disk[n].kind = "file")
      /\ DOMAIN disk' = DOMAIN disk \cup {n}
      /\ \A a \in DOMAIN disk : a # n => disk'[a] = disk[a]
      /\ disk'[n] = [kind |-> "file", data |-> data, mode |-> "plain", time |-> env.now]
      /\ history' = [history EXCEPT !.come = @ + 1]
      /\ Change(disk') /\ IsFileTree(disk')
  BY <1>1, WriteIs
<1>3. UNCHANGED <<env, pc, counted, done, range, frames, todo>>
  BY <1>2 DEF Change, gauge, walk
<1>4. /\ history'.come = history.come + 1
      /\ UNCHANGED <<history.second, history.gone>>
      /\ history.gone \in Nat /\ history.come \in Nat
  BY <1>1, <1>2 DEF TypesOK
<1>5. V \subseteq Nodes /\ W \subseteq Nodes /\ G \subseteq Nodes
  <2>1. V \subseteq Nodes /\ G \subseteq Nodes /\ DOMAIN disk \subseteq Nodes
    BY <1>1, VisibleIs, MissingIs, FileTreeIs
  <2>2. W \subseteq DOMAIN disk'
    BY DEF VisibleFiles
  <2> QED
    BY <1>2, <2>1, <2>2
<1>6. V \subseteq W /\ W \subseteq V \cup {n}
  <2>1. ASSUME NEW f \in Nodes, f # n PROVE f \in W <=> f \in V
    <3>1. f \in V <=> /\ f \in DOMAIN disk /\ disk[f].kind = "file" /\ ~ Excluded(f)
                      /\ \A a \in Ancestors[f] : ~ Excluded(a) /\ Readable(a)
      BY <1>1, SeenIs
    <3>2. f \in DOMAIN disk' => \A a \in Ancestors[f] : a \in DOMAIN disk' /\ disk'[a].kind = "dir"
      BY <1>2, PathIsThere
    <3>3. f \notin Ancestors[f]
      BY FileTree
    <3>4. f \in W <=> /\ f \in DOMAIN disk' /\ disk'[f].kind = "file" /\ ~ Excluded(f)'
                      /\ \A a \in Ancestors[f] : ~ Excluded(a)' /\ Readable(a)'
      BY <3>2, <3>3 DEF VisibleFiles, IsFile, Readable
    <3>5. \A a : Excluded(a)' = Excluded(a)
      BY <1>3 DEF Excluded
    <3>6. f \in DOMAIN disk => n \notin Ancestors[f]
      BY <1>1, <1>2, PathIsThere
    <3>7. f \in DOMAIN disk' <=> f \in DOMAIN disk
      BY <1>2, <2>1
    <3>8. f \in DOMAIN disk => \A a \in Ancestors[f] : Readable(a)' = Readable(a)
      BY <1>2, <3>6 DEF Readable
    <3> QED
      BY <1>2, <2>1, <3>1, <3>4, <3>5, <3>7, <3>8
  <2>2. n \in V => n \in W
    <3> SUFFICES ASSUME n \in V PROVE n \in W
      OBVIOUS
    <3>1. n \in DOMAIN disk /\ ~ Excluded(n) /\ \A a \in Ancestors[n] : ~ Excluded(a) /\ Readable(a)
      BY <1>1, SeenIs
    <3>2. \A a \in Ancestors[n] : a \in DOMAIN disk /\ a # n
      BY <1>1, <3>1, PathIsThere, FileTree
    <3>3. \A a \in Ancestors[n] : a \in DOMAIN disk' /\ disk'[a].mode # "closed" /\ ~ Excluded(a)'
      BY <1>2, <1>3, <3>1, <3>2 DEF Readable, Excluded
    <3>4. n \in DOMAIN disk' /\ disk'[n].kind = "file" /\ ~ Excluded(n)'
      BY <1>2, <1>3, <3>1 DEF Excluded
    <3> QED
      BY <3>3, <3>4 DEF VisibleFiles, IsFile
  <2> QED
    BY <1>5, <2>1, <2>2
<1>7. H \subseteq G /\ H \subseteq Nodes
  <2>1. ASSUME NEW m \in H PROVE m \in Nodes /\ m \in G
    <3>1. PICK f \in Calls(frames) :
             m \in Nodes /\ Contains(f.left, m) /\ m \notin DOMAIN disk' /\ ~ Excluded(m)'
      BY <1>3 DEF Missing, MissingIn, Calls
    <3>2. ~ Excluded(m) /\ m \notin DOMAIN disk
      BY <1>2, <1>3, <3>1 DEF Excluded
    <3> QED
      BY <3>1, <3>2 DEF Missing, MissingIn
  <2> QED
    BY <2>1
<1>8. Changed
  <2>1. disk'[n].kind = "file" /\ disk'[n].mode = "plain"
    BY <1>2
  <2> QED
    BY <1>2, <2>1 DEF Changed
<1>9. (Pending(frames))' = P /\ (LeftOf(todo))' = L
  BY <1>3 DEF Pending, PendingIn, Calls, LeftOf
<1> HIDE DEF V, W, P, G, H, L
\* Of any nodes, those that are seen get one more at most.
<1>10. ASSUME NEW S \in SUBSET Nodes
       PROVE  /\ Cardinality(V \cap S) <= Cardinality(W \cap S)
              /\ Cardinality(W \cap S) <= Cardinality(V \cap S) + 1
              /\ Cardinality(V \cap S) \in Nat /\ Cardinality(W \cap S) \in Nat
  <2> DEFINE A == V \cap S
             B == W \cap S
  <2>1. A \in SUBSET Nodes /\ B \in SUBSET Nodes /\ A \subseteq B /\ B \subseteq A \cup {n}
        /\ A \cup {n} \in SUBSET Nodes
    BY <1>5, <1>6
  <2> HIDE DEF A, B
  <2>2. Cardinality(A) \in Nat /\ Cardinality(B) \in Nat /\ Cardinality(A \cup {n}) \in Nat
        /\ IsFiniteSet(A)
    BY <2>1, NodeSets
  <2>3. Cardinality(A) <= Cardinality(B) /\ Cardinality(B) <= Cardinality(A \cup {n})
    BY <2>1, NodeCounts
  <2>4. Cardinality(A \cup {n}) <= Cardinality(A) + 1
    <3>1. Cardinality(A \cup {n}) = IF n \in A THEN Cardinality(A) ELSE Cardinality(A) + 1
      BY <2>2, FS_AddElement
    <3> QED
      BY <2>2, <3>1
  <2>5. /\ Cardinality(A) <= Cardinality(B) /\ Cardinality(B) <= Cardinality(A) + 1
        /\ Cardinality(A) \in Nat /\ Cardinality(B) \in Nat
    BY <2>2, <2>3, <2>4
  <2> QED
    BY <2>5 DEF A, B
<1>11. ASSUME NEW c \in Nat, CountedRight(c, P, G)
       PROVE  /\ c + Cardinality(H) <= Cardinality(W \ P) + history'.gone
              /\ Cardinality(W \ P) <= c + history'.come
  <2>1. /\ c + Cardinality(G) <= Cardinality(V \ P) + history.gone
        /\ Cardinality(V \ P) <= c + history.come
    BY <1>11 DEF CountedRight, V
  <2>2. V \ P = V \cap (Nodes \ P) /\ W \ P = W \cap (Nodes \ P) /\ Nodes \ P \in SUBSET Nodes
    BY <1>5
  <2>3. /\ Cardinality(V \ P) <= Cardinality(W \ P)
        /\ Cardinality(W \ P) <= Cardinality(V \ P) + 1
        /\ Cardinality(V \ P) \in Nat /\ Cardinality(W \ P) \in Nat
    BY <1>10, <2>2
  <2>4. Cardinality(H) <= Cardinality(G) /\ Cardinality(H) \in Nat /\ Cardinality(G) \in Nat
    BY <1>5, <1>7, NodeCounts, NodeSets
  <2> QED
    BY <1>4, <2>1, <2>3, <2>4
<1>12. ASSUME pc = "working", ~ history.second PROVE WorkOK'
  <2>1. /\ range <= Cardinality(V) + history.gone
        /\ Cardinality(V) <= range + history.come
        /\ done + Cardinality(V \cap L) <= range + history.come
    BY <1>12 DEF GaugeInv, WorkOK, V, L
  <2>2. V \cap Nodes = V /\ W \cap Nodes = W /\ L \in SUBSET Nodes
    BY <1>5 DEF L, LeftOf
  <2>3. /\ Cardinality(V) <= Cardinality(W) /\ Cardinality(W) <= Cardinality(V) + 1
        /\ Cardinality(V) \in Nat /\ Cardinality(W) \in Nat
    BY <1>10, <2>2
  <2>4. /\ Cardinality(W \cap L) <= Cardinality(V \cap L) + 1
        /\ Cardinality(V \cap L) \in Nat /\ Cardinality(W \cap L) \in Nat
    BY <1>10, <2>2
  <2>5. range \in Nat /\ done \in Nat
    BY <1>1 DEF TypesOK
  <2>6. /\ range <= Cardinality(W) + history'.gone
        /\ Cardinality(W) <= range + history'.come
        /\ done + Cardinality(W \cap L) <= range + history'.come
    BY <1>4, <2>1, <2>3, <2>4, <2>5
  <2> QED
    BY <1>3, <1>9, <2>6 DEF WorkOK, W
<1>13. ASSUME NEW c \in Nat, CountedRight(c, Pending(frames), Missing(frames))
       PROVE  (CountedRight(c, Pending(frames), Missing(frames)))'
  <2>1. CountedRight(c, P, G)
    BY <1>13 DEF P, G
  <2> QED
    BY <1>9, <1>11, <2>1 DEF CountedRight, W, H
<1> QED
  BY <1>2, <1>4, <1>8, <1>12, <1>13, ChangeGauge

\* A visit is at most one file more that is done, and it was still to come.
LEMMA VisitGauge ==
  ASSUME GaugeInv, NEW S, NEW seq, Visits(S, seq),
         UNCHANGED <<range, history.second, history.gone, history.come>>,
         done' = done \/ (done' = done + 1 /\ node \in VisibleFiles)
  PROVE  FramesOK' /\ CountingOK' /\ WorkOK'
<1> DEFINE V == VisibleFiles
           L == LeftOf(todo)
           M == LeftOf(todo')
<1>1. /\ pc = "working" /\ todo # <<>> /\ todo' = seq \o Tail(todo) /\ Lists(seq, S)
      /\ \A x \in S : x \in Nodes \ {Root} /\ Parent[x] = node
      /\ UNCHANGED <<disk, env, pc, kind>>
  BY DEF Visits
<1>2. TypesOK /\ TodoOK /\ done \in Nat /\ range \in Nat /\ history.come \in Nat
  BY DEF GaugeInv, TypeInv, TypesOK
<1>3. node \in Nodes /\ Contains(todo, node) /\ Apart(todo) /\ todo \in Seq(Nodes)
  BY <1>1, <1>2, NodeIs
<1>4. M \subseteq L \ {node}
  BY <1>1, <1>3, VisitedLeaves DEF node
<1>5. node \in L /\ L \subseteq Nodes /\ V \subseteq Nodes
  BY <1>2, <1>3, VisibleIs DEF LeftOf
<1>6. V' = V /\ (LeftOf(todo))' = M
  BY <1>1, SameSeen
<1> HIDE DEF V, L, M
<1>7. FramesOK' /\ CountingOK'
  BY <1>1 DEF FramesOK, CountingOK
<1>8. WorkOK'
  <2> SUFFICES ASSUME ~ history.second PROVE WorkOK'
    BY DEF WorkOK
  <2>1. /\ range <= Cardinality(V) + history.gone
        /\ Cardinality(V) <= range + history.come
        /\ done + Cardinality(V \cap L) <= range + history.come
    BY <1>1 DEF GaugeInv, WorkOK, V, L
  <2>2. (V \cap M) \in SUBSET Nodes /\ (V \cap L) \in SUBSET Nodes /\ V \cap M \subseteq V \cap L
    BY <1>4, <1>5
  <2>3. /\ Cardinality(V \cap M) <= Cardinality(V \cap L)
        /\ Cardinality(V \cap M) \in Nat /\ Cardinality(V \cap L) \in Nat
    BY <2>2, NodeCounts, NodeSets
  <2>4. done' + Cardinality(V \cap M) <= range + history.come
    <3>1. CASE done' = done
      BY <1>2, <2>1, <2>3, <3>1
    <3>2. CASE done' = done + 1 /\ node \in V
      <4> DEFINE X == V \cap L
                 Y == X \ {node}
      <4>1. node \in X /\ X \in SUBSET Nodes /\ Y \in SUBSET Nodes /\ V \cap M \subseteq Y
        BY <1>4, <1>5, <3>2
      <4>2. Cardinality(Y) = Cardinality(X) - 1
        <5> HIDE DEF X
        <5> QED
          BY <1>3, <4>1, NodeCounts
      <4> HIDE DEF Y
      <4>3. Cardinality(V \cap M) <= Cardinality(Y)
        BY <2>2, <4>1, NodeCounts
      <4> QED
        BY <1>2, <2>1, <2>3, <3>2, <4>2, <4>3
    <3> QED
      BY <3>1, <3>2 DEF V
  <2> QED
    BY <1>1, <1>6, <2>1, <2>4 DEF WorkOK, V
<1> QED
  BY <1>7, <1>8

\* A backup makes a file done that the rules leave.
LEMMA FileGauge ==
  ASSUME GaugeInv, SyncFile
  PROVE  FramesOK' /\ CountingOK' /\ WorkOK'
<1>1. /\ pc = "working" /\ kind = "backup" /\ todo # <<>> /\ todo' = Tail(todo)
      /\ node \in DOMAIN disk /\ IsFile(disk, node)
      /\ UNCHANGED <<disk, env, pc, kind, range, history>>
      /\ done' \in {done, done + 1}
  BY DEF SyncFile, SyncFileFails, SyncFileSucceeds, Working
<1>2. TypesOK /\ TodoOK
  BY DEF GaugeInv, TypeInv
<1>3. Visits({}, <<>>)
  BY <1>1, <1>2, NoneVisited
<1>4. node \in VisibleFiles
  <2>1. /\ node \in Nodes /\ ~ Excluded(node)
        /\ \A a \in Ancestors[node] : ~ Excluded(a) /\ Readable(a)
    BY <1>1, <1>2, NodeIs
  <2> QED
    BY <1>1, <1>2, <2>1, SeenIs DEF IsFile
<1> QED
  BY <1>1, <1>3, <1>4, VisitGauge

\* A compare makes a file done that is on both sides and is not excluded.
LEMMA CompareGauge ==
  ASSUME GaugeInv, CompareNode
  PROVE  FramesOK' /\ CountingOK' /\ WorkOK'
<1> DEFINE hidden == Hidden[env.rules]
<1>1. /\ pc = "working" /\ todo # <<>>
      /\ UNCHANGED <<disk, env, pc, kind, range, history>>
      /\ \/ done' = done
         \/ /\ done' = done + 1 /\ node \in DOMAIN disk \cap DOMAIN store /\ IsFile(disk, node)
            /\ Told(node, hidden) \subseteq {"contents", "attributes"}
  BY DEF CompareNode, Working, world
<1>2. TypesOK /\ TodoOK
  BY DEF GaugeInv, TypeInv
<1>3. PICK seq : Visits(Compared, seq)
  BY <1>2, CompareVisits
<1>4. CASE done' = done
  <2>1. /\ UNCHANGED <<range, history.second, history.gone, history.come>>
        /\ done' = done \/ (done' = done + 1 /\ node \in VisibleFiles)
    BY <1>1, <1>4
  <2> QED
    BY <1>3, <2>1, VisitGauge
<1>5. CASE /\ done' = done + 1 /\ node \in DOMAIN disk \cap DOMAIN store /\ IsFile(disk, node)
           /\ Told(node, hidden) \subseteq {"contents", "attributes"}
  <2>1. ~ Excluded(node)
    <3> SUFFICES ASSUME Excluded(node) PROVE FALSE
      OBVIOUS
    <3>1. Verdict(node, hidden) = {"not deleted"}
      BY <1>5 DEF Verdict, Excluded
    <3>2. "not deleted" \in Told(node, hidden)
      BY <3>1 DEF Told
    <3> QED
      BY <1>5, <3>2
  <2>2. node \in Nodes /\ \A a \in Ancestors[node] : ~ Excluded(a) /\ Readable(a)
    BY <1>1, <1>2, NodeIs
  <2>3. node \in VisibleFiles
    BY <1>2, <1>5, <2>1, <2>2, SeenIs DEF IsFile
  <2> QED
    BY <1>1, <1>3, <1>5, <2>3, VisitGauge
<1> QED
  BY <1>1, <1>4, <1>5

\* The rest of the work makes no file done.
LEMMA WorkGauge ==
  ASSUME GaugeInv,
         SyncGone \/ SyncStopped \/ SyncDirectory \/ SyncFile \/ CompareNode \/ Finish
  PROVE  FramesOK' /\ CountingOK' /\ WorkOK'
<1>1. TypesOK /\ TodoOK
  BY DEF GaugeInv, TypeInv
<1>2. CASE SyncGone
  <2>1. /\ pc = "working" /\ todo # <<>> /\ todo' = Tail(todo)
        /\ UNCHANGED <<disk, env, pc, kind, range, done, history>>
    BY <1>2 DEF SyncGone, Working, world, gauge
  <2>2. Visits({}, <<>>)
    BY <1>1, <2>1, NoneVisited
  <2>3. /\ UNCHANGED <<range, history.second, history.gone, history.come>>
        /\ done' = done \/ (done' = done + 1 /\ node \in VisibleFiles)
    BY <2>1
  <2> QED
    BY <2>2, <2>3, VisitGauge
<1>3. CASE SyncDirectory
  <2>1. UNCHANGED <<range, done>>
    BY <1>3 DEF SyncDirectory, gauge
  <2>2. UNCHANGED <<history.second, history.gone, history.come>>
    <3>1. history' = [history EXCEPT !.opened = @ \cup {node}]
      BY <1>3 DEF SyncDirectory
    <3> QED
      BY <1>1, <3>1 DEF TypesOK
  <2>3. PICK S, seq : Visits(S, seq)
    BY <1>1, <1>3, DirectoryVisits
  <2>4. /\ UNCHANGED <<range, history.second, history.gone, history.come>>
        /\ done' = done \/ (done' = done + 1 /\ node \in VisibleFiles)
    BY <2>1, <2>2
  <2> QED
    BY <2>3, <2>4, VisitGauge
<1>4. CASE SyncStopped \/ Finish
  <2>1. pc' = "idle"
    BY <1>4 DEF SyncStopped, Finish, Fail, Over
  <2> QED
    BY <2>1, GaugeRests
<1> QED
  BY <1>2, <1>3, <1>4, FileGauge, CompareGauge

\* What comes from outside of a run does not disturb the counting.
LEMMA OutsideGauge ==
  ASSUME GaugeInv, Fault \/ User \/ Others \/ UNCHANGED vars
  PROVE  FramesOK' /\ CountingOK' /\ WorkOK'
<1>1. TypesOK
  BY DEF GaugeInv, TypeInv
<1>2. CASE Fault
  <2>1. pc' \in {"idle", "ended"}
    BY <1>2 DEF Fault, InitCryptoThrows, DaemonMissed, Broken, Restart, Ends, Fail, Over
  <2> QED
    BY <2>1, GaugeRests
<1>3. ASSUME NEW k \in {"backup", "compare"}, Start(k) PROVE FramesOK' /\ CountingOK' /\ WorkOK'
  <2>1. pc' = "starting" /\ counted' = 0 /\ done' = 0
    BY <1>3 DEF Start, ResetCounters
  <2> QED
    BY <2>1 DEF FramesOK, CountingOK, WorkOK
<1>4. CASE StartRefused
  <2>1. pc' = "idle"
    BY <1>4 DEF StartRefused
  <2> QED
    BY <2>1, GaugeRests
<1>5. CASE StopOrClose
  <2>1. history' = history \/ history' = [history EXCEPT !.asked = TRUE]
    BY <1>5 DEF StopOrClose
  <2>2. UNCHANGED <<history.second, history.gone, history.come>>
    BY <1>1, <2>1 DEF TypesOK
  <2>3. UNCHANGED <<disk, env, pc, counted, done, range, frames, todo>>
    BY <1>5 DEF StopOrClose, world, gauge, walk
  <2> QED
    BY <2>2, <2>3, GaugeStays
<1>6. CASE SecondRun
  <2>1. history' = [history EXCEPT !.second = TRUE] /\ UNCHANGED <<disk, env, pc, frames, todo>>
    BY <1>6 DEF SecondRun, walk
  <2>2. history'.second
    BY <1>1, <2>1 DEF TypesOK
  <2>3. FramesOK'
    BY <2>1, SameSeen DEF GaugeInv, FramesOK
  <2> QED
    BY <2>2, <2>3 DEF CountingOK, WorkOK
<1>7. CASE UNCHANGED vars
  <2>1. UNCHANGED <<disk, env, pc, counted, done, range, frames, todo, history>>
    BY <1>7 DEF vars, world, gauge, walk
  <2> QED
    BY <2>1, GaugeStays
<1>8. CASE Others
  BY <1>8, VanishGauge, WriteGauge DEF Others
<1> QED
  BY <1>2, <1>3, <1>4, <1>5, <1>6, <1>7, <1>8 DEF User

\* Every step keeps the gauge right.
LEMMA NextKeepsGauge == GaugeInv /\ [Next]_vars => GaugeInv'
<1> SUFFICES ASSUME GaugeInv, [Next]_vars PROVE GaugeInv'
  OBVIOUS
<1>1. TypeInv'
  BY NextKeepsTypes DEF GaugeInv
<1>2. CASE Step
  <2>1. FramesOK' /\ CountingOK' /\ WorkOK'
    <3>1. CASE Connect \/ CountOpen \/ CountEntry \/ CountClose \/ CountingEnds
      BY <3>1, ConnectGauge, OpenGauge, EntryGauge, CloseGauge, EndGauge
    <3>2. CASE CountStopped
      <4>1. pc' = "idle"
        BY <3>2 DEF CountStopped, Fail, Over
      <4> QED
        BY <4>1, GaugeRests
    <3>3. CASE SyncGone \/ SyncStopped \/ SyncDirectory \/ SyncFile \/ CompareNode \/ Finish
      BY <3>3, WorkGauge
    <3> QED
      BY <1>2, <3>1, <3>2, <3>3 DEF Step
  <2> QED
    BY <1>1, <2>1 DEF GaugeInv
<1>3. CASE Fault \/ User \/ Others \/ UNCHANGED vars
  BY <1>1, <1>3, OutsideGauge DEF GaugeInv
<1> QED
  BY <1>2, <1>3 DEF Next

\* GaugeIsRight: when the work begins the gauge is set to the files that the rules
\* leave, and no more get done.
THEOREM GaugeCorrect == Spec => []GaugeIsRight
<1>1. WorldOK /\ Idle => GaugeInv
  <2> SUFFICES ASSUME WorldOK, Idle PROVE GaugeInv
    OBVIOUS
  <2>1. pc = "idle"
    BY DEF Idle
  <2> QED
    BY <2>1, InitTypes DEF GaugeInv, FramesOK, CountingOK, WorkOK
<1>2. GaugeInv => GaugeIsRight
  <2> SUFFICES ASSUME GaugeInv, pc = "working", ~ history.second PROVE GaugeIsRight
    BY DEF GaugeIsRight
  <2>1. /\ range <= Cardinality(VisibleFiles) + history.gone
        /\ Cardinality(VisibleFiles) <= range + history.come
        /\ done + Cardinality(VisibleFiles \cap LeftOf(todo)) <= range + history.come
    BY DEF GaugeInv, WorkOK
  <2>2. done \in Nat /\ range \in Nat /\ history.come \in Nat
    BY DEF GaugeInv, TypeInv, TypesOK
  <2>3. Cardinality(VisibleFiles \cap LeftOf(todo)) \in Nat
    <3>1. VisibleFiles \cap LeftOf(todo) \in SUBSET Nodes
      BY DEF LeftOf
    <3> QED
      BY <3>1, NodeSets
  <2>4. done <= range + history.come
    BY <2>1, <2>2, <2>3
  <2> QED
    BY <2>1, <2>4 DEF GaugeIsRight
<1> QED
  BY <1>1, <1>2, NextKeepsGauge, PTL DEF Spec

-----------------------------------------------------------------------------
(* What a run leaves or finds on the store.                                *)

\* A node is on the store as the rules leave it.
Settled(n) ==
    /\ n \in DOMAIN store <=> n \in DOMAIN Synced
    /\ n \in DOMAIN store =>
          IF kind = "backup" \/ IsFile(store, n) THEN store[n] = Synced[n]
          ELSE store[n].kind = Synced[n].kind /\ store[n].mode = Synced[n].mode

\* Nothing has come between, and nothing was told.
Undisturbed ==
    /\ pc = "working" /\ ~ history.second
    /\ errors = <<>> /\ ~ daemon.exceeded
    /\ history.gone + history.come = 0 /\ env.minAge = 0

\* Then all is settled that the library does not come to anymore.
SyncOK == Undisturbed => \A n \in Nodes \ LeftOf(todo) : Settled(n)

\* What a backup leaves on the store.
LEMMA SyncedIs ==
  ASSUME TypesOK, NEW n \in Nodes
  PROVE  /\ n \in DOMAIN Synced <=>
               /\ n \in DOMAIN disk /\ ~ Excluded(n) /\ Readable(n)
               /\ \A a \in Ancestors[n] : ~ Excluded(a) /\ Readable(a)
         /\ n \in DOMAIN Synced => Synced[n] = disk[n]
<1>1. IsFileTree(disk)
  BY DEF TypesOK, WorldOK
<1>2. n \in DOMAIN disk => \A a \in Ancestors[n] : a \in DOMAIN disk
  BY <1>1, PathIsThere
<1>3. /\ n \in DOMAIN Synced => Synced[n] = disk[n]
      /\ n \in DOMAIN Synced <=>
            n \in DOMAIN disk /\ \A a \in {n} \cup Ancestors[n] :
                                    ~ Excluded(a) /\ disk[a].mode # "closed"
  BY <1>1, SyncedTree
<1> QED
  BY <1>2, <1>3 DEF Readable

\* What is below something that is not there, or is a file, is not there.
LEMMA NotThere ==
  ASSUME TypesOK, NEW n \in Nodes, NEW c \in Nodes, c = n \/ c \in Ancestors[n]
  PROVE  /\ c \notin DOMAIN disk \/ Excluded(c) => n \notin DOMAIN Synced
         /\ c \notin DOMAIN store => n \notin DOMAIN store
         /\ c # n /\ c \in DOMAIN disk /\ disk[c].kind # "dir" => n \notin DOMAIN Synced
         /\ c # n /\ c \in DOMAIN store /\ store[c].kind # "dir" => n \notin DOMAIN store
<1>1. IsFileTree(disk) /\ IsFileTree(store)
  BY DEF TypesOK, WorldOK
<1>2. n \in DOMAIN disk => \A a \in Ancestors[n] : a \in DOMAIN disk /\ disk[a].kind = "dir"
  BY <1>1, PathIsThere
<1>3. n \in DOMAIN store => \A a \in Ancestors[n] : a \in DOMAIN store /\ store[a].kind = "dir"
  BY <1>1, PathIsThere
<1>4. n \in DOMAIN Synced => n \in DOMAIN disk /\ ~ Excluded(n) /\ \A a \in Ancestors[n] : ~ Excluded(a)
  BY SyncedIs
<1> QED
  BY <1>2, <1>3, <1>4

\* A visit settles the node and what is in none of its children that come in its
\* place.
LEMMA VisitSettles ==
  ASSUME TypesOK, TodoOK, SyncOK, Undisturbed, NEW S, NEW seq, Visits(S, seq),
         \A m \in Nodes : m # node /\ m \notin Below[node] =>
            /\ m \in DOMAIN store' <=> m \in DOMAIN store
            /\ m \in DOMAIN store => store'[m] = store[m],
         \A n \in {node} : Settled(n)',
         \A c \in (Nodes \ {Root}) \ S, n \in Nodes :
            Parent[c] = node /\ (c = n \/ c \in Ancestors[n]) =>
            n \notin DOMAIN store' /\ n \notin DOMAIN Synced
  PROVE  SyncOK'
<1>1. /\ pc = "working" /\ todo # <<>> /\ todo' = seq \o Tail(todo) /\ Lists(seq, S)
      /\ \A x \in S : x \in Nodes \ {Root} /\ Parent[x] = node
      /\ UNCHANGED <<disk, env, pc, kind>>
  BY DEF Visits
<1>2. node \in Nodes /\ Contains(todo, node) /\ Apart(todo) /\ todo \in Seq(Nodes)
  BY <1>1, NodeIs
<1>3. \A n \in LeftOf(todo) \ LeftOf(todo') :
         n = node \/ \E c \in (Nodes \ {Root}) \ S : Parent[c] = node /\ (c = n \/ c \in Ancestors[n])
  BY <1>1, <1>2, VisitedLeaves DEF node
<1>4. Synced' = Synced /\ (LeftOf(todo))' = LeftOf(todo')
  BY <1>1, SameSeen DEF Synced, Excluded
<1>5. ASSUME NEW n \in Nodes \ LeftOf(todo') PROVE Settled(n)'
  <2>1. CASE n \notin LeftOf(todo)
    <3>1. Settled(n)
      BY <2>1 DEF SyncOK
    <3>2. n # node /\ n \notin Below[node]
      BY <1>2, <2>1, BelowIsAbove DEF LeftOf
    <3>3. (n \in DOMAIN store' <=> n \in DOMAIN store) /\ (n \in DOMAIN store => store'[n] = store[n])
      BY <3>2
    <3> QED
      BY <1>1, <1>4, <3>1, <3>3 DEF Settled, IsFile
  <2>2. CASE n = node
    BY <2>2
  <2>3. ASSUME NEW c \in (Nodes \ {Root}) \ S, Parent[c] = node, c = n \/ c \in Ancestors[n]
        PROVE  Settled(n)'
    <3>1. n \notin DOMAIN store' /\ n \notin DOMAIN Synced
      BY <2>3
    <3> QED
      BY <1>4, <3>1 DEF Settled
  <2> QED
    BY <1>3, <2>1, <2>2, <2>3
<1> QED
  BY <1>4, <1>5 DEF SyncOK

\* What was told stays told.
LEMMA SomethingTold ==
  ASSUME NEW s \in Seq(Message), NEW m
  PROVE  /\ Append(s, m) # <<>>
         /\ \A x : Append(s, m) = <<x>> => s = <<>> /\ m = x
<1> DEFINE W == Message \cup {m}
<1>1. s \in Seq(W) /\ m \in W
  OBVIOUS
<1> HIDE DEF W
<1>2. /\ Len(Append(s, m)) = Len(s) + 1 /\ Len(s) \in Nat
      /\ Append(s, m)[Len(s) + 1] = m
  BY <1>1
<1>3. Len(<<>>) = 0 /\ \A x : Len(<<x>>) = 1 /\ <<x>>[1] = x
  OBVIOUS
<1>4. Len(s) = 0 => s = <<>>
  OBVIOUS
<1>5. ASSUME NEW x, Append(s, m) = <<x>> PROVE s = <<>> /\ m = x
  BY <1>2, <1>3, <1>4, <1>5
<1> QED
  BY <1>2, <1>3, <1>5

\* A directory is synchronised.
LEMMA DirectorySettles ==
  ASSUME TypeInv, SyncOK, Undisturbed', SyncDirectory
  PROVE  SyncOK'
<1> DEFINE there == node \in DOMAIN store /\ ~ IsFile(store, node)
           S == {m \in Inside(disk, node) : ~ Excluded(m)}
           kept == Without(store, Obsolete(node))
<1>1. /\ pc = "working" /\ kind = "backup" /\ todo # <<>>
      /\ node \in DOMAIN disk /\ UNCHANGED <<disk, env, pc, kind>>
      /\ daemon' = [daemon EXCEPT !.exceeded = @ \/ (~ there /\ env.full)]
      /\ errors' = IF disk[node].mode = "closed" THEN Append(errors, <<"list failed", node>>) ELSE errors
      /\ history' = [history EXCEPT !.opened = @ \cup {node}]
      /\ store' = IF ~ there /\ env.full THEN store
                  ELSE Put(Without(store, IF disk[node].mode = "closed" THEN {} ELSE Obsolete(node)),
                           node, disk[node])
  BY DEF SyncDirectory, Working
<1>2. TypesOK /\ TodoOK /\ IsFileTree(disk) /\ IsFileTree(store) /\ errors \in Seq(Message)
  BY DEF TypeInv, TypesOK, WorldOK
<1>3. disk[node].mode # "closed" /\ errors = <<>>
  <2>1. \A m : Append(errors, m) # <<>>
    BY <1>2, SomethingTold
  <2> QED
    BY <1>1, <2>1 DEF Undisturbed
<1>4. ~ (~ there /\ env.full) /\ ~ daemon.exceeded
  <2>1. daemon'.exceeded = (daemon.exceeded \/ (~ there /\ env.full))
    BY <1>1, <1>2 DEF TypesOK
  <2> QED
    BY <2>1 DEF Undisturbed
<1>5. Undisturbed
  <2>1. UNCHANGED <<history.second, history.gone, history.come>>
    BY <1>1, <1>2 DEF TypesOK
  <2> QED
    BY <1>1, <1>3, <1>4, <2>1 DEF Undisturbed
<1>6. store' = Put(kept, node, disk[node])
  BY <1>1, <1>3, <1>4
<1>7. /\ DOMAIN store' = (DOMAIN store \ Obsolete(node)) \cup {node}
      /\ store'[node] = disk[node]
      /\ \A m \in DOMAIN store \ Obsolete(node) : m # node => store'[m] = store[m]
  BY <1>6 DEF Put, Without
<1>8. PICK seq : Visits(S, seq)
  BY <1>2, <1>3, <1>4, DirectoryVisits
<1>9. /\ node \in Nodes /\ ~ Excluded(node)
      /\ \A a \in Ancestors[node] : ~ Excluded(a) /\ Readable(a)
  BY <1>1, <1>2, NodeIs
<1>10. ASSUME NEW m \in Nodes, m # node, m \notin Below[node]
       PROVE  /\ m \in DOMAIN store' <=> m \in DOMAIN store
              /\ m \in DOMAIN store => store'[m] = store[m]
  <2>1. m \notin Obsolete(node)
    BY <1>10 DEF Obsolete
  <2> QED
    BY <1>7, <1>10, <2>1
<1>11. ASSUME NEW n \in {node} PROVE Settled(n)'
  <2>1. node \in DOMAIN Synced /\ Synced[node] = disk[node]
    BY <1>1, <1>2, <1>3, <1>9, SyncedIs DEF Readable
  <2>2. Synced' = Synced
    BY <1>1 DEF Synced, Excluded
  <2> QED
    BY <1>1, <1>7, <2>1, <2>2 DEF Settled
<1>12. ASSUME NEW c \in (Nodes \ {Root}) \ S, NEW n \in Nodes, Parent[c] = node,
              c = n \/ c \in Ancestors[n]
       PROVE  n \notin DOMAIN store' /\ n \notin DOMAIN Synced
  <2>1. c \notin DOMAIN disk \/ Excluded(c)
    BY <1>12 DEF Inside
  <2>2. n \notin DOMAIN Synced
    BY <1>2, <1>12, <2>1, NotThere
  <2>3. n \in DOMAIN store => n \in Obsolete(node)
    BY <1>2, <1>9, <1>12, <2>1, ObsoleteIs
  <2>4. n # node
    BY <1>9, <1>12, FileTree
  <2> QED
    BY <1>7, <2>2, <2>3, <2>4
<1> QED
  BY <1>2, <1>5, <1>8, <1>10, <1>11, <1>12, VisitSettles

\* A file is synchronised.
LEMMA FileSettles ==
  ASSUME TypeInv, SyncOK, Undisturbed', SyncFile
  PROVE  SyncOK'
<1> DEFINE upload == Old(node) /\ ~ (node \in DOMAIN store /\ store[node] = disk[node])
           kept == Without(store, Below[node])
<1>1. /\ pc = "working" /\ kind = "backup" /\ todo # <<>> /\ todo' = Tail(todo)
      /\ node \in DOMAIN disk /\ disk[node].kind = "file"
      /\ UNCHANGED <<disk, env, pc, kind, history>>
      /\ IF disk[node].mode = "closed" \/ (upload /\ env.full) THEN SyncFileFails
         ELSE SyncFileSucceeds(upload)
  BY DEF SyncFile, Working, IsFile
<1>2. TypesOK /\ TodoOK /\ IsFileTree(disk) /\ IsFileTree(store) /\ errors \in Seq(Message)
  BY DEF TypeInv, TypesOK, WorldOK
<1>3. \A m : Append(errors, m) # <<>>
  BY <1>2, SomethingTold
<1>4. /\ disk[node].mode # "closed" /\ errors = <<>> /\ UNCHANGED daemon
      /\ store' = IF upload THEN Put(kept, node, disk[node]) ELSE store
  <2>1. errors' = <<>>
    BY DEF Undisturbed
  <2>2. ~ SyncFileFails
    BY <1>3, <2>1 DEF SyncFileFails
  <2>3. disk[node].mode # "closed" /\ SyncFileSucceeds(upload)
    BY <1>1, <2>2
  <2> QED
    BY <1>3, <2>1, <2>3 DEF SyncFileSucceeds
<1>5. Undisturbed
  BY <1>1, <1>4 DEF Undisturbed
<1>6. Old(node)
  <2>1. disk[node].time <= env.now \/ disk[node].time >= Late
    BY <1>1, <1>2 DEF TypesOK, WorldOK
  <2>2. disk[node].time \in Nat /\ env.minAge = 0
    BY <1>1, <1>2, <1>5, FileTreeIs DEF Object, Undisturbed
  <2> QED
    BY <2>1, <2>2 DEF Old
<1>7. Visits({}, <<>>)
  BY <1>1, <1>2, NoneVisited
<1>8. /\ node \in Nodes /\ ~ Excluded(node)
      /\ \A a \in Ancestors[node] : ~ Excluded(a) /\ Readable(a)
  BY <1>1, <1>2, NodeIs
<1>9. /\ node \in DOMAIN store' /\ store'[node] = disk[node]
      /\ \A m \in Nodes : m # node /\ m \notin Below[node] =>
            /\ m \in DOMAIN store' <=> m \in DOMAIN store
            /\ m \in DOMAIN store => store'[m] = store[m]
      /\ \A m \in Below[node] : m # node => m \notin DOMAIN store'
  <2>1. CASE upload
    <3>1. /\ DOMAIN store' = (DOMAIN store \ Below[node]) \cup {node}
          /\ store'[node] = disk[node]
          /\ \A m \in DOMAIN store \ Below[node] : m # node => store'[m] = store[m]
      BY <1>4, <2>1 DEF Put, Without
    <3> QED
      BY <3>1
  <2>2. CASE ~ upload
    <3>1. store' = store /\ node \in DOMAIN store /\ store[node] = disk[node]
      BY <1>4, <1>6, <2>2
    <3>2. \A m \in Below[node] : m # node => m \notin DOMAIN store
      BY <1>1, <1>2, <1>8, <3>1, NotThere, BelowIsAbove
    <3> QED
      BY <3>1, <3>2
  <2> QED
    BY <2>1, <2>2
<1>10. ASSUME NEW n \in {node} PROVE Settled(n)'
  <2>1. node \in DOMAIN Synced /\ Synced[node] = disk[node]
    BY <1>1, <1>2, <1>4, <1>8, SyncedIs DEF Readable
  <2>2. Synced' = Synced
    BY <1>1 DEF Synced, Excluded
  <2> QED
    BY <1>1, <1>9, <2>1, <2>2 DEF Settled
<1>11. ASSUME NEW c \in (Nodes \ {Root}) \ {}, NEW n \in Nodes, Parent[c] = node,
              c = n \/ c \in Ancestors[n]
       PROVE  n \notin DOMAIN store' /\ n \notin DOMAIN Synced
  <2>1. node \in Ancestors[n] /\ node # n
    BY <1>8, <1>11, FileTree
  <2>2. n \in Below[node]
    BY <1>8, <2>1, BelowIsAbove
  <2>3. n \notin DOMAIN Synced
    BY <1>1, <1>2, <1>8, <2>1, NotThere
  <2> QED
    BY <1>9, <2>1, <2>2, <2>3
<1> QED
  BY <1>2, <1>5, <1>7, <1>9, <1>10, <1>11, VisitSettles

\* A node is compared, and there is nothing to tell.
LEMMA CompareSettles ==
  ASSUME TypeInv, SyncOK, Undisturbed', CompareNode
  PROVE  SyncOK'
<1> DEFINE hidden == Hidden[env.rules]
           none == node \notin DOMAIN disk \cup DOMAIN store
<1>1. /\ pc = "working" /\ kind = "compare" /\ todo # <<>>
      /\ UNCHANGED <<disk, store, env, pc, kind, daemon, history>>
      /\ IF node \in DOMAIN disk \cup DOMAIN store
         THEN errors' = errors \o [i \in 1 .. Cardinality(Told(node, hidden)) |->
                                      <<Listed(Told(node, hidden))[i], node>>]
         ELSE UNCHANGED errors
  BY DEF CompareNode, Working, world
<1>2. TypesOK /\ TodoOK /\ IsFileTree(disk) /\ IsFileTree(store) /\ errors \in Seq(Message)
  BY DEF TypeInv, TypesOK, WorldOK
<1>3. /\ node \in Nodes /\ \A a \in Ancestors[node] : ~ Excluded(a) /\ Readable(a)
  BY <1>1, <1>2, NodeIs
<1>4. errors = <<>> /\ (none \/ Told(node, hidden) = {})
  <2>1. errors' = <<>>
    BY DEF Undisturbed
  <2> QED
    BY <1>1, <1>2, <1>3, <2>1, ToldErrors
<1>5. Undisturbed
  BY <1>1, <1>4 DEF Undisturbed
<1>6. PICK seq : Visits(Compared, seq)
  BY <1>2, CompareVisits
\* What nothing is told of.
<1>7. \/ none
      \/ node \notin DOMAIN store /\ Excluded(node)
      \/ /\ node \in DOMAIN disk /\ node \in DOMAIN store /\ ~ Excluded(node)
         /\ disk[node].kind = store[node].kind /\ disk[node].mode # "closed"
         /\ disk[node].mode = store[node].mode
         /\ IsFile(disk, node) => /\ disk[node].data = store[node].data
                                  /\ disk[node].time = store[node].time
  <2> SUFFICES ASSUME ~ none PROVE
          \/ node \notin DOMAIN store /\ Excluded(node)
          \/ /\ node \in DOMAIN disk /\ node \in DOMAIN store /\ ~ Excluded(node)
             /\ disk[node].kind = store[node].kind /\ disk[node].mode # "closed"
             /\ disk[node].mode = store[node].mode
             /\ IsFile(disk, node) => /\ disk[node].data = store[node].data
                                      /\ disk[node].time = store[node].time
    OBVIOUS
  <2>1. \A v \in Verdict(node, hidden) : v = "excluded file" \/ v = "excluded dir"
    BY <1>4 DEF Told
  <2>2. CASE node \notin DOMAIN store
    <3>1. "remote missing" \notin Verdict(node, hidden)
      BY <2>1
    <3> QED
      BY <2>2, <3>1 DEF Verdict, Excluded
  <2>3. CASE node \in DOMAIN store
    <3>1. /\ "local missing" \notin Verdict(node, hidden) /\ "not deleted" \notin Verdict(node, hidden)
          /\ "unchecked" \notin Verdict(node, hidden) /\ "contents" \notin Verdict(node, hidden)
          /\ "attributes" \notin Verdict(node, hidden)
      BY <2>1
    <3>2. node \in DOMAIN disk
      BY <2>3, <3>1 DEF Verdict
    <3>3. ~ Excluded(node)
      BY <2>3, <3>1, <3>2 DEF Verdict, Excluded
    <3>4. disk[node].kind = store[node].kind
      BY <2>3, <3>1, <3>2, <3>3 DEF Verdict, Excluded
    <3>5. Verdict(node, hidden) =
            (IF disk[node].mode = "closed" THEN {"unchecked"}
             ELSE IF IsFile(disk, node) /\ disk[node].data # store[node].data THEN {"contents"} ELSE {})
            \cup IF \/ disk[node].mode # store[node].mode
                    \/ IsFile(disk, node) /\ disk[node].time # store[node].time
                 THEN {"attributes"} ELSE {}
      BY <2>3, <3>2, <3>3, <3>4 DEF Verdict, Excluded
    <3>6. disk[node].mode # "closed"
      BY <3>1, <3>5
    <3>7. IsFile(disk, node) => disk[node].data = store[node].data
      BY <3>1, <3>5, <3>6
    <3>8. disk[node].mode = store[node].mode /\ (IsFile(disk, node) => disk[node].time = store[node].time)
      BY <3>1, <3>5
    <3> QED
      BY <2>3, <3>2, <3>3, <3>4, <3>6, <3>7, <3>8
  <2> QED
    BY <2>2, <2>3
<1>8. ASSUME NEW n \in {node} PROVE Settled(n)'
  <2>1. Synced' = Synced
    BY <1>1 DEF Synced, Excluded
  <2>2. Settled(node)
    <3>1. CASE none
      BY <1>2, <1>3, <3>1, SyncedIs DEF Settled
    <3>2. CASE node \notin DOMAIN store /\ Excluded(node)
      BY <1>2, <1>3, <3>2, SyncedIs DEF Settled
    <3>3. CASE /\ node \in DOMAIN disk /\ node \in DOMAIN store /\ ~ Excluded(node)
               /\ disk[node].kind = store[node].kind /\ disk[node].mode # "closed"
               /\ disk[node].mode = store[node].mode
               /\ IsFile(disk, node) => /\ disk[node].data = store[node].data
                                        /\ disk[node].time = store[node].time
      <4>1. node \in DOMAIN Synced /\ Synced[node] = disk[node]
        BY <1>2, <1>3, <3>3, SyncedIs DEF Readable
      <4>2. disk[node] \in Object /\ store[node] \in Object
        BY <1>2, <3>3, FileTreeIs
      <4>3. IsFile(store, node) => store[node] = disk[node]
        BY <3>3, <4>2 DEF IsFile, Object
      <4> QED
        BY <3>3, <4>1, <4>3, <1>1 DEF Settled
    <3> QED
      BY <1>7, <3>1, <3>2, <3>3
  <2> QED
    BY <1>1, <2>1, <2>2 DEF Settled, IsFile
<1>9. ASSUME NEW c \in (Nodes \ {Root}) \ Compared, NEW n \in Nodes, Parent[c] = node,
             c = n \/ c \in Ancestors[n]
      PROVE  n \notin DOMAIN store' /\ n \notin DOMAIN Synced
  <2>1. node \in Ancestors[n] /\ node # n
    BY <1>3, <1>9, FileTree
  <2>2. CASE Entered(node, hidden)
    <3>1. c \notin DOMAIN disk /\ c \notin DOMAIN store
      BY <1>9, <2>2 DEF Compared, Inside
    <3> QED
      BY <1>1, <1>2, <1>9, <3>1, NotThere
  <2>3. CASE none
    BY <1>1, <1>2, <1>3, <2>1, <2>3, NotThere
  <2>4. CASE node \notin DOMAIN store /\ Excluded(node)
    BY <1>1, <1>2, <1>3, <2>1, <2>4, NotThere
  <2>5. CASE /\ ~ Entered(node, hidden)
             /\ node \in DOMAIN disk /\ node \in DOMAIN store /\ ~ Excluded(node)
             /\ disk[node].kind = store[node].kind /\ disk[node].mode # "closed"
    <3>1. disk[node].kind = "file" /\ store[node].kind = "file"
      BY <2>5 DEF Entered, Excluded, IsFile
    <3> QED
      BY <1>1, <1>2, <1>3, <2>1, <2>5, <3>1, NotThere
  <2> QED
    BY <1>7, <2>2, <2>3, <2>4, <2>5
<1> QED
  BY <1>1, <1>2, <1>5, <1>6, <1>8, <1>9, VisitSettles

\* A step of the library settles what it visits.
LEMMA WorkSettles ==
  ASSUME TypeInv, SyncOK, Undisturbed', Step
  PROVE  SyncOK'
<1>1. pc' = "working"
  BY DEF Undisturbed
<1>2. CASE Connect \/ CountOpen \/ CountStopped \/ CountEntry \/ CountClose
  <2>1. pc' # "working"
    BY <1>2 DEF Connect, CountOpen, CountStopped, CountEntry, CountClose, Fail, Over
  <2> QED
    BY <1>1, <2>1
<1>3. CASE CountingEnds
  <2>1. todo' = <<Root>>
    BY <1>3 DEF CountingEnds
  <2>2. (LeftOf(todo))' = Nodes
    <3>1. (LeftOf(todo))' = LeftOf(todo')
      BY DEF LeftOf
    <3> QED
      BY <2>1, <3>1, LeftOfEnds
  <2> QED
    BY <2>2 DEF SyncOK
<1>4. CASE SyncStopped \/ Finish
  <2>1. pc' = "idle"
    BY <1>4 DEF SyncStopped, Finish, Fail, Over
  <2> QED
    BY <1>1, <2>1
<1>5. CASE SyncGone
  <2>1. errors' = Append(errors, <<"read failed", node>>) /\ errors \in Seq(Message)
    BY <1>5 DEF SyncGone, TypeInv, TypesOK
  <2>2. errors' # <<>>
    BY <2>1, SomethingTold
  <2> QED
    BY <2>2 DEF Undisturbed
<1> QED
  BY <1>2, <1>3, <1>4, <1>5, DirectorySettles, FileSettles, CompareSettles DEF Step

\* What is settled stays so while nothing happens to it.
LEMMA SyncRests ==
  ASSUME TypeInv, SyncOK, Undisturbed',
         UNCHANGED <<disk, store, env, pc, kind, errors, daemon, todo>>,
         UNCHANGED <<history.second, history.gone, history.come>>
  PROVE  SyncOK'
<1>1. Undisturbed
  BY DEF Undisturbed
<1>2. Synced' = Synced /\ (LeftOf(todo))' = LeftOf(todo)
  BY DEF Synced, Excluded, LeftOf
<1>3. ASSUME NEW n \in Nodes, Settled(n) PROVE Settled(n)'
  BY <1>2, <1>3 DEF Settled, IsFile
<1> QED
  BY <1>1, <1>2, <1>3 DEF SyncOK

\* What is outside of the run keeps or disturbs it.
LEMMA OutsideSettles ==
  ASSUME TypeInv, SyncOK, Undisturbed', Fault \/ User \/ Others \/ UNCHANGED vars
  PROVE  SyncOK'
<1>1. /\ pc' = "working" /\ ~ history'.second /\ history'.gone + history'.come = 0
  BY DEF Undisturbed
<1>2. /\ TypesOK
      /\ history \in [asked : BOOLEAN, second : BOOLEAN, crypto : BOOLEAN,
                      opened : SUBSET Nodes, gone : Nat, come : Nat]
  BY DEF TypeInv, TypesOK
<1>3. ~ Fault
  <2>1. Fault => pc' \in {"idle", "ended"}
    BY DEF Fault, InitCryptoThrows, DaemonMissed, Broken, Restart, Fail, Over, Ends
  <2> QED
    BY <1>1, <2>1
<1>4. ~ Start("backup") /\ ~ Start("compare") /\ ~ StartRefused
  BY <1>1 DEF Start, StartRefused
<1>5. ~ SecondRun
  <2>1. SecondRun => history' = [history EXCEPT !.second = TRUE]
    BY DEF SecondRun
  <2> QED
    BY <1>1, <1>2, <2>1
<1>6. ~ Others
  <2>1. ASSUME NEW n \in Nodes, Vanish(n) PROVE FALSE
    <3>1. /\ history' = [history EXCEPT !.gone = @ + Cardinality(Gone(n))]
          /\ Cardinality(Gone(n)) \in Nat \ {0}
      BY <1>2, <2>1, VanishIs
    <3> QED
      BY <1>1, <1>2, <3>1
  <2>2. ASSUME NEW n \in Nodes, NEW data \in Nat, Write(n, data) PROVE FALSE
    <3>1. history' = [history EXCEPT !.come = @ + 1]
      BY <1>2, <2>2, WriteIs
    <3> QED
      BY <1>1, <1>2, <3>1
  <2> QED
    BY <2>1, <2>2 DEF Others
<1>7. CASE StopOrClose
  <2>1. history' = history \/ history' = [history EXCEPT !.asked = TRUE]
    BY <1>7 DEF StopOrClose
  <2>2. UNCHANGED <<history.second, history.gone, history.come>>
    BY <1>2, <2>1
  <2>3. UNCHANGED <<disk, store, env, pc, kind, errors, daemon, todo>>
    BY <1>7 DEF StopOrClose, world, walk
  <2> QED
    BY <2>2, <2>3, SyncRests
<1>8. CASE UNCHANGED vars
  <2>1. UNCHANGED <<disk, store, env, pc, kind, errors, daemon, todo, history>>
    BY <1>8 DEF vars, world, panel, walk
  <2> QED
    BY <2>1, SyncRests
<1> QED
  BY <1>3, <1>4, <1>5, <1>6, <1>7, <1>8 DEF User

\* Every step keeps what is settled, or disturbs the run.
LEMMA NextKeepsSync == TypeInv /\ SyncOK /\ [Next]_vars => SyncOK'
<1> SUFFICES ASSUME TypeInv, SyncOK, [Next]_vars PROVE SyncOK'
  OBVIOUS
<1>1. CASE Undisturbed'
  BY <1>1, WorkSettles, OutsideSettles DEF Next
<1>2. CASE ~ Undisturbed'
  BY <1>2 DEF SyncOK
<1> QED
  BY <1>1, <1>2

\* When nothing is left to visit everything is settled.
LEMMA AllSettled ==
  ASSUME TypeInv, SyncOK, Undisturbed, todo = <<>>
  PROVE  IF kind = "backup" THEN store = Synced ELSE Alike(store, Synced)
<1>1. IsFileTree(disk) /\ IsFileTree(store)
  BY DEF TypeInv, TypesOK, WorldOK
<1>2. IsFileTree(Synced)
  BY <1>1, SyncedTree
<1>3. \A n \in Nodes : Settled(n)
  BY LeftOfEnds DEF SyncOK
<1>4. DOMAIN store = DOMAIN Synced
  BY <1>1, <1>2, <1>3 DEF Settled, IsFileTree
<1>5. CASE kind = "backup"
  <2>1. \A n \in DOMAIN store : store[n] = Synced[n]
    BY <1>1, <1>3, <1>5 DEF Settled, IsFileTree
  <2>2. store = [n \in DOMAIN store |-> store[n]] /\ Synced = [n \in DOMAIN Synced |-> Synced[n]]
    BY <1>1, <1>2 DEF IsFileTree
  <2> QED
    BY <1>4, <1>5, <2>1, <2>2
<1>6. CASE kind # "backup"
  <2>1. \A n \in DOMAIN store :
           IF IsFile(store, n) THEN store[n] = Synced[n]
           ELSE store[n].kind = Synced[n].kind /\ store[n].mode = Synced[n].mode
    BY <1>1, <1>3, <1>6 DEF Settled, IsFileTree
  <2> QED
    BY <1>4, <1>6, <2>1 DEF Alike
<1> QED
  BY <1>5, <1>6

\* Only a run that has visited everything tells that it has finished, and nothing
\* else, unless a second run has told so.
LEMMA OnlyFinish ==
  ASSUME TypeInv, IndInv, [Next]_vars, ~ history.second,
         pc = "working", pc' # "working", errors' = << <<"Finished">> >>
  PROVE  Finish
<1>1. errors \in Seq(Message)
  BY DEF TypeInv, TypesOK
<1>2. ASSUME NEW why \in {"connection", "unknown error", "interrupted"}
      PROVE  ~ Fail(why)
  <2>1. Fail(why) => errors' = Append(errors, <<why>>)
    BY DEF Fail
  <2>2. <<why>> # <<"Finished">>
    BY <1>2
  <2> QED
    BY <1>1, <2>1, <2>2, SomethingTold
<1>3. ~ Fault
  <2>1. ~ Broken
    BY <1>2 DEF Broken
  <2>2. ~ DaemonMissed
    BY DEF DaemonMissed, IndInv, DaemonStays
  <2>3. ~ InitCryptoThrows /\ ~ Restart
    BY DEF InitCryptoThrows, Restart
  <2> QED
    BY <2>1, <2>2, <2>3 DEF Fault
<1>4. ~ User /\ ~ Others /\ ~ UNCHANGED vars
  BY DEF User, Start, StartRefused, StopOrClose, SecondRun, Others, Vanish, Write, Change, vars
<1>5. ~ SyncStopped
  <2>1. Interrupted \in {"connection", "unknown error", "interrupted"}
    BY DEF Interrupted
  <2> QED
    BY <1>2, <2>1 DEF SyncStopped
<1>6. Step
  BY <1>3, <1>4 DEF Next
<1>7. /\ ~ Connect /\ ~ CountOpen /\ ~ CountStopped /\ ~ CountEntry /\ ~ CountClose
      /\ ~ CountingEnds
  BY DEF Connect, CountOpen, CountStopped, CountEntry, CountClose, CountingEnds
<1>8. ~ SyncGone /\ ~ SyncDirectory /\ ~ SyncFile /\ ~ CompareNode
  BY DEF SyncGone, SyncDirectory, SyncFile, CompareNode
<1> QED
  BY <1>5, <1>6, <1>7, <1>8 DEF Step

\* A run that ends so has settled everything.
LEMMA FinishedStep ==
  ASSUME TypeInv, SyncOK, IndInv, [Next]_vars,
         pc = "working", pc' # "working", errors' = << <<"Finished">> >>,
         ~ history.second, history.gone + history.come = 0, env.minAge = 0
  PROVE  IF kind = "backup" THEN store' = Synced' ELSE Alike(store', Synced')
<1>1. Finish
  BY OnlyFinish
<1>2. /\ todo = <<>> /\ errors' = Append(errors, Outcome) /\ UNCHANGED <<disk, store, env>>
  BY <1>1 DEF Finish, Over
<1>3. errors = <<>> /\ ~ daemon.exceeded
  <2>1. errors \in Seq(Message)
    BY DEF TypeInv, TypesOK
  <2>2. errors = <<>> /\ Outcome = <<"Finished">>
    BY <1>2, <2>1, SomethingTold
  <2> QED
    BY <2>2 DEF Outcome
<1>4. Undisturbed
  BY <1>3 DEF Undisturbed
<1>5. IF kind = "backup" THEN store = Synced ELSE Alike(store, Synced)
  BY <1>2, <1>4, AllSettled
<1>6. Synced' = Synced
  BY <1>2 DEF Synced, Excluded
<1> QED
  BY <1>2, <1>5, <1>6

\* FinishedMeansSame: a run that ends and tells only that it has finished leaves or
\* finds on the store what the rules leave of the files, however many they are.
THEOREM FinishedIsSame == Spec => FinishedMeansSame
<1>1. WorldOK /\ Idle => SyncOK
  BY DEF Idle, SyncOK, Undisturbed
<1>2. Spec => []SyncOK
  BY <1>1, NextKeepsSync, SpecTypeInv, PTL DEF Spec
<1>3. TypeInv /\ SyncOK /\ IndInv /\ [Next]_vars =>
        [/\ pc = "working" /\ pc' # "working" /\ errors' = << <<"Finished">> >>
         /\ ~ history.second /\ history.gone + history.come = 0 /\ env.minAge = 0
         => IF kind = "backup" THEN store' = Synced' ELSE Alike(store', Synced')]_vars
  BY FinishedStep
<1> QED
  BY <1>2, <1>3, SpecTypeInv, SpecIndInv, PTL DEF Spec, FinishedMeansSame
=============================================================================
