------------------------- MODULE ConfigWindowProofs -------------------------
(***************************************************************************)
(* Proofs about ConfigWindow, for any settings, values, locations, files   *)
(* and bounds.  The properties follow from one invariant: the values that  *)
(* count as saved are those of the file, the window closes clean when it   *)
(* closes willingly, and the views lag behind only where a history says.   *)
(* The window implements Document: each of its steps is one of Document.   *)
(***************************************************************************)
EXTENDS ConfigWindow, TLAPS

\* What counts as saved is what the file holds, or a new configuration.
SavedIsOnDisk ==
    ~ halfLoaded =>
        IF config.file = Untitled
        THEN config.was = Default /\ config.orig = <<>>
        ELSE disk[config.file] = [val |-> config.was, locs |-> config.orig]

ClosedIsClean ==
    /\ status = "running" => willing
    /\ status = "closed" /\ willing => IsClean(config)

IndInv == TypeOK /\ SavedIsOnDisk /\ ClosedIsClean /\ TitleHonest /\ DisplayAgrees

-----------------------------------------------------------------------------
\* Removing an element leaves a sequence over the same set.
LEMMA RemoveAtType ==
    ASSUME NEW S, NEW s \in Seq(S), NEW i \in 1 .. Len(s)
    PROVE  RemoveAt(s, i) \in Seq(S)
  BY DEF RemoveAt

\* What Load makes of a loadable file is a configuration.
LEMMA LoadedType ==
    ASSUME NEW k, Loadable(k), NEW f \in Files
    PROVE  /\ k.val \in [Props -> Setting]
           /\ k.locs \in Seq(Locations)
           /\ Loaded(k, f) \in Config
           /\ k = [val |-> k.val, locs |-> k.locs]
  BY DEF Loadable, Content, Loaded, Config

\* A configuration as a file is loadable.
LEMMA ContentType ==
    ASSUME NEW c \in Config
    PROVE  ContentOf(c) \in Content /\ Loadable(ContentOf(c))
  <1>1. c.val \in [Props -> Setting] /\ c.locs \in Seq(Locations)
    BY DEF Config
  <1>2. \A p \in Props : c.val[p] # Malformed
    BY <1>1, ConfigWindowAssumption
  <1>3. c.locs # NoLocations
    BY <1>1, ConfigWindowAssumption
  <1>4. ContentOf(c) \in Content
    BY <1>1, <1>2 DEF Content, ContentOf, Props
  <1>5. QED
    BY <1>2, <1>3, <1>4 DEF ContentOf, Loadable

\* A new configuration is a clean one.
LEMMA BlankType ==
    Blank \in Config /\ IsClean(Blank)
  BY ConfigWindowAssumption DEF Blank, Config, IsClean

-----------------------------------------------------------------------------
LEMMA InitIndInv == Init => IndInv
  <1> SUFFICES ASSUME Init PROVE IndInv
    OBVIOUS
  <1>1. TypeOK
    <2>1. config \in Config /\ shown \in [Props -> Setting \cup {Malformed}]
      BY BlankType, ConfigWindowAssumption DEF Init
    <2>2. title \in [name : Files \cup {Untitled}, star : BOOLEAN]
      BY DEF Init, TitleOf, IsClean, Blank
    <2>3. disk \in [Files -> Content \cup {Unreadable}]
      BY ConfigWindowAssumption DEF Init
    <2>4. ticked \in BOOLEAN /\ listed \in Seq(Locations)
      BY DEF Init, Check
    <2>5. QED
      BY <2>1, <2>2, <2>3, <2>4 DEF Init, TypeOK
  <1>2. SavedIsOnDisk /\ ClosedIsClean
    BY DEF Init, SavedIsOnDisk, ClosedIsClean, Blank
  <1>3. TitleHonest /\ DisplayAgrees
    BY DEF Init, TitleHonest, DisplayAgrees, TitleOf, Blank
  <1>4. QED
    BY <1>1, <1>2, <1>3 DEF IndInv

\* Setting a property keeps all but the control of that setting in step.
LEMMA SetPropertyStep ==
    ASSUME IndInv, Running, NEW p \in Props, NEW v \in Setting,
           SetProperty(p, v), UNCHANGED halfLoaded
    PROVE  /\ config' \in Config
           /\ title' \in [name : Files \cup {Untitled}, star : BOOLEAN]
           /\ listed' \in Seq(Locations)
           /\ ticked' \in BOOLEAN /\ unheard' \in BOOLEAN
           /\ config' = [config EXCEPT !.val[p] = v]
           /\ SavedIsOnDisk' /\ ClosedIsClean' /\ TitleHonest'
           /\ ~ unheard' => listed' = config'.locs
           /\ ~ unheard' /\ ~ halfLoaded' => ticked' = Check(config')
  <1> USE DEF IndInv, Running, SetProperty
  <1>1. config' = [config EXCEPT !.val[p] = v] /\ config' \in Config
    BY DEF TypeOK, Config
  <1>2. SavedIsOnDisk' /\ ClosedIsClean'
    BY <1>1 DEF TypeOK, Config, SavedIsOnDisk, ClosedIsClean
  <1>3. CASE config.val[p] = v
    <2>1. config' = config
      BY <1>1, <1>3 DEF TypeOK, Config
    <2>2. QED
      BY <1>1, <1>2, <1>3, <2>1 DEF views, TypeOK, TitleHonest, DisplayAgrees
  <1>4. CASE config.val[p] # v
    <2>1. NotifyListeners(config')
      BY <1>4
    <2>2. TitleHonest'
      BY <2>1 DEF NotifyListeners, TitleOf, TitleHonest
    <2>3. title' \in [name : Files \cup {Untitled}, star : BOOLEAN]
      BY <2>1, <1>1 DEF NotifyListeners, TitleOf, Config, IsClean
    <2>4. listed' \in Seq(Locations) /\ ticked' \in BOOLEAN
      BY <2>1, <1>1 DEF NotifyListeners, Config, Check
    <2>5. QED
      BY <1>1, <1>2, <2>1, <2>2, <2>3, <2>4 DEF NotifyListeners
  <1>5. QED
    BY <1>3, <1>4

LEMMA TypeValueStep ==
    ASSUME IndInv, NEW p \in Props, NEW v \in Setting, TypeValue(p, v)
    PROVE  IndInv'
  <1>1. Running /\ SetProperty(p, v) /\ UNCHANGED halfLoaded
    BY DEF TypeValue
  <1>2. TypeOK'
    BY <1>1, SetPropertyStep DEF IndInv, TypeOK, TypeValue, Running
  <1>3. \A q \in Props \ stale' :
            shown'[q] = config'.val[q] \/ (q \in IntProps /\ shown'[q] = Malformed)
    BY <1>1, SetPropertyStep
    DEF IndInv, TypeOK, Config, TypeValue, Running, DisplayAgrees
  <1>4. QED
    BY <1>1, <1>2, <1>3, SetPropertyStep DEF IndInv, DisplayAgrees

LEMMA SetElsewhereStep ==
    ASSUME IndInv, NEW p \in Props, NEW v \in Setting, SetElsewhere(p, v)
    PROVE  IndInv'
  <1>1. Running /\ SetProperty(p, v) /\ UNCHANGED halfLoaded
    BY DEF SetElsewhere
  <1>2. TypeOK'
    BY <1>1, SetPropertyStep DEF IndInv, TypeOK, SetElsewhere, Running
  <1>3. \A q \in Props \ stale' :
            shown'[q] = config'.val[q] \/ (q \in IntProps /\ shown'[q] = Malformed)
    BY <1>1, SetPropertyStep
    DEF IndInv, TypeOK, Config, SetElsewhere, Running, DisplayAgrees
  <1>4. QED
    BY <1>1, <1>2, <1>3, SetPropertyStep DEF IndInv, DisplayAgrees

LEMMA ControlStep ==
    ASSUME IndInv, NEW p \in IntProps, TypeMalformed(p) \/ LeaveControl(p)
    PROVE  IndInv'
  <1> USE DEF IndInv, TypeMalformed, LeaveControl, Running, views
  <1>1. TypeOK'
    BY DEF TypeOK, Config, Props
  <1>2. SavedIsOnDisk' /\ ClosedIsClean' /\ TitleHonest'
    BY DEF SavedIsOnDisk, ClosedIsClean, TitleHonest
  <1>3. DisplayAgrees'
    BY DEF DisplayAgrees, TypeOK, Config, Props
  <1>4. QED
    BY <1>1, <1>2, <1>3

\* A change of the locations that is notified.
LEMMA LocationsStep ==
    ASSUME IndInv, Running, NEW locs \in Seq(Locations),
           config' = [config EXCEPT !.locs = locs], NotifyListeners(config'),
           UNCHANGED <<shown, halfLoaded, stale>>
    PROVE  IndInv'
  <1> USE DEF IndInv, Running, NotifyListeners
  <1>1. TypeOK'
    BY DEF TypeOK, Config, TitleOf, IsClean, Check
  <1>2. SavedIsOnDisk' /\ ClosedIsClean'
    BY DEF SavedIsOnDisk, ClosedIsClean, TypeOK, Config
  <1>3. TitleHonest' /\ DisplayAgrees'
    BY DEF TitleHonest, DisplayAgrees, TitleOf, TypeOK, Config
  <1>4. QED
    BY <1>1, <1>2, <1>3

LEMMA RenameStep ==
    ASSUME IndInv, NEW i \in DOMAIN config.locs, NEW n \in Names,
           RenameLocation(i, n)
    PROVE  IndInv'
  <1>1. config.locs \in Seq(Locations) /\ config.locs[i] \in Locations
    BY DEF IndInv, TypeOK, Config
  <1>2. [config.locs[i] EXCEPT !.name = n] \in Locations
    BY <1>1 DEF Locations
  <1>3. [config.locs EXCEPT ![i].name = n] \in Seq(Locations)
    BY <1>1, <1>2
  <1>4. QED
    BY <1>3, LocationsStep DEF RenameLocation, SetLocations

LEMMA ChangeRulesStep ==
    ASSUME IndInv, NEW i \in DOMAIN config.locs, NEW r \in RuleLists,
           ChangeRules(i, r)
    PROVE  IndInv'
  <1>1. config.locs \in Seq(Locations) /\ config.locs[i] \in Locations
    BY DEF IndInv, TypeOK, Config
  <1>2. [config.locs[i] EXCEPT !.rules = r] \in Locations
    BY <1>1 DEF Locations
  <1>3. [config.locs EXCEPT ![i].rules = r] \in Seq(Locations)
    BY <1>1, <1>2
  <1>4. QED
    BY <1>3, LocationsStep DEF ChangeRules, SetLocations

LEMMA UseErasedStep ==
    ASSUME IndInv, UseErasedLocation
    PROVE  IndInv'
  <1> USE DEF IndInv, UseErasedLocation
  <1>1. CASE UNCHANGED <<config, status>> /\ NotifyListeners(config)
    <2>1. NotifyListeners(config') /\ config' = [config EXCEPT !.locs = config.locs]
      BY <1>1 DEF TypeOK, Config
    <2>2. Running
      BY <1>1 DEF Running
    <2>3. config.locs \in Seq(Locations)
      BY DEF TypeOK, Config
    <2>4. QED
      BY <2>1, <2>2, <2>3, LocationsStep
  <1>2. ASSUME NEW l \in Locations,
               config' = [config EXCEPT !.locs = Append(@, l)],
               NotifyListeners(config'), UNCHANGED status
        PROVE  IndInv'
    <2>1. Append(config.locs, l) \in Seq(Locations)
      BY DEF TypeOK, Config
    <2>2. Running
      BY <1>2 DEF Running
    <2>3. QED
      BY <1>2, <2>1, <2>2, LocationsStep
  <1>3. CASE status' = "aborted" /\ UNCHANGED <<config, views>>
    BY <1>3 DEF views, TypeOK, SavedIsOnDisk, ClosedIsClean, TitleHonest,
                DisplayAgrees
  <1>4. QED
    BY <1>1, <1>2, <1>3

LEMMA NewStep ==
    ASSUME IndInv, DoFileNew
    PROVE  IndInv'
  <1> USE DEF IndInv, DoFileNew, Running
  <1>1. TypeOK'
    BY BlankType DEF TypeOK, TitleOf, Config
  <1>2. SavedIsOnDisk' /\ ClosedIsClean'
    BY DEF SavedIsOnDisk, ClosedIsClean, Blank
  <1>3. TitleHonest' /\ DisplayAgrees'
    BY DEF TitleHonest, DisplayAgrees, TitleOf
  <1>4. QED
    BY <1>1, <1>2, <1>3

LEMMA OpenStep ==
    ASSUME IndInv, NEW f \in Files, DoFileOpen(f)
    PROVE  IndInv'
  <1> USE DEF IndInv, DoFileOpen, Running, NotifyListeners
  <1>1. /\ disk[f].val \in [Props -> Setting]
        /\ disk[f].locs \in Seq(Locations)
        /\ config' \in Config
        /\ disk[f] = [val |-> disk[f].val, locs |-> disk[f].locs]
    BY LoadedType
  <1>2. TypeOK'
    BY <1>1 DEF TypeOK, TitleOf, Config, IsClean, Check
  <1>3. SavedIsOnDisk' /\ ClosedIsClean'
    BY <1>1, ConfigWindowAssumption
    DEF SavedIsOnDisk, ClosedIsClean, Loaded
  <1>4. TitleHonest' /\ DisplayAgrees'
    BY DEF TitleHonest, DisplayAgrees, TitleOf
  <1>5. QED
    BY <1>2, <1>3, <1>4

LEMMA OpenFailsStep ==
    ASSUME IndInv, NEW f \in Files, DoFileOpenFails(f)
    PROVE  IndInv'
  <1> DEFINE k == disk[f]
  <1> USE DEF IndInv, DoFileOpenFails, Running
  <1>1. k.val \in [Props -> Setting \cup {Malformed}] /\ k \in Content
    BY DEF Content
  <1>2. \A p \in Reached(k) : p \in Props /\ k.val[p] \in Setting
    BY <1>1 DEF Reached, Content, Props
  <1>3. config' \in Config
    BY <1>2 DEF CutShort, TypeOK, Config
  <1>4. ticked' \in BOOLEAN /\ listed' \in Seq(Locations) /\ unheard' \in BOOLEAN
    BY DEF Check, TypeOK, Config
  <1>5. TypeOK'
    BY <1>3, <1>4 DEF TypeOK
  <1>6. SavedIsOnDisk' /\ ClosedIsClean' /\ TitleHonest'
    BY DEF SavedIsOnDisk, ClosedIsClean, TitleHonest
  <1>7. config'.locs = config.locs
    BY DEF CutShort, TypeOK, Config
  <1>8. DisplayAgrees'
    BY <1>7 DEF DisplayAgrees, TypeOK
  <1>9. QED
    BY <1>5, <1>6, <1>8

-----------------------------------------------------------------------------
\* The end of a save: a loadable content k is loaded from f, which holds it.
LEMMA ReloadStep ==
    ASSUME IndInv, status = "running",
           NEW f \in Files, NEW k, Loadable(k), Reload(k, f),
           disk' \in [Files -> Content \cup {Unreadable}], disk'[f] = k,
           status' \in {"running", "closed", "aborted"}, UNCHANGED willing
    PROVE  IndInv'
  <1> USE DEF IndInv, Reload
  <1>1. /\ config' \in Config
        /\ k.val \in [Props -> Setting]
        /\ k = [val |-> k.val, locs |-> k.locs]
        /\ k.locs \in Seq(Locations)
    BY LoadedType
  <1>2. title' \in [name : Files \cup {Untitled}, star : BOOLEAN]
    BY DEF TypeOK, Config
  <1>3. ticked' \in BOOLEAN
    BY DEF Check
  <1>4. TypeOK'
    BY <1>1, <1>2, <1>3 DEF TypeOK
  <1>5. config' = [val |-> k.val, was |-> k.val, locs |-> k.locs,
                   orig |-> k.locs, file |-> f]
    BY DEF Loaded
  <1>6. SavedIsOnDisk'
    BY <1>1, <1>5, ConfigWindowAssumption DEF SavedIsOnDisk
  <1>7. IsClean(config)'
    BY <1>5 DEF IsClean
  <1>8. ClosedIsClean' /\ TitleHonest'
    BY <1>7 DEF ClosedIsClean, TitleHonest
  <1>9. DisplayAgrees'
    <2>1. listed' = config'.locs /\ ticked' = Check(config') /\ status = "running"
      BY <1>5
    <2>2. ASSUME NEW p \in Props, p \notin stale'
          PROVE  \/ shown'[p] = config'.val[p]
                 \/ p \in IntProps /\ shown'[p] = Malformed
      <3>1. p \notin stale /\ k.val[p] = config.val[p]
        BY <2>2
      <3>2. shown' = shown /\ config'.val[p] = k.val[p]
        BY <1>5
      <3>3. QED
        BY <2>1, <3>1, <3>2 DEF DisplayAgrees
    <2>3. QED
      BY <2>1, <2>2 DEF DisplayAgrees
  <1>10. QED
    BY <1>4, <1>6, <1>8, <1>9

\* Save, whether the file is written or the commit fails.
LEMMA SaveStep ==
    ASSUME IndInv, status = "running",
           NEW f \in Files, WriteFile(f) \/ CommitFails(f),
           status' \in {"running", "closed"}, UNCHANGED willing
    PROVE  IndInv'
  <1>1. disk \in [Files -> Content \cup {Unreadable}] /\ config \in Config
    BY DEF IndInv, TypeOK
  <1>2. CASE WriteFile(f)
    <2>1. ContentOf(config) \in Content /\ Loadable(ContentOf(config))
      BY <1>1, ContentType
    <2>2. disk' \in [Files -> Content \cup {Unreadable}]
      BY <1>1, <1>2, <2>1 DEF WriteFile
    <2>3. disk'[f] = ContentOf(config) /\ Reload(ContentOf(config), f)
      BY <1>1, <1>2 DEF WriteFile
    <2>4. QED
      BY <2>1, <2>2, <2>3, ReloadStep
  <1>3. CASE CommitFails(f)
    BY <1>1, <1>3, ReloadStep DEF CommitFails
  <1>4. QED
    BY <1>2, <1>3

\* Steps that end the program and leave the configuration alone.
LEMMA EndStep ==
    ASSUME IndInv,
           UNCHANGED <<config, disk, views, shown, halfLoaded, stale>>,
           \/ status' = "aborted" /\ UNCHANGED willing
           \/ /\ status' = "closed"
              /\ willing' \in BOOLEAN
              /\ willing' => IsClean(config)
    PROVE  IndInv'
  BY DEF IndInv, TypeOK, SavedIsOnDisk, ClosedIsClean, TitleHonest,
         DisplayAgrees, views, IsClean

-----------------------------------------------------------------------------
LEMMA NextIndInv == IndInv /\ [Next]_vars => IndInv'
  <1> SUFFICES ASSUME IndInv, [Next]_vars PROVE IndInv'
    OBVIOUS
  <1>1. ASSUME NEW p \in Props, NEW v \in Setting, TypeValue(p, v)
        PROVE  IndInv'
    BY <1>1, TypeValueStep
  <1>2. ASSUME NEW p \in Props, NEW v \in Setting, SetElsewhere(p, v)
        PROVE  IndInv'
    BY <1>2, SetElsewhereStep
  <1>3. ASSUME NEW p \in IntProps, TypeMalformed(p) \/ LeaveControl(p)
        PROVE  IndInv'
    BY <1>3, ControlStep
  <1>4. ASSUME NEW l \in Locations, AddLocation(l)
        PROVE  IndInv'
    <2>1. Append(config.locs, l) \in Seq(Locations)
      BY DEF IndInv, TypeOK, Config
    <2>2. QED
      BY <1>4, <2>1, LocationsStep DEF AddLocation, SetLocations
  <1>5. ASSUME NEW i \in DOMAIN config.locs, RemoveLocation(i)
        PROVE  IndInv'
    <2>1. config.locs \in Seq(Locations)
      BY DEF IndInv, TypeOK, Config
    <2>2. RemoveAt(config.locs, i) \in Seq(Locations)
      BY <2>1, RemoveAtType
    <2>3. QED
      BY <1>5, <2>2, LocationsStep DEF RemoveLocation, SetLocations
  <1>6. ASSUME NEW i \in DOMAIN config.locs, NEW n \in Names,
               RenameLocation(i, n)
        PROVE  IndInv'
    BY <1>6, RenameStep
  <1>6a. ASSUME NEW i \in DOMAIN config.locs, NEW r \in RuleLists,
                ChangeRules(i, r)
         PROVE  IndInv'
    BY <1>6a, ChangeRulesStep
  <1>7. CASE UseErasedLocation
    BY <1>7, UseErasedStep
  <1>8. CASE DoFileNew
    BY <1>8, NewStep
  <1>9. ASSUME NEW f \in Files, DoFileOpen(f) \/ DoFileOpenFails(f)
        PROVE  IndInv'
    BY <1>9, OpenStep, OpenFailsStep
  <1>10. CASE DoFileSave
    BY <1>10, SaveStep DEF DoFileSave
  <1>11. CASE SaveAborts
    BY <1>11, EndStep DEF SaveAborts
  <1>12. ASSUME NEW canVeto \in BOOLEAN, CloseAtOnce(canVeto)
         PROVE  IndInv'
    BY <1>12, EndStep DEF CloseAtOnce
  <1>13. CASE CloseUnsaved
    BY <1>13, EndStep DEF CloseUnsaved
  <1>14. CASE CloseSaved
    <2>1. SaveTargets \subseteq Files
      BY DEF SaveTargets, IndInv, TypeOK, Config
    <2>2. QED
      BY <1>14, <2>1, SaveStep DEF CloseSaved
  <1>15. CASE UNCHANGED vars
    BY <1>15
    DEF vars, views, IndInv, TypeOK, SavedIsOnDisk, ClosedIsClean, TitleHonest,
        DisplayAgrees
  <1>16. QED
    BY <1>1, <1>2, <1>3, <1>4, <1>5, <1>6, <1>6a, <1>7, <1>8, <1>9, <1>10,
       <1>11, <1>12, <1>13, <1>14, <1>15 DEF Next

LEMMA SpecIndInv == Spec => []IndInv
  BY InitIndInv, NextIndInv, PTL DEF Spec

-----------------------------------------------------------------------------
\* The configuration and what shows it keep their types, whatever files the
\* user opens (TypeOK).
THEOREM TypeCorrect == Spec => []TypeOK
  BY SpecIndInv, PTL DEF IndInv

\* A configuration that counts as clean is what its file holds
\* (CleanMeansOnDisk).
THEOREM CleanIsSaved == Spec => []CleanMeansOnDisk
  <1>1. IndInv => CleanMeansOnDisk
    BY DEF IndInv, SavedIsOnDisk, CleanMeansOnDisk, IsClean, OnDisk, ContentOf,
           Blank
  <1>2. QED
    BY <1>1, SpecIndInv, PTL

\* A window that closes without a refusal leaves its file up to date
\* (ClosedMeansSaved).
THEOREM ClosingSaves == Spec => []ClosedMeansSaved
  <1>1. IndInv => ClosedMeansSaved
    BY DEF IndInv, SavedIsOnDisk, ClosedIsClean, ClosedMeansSaved, IsClean,
           OnDisk, ContentOf, Blank
  <1>2. QED
    BY <1>1, SpecIndInv, PTL

\* The star of the title tells of unsaved changes (TitleHonest).
THEOREM TitleTellsOfChanges == Spec => []TitleHonest
  BY SpecIndInv, PTL DEF IndInv

\* Lists, panel and controls show the configuration (DisplayAgrees).
THEOREM DisplayFollows == Spec => []DisplayAgrees
  BY SpecIndInv, PTL DEF IndInv

-----------------------------------------------------------------------------
(* The refinement.                                                         *)

\* A step that changes settings and locations only is an edit.
LEMMA EditsDocument ==
    ASSUME IndInv, IndInv', status = "running", UNCHANGED <<disk, status, willing>>,
           config'.was = config.was, config'.orig = config.orig,
           config'.file = config.file
    PROVE  Doc!Next
  <1>1. ContentOf(config') \in Content
    BY ContentType DEF IndInv, TypeOK
  <1>2. Doc!Edit
    BY <1>1 DEF Doc!Edit
  <1>3. QED
    BY <1>2 DEF Doc!Next

\* A save writes the text or falls back on what the file holds.
LEMMA SavesDocument ==
    ASSUME IndInv, NEW f \in Files, WriteFile(f) \/ CommitFails(f)
    PROVE  Doc!SaveOrLose(f)
  <1>1. config \in Config
    BY DEF IndInv, TypeOK
  <1>2. CASE WriteFile(f)
    <2>1. Loadable(ContentOf(config))
      BY <1>1, ContentType
    <2>2. config' = Loaded(ContentOf(config), f)
      BY <1>2 DEF WriteFile, Reload
    <2>3. Doc!Becomes(ContentOf(config), f)
      BY <2>2 DEF Doc!Becomes, Loaded, ContentOf
    <2>4. Doc!Save(f)
      BY <1>2, <2>3 DEF Doc!Save, WriteFile
    <2>5. QED
      BY <2>4 DEF Doc!SaveOrLose
  <1>3. CASE CommitFails(f)
    <2>1. Loadable(disk[f]) /\ config' = Loaded(disk[f], f) /\ disk' = disk
      BY <1>3 DEF CommitFails, Reload
    <2>2. disk[f] = [val |-> disk[f].val, locs |-> disk[f].locs] /\ disk[f] \in Content
      BY <2>1, LoadedType DEF Loadable
    <2>3. Doc!Becomes(disk[f], f)
      BY <2>1, <2>2 DEF Doc!Becomes, Loaded, ContentOf
    <2>4. QED
      BY <2>1, <2>2, <2>3 DEF Doc!Load, Doc!SaveOrLose
  <1>4. QED
    BY <1>2, <1>3

\* Steps that leave the configuration and the files alone and end the window.
LEMMA LeavesDocument ==
    ASSUME status = "running", UNCHANGED <<config, disk>>,
           status' = "aborted" \/ (status' = "closed" /\ ~ willing')
    PROVE  Doc!Next
  <1>1. Doc!Leave
    BY DEF Doc!Leave
  <1>2. QED
    BY <1>1 DEF Doc!Next

LEMMA SettingIsEdit ==
    ASSUME IndInv, IndInv', NEW p \in Props, NEW x \in Setting,
           TypeValue(p, x) \/ SetElsewhere(p, x)
    PROVE  Doc!Next
  <1>1. Running /\ config' = [config EXCEPT !.val[p] = x]
    BY DEF TypeValue, SetElsewhere, SetProperty
  <1>2. QED
    BY <1>1, EditsDocument DEF Running, IndInv, TypeOK, Config

LEMMA LocationsAreEdited ==
    ASSUME IndInv, IndInv', NEW locs, SetLocations(locs)
    PROVE  Doc!Next
  BY EditsDocument DEF SetLocations, Running, IndInv, TypeOK, Config

LEMMA ErasedIsEdit ==
    ASSUME IndInv, IndInv', UseErasedLocation
    PROVE  Doc!Next
  <1>1. CASE status' = "aborted"
    <2>1. UNCHANGED <<config, disk>> /\ status = "running"
      BY <1>1 DEF UseErasedLocation
    <2>2. QED
      BY <1>1, <2>1, LeavesDocument
  <1>2. CASE status' # "aborted"
    <2>1. /\ status = "running" /\ UNCHANGED <<disk, status, willing>>
          /\ config'.was = config.was /\ config'.orig = config.orig
          /\ config'.file = config.file
      BY <1>2 DEF UseErasedLocation, IndInv, TypeOK, Config
    <2>2. QED
      BY <2>1, EditsDocument
  <1>3. QED
    BY <1>1, <1>2

LEMMA NewIsFresh ==
    ASSUME DoFileNew
    PROVE  Doc!Next
  <1>1. Doc!Fresh
    BY DEF DoFileNew, Running, Doc!Fresh, Doc!Becomes, Blank, ContentOf
  <1>2. QED
    BY <1>1 DEF Doc!Next, DoFileNew, Running

LEMMA OpenLoads ==
    ASSUME IndInv, NEW f \in Files, DoFileOpen(f)
    PROVE  Doc!Next
  <1>1. /\ Loadable(disk[f]) /\ config' = Loaded(disk[f], f)
        /\ status = "running" /\ UNCHANGED <<disk, status, willing>>
    BY DEF DoFileOpen, Running
  <1>2. disk[f] = [val |-> disk[f].val, locs |-> disk[f].locs] /\ disk[f] \in Content
    BY <1>1, LoadedType DEF Loadable
  <1>3. Doc!Becomes(disk[f], f)
    BY <1>1, <1>2 DEF Doc!Becomes, Loaded, ContentOf
  <1>4. Doc!SaveOrLose(f)
    BY <1>1, <1>2, <1>3 DEF Doc!Load, Doc!SaveOrLose
  <1>5. QED
    BY <1>1, <1>4 DEF Doc!Next

LEMMA OpenMixes ==
    ASSUME IndInv, IndInv', NEW f \in Files, DoFileOpenFails(f)
    PROVE  Doc!Next
  <1>1. /\ disk[f] \in Content /\ config' = CutShort(config, disk[f])
        /\ status = "running" /\ UNCHANGED <<disk, status, willing>>
    BY DEF DoFileOpenFails, Running
  <1>2. config' \in Config /\ config'.file = config.file
    BY <1>1 DEF CutShort, IndInv, TypeOK, Config
  <1>3. ContentOf(config') \in Content
    BY <1>2, ContentType
  <1>4. [val |-> config'.was, locs |-> config'.orig] \in Content
    <2>1. [config' EXCEPT !.val = config'.was, !.locs = config'.orig] \in Config
      BY <1>2 DEF Config
    <2>2. ContentOf([config' EXCEPT !.val = config'.was, !.locs = config'.orig]) \in Content
      BY <2>1, ContentType
    <2>3. QED
      BY <1>2, <2>2 DEF ContentOf, Config
  <1>5. disk[f] # Unreadable
    BY <1>1, ConfigWindowAssumption
  <1>6. Doc!Mix(f)
    BY <1>1, <1>2, <1>3, <1>4, <1>5 DEF Doc!Mix
  <1>7. QED
    BY <1>1, <1>6 DEF Doc!Next

LEMMA SaveSaves ==
    ASSUME IndInv, DoFileSave
    PROVE  Doc!Next
  <1>1. PICK f \in Files : WriteFile(f) \/ CommitFails(f)
    BY DEF DoFileSave
  <1>2. Doc!SaveOrLose(f)
    BY <1>1, SavesDocument
  <1>3. QED
    BY <1>2 DEF Doc!Next, DoFileSave

LEMMA ClosingCloses ==
    ASSUME IndInv, NEW canVeto \in BOOLEAN,
           CloseAtOnce(canVeto) \/ CloseUnsaved \/ CloseSaved
    PROVE  Doc!Next
  <1>0. status = "running" /\ status' = "closed" /\ config \in Config
    BY DEF CloseAtOnce, CloseUnsaved, CloseSaved, IndInv, TypeOK
  <1>1. CASE UNCHANGED <<config, disk>> /\ ~ willing'
    BY <1>0, <1>1, LeavesDocument
  <1>2. CASE UNCHANGED <<config, disk>> /\ IsClean(config) /\ willing'
    <2>1. ContentOf(config) = [val |-> config.was, locs |-> config.orig]
      BY <1>2 DEF IsClean, ContentOf
    <2>2. Doc!Close
      BY <1>0, <1>2, <2>1 DEF Doc!Close
    <2>3. QED
      BY <1>0, <2>2 DEF Doc!Next
  <1>3. CASE CloseSaved /\ willing'
    <2>1. PICK f \in SaveTargets : WriteFile(f) \/ CommitFails(f)
      BY <1>3 DEF CloseSaved
    <2>2. SaveTargets \subseteq Files
      BY <1>0 DEF SaveTargets, Config
    <2>3. Doc!SaveOrLose(f)
      BY <2>1, <2>2, SavesDocument
    <2>4. f \in IF config.file = Untitled THEN Files ELSE {config.file}
      BY <2>1 DEF SaveTargets
    <2>5. Doc!Close
      BY <1>0, <1>3, <2>3, <2>4 DEF Doc!Close
    <2>6. QED
      BY <1>0, <2>5 DEF Doc!Next
  <1>4. CASE CloseSaved /\ ~ willing'
    BY <1>0, <1>4 DEF CloseSaved, IndInv, ClosedIsClean
  <1>5. QED
    BY <1>1, <1>2, <1>3, <1>4 DEF CloseAtOnce, CloseUnsaved

LEMMA NextIsDocument ==
    ASSUME IndInv, IndInv', [Next]_vars
    PROVE  [Doc!Next]_(Doc!vars)
  <1>1. ASSUME NEW p \in Props, NEW x \in Setting, TypeValue(p, x) \/ SetElsewhere(p, x)
        PROVE  Doc!Next
    BY <1>1, SettingIsEdit
  <1>2. ASSUME NEW p \in IntProps, TypeMalformed(p) \/ LeaveControl(p)
        PROVE  UNCHANGED Doc!vars
    BY <1>2 DEF TypeMalformed, LeaveControl, Running, Doc!vars
  <1>3. ASSUME NEW locs, SetLocations(locs)
        PROVE  Doc!Next
    BY <1>3, LocationsAreEdited
  <1>4. CASE UseErasedLocation
    BY <1>4, ErasedIsEdit
  <1>5. CASE DoFileNew
    BY <1>5, NewIsFresh
  <1>6. ASSUME NEW f \in Files, DoFileOpen(f) \/ DoFileOpenFails(f)
        PROVE  Doc!Next
    BY <1>6, OpenLoads, OpenMixes
  <1>7. CASE DoFileSave
    BY <1>7, SaveSaves
  <1>8. CASE SaveAborts
    BY <1>8, LeavesDocument DEF SaveAborts
  <1>9. ASSUME NEW canVeto \in BOOLEAN, CloseAtOnce(canVeto)
        PROVE  Doc!Next
    BY <1>9, ClosingCloses
  <1>10. CASE CloseUnsaved \/ CloseSaved
    <2>1. TRUE \in BOOLEAN
      OBVIOUS
    <2>2. QED
      BY <1>10, <2>1, ClosingCloses
  <1>11. CASE UNCHANGED vars
    BY <1>11 DEF vars, Doc!vars
  <1>12. QED
    BY <1>1, <1>2, <1>3, <1>4, <1>5, <1>6, <1>7, <1>8, <1>9, <1>10, <1>11
    DEF Next, AddLocation, RemoveLocation, RenameLocation, ChangeRules

\* The window does nothing to the configuration and the files that an editor
\* of documents would not do: it implements Document (IsDocument).
THEOREM WindowIsDocument == Spec => IsDocument
  <1>1. Init => Doc!Init
    BY ConfigWindowAssumption DEF Init, Doc!Init, Blank, ContentOf
  <1>2. QED
    BY <1>1, SpecIndInv, NextIsDocument, PTL DEF Spec, IsDocument, Doc!Spec
=============================================================================
