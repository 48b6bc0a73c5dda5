---------------------------- MODULE ConfigWindow ----------------------------
(***************************************************************************)
(* The configuration that the main window edits: its settings              *)
(* (Property.cc), its locations and its file (ClientConfig.cc), the File   *)
(* menu and the closing of the window (MainFrame.cc), the controls bound   *)
(* to the settings (ParamPanel.cc), and what the title, the lists and the  *)
(* panel of the settings (ClientInfoPanel.cc) show of it.                  *)
(*                                                                         *)
(* The window has one thread and its questions are modal: a menu command   *)
(* runs to its end, answers included, before the next event.  A command    *)
(* that the user breaks off changes nothing and is a stuttering step.      *)
(***************************************************************************)
EXTENDS Sequences, SequencesExt, FiniteSets

CONSTANTS
    StringProps,    \* the settings of STR_PROPS, loaded first
    IntProps,       \* the settings of INT_PROPS, loaded after them
    PidFile,        \* the string setting kept in the Server block
    Values,         \* what a setting may be set to
    Default,        \* the value of each setting in a new configuration
    Names, Paths, RuleLists,    \* what makes up a location
    NoRules,        \* the list of a location that has none
    Files,          \* names of configuration files
    DiskChoices,    \* what the files may hold when the program starts
    Unset, Malformed, Untitled, Unreadable, NoLocations,
    MaxLocations    \* bound: locations in the configuration

Props == StringProps \cup IntProps

Setting == Values \cup {Unset}

Locations == [name : Names, path : Paths, rules : RuleLists]

\* What a file holds that the parser accepts: a number of the wrong form is
\* Malformed, and the BackupLocations block may be missing.  Any other file is
\* Unreadable: it is not there, or the parser rejects it.
Content ==
    {k \in [val : [Props -> Setting \cup {Malformed}],
            locs : Seq(Locations) \cup {NoLocations}] :
        \A p \in StringProps : k.val[p] # Malformed}

ASSUME ConfigWindowAssumption ==
    /\ PidFile \in StringProps
    /\ StringProps \cap IntProps = {}
    /\ Default \in [Props -> Setting]
    /\ DiskChoices \subseteq [Files -> Content \cup {Unreadable}]
    /\ NoRules \in RuleLists
    /\ MaxLocations \in Nat
    /\ Untitled \notin Files
    /\ Malformed \notin Setting
    /\ NoLocations \notin Seq(Locations)
    /\ Unreadable \notin Content

VARIABLES
    config,     \* ClientConfig: settings, their saved values, locations, file
    disk,       \* what each file holds
    title,      \* of the main window: a file name and a star
    shown,      \* the text of the control bound to each setting
    listed,     \* the locations that the lists point to
    ticked,     \* the panel says that the configuration looks OK
    status,     \* "running", "closed", or "aborted" by an exception
    halfLoaded, \* history: an Open that failed has replaced some settings
    unheard,    \* history: the listeners do not know of the last change
    stale,      \* history: settings changed behind the back of their control
    willing     \* history: the user neither refused to save nor was cut off

views == <<title, listed, ticked, unheard>>

vars == <<config, disk, title, shown, listed, ticked, status,
          halfLoaded, unheard, stale, willing>>

Config == [val : [Props -> Setting], was : [Props -> Setting],
           locs : Seq(Locations), orig : Seq(Locations),
           file : Files \cup {Untitled}]

\* The configuration, the files and everything that shows them have their
\* types; the text of a control is a value, nothing, or no number at all.
TypeOK ==
    /\ config \in Config
    /\ disk \in [Files -> Content \cup {Unreadable}]
    /\ title \in [name : Files \cup {Untitled}, star : BOOLEAN]
    /\ shown \in [Props -> Setting \cup {Malformed}]
    /\ listed \in Seq(Locations)
    /\ ticked \in BOOLEAN
    /\ status \in {"running", "closed", "aborted"}
    /\ halfLoaded \in BOOLEAN
    /\ unheard \in BOOLEAN
    /\ stale \subseteq Props
    /\ willing \in BOOLEAN

-----------------------------------------------------------------------------
(* The configuration.                                                      *)

IsClean(c) == c.val = c.was /\ c.locs = c.orig

\* Every setting of the model is one that Check asks for.
Check(c) == \A p \in Props : c.val[p] # Unset

Blank == [val |-> Default, was |-> Default, locs |-> <<>>, orig |-> <<>>,
          file |-> Untitled]

ContentOf(c) == [val |-> c.val, locs |-> c.locs]

Loadable(k) ==
    /\ k \in Content
    /\ \A p \in Props : k.val[p] # Malformed
    /\ k.locs # NoLocations

Loaded(k, f) == [val |-> k.val, was |-> k.val, locs |-> k.locs,
                 orig |-> k.locs, file |-> f]

\* the settings that Load has reached when the exception stops it
Reached(k) ==
    IF \E p \in IntProps : k.val[p] = Malformed THEN StringProps ELSE Props

\* Load cut short: what it reached counts as saved, except that PidFile is
\* cleared, and not yet marked clean, when the file has no Server block
CutShort(c, k) ==
    [c EXCEPT !.val = [p \in Props |-> IF p \in Reached(k) THEN k.val[p]
                                       ELSE c.val[p]],
              !.was = [p \in Props |->
                          IF p \in Reached(k) /\ (p # PidFile \/ k.val[p] # Unset)
                          THEN k.val[p] ELSE c.was[p]]]

\* what the listeners see when Load clears PidFile
AfterClear(c, k) ==
    [c EXCEPT !.val = [p \in Props |-> IF p \in StringProps THEN k.val[p]
                                       ELSE c.val[p]]]

TitleOf(c) == [name |-> c.file, star |-> ~ IsClean(c)]

\* NotifyListeners with all of them listening
NotifyListeners(c) ==
    /\ title' = TitleOf(c)
    /\ listed' = c.locs
    /\ ticked' = Check(c)
    /\ unheard' = FALSE

Running == status = "running" /\ UNCHANGED <<disk, status, willing>>

\* Set and Clear of a setting: the listeners hear of a change only
SetProperty(p, v) ==
    /\ config' = [config EXCEPT !.val[p] = v]
    /\ IF config.val[p] = v THEN UNCHANGED views ELSE NotifyListeners(config')

-----------------------------------------------------------------------------
(* Settings and their controls.                                            *)

\* mutant: a change of a setting is not passed on
TypeValueUnheard(p, v) ==
    /\ Running
    /\ config' = [config EXCEPT !.val[p] = v]
    /\ shown' = [shown EXCEPT ![p] = v]
    /\ stale' = stale \ {p}
    /\ UNCHANGED <<views, halfLoaded>>

\* the text is a value, or empty
TypeValue(p, v) ==
    /\ Running
    /\ shown' = [shown EXCEPT ![p] = v]
    /\ stale' = stale \ {p}
    /\ SetProperty(p, v)
    /\ UNCHANGED halfLoaded

\* the text of a number is no number: the setting keeps its value
TypeMalformed(p) ==
    /\ Running
    /\ shown' = [shown EXCEPT ![p] = Malformed]
    /\ UNCHANGED <<config, views, halfLoaded, stale>>

\* the control of a number loses the focus: Reload
LeaveControl(p) ==
    /\ Running
    /\ shown' = [shown EXCEPT ![p] = config.val[p]]
    /\ stale' = stale \ {p}
    /\ UNCHANGED <<config, views, halfLoaded>>

\* a control of the setup wizard sets it: this panel reloads no control
SetElsewhere(p, v) ==
    /\ Running
    /\ config.val[p] # v
    /\ SetProperty(p, v)
    /\ stale' = stale \cup {p}
    /\ UNCHANGED <<shown, halfLoaded>>

-----------------------------------------------------------------------------
(* Locations.                                                              *)

SetLocations(locs) ==
    /\ Running
    /\ config' = [config EXCEPT !.locs = locs]
    /\ NotifyListeners(config')
    /\ UNCHANGED <<shown, halfLoaded, stale>>

\* The rules of a new location: none in the tree.  The Locations page copies
\* them from the location that is selected, and one is when there are any.
NewRules == {NoRules} \cup {config.locs[i].rules : i \in DOMAIN config.locs}

Addable(l) ==
    /\ Len(config.locs) < MaxLocations
    /\ \A i \in DOMAIN config.locs :
           config.locs[i].name # l.name \/ config.locs[i].path # l.path

AddLocation(l) ==
    /\ Addable(l)
    /\ l.rules \in NewRules
    /\ SetLocations(Append(config.locs, l))

RemoveLocation(i) ==
    /\ i \in DOMAIN config.locs
    /\ SetLocations(RemoveAt(config.locs, i))

\* The Edit button sets the name and then the path.  Setting the name tells the
\* listeners, of which this page is one: it writes the old path into the box
\* from which the new one is then read.
RenameLocation(i, n) ==
    /\ i \in DOMAIN config.locs
    /\ SetLocations([config.locs EXCEPT ![i].name = n])

\* the tree or the Exclusions page, see BackupTree
ChangeRules(i, rules) ==
    /\ i \in DOMAIN config.locs
    /\ SetLocations([config.locs EXCEPT ![i].rules = rules])

\* The lists point to locations that New has erased, and the user edits one or
\* adds one with its rules.  The memory was freed: the rules may be any, the
\* listener found there passes the change on, or the program is stopped.
UseErasedLocation ==
    /\ status = "running"
    /\ unheard
    /\ listed # <<>>
    /\ \/ /\ UNCHANGED config
          /\ NotifyListeners(config)
          /\ UNCHANGED status
       \/ \E l \in Locations :
              /\ Addable(l)
              /\ config' = [config EXCEPT !.locs = Append(@, l)]
              /\ NotifyListeners(config')
              /\ UNCHANGED status
       \/ /\ status' = "aborted"
          /\ UNCHANGED <<config, views>>
    /\ UNCHANGED <<disk, shown, halfLoaded, stale, willing>>

-----------------------------------------------------------------------------
(* The File menu.                                                          *)

\* New resets the configuration and tells nobody but the title
DoFileNew ==
    /\ Running
    /\ config' = Blank
    /\ title' = TitleOf(Blank)
    /\ unheard' = TRUE
    /\ stale' = Props
    /\ halfLoaded' = FALSE
    /\ UNCHANGED <<shown, listed, ticked>>

\* mutant: the panel of the settings is not refreshed
DoFileOpenUnseen(f) ==
    /\ Running
    /\ Loadable(disk[f])
    /\ config' = Loaded(disk[f], f)
    /\ NotifyListeners(config')
    /\ halfLoaded' = FALSE
    /\ stale' = {}
    /\ UNCHANGED shown

\* Open, successful: the controls are reloaded
DoFileOpen(f) ==
    /\ Running
    /\ Loadable(disk[f])
    /\ config' = Loaded(disk[f], f)
    /\ NotifyListeners(config')
    /\ shown' = config'.val
    /\ stale' = {}
    /\ halfLoaded' = FALSE

\* Open, failed: an unreadable file changes nothing; otherwise the
\* settings that were reached stay replaced, and neither the title nor the
\* controls follow.  The other listeners hear of PidFile being cleared.
DoFileOpenFails(f) ==
    LET k     == disk[f]
        clear == config.val[PidFile] # Unset /\ k.val[PidFile] = Unset
    IN  /\ Running
        /\ k \in Content /\ ~ Loadable(k)
        /\ config' = CutShort(config, k)
        /\ IF clear
           THEN /\ ticked' = Check(AfterClear(config, k))
                /\ listed' = config.locs
                /\ unheard' = FALSE
           ELSE UNCHANGED <<ticked, listed, unheard>>
        /\ halfLoaded' = TRUE
        /\ stale' = Props
        /\ UNCHANGED <<title, shown>>

\* Save ends by loading the file, while mConfigFileName is still the old name:
\* the title is told before the name changes
Reload(k, f) ==
    /\ config' = Loaded(k, f)
    /\ title' = [name |-> config.file, star |-> FALSE]
    /\ listed' = k.locs
    /\ ticked' = Check(config')
    /\ unheard' = FALSE
    /\ halfLoaded' = FALSE
    /\ stale' = stale \cup {p \in Props : k.val[p] # config.val[p]}
    /\ UNCHANGED shown

\* mutant: the file keeps what it held
WriteFileSkipped(f) ==
    /\ UNCHANGED disk
    /\ Reload(ContentOf(config), f)

WriteFile(f) ==
    /\ disk' = [disk EXCEPT ![f] = ContentOf(config)]
    /\ Reload(ContentOf(config), f)

\* Commit fails, which Save does not look at: the old file is loaded back
CommitFails(f) ==
    /\ UNCHANGED disk
    /\ Loadable(disk[f])
    /\ Reload(disk[f], f)

\* the names that Save may write to: it asks for one when there is none
SaveTargets == IF config.file = Untitled THEN Files ELSE {config.file}

\* Save and Save As
DoFileSave ==
    /\ status = "running"
    /\ \E f \in Files : WriteFile(f) \/ CommitFails(f)
    /\ UNCHANGED <<status, willing>>

\* Commit fails and there is nothing to load back: the exception leaves the
\* event handler, and the program
SaveAborts ==
    /\ status = "running"
    /\ \E f \in Files : ~ Loadable(disk[f])
    /\ status' = "aborted"
    /\ UNCHANGED <<config, disk, views, shown, halfLoaded, stale, willing>>

-----------------------------------------------------------------------------
(* Closing the window.                                                     *)

\* nothing to save, or the system does not ask
CloseAtOnce(canVeto) ==
    /\ status = "running"
    /\ canVeto => IsClean(config)
    /\ status' = "closed"
    /\ willing' = canVeto
    /\ UNCHANGED <<config, disk, views, shown, halfLoaded, stale>>

\* the user does not want to save
CloseUnsaved ==
    /\ status = "running"
    /\ ~ IsClean(config)
    /\ status' = "closed"
    /\ willing' = FALSE
    /\ UNCHANGED <<config, disk, views, shown, halfLoaded, stale>>

\* mutant: the window closes whether or not the save has worked
CloseSavedUnchecked ==
    /\ status = "running"
    /\ ~ IsClean(config)
    /\ \/ \E f \in SaveTargets : WriteFile(f) \/ CommitFails(f)
       \/ UNCHANGED <<config, disk, views, shown, halfLoaded, stale>>
    /\ status' = "closed"
    /\ UNCHANGED willing

\* the user wants to save, and the window stays unless that left it clean
CloseSaved ==
    /\ status = "running"
    /\ ~ IsClean(config)
    /\ \E f \in SaveTargets : WriteFile(f) \/ CommitFails(f)
    /\ status' = "closed"
    /\ UNCHANGED willing

-----------------------------------------------------------------------------
Init ==
    /\ config = Blank
    /\ disk \in DiskChoices
    /\ title = TitleOf(Blank)
    /\ shown = Default
    /\ listed = <<>>
    /\ ticked = Check(Blank)
    /\ status = "running"
    /\ halfLoaded = FALSE
    /\ unheard = FALSE
    /\ stale = {}
    /\ willing = TRUE

Next ==
    \/ \E p \in Props, v \in Setting : TypeValue(p, v) \/ SetElsewhere(p, v)
    \/ \E p \in IntProps : TypeMalformed(p) \/ LeaveControl(p)
    \/ \E l \in Locations : AddLocation(l)
    \/ \E i \in DOMAIN config.locs : RemoveLocation(i)
    \/ \E i \in DOMAIN config.locs, n \in Names : RenameLocation(i, n)
    \/ \E i \in DOMAIN config.locs, r \in RuleLists : ChangeRules(i, r)
    \/ UseErasedLocation
    \/ DoFileNew
    \/ \E f \in Files : DoFileOpen(f) \/ DoFileOpenFails(f)
    \/ DoFileSave
    \/ SaveAborts
    \/ \E canVeto \in BOOLEAN : CloseAtOnce(canVeto)
    \/ CloseUnsaved
    \/ CloseSaved

Spec == Init /\ [][Next]_vars

-----------------------------------------------------------------------------
(* Properties.                                                             *)

\* What is left when Boxi is started again with the file, or without one.
OnDisk == IF config.file = Untitled THEN ContentOf(Blank) ELSE disk[config.file]

\* A configuration that counts as clean is what its file holds, whatever was
\* edited, opened and saved before, under whatever names, and whether or not
\* the writes worked: File/New and closing the window drop it unasked.  Only
\* an Open that failed half way leaves a clean mixture of two files.
CleanMeansOnDisk ==
    status # "aborted" /\ ~ halfLoaded /\ IsClean(config) =>
        ContentOf(config) = OnDisk

\* When the window has closed and the user has neither refused to save nor
\* been cut off, the file holds all that the window held.
ClosedMeansSaved ==
    status = "closed" /\ willing /\ ~ halfLoaded => ContentOf(config) = OnDisk

\* The title of the main window shows a star if and only if there are changes
\* to save, and then it names the file that Save would write; a name that Save
\* As has made out of date is shown only while there is nothing to save.
TitleHonest ==
    status = "running" /\ ~ halfLoaded =>
        /\ title.star = ~ IsClean(config)
        /\ title.star => title.name = config.file

\* The lists point to the locations of the configuration and the panel judges
\* the present settings, unless New has changed them unheard; the control of
\* a setting shows its value, or text that is no number, unless the setting
\* has been changed by something else since the panel was last refreshed.
DisplayAgrees ==
    status = "running" =>
        /\ ~ unheard => listed = config.locs
        /\ ~ unheard /\ ~ halfLoaded => ticked = Check(config)
        /\ \A p \in Props \ stale :
               shown[p] = config.val[p] \/ (p \in IntProps /\ shown[p] = Malformed)

-----------------------------------------------------------------------------
(* The document that the window edits.                                     *)

Doc == INSTANCE Document WITH
    Texts <- Content,
    New   <- ContentOf(Blank),
    text  <- ContentOf(config),
    saved <- [val |-> config.was, locs |-> config.orig],
    name  <- config.file,
    files <- disk,
    state <- IF status = "closed" /\ ~ willing THEN "dropped"
             ELSE IF status = "running" THEN "open" ELSE status

\* The window keeps the promises of Document: files change by saving only,
\* what counts as saved follows the file or the text, and no edit is lost by
\* closing but by the will of the user or by a save that failed.
IsDocument == Doc!Spec
=============================================================================
