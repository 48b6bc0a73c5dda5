# Boxi in TLA+

Boxi is a graphical client (C++, wxWidgets) for the Box Backup system. It lets
a user choose what to back up, start a backup, compare and restore, and edits
the configuration of the daemon. This directory holds TLA+ modules that model
the parts of it which keep state that can go wrong, the TLC configurations
which check them, and proofs that TLAPS checks. Paths below are relative to
the repository; line numbers are in `PROJECT.json` (`map`).

Contents: [the system](#the-system), [what makes it hard](#what-makes-it-hard),
[the modules](#the-modules), [the runs](#the-runs), [fairness](#fairness),
[what is proved](#what-is-proved), [disagreements](#disagreements-found),
[what is not modelled](#what-is-not-modelled), [the plan](#the-plan).

## The system

The program has one thread. Everything happens in handlers of events of the
window system. Handlers that run long (backup, compare, restore) call
`wxYield` so that the window stays alive, and any other handler may run there.

| Component | State it keeps | Operations | Correct when |
|---|---|---|---|
| Exclusion rules of a location (`Location.cc/.h`) | a `std::list` of rules (sense, file or directory, exact or regex, value) | add, insert, replace, remove; `GetExcludedState` | what it says of a path is what the Box Backup library does with the same rules |
| Tree of files to back up (`BackupLocationsPanel.cc`, `FileTree.cc`) | per node: pointers to its location and to the rules that exclude and include it; an icon. Per page: lists, selected rows, boxes | activate a node (five branches), expand, refresh, the buttons of the Locations and Exclusions pages | the tree shows what would be backed up, no pointer dangles, a click does what its branch says |
| Server connection (`ServerConnection.cc/.h`) | socket, protocol object, connected, writable, index | connect and log in, seven requests, handle an exception, disconnect | a request goes over a session of its mode; no session is leaked; cached data is of the current session |
| Cache of server directories (`ServerCacheNode` in `RestoreFilesPanel.cc/.h`) | a vector of children with a vector of versions each, the index it was read under | `GetChildren`, `GetMostRecent`, expansion of the tree | every entry of the directory is there, once, and pointers held elsewhere stay good |
| Restore spec and restore tree (`RestoreFilesPanel.cc/.h`) | a sorted vector of include and exclude entries; per node a pointer into it | activate a node, expand | the entries stay sorted; a click changes its node and no other |
| Restore run (`RestoreProgressPanel.cc/.h`, `RestorePanel.cc`) | flags running and stop, counters, the list of errors, the destination directory | start, count, restore, stop | every chosen file is restored once; a stop stops; it ends |
| Backup run (`BackupProgressPanel.cc/.h`, `ProgressPanel.cc`) | flags running and stop, the daemon object, counters | start, the callbacks of the daemon, stop, close | one backup at a time, a stop stops, the button is right |
| Compare run (`CompareProgressPanel.cc/.h`, `ComparePanel.cc`) | flags, counters, a borrowed protocol object | start, the callbacks of the comparison, stop | as above, and the object outlives the comparison |
| Client configuration (`ClientConfig`, `Property`) | properties with clean copies, locations, listeners, a file name | load, save, reset, edit, check | what is saved is what was edited; clean means saved |
| Main frame (`MainFrame.cc`) | the open panels, the title | open, save, new, close | no change is lost without a question |
| Panels of parameters (`ParamPanel.cc`, `ClientInfoPanel.cc`) | a text in each bound control | type, leave, reload | the control shows the setting |
| Setup wizard (`SetupWizard.cc`, the checks in `ClientConfig.cc`) | the page, a dirty flag for each page that makes a file, the private key a request is made with; the files on disk | next with its checks, back, make a key or a request, finish, cancel | what Finish leaves can be used; nothing the user typed is erased |
| The program's own tests (`Test*.cc`) | the step they are at | click, type, change files, assert | the models pass them |
| Daemon control, files panel, `wxchart` | see `PROJECT.json` | | |

How they interact:

* The tree of files changes the rules of `ClientConfig`'s locations directly and
  hears of changes made on the Exclusions page through a listener
  (`NotifyChange`), which refreshes the whole tree.
* The restore and compare panels read directories through `ServerCacheNode`,
  which asks `ServerConnection`. Every panel shares that connection: a request
  in the other mode drops it and makes another, and the index of the connection
  is what tells a cache that its contents are of another session.
* The restore run copies the spec of the restore panel when it starts, reads
  directories and files through the shared connection, and yields.
* Every page and panel that edits a setting does so in `ClientConfig` directly;
  it tells its listeners (the title, the lists of locations, the state panel), in
  the order in which they registered. The wizard edits the same settings.
* The compare run borrows the protocol object of the connection
  (`GetProtocolClient`) while other panels go on using the connection.

## What makes it hard

The hazards are listed, each at its line, in `PROJECT.json`. They come in eight
kinds:

* **cached pointers** into lists and vectors that later clicks change (rules in
  the backup tree, entries in the restore tree, children in the server cache);
* **long sequences of legal clicks**, where the rules that one click leaves
  behind are met again by another, out of the context they were made for;
* **events inside handlers** by way of `wxYield`: a stop, or a second start,
  within a running backup, compare or restore;
* **listeners called in the middle of a change**: the pages refill their boxes
  while the handler that made the change goes on reading them;
* **half-made connections**: connecting takes six steps, each of which may fail
  by an exception or a refusal, at each of which the server may be gone;
* **two computations that must agree**: tree against library, counting against
  restoring or uploading, a cached listing against the session, all of it against
  files that other programs change meanwhile;
* **copies that must follow**: clean copies of settings against the file, title,
  lists and controls against the settings, through loads that break off half way
  and saves that fail;
* **checks made in passing**: the wizard checks a file on one page and writes
  another on a later one, and the user may go back and replace either.

## The modules

```
ExcludeList ── BackupTree ── BackupPages ─┬─ TestBackupConfig ── MCBackupTree
                                          └─ BackupTreeProofs                (TreeFacts too)
ProgressRuns ─┬─ TestBackup ── MCProgressRuns       (TestBackup, TestRestore: TestFiles too)
              └─ ProgressRunsProofs                         (TreeFacts too)
RestoreSpec ─┬─ RestoreSelection ─┬─ MCRestoreSelection
             │                    └─ RestoreProofs          (RestoreRun and TreeFacts too)
             └─ RestoreRun ── TestRestore ── MCRestoreRun
TreeFacts
ServerConnection ── ServerConnectionProofs
ServerCache ── ServerCacheProofs                            (TreeFacts too)
ConfigWindow ─┬─ TestConfig ── MCConfigWindow
              └─ ConfigWindowProofs
SetupWizard ─┬─ TestWizard ── MCSetupWizard
             └─ SetupWizardProofs
```

What is to the right of a line EXTENDS what is to its left. Three modules are
instantiated: `Document` by `ConfigWindow` and `Catalogue` by `ServerCache`, which
implement them, and `RestoreSelection` by `TestRestore`. Names of the code are kept where TLA+ has
room for them. `TreeFacts` models nothing: it holds the lemmas on trees, sequences and folds
that the proofs share. A definition marked `mutant:` is a plausible bug: it is what a
definition next to it would be with that bug, it is used nowhere else, and
`PROJECT.json` says which property it breaks.

### The tests of the program as scripts

The `Test...` modules translate the program's own tests (which need a server, a
display and minutes to run) into scripts: a sequence of steps, each something the
test does (click, type, unpack an archive, answer a box) or asserts. `TestStep` takes
the next step, by the very actions that the user has in the same model; `Possible`
says of a step that it can be taken here, or that its assertion holds. The invariant
`TestPasses` of each module says that the script never gets to a step that is not
possible. The tests were written against the program, so a model that passes them
does, for every situation they contain, what the program does: they are the evidence
that the models are faithful, and a mutant of each run shows that they would notice.

The variable `who` says whether a user or a test works with the window. Each MC
module starts from the states of both.

### ExcludeList: the rules of a location

A path is a node of a finite tree (`Nodes`, `Root`, `Parent`, `Dirs`). A rule
is a record of its four parts. A regular expression goes by the nodes that it matches
(`MatchedBy`) or is one that the program writes itself: `^path/`, without escaping, so
that the name of a directory may contain characters with a meaning of their own
(`Special`, `Plain`). `AddEntry`, `InsertEntry`, `ReplaceEntry`
and `RemoveEntry` are the operations of `BoxiExcludeList`, duplicates included.
`GetExcludedState` is the two passes of the function of that name, with what the
caller's pointers hold before the call as an argument, because the function
leaves them alone in some cases.

`Scanned` is the reference: what the Box Backup library backs up of a location
with these rules. The library is not part of this repository in readable form
(it is a submodule, and its directory is empty), so the definition is marked external: an object that an
Exclude rule names and no AlwaysInclude rule does is left out with all below it.

### BackupTree and BackupPages: choosing what to back up

| Variable | Code |
|---|---|
| `locations` | `mLocations` of `ClientConfig`, each a name, a path and its list of rules |
| `tree` | for each node that the tree has loaded, `mpLocation`, `mpExcludedBy`, `mpIncludedBy` and the icon of its `BackupTreeNode` |
| `page` | the selected rows and the boxes of the Locations and the Exclusions page |

`ActivateAlwaysIncluded`, `ActivateExcluded`, `ActivateLocation`,
`ActivateIncluded` and `ActivateOutside` are the branches of
`OnTreeNodeActivate`, each with its changes to the rules and its refresh. The
user's answers to the questions a branch asks are choices (`agreed`); an answer
of no changes nothing. `Expand` reads a directory, which may have changed or have
become unreadable since it was last read. `UpdateState` is the function of that name: location, rules, icon.
A pointer to a rule is the rule: rules live in a
`std::list`, whose elements do not move, and the program finds the one to erase
by value.

`BackupPages` adds the two pages. Every change of the configuration, by the tree too,
refills both pages (`Change`): the rows follow what they pointed to (`RowAfter`), the
boxes take what the rows point to, and only then does the handler that made the change go on. This is
how the path typed for the Edit button gets lost (`EditLocation`), and how the Exclusions page
comes to show another location than the one the user chose.

`PanelSpec` is the panel with any configuration that could have been loaded and a tree
that was opened from the root down; the theorems are about it. The run takes a few such
configurations. `TestBackupConfig` is the test of both pages, on the disk that it makes.

### ServerConnection: the connection that all panels share

Every attempt to connect makes at most one socket and one protocol object, so
both carry the number of the attempt. `sockets` and `connections` are the objects
that exist; `socket` and `connection` the program's pointers. `wire` is what has
become of an attempt on the network, which the program learns only when it uses
it: `WireDies` may happen at any time.

A call of a panel (`Enter`) reuses the connection or drops it and goes through
`Connect2` step by step: `NotConfigured`, `BadKeys`, `Open`, `HandshakeStep`,
`VersionStep`, `LoginStep`. Every step may fail as the code lets it: a refusal
returns FALSE, an exception goes to `HandleException`, which drops the connection
only for a failed TLS read. `listing` and `lent` stand for the users: the
last directory that a panel cached with the index it noted, and the raw
pointer that a comparison works on.

### ServerCache and Catalogue: one directory of the store

`GetChildren` is modelled with its two data structures: the vector of children
(`nodes`, with its `buffer` and `capacity`) and the hash table of pointers into
it, which lives for the duration of the call. A full vector moves to a buffer
twice as large, as it does in libstdc++; a write through a pointer into the old
buffer is lost. The store is external: `Upload` and `Expire` change the
directory, `Reconnect` the session.

`Catalogue` is the abstract specification: a directory is a function from names to versions. It
has no vector, no table and no pointers, only the names that are shown, the versions that are
offered of each and which of them first, the session of the last listing, and for how many
names there is `room`. `List` happens at most once in a session, forgets no name, and offers exactly
what is stored as long as the names fit; if not, it may lose versions, but not
all those of a new name. `ServerCache` says what these are in the code: `Stored`, `Offered`, and
`Best`, which is what `GetMostRecent` remembers or would find. `IsCatalogue` is the refinement:
uploads, expiries, reconnections and listings are steps of `Catalogue`, `Expand` and `GetMostRecent` stutter.

### RestoreSpec and RestoreSelection: choosing what to restore

`RestoreSpec` has the vector of entries, ordered by path, and `UpdateState`: what
a node shows, given what its parent shows. `RestoreSelection` adds the memory
in which the vector lives. `memory` is the sequence of buffers that the vector has
had; a pointer into the current one reads what is in its slot now, a pointer
into an earlier one, which was freed, reads what was there or anything at all
(`Garbage`). `ActivateOwn` and `ActivateInherited` are the branches of
`OnTreeNodeActivate`: both update the clicked node, the nodes above and the
nodes below it, and no others.

### RestoreRun and TestRestore: restoring

`StartRestore` from the point where the new destination directory has been made.
`pc` says whether it counts or restores; `entries` and `todo` are the rest of its
loop and the stack of its recursion; one step is one entry or one node. `yields`
holds after a step that calls `wxYield`: only there can `Stop` happen, and
`SecondRestore`, a whole `StartRestore` from within the first one (the Start button
is not disabled). A `wxYield` within a `wxYield` is refused, so the second restore
runs to its end before the first goes on; what it leaves behind are the flags and
the counters, which both share. A restore of a node may fail (`Failure`, the
recursion returns false), throw (`Throw`) or find that the object exists.
What the store lists (`Listing`), has as deleted (`Gone`) or has no version of (`Absent`)
depends on the date that is restored to.

`history` is not in the code. It notes whether the user asked for a stop and
whether anything failed, so that the properties can speak of it.

`TestRestore` composes the tree of `RestoreSelection` with the restores of `RestoreRun`: the
clicks of the test go through the stale pointers of the tree, every change of
the spec is heard by the panel (`Heard`), and Start copies the spec with the date that
the controls hold (`RestoreToDate`). Each node has the icon that was set last. The
script restores single files, directories, entries inside and against one another, after
deletions, and to a date between two archives.

### ProgressRuns and TestBackup: backup and compare

| Variable | Code |
|---|---|
| `disk`, `store`, `lastSync`, `env` | the files, the server, the file with the time of the last sync; what is configured and what the server is like |
| `pc`, `yields`, `frames`, `todo` | where the one call is: starting, counting (the recursion of `CountLocalFiles`), working |
| `running`, `stop`, `shown`, `errors`, `counted`, `done`, `range` | the flags, the list, the gauge and the window of the panel |
| `daemon` | `mapDaemon` |

Both panels run by the same scheme, so one module has both, with `kind` for the
difference. `SecondRun` comes in at a `wxYield`, resets the flags, and for a backup
replaces and destroys the daemon of the first, which then works with a null pointer
(`DaemonMissed`: the program ends). Other programs change files (`Vanish`, `Write`): a
file that goes between `readdir` and `lstat` is counted by the `stat` buffer of the one before
it, which is not initialised at first (`Types`). `InitCryptoThrows` is before the `try` block:
the program ends. What the library does is external and reduced to the calls that it makes
back, in the order in which it makes them, and to what it leaves on the store. The files are any
tree in any state (`WorldOK`, `IsFileTree`): a node has a kind, data, a mode and a time, which is past or in
the future. A comparison does not look at the times of directories, so a compare finds the store
`Alike` and a backup leaves it the same.

`TestBackup` has the scripts of `TestBackup.cc` and `TestCompare.cc`, and the choice of
locations of the compare panel. `TestFiles` has the archives that they unpack.

### ConfigWindow and Document: editing and saving the configuration

| Variable | Code |
|---|---|
| `config` | `ClientConfig`: values and clean values of the `Property` objects, `mLocations` and its clean copy, `mConfigFileName` |
| `disk` | the configuration files, as far as the parser of Box Backup tells them apart |
| `title`, `listed`, `ticked` | what the listeners show: the frame's title, the lists of two pages, the tick of the settings panel |
| `shown` | the text of the control bound to each setting |
| `status` | whether the window runs, has closed, or an exception has left the program |

Settings are set through a control (`TypeValue`, `TypeMalformed`, `LeaveControl`) or by
another page (`SetElsewhere`), locations by the buttons of the Locations page, rules by
the pages that `BackupPages` models. `DoFileNew`, `DoFileOpen`, `DoFileOpenFails`,
`DoFileSave` and `SaveAborts` are the File menu, with Load cut short where its
exceptions cut it (`CutShort`), the reload at the end of Save (`Reload`), and a write
that fails unnoticed (`CommitFails`). `CloseAtOnce`, `CloseUnsaved` and `CloseSaved` are the
branches of `OnClose`. Menu commands and their questions are modal, so each is a step.

Four histories (`halfLoaded`, `unheard`, `stale`, `willing`) are not in the code. They
name the exceptions that the code makes to its own rules, so that each property
is stated with exactly the exceptions it has.

`Document` is the abstract specification: a text, what counts as saved of it, a name and
files. A file changes only by saving the text in it, what counts as saved changes only with
the text or with a file, and closing without the user's consent saves everything.
`Doc` maps the window to it: the text is the content of `config`, the saved text its
clean copies, and a window that was closed against unsaved changes by the user's will is "dropped".
`IsDocument` is the refinement.

### SetupWizard and TestWizard: keys, requests and certificates

| Variable | Code |
|---|---|
| `page` | the page shown (`GetCurrentPageId`), or how the wizard ended |
| `config`, `files` | the settings the wizard edits; what each file on disk holds |
| `dirty` | `mTextValueIsDirty` of the three pages that can make a file |
| `requestKey` | `mKeyFileName` of the page of the request |
| `ticked` | the box of the page on backups of the keys |

What OpenSSL reads from a file is a record: a private key has a number, a request
and a certificate have the number of their key and an account. The checks
(`PrivateKeyOk`, `RequestOk`, `CertificateOk`, `KeysOk`) compare these as the code does;
a private key is known by its label only (`BadKey` passes), a CA certificate by being
signed with its own key. Next, with its checks, questions and the file that it
makes, is one action for each page and radio button; `Back` erases a name by the dirty
flag; `MakingFails` stops after the file was emptied. `OperatorAnswers` is external: the
server's operator signs a request, and the user saves the certificate.

`typed`, `spoilt` and `asked` are histories. `spoilt` holds the files that the page of
the encryption key wrote after the certificate was checked: the user may confirm
an overwrite of any file, of the private key too.

## The runs

Where a run has a user and a test, the first numbers are the bounds of the user; the
test has its own data and goes its one way.

| Run | Asks | Bounds |
|---|---|---|
| `locations_and_rules` | Do clicks in the tree and on both pages, in any order, keep tree and lists right, and does each do no more than its branch says? | clicks alone: 6 nodes, 7 rules, 1 location; with the pages: 6 nodes, 2 rules in a list, 2 locations; test: 3 locations, 12 rules |
| `shared_connection` | Does every request go over its own session, whatever fails before it? | 3 attempts to connect |
| `cache_listings` | Are listings, versions and held pointers right over uploads, expiries and reconnections? Is it a `Catalogue`? | 3 names, 4 objects, 3 sessions |
| `restore_clicks` | What holds of the entries even when stale pointers are clicked? | 4 nodes, 4 entries |
| `restore_files` | Does a restore restore what was chosen, once, stop when told, and end? Does it pass its test? | 6 nodes, 3 clicks before it, 2 dates, 1 restore inside it |
| `progress_runs` | Do a backup and a compare count right, stop when told, tell the truth at the end, and end? Do they pass their tests? | 5 files and directories, 3 disks, 3 stores, one fault of the surroundings at a time, 1 run inside the run, 1 change by other programs |
| `config_window` | Is what counts as saved on disk, is nothing lost by closing, do title, lists and controls follow, over any edits and menu commands? Is it a `Document`? | 2 settings, 1 location of 2, 2 files, 2 disks |
| `setup_wizard` | Does Finish leave something usable, whatever the way through the pages? | 1 old and 1 new private key, 2 accounts, 6 files in use |
| `cache_loses_version`, `restore_stale_entry`, `restore_stop_forgotten`, `restore_leaves_out` | see [below](#disagreements-found) | as above; 4 clicks for `restore_leaves_out` |

Why these bounds are enough to show something:

* The disk of the backup tree has a chain of three directories below the location
  and a file in one of them: the shortest in which including a node opens a
  path through a directory that is neither the excluded one nor the node itself.
  Seven rules are what such an inclusion and the clicks that undo half of it need.
  A second disk has a directory whose name a regular expression reads differently.
  The loaded lists hold a rule twice, which the program can load but not make, a rule
  that matches everything, and a location inside another.
* Three attempts let a connection be dropped, made in the other mode, lost to
  the server, and made again; a listing of the first can still be cached then.
* Three names make the vector grow from nothing twice (capacities 1, 2, 4);
  four objects give one name two versions on either side of a growth.
* Four entries of the restore spec pass three growths of its vector. The store
  has a parent with two children, so that the click on one moves the entry of
  the other.
* The store of `RestoreRun` has a file two directories deep, one beside it and
  one at the root, so that an entry can be redundant below another with an
  excluded directory between. At the earlier date one directory was deleted and
  one file not there yet.
* The files of `ProgressRuns` are two, one in a directory and one that a rule
  excludes; one of them, or the directory, may be unreadable. A change may fall between any two steps.
  A second run within the first is the only one there can be: in it every `wxYield` is refused.
* `config_window` has one setting of each kind that Load treats differently (a
  string in the Server block, and a number, which may be malformed and is loaded
  later). The two disks put a good
  file beside one with a bad number, and a missing file beside one without a
  locations block: the failures of Load before, within and after the settings.
* The wizard starts blank, with a key and its certificate at hand as well as a
  file labelled as a key. A second private key is enough for requests and
  certificates to be of the wrong one; two accounts for them to be of the wrong
  account. The encryption key may be put where the private key is. A finished or
  cancelled wizard may be started again, with the settings it left.

What the passing properties say, in brief (each has its own comment):

* **BackupTree** `TreeShowsBackup`: shown as included is what a backup scans.
  `RulesNotDangling`: no node points to an erased rule or location.
  `PartialTicks`: the grey tick is on exactly the directories above a location.
  `ExcludeIsExact`, `IncludeSpillsOnlyThroughOldRules`, `IncludeBringsAllBelow`,
  `OwnRuleIsLocal`: how far the effect of a click reaches.
* **BackupPages** `EditOnlyRenames`: the Edit button changes a name and nothing else,
  whatever was typed.
* **ServerConnection** `RequestOnItsSession`, `NoForgottenSession`,
  `PointersLive`, `ListingFresh`, `LentSurvivesReads`.
* **ServerCache** `CacheIsTrue`: one node for a name, only versions that were listed, and the
  most recent is the newest. `HeldSurvivesSameNames`: which pointers stay good.
  `IsCatalogue`: the refinement, and with it the part of the promise of `GetChildren` that does hold.
* **RestoreSelection** `SelectionSound` (entries ordered, none twice, no null
  pointer read) and `FreshClickIsExact`: what stale pointers do not break.
* **RestoreRun** `NoDoubleRestore`, `CountIsExact`, `FinishedIsComplete`,
  `StopIsHonoured` (without a second restore) and `RestoreReturns`.
* **ProgressRuns** `GaugeIsRight`: the count differs from the files by no more than changed
  meanwhile. `FinishedMeansSame`: a run that only says "Finished" leaves, or finds, the
  store the same as the files. `StopIsHonoured`. `AloneIsSafe`: the button is right, and without a second
  run only `InitCrypto` can end the program. `RunReturns`.
* **ConfigWindow** `CleanMeansOnDisk`: a configuration that counts as clean is what
  its file holds. `TitleHonest`, `DisplayAgrees`: the star, the lists, the panel and the
  controls follow, with named exceptions. `IsDocument`: the refinement.
* **SetupWizard** `FinishedIsUsable`: after Finish the certificate is of this account and
  of the private key in use, unless the new encryption key was written over one of them.
  `AnswerIsAccepted`: what the operator sends for the request shown is accepted, unless it, or
  the new encryption key, was written over a file that the check needs.
  `BackErasesOnlyDefaults`.
* `TestPasses` of the five runs with tests.

`FinishedIsComplete` compares the restored files with the tree only if no node
has both an include and an exclude entry. Such a pair can be made by clicks; the
tree goes by the entry that differs from the parent, the restore leaves out
whatever has an exclude entry, and the two disagree then. No document says which is
meant, so it is not listed as a disagreement. The test of restores makes such a pair
too, and counts on what the restore does.

Deadlock is not checked (`CHECK_DEADLOCK FALSE`): the bounds on clicks, rules and
attempts stop every model, a script ends, and a user may stop clicking.

## Fairness

Two specifications state fairness. `RestoreRun` has weak fairness of `Step`, the
steps of `StartRestore`; `MCProgressRuns` of `Step \/ DaemonMissed`, those of a backup or
compare. Either is one function on one thread: its steps follow each other, and
`wxYield` returns when there are no more events. The user's actions, other programs and
faults have no
fairness: nobody has to click. `RestoreReturns` and `RunReturns` thus say that the loops of
a run end whatever the user does while it yields. That a request to the server
returns is assumed (a TLS read has a timeout in the library).

## What is proved

`ServerConnectionProofs` proves, for every `MaxAttempts` that is a natural number and
any `NULL` that is not one of the attempts (`ConnectionAssumption`, nothing else):

* `TypeCorrect`, `RequestsOnTheirSession`, `SessionsRemembered`,
  `PointersStayLive`, `ListingsFresh`: the invariants of `shared_connection`;
* `LentOutlivesReads`: its action property.

The invariants are not inductive on their own. `NoForgottenSession`, for instance,
needs to know that a login always happens on the current object, that a new
attempt has a number never used before, and that `Connect2` is entered only with
nothing connected. `IndInv` adds four parts:

* `Numbering`: nothing is known of an attempt not yet made, and the index is
  behind the number of attempts while one is under way. Without it a login could
  give out an index that an earlier listing has.
* `Pairing`: socket and protocol object are of the same attempt whenever the
  socket's object exists; a connected client has a session in its own mode, or a
  dead one; an attempt under way is open or dead.
* `Progress`: how `pc` bounds `connected` and `writable`.
* `Noted`: the index of a cached listing is not from the future.

`InitInv` and `StepInv` establish it; `StepInv` has one step per action, and
three lemmas carry what actions share: `DropInv` (Disconnect, in `Enter`,
`HandleException`, `Disconnect`, `Destroy`), `BreakInv` (an exchange that breaks
off) and `RefuseInv` (`Connect2` returns FALSE). `Invariance` puts them together, and
each theorem follows from it.

`ConfigWindowProofs` proves, from `ConfigWindowAssumption` alone (any settings, values,
locations and files), what its run checks of the user, and two things more: `TypeCorrect`, `CleanIsSaved`,
`ClosingSaves` (a window that closes willingly leaves its file up to date),
`TitleTellsOfChanges`, `DisplayFollows`. `CleanMeansOnDisk` speaks of clean
states only, so it says nothing of the state before an undo; `SavedIsOnDisk`
strengthens it to the clean copies themselves, which are always what the file holds.
`ClosedIsClean` links the closing to it. There is a lemma for each group of actions.

`WindowIsDocument` proves the refinement: the window implements `Document`. `NextIsDocument`
takes each action of the window to one of the document's, or to a stutter: all settings and
locations are an edit (`EditsDocument`), New is `Fresh`, Open is `Load` or, cut short, `Mix`, and
Save with its reload is `SaveOrLose`. Closing needs the invariant: a window that counts
as clean closes at once, and only `SavedIsOnDisk` makes that a close of the document
with nothing lost. The run checks `IsDocument` with the tests among its behaviours, the theorem for every instance.

`SetupWizardProofs` proves, from `SetupAssumption` alone, `TypeCorrect`, `FinishingIsUsable`
and `BackKeepsTypedNames`. The inductive invariant says page by page what was
passed to get there (`AccountPassed`, `CertificatePassed`, `KeysPassed`,
`DirectoryPassed`), and that typed names are dirty (`TypedIsDirty`). `GoToStep` and
`ShowPageStep` carry what all changes of page share; `CertificateStays` and `SpoiltOrKept`
what later pages may do to the files that a certificate was checked against.
`AnswerAccepted` needs to know more of the pages after the request: the request on file is of the
configured account and of the key on file, or no key is on file any more (`AnswerAwaited`), and the
numbers of the keys stay in their range (`MadeInRange`). It holds with one exception that the run
never meets, because its bound `Typed` does not offer it and the proof has no bounds: a user who
saves the operator's answer under the name of the private key loses the key (`KeyOverwritten`).
`SetupAssumption` says that a file of no use and an encryption key are not taken for a
key, a request or a certificate, which are told apart by their labels.

`ProgressRunsProofs` proves all that the run checks of a backup or a compare but its test and its end, for any tree of files, any
rules, any store, any order of the entries of a directory and any changes by other programs.

* `AloneSafe` and `StopHonoured`, from `IndInv`, are about the control of a run: its flags, its daemon and what was
  noted of it. `DaemonStays` is what makes `AloneIsSafe` inductive: a run without its daemon would end the program, and only
  a second run takes it away. `StopRemembered` says that the flag stands as long as the run goes on. `IdleIsIdle`
  holds whether or not a second run came in: without it the start that is refused, which clears
  the history, could leave a button that stops nothing. `GoOnStep` and `OverStep` carry what all
  steps of a run share; `SameControl` says that nothing else matters.
* `TypesCorrect`, from `TypeInv`: the store stays a tree although directories are deleted there, become files or are
  made while others go. `TodoOK` says that what the library has still to visit are nodes apart from each other
  (`Apart`), down directories that can be listed and that no rule excludes, and `StoreOK` that the directory of whatever is to
  be synchronised is on the store already. Both outlive changes by other programs, which is why neither speaks of
  nodes that are there. `Visits` carries what the visits of a backup and a compare share.
* `GaugeCorrect`, from `GaugeInv`. `Stack` says of the calls of `CountLocalFiles` that the ones a call is inside of are those of the
  directories above its own, each past its entry for it. So the nodes that a call has still to come to are apart from those of
  every other (`Pending`, with `LeftOf`: a node and all below it), and `CountedRight` holds: what was counted and what the calls
  will add (`Adds`, a sum) is the number of the visible files that are not pending, up to those that have gone or come. A
  node that goes while it is pending is not pending for long, but it may still be counted as what the one
  before it was, so those that are still to be missed (`Missing`) count twice. At the end nothing is pending, and the library begins with
  everything: `WorkOK` says that the files done and those it may still come to are no more than the gauge has room for.
* `FinishedIsSame`, from `SyncOK`: as long as nothing was told and nobody interfered (`Undisturbed`), every node that the
  library does not come to any more is `Settled`: it is on the store as the rules leave it. `VisitSettles` is the induction
  step of both kinds of run: a visit settles its node, and whatever below it is not visited later is neither to be
  on the store nor there. `SomethingTold` says that a list of errors never forgets, and `OnlyFinish` that no other end
  of a run tells "Finished". `DaemonStays` is needed for that: a backup without its daemon would not tell anything.

They rest on `RunsAssumption`: the nodes are finite in number and all hang below the root, the rules do not exclude the location
itself, and the bounds are numbers.

`TreeFacts` is what these and the next three rest on. The library's induction theorems cannot be used
here, but a set of naturals with a least element can: from `LeastNatural` follow that nodes which are reached from a
root make a tree (`DepthsMakeTree`), induction over a tree (`TreeInduction`), the existence of functions that are defined by recursion
from the root down (`TreeRecursion`, `DefinedDown`), the order of the nodes above a node (`TreeOrder`), and facts
about inserting into and removing from sequences, sorted ones too. `IndexSets` makes a tree of the sets of
indices of a sequence, which a fold of `SequencesExt` goes down. So what `Ancestors`, `Shown`, `Refreshed` or a
fold computes is proved for every tree.

`RestoreProofs` proves of `RestoreSelection`, for every store whose nodes are ordered by their paths
(`StoreAssumption`) and a `NULL` that is no pointer, `SelectionIsSound` and `FreshClicksAreExact`. A stale pointer reads
a slot that was written once or anything that fits (`Garbage`), so `SelectionSound` cannot rest on what
the tree shows. `IInv` says what it rests on: the vector fits its buffer (`VectorOK`), every pointer leads to a slot
that was written once, in this buffer or one before it (`PointersOK`), the entries are sorted, and a node without a
pointer shows nothing and neither it nor a directory above it has an entry that includes (`NullMeansNone`), which is
why the program never has to read through a null pointer.

`RestoreProofs` proves of `RestoreRun`, for every store, every listing of it and every
choice (`StoreAssumption`, `RunAssumption`):

* `StopHonoured`, from `IndInv`: no step of the restore clears the flag before it
  returns, and with the flag set `RestoreNode` gives up.
* `NothingIsRestoredTwice`, `CountingIsExact` and `FinishedMeansRestored`, from `TInv`. Its parts follow the
  run: what the lists are (`ListsOK`) and what begins and ends a phase (`PhasesOK`);
  the copy of the spec loses only entries that include (`CopyOK`), and each is led to by one that stays (`DroppedOK`);
  the loop goes through the entries in the order of the paths, and what is on the stack is
  below the current entry, no node of it below another (`WalkOK`). `NoneRedundant` is why counting and restoring agree:
  once the counting has passed an entry no entry below it is left. From it the count is the
  number of files met (`CountedOK`), and nothing is met twice. `RestoredOK` says why everything in the
  destination is there and, as long as all goes well, what must be.

`RunAssumption` says of `Listing` what a directory on a server is: each object is listed in its own directory, once, and
a directory that has contents is itself listed. A directory whose listing fails is one
of the cases (`history.unread`), an object that is deleted or has no version another.

`ServerCacheProofs` proves all that the run checks of `ServerCache`, for any names and any number of objects and
connections: `ListingIsTrue`, `HeldSurvives`, and the refinement, `CacheIsCatalogue`.

* The invariant is `Inv`: `CacheIsTrue`, and `HeldOK`, that no pointer on the screen is into a buffer that the vector has
  not had yet. Without that, a vector that moves could come to the buffer of an old pointer and make it look good.
* `GetChildren` is a fold over the listing, and `AccOK` is what holds after any part of it: the
  nodes fit their buffer and no name has two (`Whole`), the hash table knows every name (`Tabled`), old nodes stay where they
  were (`Extended`), versions come from entries that were taken (`FromEntries`), all of them if the vector has not
  moved (`Complete`), and only a new name makes it move (`Grown`), for which there was no room (`Roomy`); the names are the
  old ones and those of the entries (`Named`), and each new one has a version (`Offering`). `ListingBegins` and `TakeEntryIs` establish
  and keep it, and `ListingIs` carries it through the fold.
* `CacheIsCatalogue` goes action by action (`NextIsCatalogue`). `GetChildrenLists` is the long one: there are as many names as
  nodes (`NamesCounted`), so the vector that had room did not move, and `Complete` gives what `Catalogue` promises then;
  `GetMostRecentShows` proves that what is remembered is what would be found.
* `CacheAssumption` says that `NULL` is neither an index nor a pointer and that there is a connection to list over.

`BackupTreeProofs` proves all that the run checks of `BackupTree` and `BackupPages`, for every file system, every loaded
configuration and any number of locations and rules: `TreeIsTrue`, `NoRuleDangles`,
`TicksAreTrue`, `EditChangesNothingElse`, `ExcludingIsExact`, `ErasingIsLocal`, `OpeningBringsAllBelow`
and `OpeningSpillsThroughOldRules`.

* The invariant `PanelInv` says that the tree is up to date: the state of each
  loaded node is what `UpdateState` computes from the locations and from the state of its parent
  (`UpToDate`), and rows and boxes of the pages are within their lists (`PanelStarts`, `PanelKeeps`). The refreshes after
  a click begin at `LocationNode` and not at the root. That this is enough is
  `RefreshKeeps` with `LocationNodeIs`: a refresh below a node is enough if the change concerns only one
  location and the node is the one it starts at.
* By induction down the tree, `AllWellPlaced` says what an up to date node shows: its
  location is the outermost one above it, and its rules are in the list of that location. `ShownIsScanned` compares it with the library:
  the program stops asking the rules below an excluded directory, the library stops walking, and both
  leave out the same. From these follow the three invariants.
* For the clicks, `ScannedIs` restates `Scanned`: nothing on the way from the
  location to the node is left out (`Way`, `Out`). `ClickReaches` says that in the location of the clicked node the new
  rules decide and elsewhere nothing changes, so that each theorem is about two lists of
  rules. For the opened path these are `OpenPathSays`, what the new rules say of any node, and `TopIs`: the chain that was
  collected upwards ends at the topmost excluded node, and nothing above that one is excluded.

The assumptions on the constants: the nodes are finite in number and all hang below the root (`TreeAssumption`); a
pattern that people type is told apart from one that the program writes (`Patterns \cap Nodes = {}`); `NULL` is neither a
node nor a rule; a box may be empty (`"" \in Names \cap Texts`).

The theorems are about the specification of the component (`Spec`, `SelectionSpec`, `PanelSpec`); the runs check the same
properties under a specification that has the test's behaviours beside the user's, and bounds.

Only model-checked: that the models pass the scripts (`TestPasses`), which is about one instance; and for good
`RestoreReturns` and `RunReturns`, since liveness is out of the prover's reach. Every other property of a passing run
is a theorem.

## Disagreements found

Four runs show the code doing something other than what its comments say:

* `cache_loses_version` (`VersionForEveryEntry`): when a directory has two versions
  of a name, and a new name between them makes the vector grow, the second version
  is written to freed memory.
* `restore_stale_entry` (`RemovesOurs`): a click removes the entry of another
  node, through a pointer that an earlier click made stale.
* `restore_stop_forgotten` (`StopAlwaysHonoured`): a second restore, started while the
  first yields, clears the request to stop the first.
* `restore_leaves_out` (`EveryRecordSynced`): an exclude entry before the first
  include entry ends the loop; nothing is restored, with no reason given but
  "Restore Failed".

Two clicks in the backup tree do other than their comments may be read to say, and
the model has both. One activation of an excluded node erases the exact rule on it,
and another rule may still exclude it. Where a directory above is excluded instead, a
path is opened to the node and all below it comes in (`IncludeBringsAllBelow`), but
the patterns are not escaped: with a special character in the name of the
directory they match nothing, and all of it comes in (`IncludeSpillsOnlyThroughOldRules`).

What the code does in `ProgressRuns` and no document speaks of:

* The Start button works while a run yields. The second run resets the flags of the first,
  which can then no longer be stopped (its button hides the panel); a second backup
  destroys the daemon, and the first goes on with a null pointer.
* `InitCrypto` throws before the `try` block, and nothing catches it.
* A file that vanishes between `readdir` and `lstat` is told as an error and still counted, as what
  the file before it was.

What the code does in `ConfigWindow` and no document speaks of; the properties
name each as an exception, or the model has it as a step:

* An Open that fails on a bad number or a missing locations block leaves a
  mixture of two files that counts as saved, under the old title.
* Save does not look at the result of `Commit`. The reload that follows then
  brings the old file back over the edits, or its exception ends the program.
* Save As leaves the old name in the title: listeners are told before the name is set.
* New erases locations that the lists of two pages still point to; New and Open
  drop unsaved edits without a question.
* The Edit button of the Locations page changes the name and never the path: setting
  the name notifies the page, which writes the old path back into its box.
* What the wizard sets does not reach the controls of the settings panel.

And in `SetupWizard`:

* A new key's file is emptied before the user is asked about missing random numbers.
* The box on the backup of keys stays ticked when another encryption key is made.
* A request is made with the key remembered when its name was filled in. With a
  name configured beforehand no key is remembered and no request can be made;
  with a replaced key file the new request is refused by its own check.
* A data directory that does not exist is always refused: the check of its permissions
  comes before the code that would make it.
* A key file with errors other than a missing label makes the check compare a label
  that was never read (`ExistingKeyAborts`).
* Cancel takes back nothing that was set or written.

## What is not modelled

* Text: messages, formatting, sizes in bytes, paths as strings. Of spelling the
  models have only whether a name means itself in a regular expression.
* The wizard and the main window are separate models: `ConfigWindow` has the
  wizard's changes as `SetElsewhere`, `SetupWizard` has no saving.
* Most settings: `ConfigWindow` has one of each kind. Load's rules for obsolete or
  unknown keywords are the library's.
* The Box Backup library (a submodule that is empty here): what a backup uploads, what a
  comparison compares and what is on the store are external, as the program's calls and tests show them.
* What symbolic links point to (they count as files), devices and sockets; the recursion of the server cache, which
  is listed one directory at a time.
* `SecondRestore` and `SecondRun` are abstractions: the inner run goes to its end in one step,
  and the models keep only what the outer one can notice.
* A use after free by the comparison is not followed further than
  `LentSurvivesReads`, which says who can cause it. A buffer that the allocator
  hands out a second time at the same address is not modelled in
  `RestoreSelection`.
* The last part of `TestBackup` (a restore by the library itself) and the start-up
  of the tests' own server.
* `BackupFilesPanel.cc`, `Database.cc`, `test.cc` and `wxchart` are not in the build;
  the worker loop of the daemon panel is commented out; layout, help texts and dialogs of the window system keep no state.
* The components with status `not_modelled` in `PROJECT.json`, for the reasons
  given there.

## The plan

Done, in this order: ExcludeList, BackupTree; ServerConnection and its proofs;
ServerCache; RestoreSpec, RestoreSelection, RestoreRun; ConfigWindow and its proofs;
SetupWizard and its proofs; BackupPages; ProgressRuns; the tests as scripts;
Document and the proof that the window implements it; the proofs about stops in
`ProgressRuns` and `RestoreRun`; the proofs about entries and files in `RestoreSelection` and
`RestoreRun`; the last invariant of `SetupWizard`; the proofs about the backup tree and the server
cache; the proofs about the files of `ProgressRuns`; Catalogue and the proof that the server cache
implements it.

Left: the recursion of the server cache into sub-directories, which would compose a `ServerCache`
for each directory.
