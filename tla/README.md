# Zelo, specified

TLA+ models of Zelo (the program still calls itself *Cleaner*), a Windows desktop
program in C++20 and Qt that measures a disk, explains what grew on it and removes
what can go. Each module is translated from `src/src/**`; TLC checks the models on
small instances, TLAPS proves the theorems for every value of the constants.

Paths below are relative to `src/src/`, the program's own source directory.

## 1. The system

### Components, their state and their operations

| component | state | operations | modelled |
|---|---|---|---|
| `storage/quarantine_store` | files under `arquivos/<id>`, the record `quarentena.json`, the counter of `make_id` | `take`, `restore`, `purge_older_than`, `entries` | `QuarantineStore` |
| `monitor/folder_watcher` | a worker thread per folder with a directory handle, an event and a stop token; notes under a mutex | `watch`, `stop`, `collect`, `drain` | `FolderWatcher` |
| `ui/main_window`, `ui/background` | `busy_`, the buttons, `survey_stop_`, nested event loops, tasks of the thread pool, the result and the selected row | every button and every delivery of a task | `MainWindow`, `Sessions`; texts and views not |
| `monitor/snapshot_store` | SQLite tables `snapshot`, `folder`, `tracked_file` | `save`, `apply_retention`, `list`, `latest`, `compare` | `SnapshotStore` |
| `monitor/snapshot_taker`, `growth_report`, `growth_alerts` | none between calls | `take`, `accumulate_subtrees`, `build_growth_report`, `evaluate_alerts` | `GrowthReport`; alerts on free space not |
| `cleaners/cleaner_engine` | none between calls; it walks and deletes | `preview`, `execute` | `CleanerEngine`: `execute` |
| `storage/cleanup_service`, `collectors/temporary_files_collector` | none between calls | `list_files`, `plan`, `plan_folder`, `execute` | `CleanupService`: `execute` by deletion |
| `monitor/action_log` | SQLite table `action` | `record`, `recent`, `search`, `total_freed_bytes` | `ActionLog` |
| `storage/history_store`, `storage/logging` | one JSON file per session in a data folder | `save`, `load_all`, `quarantine_unreadable`, `apply_retention`, `adopt_previous_data_directory` | `HistoryStore` |
| `scanner/storage_scanner`, `scanner/space_survey` | none between calls | `scan` (with a stop token), `survey_space` | `StorageScanner`, `SpaceSurvey` |
| `commands/command_runner`, `command_catalog` | a process and its pipe | `run_official_command` | `OfficialCommand` |
| `commands/startup_control`, `collectors/startup_collector` | switches in the registry | `collect`, `startup_is_enabled`, `set_startup_enabled` | `StartupControl` |
| `commands/installer_cache` | none between calls | `scan_installer_cache`, `remove_orphan_installers` | `InstallerCache`: the first |
| `storage/cloud_release` | attributes of files | `plan_cloud_release`, `release_cloud_space` | `CloudRelease` |
| `core/risk`, `collectors/system_paths` | none: the deny-list | `is_protected`, `build_protected_paths` | `ProtectedPaths` |
| `core/classify` | none: rules on paths | `classify` | `ContentClassifier` |
| `core/rules`, `core/scoring`, `core/usecases` | none | twelve rules, `HealthScore`, `QuickAnalysis::run` | `QuickAnalysis` |
| `collectors/*` | none | one query of Windows each, two catalogs of folders | `QuickAnalysis`, `FindingsCatalog`, one step each |
| `cleaners/available_cleaners`, `ui/presentation`, `ui/ui` | none | tables, wording | no |

How they interact: the interface thread owns every widget and `busy_`. A button
either runs its operation on that thread (start-up control, cloud release, official
commands, installer cache) with a nested event loop inside, or hands a task to the
pool with `run_in_background`, whose result comes back as a queued call. The tasks use
the collectors, the scanner, the cleaners, `CleanupService` and the two SQLite stores,
each with a connection of its own, so that `show_growth` on the interface thread may
read the database a task is writing. A finished analysis is shown and written to the
history in the same call. Watchers run on threads of their own from start-up to
the end of the window. `CleanupService` may move files to `QuarantineStore` instead of
deleting them; the interface only asks it to delete. What each tool did goes to
`ActionLog`, which every caller opens anew.

### What is hard

- *Threads*: the stop of a watcher against its own reset of the event; `drain()`
  against a write; a task against the end of the window it reports to; the pipe of a
  command against its end and its deadline.
- *Re-entrance*: `QDialog::exec` and `processEvents` run other handlers, and the same
  handler, in the middle of one.
- *Failure between two calls*: a file is moved and then recorded; a record is
  removed to make way for its replacement; a session is moved before the disk has it;
  a folder is deleted from one table and its children from another.
- *Half a listing*: a scan, a list of temporary files or an enumeration of products
  breaks off, and what is missing reads as absent.
- *Stale reads*: headers of snapshots read before their folders, a plan executed
  minutes later, switches and attributes written from a list that is old, a file looked
  at before it is deleted while folders are put aside for links.
- *Failed readings*: a collector that was refused gives zero or "off", and a rule
  takes it for a defect.
- *Time*: local time in identifiers and in dates that are compared with UTC.

`PROJECT.json` lists each of these under `hazards`, at its line.

### What makes each component correct

- *Quarantine*: while a content is in the store it can be given back, to its own
  path and over nothing; nothing is lost whatever fails.
- *Watcher*: after `watch` no write is missed; `stop` ends, leaves nothing behind and
  touches nothing that is closed; `drain` returns each note once.
- *Window*: one task at a time, consent is asked for the state that is cleaned, every
  button comes back, the window is never locked for good.
- *Cleaners and cleaning*: only what is inside the allowed roots, or in the plan the
  user agreed to, goes; what is preserved or denied stays, no reachable file is
  forgotten, what is reported is what went.
- *Snapshots*: retention keeps what it says, a comparison compares whole snapshots.
- *Growth*: each byte of growth is in one row, at the folder it belongs to.
- *Scan and survey*: what was not read is admitted, a content of several names counts
  once, the tree and the classes add up.
- *Tools*: each does what was asked, where Windows looks, and nothing else; a command
  always comes back.
- *Analysis*: a computer in a worse state never scores higher, a reading that fails
  never accuses it, and no button is on what is the user's own.
- *History*: a kill tears no session, the newest are kept, the old folder is taken over.

## 2. Modules

| module | models | role |
|---|---|---|
| `QuarantineContract` | `quarantine_store.hpp` | the store the header promises: operations that are indivisible |
| `QuarantineStore` | `quarantine_store.cpp` | the store call by call, any of which may fail or be the last before a crash |
| `QuarantineRefinement` | | the detailed store implements the contract (`INSTANCE QuarantineContract WITH ...`) |
| `FolderWatcher` | `folder_watcher.cpp` | workers, caller, system |
| `MainWindow` | `main_window.cpp`, `background.hpp`, `main.cpp` | the interface thread as a stack of nested loops, and the pool |
| `SnapshotStore` | `snapshot_store.cpp`, with `take_snapshot` and `show_growth` as its users | tables, writer, reader, time |
| `GrowthReport` | `snapshot_taker.cpp`, `growth_report.cpp`, `growth_alerts.cpp`, `compare` | from the disk to the report |
| `CleanerEngine` | `cleaner_engine.cpp` (`execute`), with the task of `run_selected_cleaners` and its record | the walk of the allowed roots beside other programs |
| `StorageScanner` | `storage_scanner.cpp`, `volume_geometry.cpp` | the walk in breadth, entry by entry |
| `ContentClassifier` | `classifier.cpp`, `default_rules.cpp` | pure: the class of a path |
| `SpaceSurvey` | `space_survey.cpp`; extends the two above | totals, tree and classes of a scan |
| `ProtectedPaths` | `protected_paths.cpp`, `system_paths.cpp` | pure: the deny-list of a computer |
| `ActionLog` | `action_log.cpp`, the history tab | rows, and rows that are lost |
| `CleanupService` | `cleanup_service.cpp`, `temporary_files_collector.cpp`, the cleaning of a finding in the window | list, plan, ask, delete, record |
| `StartupControl` | `startup_collector.cpp`, `startup_control.cpp`, the dialog | list, boxes, switches |
| `OfficialCommand` | `command_runner.cpp`, `command_catalog.cpp`, the button | process, pipe, deadline |
| `CloudRelease` | `cloud_release.cpp`, the button | three walks over one folder |
| `InstallerCache` | `installer_cache.cpp`, the review | enumeration, then listing |
| `Maintenance` | | composes the five tools over one `ActionLog` |
| `FindingsCatalog` | `known_locations.cpp`, `app_profiles.cpp` | the two catalogs and their collectors |
| `QuickAnalysis` | the other collectors, `core/rules`, `core/scoring`, `core/usecases` | pure: readings to findings and score; what makes a reading worse (`GetsWorse`) |
| `HistoryStore` | `history_store.cpp`, `logging.cpp` | files, kill, loss of power |
| `Sessions` | `start_analysis` and the list of the window; composes the two above | from the click to the file |
| `*Proofs` | | theorems; `MonitorProofs` is about the three modules of `monitor/` |
| `Sums` | | lemmas about sums over sets, and induction over finite sets |
| `*MC` | | definitions of constants for TLC |

How state and actions correspond to the code:

- **QuarantineStore.** `disk` is the original paths, `stored` is `arquivos/`, `manifest`
  what `entries()` reads. `pc` is the call the running operation makes next, so
  `TakeMove`, `TakeCopy`, `TakeRemove`, `TakeRecord` and `TakeUndo` are the lines of
  `take()` in order, `RestoreMove` ... those of `restore()`, and `WriteTemporary`,
  `ReplaceRecord`, `RemoveRecord`, `ReplaceAgain` those of `write_entries()`. A record
  that cannot be read is the empty set, as in the code. `Faults` names the calls that
  may fail, `Stop` is the end of the process, `Restart` a new one with `make_id`'s
  counter at zero. Owners write to their paths between operations (`OwnerConcurrent`:
  during them).
- **FolderWatcher.** `wpc` walks through `watch`'s lambda: create the event, register the
  stop callback, look at the token, reset the event, arm the request, announce, wait,
  read the result, note. The system's side of the handle (`io`, `buffer`, `full`) is
  `ReadDirectoryChangesW`: it keeps writes from the first accepted request on and
  drops them when its buffer is full. `StopRequest` runs the callback on the
  caller's thread if it is registered, as `std::stop_callback` does.
- **MainWindow.** `stack` holds the operations of the interface thread that wait inside a
  nested loop: `ask` and `notice` are dialogs (they let deliveries in), `pump` is
  `processEvents` (it lets everything in), `running` nothing. A task goes
  `working`, `worked`, `checked` (the `QPointer` was looked at), `posted`; its delivery is
  the `done` callback. Each button's handler is one action up to its first nested
  loop, and one more after each.
- **SnapshotStore.** A statement outside a transaction is a step; what `save()` writes is
  seen at `Commit`. `Kept` is the `SELECT ... UNION` of `apply_retention`; `at` is local time
  and `now` is UTC, `Offsets` what lies between them.
- **GrowthReport.** `ReadVolume` is `volume_space()`, `Scan` the scan and the save,
  `ShowGrowth` the comparison, the report and the alerts. The fold of
  `accumulate_subtrees` is a fold here too, in the same order. A path is a folder and
  the case of its spelling, because `compare` matches exact paths and the report
  folded ones.
- **CleanerEngine.** `Start` resolves the roots, `OpenRoot` takes the next one, `OpenFolder`
  and `CloseFolder` are the two ends of the loop over `FindFirstFileExW`, `PassOver`,
  `EnterFolder` and `LookAt` its body, `LookAt` and `Delete` the two halves of the callback,
  with `final_path_of` in the first and `DeleteFileW` in the second. `leads` says what
  stands at the path of a folder: the folder, a link, or nothing; other programs
  change it (`Relink`), and the files, between any two calls. `Reach` is where a path
  leads at the moment it is used. `owed` is history: the files an execution has to
  answer for.
- **StorageScanner, SpaceSurvey.** `pending` is the queue of folders, `current` and
  `listing` the open one; `ReadEntry` takes any entry the listing still has. `seen` are the
  identities of hard links, `rollups` and `largest` what the result keeps. `Change` creates
  or removes a name anywhere, `RequestStop` sets the token. What follows the scan touches
  its result alone: `Build` is one step.
- **Maintenance.** A behaviour uses one `tool`; the state of the others is fixed, since they
  share only the rows of the log. Each tool is a sequence of stages (`cleaning`, `managing`,
  `running`, `releasing`, `reviewing`) with one action per call that can fail or be
  overtaken: in `CleanupService` the size and the removal of a file are two, in
  `StartupControl` the read and the write of a switch, in `OfficialCommand` the look at
  the pipe and the look at the process, in `CloudRelease` the listing of an entry and the
  mark, in `InstallerCache` each product and each package. `DiskChange`, `OthersChange`,
  `CloudChange`, `InstallChange` and `ChildWrites`/`ChildExits` are other programs,
  between any two of them.
- **Sessions.** `machine` is what is true of the computer; `CollectAndRun` hands over what
  `QuickAnalysis` makes of it, with every reading true or one that fails. `Deliver` shows
  the result and opens the file of the session in one step, as `show_result` does; then
  `WriteSession`, `ReplaceAtomically`, `ApplyRetention`, `RemoveOld`, `QuarantineUnreadable`
  are the calls of `HistoryStore` in order. `Kill` ends the process anywhere, `LosePower`
  also tears what was moved and not flushed. A path is the sequence of its segments.

## 3. Runs

| run | question | bounds |
|---|---|---|
| `quarantine_faults` | What is lost when calls fail and the process dies? Nothing. | two files, one of another volume, two contents each, two failing calls per operation, three seconds |
| `quarantine_contract` | Is the store, with one failing call per operation of the kinds the code has a fallback for, the one of the header? Yes. | two files, two contents, two seconds |
| `watcher` | Is a write missed, is what is owed noted, is a closed event touched, does `stop` end at the next write at the latest and leave nothing? | one folder, five writes, buffer of two |
| `watcher_stop` | Does `stop` end without a further write? Not always. | one folder, one write |
| `window` | Task by task and dialog by dialog: one task, buttons, consent, progress, an analysis after each clean-up | three operations inside one another, the window closing anywhere |
| `snapshots` | Retention by day and week, comparisons | three snapshots, days of two units, a month of two days, a week of three, ten units of time, local time behind UTC, equal to it or ahead |
| `snapshots_west` | Is everything of the last day kept? Not where local time is behind UTC. | the same, local time behind UTC |
| `growth` | Own growth, sum, alerts | four folders in a chain and in a fork, contents 0 or 2, one write, respelling or unanswered question for the free space anywhere, one folder skipped per scan |
| `cleaner` | What does a folder cost that is put aside for a link, does what is to stay go only through a link, is nothing forgotten? One file at most; yes; yes. | a root with a plain, a preserved and a denied subfolder, a second root, a folder elsewhere, three names of which one is preserved, links to the second root, elsewhere, to the preserved and to the denied folder, two changes by other programs, one execution |
| `survey` | Does a scan admit what it did not read, count a content once, keep the largest, and do tree and classes add up? Yes. | four folders, one a link to the root, four names, two of one content, one in the cloud, two callers, two changes, two failures |
| `maintenance` | Does each tool do what was asked and report what it did? Yes. | per tool: three files of which one folder may join the cloud, four start-up entries of which one of the user's key is listed twice and shares its name with a file of all users, three chunks through a pipe of two, three cloud files in two folders, two products that share a patch; one or two changes by others, one failure (of a whole folder, of a part of it, of one answer), one row of the log lost |
| `sessions` | Does the score follow the state, does a failed reading accuse, is a button on what is the user's own, what do failures, kills and losses of power leave of the history? | two analyses, each area of a computer in each of its states or one group of folders of the catalogs, one reading that fails, three seconds of which two sessions are kept, two failing calls, one kill, four states of the data folders |

The bounds are the smallest with which every branch is taken: two files, because
an entry of one may be dropped by the operation on the other; two contents of a
path, because an old one may come back; two failing calls, because `write_entries` has a
second attempt; a buffer or a pipe smaller than what is written, so that it fills; three
nested operations, the longest chain that is not the repetition of a shorter
one; a month shorter than the time that passes, so that snapshots leave it; four
folders, so that a kept folder, one that is kept only when large and one below it
are on one path; two changes by others, so that a folder is put aside and back, or an
attribute set and taken; two names of one content in different folders, so that the
order in which they are met decides; a start-up entry of one name in the key of the user,
seen in both of its views, and in the folder of all users, because only the key of the
switch tells them apart; local time on both sides of UTC, because the retention compares
the one with the other; links that lead to each kind of folder there is. In `sessions`
every step of every scale of the rules is a computer of its own and the folders of both
catalogs are all present, in groups: what is checked about rules and catalogs is checked
for all of them. Every property of a passing run also has a mutant, in which a plausible
slip in the code (a missing flag, a check too late, a wrong key, an enumeration that broke off
and is used all the same) violates it. `watcher_two.cfg` is a further instance without a run: two
folders (symmetric), three writes and a buffer of one, in which the three invariants of
`watcher` hold.

`CHECK_DEADLOCK FALSE` stands where the program may really stop: no file is left
to move, nobody clicks any more, the window is closed, an analysis is stuck.

### Fairness

`FolderWatcher!Fairness`: the operating system schedules every worker and the
caller. Nobody has to call, no program has to write, the five seconds of `watch`
need not pass. `MainWindow!Fairness`: tasks of the pool run and end (each is a finite
scan or a finite list of deletions), the user answers a dialog once it is shown, and
an event loop that runs again and again delivers what is queued for it (strong
fairness: a nested loop may end and another begin in between). `MaintenanceSpec`: the
thread that runs a command goes on and its deadline passes (each of the two weakly
fair); the program it started may write, block or never end. The other modules claim no
liveness, but for the refuted `AnalysisEnds`.

## 4. Proofs

| theorem | says | provisos |
|---|---|---|
| `QuarantineStoreProofs!TypeCorrect` | `Spec => []TypeOK` | |
| `QuarantineStoreProofs!NothingLost` | a content nobody gave up is at its path or in the store | local time does not repeat, owners do not write during an operation |
| `QuarantineStoreProofs!RestoredWhereItWas` | a path holds only contents written to it | the same |
| `QuarantineStoreProofs!RemovalUndoable` | what is in the store between operations has its entry, so it can be given back | `Handled`: one failing call per operation, of a kind with a fallback, one volume, no crash |
| `QuarantineStoreProofs!StoreKeepsContract` | the store call by call implements `QuarantineContract` | the same |
| `MonitorProofs!WatcherTypes` | `Spec => []TypeOK` | |
| `MonitorProofs!CallbacksAreSafe` | the stop callback never sets a destroyed event | |
| `MonitorProofs!StopIsClean` | after `stop()` no thread, request or handle is left | |
| `MonitorProofs!DrainsOnce` | no write is returned by `drain()` twice | |
| `MonitorProofs!WritesAreNoted` | no write after the answer of `watch()` is lost while the worker runs | unless the buffer of the system overflows |
| `MainWindowProofs!OneTaskOnly` | at most one task, with `busy_` set | |
| `MainWindowProofs!EveryButtonReturns` | a button is off only while what took it is under way | |
| `MainWindowProofs!ConsentStands` | nothing runs behind or inside a confirmation about files | |
| `MonitorProofs!SnapshotTypes` | `SnapshotsSpec => []SnapshotsTypeOK` | |
| `MonitorProofs!SnapshotsWhole` | what is listed has its folders and files | |
| `MonitorProofs!WeeksRemembered` | the last snapshot of each week is kept | |
| `MonitorProofs!ComparisonSound` | a comparison of listed snapshots read both whole | |
| `MonitorProofs!DaysRemembered` | the last day whole, the last of each day of the last month, both less the hours by which local time is behind UTC | |
| `MonitorProofs!ExclusiveIsTheirOwn` | what the report says a folder grew by is what its own files, and the subfolders nobody names, grew by | both snapshots name the same folders |
| `MonitorProofs!GrowthIsAccounted` | the rows add up to what the volume lost | both scans measured the whole volume, nothing moved within a folder |
| `MonitorProofs!JumpsAreAlerted` | the alerts stop at the first row below the jump and miss none | |
| `CleanerEngineProofs!CleanerTypes` | `Spec => []TypeOK` | |
| `CleanerEngineProofs!CheckedEachTime` | a folder swapped for a link costs at most one file outside the roots | |
| `CleanerEngineProofs!KeepsAll` | no file with a preserved name is deleted, and one of a preserved or denied folder only while a link at the place of another folder leads there | |
| `CleanerEngineProofs!WalkIsWhole` | at the end of a walk no file of an untouched, readable folder is left unanswered | |
| `CleanerEngineProofs!LogIsHonest` | the records claim no more than was removed | |
| `MaintenanceProofs!CleaningSpares` | what goes was planned, agreed to and unprotected then, however much of a folder was listed | |
| `MaintenanceProofs!CleaningAccounts` | each item is counted once, the history tells what went | |
| `MaintenanceProofs!BoxesAreHonoured` | each box under an entry's own origin that the user changed ends as he left it, and no switch is written but of a box he changed | a key of the registry has one value of a name, a folder one file |
| `MaintenanceProofs!OrphansHaveNoOwner` | a package shown as an orphan has no owner that was installed throughout | Windows answered, nothing was removed during the questions |
| `MaintenanceProofs!PinsAreKept` | a release takes the pin off no file the user keeps | |
| `MaintenanceProofs!ReleaseIsRecorded` | the history says how many files took the mark and what they occupy, each counted once | the row of the log was not lost |
| `SpaceSurveyProofs!WalkTypes` | the queue, the listing and the result keep their types | |
| `SpaceSurveyProofs!WalkIsAccounted` | a complete scan counted every file that was there all along, or stepped over a folder above it and counted that folder | |
| `SpaceSurveyProofs!ContentsOnce` | a large content of several names is charged once | no name of it is touched during the scan |
| `SpaceSurveyProofs!LargestAreKept` | the largest files of the result are the largest of all counted | |
| `SpaceSurveyProofs!TreeAndClassesAddUp` | a total is what was rolled up in the folder and below, the volume's what the scan identified; the children of a node hold no more than the node, the classes no more than the volume | |
| `SessionsProofs!HistoryInductive` | the invariant of the history | |
| `SessionsProofs!NoKillTears` | a torn session is one whose write failed or that the power took before the disk had it | |
| `SessionsProofs!OldNameAdopted` | a folder of the old name is left only where both were found or the rename was refused | |
| `SessionsProofs!NewestStay` | the retention removes a session only while `Keep` newer ones stay | |
| `SessionsProofs!WorseNeverScoresHigher` | of two computers, the one that is as bad in every area and worse in some never scores higher, also when the same reading fails in both analyses | the same antivirus |
| `SessionsProofs!ScoreTells` | the same of the computer a result is of and one a step worse; one serious finding keeps the score at 90 or less | |
| `SessionsProofs!FaultsNeverCount` | a reading that fails takes nothing from the score the true one would have left; a status Defender leaves out, no more than if it were off | |
| `SessionsProofs!NothingIsDropped` | no rule gives a finding without evidence | |
| `SessionsProofs!ButtonFollows` | the details and the button are of the finding under the current row, and the program may act on it | |

They hold for any set of files, folders, entries or products, any faults and any
bounds. The only assumptions are those named in the modules, which TLC evaluates on the
instances. They say that a disk is finite and is a tree (`EntriesAssumption`,
`TreeAssumption` of the scanner), that sizes are naturals and the cluster and the threshold
of large files are not zero (`NumbersAssumption`), that sessions are numbered by their time
and that no session of an earlier version is torn (`HistoryAssumption`, `StartsAssumption`),
that a folder of the cloud has finitely many files and that a walk comes to each folder
once (`CloudAssumption`; `walk_files` follows no link), that an entry or a product has its
own key (`KeysAssumption`; Windows keeps one value of a name under a key), that no
entry is of the 32-bit view of the user's key alone (`EntriesAssumption`: both views are of one key), that the folders of a volume hang from its root and what lies in
an excluded folder is excluded (`TreesAssumption`), that the map of the survey lists a folder
before what lies in it (`PathsAssumption`), that the floor of the report is above zero and not
above the jump (`ThresholdsAssumption`), that the readings of a computer are what Windows can
say of it, the antivirus of another maker than Windows (`ComputersAssumption`), that a chain
of readings goes from good to bad (`ChainsAssumption`), and the like. What is bad in an area is
said once, by `GetsWorse` in `QuickAnalysis`: less free space, more failures of a program,
more items and markers, less memory, protection that is off or older, disks with errors.

The lemmas about sums are in `Sums`: what `MapThenSumSet` adds up over a set does not depend
on the member it begins with, a union of sets that are apart adds up to the sum of their sums,
a larger set of naturals to no less. It also has induction over finite sets, stated with a set of
sets in place of a property, because the library's schemes cannot be cited.

*Quarantine.* `NoLoss` is not inductive: between the calls of an operation the content
may be in one place only. `DurabilityInv` adds, for each value of `pc`, where the
content of the running operation is (`TakeShape`, `RestoreShape`), that ids in use
are not ahead of the clock and counter (so no id is given twice, which is where the
proviso on local time enters) and that what is stored under an id carries the path
its entry names. Each action keeps it by a lemma of its own.

*Quarantine, the contract.* `Handled` names the provisos: section 5 has a counterexample for
each of those dropped. `ContractInv` (in `QuarantineRefinement`, where TLC checks it too) adds
to `DurabilityInv` what an operation knows at each call: that an entry and a stored file
belong together (`Listed`, `OneEntryEach`), that a content is in one place but between a copy
and its removal (`InOnePlace`), what the list about to be written has more or less than the
record (`TakeKnows`, `RestoreKnows`, `PurgeKnows`), and that whoever is on a fallback has
spent the one failure (`Spent`), so that the fallback works. Under the mapping, `take()` takes
effect when the record that has its entry is in force, `restore()` when the file is back
at its path, a purge when it starts; the lemmas named `...Seen` show those steps to be steps of
the contract and those named `...Unseen` show every other one to leave the paths
(`HomeAt`) and the entries that count (`Standing`) as they were. While the record is
removed to make way, the entries in force are those of the list still to be written.

*Watcher.* Five parts, each inductive over the ones before. `Callbacks` says at which
steps of a worker its callback is registered and its event alive: the callback is taken
down before the event is, and taking it down waits for one that runs. `Handles` and
`Requests` relate the request of the system to the step of the worker, so that what
`stop()` has joined holds nothing. `Numbered` says that writes are numbered in the order
they come and none is in two of the notes, the copy and what was returned. `Promises`
says that whoever was answered for has its first request accepted, from where on the
system keeps what is written until the worker notes it.

*Window.* `Locked` is the heart of `OneTask`: `busy_` is on exactly while there is a task, or
the report of one is on the screen. `Shape` says what operations may lie on
one another in `stack`, by the loop each one waits in, whatever its depth; `Modal` that what asks or reports about
files is the innermost, with the pool empty, since a dialog lets no click in; `Borrowed` who
will turn each button on again.

*Snapshots.* `HistoryInv` adds that ids grow with time and are unique (`IdsGrow`): then
the last of a week is the `MAX(id)` of that week among whatever rows are left, and the
third `SELECT` keeps it each time. That children are removed only after their row gives
`WholeSnapshots`, and what a reader has seen of a snapshot still listed
(`FromReadWhole`) gives the comparison. `DaysRemembered` adds that no snapshot is of
the future. The retention takes the age of a snapshot from the clock in UTC, so one of a
user behind UTC looks older than it is by the offset (`Behind`): that much less is promised
by the theorem, and `snapshots_west` shows that the whole of the last day does not stay.

*Growth.* `accumulate_subtrees` takes the folders the deepest first
(`DeepestFirst`), and hands the total of each to its parent. `Collected` says what each has after the first n: what lies
in it and in those below it from which the way up is among those n (`Part`); after the last that
is all below it (`SubtreesAreSums`). So a snapshot is a `Shot`: each folder it names, once, with what
was measured in it and below. `GrowthInv` carries that from the scan to the report, and of the
report that it is `Told`: what `build_growth_report` takes from a folder is the difference
of the named subfolders (`ExclusiveIs`), and what is left is its own (`OwnTold`). Summed over all rows,
whatever is taken from one folder is the difference of another, and the root's is left
(`RestIsRoot`); that needs the rows to hold the parents of the rows, which is the proviso
`NothingMovedWithin`, and the total of the root to be the volume's. Of the lists by size
nothing is used but that `Descending` is a sequence of all members in descending order
(`ListedDescending`), and no alert needs more.

*Cleaner.* A look that finds a file inside is followed by its deletion, and in between
other programs may put the folder aside for a link that leads out: `Strays` counts one
file for each such swap, the one under way included, so that a swap never costs two,
however many executions there are. `Checked` says what the last look established about the
file that is about to be deleted and `Routes` that no preserved name waits to be walked or is the
folder being listed; with
`OnlyDeleteRemoves` they give `KeepsAll`. For
`WalkIsWhole`, `Ahead` says that every file still owed is ahead of the walk: its root
is left, its folder or the one above is pending, its entry is in the listing, or it is
the one being deleted. `InPlace` adds that its folder was not touched since, which
is why opening that folder brings the entry (`OpenedIsListed`). When nothing is left
to walk, nothing is owed. Assumed of the constants: folders are not names, subfolders
belong to one root, a root is not preserved, what is under a denied root is denied,
and links lead to roots without subfolders or to folders without subfolders of their own.

*Maintenance.* One invariant per tool, kept by the steps of that tool and untouched by
the others. `CleaningInv`: what is left to remove and what is gone are items of the plan
(`Planned`), the list in force is at least as strict as the one the user agreed under,
because folders only join the cloud and joining only protects (`CloudOnlyProtects`,
`Spared`), and removed, skipped and left make up the plan (`Counted`). `StartupInv`: a
program is listed once per view that shows it (`OneEach`); the key of the item under its
own origin is written by no other item (`KeysApart`), also not by the second one of a
value of the user's key; and such items before the current one stay settled (`InTurn`).
`InstallerInv`: products installed since the review began are still in the enumeration and
those before the index were asked for (`Asking`); installing appends, so only a removal
shifts an owner past the index. `CloudInv`: a file pinned when the user agreed and ever
since was seen pinned by the listing, if it was seen. `ReleaseInv`: what the walk has before
it (`Ahead`: the files of the folders still to open, the names of the open one) never meets
what took the mark, so the tally and then the question hold the number and the bytes of
the marked files until they are recorded. That one more file adds its own bytes to the sum
(`SumOneMore`) is proved for `MapThenSumSet` itself: a sum that begins with another member is
the same (`AnyFirst`), by induction on the number of members, which is made without the
library's schemes from the least member of a set of naturals (`NatClosed`).

*Scan.* `Frontier` says that what is still to be opened or read lies side by side in the
tree, above nothing that was counted or given up: hence no entry is met twice. It is why
`AncestorsOrSelf` had to be shown to climb to the root and to contain no folder twice
(`WholeClimb`, `NotBelowItself`, `Above`). `Promised` is the other half: each file that was
there all along, and that is not behind a link, is counted, or it or a folder above it
waits, is in the open listing, or is a gap; nothing waits when the scan says it is complete.
`StillThere` is why opening a folder brings every entry nobody touched.
`ChargedOnce` ties the charge of a content to whether one of its names was met, which is
what `seen` remembers. `Outdone` says that what was cut from the list of the largest has as many
as are kept above it, and that stays so when the list is cut again.

*Tree and classes.* `RolledOnce` and `Tallied` relate what was rolled up to what the scan
identified, the open folder included. The fold of the totals is the one of the growth report on
another map, and so is the argument (`TotalsAreSums`). Nodes that hang from one node lie side by
side in the tree (`HungApart`), and so do the leaves the classes are counted at
(`LeavesApart`); folders side by side hold no more than what they lie in (`SideBySide`). `Built`
ties the survey to the result it was built from, which takes no further step.

*History.* `Written`: what is about to be moved is torn only if its write failed, and then it is
excused. `Adopting` follows the two folders from the first start on. `Spared`: each
session the retention still has to remove has `Keep` newer ones that are not on its list,
so that a removal that fails, or a kill, leaves it true.

*Score.* A list of findings is `Milder` than another when it takes no more of any category; the
score of the milder one is no lower (`OverallFalls`: the mean and the worst category both fall), and
lists that are milder part by part are milder joined (`MilderJoined`). `NoWorse` says of two
snapshots, collector by collector, that the first gives no rule more to say; each rule keeps that
order (the lemmas named `...Mild`), also `RecurringAppFailures`, which looks at the first of a list
only: `LargestFirst` puts the worst there (`FrontIsWorst`). The two rules of reclaimable space take
nothing (`LocationsTakeNothing`, `ProfilesTakeNothing`), whatever the catalogs. Last, each
collector keeps the order of the computers (`SnapshotsNoWorse`) if both readings fail or only
the first (`FailsToo`): a collector that was refused must look no worse than one that was
answered. The exception is the status Defender leaves out, which the code takes for off: it
fails only where it costs nothing, and is as bad as the same computer with the protection off
(`OffIsAsBad`). `ResultIsOfTheMachine` says that what is
delivered is such an analysis of this computer.

*Button.* `Shown`: in every state the details are under the current row of the result on the screen and
the button is that finding's; `RulesName` shows that a finding about start-up items lists some.

Only model-checked: everything under fairness (`NotedInTheEnd`, `StopEndsAtNextWrite`,
`BusyEnds`, `CleanedThenAnalysed`, `CommandReturns`), since liveness and ENABLED are out of the
prover's reach, and one safety property, `ButtonSparesWhatIsYours`: `ButtonFollows` proves what it
says of the row and the risk (`ButtonOnTheRow`), and the rest compares some fifty paths of two
catalogs with one another, name by name, for the one computer the run has. Nothing in it
depends on a bound.

## 5. Where the code and its comments disagree

With a run: `watcher_stop` and `snapshots_west`; `PROJECT.json` quotes the lines under `findings`.

Met while modelling, refuted by TLC, and not among the runs. The first column is a
configuration of this directory, to be run as `tlc -config <name>.cfg <module>`, and what
to change in it; the property replaces the ones it lists.

| configuration | module | property | what it shows |
|---|---|---|---|
| `quarantine_unopened` | `QuarantineStoreMC` | `Undoable` | a record that cannot be opened is taken for an empty one and overwritten (`quarantine_store.cpp:56`) |
| ... `Faults <- NoFaults`, `MayCrash = TRUE` | | `Undoable` | a process that ends between the move (165) and the record (187) leaves a file `entries()` does not list |
| ... `Faults <- RecordUnwritable`, `OtherVolume = {f1}` | | `Undoable` | the undo of a `take` whose record failed is a rename (194) that cannot work across volumes |
| ... `Faults <- RecordCutShort` | | `Undoable` | a record cut short when its buffer is flushed, after the stream was tested (113), replaces the good one |
| ... `Faults <- FileHeld` | | property `PurgeDropsOnlyWhatIsGone` | a file in use when it expires stays without an entry (263) |
| ... `Faults <- NoFaults`, `ClockRepeats = TRUE` | | `NoLoss` | an id is given twice when local time shows a second again after a restart (36, 165) |
| ... `Faults <- NoFaults`, `OwnerConcurrent = TRUE` | | property `RestoreNeverOverwrites` | the owner writes between the look at the path (214) and the rename (223) |
| `watcher_refused` | `FolderWatcherMC` | `AnsweredIsWatched` | `watch` answers TRUE though the system refused the event or the request (`folder_watcher.cpp:214`) |
| ... `MaxWrites = 2`, `MayRefuse = FALSE` | | `DrainReturnsAll` | a write noted between the copy and the clear of `drain` is returned by neither (246) |
| `window_twice` | `MainWindow` | `NotInsideItself` | a command is started inside itself (`main_window.cpp:1387`) |
| ... `MaxDepth = 2` | | `SecondClickBarred` | commands and cloud release do not look at `busy_` (1088, 1387) |
| ... `MaxDepth = 1`, `MayClose = TRUE` | | `OwnerAliveAtPost` | the window ends between the look at its `QPointer` and its use (`background.hpp:39`) |
| `snapshots` | `SnapshotStoreMC` | `ComparedWhole` | the retention removes folders between the statements of a comparison (`snapshot_store.cpp:366`) |
| `growth` | `GrowthReportMC` | `ExclusiveIsAlwaysOwn` | a deep folder that passes the size from which it is kept is reported as grown by all it holds, and its parent as shrunk (`snapshot_store.cpp:372`; `main_window.cpp:2047` says each folder shows its own growth) |
| `cleaner_unlogged` | `CleanerEngineMC` | `RemovalsLogged` | removals without a record when the log cannot be opened (`main_window.cpp:684`) or written (`action_log.cpp:173`), though `action_log.hpp:55` calls the record obligatory |
| `cleaner` | `CleanerEngineMC` | `OnlyInside` | a folder put aside for a link after the last look at a file (`cleaner_engine.cpp:279`) leads its deletion (293) out of the roots, though `cleaner_spec.hpp:30-33` says no rule outside this code lets it touch what is not in them |
| `cleaner` | `CleanerEngineMC` | property `KeepsWhatLinksReach` | a link inside a root to a denied or preserved folder is followed and the folder emptied: the lists are asked about the path, not about where it leads (188, 286) |
| `survey` | `SpaceSurveyMC` | `FloorIsMarked` | a folder whose listing breaks off, or beyond the fifty that are kept, leaves its ancestors with a total that is a floor and not marked as one (`space_tree.hpp:34`) |
| ... `PathOf <- ProtectedInside`, `TreeDepth = 0` | | `SafeNotOverstated` | a protected folder below the depth of the tree counts for the class of the node above it |
| `maintenance` | `MaintenanceMC` | `PartialListSpared` | a listing that breaks off is planned as far as it got, and deleted: the scan without a stop token always counts as completed (`storage_scanner.cpp:326`), so the refusals of half a list (`temporary_files_collector.cpp:87`, `cleanup_service.cpp:70`) are never met |
| `maintenance` | `MaintenanceMC` | `EveryBoxHonoured` | a program of the user's Run key has two boxes, for two views of one key (`startup_collector.cpp:38-39`), and Windows never asks the switch of the second (`startup_control.cpp:33-35`): unmarking it leaves the program starting |
| `maintenance` | `MaintenanceMC` | `ButtonMeansWork` | the button comes back though nothing is left to mark: the second plan finds the files just marked, which the service has yet to empty (`main_window.cpp:1140-1142`) |
| `maintenance` | `MaintenanceMC` | `NobodyClaims` | a query Windows does not answer counts as no package, and the package as nobody's (`installer_cache.cpp:112`; `main_window.cpp:1239` says no product claims it) |
| `sessions` | `SessionsMC` | `ActionOffered` | a finding the program may execute has no button when its list of paths is empty (`main_window.cpp:1617`) |
| `sessions` | `SessionsMC` | `OncePerPath` | two folders are in both catalogs and make two findings (`known_locations.cpp:52-54` says they are not summed twice) |
| `sessions` | `SessionsMC` | `UnseenNamed` | what starts with Windows, the updates and the reclaimable folders are never reported as not looked at (`main_window.cpp:2067`) |
| `sessions` | `SessionsMC` | `DisabledNotAccused` | an item that was switched off still counts among those that start with Windows (`too_many_startup_items_rule.cpp`) |
| `sessions` | `SessionsMC` | `CompleteOrAbsent` | a loss of power leaves a torn session: what is moved is not flushed (`history_store.hpp:44-46`) |
| `sessions` | `SessionsMC` | `NoFaultAccuses` | a status Defender leaves out of its answer is taken for off (`security_collector.cpp:17`), and a computer that is protected loses points |
| `sessions_stuck` | `SessionsMC` | property `AnalysisEnds` | a Run key deleted while its values are enumerated answers with an error that is not the end of the list: the loop goes on (`startup_collector.cpp:54-63`) |

Read in the code, without a property: `total_freed_bytes` counts what a release of cloud
space marked as freed; `plan` accepts links to files, since `is_regular_file` follows them,
though `cleanup_service.cpp:29` says they are refused; a program that writes without a
pause is read without a look at the deadline (`command_runner.cpp:241`); the rows of the history
are ordered by the text of their local time, which a repeated hour shuffles; seven of the twenty-nine known locations lie
under folders the deny-list protects and are never offered; the retention of sessions
runs before the unreadable ones are set aside and counts them among the kept; the name of
a session is local time to the second, so that in a repeated hour one takes the place of
another.

## 6. Not modelled, and the plan

Not modelled in the modules above: wording and JSON; the list of large files
and the two alerts on free space; the views of the space tree and the
start-up timer of `-a`; `preview()` of the cleaners; the mode of `CleanupService` that
gives to the quarantine, which the window never asks for; `remove_orphan_installers`,
`closest_to` and `RiskClassifier`, which nothing in the program calls; the way each
collector asks Windows; two processes of the program at once (nothing keeps a
second one from starting, and the quarantine has no lock). A behaviour of `Maintenance`
uses one tool; that tools overlap on the interface thread is `MainWindow`'s subject.

Open: `CleanerEngine::preview` against `execute`, and the alerts on free space.
