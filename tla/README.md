# A formal model of 2Keys

2Keys turns a spare keyboard into a macro keyboard. A *detector* watches the
keyboard, on a Raspberry Pi or in a virtual machine, and posts the hotkeys it
recognises to a *server* on the PC, which runs them through an *executor*.
Detectors and executors are *add-ons*: npm packages in a registry, each with
its own registry of the software it needs (AutoHotkey, Vagrant, ...).

This directory holds TLA+ modules for the parts of the system whose behaviour
depends on order, on failures and on concurrency, the TLC runs that check them
on small instances, and proofs for every instance. `PROJECT.json` lists the runs,
the mutants every property is tried against, the lines of source each definition
stands for, the hazards and the theorems.

To check a run: `tlc -config <run>.cfg <module>.tla`; proofs: `tlapm <module>.tla`.

## 1. The system

| Component | State | Operations | What is hard | What makes it correct |
|---|---|---|---|---|
| **Add-ons registry** `packages/@twokeys/addons/src/registry.ts` | package.json and node_modules of the registry's directory; the `packages` table; the SQLite file | createNewRegistry, install, update, uninstall, reindex, loadAllOfType, all going through addPackageToDB | three stores changed one after the other, by npm and by SQLite; several processes (setup, CLI, server) | the table lists only valid add-ons, says what is installed, and can be rebuilt |
| **Software registry** `addons/src/software.ts`, `software-query-provider.ts`, `util/` | tables `software` and `executables`; a folder per piece of software | installSoftware, runInstall, updateSoftware, deleteExecutable, renameExecutable, uninstallSoftware | tables shared by all add-ons; inserts sent all at once; downloads, copies and removals that fail half-way | each add-on sees and changes only its own; tables and folders agree; no orphans, no duplicates |
| **Server** `packages/@twokeys/server/src` | map of detector configs; requests in progress | load, watch and reload configs; trigger a hotkey | file changes reported while files are being written; reads that overlap | the map follows the files; each request gets one true answer |
| **Keyboard watcher** `detectors/detector-pi/detector/twokeys/watcher` | candidate spellings of the keys that are down | key down, repeat, up; match; post | keys released in any order, keys with several spellings, a watcher that starts while keys are down | what is posted is what is pressed; nothing is remembered for ever |
| **Legacy server** `packages/@twokeys/legacy-server/src` | config.yml | trigger, update-keyboard-path, get config | read-modify-write without a lock; runs that are not awaited | no update is lost; down before up |
| **AutoHotkey executor** `executors/@twokeys/executor-ahk` | the files of a run; the AHK engine | execute | native threads, long scripts | each run ends with its own result |
| **Pi configuration** `detector-pi/.../add_keyboard, sync, init, daemon` | config.yml on the Pi | add keyboard, sync config, init, generate daemons | truncation before writing, a process that kills itself | config.yml is never lost |
| **Prompts and logger** `packages/@twokeys/core/src/prompts.ts` | the silence of a logger | question, warning, info | silence saved by one prompt and restored by another | the silence after a prompt is that before it |
| **Setup** `packages/@twokeys/common-hi/src/setup` | main config, clients, static IP, start-up daemon | out-of-box setup, new client, new project | a step of several failing; an interval racing a timeout | what the config says is done is usable; no command hangs |
| **Core configuration** `packages/@twokeys/core/src/config.ts` | YAML files | load, write, stringify | one file at a time | - |
| **Desktop controller** `detectors/detector-desktop/controller` | a Vagrant machine, templates | install, new client, startup | external commands | - |
| **Native utilities** `packages/@twokeys/native-utils` | none | Windows calls | - | - |

How they interact: setup calls the add-ons registry to install add-ons, and the
add-ons' `install` functions call their software registry. The server loads its
configs with core, and detectors' controllers and executors through the add-ons
registry. Detectors post to the server over HTTP. All registries of one
installation share one SQLite file, which is the shared state of the system.

## 2. Modules

| Module | Models | Run through | Proofs |
|---|---|---|---|
| `SoftwareRegistry` | the software registry | `MCSoftwareRegistry` | `SoftwareRegistryProofs`, `SoftwareReportsProofs` |
| `SoftwareCatalogue` | what its table promises (abstract); refined by `SoftwareRegistry` | | |
| `AddOnsRegistry` | the add-ons registry | `MCAddOnsRegistry` | `AddOnsRegistryProofs` |
| `KeyboardWatcher` | the watcher of the Pi detector | `MCKeyboardWatcher` | `KeyboardWatcherProofs` |
| `HotkeyServer` | start, configs and hotkey route of the server, with its executor | `MCHotkeyServer` | `HotkeyServerProofs` |
| `ConfigSync` | the two config.yml, of the legacy server and of the Pi | `MCConfigSync` | `ConfigSyncProofs` |
| `HotkeyRuns` | hotkeys from the Pi's posts to the scripts of the legacy server | `MCHotkeyRuns` | `HotkeyRunsProofs` |
| `Setup` | out-of-box setup, prompts, static address, creation of clients | `MCSetup` | `SetupProofs` |

The `MC` modules only give constants their values. An operator whose comment
begins with *Slip* is a plausible mistake in the operation that follows it; it
is used by no specification and stands there to show that the properties would
notice (`mutants` in `PROJECT.json`).

How the modules fit together: `Setup` abstracts the two registries to the
tables and add-ons they list, which is what `AddOnsRegistry` and
`SoftwareRegistry` are about in detail. What `KeyboardWatcher` posts is an event
of `HotkeyRuns` (the legacy route) or a request of `HotkeyServer` (the
present one); the config that `HotkeyRuns` reads is the one `ConfigSync` writes.

### SoftwareRegistry

A *caller* is one `SoftwareRegistry` object, opened for one package. Each method
is an action that starts the call, followed by one action per `await`: `at[c]`
says where the call stands and `arg[c]` holds its arguments and what it has
read, the local variables of the function. Between two steps of a call, any step
of any other caller may come. One SQL statement is one step.

* `software`: uuid -> row. `executables`: a set of rows; an executable's path is
  kept as the name of the folder it was joined to.
* `folder[<<package, name>>]`: "none", "empty" (what mkdirp leaves), "part" of the
  files or all of them ("flat"), or either with directories among them ("partial
  tree", "tree"), as a ZIP may have: `copyContents` makes the directories of its source
  and never the destination itself, succeeds on an empty source, and fails without one
  (`CopyContents`). `Over` says what writing over a folder leaves and `Remains` what a
  removal that fails half-way leaves (`RemovalFails`).
* `inflight`: what is left to do for each executable of a list given to `Promise.all`:
  an INSERT of `installSoftware`, or, in an update, a SELECT (`FindExecutable`) and then an
  UPDATE or INSERT. They are executed in any order. When one is rejected, for a name
  that is taken or a path that is missing, the call rolls back or throws while the
  others are still to come (`Reject`, `Awaited`).
* `opened[c]`: `initDB` was called by this object; `uninstallSoftware` and
  `runInstall` do not call it.

UNIQUE constraints refuse a statement; foreign keys are declared and not
enforced, as SQLite does by default. Tables are assumed created. Users'
executables (`userInstalled`), arch and os columns are left out: no control
depends on them but the join of the path.

`SoftwareCatalogue` is the abstract view of the table: one piece of software is
registered, renamed or removed at a time; a package has one of each name; a
uuid stays with its package. `entry` is the refinement mapping and
`ImplementsCatalogue` the refinement.

### AddOnsRegistry

Callers are processes, or promises of one process, on one registry directory.
`db` goes from "no directory" to "absent" (directory without SQLite file), to
"empty" (a file without the table, which `initDB` or an interrupted creation
makes) and to "ready". `deps` is `dependencies` of package.json, `module` the
version npm put in node_modules, `row` the version the `packages` table records.
A package version is "plain" (no 2Keys metadata), "entryless" (types without `entry`,
on which `validatePackageJSON` throws), "undescribed" (metadata that it accepts, no
description) or "add-on": the four cases the code treats differently. npm is external: it changes node_modules first
and package.json second, or fails.

`addPackageToDB` is the part install, update and reindex share: `QueryRegistry`,
`ReplaceRow`, `ReadPackageJSON`, `WriteRow`; `NotAdded` and `Added` are its two
kinds of return, and where each caller goes from there.

### KeyboardWatcher

A keyboard is a record of its keys, the table of their spellings, the names the
config gives to some of them and its hotkeys; `KeyMap` is what `apply_mappings`
makes of table and names. Spellings are sequences of characters, since the code
compares lengths and sets of characters and removes substrings. `held` is the
keyboard itself, `keys` is `self.keys`, `sent` the message of the last event.
`missed` is a history variable: keys that were down before the watcher started.
`Press`, `Release` and `CheckForHotkey` are `change_key_state` and
`check_for_hotkey`; `StripAll` is the loop over the spellings of a modifier and
`Strip` one round of it. `StandsAt`, `Occurs` and `Without` are Python's `find` and
`replace`. A key beyond the table raises an error nobody catches and ends the
watcher (`Beyond`), when the event is logged; so does a key that the table maps to None and the
config gives no name to, but only when it is added, or, released, after the hotkeys were
checked (`DownDies`, `UpDies`). The user starts and stops the watcher.

### HotkeyServer

The server checks its project, loads each detector config for the first time and
watches its file, runs the startup tasks of the detectors' controllers and only
then listens (`server`, `stage`, `tasks`). `file` is what is on disk; an edit
truncates (`Torn`) and then writes, in one piece or in two, the first of which may
parse as a config without its hotkeys (`WritePart`). The watcher reports changes
(`changed`) and each report starts a load, whatever loads are under way: `started`
counts those that have yet to read, `read` has what the others read, in that order,
and any of them may end next (`EndLoad`). `original` is
the config of the first load, which the callback of `watch` keeps for ever.
Histories: `unseen` (the last change came between the first read and
the watch), `late` (how many of the loads under way read before one whose config is in
the map already) and `overtaken` (the config in the map was read before another that has
been there).

A request is checked in the order of the route's early returns, then run by its
executor: `running`, `looking` for the executable, `script`. A script runs on
Node's own thread, so nothing else of the server moves meanwhile (`Free`),
files and clients excepted.

### ConfigSync

`server` and `detector` are the two config.yml, each a map from keyboards to the
file of their device, or missing, just emptied, or garbled. A write is two
steps, a truncation and a write at the start of the file: `Written` says what two
writers who overlap may leave. `term[t]` is a command of the Pi in a terminal
(add for one keyboard or for all, init, sync), with the local variables of
its process; `post[m]` a request to `update-keyboard-path` in service, which loads
the config, empties it, writes it, answers. Posts time out, are lost, and are
served after their sender has gone on (`Detached`); commands and the server
are killed anywhere, and ^C of one keyboard's process lets `add_keyboards` go on to
the next (`KillCommand`). An exception in the handler leaves the process watching the
other devices (`Unreadable`) until each has had an event (`HungEnds`). Histories:
`pressed` (which devices' keys were pressed for a keyboard), `lost` (how the
detector's config may have got lost) and `alone` (the terminal whose add has had
no other command and no other request beside it since it read the config).

### HotkeyRuns

One process per keyboard on the Pi reads the events of one hotkey in turn, the
odd ones "down" and the even ones "up", and posts those its type asks for
(`Posts`), waiting for the answer until its timeout (`watcher`, `at`). The server
fetches the config, answers, and runs the script without anybody awaiting it;
while a script runs, Node is blocked (`Free`). `config` is the sequence of configs
the user has written, `got[k][i]` the one event `i` was looked up in, `posted[k][i]`
the one current when it was posted, `ran[k]` the events whose script was run,
in order.

### Setup

`at["oobe"]` and `at["client"]` are the stages of the two commands, `run` the
options and local variables of the setup. `LoadMainConfig` to `FillDone` follow
`oobe`: the main config (`main`: none, empty, begun, done), the prompts with the
silence of their logger, netsh and `checkIP` with its interval of four ticks and
its timeout, the three tables, the add-ons one by one, and the final write.
`StartClient` to `SetupClient` follow `newDetector`. The adapter
changes at any time, npm, netsh and scripts fail, either command is killed
anywhere. `run.list` is `config.addonInstallList || []`, empty or not: with an empty one
`FirstOr` goes from the last table to the final write. `did` is a history: the list of
the setup that opened the main config, and what that setup has done since.

## 3. Runs

| Run | Instance | Question |
|---|---|---|
| `software_isolated` | 2 add-ons with software of one name, 3 uuids, 2 executables, 4 calls; network, disk, crashes | Do add-ons leave each other's software alone, and is what a call reports true? |
| `software_sequential` | 1 caller, 2 names, all operations, 3 calls; network, disk, crashes | Do executables stay with their software, and do paths given follow its name? |
| `software_shared` | 2 callers of one add-on, 2 names, lists that are rejected in part, 3 calls | Does the table behave as the catalogue in any race? |
| `software_installed_flag` | as the first, 2 calls | divergence 1 |
| `addons_recovery` | 1 caller, 2 packages of all kinds, 2 versions, 5 calls; npm, script, crash | Are reports true, does reindex repair, does everything end? |
| `addons_concurrent` | 2 callers, a package that loses its entry points, 4 calls; npm, crash | What may come into the table and leave it, in any interleaving? |
| `watcher_keyboards` | a keyboard of letters (a key that only the config names, a key beyond the table, hotkeys of every form), one with control, shift and letters, one with `$UP$`, `$LEFT$`, F1 and a power key without spelling; the watcher starts, stops and dies | Is exactly what is pressed posted, and is anything remembered for ever? |
| `server_serving` | 2 files, 2 edits or one in pieces, any number of loads at once, 1 client, 2 requests of every kind | Does the map follow the files, does the server start before it serves, and does each answer tell what happened? |
| `server_renamed_twice` | 1 file, 2 edits, 3 names | divergence 2 |
| `config_sync` | 2 keyboards, 1 device, 2 terminals, 2 posts, 2 commands; kills, lost and late posts | Does each keyboard keep its own path, on both sides, and how can the config be lost? |
| `hotkey_runs` | 2 keyboards (one split by event), 2 events each, 1 edit | Is a press run once, as the config says, and does the Pi go on? |
| `setup` | a list of no add-on, or of 2 one of which is none; 2 clients, 3 commands; every option, failure and kill | Is what the config says is done usable, and does every command end? |

**Bounds.** `MaxCalls`, `MaxEdits`, `MaxCommands`, `MaxEvents` bound the counters;
`Ids` bounds the uuids in use, `Posts` the overlap of
requests; loads of one file overlap without a bound of their own. They are chosen by the longest interesting story. A registry
must be created, a package installed, changed, its call killed, and
reindexed (5 calls). Software must be installed by two add-ons and uninstalled
by one while the other goes on (4). A file must be edited, half read,
and edited again (2). A setup must fail or be killed, be run again, and
race the creation of a client (3). Two terminals with two requests let a late
request of one command meet the writes of the next; one device is enough for a path
to reach the wrong keyboard, as there are two. Two events of one
hotkey are its down and its up, with a script of the other keyboard in between.
Three uuids allow an install while two others exist. The keyboards of
`watcher_keyboards` have no counter: every sequence of events is covered, in
30 534 states, and deadlock is checked. The longest runs are `software_shared` (854 000
states) and `software_sequential` (711 000). Symmetry (of uuids; of callers in
`addons_concurrent`; of devices, posts and terminals in `config_sync`) is used in
runs without liveness only. Deadlock is not checked where a bound lets everything
stop.

**Assumptions that matter.** `ReportedInstall` and `ReindexRebuilds` of add-ons
are about a user who is alone: with a second one, another install may come
between the last step of the first and its reading. `software_sequential` has one
caller because a renamed executable and an uninstall of two callers do
leave orphans; for the same reason its lists have one executable without a path at most,
alone (a list rejected in part leaves statements behind, which an uninstall does not
wait for). `UpdatedPath` is about executables given with a path to an update, and not
about an update that met such leftover statements (`alone`); `software_shared` has the
lists that are rejected in part. `CandidatesMatchHeld` and `HotkeyFiresExactly` speak of keyboards whose
keys have one spelling each, as the first and the third have; the modifiers of the second
are of one side each. What the three keyboards have in common is stated in the
module:

* `Apart`: no spelling lies in that of another key, nor begins in one, unless no
  spelling begins as it goes on after that one (`$UP$` begins where `$LEFT$` ends, but no
  key is spelled by U);
* `Unambiguous`: no wording of keys held together has the length of a hotkey and
  characters among which are all of its own, or the other way round, without having
  the same characters, each as often. It is a condition on the keyboard and its hotkeys,
  not on the form of hotkeys: those with `$KEY$`s, in which `$` comes twice, are covered;
* `NoAnagrams`: no two hotkeys of the same characters.

`KeyboardsApart` in `MCKeyboardWatcher` has TLC evaluate them, and the theorems are about
all keyboards like these. They are what the documentation takes for granted, and do not
hold of every keyboard: F1 and 1 are not `Apart`, nor Esc (`$ESC$`) and E; F11 and F12
with a hotkey on either are not `Unambiguous`, nor left control and left shift with a
hotkey `<^+A`. Section 5 says what the code does then; the hazard of such coincidences
(`watch_keyboard.py:208` in `PROJECT.json`) has no property for that reason.

`server_serving` takes
files that keep their names; its loads overlap, and the two ways an edit gets lost are
named in `MapFollowsFiles` and `EditsArrive`, which promise all others. `AddedOnBothSides` speaks
of an add beside which no command and no request ran from its reading of the
config to the answer, because overlapping commands and requests do lose updates
(section 5). `Setup` has one setup and one creation of
a client at a time. With an empty list of add-ons a setup may end well without the table
of packages (section 5), so `DoneMeansUsable` promises that table only when
there was an add-on to install.

**Fairness.** Each is weak, on what the program does by itself.

* Add-ons registry, `WF(Continue(c))` for each caller: npm and SQLite answer, and Node
  resumes an await. Nothing makes a user start a call. (`CallsEnd`)
* Server: Node runs its start, its callbacks and its answers; whoever
  truncated a file writes it; startup tasks and scripts end, well or badly. Users and
  clients owe nothing. (`EditsArrive`, `RequestAnswered`)
* `HotkeyRuns`: each process on the Pi has its timeout (`requests.post(...,
  timeout=2)`), and Node does not stop while there is something it can do: one
  fairness for all requests, as one of them may wait behind another. Scripts end.
  No fairness makes a post arrive. (`ServedIsRun`, `KeyboardsKeepReading`)
* `Setup`: `WF(Oobe)` and `WF(Client)`, steps that include the ticks and the
  timeout of `checkIP`, and npm, SQLite and scripts. Prompts wait for their user, who
  owes no answer: `CommandsEnd` counts them as rest. The adapter may change, or not,
  for ever.
* `config_sync` states safety only: a process whose handler threw waits for
  devices until it is killed (`Unreadable`), so there is nothing to promise.

## 4. Proofs

TLC covers the instances above; TLAPS covers any sets of callers, packages, names,
keyboards, files and clients and any number of calls, under the ASSUMEs of each
module, which the runs evaluate, and under the hypotheses named below, which
appear in the theorems. Every proof has the same shape: an inductive invariant,
one lemma per action or group of actions, and a temporal step at the end.

**SoftwareRegistryProofs**

* `TypeCorrect`: `TypeOK` is not inductive: `UpdateRow` writes to the uuid in
  `arg[c].id`, and sends statements about it, so that it must be one. The invariant is
  `TypeInv == TypeOK /\ ArgsRead`, where `ArgsRead` says which arguments have been
  read at each stage.
* `DuplicatesExcluded`: its two halves, `UniqueRows` and `UniqueExecutables`, are
  proved apart, each by the actions that write the table: an action that
  inserts or renames has the negation of the clash in its guard, the others shrink
  the table or leave the names alone.
* `RefinesCatalogue`: the table implements `SoftwareCatalogue`: every step is a
  step of the catalogue on `entry` or leaves `entry` alone, because a DELETE or UPDATE by
  name meets one row at most (`UniqueRows`).
* `OwnersIsolated`: a step that changes rows, executables or folders of a package
  is a step of one of its callers. It rests on `Owned`, that the uuid a call carries is
  of its own package.

**SoftwareReportsProofs** takes `OwnCallers`, one caller per package. The steps
of others leave its control alone (`OthersControl`) and, by `OwnersIsolated`,
its rows, executables and folders; so an invariant need only be kept by the call's own
steps. One invariant per kind of call says what each of its stages has
achieved: `UninstallsReported`, `InstallsKept`, `InstallsReported`, `UpdatesReported`.
The last says of an update that begins with no statement of an earlier call left, that
each statement of its list leads to the folder of the new name and each one executed
has its row there; a path that is not given is no part of it.
`OrphansExcluded` takes, besides, lists of executables none of which is rejected while
others are on their way: no repetition in an install (`DistinctLists`), and in an
update neither a repetition nor a missing path, unless the list has one executable only
(`WholeLists`). Otherwise a rejected statement ends the call while others are still to
come, as section 5 says.

**AddOnsRegistryProofs**

* `TypeCorrect`, with "no rows without a table" as part of it.
* `AddOnsOnly`: what is written to the table is a document read one step earlier,
  while npm may change the package in between: the inductive invariant `IInv` adds
  `Carried`, that a caller about to write carries a document that passed validation.
  That is why a crash or a race cannot put a plain package in the table.
* `RemovalsOnly`, an action property: every step that empties a row is one of
  `ReplaceRow`, `DeleteRow`, `Reindex`. It needs `Carried` again, for an update must not
  write "none", and that only a forced install reaches "replace".

* `InstallsReported` and `ReindexesRebuild` take `OneCaller`. `Placed` says that a call
  is at a stage of its operation. The first rests on `Installing`: after npm the
  version is in node_modules, after the save in package.json, after the write in the
  table, after the reading back it is readable. The second rests on `Rebuilding`: the
  table lists exactly the valid ones among the dependencies already dealt with, at
  their installed version.

**KeyboardWatcherProofs**: any keyboard, with any number of keys, spellings and
hotkeys, and any sequence of events.

* The operators are recursive functions over sequences. Induction is had from sets in
  place of predicates: `LeastNatural` (every set of naturals has a least element, from
  the well-foundedness of < in the library), and from it `Induction`,
  `DownwardInduction` and `BoundedInduction`. `Recursion` gives that a function
  defined step by step exists, without which nothing is known of the CHOOSE behind a
  recursive definition. On these rest the lemmas that say what the operators
  compute: `WithoutAbsent` and `WithoutUnique` (`replace` takes out nothing, or the one
  occurrence), `PressElements`, `StripElements`, `StripAllDef`, `Found`.
* `TypeCorrect`, for every keyboard: in particular a candidate is always there,
  because a release that leaves none puts the empty one back.
* `CandidatesAlwaysSpell`: what `self.keys` means. `CandidatesMatchHeld` is not
  inductive: that a candidate has the right characters does not say that a spelling can
  be found in it again. The invariant `CandidatesSpell` says where each spelling is: a
  candidate is `Composed` of blocks, one spelling for each of some tracked keys, side
  by side (`Layout`), and of all the tracked keys if the keys have one spelling each.
  A press adds a block at the end (`ComposedPress`). On a keyboard that is `Apart` a
  spelling is found only in the block of its key (`Located`), so that a release takes out
  that block and closes the gap (`Removed`), or finds nothing (`Unheld`). For a modifier
  the first round drops the candidates with its other spellings and the second
  all the rest, so that the empty candidate is put back.
* `ReleasedKeysForgottenHolds` and `CandidatesMatchHeldHolds` follow: the blocks of no
  key make the empty text; a bijection between the places in the blocks and the places
  in the candidate counts each character (`CountLayout`).
* `SentKeysAreHeldHolds` takes `Apart` and `Unambiguous`. A hotkey that matches has
  the length of the candidate, and its characters include or are included; the
  candidate is the layout of a wording of keys that are down (`LayoutWording`), which so
  looks like the hotkey, and has the same characters as often (`MatchesAlike`).
* `HotkeyFiresExactlyHolds` takes `NoAnagrams` besides: the first hotkey that matches is
  the only one, and a spelled hotkey matches every candidate (`AlikeMatches`).

**HotkeyServerProofs**

* `TypeCorrect`; `AnswersTrue`, an action property: of all the steps that answer,
  only the one of a run that ended well says 200.
* `NeverMissing` and `StartedFirst` take `KeptNames` (an edit keeps the name of the
  detector): the map, once it has a detector, keeps it, and tasks are over before
  the server listens (`Served == Loaded /\ Mapped /\ Started`).
* `FilesFollowed` takes, besides, `OwnNames` (no two files of one name), and any number
  of loads that overlap. `Following` adds that what was first read is true of
  the file, and that a map that is behind has a report or a load on its way: the load
  that read last has read what the file says and is still `Coming`, or has `Arrived`, and
  then only an older one can come after it, which `overtaken` records.

**ConfigSyncProofs**

* `TypeCorrect`: `Sound == TypeOK /\ Waits`, where `Waits` says that the sender of a request
  that somebody waits for is waiting, and for no other.
* `PathsStayPressed`: `Pairs` carries the property through every copy: the
  local ones of commands and requests, and those fetched from the other side.
* `ConfigStaysKept`: a command about to write holds a config (`Holds`), so that what
  is written is null only when the server sent null.
* `AnsweredIsAdded`: `Undisturbed` says how far an add that is alone has come: its path
  is in its copy (`Ahead`), then in the detector's config, then with its request and
  in the server's (`Carried`). That the detector's config has it is derived from the
  order of the handler, and no part of the hypothesis.

**HotkeyRunsProofs**: `TypeCorrect` (with `Begun`, versions looked up exist);
`RunsOnce` and `RunsAsConfigured` by `Sound == Unrun /\ RunOnce /\ Known`: an event whose
request is not over has not been run, and what is on its way was found in the
config.

**SetupProofs**: `TypeCorrect` (with `Progress`, the tables and the add-on at hand
at each stage);
`DoneIsUsable`, for any lists, the empty one included, by `Accounted`, what each stage has
done so far of the list of its setup, kept although clients
open the database meanwhile and kills leave it half-made; `ControllersListed` by
`Controlled`, that a client past `LoadDetector` has a controller in the table, from which
nothing is ever removed here.

**Only model-checked.** Liveness (`CallsEnd`, `EditsArrive`, `RequestAnswered`,
`ServedIsRun`, `KeyboardsKeepReading`, `CommandsEnd`), since the prover handles neither
fairness with ENABLED nor leads-to over it. All other properties of the runs are
theorems.

## 5. Where code and comments differ

Two runs show a disagreement between the code and what is said of it; `findings`
in `PROJECT.json` quotes the lines.

1. The end of a download marks the software of that name of *every* add-on installed
   (`software.ts:217`).
2. After two changes of a detector's name its first new name stays in the map
   (`loadDetectors.ts:32`).

The models behave like the code in the following cases too, which no run states.

Registries:

* A refused executable rolls back the software row only (`software.ts:165-167`).
* An executable that an update is given without a path, or not given at all, keeps its
  path when the software is renamed (`software.ts:389`), in the folder that the rename
  removes (`software.ts:257`), and the update succeeds; the comment at `software.ts:279`
  says that new names are handled.
* Of an update that is rejected in part, the statements that are left are executed later
  (`software.ts:409`): they may overwrite what the next update has written, or insert
  executables of software that was uninstalled meanwhile.
* `uninstallSoftware` and `runInstall` do not open the database (`software.ts:217`,
  `software.ts:451`), although a comment says it is initialised automatically.
* Software that is a single file cannot be renamed: nothing creates the new
  folder (`copy-contents.ts:117`), and the row has its new name already.
* `createNewRegistry` over an existing registry overwrites its package.json before
  it refuses (`registry.ts:758`), unlike what `test/registry.ts:64` suggests.
* A package.json with types but without `entry` makes `validatePackageJSON` throw
  (`registry.ts:820`), which ends a reindex with the table half filled.
* `addPackageToDB` accepts a package without a description, which reading rows refuses
  (`registry.ts:714`): such a row stops every later operation on the package, and
  `loadAllOfType` for all packages.
* `update` of a package without a row reports that it was added (`registry.ts:591`).
* Installing another version of a registered package changes node_modules and
  not its row (`registry.ts:546`).
* A reindex between the write and the read of an install makes it throw what its comment
  calls perhaps impossible (`registry.ts:356`).
* A registry whose SQLite file exists without a table cannot be created any more
  (`registry.ts:762`).

Setup:

* A setup killed while it writes the main config leaves an empty file, and can never
  be run again (`oobe.ts:80`).
* A client created before the registry makes the database file without tables, after which
  a setup fails for ever, or, when its list of add-ons is empty, ends well and reports
  `oobe: true` without the table of packages (`oobe.ts:126`).
* Refused installs are not looked at: the main config says `oobe: true` though
  an add-on of the list is not registered.
* The default answer to a prompt, and the retry after an invalid one, leave the logger
  talking (`prompts.ts:201`, against `prompts.ts:107`); the warning of `oobe.ts:56` is
  not awaited.
* An interface that loses its IPv4 address while `checkIP` ticks is an error in a
  timer's callback, which ends the process (`setIPv4.ts:51`).

Server and detector:

* Releasing a key takes its spelling out of the spelling of others
  (`watch_keyboard.py:153`, against `:55`): with F1 and 1, the rest is never forgotten
  (such keys are not `Apart`); Esc and E leave `$SC$`.
* A hotkey matches a combination of the same length whose characters include its
  own (`watch_keyboard.py:208`): F11 posts the hotkey F12, left and right control together
  post `^>A`. Nor is it kept from matching by a character that comes twice: with a hotkey
  `<^+A`, left control and left shift post it without A, for `<^<+` has four characters
  that are all its own. `Unambiguous` excludes just this.
* A key that the table maps to None (`keyboard_map.py:47`), unless the config names it, ends
  the watcher when it is pressed (`watch_keyboard.py:145`) or released (`:156`), in the
  latter case after a hotkey was posted.
* A released modifier drops the candidates of keys that are still held
  (`watch_keyboard.py:156-167`).
* Of two loads of a file that overlap, the one that read the older config may end last and
  leave it in the map (`loadDetectors.ts:29`); an edit between the first read and the watch is not seen
  until the next (`loadDetectors.ts:23-27`).
* The answer to a request waits for the hotkey to end (`triggerHotkey.ts:146-156`),
  although it is sent "to prevent timeout from long hotkeys".
* In the legacy route the up part of a hotkey may run before its down part
  (`api.ts:103`, against `docs/SETUP.md:376`).
* Posts of paths that overlap lose each other's updates, or garble the file, and edits
  the user makes during a post are lost (`api.ts:118`). An empty config is sent as
  null with status 200, and the Pi saves null.
* A request whose handler throws gets no answer, and the Pi's `requests.get` has no
  timeout.

Met while reading, and outside the models: `daemon_gen` ignores its `keyboards`
argument (`cli.py:103`); two projects of one name share a startup link
(`daemon.ts:128-133`); nobody creates the directory of client configs.

## 6. Not modelled

* Grabbing of the device (`lock`, `unlock`): nothing the watcher does depends on it.
* The loading of executors at the start of the server (their names are a constant), and
  the GET routes, which change nothing.
* `createProject` and `generateProjectDaemon`: templates, npm and a startup link, one
  external command after another without state of their own.
* The legacy server's own out-of-box setup and startup daemon, which download and start
  external programs.
* The desktop controller (Vagrant and templates), the native bindings, the Rust and
  AHK libraries, logging, stringification and command-line wiring.

## 7. What could follow

* For `KeyboardWatcher`, what holds of a keyboard that is not `Apart`: how much of
  the spellings of released keys can stay behind.
* `Setup` with the detailed registries in place of their abstraction, on a small
  instance.
* The loading of executors, once an executor may be installed while the server runs.
