# tes3mp-easy in TLA+

TLA+ models of tes3mp-easy, the TLC configurations that check them on small
instances, and theorems about them that the TLA+ proof system checks.
Paths are relative to the root of the repository.

## 1. The system

tes3mp-easy runs a TES3MP game server and gets players to it. One server
machine holds:

| part | state it keeps | operations | talks to |
|---|---|---|---|
| `tes3mp-easy-ops` (`cmd/tes3mp-easy-ops`), one process per command | none of its own; everything is in the server tree below | backups create/list/prune, mods import/deploy/list, state import/deploy, config get/set, staff set, start/stop/restart, status, logs, doctor | the tree, the lock, systemd by `sudo rootctl` |
| the server tree `/srv/tes3mp-easy` | `backups/state`, `backups/mods`, `current.txt`, `players/`, `world/`, `configs/`, `mods/`, `.staging`, `.locks` | file operations | ops, the game server, the panel (reads) |
| `.locks/ops.lock` (`internal/lock`) | who holds the flock | exclusive for mutations, shared for dry runs, polling up to a timeout | every ops process |
| `tes3mp.service` (systemd) | active, activating, inactive; a queue of jobs | start, stop, restart after a crash | ops by rootctl; runs the game |
| retention (`internal/retention`) | none, a planner | which archives of a store a run deletes | backups create/prune, imports, deploys |
| archives (`internal/archive`) | the files of one tar.gz or ZIP while it is read or written | validate, extract, write a snapshot, overlay a localization | ops, the panel (reads), the client |
| `tes3mp-easy-panel` (`internal/panel`) | password record, sessions, login tokens, limiters, metrics, doctor cache, certificate in memory; `auth.json`, `initial-password.txt`, the certificate pair and uploads on disk | sign-in, password change, a handler per ops command, restore (two imports and two deploys), public API for clients | ops as child processes, browsers, clients |

Each player's machine runs `tes3mp-easy-client` (`internal/app`, `internal/ui`,
`internal/mods`, `internal/tes3mp`, `internal/locale`, `internal/launcher`,
`internal/fonts`): it asks the panel's public API which mods package the server
runs, downloads it, swaps it into the profile (`Data Files`, `openmw.cfg`),
installs TES3MP and a game language, and starts the game. Its state is the work
directory: trees, their `.old` copies and staging directories, the markers that
say what is installed, `config.json`, and one launch slot in memory.

What is hard here, and what makes each part correct:

- **Deploys** replace several directories with renames that may each fail, roll
  back with steps that may fail too, and die anywhere; a caller must see all of
  the new set or all of the old one, and nothing may be lost. Beside them systemd
  restarts a crashed server and runs jobs whose client has given up, and doctor
  looks at the tree without a lock.
- **The stores** are written by imports, backups and deploys, pruned by
  retention, which must not delete what a command, `current.txt` or a remaining
  archive still needs, least of all on a full disk, and read page by page.
- **Archives** are validated by one piece of code and unpacked by another; a
  snapshot is written while the game saves.
- **Configs** are read, copied, edited in place and written back by processes that
  share a name for the temporary file.
- **Sign-in** mixes requests of several browsers with password changes, restarts
  and an offline reset over two files and a hash that takes its time.
- **The pages** act on what they read before: forms, ban lists, a cached verdict of
  doctor, an answer of a command that may be lost. Certificates are two files.
- **The client** swaps trees and a digest, must recover at the next start from a
  crash at any step, starts installs from two places of its UI, and goes on working
  behind dialogs that were closed.

The list of such hazards with their lines is `hazards` in
[PROJECT.json](PROJECT.json); each names the properties that would catch it or
says why there is none.

## 2. Modules

| module | models | extends |
|---|---|---|
| `AtomicDeploy` | what a deploy promises: succeed with the new set, fail with the old one, or crash with nothing lost | |
| `GameUnit` | `tes3mp.service` as ops sees it | |
| `StateDeploy` | `deployStateLocked` and `stateDeployTx` | `GameUnit` |
| `ModsDeploy` | `deployModsLocked` and `modsDeployTx` | `GameUnit` |
| `Doctor` | the checks of `doctor` beside and after a mods deploy | `ModsDeploy` |
| `OpsLock` | `acquireOpsLock`, flock, the life of an ops process | |
| `ConfigSet` | `config get/set` and `atomicfile.Writer` inside that life | `OpsLock` |
| `GameConfig` | how a setting is found, replaced and read back in a line of each config file | |
| `Retention` | `planRetention`: buckets, keep counts, protection, disk pressure | |
| `RetentionRuns` | the planner run again and again on every small inventory | `Retention` |
| `BackupStore` | the two stores and every command that changes them | `Retention` |
| `BackupsList` | `backups list` with its cursor while archives come and go | |
| `ArchiveReader` | the streaming tar reader and its limits | |
| `Archives` | validation and extraction of packs and snapshots, writing a snapshot, the client's overlay and ZIP | `ArchiveReader` |
| `PanelAuth` | `authStore`, `sessionStore`, `loginLimiter`, login and password handlers, `reset-password` | |
| `PanelLimiter` | the download limiter | |
| `PanelMetrics` | the samples and charts of the dashboard | |
| `PanelSettings` | config form, bans, staff, server control and dashboard, behind the doctor cache, as commands with exit codes and lost answers | |
| `PanelTLS` | the certificate made, stored as two files, renewed, reloaded | |
| `PanelDownloads` | public downloads while packages are switched, pruned and imported; the client that downloads them | |
| `Upload` | one upload: stream, `mods import`, publication, answer | |
| `PanelRestore` | upload, deploy, rollback and restore handlers as sequences of ops commands | |
| `ClientMods` | `mods.Manager` install, recovery and inspection on one profile | |
| `ClientInstall` | TES3MP and a game language: download, staging, marker, directory swap, recovery, removal | |
| `ClientSession` | `config.json`, the launch slot, Play, the editor, pack updates of a launch | |
| `ClientWindow` | the wizard and its background task, installs that outlive it, the font download | |
| `MC*` | the instances TLC checks | |
| `*Proofs` | theorems and proofs about the module of that name; `ConfigSetProofs` about `OpsLock` too, `ModsDeployProofs` about `Doctor`, `BackupStoreProofs` about `RetentionRuns`, `GameConfig`, `Archives` and `BackupsList` as parts of `MCStore`, `PanelAuthProofs` about `PanelLimiter` and `PanelMetrics` as parts of `MCPanelAuth`, `PanelPagesProofs` about `MCPanelPages` and its four parts, `ClientProofs` about all of the client | |

`AtomicDeploy` is the abstract specification of both deploys:
`KeepsPromise == Promise!Spec` in `StateDeploy` and `ModsDeploy` is that module
under a refinement mapping that looks at a run only where its caller can.
`ConfigSet` extends `OpsLock` and every one of its steps is a step of `OpsLock`
or leaves the lock alone (theorem `UsesTheLock`). `BackupStore` takes from the
deploys only what they do to the stores, as all of them run under the lock.
`Doctor` runs its checks between any two steps of `ModsDeploy`.

Modules whose code shares no state are put side by side in one MC module:
`MCStore`, `MCPanelAuth`, `MCPanelPages`, `MCClientFiles`. Its variable `part`
(`component`) is chosen in the initial state and never changes; a behaviour is one
of the chosen part, whose module is an `INSTANCE` or the extended one, and the
variables of the others are `Off`. A property `part = "x" => X!Inv` is then exactly
`X!Inv` of module `X`, and an action property likewise; nothing is said about
two parts together, because the code lets them share nothing.

How state and actions correspond to code:

- **StateDeploy.** `disk[place][file]` is `players/`, `world/` and
  `configs/config.lua` live, in `.staging/<id>/` and in `.staging/<id>/old`. One
  rename of `moveDirEntries` is one step; `todo` is the rest of its `ReadDir`
  list. `moved`, `configsMoved`, `installed` are the flags and slices of
  `stateDeployTx` on which `rollback` works. `pc` names the calls of
  `deployStateLocked` in order. A file stands for the set it belongs to.
- **ModsDeploy.** The same with whole directories renamed aside and two texts
  that are rewritten; the rollback goes on after a step that failed, as the code
  joins errors.
- **Doctor.** `check` stands at the next of four checks, each of which reads the
  tree as it is then; `quiet` remembers that nothing changed under it. `parts` and
  `stagingDir` are what a deploy that died left behind.
- **GameUnit.** `job` is what systemd has queued. A control command that fails may
  have been killed at its deadline with its job left behind; `abandoned` remembers
  which. `LateJobs` is on in every run of a deploy but `state_deploy_auto_restart`.
- **OpsLock.** `phase[p]` follows one command from its start through the stat of
  the lock file (a dry run without a lock file runs unlocked), the open, the
  `LOCK_NB` attempts and the end; `polls` counts what is left of
  `--lock-timeout`. The kernel frees the lock of a dead process.
- **ConfigSet.** `live`, `part` and `backup` are the config, `<file>.part` and the
  newest `.bak`; a half-written file has `whole = FALSE`.
- **GameConfig.** A text is a sequence over an alphabet that holds each character
  the code looks at (quote, backslash, blank, `#`, `-`, bracket, a letter, digits).
  `line` is what stands after `=`; a set edits it in place, so later sets
  meet what earlier ones left.
- **Retention.** One run is a record (states, packages, what is damaged or
  protected, clock, free space); `Prune(run)` is the plan. Archives have size one,
  since the planner only adds and compares sizes, and time is a number of ticks.
- **BackupStore.** A command is one action, as the lock is held throughout, except
  a deploy, which is several: retention runs between its choice of an archive and
  its use, and it can fail or die between them. The rest of the disk (`Others`) is
  chosen anew by every command. Metadata becomes unreadable between commands only.
- **BackupsList.** The clock counts half seconds, as a name carries whole ones. A
  reader asks for the page before the last name it was shown; between two pages
  archives are added and removed. `astray` records a removed cursor whose stamp did
  not place it.
- **Archives, ArchiveReader.** A header is a record of path, type, size and what the
  checks look at; an archive is any sequence of headers, and both passes take each
  entry as it comes. A backup lists the game's files first and opens them later,
  while `live` changes. That `overlay` checks names twice is redundant: the reader
  already folds case.
- **PanelAuth.** A record stands for the password it is the hash of. `verify` is
  two steps: the copy of the stored hash, then the comparison with what follows
  it. Sessions, tokens and attempts that ran out of time leave their tables in
  steps of their own. A write that fails does so before its rename or after it.
  The panel is stopped during `reset-password`, as docs/v2/05-panel.md:305
  demands.
- **PanelLimiter, PanelMetrics.** Tables and rings are sequences of times; one unit
  of CPU time passes per tick, so that "the game never used more than the machine"
  is about arithmetic of counters that restart.
- **PanelSettings.** Each request is a `pc`: doctor, snapshot, one command per
  changed key, the settings read again, answer. A command is done or not when its
  answer is lost. An answer is a status and the notice beside it: when the settings
  cannot be read again after the last key, the page says how many fields it saved and
  has the status and text of that failure (`admin.go:1585`), so `PageTellsTruth`
  reads the two together. systemd and the host move meanwhile.
- **PanelTLS.** A certificate is a number with address and expiry; `keyFile` and
  `certFile` hold numbers, 0 for no file, and `torn` is set by a death or a failure
  between them, or by a failed sync after a rename. The goroutine of a renewal is
  not waited for at shutdown, which is one of the ways to such a pair.
- **PanelDownloads.** `reused` records that a name the visitor relies on was given
  to another archive in between; the bundle is read in the order of the handler
  (snapshot, its package's name, both opened).
- **Upload.** `file`, `copy` and `stored` are the upload, the `.part` in
  `backups/mods` and the package; the panel and the command die separately.
- **PanelRestore.** `req[b]` is the page operator `b` waits for: its form, the step
  of `Steps` it has come to and the archives it is about. A command is one step,
  which `MutationIsAlone` and the promise of a deploy justify; a look at the stores
  (`Check`, `Find`, `ListMods`) is another, with no lock between them. A cancelled
  command moves to `orphans` and still takes effect, whole. Retention may remove
  any unprotected archive here, a superset of what the planner does. In the run the
  two packages have names of their own, so of `NamesStayTrue` it exercises the names
  of states; the theorem is about any packages.
- **ClientMods.** `pc` per install; `dataFiles`, `profile`, their `.old` and
  staged copies are empty, torn or a complete package. `RemoveAll` is two steps,
  so a crash leaves torn trees. Download and unpacking are one step each: they
  touch `.staging` only, which the next install removes unread.
- **ClientInstall.** A directory is what it was built of, whether it is whole, and
  its marker; an archive is the pinned one, another that unpacks, or junk.
- **ClientSession, ClientWindow.** What the window's thread does is one step; a
  goroutine is a `pc` of its own. An install of a pack is one step here.
  `blurred` marks a launch beside a manual update of the same profile, which may put
  an older pack in place of a newer one: `PlaysTheNewestPack` leaves it out.

## 3. What the runs check

Deadlock is checked except where noted.

| run | question | bounds |
|---|---|---|
| `state_deploy` | Can a state deploy be undone from every point (`Reversible`), does it keep the promise of a deploy (`KeepsPromise`), stop the server for the switch and give it back after an error (`ServerStopsAndReturns`) and end (`Terminates`)? | 2 players, 1 world entry, config.lua; 1 failing operation, 1 crash of the game, late systemd jobs, death of the process anywhere |
| `state_deploy_auto_restart` | Is the server down during the switch? No: section 6 | no failing operation, 1 crash of the game |
| `mods_deploy` | The promise for mods, `current.txt` last (`PublishedLast`), the server down during the switch and back as it was (`ServerStopsAndReturns`), an all-clear of doctor only for a whole package (`DoctorIsRight`) | 2 failing operations, 1 crash of the game, late systemd jobs, death anywhere, doctor at any moment |
| `config_set` | Do writers take turns and readers never see half a file (`WritersTakeTurns`), is no setting overwritten by a stale one and the replaced file in the newest backup (`NothingIsOverwritten`), does every command get the lock or an answer (`AlwaysAnswers`)? | 2 processes that start again and again, 2 keys, 2 values, 1 poll, a kill anywhere |
| `store` | The server's files. Retention: exactly the written policy (`FollowsPolicy`), a month never given up (`MonthsForever`). Store: what is needed is kept (`TargetsKept`, `ReferencedKept`, `NewestKept`). Archives: both passes agree and unpacked files do not meet (`ArchiveReads`), a backup can be deployed (`BackupRestores`). List: every archive once (`PagesComplete`). Configs: the comment of an edited line stays, and what was set in config.lua is read back (`ReadsBack`) | every inventory of 5 archives over 12 ticks, with days, weeks and months that do not nest; keep counts of 1, a disk of 12 units, 1 import under a name not ahead of the clock, 1 deletion that fails, 1 unreadable file; archives of up to 10 entries; 3 archives, one to a page, 2 changes; values of 3 characters |
| `backup_store_mods_target` | Is the target of a mods deploy kept? No: section 6 | the same without failures |
| `panel_auth` | Does every session have to change a temporary password (`GateHolds`), are changes serial (`ChangesAreSerial`), is there always a usable password, in memory as on disk (`PasswordIsUsable`), does a failed reset restore (`FailedResetRestores`); is the download limit fair (`LimitIsFair`) and the chart true (`ChartIsTrue`)? | 2 browsers, 2 generated and 2 chosen passwords, 1 token slot, 1 failed attempt, 1 failed write or kill; 3 addresses for a table of 2; a day of 3 ticks. A stopped panel may stay stopped (`CHECK_DEADLOCK FALSE`) |
| `panel_pages` | Does a failed form leave a prefix of itself (`FormIsAPrefix`), do notice and status of a page say what happened (`PageTellsTruth`), is a verdict of doctor at most a minute old (`GateNoticesWithinAMinute`), does the panel serve a valid certificate (`CertificateHolds`), does a visitor get the bytes it was promised (`DownloadsMatch`), is an upload settled as it was answered (`UploadIsSettled`; that nothing stays behind, only of one without failures)? | 2 requests, 2 players, a lag of 3 ticks; 2 addresses, 5 days, 2 failures; 2 packages of equal length, 2 names, 2 attempts; 2 failed operations of an upload |
| `panel_restore` | Do names stay unique and true (`NamesStayTrue`), is a state put only under its own mods and is what success claims the uploaded state (`RestoredAsAsked`), whatever other operators and cancelled commands do between the steps? | 2 operators, 2 packages, 2 archives of one name, 1 cancelled command |
| `client_files` | Is there always a complete package in place or to be recovered (`PlayableAgain`), does an install report what it did (`ReportIsTrue`); the same for TES3MP and a language (`KeptComplete`); one game and no lost slot (`SessionIsTrue`), the newest pack played (`PlaysTheNewestPack`); does the window show what runs (`WindowIsTrue`)? | 2 packages, 3 changes on the server, 1 crash or failure; 2 overlapping installs of TES3MP, 2 crashes or failures; 2 profiles, 2 packs each; 3 font runs, 2 installs outside the wizard |
| `client_mods_crash`, `client_mods_two` | The mark after a crash; two installs at once: section 6 | 1 crash; 2 installs, nothing failing |

Why these bounds are enough to be interesting. A deploy's failures are single in
everything docs/v2 promises, and one failing operation can be any of about twenty;
two entries make a partly moved directory. Two actors race in `config_set`,
`panel_restore`, `panel_auth` and `panel_pages`; that more processes change nothing
about the lock is proved. The two archives of one name differ in bytes and in the
package they need, and a cancelled command of one operator is a third actor. In the
retention the periods do not divide the windows, so every straddling case occurs,
and every keep count is one and the disk can be too full for any command, which
makes every rule bite at two or three archives. One token slot makes two browsers
evict each other's token; two slots for three addresses make the limiter evict.
Three archives on pages of one make a cursor disappear with archives on both sides
of it. Three characters are enough for a quote, an escape and a comment sign in one
value.

Fairness. `Terminates` and `AlwaysAnswers` need it: `FairSpec` of the state deploy
is weak fairness of `Command`, the command's own steps, because the process is
scheduled and each call it makes has a deadline. Nothing else is fair: systemd need
not run a job or restart the unit, and the game need not crash. `FairSetSpec`
of `ConfigSet` is fair to the steps of every process for the same reason, and not
to the lock: a waiter counts down its polls. No other module has a liveness
property: what the panel and the client do next waits for a person, for a network,
or for systemd, whose start limit means that a panel need not come back.

Symmetry (operators, browsers, passwords, requests, profiles) is declared in runs
whose properties are invariants or action properties only.

Every property of a passing run has a mutant in `PROJECT.json`: one definition of
the model is replaced by one a plausible bug would give (its operator stands beside
the original, with a comment that says what the bug is), and TLC then finds that
property violated.

## 4. What is proved

Theorems hold for all values of the constants within the modules' `ASSUME`s. MC modules
that are proved about state theirs for the constants of their parts
(`MCStoreAssumption`, `MCPanelAuthAssumption`, `PagesAssumption`, `FilesAssumption`):
lengths of windows and values, limits and pages are numbers, positive where the code divides by
them or counts with them, and the planner's windows are in order. `MCStore` fixes the
directories of the world at two.

- **ConfigSetProofs** (any processes, keys and values). Of the lock: `LockTypes`,
  and from the discipline that a running mutation holds the flock exclusively and a
  flock is granted only beside compatible ones (`LockInv`): `MutualExclusion`,
  `DryRunIsolation`, together `MutationIsAlone`. `UsesTheLock` carries mutual exclusion
  over to config commands. What a writer has read is still what the file holds
  (`FileInv`), because nobody else works while it does; hence `TakingTurns`, which is
  `WritersTakeTurns`, and `NoOverwrite`, which is `NothingIsOverwritten`.
- **StateDeployProofs** (any entries). For any number of failures:
  `StateDeployTypes`, `Success`, `Reversibility`; the inductive invariant
  `SwitchInv` says for every `pc` where each file is and which flags are set.
  With at most one failing operation (`OneFault`, an assumption of each such
  theorem): the shape of the rollback (`RollbackShape`), then `Failure`,
  `Preservation` and `Atomicity`, which is the step simulation of `AtomicDeploy`.
  `StopsAndReturns`, for any number of failures, rests on `UnitInv`, which follows
  the unit and the jobs left behind (`abandoned`) up to the end of the switch, and
  on `ReturnInv`, by which a late stop belongs to a command that ended before it
  touched a file.
- **ModsDeployProofs** (any number of failures, those of the rollback included).
  `KeepInv` follows each directory: not moved, aside, replaced, before or after its
  step of the rollback; hence `ModsDeployTypes` and `NothingIsLost`. `UndoInv` says
  what a rollback after a single failure finds and restores; hence `PublishesLast`
  and `ModsAtomicity`, the step simulation of `AtomicDeploy`. `StopsAndReturns`
  follows the unit and the jobs left behind by control commands killed at their
  deadline: with none, or with a stop that ended the command before any file was
  touched, the server is down while files are moved; a start that was left behind
  is the only way it can come up during the rollback, and a stop the only way it can
  stay down after an error. `DoctorTellsTheTruth` ties what doctor
  has seen so far to the directories as they are, as long as nothing moved.
- **BackupStoreProofs**, the store (any windows, keep counts, disk and clock). One
  inductive invariant, `Inv`: types, and that `current`, the state target and the
  packages archives refer to are in their stores. `StoreTypes`, `TargetsSafe`, which
  is `TargetsKept`, and `ReferencesSafe` as an action property. The proofs use
  of the planner only that it never plans what `Protected` contains.
  `NewestSafe`: a directory that is not empty has a newest archive (`NewestExists`,
  by the well-founded order of finite sets), the planner protects it, and "not
  newer" is transitive, which carries it through the two runs of a backup on a
  nearly full disk (`Outlives`). `NewestKeptSafe` is `NewestKept` and needs
  `NamesInTime`: no name ahead of the clock, no two archives of one tick. Then the
  archive a command makes is the newest when retention first sees it (`MadeIsKept`),
  and the invariant `DatedInv` holds. Without the first of these it is false
  (section 6).
- **BackupStoreProofs**, the other files (`StoreSpec`, the behaviours of `MCStore`).
  - Planner. `classifyAutomatic` is a walk over the archives, newest first, written
    as a recursive function: that it exists is shown by a least counterexample
    (`WalkExists`), that every place of the order has one archive by counting
    (`EveryPlaceInTaken`). `Walked` says what the walk knows after each archive; hence
    `PolicyFollowed`, which is `FollowsPolicy`. A month's last archive is never
    planned, because only one that is newer than it and of its month replaces it:
    `MonthsAreForever`.
  - Archives. Validation and extraction are two programs that read the same entries.
    For packs `ModsRead` and for snapshots `StateRead` say that, entry by entry, both
    know the same; for the overlay and ZIP `Apart` says that every file has a place of
    its own. `PassesReadAlike`, which is `ArchiveReads`, holds for archives of any
    length.
  - Backup. `Writing` ties the names still to write, the limits counted so far and what
    a reader would make of the entries written: as long as the writer stays
    within the limits and no two names differ only in case, the reader accepts what is
    there, and at the end nothing required is missing. `BackupsCanBeRestored`, which is
    `BackupRestores`, whatever the game changes meanwhile.
  - List. After every page what is newer than the cursor was shown once and what is
    older not yet (`TurnsAt`), for archives that stay throughout; a cursor whose archive
    was removed falls back on its stamp, and `astray` marks where that is not
    enough. `PagesAreComplete`, for any directory, page length and number of changes.
  - Configs. The scanner of `config.lua` is a recursive function over the characters of
    a text; each induction is a least counterexample again (`Inductive`). `OpenString`
    says what it knows inside a string that `luaQuote` is writing, and `Quoted`, once it
    is closed, that it reads as the value (`QuotedIsRead`) and never is in code before
    its end. So in the edited line (`ValueAt`, `Splice`) no comment starts before the
    old one and the expression is the quoted value (`QuotedInLine`). A server line
    begins with a blank, which no set removes: that makes its value end before its
    comment (`IniSets`, `ConfigInvariant`). `SettingsReadBack`, which is `ReadsBack`,
    for values of any length and any number of sets and edits before.
- **PanelAuthProofs**, signing in (any browsers, passwords, limits, failed writes and kills).
  `Inv` has six parts. `IdInv` gives every session a browser, which bounds the ids in
  use, so that a fresh one exists; `TriesInv` counts requests the limiter admitted and
  nobody judged, without which the bound of the attempts is not inductive. Then
  `Typed`. `GateInv` says which requests a demanded change lets exist,
  `LockInv` what the holder of the change lock knows of file and memory at each step,
  `StoreInv` and `CleanInv` what a start of the panel and `reset-password` have
  written and can put back. Hence `ForcedChangeHolds`, `PasswordUsable`,
  `ResetRestores` and the action property `SerialChanges`.
- **PanelAuthProofs**, limiter and metrics (`PanelSpec`, the behaviours of
  `MCPanelAuth`).
  - Limiter, any addresses, limits and period. The entry of an address is the end of
    what it was served and holds all of the last period (`Covers`), so its length
    bounds that; what Retry-After promises is never before its oldest request leaves the
    period (`ClientInv`). An address the full table evicts starts a new history.
    `LimitHoldsForAll` is `LimitIsFair`.
  - Metrics, any day, bucket, gap and clock. Since its last reading the game used no
    more than the machine since its own, although the two are read at different times
    and the game's counter restarts (`CounterInv`); the rates are whole quotients, and less
    divided by more gives no more (`Quotients`). Samples are at least a unit apart
    (`RingInv`), so what leaves the ring is older than a day. A bucket's point lies
    above all its readings (`Points`). `PanelChart` is `ChartIsTrue`.
- **PanelRestoreProofs** (any operators, packages, archives, cancelled requests).
  `RestoreInv`: names of the stores are unique and the package in use is kept (`Sound`),
  each request stands at a step of its form with the files that step needs, a command
  whose request is gone still has the file it was given, and an uploaded state about to
  be deployed was in the store once, so that what others do meanwhile can only have let
  retention remove it. Hence `NamesAreTrue`, which is `NamesStayTrue`, and
  `RestoresAsAsked`, which is `RestoredAsAsked`.
- **ClientProofs**, about `FilesSpec` (mods about `Spec` of `ClientMods`, which
  `ClientInstallsMods` relates to it).
  - Mods, any packs and publications: `InstallInv` says for each `pc` what is in
    place, aside and staged of both targets, and what a rollback or the recovery
    of the next install makes of it. `ModsPlayableAgain` and `ModsReportIsTrue`
    assume `OneInstall` and `OneMishap`: with two installs they fail, which is the
    finding of `client_mods_two`, and so they do when a crash cuts short the
    rollback that a failed operation began.
  - TES3MP and the language, any number of mishaps: `ClientKeptComplete`. One
    install at a time (`AloneInv`) keeps a complete copy by itself. Of two racing
    TES3MP installs `RaceInv` says that while nothing is in place one of them is
    about to put something there, and that only the other can have torn what is
    aside; a third install would break it (`TwoInstalls`), and the UI has two places
    that start one. `CacheInv` and `StagingInv` say that only a verified archive gets
    that far.
  - `ClientSessionIsTrue`, `ClientPlaysTheNewestPack`: any profiles and packs.
    `SlotInv` counts who holds the launch slot, `PackInv` what a launch knows of the
    panel's pack. `ClientWindowIsTrue`: any number of font runs.
- **PanelPagesProofs**, about `PagesSpec` (any requests, players, addresses, visitors,
  archive names, attempts and failures). `MCPacks`, of which the proof uses only that
  `Nothing` is not in it, stands for the packages.
  - Settings. `PanelPageTellsTruth`, `PanelFormIsAPrefix` and the action property
    `PanelGateNotices`. `RunsAreHonest` says of every run of the ops binary, its
    answer lost or not, what the client may conclude from it. `FormInv`: of a form
    nobody disturbed the keys no longer to do hold what was posted, those behind the
    next one what was read. `SeenInv`: both reads of the dashboard saw states the
    unit had meanwhile. `GateInv` bounds the age of a fault by the age of the good
    report that hides it; a lag of two ticks is enough.
  - Certificate. `PanelCertificate`, with lifetimes of two days or more: a
    certificate is due for renewal before it expires (`Window`), so one that is
    served past that point has a failed attempt behind it (`ServedInv`); `PairInv`
    says which half of a pair each step has written.
  - Downloads. `PanelDownloaded`. `StoreInv`: each number refers to the pack it was
    given for. `Reliable`: a name read earlier in the request is free now or still
    names that pack, as long as it was not given away (`reused`).
  - Upload. `PanelUpload`. `PackageInv` says what each step of the import finds of
    the package, `TurnInv` who may act, `AnswerInv` what the answer rests on.

Model-checked only. `Terminates` and `AlwaysAnswers` are liveness under fairness, out
of the prover's reach. The runs of section 6 refute a property and so have
nothing to prove.

## 5. What is not modelled

- Contents: the bytes of packages, JSON and Lua beyond one line of a setting, and
  numbers and enumerations of config values other than a port. The repository's
  fault and resource tests cover these.
- Text and layout: `internal/i18n` with its catalogs (2 400 lines), the templates,
  `ui` style, font preview and the screens without background work, `panel/i18n.go`.
- Conversions and discovery without shared state: `openmwcfg`, `morrowind`,
  `clientlog`, `release`, `serverruntime`, command lines and environment of started
  processes, argument parsing, JSON envelopes, parsing of `systemctl` and
  `journalctl` output, `status` beyond the two reads it makes, `logs`.
- The checks of doctor that read what no command changes (ownership, archives,
  network, journald).
- `tes3mp-easy-pack`, `install.sh`, `bootstrap.sh` beyond the state they leave, and
  the fixtures.
- ACME's protocol, which is one external call, and the game server, which runs,
  crashes, saves and is stopped.
- Power loss as opposed to the death of a process: unsynced writes are taken to
  survive. A failed directory sync is modelled as an error its caller sees.

## 6. Where code and documents disagree

Four are runs whose property states the document or comment, and which TLC
violates.

- `state_deploy_auto_restart`: a unit that waits for systemd to restart it answers
  "activating" to `is-active`, is taken for stopped, and comes back while files are
  switched (`state_deploy_run.go:73`; docs/v2/04-ops.md:82).
- `backup_store_mods_target`: the predeploy backup of a mods deploy may prune the
  package it was asked to install (`mods_deploy.go:394`;
  docs/v2/03-contracts.md:345).
- `client_mods_crash`: between activating the new tree and writing the digest a
  crash leaves the new tree marked with the old digest (`internal/mods/swap.go:146`;
  the comment at 68).
- `client_mods_two`: "Play" beside a running "Update mods" removes the other's
  files (`internal/app/mods.go:71`; docs/v2/03-contracts.md:756).

Eight more are properties defined in their modules, with the document they state in
the comment. No listed run names them; making one the only invariant of a
configuration of its module gives the counterexample.

- `ModsDeploy!RolledBackWhileDown`: a start that timed out is still queued when the
  deploy rolls back, which does not stop the unit again, and the server comes up
  while files are moved back (`mods_deploy.go:468`; docs/v2/04-ops.md:82). One
  failing operation, late jobs and no crash of the game are enough. A state deploy
  does the same.
- `BackupStore!WayBackKept`: retention counts the two newest predeploy archives by the
  time in their names, and `createStateBackupLocked` does not protect the one it has
  just written; with two archives imported under later names a deploy deletes its own
  way back (`backups.go:592`; docs/v2/08-runbook.md:761). The configuration of
  `backup_store_mods_target` with `ImportAhead = 2` and `KeepPredeploy = 2`, the
  code's count, shows it. It came up as the step of `NewestKept` that could not be
  proved.
- `GameConfig!ServerReadsBack`: a comment after an empty server setting becomes the
  end of the next value set (`gameconfig/server.go:160`).
- `PanelSettings!OneNameAtATime`: two bans at once lose one (`admin.go:1789`).
- `ClientSession!FoundIsKept`: a game folder found while settings are saved is lost
  (`ui/ui.go:318`).
- `BackupsList!FallbackIsStable`: a page after a pruned cursor may repeat or skip
  archives (`backups.go:866`).
- `Archives!EveryBackupReadable`: `backups create` may finish a snapshot its reader
  refuses: uncounted extended headers, names that differ only in case
  (`write_state.go:439`).
- `Doctor!NoPartLeft`: a `.part` in `configs/` is not reported
  (`doctor/cleanup.go:50`).

Seen while modelling and not stated as a property: with two failing operations the
rollback of a state deploy removes a staging directory that still holds old
entries; a stop that timed out leaves a job that may stop the server after the
command has failed; the page of a saved config form may have the status of a refusal
(above, PanelSettings); the panel computes the difference of a config form against a
snapshot of its own (`admin.go:1526`), where docs/v2/05-panel.md:425 has the browser
do it; the comment of `ValidateModsDir` (`archive/deploy.go:17`) asks for at least
one plugin, which the code does not check.

## 7. Plan

Of the plan this project began with, the panel's settings, the restore, the
directory swap, the certificate, metrics, doctor, downloads, the client's session and
the pure parts are modelled, and every safety property a passing run checks is a
theorem. What is left, in order:

1. Durability of `atomicfile` against power loss, as the specification that
   `ConfigSet`, `PanelAuth` and `PanelTLS` assume of a write.
2. The rest of doctor's checks and of the client's UI, if they come to share state.
