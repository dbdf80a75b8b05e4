# Verification of the Gameyfin desktop app

TLA+ models of the desktop client in this repository (Rust crates under
`src-tauri/` and `crates/`, a React front end under `src/`), model-checked with
TLC, with theorems about them that TLAPS checks. The reference is the code;
where a doc or a comment says something else, the section "Where the code and
its docs part" says so.

## The system

The app browses a Gameyfin server, downloads and installs games from it, runs
them, and keeps the save files of one user's PCs in step through a store. It is
one process: a Tokio runtime on which IPC handlers (called from the web view),
background loops and a task per launched game or download run concurrently.
They share `AppState`: records and activities behind `RwLock`s, a writer lock
for the record file, and registries of what may be stopped.

| Component | State | Operations | Interacts with |
|---|---|---|---|
| Save decisions, `gameyfin-core/save_sync.rs` | none (pure) | `decide`, `forked`, `first_start`, `missing_here`, `passes_other_systems`, `forget_versions` | called by the flows with a record and a listing |
| Save sync flows, `src-tauri/saves.rs`, `ipc/launch.rs` | live save files, staging directory, packed archive, `LocalSaveState` in the record, `unsynced_sessions`, `answered_offers`, the gate of a launch | `before_launch`, `after_exit`, `do_backup`, `do_restore`, `retry_pending_uploads`, the prompts, the Saves page | the store, Ludusavi (external), the records, other PCs through the store |
| Save stores, `gameyfin-core/save_store.rs` | a directory of archives, sidecars and lock markers per game, on a folder or WebDAV; or the server's | `list`, `upload` with pruning, `delete`, `set_locked`, `download` | other PCs, file by file or request by request; a replication tool |
| Save migration, `save_migration.rs` | versions of two stores | copy the newest or all | stores |
| Game records, `library_state.rs`, `persist.rs` | records in memory, `library.json`, the writer lock | `load`, `update_record`, `persist`, `write_atomic` | every flow that remembers something |
| Claims and activities, `library_state.rs` | activity and claim of each game | `claim`, `set_activity`, `clear_activity`, dropping a `Claim` | downloads, installs, launches |
| Downloads, `download.rs`, `checkpoint.rs`, `ipc/library.rs` | partial file, checkpoint, registry of running downloads | start, pause, cancel, resume, unpack | server, claims, records |
| Archives, `extract.rs`, `zip_stream.rs` | what is on disk of each entry, threads of a tool, an attached disc image | unpack a file or a stream, resume | downloads, installs, external tools |
| Installs, `ipc/install.rs`, `setups.rs` | game folder, staging, `.incoming-`, `.outgoing-`, `installed_setups` | extract, move into place, run setups, rescan, uninstall | claims, records, process supervision, Wine |
| Process supervision, `process.rs`, `ipc/launch.rs` | the tree of processes of a game, a stopper, pipes | spawn, wait, stop, collect output | launches, installs, Ludusavi |
| Wine and Proton, `prefix.rs`, `proton.rs`, `graphics.rs` | runtimes and components on disk, the lock they share, a prefix and its marker | find, download, replace, remove, prepare | launches |
| Settings, `settings.rs`, `ipc/session.rs` | settings in memory and on disk | update, reset | everything |
| Session and server watch, `state.rs`, `auth_flow.rs`, `server_watch.rs` | token, client and its generation, browser profile, what is known of the server | restore, sign in, sign out, check, notify | server, saves |
| Catalogue, `gameyfin-api/catalog.rs`, `v1.rs`, `state.rs` | the mirror, `catalogue.json` | fetch by delta, at once or by page | server |
| Desktop, `steam.rs`, `shortcuts.rs`, `tray.rs`, `rendering.rs`, `gamepad.rs` | Steam's files, shortcuts and icons, the main window, the renderer's marker, a controller | add, remove, hide, reveal, rebuild, poll | other programs, launches, settings |
| Updates and images, `updater.rs`, `image_cache.rs` | the answer of the last check, the relaunch, cached files | check, install, restart; get, put, prune | the host, the server |

Where it is hard, and what makes each part correct:

* **Several PCs, no server in the loop.** On a folder or WebDAV there is no
  compare-and-swap: two PCs may check against the same newest version and both
  store. A replicated folder shows each PC its own uploads first. Correct means
  that no session's progress is silently overwritten, on a PC or in the store.
* **State kept in four places** on one PC (live files, staging, archive,
  record), each written by another step, with the app ending between any two.
* **Long operations on what was read before them.** `do_backup` reads its base
  before the scan, lists, and uploads against a listing that has moved on.
* **Prompts.** The user answers, defers or dismisses while other PCs upload.
* **Retries** of uploads, downloads, migrations, setups and launches whose first
  attempt left something behind.
* **Many writers, one file.** Every task saves the whole map of records; every
  launcher writes the same file of Steam's.
* **Files that appear and vanish one at a time**, in front of other PCs, of a
  rescan or of a crash.
* **Claims.** What a game is busy with must not outlive or be cleared by
  something other than its owner.
* **Processes that are not ours to end**: trees that hand over to others, groups
  that ignore a signal, helpers that hold a pipe, prefixes with their own server.
* **Answers that come late**: to a session check of a client since replaced, to
  a fetch during which the server changed.

`PROJECT.json` lists each of these at its line under `hazards`.

## Modules

| Module | Models | Checked by run |
|---|---|---|
| `SaveDecision` | every decision function of `save_sync.rs`, as operators | `MCSaveDecision` (all small listings beside all small records) |
| `SaveSync` | one game's saves on several PCs: launches, uploads, restores, prompts, retries, crashes | `MCSaves`, `SaveSyncStore`, `MCProgress`, `LoseOffline` |
| `SavePaths` | where a save's files go on another PC: redirects, folders set by hand, what a restore reports | `MCSteps`, `RestoreEarly` |
| `SaveTitle` | under which entry of Ludusavi's database a game's saves are kept | `MCSteps` |
| `VersionStore` | abstract: what a save store promises | implemented by the next two |
| `FolderStore` | the folder store, file by file, with several PCs | `MCStores` |
| `WebDavStore` | the share, request by request, with requests lost, refused and late | `MCStores` |
| `SaveMigration` | copying one game's versions to another store | `MCSteps`, `MigrationTwice` |
| `LibraryRecords` | `library.json` and the tasks that change it | `LibraryRecords` |
| `DownloadResume` | one game's download, its sidecar and what it leaves on disk, against a server whose archive changes | `DownloadResume`, `DownloadStuck` |
| `GameClaims` | what a game is busy with, for every command that claims it | `MCProgress` |
| `GameSession` | a launch and the supervisor of its processes | `MCProgress` |
| `Subprocess` | running a program for its output: installers, Ludusavi | `MCProgress` |
| `SetupRun` | a run of setup programs | `MCProgress` |
| `Unpacking` | unpacking by format, from a file or a stream | `MCProgress` |
| `WindowsPrefix` | runtimes, components and a game's prefix on Linux | `MCProgress` |
| `ServerWatch` | outages and changes of the catalogue, and what is told of them | `MCProgress` |
| `Updates` | checks, installs and restarts of updates | `MCProgress` |
| `Rendering` | which renderer a start draws with, after starts that crashed | `MCProgress` |
| `GameFiles` | extracting, moving into place, rescanning, removing | `MCSteps` |
| `SetupChoice` | which programs are setups, and their order | `MCSteps` |
| `ServerSession` | restoring, signing in and out, tokens, session checks | `MCSteps` |
| `LoginProfile` | the sign-in window and the profile that is cleared | `MCSteps` |
| `Catalogue` | listing games, and the mirror of the list | `MCSteps` |
| `Preferences` | settings and what has to follow them | `MCSteps` |
| `SteamShortcuts`, `DesktopShortcuts` | a game in Steam, on the desktop, in the menu | `MCSteps` |
| `Gamepad` | the thread that reads a controller | `MCSteps` |
| `Window` | the main window and the tray | `MCSteps` |
| `ImageCache` | cached artwork: turns, marks of use, pruning | `MCSteps` |
| `MC*` | instances for TLC | |
| `*_proofs` | theorems and proofs about the module named | |

Which modules touch: `SaveSync` uses `SaveDecision` and takes a store call for
one step, which `FolderStore` and `WebDavStore` open up; which of its versions
restore is `SaveDecision`'s `RestorableHere`, whose promise `SavePaths` follows to
the files. `SaveTitle` gives both the entry. `DownloadResume` ends
where `Unpacking` (the same stream, seen from the entries) and `GameFiles` (the
finished archive) begin; `SetupRun` runs what `SetupChoice` chose, each program
by `Subprocess`; `GameSession` starts once `WindowsPrefix` is done and `SaveSync`
let it. `GameClaims` is what lets the others assume that one command at a time
is at a game: they take no second command into account where it shows there is
none. `ServerSession` tells `ServerWatch` and `Preferences` which server there is.

**Side by side.** `MCSaves`, `MCStores`, `MCProgress` and `MCSteps` each check
several instances in one run. A variable (`world`, `kind`, `part`) says which
instance a behaviour is of, for good; the instance's variables are those of the
run, and `Next` is the disjunction of the instances' own `Next`, so the states
are the disjoint union and no step mixes two. A property names the instance it
is about; one that several share, such as `ComesToRest`, is a conjunction. In
`MCSaves` all four instances are `SaveSync` under different constants; in
`MCProgress` and `MCSteps` the components' variables are called `s1`, `s2`, ...
and the `INSTANCE ... WITH` says which is which.

### How the save sync model corresponds to the code

A save is the **set of play sessions** whose progress it holds. A session adds
its number to the live files of its PC, a restore replaces the set, and "no
progress is lost" is set inclusion. Two archives are equal when they hold the
same sessions and come from the same system (paths differ between systems).

| Variable | In the code |
|---|---|
| `store` | what `SaveStore::list` returns on each PC; one set for all PCs unless the store is a replicated folder |
| `record` | `LocalSaveState` in `library.json`; `backedUp`/`hash` are `last_backup_hash` |
| `live`, `staging`, `archive` | the save files, the directory Ludusavi writes, the packed archive beside it |
| `unsynced`, `answered` | `unsynced_sessions`, `answered_offers`: memory only, gone with the app |
| `game`, `upload` | where a PC's launch and its `do_backup` are; every `.await` on the store or on Ludusavi separates two steps |
| `asked` | the conflict prompt (`SaveConflictPrompt.tsx`) |
| `sessions`, `settled` | ghosts: the sessions played, and those some user was asked about and chose against |

Actions follow the order of the code: `Launch` (claim) → `Check`
(`state_at_launch`) → `Compare` (`adopt_if_identical`) or `FetchNewest` and
`PutBack` (`do_restore`) → `StartGame` → `Play` → `ExitGame` (`after_exit`) →
`BackUp` → `ListForUpload` → `StoreUpload` → `RecordUpload`. `UploadUnreached`,
`UploadFails`, `FailRestore`, `FailGame`, `Skip*` and `Crash` leave at the points
where the code returns. What may go wrong is the constant `Events`, so that a
run says which circumstances its properties hold in.

A store call is one step in `SaveSync`. `FolderStore` opens it up: copy begins,
copy ends, sidecar begins, sidecar ends, prune lists, archive, sidecar and
marker removed one at a time, with a failure after each, and is shown to
implement `VersionStore`, whose `Upload` and `Delete` are single steps.

In `LibraryRecords` a game's record is the number of changes made to it, so "at
least as recent" is `<=` game by game. `persist` is `Snapshot` (lock, then
clone), `WriteTemp`, `Rename`; each may fail, and the app may end anywhere.
`Read`, `SetDir` and `Adopt` are the three steps of `load`.

### How the download model corresponds to the code

An archive is `Size` blocks: its entries, and what follows them. A file on disk
is the sequence of the versions its blocks are of, so bytes of two archives in
one file can be seen; the unpack folder is a set of entries, each torn or whole.
The length of the file is what `reconcile` trusts, so of the sidecar only the
ETag and the unpack point are kept.

| Variable | In the code |
|---|---|
| `file`, `dir`, `cp` | the destination, `unpack_into`, the `.gameyfin-part` sidecar |
| `partial`, `archive`, `extracted` | `partial_download` (to a file, or with a folder), `archive_path`, `extracted_dir` |
| `pc`, `todo` | where `start_download`'s task is, and what it still removes |
| `into`, `body`, `buffer` | the task's `partial.unpack_into`, the response, the `BufWriter` |
| `pumped`, `mark` | what went down the channel to the unpacker, and its `ResumeMark` |
| `signal` | the entry in `downloads`, the registry of `Cancel`s |

`Ask` is `leftover`, the request and the answer; then one of `UnpackOn` (a zip
continues with an entry), `UnpackFresh` and `OpenFile`. Copying is `Chunk`,
`Flush`, `EndCopy`, `FinishCopy`; unpacking is `Pump` by the task and
`BeginEntry`, `FinishEntry` by the blocking thread, which sees a stop by itself;
`Settle` joins the two. `CannotStream` and `AsFile` are the second round of
`start_download`'s loop. Every removal is `Remove`, one thing at a time, and the
app may end between any two steps: a sidecar being saved is then gone, a folder
being removed partly there. The record is saved in one step (`LibraryRecords`
has the rest), and a body ends short only with an error.

### How the models of components correspond to the code

`WebDavStore` has `FolderStore`'s layout, but a listing is a `PROPFIND` and a
`GET` per sidecar, each an action, and a request may be refused, lost, carried
out without an answer, or carried out later (`late`). `told` is what a PC's last
upload was answered, `doomed` (ghost) the versions a user or pruning set out to
delete. `SaveMigration` keeps the two stores as sequences, newest first; a step
is one call on the destination, which may fail, be stored without an answer, or
be the last before a kill; the destination prunes as it stores.

`SavePaths`: a path is the sequence of its folders, and `kind` says what a PC is:
its system, the build installed, whose home is in the prefix, whether Documents
is linked or moved, whether games are inside the home. `PortableRoots`,
`EffectiveRedirects`, `WriteCarried` and `ReadCarried` are the functions of those
names; `StoredAs` and `RestoredTo` are Ludusavi's rule, the first redirect that
matches. `archive` is one version: its files by stored name, and (history) what
each of them was to the game, `back` what a restore told the user is back.
`Promised` says for whom: the same family of systems, or across families only the
folder that both PCs gave an agreed name. `SaveTitle`: `record` has the fields of
`LocalSaveState` up to `custom_paths`, an edition of the database is what each of
the four lookups returns, and a refresh goes waiting, searching lookup by lookup,
found, asking the store, with `lock` the one that every run of the helper takes.

`GameClaims`: `slot` is the pair of activity and claim that `LibraryState` keeps
per game; a task is a command with its claim and its place: at work, about to
clear, or in what it still does after it has let go. A command is data: what it
shows, which of the three ways out it takes, and what follows. `mode` tells
commands started by hand from those a finished download starts by itself.

`GameFiles`: a folder is a set of pieces of versions, so a merge of two versions
and a half of one can be told apart; every file copied, removed or renamed is a
step, and a rescan reads (`Scan`) before it records (`Adopt`). `SetupRun`: `run`
holds the steps chosen and what may be asked, `pc` follows
`prepare`/`works`/`judge`/`settle`; the program's own writes, its end and a stop
come at any time. `SetupChoice`: a program is what the code reads from its path;
`Less` is the comparison of `setups.rs:171`, `queue` what a run has left.

`GameSession`: `child` is the program started, `alive` its helpers, each of which
heeds a SIGTERM, ignores it or is outside the group (`nature`); the supervisor's
loop, its patience and its last resort are steps. `Subprocess` is the same for
programs that are read: a bounded pipe, a reader, helpers that keep it open.

`WindowsPrefix`: `marker` is what `.gameyfin-prefix` says was prepared, `prefix`
what is there; a launch goes `ensure` → choose → components → prepare → run
under the runtime lock, while the settings page replaces and removes builds.
`Unpacking`: an entry is absent, torn or whole; which reader the signatures pick,
the order of tools tried, UnRAR on Windows and the three threads around either
(`worker`, `sampler`, the unpack) are steps. A tar's link is left as `place_link`
leaves it, made or not; the scripts that mount and dismount a disc image may fail.

`ServerSession`: `mem` and `file` are the settings, `client` with its
`generation` the connection; `start`, `login`, `out` are the commands that may
overlap, each with what it has read so far. `Preferences` has the settings whose
change other state must follow; a command stores first and then brings the rest
in line, step by step. `Catalogue`: a game is the time it last changed; a request
is a step, the server moves in between. `LoginProfile`: profiles are numbered,
each remembers sign-ins; `held` are those Windows will not delete yet.
`ServerWatch`: a tick is the check, the comparison and the file, a notice going
out before the file is written.

`SteamShortcuts`: an account's file is a sequence of entries with owner, title
and position; `DesktopShortcuts`: whose each file at each location is. `Gamepad`:
one action is one poll, `out` what it sent, `owed` the presses not told yet.
`Window`: every reveal, release timer and watch over a game is a task with a
place of its own. `Rendering`: the marker, the preferences and the boot they were
left in outlive the process. `Updates`: versions are numbers; the host's relaunch
script and the copy that is quitting move independently. `ImageCache`: a file is
its length and last use; a request, a mark of use and the pruner interleave.

## Runs

| Run | Instance | Shows |
|---|---|---|
| `MCSaveDecision` | ids 1..3, bases including a pruned one, two systems, three makers | `forked`'s walk finds exactly the forks; uploads are forced only past what does not restore here; other systems' uploads change no verdict; deletions leave no dangling id |
| `MCSaves` | worlds `two` (two PCs, 3 sessions, 4 uploads, limit 2; races, skipped restores, old versions put back), `mixed` (a Windows and two Linux PCs, 3 uploads before play stops, room for all), `faults` (crashes, failures of Ludusavi and the store, failed launches, skips, deferred answers, backups by hand, limit 1), `replica` (a folder that catches up late, outages, crashes) | `BackedUpIsBackedUp` and `ProgressKept` in the first two, `LineageKept` in all |
| `SaveSyncStore` | two PCs, limit 1; locks, deletions, deletions whose listing fails, skipped restores, old versions put back | `PruningSpares` |
| `LibraryRecords` | three tasks, two games, two changes of each | `Durable`, `LastWriteCarriesAll`, `Saved` |
| `MCStores` | two PCs, two saves, two milliseconds, limit 1; three uploads to the folder, three calls and a fault on the share | `HeldWhole`: what is listed has its whole archive or, once its deletion began, none, a folder keeps its newest versions, and what was answered is on the share; and that both implement `VersionStore` (`IsVersionStore`) |
| `DownloadResume` | two zips, one with an entry that cannot be streamed, a tar and a rar, of 3 blocks; servers with ETags, without ranges, with ranges alone; 3 interruptions, 2 changes of the archive | `MarkHolds`, `DoneIsOneArchive`, `EndsClean` (a download resumed ends, and nothing unnamed is left) |
| `MCProgress` | ten components side by side; a screen of one scale | one user command at a game (`AloneByHand`); no session ends under a running game (`ExitedIsOver`); an unpack that ends well is executable, and whole but for entries passed over, a tar's links and what bsdtar unpacked (`UnpackedIsWhole`); no game starts in a prefix its marker lies about (`StartsPrepared`); downloads, output, play time, newer claims and disc images survive (`NothingLost`); all that begins ends (`ComesToRest`); of two PCs with outages, crashes, races, a replicated folder, failing calls, skips and backups by hand, an upload that waits is made (`PendingUploaded`); changes are told once, outages told and called off (`Told`); an updated or crashed app shows a window again (`ComesBack`) |
| `MCSteps` | fourteen components side by side; of the PCs between which a save travels any two of five kinds (Windows, Windows with its Documents moved, Proton, Wine with linked folders, a native build) | an install is not lost (`OldKept`); setups and copies of saves come in order (`InOrder`); restored saves are where the game reads (`SavesTravel`), under an entry nobody guessed (`Identified`); the session, its token and what was cleared (`SessionKept`); lists are complete (`EveryGame`); what follows a setting has followed (`SettingsObeyed`); entries and shortcuts of others stay (`EntriesKept`); no press is made up (`NoPhantom`); the window can be had back (`Reachable`); the oldest images go first (`PrunedLeastRecent`) |
| `DownloadStuck` | a rar of 2 blocks, one interruption | `Finishes` is violated, see below |
| `LoseOffline` | two PCs, outages | `ProgressKept` is violated, see below |
| `MigrationTwice` | four small stores, limits 1, 2 and 5, two migrations | `NewestStaysNewest` is violated, see below |
| `RestoreEarly` | Windows and Proton, saves handled before the game was ever started | `RestoredIsRead` is violated, see below |

**Bounds.** Three sessions are what a fork needs (a common ancestor and one on
each side); two uploads past the limit are what pruning needs to reach a base.
Two PCs are enough for every race the code names, three for a bystander of
another system. `MaxUploads` stops new launches and backups only, so whatever is
under way ends. Ids are bounded by the uploads. With clocks that agree a new id
is the smallest one free, which is the largest (ids only ever grow).
The stores read a directory in one step (the share its sidecars one by one), and
assume that nothing is deleted in the very millisecond it was uploaded in and
that the PCs share one clock. Three blocks are two entries and what follows them, so
a mark can be at the start, between and at the end; two changes of the archive
let one come back.

In `MCProgress`: three commands, for one that is late, one that came since and
one that finds the game busy; two helpers and two launches, so a second session
meets what the first left; a game, a patch and a DLC, two of them in a run; three
entries with every kind and one stop; a pipe of one line and two lines, so it
fills; two launches, two releases and one kill for a prefix that is prepared,
outdated and half done; two sizes, an outage and a comparison every second tick,
one kill; three releases, so an update can be overtaken; two boots and two kills.
In `MCSteps`: two files a version and two versions, so a half and a mixture can be
told from a whole, and one fault anywhere; three programs out of eleven kinds;
three versions and every limit below, at and above them; two servers; two games
and four changes; one page or batch per game, so every merge takes several
requests; two accounts, two titles; two presses and a repeat; two reveals and one
watch over a game; two requests for one cover.

Of saves that travel (`SavePaths`) one PC plays and one receives: what a redirect
does depends on the two PCs at the ends of one transfer and on nothing before it;
three deeds, each a file written or a folder changed, let two places of a game
(progress, options in Documents, files beside the program, leftovers of another
build in the Linux home) travel together, or one of them with folders that a PC
names. In `SaveTitle` there is an
edition before and one after a renewal, and two answers let one be given while a
search runs and one after it.

Deadlock checking is off but for `DownloadResume`, which never stops: in the
others sessions, uploads and changes run out, which is where a bounded instance
stops.

**Symmetry** is over PCs of one system, or over archive contents; never under a
liveness property.

**Fairness.** `LibraryRecords` assumes strong fairness of
taking the writer lock, which `tokio::sync::Mutex` gives as it queues its
waiters, and weak fairness of a write's steps. `DownloadResume` assumes that a
download's task goes on (it polls its stop every 250 ms and its connections
end) and that the user resumes a stopped download again and again, as the app
does not retry by itself; what interrupts it is bounded.

`MCProgress` assumes what its modules state. Of the sync of saves: weak fairness
of `Retry` (the retry loop runs every ten minutes while the app does) and of the
steps of an upload (a call on the store ends, with an answer or without one);
`PendingUploaded` concerns behaviours in which from some point on the PC reaches
its store, the game is left alone and the app is not ended, and as the two PCs are
alike it is asked of one. Of the others: the app's own tasks and threads are
scheduled (weak fairness of the next step of each task, of the launch, of the
supervisor, of a run of setups, of a reader of a pipe, of a tick), a lock of
Tokio's is handed on in order (strong fairness of a launch's steps, which take
it), and a start of the app either draws or dies (strong, as the user starts it
until there is a window). Nothing is assumed of a game, an installer, a helper,
a user's answer or the server: a run of setups ends *unless* a program never
does, and an outage is told *if* it lasts. `GameClaims` alone takes it that
whatever a command does ends, games included. A fairness condition there is a
disjunction over the components, one of each; since a behaviour is of one
component, the disjunction is fair exactly when that component's own action is.

## Proofs

TLAPS proves, for every value of the constants:

* `MCSaveDecision_proofs`: `NothingUsableIsBuried` and `NoDanglingRecord`, for
  listings of any length. The invariant is that a listing is a finite set of
  versions with different ids and that the record names listed ones; such a
  listing has a newest version (`NewestIsLargest`), which is what the decisions
  are about.
* `SaveSync_proofs`: `TypeCorrect`, and `CleanupSpares` (`PruningSpares` with
  clocks that agree). The latter needs that ids in every replica are at most the
  number ever minted, so a new id is larger than all, and then that the newest
  of a set is not past a limit of at least one.
  `UploadsStayInLine` proves `LineageKept` under `InLineEvents`: nobody deletes
  versions by hand, no launch overlaps an upload, and either the PCs are of one
  system or no uploads race, no replica lags and no call fails; each of the four
  worlds of `MCSaves` is such an instance. Its invariant `LineInv` says that one
  id is one version wherever it is listed, that only versions with a newer one
  left are ever removed and that without lag all PCs list the same
  (`StoreSound`), that without races one upload at a time has its listing
  (`OneLists`), and, of each place a launch or an upload can wait at, that what
  this PC has in hand covers the version its record names, or that its record is
  behind what it lists, so an unforced upload is refused (`InStepHere`).
  `ProgressStays` and `BackedUpHolds` prove `ProgressKept` and
  `BackedUpIsBackedUp` under `CalmEvents`: PCs that reach their store, with
  skipped restores, old versions put back and locks, and either of one system,
  races included, or of several that do not race, as long as nothing is pruned
  (`Unpruned`) and none of them is `"unknown"`, which passes for every system. The
  other events do break them, as the second table below and `LoseOffline` show,
  and pruning does between systems. `KeptInv` adds to `LineInv` where the versions
  are (`Ground`: ids are given out in order and none is lost but by pruning), that
  each version a PC can use holds what the older ones held (`LineHeld`), that no
  answer is put off (`NothingWaits`), and that what a PC has in hand is all in the
  newest version it can use, unless it has yet to be scanned or the record is
  older than that (`KeptHere`).
  `RoomForAll` then shows that nothing is pruned where the store keeps one version
  for each PC beyond those there are when play stops (`Roomy`). It counts
  (`RoomInv`): the versions and the PCs that may still store one before their next
  launch are together never more than that, since an upload that stores a version
  takes its PC out of the second number and only a launch, of which there are none
  once play has stopped, puts it back.
* `MCSaves_proofs`: `BackedUpAlways`, `ProgressAlways` and `LineageAlways`. Each
  world of `MCSaves` is an instance of `SaveSync` and its theorems; a behaviour
  that begins in one is a behaviour of that instance (`TwoBehaves`, ...), and the
  instance meets the theorems' assumptions (`TwoParameters`, `MixedRoomy`, ...).
* `LibraryRecords_proofs`: `TypeCorrect`, `NeverLost` (`Durable`) and
  `NothingLeft` (`LastWriteCarriesAll`), for any tasks and games, with failing
  writes, misread files and crashes. Neither property is inductive: the
  invariant `Inv` adds that the writer is the one that holds the lock, that no
  task saves before startup is done, that what was saved is in the file, in the
  copy under way *and* in memory, and that what memory has beyond the copy is in
  the hands of a task still to save. The copy is made under the lock; with it
  made before (`SnapshotOfMine`) the third part fails.

* `DownloadResume_proofs`: `MarkAlwaysHolds` (`MarkHolds`) and `DoneIsWhole`
  (`DoneIsOneArchive`), for archives of any length, however often a download is
  stopped, cut off or crashes and the archive on the server changes. `MarkInv`
  adds to the first that the folder is removed after the sidecar that points into
  it, that a body which continues an unpacked zip is of the archive the sidecar
  names, and that what is unpacked is never behind the sidecar. `ArchiveInv` adds
  for the second that every block of a file is of its sidecar's ETag, so that a
  range is only ever added to its own archive, and that a folder a sidecar points
  into holds one archive's entries, none of them torn up to where it points.
* `MCStores_proofs`: `HeldWholeHolds`, and `StoresImplement`, that the folder and
  the share both implement `VersionStore`, for any PCs, saves, clocks and limits.
  `HeldWhole` covers the deletion that was cut short after the archive: what
  it leaves listed has no archive, and is the only listed version without one.
  `FolderInv` says of every upload and deletion under way which of a version's
  files are there, and that a listed version has its whole archive or, once its
  deletion began, none; `ShareInv` the same of requests, of which one may still be carried out
  after its answer was lost (`Carry`). A step of either then adds one version,
  takes one away or changes nothing that `list` shows, which is what
  `FolderRefines` and its counterpart for the share say.
* `MCSteps_proofs`: `SettingsObeyedHolds`, `ReachableHolds`, `SessionKeptHolds`,
  `OldKeptHolds`, `IdentifiedHolds`, `NoPhantomHolds`, `PrunedLeastRecentHolds`
  and `EveryGameHolds`, each for any values of the run's constants. Most of the properties
  do not hold between the steps of a command, and the invariants say what does:
  `PrefsInv` that what a setting has not reached is still in the hands of the
  command that stored it; `TrayInv` that
  without a tray nothing hides the window or lets it go; `SessionInv` that at
  most one task changes the session at a time, that memory and file agree, and
  that the client's token is the stored one but for a task that replaces it;
  `ProfileInv` that the profile in use remembers nothing that was cleared, and
  one with a higher number nothing at all, as a reset may move on to it;
  `FilesInv`, at each place of `move_into_place`, which folders are there;
  `TitleInv` that an entry is passed on only from where it was named or certain,
  and that a search has the helper to itself and has settled nothing in the
  lookups before the one it is at; `PadInv` that what a poll may send, a button
  that waits, a trigger not known to be pulled, a direction not known to be held,
  is owed; `CacheInv` that a file a request has open is there, so that none comes
  back under an old use, that the pruner's listing tells files and uses apart and
  what it has still to see was used later than what it removed, and that unless
  something failed all it has not removed is still to see and there. What entries
  take together adds up by `BytesSplit`. `CatalogInv` that no two changes are of
  one time, that a mirror, the file and a finished list have, as it is now, every
  game last changed up to their time (`Knows`), that of a delta every such game
  is still to be asked for, was, or is as it was (`DetailsFit`), and that pages
  hold the first places of the server's list and nothing else (`PagesFit`). That a
  page turned is the next places, and a short or a last one ends the list, is
  `PagesEnd`, from the fact that the places of an order without ties are filled
  from the first on (`PlacesFill`). `IdentifiedHolds` has `Steady = TRUE`,
  `NoPhantomHolds` a trigger that is an axis and `EveryGameHolds`
  `PagesRest = TRUE`, as the run has (for the others see the second table below).
* `MCProgress_proofs`: `AloneByHandHolds`, `ExitedIsOverHolds`,
  `UnpackedIsWholeHolds`, `NothingLostHolds` and `StartsPreparedHolds`.
  `ClaimsInv`: a task at work by hand holds the claim that is in the slot, and
  no claim is given twice. `SessionInv`: a session that ended by itself found its
  group empty, and it stays so. `SetupInv`: the steps before the one a run is at
  went in or failed, and between programs no stop is waiting. `ProcessInv`: a line
  that was printed is read or in the pipe. `UnpackInv`: the entries before the one
  that is read are whole or left out (`LeftOut`: names that lead outside, hard
  links, and links, which may end in any way), a mark is never past them, a tool's
  thread works only while it is waited for, and an image is ours no longer than that.
  `PrefixInv`: a marker of Wine's names only what is on disk, and either agrees
  with the prefix's system folder or is out of date, also against what a launch
  under way is about to prepare.
  `StartsPreparedHolds` assumes `MaxRescale = 0`, a screen whose scale never
  changes: with two scales it does not hold of the code (see the second table
  below), so the assumption cannot be dropped.

In a run with several components, a behaviour's `part` never changes
(`PartStays`) and a step is a step of the component it names (`OnlyItsSteps`); a
component's invariant is then proved of its own `Init` and `Next` alone.

The assumptions are the modules' `ASSUME`s, which TLC evaluates on each instance
(those of a module that is only instantiated are definitions, asserted by the MC
module that instantiates it).

Model-checked only: the liveness properties `Saved`, `EndsClean`, `ComesToRest`,
`PendingUploaded`, `Told` and `ComesBack` (fairness and `ENABLED` are out of the
prover's reach), `ForkedIsFork` (the walk is a recursion over data), and so far
`OtherSystemsIgnored` and, of `MCSteps`, `InOrder`, `SavesTravel` and
`EntriesKept`. Between
several systems `ProgressKept` and `BackedUpIsBackedUp` need that nothing is
pruned: the newest version a system can restore may be the one that goes (see the
second table below). The
type invariants `TypeOK` of `MCProgress` and
`MCSteps` are proved as far as the invariants above contain them.

## Where the code and its docs part

Four runs end in a violation:

* `LoseOffline`: `do_backup` writes staging before it knows whether the upload
  succeeds, and `scan_local` takes staging for what was last synced. A session
  whose upload waits looks unchanged, so a newer save of another PC replaces it
  at the next launch without a question, where `docs/saves.md` promises one.
* `DownloadStuck`: the copying loop looks for a stop before it sees the end of
  the body, and the sidecar goes only after that. A pause while the speed limit
  sleeps after the last chunk, or the app ending there, leaves the whole file
  beside its sidecar; the next attempt asks for a range that starts at the end,
  which a server with ranges refuses (416), and so does every one after it.
* `MigrationTwice`: a migration skips what the destination already holds. After
  one of the newest version alone, one of all versions puts the older ones on
  top of it, though `save_migration.rs:80` says the destination "ends up ordered
  the way the source was"; `CopiesKeepOrder` (in `InOrder`) holds where every run
  copies all.
* `RestoreEarly`: a Windows game on Linux that was never started has no prefix, so
  `portable_roots` takes the Linux home for the portable one. A restore from the
  Saves page puts the save there, says it is in sync and records it so; the first
  launch makes the prefix and has nothing to restore. `SavesTravel` has the same
  with saves handled only once the game was started (`Early = FALSE`),
  which is what a launch does by itself: it syncs after the prefix is prepared.

Others were met and are reproduced by changing a constant; the passing runs are
kept clear of them. Of saves (`SaveSync`, under the cfg of `LoseOffline` with
other `Events`):

| Property | Events | What happens |
|---|---|---|
| `ProgressKept` | `"lag"` | `forked` needs this PC's version to have a base, so two first uploads into a folder that has not caught up end in a silent restore, where `docs/saves.md:55` promises a conflict |
| `ProgressKept` | `"failing"` | when this PC's files cannot be scanned the check goes by the packed archive (`saves.rs:918`), so a session whose upload failed before packing looks unchanged and is restored over, where the comment above says "The files, not the record of the last backup, which can be wrong" |
| `ProgressKept` | `"skew"` | an upload from a slow clock is listed below its base, which is then restored over it |
| `ProgressKept` | `"delete"` | with nothing left `forget_versions` keeps the hash, so the PC counts neither as new nor as changed, and restores whatever comes next |
| `LineageKept`, `BackedUpIsBackedUp` | `"delete"` | the record moves to the newest version left, which this PC may never have had; its next upload goes on top of it |
| `BackedUpIsBackedUp` | `"outage"` | the overview compares the packed archive, which an upload that failed before packing did not touch |
| `BackedUpIsBackedUp` | `"skip"`, `"failed"` | a note that a session started unsynced outlives the launch it was about, so a later session is not uploaded |
| `LineageKept` | `"race"`, three PCs of two systems | the upload is forced on a listing that a usable version is missing from |
| `ProgressKept` | three PCs of two systems, `MaxVersions = 2` | one system's uploads prune another's base, and the fork is not seen |

Of the other components. The properties named are in the modules, and no passing
run checks them:

| Module | Property, constants | What happens |
|---|---|---|
| `SaveTitle` | `PickKept` | `identify` overwrites the whole answer with its own when it ends, an entry that the user picked meanwhile included; after an update of the database a refresh of the Saves page searches for every unmatched game, one after the other, each with the record read before it waited |
| `SaveTitle` | `SearchedAgain` with `Steady = FALSE` | a search is up to four runs of the helper, and any may renew the database (a check falls due, or succeeds after one that failed); the stamp recorded is the last one's, so the first lookups were in an older database, where `docs/saves.md:44` says a game that was not recognised "is looked up again after each update" |
| `DownloadResume` | `DoneIsOneArchive` without its exception of `"no-etag"` | without an ETag on either side `is_resumable_against` lets a file be continued unchecked, so two archives end up in one file, where `checkpoint.rs:2` says "a changed file is never spliced" |
| `FolderStore`, `WebDavStore` | | a version locked between pruning's listing and its deletion is removed; a deletion cut short after the archive leaves a version listed that cannot be fetched, and the share then answers "unchanged" to an upload of the same save |
| `SaveMigration` | | a version copied is unlocked until its lock follows, and a kill in between leaves it so; a hash that comes back is copied once |
| `GameClaims` | `Alone`, modes `"automatic"`, `"apart"` | a download that is extracted by itself has already freed the game; `delete_download` clears the activity of whoever claimed the game in between. `library_state.rs:467`: "Marks a game busy. `None` when it already is." |
| `GameFiles` | `ReplacedByWhole`, `Offered` | a failed removal of `.incoming-` is ignored, so pieces of an earlier attempt are moved in with the new version; a late rescan may put back or take away what a command just recorded |
| `GameSession` | | a helper that ignores SIGTERM, or is started between the two kills, survives a stop; on Windows the job object ends nothing; a game started as administrator does not hear a stop |
| `SetupRun` | | a stop that comes between two programs is lost, and one that comes as a program ends cleanly does not end the run |
| `SetupChoice` | `Program` with a patch that has no version | the comparison is not transitive then, so the order depends on the sort |
| `Catalogue` | `EveryGame` with `PagesRest = FALSE`; `TitlesForgotten` | pages read while the library moves skip a game; a fetch that ends after signing out writes the titles back |
| `Preferences` | `SettingsObeyed` with two servers, with `Syncs` or `Killed`, or with two `Caller`s | naming another server changes the store saves go to, and no command forgets the ids; a kill, a sync under way or a second command at once keeps ids of the old store |
| `ServerSession` | `SessionKept` with mode `"together"` | a sign-in that overlaps signing out or another server is stored over it |
| `WindowsPrefix` | `RetriesComponents`, `RootIsTheRuntimes` | after a failed download of DXVK a prefix counts as prepared, where `graphics.rs:73` says "its marker makes the next launch retry"; a prefix that Proton has used keeps `pfx` as its root under Wine |
| `WindowsPrefix` | `StartsPrepared` with `MaxRescale = 1`, `MaxLaunches = 3` | `prepare_prefix` runs `wineboot`, which puts Wine's own Direct3D back, and replaces the marker only at its end (`ipc/launch.rs:599`); a kill in between leaves the old scale's marker naming components that are gone, and once the screen is back at that scale the prefix passes for prepared, where `prefix.rs:143` says "Whether a prefix is prepared exactly as `wanted` describes." |
| `Unpacking` | `UnpackedIsWhole` without `LeftOut` | hard links of a tar are passed over, and a symlink is left out with a warning or none, the unpack ending well, when it has no name, points outside, cannot be made or, on Windows, stands before what it is a copy of; bsdtar may succeed without having written everything; a 7z sets no executable bit |
| `Unpacking` | `ImageAsFound` without its `scriptFails` | a script that fails after it mounted, or one that does not dismount, leaves the app's own image attached to Windows |
| `SteamShortcuts` | `EntriesKept` with `Unreadable` or `Overlapping` | a file that cannot be read is taken for empty and replaced; two requests at once lose an entry, and the one backup is overwritten by the second |
| `DesktopShortcuts` | `EntriesKept` with `Users = {"old"}` | on Windows a shortcut of the user's own with the title is overwritten |
| `Gamepad` | `NoPhantom` with `Triggers = {"axis", "button"}` | a trigger that is reported both ways is told twice |
| `Window` | `ByHandShows` | a start by hand that reaches a copy still restoring a login start is hidden all the same |
| `Updates` | `ComesBack` with `HostAnswers = FALSE` | when the commit cannot be read nothing tells an update from none |
| `LoginProfile` | `ClearedIsGone` with `Together`, or faults `"torn"`, `"open"` | a window opened meanwhile, or a number that cannot be read, goes back to the old profile |
| `ImageCache` | `CachedIsWhole`, `MaxFaults = 0`, `MaxUses = 7` | marking a file as used sets the length read before, which cuts or pads what another request wrote since; `image_cache.rs:148` calls it "a no-op on the contents" |

Of `library.json`, an unpacked game is recorded in two saves, and between them
nothing names its folder (`LateStops`, `NothingLeftBehind`); `load` tells
`persist` where the file is before it adopts what it read, and `LibraryRecords`
assumes, as startup does, that nothing changes records before.

## Not modelled, and the plan

`PROJECT.json` names every component with its status. Out for good are data
transformation (archive and shortcut formats, hashing, decoding, command lines),
drivers of other programs' options (Ludusavi's configuration, environments of a
runtime), and views: they keep no state between calls, and what they do to state
the models keep is part of the actions. The server's own store is another
program. Of what is modelled, left out: settings that nothing follows, saves
in the registry, the sandbox that lets a misplaced file seem written, the scan of
this PC for other games' saves, how the speed limit paces a transfer, free space, link
providers, torrents, the fallback to the web session, probing a server and
normalising its address, games added by hand (`untracked.rs`), the wording of
notices.

Some steps are coarser than the code. `SaveSync`: packing an upload and storing
it are one step (`StoreUpload`; the stores' own modules take storing apart).
`DownloadResume`: the download root stays; a changed one drops the earlier partial
(`library.rs:78`). `ServerWatch`: the comparison is one step, though it waits for
the update's record in between (`server_watch.rs:126`). `Rendering`: writes of the
marker and of the preferences may fail, removals of the marker may not.

What is left to prove, in order:

1. `EntriesKept` (`SteamShortcuts`, `DesktopShortcuts`): an invariant about what a
   task read before it waited, over the selections of sequences it is written with.
2. `NothingLeftBehind` of `DownloadResume`, the safety half of `EndsClean`.
3. `InOrder` (`SetupChoice`, `SaveMigration`) and `SavesTravel` (`SavePaths`). They
   rest on an insertion sort written as a fold, on sorted selections of a sequence
   and on prefixes of paths, about which lemmas are needed first.
4. The remaining conjuncts of the two `TypeOK`.
