# loxbak in TLA+

loxbak backs up a Loxone Miniserver: on a cron schedule, or when asked to, it
syncs the Miniserver's files over FTP into a persistent mirror directory, zips
the mirror, stores the archive at every destination the schedule is linked to
(local directory, WebDAV, FTP), deletes the archives beyond the newest N there,
and records what happened in SQLite. A web interface administers schedules,
destinations and backups. One process does all of it, with goroutines.

These modules say what that process does, check it with TLC on small instances,
and prove with TLAPS what should hold for every number of runs, schedules,
destinations and requests.

## Inventory

| Component (source) | State | Operations | What is hard | What makes it correct |
|---|---|---|---|---|
| Backup runs (`scheduler/job.go`, `db/runs.go`) | `runs`, `run_destination_results`, `mirrorMu`, the temp directory | `RunSchedule`, `TriggerRun`, `doRun`, `storeToDestination`, `pruneOldBackups`, `FinishRun` | overlapping runs share mirror, temp directory, destinations; each step may fail, hang or be the last before a crash | the mirror is not shared; what is uploaded is the run's own complete archive; success only when all destinations were served; outcomes recorded; the run ends and cleans up |
| Archive names and retention (`job.go`, `destinations/destination.go`) | none | `SanitizeName`, prefix match, sort, slice | names that sanitize alike or are nested; file-name order against time | what is deleted is of the schedule's own prefix and older than `keep` others |
| Destinations (`destinations/*.go`) | the files stored | `Store`, `List`, `Delete`, `Open` | partial files, deletes under each other's hands, a 404 that is success, answers that get lost | a schedule keeps its newest complete archives |
| Scheduler (`scheduler/scheduler.go`) | cron entries, `entries`, `mu` | `Reload`, `Start`, `Stop` | overlapping reloads, a listing read before the lock | entries tracked; what runs is what the table enables |
| Schedules API (`api/schedules.go`, `db/schedules.go`) | `schedules`, `schedule_destinations` | create, update, delete, run now | two transactions and a reload per request | table, links and cron agree |
| Destination administration (`api/destinations.go`, `db/destinations.go`) | `destinations` | create, update, delete, purge | check and delete in two statements, secret read and written back, purge under running backups | a linked destination is not deleted; no secret is lost |
| Backups page (`api/backups.go`) | none of its own | list, download, delete | deletes files that prunes have listed | file and history row go together |
| Miniserver mirror (`ftp/client.go`) | `$DATA_DIR/mirror` | `Mirror`, `mirrorDir`, `downloadFile`, `withRetry` | listings and downloads given up on, torn files, quick check by size and time, files that change in mid-transfer, file/directory changes | a copy taken for current is current; no good copy is lost; the mirror converges to the Miniserver |
| Login and sessions (`api/auth.go`, `session/`, `db/credentials.go`, `db/sessions.go`) | `loxone_credential`, `sessions`, `settings` | login, logout, validation | read-then-write of the one credential, logins cut off between steps, a secret that must survive restarts | only accepted credentials are stored and the last one is used; sessions last until they expire or a logout has deleted their row, and not longer |
| Schema migrations (`db/migrations.go`, `migrations/*.sql`) | the schema, `schema_version` | `RunMigrations` | a crash between statements, a referenced table rebuilt | no row or link is lost; each migration is applied once; the API answers over a whole schema |
| Process lifecycle (`cmd/loxbak/main.go`) | — | start, signals, shutdown | runs killed at exit, requests during shutdown | the process ends, and waits ten seconds before it leaves anything unfinished |
| Run history API, crypto, HTTP plumbing, frontend, build | — | reads, pure functions, rendering | — | — |

How they interact: a cron entry or *run now* starts a goroutine that runs
`doRun`. It reads `schedules`, `schedule_destinations`, `destinations` step by
step while request handlers change them; SQLite is opened with one connection,
so each statement, and each transaction, is atomic. Runs meet each other at
`mirrorMu`, in `os.TempDir()`, at the destinations and in the history tables.
Every handler that changes schedules, and the one that deletes destinations,
calls `Scheduler.Reload`. Foreign keys tie the tables: links cascade with their
schedule, result rows lose a deleted destination (`SET NULL`), and an insert
for a destination that is gone fails.

## Modules

| Module | Models |
|---|---|
| `ArchiveNames` | `SanitizeName`, archive file names, the prefix match, the name order and the slice of `Prune`, as operators |
| `BackupRun` | runs from their row to their outcome, all they share, and the requests that change it meanwhile |
| `BackupVault` | the abstract promise of runs, which `BackupRun` is shown to implement |
| `CronSync` | `Reload`, the handlers that call it, startup and restart |
| `MirrorSync` | one sync after another of the Miniserver's files, call by call, against a Miniserver that changes |
| `DestinationAdmin` | create, update, delete and purge of destinations, statement by statement, with links being set and runs storing |
| `Lifecycle` | the process over its database: migrations, startup, serving, shutdown, crashes |
| `LoginStore` | logins, sessions and the stored credential inside the process of `Lifecycle`, which it extends and implements |
| `BackupRunProofs`, `RetentionProofs`, `BackupPromiseProofs`, `CronSyncProofs`, `MirrorSyncProofs`, `DestinationAdminProofs`, `LifecycleProofs`, `LoginStoreProofs` | the theorems |
| `MCBackupRun`, `MCCronSync`, `MCMirrorSync`, `MCDestinationAdmin`, `MCLoginStore` | values of the constants, and symmetries, for TLC |

An operator named `X_Y` beside an action or operator `X` is a faulty variant of it
(a dropped guard, a missing reset): each property has one that violates it.

### ArchiveNames

A name is a sequence of integers that keep what the code tells apart of a
character: whether it is safe, and how it compares with others. A whole
timestamp is one symbol, since timestamps have a fixed width and sort like the
time. `HasPrefix` and `LexLess` are `strings.HasPrefix` and Go's string `<`;
`Beyond(L, keep)` is `matched[keep:]` of the list sorted newest first.

### BackupRun

`pc[r]` names the next call of run `r` on something others share, and each such
call is one action; everything between two of them is local. The variables:

| Variable | In the code |
|---|---|
| `names`, `links`, `dests` | tables `schedules`, `schedule_destinations`, `destinations` |
| `runs`, `results` | tables `runs`, `run_destination_results` |
| `mu` | `mirrorMu` |
| `clock` | the second of the last archive's name |
| `temp` | `os.TempDir()`: file name to content |
| `store` | what each destination holds |
| `pc`, `job` | each goroutine's position and local variables |
| `expired`, `hung` | contexts past their deadline; calls on peers that went silent |
| `removing` | the Backups page's delete between its two steps |
| `deleting` | the destination whose delete has counted no links and is about to delete the row |

A file's content is the run that wrote it and whether it is complete, which is
all the properties distinguish. The actions follow `doRun`: `ReadLinks`,
`ReadSchedule`, `EnterMirror` (lock), `SyncDone`, `Stamp` and `ZipDone`
(`archiveDir`, whose end also releases the lock), then for each link `Open` and
`CopyDone` (`Store`), `ListDone` and `PruneDelete` (`Prune`), `Forget` (history
rows), `Record` (result row), and finally `Cleanup` (the deferred `os.Remove`)
and `FinishRun`. Each has its failing counterpart with the code's reaction:
loading, mirroring and archiving failures end the run, a failing store marks
the destination failed, failures of pruning and recording are logged and
passed over. An FTP or WebDAV server may also do what it was asked and its answer get
lost (`CopyUnheard`, `PruneUnheard`, under the fault `reply`): the run then takes the
store or the delete for failed, while the archive is there, or gone. `Expire` is the context's deadline, which interrupts nothing; it
is seen by the next dial (the Miniserver's, an FTP destination's) and by
`Mirror` between files. `Hang` is a silent peer: no call has a deadline once it is
connected. `Crash` is the death of the process: tables and files stay.

The three destination types differ in what the model keeps apart: a WebDAV
upload may be invisible until complete, and its client takes the 404 of a
delete for success; local and FTP uploads appear truncated at once, and
deleting a missing file is an error. FTP dials with the run's context.

`DeleteDestination` is two statements, `CountLinks` and the `DELETE`: a link set in
between is taken by the cascade, and result rows of the destination lose it.

Which failures can occur is the constant `Faults`; each property is checked with
the failures it is meant to survive, and the violation runs show those it does
not. `MinGap` says whether two archives can fall in one second. The mirror's own
content is `MirrorSync`'s subject; here `Mirror` succeeds, fails, hangs or runs out
of time, and an archive is complete when the zip of what the mirror held is.
The credential's decryption and an unknown destination type are load and store
failures. Only one removal on the Backups page is under way at a time.

### BackupVault

What a user is promised: a run is told which destinations it owes, delivers a
later archive to them one by one, is a success only when it owes nothing; and an
archive is retired only while a later complete one of its schedule is at the
destination, so that a destination, once it has a complete archive, always has
one. A delivery may be one the run never hears of: the archive is there, the run goes on
owing it and is no success. `KeepsPromise` is the refinement: the vault is the set of complete
files, a run owes the positions of its plan it has not stored at, as far as it knows.

### CronSync

Requests are goroutines: the change of the table, the links, then `Reload`'s
listing, lock, removal of every entry, addition of every listed one, unlock.
Entries have the cron library's ids, so that an entry lost from
`Scheduler.entries` would show as one nobody can remove. An expression the
library rejects is skipped. `Restart` empties everything but the table and
reloads before the first request is served, as `main.go` does. `alone` is a
history variable: the last request overlapped with no other and none of its steps
failed. `KeptInSync` is what the scheduler's comment says of every quiet moment;
`InSyncWhenQuiet` says it of those after such a request.

### MirrorSync

`Mirror`'s recursion is kept as the code keeps it, a frame per directory:
`stale[d]` and `todo[d]` are `mirrorDir(d)`'s local variables, `at` the directory it
is in, `pc` the next call. `EnterDir` looks at the context and at the excluded
directories and reads the local names; `List` and `ListFails`, `Get`, `CopyDone`,
`CopyCut` and `DownloadFails` are the FTP commands with `withRetry` around them;
`Visit` is the body of the loop, `Prune` the removal of what is stale. The Miniserver
writes, makes and removes entries between any two of these (`Write`, `Make`,
`Remove`). What can go wrong: a command refused, a transfer cut short that passes for
complete (the data connection's close error is ignored), the control connection gone,
the deadline, a removal that fails, the death of the process.

A version of a file is the time the Miniserver wrote it. A local copy has the version
it holds, its size, its mtime (the listing's once stamped, the download's moment
before), and whether it is whole. A file cut short has length 0, which no complete
file has: a cut that happens to leave the complete length, of a file cut and stamped, is
outside the model. Two versions are further apart than `mtimeTolerance`
(`Gap > Tolerance`): changes within the tolerance are the exception the code documents.
The clocks of the two machines agree, and listings
carry a time: what `downloadFile` does without one (it stamps nothing) is left out.

### DestinationAdmin

`pc[q]` is the statement or call request `q` is about to make; `var[q]` its local
variables. An update reads the row for its secret and then writes it; a delete with
`purge=true` builds the destination, counts the links, deletes the row (links cascade),
lists and deletes file by file. `SetLinks` is `SetScheduleDestinations`, one
transaction; runs read the row of a linked destination and store there later. A place
is where a destination keeps its files, and two destinations may have the same one, as two local ones of one
name do.
A stored secret is named by what it decrypts to. `alone` has the requests no other
request has overlapped with: what a handler promises of itself is stated for them, while
runs go on all the same.

### Lifecycle and LoginStore

`Lifecycle` takes the migrations a statement at a time, because `sql.Exec` of a file with
several statements commits each of them by itself, and the version is recorded by a statement of
its own. The database at the first start is a fresh one or one that any release left,
with or without a recorded version. A table is there or not, and has rows; `DROP TABLE`
takes the links with it when foreign keys are enforced. `ensureSessionSecret`,
`LoadSchedules`, the signal, `Scheduler.Stop` (waits for the runs cron started, not for those
begun by hand), `Server.Shutdown` (waits for requests in flight) and their shared ten
seconds follow `main.go`. `Crash` may come at any moment.

`LoginStore` gives the requests in flight a content: a login validates the password with
the Miniserver, reads the credential, inserts or updates it, and makes the session, each
a step that others and a crash may come between. A logout deletes the session's row or,
where that fails, leaves it (`left`): the answer is the same. Tables and cookies outlive the process;
signatures and sealed passwords are named by the key that made them; the master key may
differ from start to start, and the Miniserver's password may change. `ServerIsLife`
proves that every step of `LoginStore` is one of `Lifecycle` or a stutter, so that what holds of
the one holds of the other.

## Runs

| Run | Instance | Shows |
|---|---|---|
| `RunOverlap` | 3 overlapping runs of two schedules whose names sanitize alike, one WebDAV destination that works, keep 1; archiving fails, peers hang | `MirrorNotShared`, `UploadReadsOwnArchive`, `RetentionSettles`, `PruneLeavesNewer` |
| `RunAlone` | 3 runs of two schedules, one at a time, with destinations of all three types, keep 1 and 2; everything but the database fails, answers get lost, time runs out | `HistoryMatchesStore`, `OutcomesAlwaysRecorded`, `KeepsPromise` |
| `RunAdmin` | 2 runs one at a time; renames, deletions, links set also amid the delete of a destination, lost answers, failing database, one crash | `TypeOK`, `KeepsPromise` |
| `RunFinishes` | 2 overlapping runs, archives in one second allowed, failing mirror and stores, lost answers, expiry, hangs, deletions, removals; fair | `TempEmptied`, `OnlyNamesakesDisturb`, `EveryRunFinishes` |
| `RunCron` | 3 requests, 2 at once, 1 restart, links and listing may fail, an invalid expression; fair | `TypeOK`, `EntriesTracked`, `InSyncWhenQuiet`, `ReloadIsWhole`, `RequestsFinish` |
| `RunMirror` | a tree of 9 paths with a directory that may not be listed, a file that may not be read, an excluded directory and a link; 2 changes, 2 faults, 1 retry; fair | `TypeOK`, `QuickCheckSound`, `CleanSyncMirrors`, `SettledCopyKept`, `EventuallyMirrored` |
| `RunDestAdmin` | 3 requests and 2 runs, 2 destinations that may share a place, one call fails; symmetric | `TypeOK`, `LinksHold`, `PurgeTakesAll`, `DeletedStaysDeleted`, `SecretKept`, `DeleteDropsNoLink`, `PurgesOnlyTheDeleted` |
| `RunServer` | 2 starts, 1 crash, databases of every release, 2 logins, logouts that may fail to delete, 1 run, 2 master keys, 1 change of the password; fair | `TypeOK`, `ServesMigrated`, `CookiesLast`, `LastLoginUsed`, `OnlyAccepted`, `NothingLost`, `MigratesOnce`, `ShutdownPatient`, `SignalEnds` |

Bounds. Two overlapping runs are enough for any race of two at the mutex or in
the temp directory; at a destination the third makes a prune meet an archive
another prune has deleted and one it has still to delete, with keep 1 the
smallest list that is cut. Two destinations in one plan make partial success
possible. For `CronSync` two requests race and a third finds what the race has
left. In `RunMirror` the two changes let a file change between listing and download
and again during it, or be removed and come back; two faults let a cut download be
followed by a crash, or a lost connection by the deadline; `MaxRetries` 1 has both a
retry and a giving up; `Gap` 2 is the least above `Tolerance` 1. In `RunDestAdmin` two
requests race at one destination while the third makes another one. In `RunServer`
the crash may come after any statement of the migrations or of a login, and the second
start meets what it left. `CHECK_DEADLOCK FALSE` is set because runs, requests,
starts and changes are bounded in number: the system stops when all have ended.
Symmetry is used where no liveness property is checked.

Fairness. `BackupRun`'s and `CronSync`'s `FairSpec` is weak fairness of each goroutine's
own steps: the Go scheduler runs every goroutine that can run. The mutexes need no more, since
each is taken a bounded number of times; Go's mutex prevents starvation anyway.
`MirrorSync`'s is weak fairness of the sync's steps and of the start of another one, since the
schedule always comes round again; `LoginStore`'s is of the process's own startup and
shutdown steps, its timer included.
No fairness is assumed of failures, of requests and their answers, of runs that are
shut down, of the administrator, of the Miniserver's changes, or of a hung peer.

### Where the code does not do what its text says

| Run | Property | What happens |
|---|---|---|
| `VPruneOwn` | `PruneKeepsJustStored` | schedules `d` and `d-l` share a destination: in name order `d-l`'s archives count as `d`'s, and as newer, so that `d` deletes the one it just stored |
| `VGoodLost` | `GoodBackupSurvives` | on FTP an upload an overlapping run has just begun counts as a backup, and the complete one is deleted; nothing fails |
| `VCronStale` | `KeptInSync` | the listing is read before the lock, so an older one may be installed last |
| `VMirrorStuck` | `EventuallyMirrored` | a name that was a file becomes a directory: `MkdirAll` fails on the mirror's file, which ends this sync and every later one |

Others were seen with the same modules, under constants or for behaviours the
properties leave out, and have no run of their own:

- With `MinGap = 0`, two overlapping runs of names that sanitize alike may stamp one second
  and share a file name; `UploadReadsOwnArchive` fails. `OnlyNamesakesDisturb` says that
  this is the only way one run gets at another's archive.
- Schedules whose names sanitize alike have one prefix: at a destination they share, "the
  newest N backups per schedule" (`src/README.md:38`) are the newest N of both, and the prune of
  the one may take the only archive of the other. `PruneLeavesNewer` is about a prefix.
- When the answer of a store is lost, the run is recorded as failed though its archive is
  there, complete. When the answer to a prune's delete is lost, the history row of the deleted
  archive stays. `HistoryMatchesStore` allows both, the second only where a later archive of
  the prefix is there.
- `HistoryMatchesStore` fails for overlapping runs: an archive pruned before its run
  has finished keeps its success row, since `FinishRun` writes the file name last.
- `OutcomesAlwaysRecorded` fails under `RunAdmin`'s requests: for a destination
  deleted after the run read its links, the result row violates the foreign key.
- `RetentionSettles` fails for overlapping runs on a local or FTP destination: a prune
  that meets a file another prune has deleted gives up, and older ones stay until a later
  prune. Wherever deletes fail they stay too: the property is about a destination that works.
- The two hours do not end a run whose peer went silent; `EveryRunFinishes` excepts it.
- `KeptInSync` fails when the links of a request cannot be set: the
  schedule's row is committed and the cron not reloaded.
- A link set between a delete's count and the delete of the row is dropped, and the
  later of two overlapping updates may put back the secret the earlier one replaced:
  `DeleteDropsNoLink` and `SecretKept` are about requests that do not overlap.
- Two first logins at once leave two rows of the one credential; every read takes the
  lower id, whichever login was last.
- A login whose password was accepted and is outdated by the time it is stored may replace
  that of a newer login it overlaps with: `OnlyAccepted` is about ever accepted, and
  `LastLoginUsed` about logins that do not overlap.
- A logout whose `DeleteSession` fails is answered 200 all the same (`api/auth.go:76`), and the
  cookie is let in until it expires. `CookiesLast` says so.
- Two local destinations of one name share a directory: a purge of the one takes the other's
  archives too, as does a prune where their schedules' names match. `PurgesOnlyTheDeleted` says when
  a purge may begin and where it goes to work, not whose the files are.
- A process killed amid migration 0002 or 0003 may leave a database every later start
  gives up on, since `CREATE TABLE destinations_new` or `ADD COLUMN` fails;
  `MigratesOnce` excepts it.
- A directory that becomes a file is given up on by every sync: `os.Create` fails on
  the mirror's directory, which is no longer stale.
- No run is ever finished as `partial`, a status the schema declares: `Outcome`
  is `failed` as soon as one destination failed.

One more comes from reading the code and no model has it: `DeleteExpiredSessions` is called by
nobody, so rows of expired sessions stay (they are refused all the same).

## Proofs

All for arbitrary constants that satisfy the modules' named assumptions.

`BackupRunProofs`:

- `TypeCorrect` (`Spec => []TypeOK`). `TypeOK` alone is not inductive: that a
  looping run's position lies in its plan, and that it has an archive, depends on
  its stage. `JobOK` adds what each stage says of the local variables, and
  `TInv == TypeOK /\ JobOK` is inductive. There is one lemma per stage of the run.
- `MirrorExclusive` (`Spec => []MirrorNotShared`). The strengthening is `Holding`:
  a run syncing or archiving *is* the one in `mu`.
- `OnlyNamesakes` (`Spec => OnlyNamesakesDisturb`, no premise). Only `Stamp` creates or
  truncates a file there, only `ZipDone` completes one and only `Cleanup` removes one, each
  the run's own `job[r].file`, and all other steps are quiet: so a step that touches another
  run's archive is one of a namesake. Names are equal only where schedules sanitize alike
  and the second is the same.
- `ArchiveIsOwn` (`MinGap = 1 => (Spec => []UploadReadsOwnArchive)`) adds that in that case
  there is no namesake: none is stamped ahead of the clock and the clock advances with
  each archive (`NotAhead`, `Apart`). The code does not enforce the premise, and with
  `MinGap = 0` TLC finds two runs that share a name.
- `TempIsEmptied` (`"archive" \notin Faults /\ MaxCrashes = 0 => (Spec => []TempEmptied)`).
  `TempOwned`: each file there is the archive of a run that will remove it. Both premises
  are needed: `archiveDir` leaves its file when it fails, and so does a process that dies.
- `OutcomesRecorded` (`"db" \notin Faults /\ DeletableDests = {} => ...`). `OutcomeInv`: a run
  at a position of its plan has a row for every position before. An insert that fails, or
  one for a destination deleted meanwhile, is only logged; the premise is their absence.

`RetentionProofs`:

- `PrunesLeaveNewer` (`~UserRemoves /\ Separate(Known) => (Spec => PruneLeavesNewer)`,
  where `Known` are all names schedules may have). A prune deletes from a listing
  that other runs' stores and prunes have outdated. `RInv` says what stays true of
  it: a file of the cut is an archive of the run's own prefix, and is `Backed` by a
  newer one at the destination, also where an earlier delete was done and not heard of. When another run deletes that newer one, it was in
  the other's cut and so backed itself by something newer still (`DeleteRInv`).
  The base case is the listing: what lies beyond the newest keep has a newer match
  (`BeyondHasNewer`, which needs keep > 0), the match is of the same prefix
  (`MatchesOwnOnly`, from `Separate`), and among archives of one prefix Go's string
  order is the order of time (`NewerIsLater`). Both premises are needed: nested
  names break the match, and a removal by hand may take what backs a cut.
- `RetentionIsSettled` (`Settling => (Spec => []RetentionSettles)`), for overlapping runs and
  removals by hand. At rest the count says nothing of what was before, so the invariant
  follows it while runs are under way: a destination with more than keep archives of a
  prefix is `OnTheWay`, that is, some run there is storing or about to list, or one is
  deleting a cut that leaves no more than keep (`CutLeavesKeep`). A run that stores too much
  is itself the one about to list; archives that others add or delete meanwhile belong
  to runs of the same prefix, which keep as many. `Settling` says what this needs:
  WebDAV, whose 404 is success (elsewhere a prune gives up at the first file
  another has deleted), storing, listing and deleting that work, and schedules
  that keep their names and lose their links only all at once, and that, where they
  sanitize alike, keep the same number at a destination they share.

`BackupPromiseProofs`, for runs one at a time (`OneAtATime`: `MaxActive <= 1`, archives a
second apart, no removals by hand, names that can be told apart):

- `PromiseKept` (`OneAtATime => (Spec => KeepsPromise)`), the refinement of `BackupVault`. The
  invariant `PInv` joins the three above with `SoloInv`: at most one run is neither idle nor
  done (`Solo`); runs are numbered as they start and each stamps once, so that the
  clock is behind the run about to stamp and no archive stored is ahead of it; and `Doing(r)`
  says stage by stage what the run's row, its position and its failures are, and that its
  archive, the latest of all, is complete where it has stored it, and nowhere else but where
  it has tried to and the answer may have been lost (`InPlace`, `Tried`, `Stored`). One lemma per
  step says which step of the vault it is: the schedule's reading accepts, a copy that
  arrives delivers, heard or unheard, a deletion, heard or unheard, retires a file that leaves
  a later complete one (the run's own), a finish settles, a crash abandons, and the rest stutter.
  Overlapping runs break the promise in ways the violation runs and the list above show.
- `GoodBackupsSurvive` and `JustStoredStays` (`OneAtATime => (Spec => GoodBackupSurvives)`,
  and the same of `PruneKeepsJustStored`): what `VGoodLost` and `VPruneOwn` refute is true under
  these premises. The first follows from the refinement alone, since a vault keeps a
  complete archive of every schedule it has one of; the second from `Backed`, since nothing at
  a destination is later than the archive of the one run under way.
- `HistoryTrue` (`Faithful => (Spec => []HistoryMatchesStore)`, where `Faithful` adds that the
  database works, the process does not die, and no destination is deleted). `HInv`: under a
  run's name lie contents of its own only (`Signed`, `OwnNames`); a run under way has
  success rows for exactly the positions it has passed without failing, and the
  archive of a run that is done is where a success row says, unless a prune has just deleted it
  and is about to drop that row, or has deleted it unheard, which it does only where a later
  complete one is (`Told`, `Ended`). At rest nobody is about to. At a local destination, and where no
  answer is lost, history and destination agree exactly.

`CronSyncProofs`:

- `TypeCorrect`, `Tracked` (`EntriesTracked`) and `WholeReload` (`ReloadIsWhole`), from an
  invariant that says who holds the mutex in which stage and that what has been added
  and what is still to do make up the listing.
- `BackInSync` (`Spec => []InSyncWhenQuiet`). The same invariant, with `OneAwake` (while
  `alone` holds at most one process is under way) and `ListedNow` (what it has listed is
  what the table enables still).

`MirrorSyncProofs`, for any tree, depth, sizes, edits, faults and retries:

- `TypeCorrect` (`TypeOK`).
- `CopiesSound` (`QuickCheckSound`). `QInv` says that every version seen, in a listing or at
  the start of a transfer, is the one the Miniserver has or at least `Gap` older (`Seen`),
  and that a copy with a length is stamped with the time of the version it holds, or
  with that of one the Miniserver has since replaced (`Stamped`). Since `Gap > Tolerance`
  and what was cut short has a length no file has, what passes the check is the version
  there now.
- `SettledCopiesStay` (`Spec => SettledCopyKept`, no premise). `WalkInv` is what the
  recursion keeps: only directories on the way to the current one have entries waiting,
  each entry is visited once, and nothing on the way down is stale. `KeptInv` adds that
  a listing is no older than the copies it is compared with (`NotNewer`), a download is begun
  only for a copy that is not up to date (`Wanted`), and nothing beneath a stale name no
  longer waiting is known to be right (`StaleUnknown`): the Miniserver's files are a tree too
  (`HangsTogether`), and only the end of a download makes a copy known (`KnownBefore`). `TreeInv`
  says where the sync is: its directory is in the mirror, the names of a frame and the file
  being downloaded lie directly in their directory, and a file being copied is there, since only the
  sync's own pruning removes anything, and that is a whole subtree below it.
- `CleanSyncsMirror` (`Steady => (Spec => []CleanSyncMirrors)`). At rest the property has no
  memory of the sync, so `CleanInv` says it of a sync under way: what it has read is still so
  (`Undisturbed`), and whatever it can get at is the same on both sides already or ahead
  of it: beneath a name waiting or stale in some directory on the way, beneath
  the one being entered or listed, or being downloaded (`Covered`). When the root is left
  nothing is ahead. `Steady`, that no path is a file at one time and a directory or something else
  at another, is needed: `VMirrorStuck` is a tree without it. `RunMirror`'s tree has it.

`DestinationAdminProofs`, for any number of requests, runs, destinations and places:

- `TypeCorrect` (`TypeOK`).
- `LinksLeadSomewhere` (`LinksHold`): both that set and that delete are one transaction.
- `DeletedForGood` (`DeletedStaysDeleted`): ids up to `lastId` are never given again and an
  update writes a row or none.
- `SecretsKept`, `DeletesDropNoLink` and `PurgesTakeAll`, about a request that no other overlaps
  with, for any number of others before and after it and any runs meanwhile. Their
  invariants say that such a request is the only one under way and what its local variables
  still say of the tables: the secret read is the row's, the counted id is not linked, what
  is owed is still listed, spared or gone.
- `PurgesTakeTheDeleted` (`PurgesOnlyTheDeleted`), from `GInv`: a request that lists or purges,
  whatever it overlaps with, has seen its row go for good (`RowGone`), since ids are not
  given again; and where nothing overlaps, the place read before the count is the row's still.

`LifecycleProofs`, for any destinations, links, runs, requests, starts and crashes:

- `LifeTypeCorrect` (`LifeTypeOK`).
- `MigratedFirst` (`ServesMigrated`). `SInv` relates the statement about to be made, the
  recorded version and the database (`VersionFits`, `TablesMoved`, `ColumnAdded`,
  `RowsCopied`, `KeysEnforced`): what each statement before it has done is there,
  whichever statements an earlier process had made.
- `MigrationsKeepAll` (`NothingLost`). Before the `DROP` every row has been copied and
  foreign keys are off.
- `MigratedOnce` (`MigratesOnce`). `MInv`: unless a process was killed amid the migrations,
  the database is just as the statements made so far leave it, so that the next applies.
- `PatientShutdown` (`ShutdownPatient`). `Waited`: once draining, no run of cron's is
  under way unless the ten seconds are over.

`LoginStoreProofs`: `ServerIsLife` (`Spec => LifeSpec`), by which `ServerKeepsLife` has the
four of `Lifecycle` for the server; `TypeCorrect`; `StoredWasAccepted` (`OnlyAccepted`: a
login past `validate` carries a credential the Miniserver has accepted); `LastLoginCounts`
(`LastLoginUsed`: while `alone` holds, a login that has read no row finds none when it
writes); `SessionsLast` (`CookiesLast`: every cookie carries the stored secret, which is made
once and is the key of every process that serves, and a cookie's row is there until a logout has
deleted it, which `left` tells from one that could not).

Every safety property of a passing run is so stated by a theorem, under the premises named
here, and each run is an instance of its premises. Only model-checked: liveness
(`EveryRunFinishes`, `RequestsFinish`, `EventuallyMirrored`, `SignalEnds`). Liveness under
fairness and `ENABLED`, induction over data, and `RECURSIVE` operators are out of the
prover's reach; no module here declares one.

## Not modelled

- The run history API, the Backups page's listing and download, and the reads of schedules and
  destinations: they change nothing. What the history must say is stated of the tables.
- Encryption: a pure function of the standard library. A sealed secret is named by what it
  decrypts to (`DestinationAdmin`) or by the key that sealed it (`LoginStore`).
- HTTP plumbing (routing, decoding, logging, static files) and the frontend.
- When an entry of the cron is due: the cron library's business, so that a schedule due
  while a `Reload` has its entry removed is outside (`scheduler.go`, `Reload`).
- Sizes of archives, error texts, logging, times other than archive names and mtimes,
  the environment's checks before the database is opened, the build.

## Plan

1. A module of the Backups page: its listing attributes files to schedules by name and
   the history by run, and may disagree with both.
2. The cron library's firing, to say what a `Reload` makes a schedule miss.
3. Weaker premises where they are stronger than the code needs: `OneAtATime` could allow
   overlapping runs of schedules that share no destination, and `Settling` other names
   and links between runs.
