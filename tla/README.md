# Verification of the ZOS upload service

TLA+ specifications of the LAN upload gateway of this repository, TLC instances
that check them, and TLAPS proofs of the central results. Line numbers refer to
`src/` at the commit the project was written for; `PROJECT.json` maps every
definition to the lines it stands for.

## 1. The system

One process (FastAPI, one event loop) receives files from clients, stores them
in an S3 bucket through the *storage provider* and remembers every upload in a
*ledger*, a SQLite file. Clients later delete what they stored with a token that
only they have. There is no lock between the parts below: what coordinates them
is the order of their transactions and some conditional updates.

Handlers are coroutines. The database and provider calls of the upload and
deletion handlers run in worker threads, so each of these calls is a point where
everything else may happen. The recovery pass and the settings routes call the
database on the loop itself, without such a point. Every transaction is
`BEGIN IMMEDIATE`: transactions are atomic and follow one another.

| Component | State it keeps | Operations | Talks to |
|---|---|---|---|
| Upload handler, `app/uploads.py` | locals of a request | look up the key, resolve the preset, receive the form, insert under quota, PUT, HEAD, update, 201 with the token | ledger, snapshots, provider |
| Deletion handler, `app/deletions.py` | locals of a request (row as read) | check, claim, HEAD, DELETE, HEAD, update; administrator's cleanup | ledger, provider, event log |
| Recovery, `app/runtime.py:699-862` | `recovery_complete`, the pass's batch | HEAD every undecided task, write the outcome | ledger, provider |
| Task ledger, `app/database.py` | `upload_tasks` with its CHECK, unique index and foreign key | inserts, blind updates, conditional claims, scans, retention | |
| Provider client, `app/providers.py` | none | `upload_file`, `head_object`, `delete_object`, connection test; which errors are *uncertain* | the bucket |
| Presets and revisions, `app/database.py`, `app/runtime.py:130-675` | `storage_presets`, `storage_configs`; snapshots and the default key in memory | create, save, switch, disable, load, retention | ledger, provider (test) |
| Supervision and readiness, `app/runtime.py:60-160, 675-697, 864-1031` | `last_probe`, `background_status` | start, supervise, probe, `/readyz` | all of the above |
| Request guard, `app/http.py` | slots, attempts per source address | admit, limit, release | handlers |
| Event log, `app/eventlog.py`, `app/main.py:655-688` | `service_logs`, `degraded` | emit, retention, paging | ledger |
| Schema and releases, `app/database.py:308-663`, `scripts/deploy-release.sh`, `app/deploy_backups.py` | schema version, snapshots of the database | migrate, release, roll back, restore, prune | docker, ledger |
| Off-site backup, `app/backup.py`, `scripts/zos-backup.sh` | archives in a bucket | create, verify, restore | ledger, bucket |
| Routes, sessions, models, configuration, dashboard | session cookies | routing and validation | handlers |

What makes it hard:

- **A task has three writers.** Upload handler, deletion requests and recovery
  update rows by id alone; recovery decides by a row it read before its HEAD.
- **The provider may fail without saying what happened.** A PUT or DELETE that
  timed out may have been applied, or may still be; one that was refused may have
  been applied before its client repeated it.
- **The process may die anywhere**, between an object and its row, between a row
  and its answer.
- **Time separates the actors**: recovery leaves `uploading` and `deleting` rows
  alone until they are older than a stale limit.
- **Configuration changes under running uploads**, while a connection test lets
  other requests in; old revisions are purged.
- **A release is a script** whose every command may fail, and which may itself be
  killed, while containers migrate the one database.
- **A bounded batch of oldest tasks** is all a recovery pass looks at.
- **An upgrade is several transactions**, and a start that fails between two of them
  leaves a version in between, which a later start, or a backup, finds.
- **Records and files come and go while somebody reads them**: pages of the log,
  snapshots under retention, backups under restore.

What makes each part correct:

- *Uploads and deletions*: nobody loses an object that a 201 promised; an object
  always has exactly one party that can delete it; a deletion that was confirmed
  stays so; at most one request acts on an object; no object is unknown to the
  ledger that the provider did not say was refused; nothing stays undecided.
- *Ledger*: no outcome is refused by a constraint because the row moved on.
- *Recovery*: no decision is taken from an outdated row; everything the storage
  can answer for is decided in the end.
- *Presets*: one enabled default with a configuration; memory agrees with the
  database; a revision follows the one its author edited.
- *Request guard*: each slot comes back exactly once and to whoever waits first;
  the window bounds what is admitted; Retry-After is long enough.
- *Readiness*: a lasting outage of the default storage is noticed, one that is over
  is forgotten.
- *Releases*: no task stored before the new release is lost without the script
  saying that its rollback failed, one image at a time works on the database, and what
  the script reports is so.
- *Schema*: an upgrade, however often interrupted, keeps every task, claims nothing
  that was not known, and leaves a complete copy of what was there before.
- *Backups*: what was called verified restores to what was committed; a restored
  directory is one backup with its own key.
- *Event log*: paging misses and repeats nothing; an audit event tells of a change
  that happened, once, and is never removed.
- *Admission*: one task per key; clients and presets are kept apart; quota holds;
  a task's configuration outlives nothing less than the task.

## 2. The modules

| Module | Stands for | Uses |
|---|---|---|
| `ObjectLifecycle` | what the service promises about one object (abstract) | |
| `TaskLedger` | upload handler from the inserted row on, deletions, recovery, provider, crashes | refines `ObjectLifecycle` |
| `TaskLedger_proofs` | its theorems | `TaskLedger`, TLAPS |
| `StorageSettings` | presets, configurations, snapshots | |
| `Admission` | an upload before its file is sent | extends `StorageSettings`; tasks move as in `ObjectLifecycle` |
| `Admission_proofs` | theorems about the settings alone, beside uploads, and about admission | `Admission`, `Sums` |
| `RecoverySchedule` | which tasks a pass takes, and when | |
| `RecoverySchedule_proofs` | what a batch holds; that it is one of `TaskLedger`'s | `RecoverySchedule`, `TaskLedger`, `Sums` |
| `RequestGuard` | the middleware in front of the upload routes | |
| `RequestGuard_proofs` | its theorems | `RequestGuard`, `Sums` |
| `Readiness` | supervised tasks, connection tests and `/readyz` | |
| `Release` | a release on the server and its rollback, migration at start | |
| `ReleaseSnapshots` | the snapshot files of releases and their retention | extends `Release` |
| `Release_proofs` | theorems of both | `ReleaseSnapshots`, `Sums` |
| `Migration` | a start that upgrades the database, step by step | |
| `OffsiteBackup` | backup commands beside starts and the service | extends `Migration` |
| `OffsiteBackup_proofs` | what the steps of both preserve, and the theorems | `OffsiteBackup`, TLAPS |
| `EventLog` | writers, retention and readers of `service_logs` | |
| `EventLog_proofs` | its theorems | `EventLog`, TLAPS |
| `Sums` | lemmas about sums over finite sets, least and greatest numbers, and the first of an order | TLAPS |

The `MC*` modules give the constants of a run and its symmetry.

### TaskLedger

`row[t]` is the row of task `t`: `status`, `object_status`, whether
`delete_token_hash` is set, the ETag and the deletion error. `store[t]` is what
the key holds: nothing, the file that was sent, another object of the same size
or of another size. `aged` are the rows beyond their stale limit, `late` the
requests the provider may still apply although their client gave up, `told` what
clients were answered. `misled` is a ghost: the requests the provider applied and then
refused. boto3 repeats requests and uploads large files in parts
(`app/providers.py:224-251`), so the answer to a completed upload may be lost and the
repetition answered `NoSuchUpload`, which the client takes for certain
(`app/providers.py:436-442`; for a deletion, 508-514). `PutRefused` and `DeleteRefused`
may therefore come before or after the request was applied.

- Upload handler (`pc` of `upload[t]`): `BeginUpload` is the inserted row,
  `PutApplied` the object at the provider, `PutConfirmed`, `PutRefused` and
  `PutUncertain` the answer, `HeadUpload`, `SaveUpload`, `ReplyCreated`. Each
  await of `upload()` lies between two of them.
- Deletion request (`deleter[d]`): `ReadTask` (the checks of
  `delete_task_object` in front of the claim), `Claim`/`ClaimLost` (the
  conditional update), `HeadBefore`, `DeleteApplied`, ..., `HeadAfter`,
  `SaveDeletion`. `admin` says through which route it came.
- Recovery (`recovery[t]`): `StartPass` reads the batch and copies its rows,
  `RecoverHead`, then `RecoverSave` writes what the *copy* and HEAD call for over
  the row as it is by then. `RecoverSaveFails` has the two ways a failed write
  goes: an upload falls back to `unknown`, a deletion ends the pass.
- The blind updates all go through `UpdateTask`, which refuses what the table's
  `CHECK` forbids.
- `Crash` drops every handler and leaves rows and objects as they are;
  `ExternalChange` is somebody else writing to the bucket; `Purge` is retention.

Abstractions: a task is the uuid of one request, so a key is written by one PUT.
Any tasks may make up a batch (the order is in `RecoverySchedule`). Version ids,
hashes, sizes beyond same/other, messages and the columns nobody decides by are
left out. HEAD's 404 means that the object is absent: a missing bucket, which
answers 404 too (`app/providers.py:480`), is not modelled. Rows from before schema
version 2 (`legacy_unverified`) are not modelled.

Two constants are assumptions of the code about its surroundings:

- `SlowRequests`: may a request still run when its row is beyond the stale limit?
  Both limits default to 900 seconds, but `read_timeout_seconds` may be 3600, and
  retries multiply it. `FALSE` is what the code relies on; `ledger_slow` shows
  what happens otherwise.
- `LateEffects`: may the provider apply a request after its client gave up?

### StorageSettings

The tables `storage_presets` and `storage_configs`, the revision that is active,
the snapshots served from memory (`installed`, `default`) and the requests that
wait for a connection test (`saver`). Saving and creating are two steps, the
test being in between; everything else is one, since these routes run on the
loop from the commit to the snapshot. `LoadMayFail`: `_load_active` re-reads the
presets after a commit, and can fail. `AliasRoute`: `PUT /v1/settings/storage`
writes to whatever preset is the default when it commits. Each configuration
remembers, as a ghost, which configuration it was edited from (`basis`).
`state_revision` is left out: it refuses an outdated request as a whole and so
only removes behaviours. The module has no run of its own: its actions are part of
`Admission`'s next-state relation, and `SettingsSpec` is what the proofs are about.

### Admission

`request[t]` is the handler of a request, `phase[t]` its task as
`ObjectLifecycle` sees it, `answer[t]` what the client is told before its file is
sent. `Arrive` looks the key up, `Resolve` picks preset and revision from
memory, `Insert` is the transaction of quota check and insert (with the unique
index and the foreign key), `LookUpAgain` the exception handlers of
`QuotaExceeded` and `IntegrityError`. The settings routes and `PurgeConfigs`
run between these steps. `Proceed` lets an inserted task move as
`ObjectLifecycle` allows; with `Revivals` also from void to kept, which
`TaskLedger` can do when `SlowRequests` holds. `PurgeConfigs` ignores age: it may
remove any inactive configuration no task refers to. `Contended` keeps
retention (days) from forgetting a task while a request for its key is running.

### RecoverySchedule

Numbers are tasks in the order of their creation. `Batch` is the code's query:
the oldest uploads first, deletions in the places left; `Slice` the chunk run at
once. `Stuck` tasks are those no HEAD decides. What a pass does to one task is
`TaskLedger`'s business; here it settles or stays.

### RequestGuard

`attempts` is the deque of each source address, as ages in place of times; a tick
is half a second, so that Retry-After's rounding to seconds is visible. `slots` is the
semaphore of Python 3.11: a slot given back is handed to the first waiter (`woken`),
who runs later, and a newcomer queues up as long as there is a waiter. `request[r]` is
one connection that sends an upload after another.

- `Limited` is the 429, `Admit` the rest of the way to the semaphore: the attempt is
  counted before the request waits. With a slot, at once or by `Resume`, `Enter` goes
  on: 413 for a declared length, with the slot given back, or the application.
- `Read` is one chunk of the body through `limited_receive`; a chunk beyond the limit
  ends the application (`refused`: the 413 is being sent). `Finish` is the finally
  block. The application is whatever ends: it may finish before it read all.

`admitted` and `promise` are ghosts: the admissions of the last minute, and how long
a refused client was told to wait. Left out: uploads refused for their credentials or
request id, and other requests. Bodies are counted in chunks of one unit.

### Readiness

The state is what `ready_checks` reads: the `default` storage, `last_probe`,
`background` and `complete` of the supervised tasks, `degraded` of the event log, and
the environment (`down`, `broken`, `backlog`), which changes at will. `start()` is the
initial state. `supervisor[o]` is the loop of task `o`: `Run`, then `Succeed` or `Fail`,
then `delay`. A probe remembers the storage it tests, and writes its verdict over
whatever was noted meanwhile. `BeginSwitch` commits a new default and tests it
(`FinishSwitch`, or `AbandonSwitch` when the test raises something unforeseen),
`Activate` is a configuration that was tested and saved. A verdict says what the
storage did at the end of the test. One `Interval` stands for all three intervals and
for the minute after a failure. The free space of `TEMP_DIR` and the schema, which
`/readyz` looks up on the spot, are left out, and so are presets that are not the
default.

### Release

`script` is `deploy-release.sh`: its `pc` is the next command, `stopped`, `saved`
and `broken` are its flags (`release_started` follows from `saved`). `container`
holds the candidate and the service, `db` the one database with its
`user_version` and its tasks. One action per command: `Stop`, `SaveDatabase`,
`StartCandidate`, `Accept`, `RemoveAccepted`, `CutOver`, `Check`, `Prune`; `Fail` is
the ERR trap at any of them, and `RollBack`, `StopRelease`, `Restore`, `StartOld`,
`Down` are `rollback()`, whose own commands may fail too. `Migrate` and `Serve` are
`Database.initialize` of whatever container starts, one version at a time;
`Upload` is a whole upload at the service. `Kill` ends the script anywhere. A
release may follow on the last, whatever became of that.

The database is a file, `mainFile`, and its write-ahead log, which together are `db`;
`Checkpoint` moves the log into the file, and a process that is killed leaves it.
`Restore` follows `deploy_backups.restore`: it removes the log (`LogRemoved`), copies the
snapshot (`Copied`), and may fail before, between or after the two; `Kill` may come at
the same places. `dropped` (a ghost) are the tasks that were only in a log removed so.

What the script ignores fails in the model too. `remove_candidate` swallows the failure of
`docker rm -f`: `RemoveCandidate` may leave the candidate running, at each of its four
uses, and notes that in `stuck`. Nobody asks whether `compose stop` worked in a rollback:
`StopRelease` may leave the service up. Of a database that is restored while a container uses
it nothing is assumed: all tasks are counted as `dropped`, and the release as `damaged`.

Assumed: other commands that fail have done nothing, except `compose up`, which may have
replaced the service. In particular `docker compose stop` before the snapshot either stops
the service or fails: the script sets `old_stopped` after it, so a stop that worked and was
reported as failed would leave the service down. A checkpoint is whole. A candidate
a script left is removed by an operator (`Tidy`) before the next release begins. `told` are
the uploads answered with a 201; `provisional` those of them a release that may still be
undone took: their loss is what the script accepts. `damaged`: a script has died, has
reported that its rollback failed, or has restored the database under a running container;
what it promises afterwards is up to the operator.

### ReleaseSnapshots

`disk` is `deploy-backups/`, the snapshot files in the order of their mtime: is it of a
migration (the name holds two schema versions), how large, written to its end, and made by
the script that ran last. Every step of `Release` that writes or removes files does so
here: `SaveDatabase` writes one (`WriteFile`), `Prune` goes through them from the newest
to the oldest (`Kept`: the one set of files that the loop of `deploy_backups.prune` keeps,
with `Keep` its condition; `Leave` removes the others), and a command that fails or is killed has done part of that (`Partly`). All
other steps are those of `Release` and leave the disk alone.

Left out: files that do not carry a snapshot's name, which `prune` never sees, and equal
mtimes.

### Migration

`db` is the database: its `user_version`, a row for each task, and whether there is a
default preset. `origin` is what its last user left, the point an upgrade starts from.
`start` is `Database.initialize` of the container that starts: `Open` reads the version,
`CopyDatabase` is `_backup_before_upgrade`, `Migrate` one transaction per version with
what it makes of every row (`ToV2`, `ToV4`, `ToV5`; version 3 brings the presets),
`MigrateRefused` the `CHECK` of version 4 that refuses a row, `Verify` is
`_verify_schema_v5`. `CopyFails` and `Crash` end a start anywhere; the container
is started again. `Work` is whatever the handlers of the current version leave in a row.

A row is reduced to the columns the conversions look at or fill. `RowOf` says which rows a
version may hold: what its constraints let in and, from version 4 on, what this
repository's handlers write. Old versions let columns disagree, and so do the rows of
versions 1 to 3. One process migrates the database
at a time (`Release!OneProcess`).

### OffsiteBackup

`remote` are the uploaded archives, `taken` (a ghost) the database each was made from,
`reported` those `create-verify` called verified, `dir` the directories of restores, and
`command` the one command that runs, under the lock of `zos-backup.sh`: `Build`, `Put`,
`CheckSize`, `ReadBack` for a backup, `Restore`, `WriteDatabase`, `WriteKey` for a
restore. `Put` may store a damaged or short object. `Kill` ends a command at any step,
with a file that may be cut short. `PutInPlace` is the operator who puts a restored
directory where the stopped service's database is; the next start is `Migration`'s, and
so is everything between two commands: a backup may be taken between two migrations.

Archive format, encryption, digests and size limits are reduced to one fact: an undamaged
object opens and is what was sent, any other does not open. The files of a directory carry
the number of the backup they come from.

### EventLog

`log` is `service_logs`; `lastId` its AUTOINCREMENT. `Change` is a committed change of a
task's `object_status`, by whichever handler, and `owed` the event that handler has yet to
emit (`EmitAudit`); `Crash` loses what is owed. `Write` is `emit()`: the record, or the
failure that is swallowed and noted in `degraded`. `Maintain` is retention, in one
transaction. `reader` pages: `BeginReading` is the first request, `NextPage` each query
with `id < before_id`, of any page the query's `ORDER BY ... LIMIT` allows.

`cutoff` stands for the date limit of retention: an id up to which records are too old.
Ids follow `created_at` except for events of the same instant, so this is an
approximation at that one point. Redaction and the copy on standard output are left out.

## 3. What is checked

TLC explores each instance completely. The bounds are the smallest that contain
the interesting cases: two deletion requests for the races of the claim, one
task where tasks do not interact and two where they compete for a batch of one;
two presets for a switch, two or three revisions so that one can be edited and
replaced while it is tested; two requests for a shared key or for the last room
under a quota. Counters are bounded by constants of the instance: `MaxRevision`
(revisions of a preset), `MaxMoves` and `MaxId` (changes of a task, records), `MaxFaults`
(failures of starts and commands), `MaxBackup` and `MaxFiles`.

Every module has a type invariant. Where there are proofs it is proved for all instances,
so the runs spend their properties on the rest; in `Readiness` it documents the state (TLC
confirms it on the instance of its run).

| Run | Instance | Shows |
|---|---|---|
| `ledger` | 1 task, 2 deletions, others write to the bucket, late effects, fairness | `HasOwner`, `OneDeleter`, `CreatedIsKept`, `DeletedIsFinal`, `CopyIsCurrent`, `NoUpdateRefused`; `ObjectLifecycle` is implemented; `UploadsSettle`, `DeletionsSettle` |
| `ledger_pair` | 2 tasks, batch of 1, nothing is late or removed by others; the provider may refuse what it applied | `NoOrphan`, `PresentIsStored` |
| `settings` | 2 presets, 2 savers, 3 revisions, 1 upload, purges; presets can be re-read, no alias route | `DefaultExists`, `MemoryAgrees`, `RevisionsSucceed`, `ConfigKept`, `ResolvesCurrent` |
| `admission` | 2 requests, 2 clients, a shared key, 2 presets, room for one object of two units; re-reading presets may fail, alias route | `IdempotentAnswers`, `PresetHonoured`, `QuotaHolds` |
| `schedule` | 5 tasks, 2 of them stuck, batch of 3, chunks of 2 | `BacklogProcessed` |
| `requests` | 3 connections, 2 addresses, 2 slots, 2 attempts in a window of 4 ticks | `SlotsKept`, `WindowBound`, `RetrySuffices`, `SlotComes` |
| `readiness` | 2 storages, a verdict holds for as long as two probes are apart | `OutageSeen`, `ReadyAgain` |
| `release` | 2 images, two schema versions apart, released in any order; 1 upload; at most 1 release and 1 migration snapshot within 2 bytes, snapshots of 1 or 4, 2 files on the disk | `TasksKept`, `OneProcess`, `ReportHolds`, `SnapshotAtHand`, `RetentionHolds`, `BackInService` |
| `eventlog` | 1 task with 2 changes, 1 reader, pages of 2, room for 2 records, 5 written | `PagesComplete`, `AuditTrue`, `LossesAllowed` |
| `durability` | databases of every version with 1 task, 1 failure, 1 directory, 2 backups | `MigrationFaithful`, `UpgradeCopied`, `ServesOwned`, `BackupsRestore`, `UpgradeEnds` |

Two schema versions lie between the images so that a migration can be interrupted
halfway; releasing the older image over the newer one is the downgrade its start
refuses. A batch of uploads and deletions with fewer stuck tasks than places is the case
`schedule` needs; that the number of stuck tasks must be smaller than the batch
is what `schedule_starved` shows. `requests` needs a queue behind two slots, and a window
that is full while slots are free; the second address shows that windows are apart.
`readiness` takes the smallest age limit under which a service can stay ready, one
interval: the ages the code's default allows beyond that, two more missed probes, only add
steps of the same kind. Ages end at the window's length and at `MaxAge + 1`: older is
all the same to the code. In `release` one snapshot alone may exceed the limit on bytes, which
is the case the exemptions of `prune` are for, and two files are the one under way and
an older one, which stays or goes for its number or its bytes; `RetentionKept` (section 5)
has no such bound. In `durability` the rows the first start finds
(`MCFound`) are one for every branch of the conversions, among them the one version 4 has
no place for; two backups are what a mixed-up directory takes, and one failure leaves
every intermediate version. In `eventlog` five records are two pages and what is written
and removed meanwhile.

### Fairness

A coroutine that is not waiting for anybody goes on (weak fairness on handlers
past their start and on recovery steps); provider calls end, by their timeouts.
`_supervise` starts a pass after every interval, whatever became of the last one
(weak fairness on `StartPass`). Rows of dead handlers grow old. No fairness is
assumed for requests nobody has made. The liveness properties assume that
outages end: from some moment on the process stays up, HEAD is answered and
writes succeed. The release script goes on unless it is killed, since every wait in
it is bounded (weak fairness on its steps); nothing is assumed of the containers. In
`durability` the service's container is restarted until it serves (`restart:` in
`compose.yaml`: weak fairness on `StartStep`), and failures end because `MaxFaults` is
finite; nothing is assumed of backup commands or of the operator.

`SlotComes` assumes that an application ends. The code gives a client no time limit for
its body, so this is an assumption about clients: a handful that never finish and never
go away keep all slots. `Readiness` lets time pass and tasks wake up, and lets a
connection test or a pass end only where storage and database work; in an outage either
may hang, and `OutageSeen` needs no more because a verdict grows old.

## 4. Where the code and its documents disagree

Two runs end with a counterexample to what a document says; `PROJECT.json`
quotes the lines.

| Run | Property | In short |
|---|---|---|
| `ledger_slow` | `HasOwner` | an upload that outlives its stale limit ends as `present_unclaimed` with a token hash: neither route can delete it |
| `schedule_starved` | `BacklogProcessed` | as many undecidable uploads as a batch holds keep everything younger, and all deletions, from being looked at |

Others were met while modelling and have no run of their own. The first four
appear when a constant of an existing instance is changed, the next four are behaviours
of the runs as they are, which the ghosts `misled`, `dropped` and `damaged` set apart:

- `RevisionsSucceed` in `settings` with `AliasRoute = TRUE`: through
  `PUT /v1/settings/storage` a configuration edited from one preset, with the
  credentials it took over from there, is saved to another, when the default is
  switched during the connection test and both have the same revision
  (`app/runtime.py:585`, `app/database.py:816`). `docs/current/API.md:1341-1344` calls the
  route an alias that saves nothing unless the revision is that of the settings read.
- `NoOrphan` in `ledger_pair` with `LateEffects = TRUE`: a PUT that timed out and is
  applied after recovery's HEAD leaves an object no row admits to, which
  `docs/current/PLAN.md:1116` excludes (`app/runtime.py:745`).
- `QuotaHolds` in `admission` with `Revivals = TRUE`: a task recovery failed
  while it ran gives its room away and then succeeds (`app/database.py:1008`).
- `ResolvesCurrent` in `settings` with `LoadMayFail = TRUE`: the switch of
  the default is committed, reloading fails, and uploads keep using the old one
  (`app/runtime.py:665`).
- An upload that was applied, its answer lost and its repetition refused, is certain to
  have failed for the client (`app/providers.py:436-442`). The row ends `failed`/`absent`
  with the object stored, and retention then forgets the row: again an object without a
  record, with no late effect at the provider. `NoOrphan` excludes requests of this kind
  (`misled`). Completing an upload in parts is where a repetition meets `NoSuchUpload`.
- A deletion that was applied, its answer lost and its repetition refused, gives the
  row back as `present` without an object (`app/providers.py:508-514`,
  `app/deletions.py:280-288`); the next deletion finds the object absent. `PresentIsStored`
  excludes it.
- A failing restore has removed `-wal` and `-shm` before it copies the snapshot
  (`app/deploy_backups.py:31-36`). If the process that wrote the log was killed, commits
  that were only in the log are gone, and the old image is started on what is left
  (`scripts/deploy-release.sh:46-57`). `TasksKept` counts these tasks as `dropped` and says
  that the script then reports a failed rollback, or the release is `damaged`. The
  snapshot still has those stored before it was made.
- In a rollback nobody asks whether `docker compose stop` worked
  (`scripts/deploy-release.sh:44`): if it did not, the database is replaced under a running
  service, and the script may still report that database and image were restored. A
  failing `docker rm -f` goes unnoticed as well (`scripts/deploy-release.sh:28`): the
  candidate of an accepted release then stays beside the service, two processes of one
  image on one database. `OneProcess` says that it is no worse than that.
- Two requests with the same key and no preset, with the default switched between
  them: the loser of the insertion compares the winner's preset with the default it
  resolved itself and answers `IDEMPOTENCY_SCOPE_MISMATCH` (`app/uploads.py:245, 258`),
  while `docs/current/API.md:1943` always answers such a request by the original task.
- A 201 that is lost leaves the task `present` with the hash of a token nobody has
  (`app/uploads.py:345-360`), not `present_unclaimed`, as `docs/current/API.md:1958` has it;
  the administrator's route refuses such a task (`app/deletions.py:149-153`).
- A connection test of a former default that ends late overwrites `last_probe`
  (`app/runtime.py:675-697`), so until the next one `/readyz` speaks of a storage that
  is no longer the default. `OutageSeen` shows that this does not last.
- `degraded` is cleared only by the next event that is written (`app/eventlog.py:79`): a
  service that is idle after one failed event stays not ready. `ReadyAgain` is stated
  for a log that was written since.
- `docs/current/API.md:849` gives `/readyz` the code `STORAGE_DEFAULT_NOT_CONFIGURED`;
  it answers `STORAGE_NOT_CONFIGURED` (`app/runtime.py:988`).
- Pruning old snapshots runs under the rollback trap
  (`scripts/deploy-release.sh:153-160`): when it fails, a release that was accepted and
  already serves is undone, with the tasks uploaded since, whose objects stay.
- The initial pass applies the stale limit as well (`app/runtime.py:701-713`), so an
  upload that died with the process stays `uploading` after a quick restart, while
  `docs/current/API.md:1874` has the service look at every `uploading` task.
- A configuration that retention deletes between `Resolve` and `Insert` makes the
  foreign key refuse the row, which the client reads as `UPLOAD_IN_PROGRESS`
  (`app/uploads.py:260`).
- Every periodic pass withdraws `recovery_complete` while it runs
  (`app/runtime.py:700`), which `/readyz` takes for an unfinished start
  (`docs/current/API.md:728`).
- `docs/current/API.md:1883` describes a second attempt of recovery with the active
  revision of the same preset; the code makes none.
- A rollback whose restore failed starts the old image on the migrated database
  (`scripts/deploy-release.sh:46-57`), then asks to keep the service stopped;
  `README.md:63` says never to let an old image open an upgraded database.
- A succeeded row of version 2 or 3 whose object is `absent` has no place in version 4
  (`app/database.py:524`): every start fails at its CHECK and makes another copy of the
  database. `UpgradeEnds` leaves such databases out (`Acceptable`).
- An audit event is lost when its write fails or the process dies between the row and
  the event (`app/deletions.py:83`, `app/eventlog.py:75-83`), while `README.md:122` and
  `docs/current/PLAN.md:21, 474` have deletions audited for good. `AuditTrue` is the part
  that holds: what is written is true, and told once.
- `next_before_id` is set when exactly as many records were left as a page holds
  (`app/main.py:687`); `docs/current/API.md:1638` says `null` when there is nothing older.
- The list of tasks pages by `OFFSET` (`app/database.py:1126-1161`) and repeats a task
  when one is created between two pages, the reason `docs/current/API.md:1603` gives
  for not doing so in the log.
- A migration snapshot that was cut short counts as the newest of its kind in
  `prune` (`app/deploy_backups.py:46-64`), so the last whole one of earlier releases may go;
  `README.md:154-155` means to keep the newest. `SnapshotAtHand` is about the
  release under way, whose own snapshot stays.
- The settings key in a backup is read from `.env`, not from the running service
  (`app/backup.py:107`): between a change of the file and a restart they differ.

## 5. What is proved

Every safety property that a run checks and finds to hold is also stated by a theorem,
for all values of the constants that the theorem's hypotheses allow. The hypotheses
beyond the modules' own assumptions are these five, and each stands for a counterexample
of section 4 or for an event outside the service:

| Hypothesis | Theorems |
|---|---|
| `SlowRequests = FALSE` | all of `TaskLedger_proofs` |
| `LateEffects = FALSE` | `OrphanHolds`, `PresentHolds` |
| `"absent" \notin OutOfBand` (nobody else removes objects) | `PresentHolds` |
| `Revivals = FALSE` | `QuotasHold`, `PhasesImplemented` |
| `LoadMayFail = FALSE`, `AliasRoute = FALSE` | `MemoryHolds`, `MemoryStays`, `CurrentResolved`; `RevisionsHold`, `RevisionsStay` |

`Revivals = FALSE` in `Admission` is what `SlowRequests = FALSE` means for the phases of a
task: `LifecycleImplemented` shows that no void task is kept then.

`MovesAdmitted` and `BatchMovesOn` have, besides, the hypotheses their statements name.

### Uploads and deletions

`TaskLedger_proofs` proves, for every set of tasks and deletion slots and every
batch size:

- `InvariantHolds`: `Spec => []IInv`.
- `TypesHold`, `OwnerHolds`, `OneDeleterHolds`, `CreatedHolds`, `DeletedHolds`,
  `CopyHolds`, `UpdatesHold`: the invariants of `ledger`.
- `OrphanHolds`, `PresentHolds`: those of `ledger_pair`, which leave out the requests
  in `misled`.
- `LifecycleImplemented`: `Spec => Lifecycle!Spec`.

None of the safety properties is inductive alone. `OneDeleter`, for instance,
holds because a claimed row is `deleting`, is not aged, and so is in no recovery
batch; `CopyIsCurrent` because nobody but the pass writes to an undecided row of
a dead handler. `IInv` says this of every writer: an upload handler with
something left to write owns a young `uploading` row (`UploadsOwn`), a deletion
past its claim a young `deleting` row of its own route (`DeletionsOwn`), the pass
only rows of neither kind (`PassOwns`), and its copy equals the row
(`CopyIsCurrent`). `SlowRequests = FALSE` enters at one place, the step `Age`. The
proof of the invariant has one lemma per group of actions and one step per
action.

Ledger and bucket are compared in both directions. `AbsenceHolds` is what `NoOrphan` needs:
what the last HEAD or a refusal said about an absent object is still true when it is written
down, unless the refusal was of a request that had been applied; `Age` and `LateApplied` are where the two assumptions are used. `PresenceHolds` is its counterpart for `PresentIsStored`: whoever is about to write
that an object is there, or still has it in its hands (an upload or recovery after HEAD, a
deletion in front of DELETE or giving a row back), saw one that is there still, with the
same exception. Both were
checked by TLC on the instance of `ledger_pair` and are proved beside `IInv`, which says that
nobody else writes the row in between. The refinement maps the columns to phases by
`PhaseOf` and `OwnerOf`; each action is one step of the life cycle or a stutter, given
`IInv`.

### Recovery's batch

`TaskLedger` lets a pass choose any batch of the right size, uploads first;
`RecoverySchedule` has the query and its order. `BatchIsOne` says that the second is an
instance of the first: in every typed state, `Batch` satisfies `TaskLedger!Batch`, with
the columns `Rows` for `row`. So the theorems above cover the batch the code takes.
`BatchMovesOn`: while fewer tasks are stuck than a pass takes, a pass that starts with a task
HEAD can decide takes one, for every backlog; `schedule_starved` shows that the hypothesis
is needed. `ScheduleTyped` bounds batch and chunk. All three rest on `LeadingCount` of
`Sums`: of a finite ordered set, the elements with fewer than `n` before them are
exactly `n`, or all; the place of an element is an injection into the numbers below the
size of the set, and so onto them.

### Settings and admission

`Admission_proofs` starts with `StorageSettings` on its own: `SettingsInvariant`,
`SettingsSpec => []SettingsInv`, and `DefaultsHold`, `MemoryHolds` and `RevisionsHold`, for
all presets and any number of requests at once. What makes `RevisionsSucceed` inductive is
`SaversKnow`: a request that waits for its connection test read its basis from the revision
it expects, or the revision it expects is no longer current and the transaction will
refuse it.

`SettingsImplemented`, `Spec => SettingsSpec`: every step of the process that takes uploads
is a step of the settings or none to them, so `DefaultStays`, `MemoryStays` and
`RevisionsStay` follow without another induction. `AdmissionInv` then says that a row
belongs to a request that is through (`RequestsSound`), that the unique index holds
(`KeysUnique`) and that whoever was told of a task was told of its own (`AnswersSound`); from
it come `ConfigsKept`, `KeysAnswered`, `PresetsHonoured` and `CurrentResolved`.

`QuotasHold` is about a sum over rows that the model, like the query, folds together. Its
invariant `QuotaInv` is the property itself with the finiteness of the rows: at any time
only finitely many requests have one, though `Request` may be infinite. The transaction
of `Insert` compares with a sum that counts at least what the quota is about
(`SizeOfSubset`; rows of refused files count too), so one object more stays within it
(`SizeOfAdded`); all other steps move a task out of the count or within it.

`Admission` and `TaskLedger` are two views of one task, and `ObjectLifecycle` is what they
share. `LifecycleImplemented` says that the ledger makes only moves of the life cycle,
`PhasesImplemented` the same of `Admission`; `MovesAdmitted` is the converse that makes
admission's environment general enough: every move of the life cycle after the insertion is
a `Proceed`, except that a file no PUT is made for is never kept, and that retention waits
for requests with the task's key.

`Sums` proves what those steps use. The fold is a recursive function on subsets, so what it
computes needs an induction; the lemmas do without an induction theorem by looking at a
counterexample of least size (`LeastOf`, from the well-foundedness of `<`). `SumExists` says
the fold computes something, `SumsAgree` that it does not matter in which set,
`SizeOfWithout` that it does not matter in which order.

### Request guard

`RequestGuard_proofs` proves `SlotsAccounted`, `Spec => []SlotInv`, and from it `SlotsHold`,
for all sets of requests and addresses, slots, limits and windows. `SlotInv` is
`SlotsKept` with what makes it inductive: the queue repeats nobody, a woken request is in
no queue and holds nothing (`Accounts`), and free slots and a queue meet only while
somebody woken has yet to pass it on (`Alert`). The lemmas follow the operations of the
semaphore (`Waking`, `Releasing`, `Resuming`, `Taking`, `Queueing`); a step of a request
combines the one it uses with its change of phase. Rates play no part in it.

`WindowInvariant`, `Spec => []WindowInv`, relates for each address the code's deque to what
was really admitted and promised: the admissions of the last minute are the attempts that
are not over, oldest first, behind attempts that are over and that the next look will
drop (`Fades`), and the oldest attempt of a full window is over when the promise is up
(`Kept`). `WindowsBounded` and `RetriesSuffice` follow, for every limit, window and
rounding of the ticks to seconds; `GuardTyped` as well.

### Releases

`Release_proofs` proves, for all images, schema versions and uploads and without
further assumptions, `ReleaseInvariant`: `Spec => []RInv`, and from it
`ReleaseTyped`, `TasksHold`, `OneProcessHolds` and `ReportsHold`. None is inductive.
`TasksHold` says that a stored task goes only with a log that a restore removed, and that a
script that did so knows that it failed. A restore keeps the rest because the snapshot contains
what must not be lost (`Saved`), and that stays so only because no service takes uploads from
the snapshot on until the release could be undone (`Still`). `OneProcessHolds` rests on
`Alone`: a candidate is there only while the service rests, or docker failed to remove it
and the service has its image; where the old image would be
started without a restore there is none. `Opens` says
that whichever image runs next can open the database it will find: the snapshot fits the old
image, and a database that is not restored was never migrated, which is where a candidate
that was not removed would do harm; `Reported` that what was reported is what runs. The proof
has one step per action, split by conjunct where the action disturbs several.

`ReleaseImplemented`, `SnapshotsSpec => Spec`, carries all of it over to releases with a
disk. `SnapshotsInvariant` is about that disk, for any limits: `DInv` says that nothing is
saved before there is an image to go back to (`Blank`, by way of `Preceded`), that the
file of the release under way is the newest and whole (`NewestOwn`), and that a success is
reported only of a disk within the limits (`Limited`). `SnapshotStaysAtHand` follows since
`prune` never removes the newest file, wherever it fails; `RetentionKept` since what a
whole `prune` leaves is within the limits, wherever the files came from. The lemmas about
`prune` look at what it kept of each kind and then move the files to their new places (`SizeOfMoved`: a
sum does not depend on where its elements are).

### Migration and backups

`OffsiteBackup_proofs` proves `BackupInvariant` and from it
`UpgradesFaithful`, `CopiesHold`, `RowsServed` and `BackupsHold`, for any databases found,
tasks, failures, backups and directories. `MigrationFaithful` compares the first and the
current row and is not inductive over four conversions: what a row was called on the way
decides what the next step may call it. The strengthening says at every version what may
have been left of the origin (`Faithful`), that a complete copy exists as soon as anything
changed (`CopyMade`), and which version a start expects (`AtVersion`); `FromVersion1` keeps track of
rows that never had an object status. `BackupsRestore`
rests on archives that are either what was sent or do not open (`ArchivesSent`) and on
directories that are filled once, database first (`DirectoriesFilled`).

### Event log

`EventLog_proofs` proves `LogInvariant` and from it `PagesHold`, `AuditsHold`, `LossesHold`
and `LogTyped`, for any page size, limit and number of readers. The invariant says what
`before_id` means: a reader has seen whatever it asked for that is still there from
`before_id` up, and what it asked for is older than every id given since (`ReaderPassed`).

### Only model-checked

Liveness, which is out of the prover's reach under fairness: `UploadsSettle` and
`DeletionsSettle`, `BacklogProcessed` (but see `BatchMovesOn`), `UpgradeEnds`, `SlotComes`,
`OutageSeen`, `ReadyAgain`, `BackInService`; with them everything `Readiness` states, and
its type invariant.

## 6. Plan

Done: sections 2 to 5. Left, in this order:

1. Options of `TaskLedger`: a chunk that outlives a failed pass
   (`app/runtime.py:728`); a missing bucket (`app/providers.py:477`); version ids of what
   `DELETE` removes (`app/deletions.py:274`).
2. Options of `Release`: a `compose stop` that worked and was reported as failed
   (`scripts/deploy-release.sh:103`), and a checkpoint of part of the log.
3. Proofs: the types of `Readiness`; with the options of 1 and 2, the parts of `IInv` and
   `RInv` they disturb.

## 7. Not modelled

Routing, schemas, cookies and sessions (`app/main.py`, `app/models.py`), the
dashboard, and the parsing of configuration and forms: they keep no state that
the parts above depend on, or check data only. Encryption, hashing, SQLite,
boto3 and docker are used through what the code expects of them. `legacy/`,
`tests/` and `docs/` were read as statements about the code.
