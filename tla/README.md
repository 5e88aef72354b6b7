# A specification of twodrive's synchronisation

twodrive mounts a OneDrive as a local file system. Programs read and write
through FUSE; metadata and synchronisation state live in a SQLite database,
contents in cache files; upload workers, a recovery thread and the FUSE
dispatcher act on both at the same time, and the cloud is changed by other
clients and reached through requests that fail. These modules model that
machinery, model-check it with TLC and prove what can be proved with TLAPS.
All paths below are relative to the repository.

## 1. Inventory

| part | state it keeps | operations | who it talks to |
|---|---|---|---|
| upload queue (`twodrive-fs/upload_queue.rs`) | mpsc channel, `pending` map key → rerun flag, worker threads | `send`, `UploadRun::start`/`drop`, worker loop, `UploadPool::drop` | FUSE dispatcher and recovery thread send; workers run `recovery.rs` |
| file rows (`twodrive-core/database/{mutations,cache,metadata,queries}.rs`) | table `files`: path, state, cache path, cloud id, etag, upload claim, download generation, pins | compare-and-set claims, state marks, commit of an upload, import of entries | every thread; one transaction per call |
| tombstones (`mutations.rs`, `delete_retry.rs`) | table `pending_deletes`: identity, item, path, claim, acknowledged path, retry time | queue, complete late uploads, defer, remove | unlink, workers, delta import (as a barrier) |
| metadata operations (`mutations.rs`) | table of queued mkdir/rename | queue, coalesce, complete | rename and mkdir handlers, workers |
| FUSE handlers (`twodrive-fs/filesystem/`) | open read and write handles, inode table | open, create, read, write, truncate, release, unlink, rename, mkdir | single-threaded dispatcher; reads may go to a pool |
| hydration and reclamation (`hydration.rs`, `cache.rs`, `cache_io.rs`) | download generation per row, cache files, shared/exclusive file locks | begin/finish/fail/cancel download, release, retention, prune | opens, pins, recovery thread |
| upload, conflict and deletion runs (`recovery.rs`, `conflicts.rs`) | item locks, upload commit lock | upload, commit, conflict copy, delete replay, crash recovery | database, cache files, cloud |
| delta refresh (`twodrive-fs/metadata.rs`) | delta link | list, remove deleted, import entries, advance link | recovery thread, cloud |
| pins (`pins.rs`) | explicit pin and policy per row | pin, unpin, inherit | hydration, release |
| OneDrive backend (`twodrive-backend/onedrive/`) | tokens, upload sessions on disk | PUT with If-Match, delete, delta, sessions, browse | Microsoft Graph |
| known folders (`twodrive-daemon/known_folders/`) | watcher queue, pending paths, upload store, rate windows | enqueue, quiet wait, scan, upload, complete | file system events, backend |
| cloud index (`twodrive-core/database/cloud.rs`) | committed rows and cursor of each account, staged pages, download tasks | stage, merge, replace | Windows engine |
| Windows engine (`twodrive-windows/`) | account, stored credentials, epoch, jobs with their cancellation | login, logout, refresh, download, browse, cancel | application over IPC, read-only backend, cloud index |
| peer (`twodrive-peer/`) | identities, sessions, updates | handshake, transfer, self-update | another device |
| core configuration, CLI, applications, scripts, `experiments/` | files, UI | parsing, display | the rest |

Hard behaviour: database transactions of several threads interleave, and
between two transactions of one operation the row may be written, renamed,
deleted or imported; requests fail before or after they are applied; the
process may die at any point; one path can belong, one after the other, to a
deleted generation whose upload is in flight and to a new file; two handles
can write one file; a queue coalesces requests while a run is ending.

What must be right, per part:

* queue: no overlap of runs of one key, no lost request, a shutdown that ends;
* rows and runs: no acknowledged write lost, no bytes under an etag they do not
  have, no blind overwrite in the cloud, no upload of a half-written file,
  queued work drains, both sides converge;
* tombstones: only the deleted item goes, late acknowledgements find their
  generation, no tombstone for ever;
* metadata operations: rename order, no operation lost by coalescing, mount and
  drive agree when the queue is empty;
* hydration: only the current generation publishes, nothing pinned, local or
  open is reclaimed;
* inode table: an inode means the same file while it is known;
* known folders: every change that is watched or scanned is uploaded in the end,
  in its last version, although events overflow; the limiter neither starves nor lets churn through;
* upload sessions: a resumed upload stores the bytes of one version;
* Windows engine: results of a superseded job are never published, credentials
  are those of the last login, a sign-out ends, the index is a whole listing.

`PROJECT.json` lists the hazards with the line at which each bites and the
properties that cover it.

## 2. Modules

| module | models |
|---|---|
| `CoalescedRuns` | the promise of the queue: requests are wanted until a run looks; runs of one key do not overlap |
| `UploadQueue` | `upload_queue.rs`: channel, pending map, workers, shutdown; refines `CoalescedRuns` |
| `UploadQueueProofs` | the theorems about `UploadQueue` |
| `FileRecord` | the SQL statements on one file's row and its tombstones, one operator per transaction |
| `FileSync` | everything that acts on the file at one path: FUSE handlers, upload/conflict/deletion runs, delta refresh, cloud, other client, failures, crash; uses `FileRecord` |
| `FileSyncProofs` | the theorems about the identities, items and locks of `FileSync`, in all behaviours |
| `FileSyncSafetyProofs` | the theorems that its bytes are safe, in the behaviours without nine races |
| `FileSyncCopyProofs` | the theorem that clean rows have the bytes of their version, without two races more |
| `MCFileSync` | the scenarios of TLC's runs and the fair specification |
| `CacheRow` | the SQL statements that govern the local copy of one file: pins, downloads, releases, imports |
| `Hydration` | everything that acts on that copy: threads of the daemon and of commands, cache files and their locks, the cloud; uses `CacheRow` |
| `HydrationProofs` | the theorems about `Hydration`, for any threads: releases win, types, and the local copy: clean copies, saves, pinned copies |
| `MCHydration` | the scenarios of its runs |
| `InodeTable` | `inodes.rs`: numbers, paths, identities and listed children, as operators on a record |
| `Tree` | everything that acts on names: FUSE lookups, mkdir, rename, unlink, rmdir; the queue of metadata operations and the tombstones, their replay, the delta, the other client, failures, crash; uses `InodeTable` |
| `MCTree` | the scenarios of its runs and the fair specification |
| `KnownFolders` | the known-folder thread of the daemon: event channel, quiet wait, scans, store, uploads, rate limit, crash |
| `KnownFoldersProofs` | the theorems that no change is forgotten and no upload is claimed |
| `WindowsEngine` | the Windows engine with its read-only backend and cloud index: login, logout, refresh, download, browsing, restart |
| `WindowsEngineProofs` | the theorems about the session, the credentials and the directory on show, and about the index, the downloads and the types |
| `UploadSession` | one large file uploaded in fragments by the daemon and by commands: its session on the drive, the persisted entry, the fragments, faults, restarts |
| `UploadSessionProofs` | the theorems that what is recorded is on the drive and that a live session is kept |
| `MCUploadSession` | the scenarios of its run |

A definition under the comment `Slip:` is a plausible wrong version of the one
that follows it. No specification uses it; it is what the mutation runs of
`PROJECT.json` substitute to show that a property can fail.

### UploadQueue

`queue` is the channel, `pending[k]` the map entry (`absent`, `queued` = false,
`rerun` = true), `pc`/`cmd` the position and command of each worker. Each
critical section of the mutex is a step: `Request`/`Send` (`UploadQueue::send`),
`Start` (`UploadRun::start`), `Finish` and `Resend` (the two halves of
`UploadRun::drop`, which sends outside the lock), `SendShutdown`
(`UploadPool::drop`). `Look` is the run's read of the database. `wanted` is
history: what was accepted and not yet looked at. A send fails when the last
worker has gone and leaves the map as it was.

### FileRecord and FileSync

A row is a record `[path, state, cache, cloud, etag, stamp, up, gen]`; `up` is
the durable upload claim, `stamp` stands for size and mtime (two values: a save
may or may not change them), `gen` is the download generation. A tombstone has
the deleted identity, its item, path, cache, claim and the path an upload was
acknowledged at. `files` and `tombs` are the tables, `disk` the cache files,
`cloud` the drive, `unseen` the items changed since the persisted delta link.

Contents are sets of writes: each write adds a fresh number to the content it
is applied to, so "made from" is inclusion. An etag is the item's revision with
its content; the code compares etags only for equality. These two choices let
the properties say what was lost or overwritten without modelling bytes.

The handlers are single steps where the dispatcher does one transaction, and
several where it does more (`TruncateBytes`, `TruncateMark`, `TruncateClaim`);
`fuse` keeps the dispatcher single-threaded. An upload run goes through
`StartUpload` (read, item lock, checks), `ClaimUpload`, `PutFile`, `CommitFile`
or `FailUpload` or `RefuseUpload`, and the conflict copy through `ClaimCopy`,
`PutCopy`, `AskLatest`, `PublishCopy`, `DetachOriginal`, `ImportLatest`. A
deletion run is `StartDelete`, `Replay`, `RemoveRemote`, `RetireDelete` (or
`DropCleanup`). The delta is `ListDelta`, then `CheckDeleted`/`RemoveRow` per
deleted item (two transactions, as in the code), `ImportEntries` (one) and
`AdvanceLink`. A request (`Put`) may fail before it is applied, or be applied
and its answer lost. `PublishCopy` stores the copy's row and its bytes in one
step when both updates succeed: the code holds the commit lock over them, and no
import, acknowledgement or handler of the modelled path touches the copy's row
between them. An error or a death between the two leaves the row without its
bytes and the conflict queued, which is the step's other outcome. `Crash` drops
everything that is not the database, the cache files or the cloud, and runs
`recover_interrupted_writes`.

Locks: the item lock is held by the task or deletion run of an identity
(`ItemLocked`), the upload commit lock between `PublishCopy` and `ImportLatest`
(`CommitLocked`); the shared cache-file locks are `InUse`.

Not in this model: renames and directories (`Tree`), pins, error and hydrating
states, retention, reads, names other than one path and the conflict copies of it;
writes to a handle whose file was unlinked (they reach no row); the time of a
retry (a deferred tombstone may be tried again at any moment); pages (a delta
is one page). A file's download is one step here; `Hydration` takes it apart.

### CacheRow and Hydration

The row here is `[state, cache, etag, gen, release, pin, fresh, up]`: `gen` is
`download_generation`, `release` is `release_pending`, `fresh` says that
`cache_accessed_unix` is within the retention. `dir` maps the names of the cache
directory to inodes and `data` inodes to contents, so that a descriptor and its
lock stay with a file whose name is removed or replaced. A content is a sequence
of blocks; a block is the number of the write it comes from, or a hole. `body`
is the list of the item's versions; an etag is an index into it and determines
the size. `job[t]` is what a thread does: an open for reading, writing or
truncating, a pin, the download of a pinned file, a release, a retention pass,
the removal of a retired file, an upload, a delta import.

A download is `NeedDownload`, `BeginDownload` (`begin_hydration` and the partial
file), `Verified`, `Fetch` per block, `Fetched`, `Confirm` (version and
generation again), `Publish` (`finish_hydration`, which renames inside its
transaction), with an exit through `Abandon` at every point. The lock of a
download (`HydrateLocked`) is a map in the process: threads of the daemon
exclude each other, a command does not. The dispatcher runs one FUSE handler at
a time (`Dispatching`), but the first read of a deferred handle runs in the
read pool. `release_path` is two transactions (`ReleasePath`, `DropRecord`);
`finish_pending_releases` and the retention pass list rows before they act on
them (`SweepReleases`, `PruneCache`), and the reclamation of retired files
lists names first (`ListRetired`). `KillCommand` and `Restart` are the two ways
to die: the daemon's restart loses its locks and runs its recovery, a command
simply ends and may leave a file removed whose row was not updated.

Abstractions: one file with its own pin and no directory above it; the check of
the generation and the second reading of the row, both under the download lock,
are one step; a handle writes its first block once; one upload at a time; what
becomes of a conflict is the subject of `FileSync`; there are six more inodes
than threads, of which a file takes a free one (`FreeInodes`); the error state, unlinked
files and the trash's exemption from the retention are left out.

### InodeTable and Tree

`rows`, `ops` and `tombs` are the tables `files`, `pending_metadata_operations`
and `pending_deletes`, keyed by local identity; a path is a sequence of names.
`table` is the mount's inode table: `next`, `path`, `at`, `id` and `kids`, which
lags behind the rows that workers and the delta change, as in the code. `cloud`
is the drive, `unseen` the items changed since the delta link. `job[k]` is the
replay in progress for an identity, so that it is also the identity's item lock.
`wish` and `others` are history: where programs want the items of the seed, and
whether anything was moved by another client or imported.

A FUSE handler is one step, for the dispatcher runs them one at a time and they
take no network: `Lookup`, `OpenDirectory`, `MakeDirectory`, `Unlink`,
`RemoveDirectory`, and `Rename` with its outcomes (to the name itself, over a
file, which keeps the target's identity and the source's bytes, or to a free
name). A replay goes `BeginOperation` (read the queue, take the lock), then for
a new folder `PostFolder` and, when the name is taken, `AdoptFolder`; for a
rename `FindParent` and `PatchItem`; then `Acknowledge`, which settles the
operation only if it is still the queued one. A deletion is `BeginDelete`,
`DeleteItem`, `Forget`, or `SkipDelete` when a live row owns the item. `Fault`
ends a request before it is applied or loses its answer. The delta is
`ListDelta`, `RemoveGone`, `ImportEntries`, `AdvanceLink`. `Crash` keeps the
tables and the drive only; the next mount builds a new inode table.

Not in this model: bytes (a file whose bytes were replaced is dirty until
`Upload`, one step), open handles, pins, changes of mode, the claims of a
tombstone's upload (`FileSync`), and the replay that the command line does
without item locks.

### KnownFolders

A version of a file is its size and time of change; version 0 is no file.
`channel` and `overflow` are the bounded queue and the flag beside it, `paths`
the path set waiting for quiet (bounded too: a path stands for what is below it,
and too many become the root), `files` and `pending` the state in memory, `disk` the SQLite store.
`pc` is the place of the one thread (`mod.rs`, `scan.rs`), `jobs` its batch of
uploads with the snapshot each took, `slots` and `admitted` the rate limit.
A file may change while it is uploaded: the cloud then holds `Mixed`.
`Look` is the upload's thread comparing the file again, which keeps the work
queued if it changed; `Complete` is the main thread recording the result, some
time later. `Defer` is a file over its limit. `Crash` is the death of the daemon,
with an upload that may still arrive. `base` is history: what the baseline took
for granted without uploading it.

A scan may be left out. The first one is an option (`startup_scan`, `mod.rs:103`;
the generated default is true, `config.example.toml:28-29` and `usage.md:93` have
it false and the rescan off), and each one does nothing when the folder is not
ready (`scan.rs:87-95`): `NoStartupScan`, `OverflowSkipped`, and the second
alternative of `ReceiveTimeout`. What changed before the watch began, or before
such a scan, is then known to nobody; `since`, a history variable, is the clock of
that moment and 0 once a scan has been through the folder, and NothingForgotten
and Uploaded speak of the files changed after it (Uploaded of those with a row on
disk, too).

The thread may end: every `?` of `run_known_folder_sync` and of what it calls
(the folder in `scan.rs:108-127` and `146-161`, the database, the store) logs one line and leaves
the daemon without the thread (`mod.rs:45-49`). `Fail` is such an error anywhere
outside a batch; a retry may have saved what it dropped before (`Pruned`).
`RecordFails` is one while a result is recorded: the uploads under way go on, their
results are dropped (`ResultDropped`), and the thread ends with the batch
(`BatchFailed`). The place "stopped" is left only by `Crash`, which stands for
another start of the daemon as well.

Abstracted: exclusions by name, links, the creation of cloud folders, conflicts
with other clients (a request that fails), the limit per project, the display
of the activity, and times (a wait ends at any moment).

### WindowsEngine

Every command takes the state lock of the engine, and so does a thread that
publishes a result: a command is one step, a thread a sequence of steps between
its requests. On disk: `token` (stored credentials), `savedIdentity`, `index`,
`stage`, `link` (committed rows, staged pages and cursor per account), `task`,
`partial`, `complete` (downloads). In memory: `auth`, the threads `login`,
`signout`, `refresh`, `download` and `browses`, and `epoch`, which counts the
sign-outs: `graphs[e]` is what the backend created from epoch e on holds,
`holder[e]` the thread that refreshes its token, for a backend outlives the
session while a thread still has it; `graph` says which of them is `state.graph`.

`Login`, `LoginGrant`, `LoginSave`, `LoginDone` are a login. Its thread looks at
the cancel flag after the code is exchanged (`LoginGrant`) and then saves the
credentials (`LoginSave`) with nothing that keeps `CancelLogin` out in between
(`auth.rs:118-122`): a login cancelled there still stores its credentials and
ends signed in. `login.cancelled` keeps where the thread was when it was
cancelled, and CredentialsOnlyByLogin claims no more than the code gives: a
login cancelled before the last look stores nothing. `LogoutAccepted`, `Forget`,
`SignedOut` are the steps of a sign-out, which cancels all jobs and waits for the
token lock; `LogoutRefused` is one that invalidates the jobs of the session and
then ends, because a login or another sign-out is under way or because the
identity on disk cannot be cleared, and then the session and its backend stay. The refresh asks for the identity, then stages pages; its last step
merges or replaces the index in one transaction, after which the identity may
fail to be written. The download reads the
metadata, the bytes chunk by chunk into a partial file, the metadata again, and
publishes; a transfer may be repeated `MaxAttempts` times. A browse thread asks
for one page, and `FinishBrowse` publishes it if it is still the wanted one.
Every account has one folder and one file; all versions of the file have the
same length, which is the case in which lengths tell nothing.

Left out: status texts and progress, the pause switch, mock mode, the cache of
replies, the age of a page (300 s), and the framing of the pipe. With two
queries, `FinishBrowse` does not meet a continuation link that it has seen.

### UploadSession

`source` is the file: its fragments, each with the number of the write it comes
from, so that two versions differ and have one size, which is when a size tells
nothing. `stamp` is its time of change in seconds; `tied` remembers that two
versions had the same second. `row` is the caller's record: the version of the
item it knows, and whether the last version is recorded as uploaded. `drive` is
the item, `sessions` what the drive handed out: the version each replaces and
what it has received. `disk` is the file's entry in `upload-sessions.json`,
`memory[p]` the copy of a process, which it loads when it starts and writes back
as a whole; `run[p]` is the upload a process is in.

A run is `Claim` (`begin_upload`), `Stat` (size, time, `matching_upload_session`),
`Ask` (`query_upload_offset`) or `Forget`, `Create` and `Save`, then one step per
request of a fragment: `Received` (202), `Finished` (200 or 201), `Unwanted` (416,
404, a failure), with `Realign` after a 416 and `Query` after a failure; `Done`
removes the entry and `Commit` is `commit_uploaded`. `Advance` is the decision
where to go on, `Again` another attempt of the same fragment. The source may be
written between any two of these, and a fragment is read when the run comes to
it, not when its request is repeated.

Not in this model: a file of one request (`FileSync`), a new file (it has no
version to replace), a write in the middle of the reading of one fragment (such
a write changes the generation, and what was sent is not recorded, as in the
model), the item lock and the conflict that follows a refusal (`FileSync`), and
sessions of other files in the same JSON file: when two processes write it, the
later one drops the entries only the other has, which costs them their progress
after a restart and nothing else. The drive is assumed to check the version both
when a session is created and with the last fragment.

## 3. Runs

`CHECK_DEADLOCK FALSE` is set in every run: the queue may be shut down and
end, and in the other models the world is at rest when its budget is spent.

| run | cfg | checks | states |
|---|---|---|---|
| `queue` | UploadQueue.cfg | TypeOK, OneRunPerKey, NoLostRequest, CoalescedSpec (refinement), RequestsServed, DropReturns | 180 k |
| `sync` | FileSyncSync.cfg | TypeOK, SavedNotLost, CleanMatchesCloud, DirtyHasCache, NoUploadWhileWriting, NoBlindOverwrite, NoForeignDelete | 383 k |
| `settle` | FileSyncSettle.cfg | Drains, Reconciles | 251 k |
| `cache` | HydrationCache.cfg | TypeOK, CleanBytes, LocalBytes, ReleaseWins, PinnedKept, ReleaseDone, PinnedArrives | 168 k |
| `tree` | Tree.cfg | TypeOK, QueueAgrees, QueuedUntilDone | 741 k |
| `tree_replay` | TreeReplay.cfg | Replayed | 661 k |
| `known_folders` | KnownFolders.cfg | TypeOK, NothingForgotten, RecordedIsCloud, Uploaded | 245 k |
| `windows_session` | WindowsEngineSession.cfg | TypeOK, IdentityIsAccount, DirectoryOwn, CredentialsOnlyByLogin, SignOutEnds | 2.0 M |
| `windows_index` | WindowsEngineIndex.cfg | IndexFaithful, CachedBytes | 6.4 M |
| `upload_session` | UploadSession.cfg | Whole, KeepsProgress, Delivered | 1.2 M |

`queue`: one item, that is two keys (its upload and its deletion), three
workers and any number of requests. The state is finite by itself, since a key
is at most once in the channel. Two keys and three workers give every pair of
roles: two workers meeting on one key while a third holds the other, an upload
that asks for its deletion, a Shutdown between two commands. The proofs below
cover any number of items and workers.

`FileSync` takes a set of `Scenarios`; a behaviour begins by choosing one, which
says whether the file exists at the start and how often each action that can
repeat may happen. What those actions cause (uploads, conflict copies,
deletions, deltas, retries) is not bounded. `MCFileSync` defines:

| scenario | open | write | trunc | create | unlink | remote edit | remote delete | remote create | failed request | crash |
|---|---|---|---|---|---|---|---|---|---|---|
| `Save` | 3 | 3 | | 1 | 1 | | | | | |
| `Conflict` | 1 | 2 | | | | 2 | | | 1 | 1 |
| `Delete` | | 2 | | 2 | 2 | | | | 1 | 1 |
| `Reload` | 2 | | | | | 2 | 1 | 1 | | 1 |
| `Truncate` | 2 | | 1 | | | | | | 1 | 1 |
| `Missing` | 1 | 2 | | | | 2 | 1 | | | |

`sync` takes Save, Conflict, Delete and Reload; `settle` all but Conflict. There
is one writable handle. Each scenario has the interesting case with an action to
spare (a second save during the first upload, a second generation at the path of
a deleted one, a remote edit before and after the refused request); the state
space grows about fivefold with each further action. A budget that has all of
these at once meets the disagreements below, which is why they are separate.

What `sync` leaves to `settle`: a crash between the truncation of the bytes and
the claim of the row leaves a clean row with other bytes (`CleanMatchesCloud`
fails there; the next open compares the lengths, `OpenInvalid`), and a remote
deletion under a save meets `delta_race`.

`Reconciles` says that both sides agree in the end unless one of two things
happened: the refresh passed over a version or a deletion because of local
bytes, or a conflict run imported a version that had been replaced while it ran.
Without that condition `Converges` fails: the code keeps no record of what it
passed over.

`cache` has two threads of the daemon and one of a command. Its scenarios, with
the number of times each action may happen (uploads, imports, reclamations and
the daemon's downloads of a pinned file are not bounded):

| scenario | at the start | read | write | trunc | pin | unpin | sync | release | prune | remote edit | expiry | failed request | daemon dies | command killed |
|---|---|---|---|---|---|---|---|---|---|---|---|---|---|---|
| `Share` | online-only | 2 | | | | | | 1 | | 1 | | | | |
| `Save` | online-only | 1 | 1 | | | | | 1 | | 1 | | | | |
| `Keep` | pinned, not here | 1 | | | | 1 | | | | 1 | | 1 | | |
| `KeepSave` | pinned, here | 1 | 1 | | | 1 | | | 1 | | 1 | | 1 | |
| `Replace` | cached | 1 | | 1 | | | | | | | | | 1 | |
| `Offline` (no daemon) | online-only | | | | 1 | 1 | 1 | 1 | 1 | 1 | 1 | 1 | | 1 |

Two threads that download at once in one process, a third party (the command)
that releases, pins or expires between any two of their steps, and files of two
blocks, so that a transfer can be cut in the middle, are what the races need. In
these scenarios a command that downloads runs without the daemon; with it
`LocalBytes` fails (below).

`tree` and `tree_replay` start from a folder x with a file y in it and a file y
beside it; the names are x, y and z, and a path has at most two of them. That
is the least with a file that moves between folders, a name that is taken, a
rename over a file, a name that is free, and a folder that takes its content
along:

| scenario | run | rename | mkdir | unlink | rmdir | lookup | remote make | remote move | failed request | crash |
|---|---|---|---|---|---|---|---|---|---|---|
| `Renaming` | `tree` | 2 | | 1 | | | | | 1 | |
| `Making` | `tree` | 1 | 1 | | | | | | 1 | |
| `Removing` | `tree` | | | 2 | 1 | | 1 | | | 1 |
| `Moved` | `tree` | | | 1 | | 1 | 1 | 1 | | |
| `Behind` | `tree` | 1 | | | | 2 | 1 | | | 1 |
| `Echoed` | `tree` | 1 | | | | 1 | | 1 | | |
| `OneRename` | `tree_replay` | 1 | | 1 | | | | | 1 | 1 |
| `OneFolder` | `tree_replay` | | 1 | | 1 | | | | 1 | 1 |
| `Removals` | `tree_replay` | | | 2 | 1 | | 1 | | 1 | 1 |
| `Emptied` | `emptied` | 1 | | | 1 | | | | | |

Replays, deltas and retries are not bounded. `QueueAgrees` speaks of behaviours
in which nothing was moved by another client or imported: an import may pass
over a row, as in `FileSync`. `Replayed` needs small scenarios, because two
renames, or a rename and a new folder, already lead to operations that are
never done (below).

`known_folders`: one file in the folder and one in its subfolder, a channel and
a path set that hold one entry, one change per window, two changes of the
folder (of any kind, a removal included) and one crash. Both queues overflow with the second event; the
limiter defers the second change. Every scan may be left out and every fallible
step may fail once before the crash and once after it. The proofs cover any files,
capacities and numbers of crashes.

`windows_session`: two accounts, one sign-out with the login after it, two
browse threads, one continuation link, and one thread whose token may expire,
so that a token refresh overlaps the sign-out. `windows_index`: one account,
two changes of the drive, cancellation, one restart, a file of two chunks
transferred twice. The two are separate because the session does not look at
the index and the index not at a second account.

`upload_session`: a file of two fragments, two attempts and two answers that do
not advance (three each in the code); a run that is interrupted between the two
fragments is the least that has something to resume.

| scenario | write | run of the command | failure | death |
|---|---|---|---|---|
| `Alone` | 1 | | 2 | 1 |
| `Rewritten` | 2 | | 1 | 1 |
| `Unstable` | | | 4 | |
| `Beside` | 1 | 1 | 1 | |
| `BesideDying` | | 1 | 1 | 1 |

A failure is a request that does not arrive, an answer that is lost, a session
or a fragment that the drive drops, or an entry that cannot be written. The
proofs cover any number of everything.

### Fairness

`UploadQueue!FairSpec`: a worker that can step does (`ChainDelete` excepted,
which the run takes only if there is a tombstone), since every network request
has a timeout and the operating system starves no thread; a drop of the pool
that began sends all its commands. `FileSync!Fairness`: the kernel releases
every handle in the end, a FUSE handler that runs ends, and the recovery
thread, which once a minute enqueues all unfinished work and refreshes the
delta (`mount.rs:80-123`), keeps every upload and deletion run and the refresh
going. `Hydration!Fairness`: threads that can step do (WF); programs close the
handles they have and the background work of a thread is done again and again,
also when other work comes in between (SF). `Tree!Fairness`: the recovery thread
enqueues every operation and every tombstone once a minute
(`recovery.rs:462-488`), so the work of each key goes on (WF per key), and so
does the delta. `KnownFolders!Spec`: the thread runs (WF); its retry comes due,
and a request that is sent again and again succeeds at last (SF: failures and
deferrals may come in between, but not for ever); the window of the limiter
slides (WF). No scan and no error is fair: `Uploaded` holds without any later scan,
and says nothing of a thread that an error has ended. `WindowsEngine!Spec`: the sign-out thread runs and a token request
ends, because the HTTP clients have timeouts (WF); nothing else is fair, since
`SignOutEnds` needs nothing else. `UploadSession!FairSpec`: the daemon's run goes
on, because its HTTP clients have timeouts and the recovery scan asks for the
upload again once a minute, and the delta is refreshed (WF); a command need not
go on. In all of them programs, users, the other
client, failures and crashes are not fair; the budget ends them, which is how
"once they stop" is said.

### Where the code disagrees with its documentation

Each of these runs checks one property and TLC finds it violated by what the
code does; the quoted text is in `PROJECT.json`, "findings".

| run | what happens |
|---|---|
| `delta_race` | a remote deletion is checked in one transaction and applied in another; a first write claimed in between loses its row |
| `emptied` | `mv d/f f; rmdir d`: the deletion of d is sent before the move of f, and OneDrive deletes f with it |

The model shows more of this kind, with other scenarios, for which no run is kept:

* open 2, write 2, remote edit 1, `DirtyHasCache`: a save made while the conflict
  copy was stored loses its cache reference (`conflicts.rs:59`,
  `mark_online_only` is unconditional);
* trunc 1, remote edit 1, `NoBlindOverwrite`: a delta between truncating the
  bytes and claiming the row gives the upload the etag of a version nobody saw
  (`writes.rs:146`);
* open 1, write 1, remote edit 1, `Converges`: an entry skipped for local bytes
  is dropped, and the delta link advances past it (`twodrive-fs/metadata.rs:35`);
* create 1, remote create 1, file absent at the start, `NoBlindOverwrite`: a file
  created here replaces the content of one that another client created at that
  path after the last delta; the PUT by path has no If-Match (`recovery.rs:128`);
* open 2, write 2, failed request 1, `NoUploadWhileWriting`: the failure of an
  older upload sets a row that is being written to dirty (`recovery.rs:227`);
* two handles, open 2, write 3, remote edit 1, `SavedNotLost`: after the first of
  two writers closes, the upload makes the row clean and a delta detaches the
  file the second still writes (`writes.rs:346`);
* create 1, trunc 1, crash 1, file absent at the start, `Reconciles`: a crash
  between `mark_cached` and `mark_state` of a truncating open of a file that was
  never uploaded leaves it cached with no item, and nothing uploads it
  (`writes.rs:146-150`; also `CleanMatchesCloud`);
* unlink 2, create 2, write 1, remote edit 1, remote delete 1, `SavedNotLost`: a page of
  the delta was listed while the old item was at the path; by the time it is imported
  that item is gone and a new file's is there, and the stale entry takes the place of
  the new file's row (`twodrive-core/database/metadata.rs:100-130`). A file created
  after that is sent by path and replaces the first one's content;
* create 1, open 1, write 1, trunc 1, remote edit 1, file absent at the start, `CleanMatchesCloud`: the row of a conflict copy takes over the
  cache file of the original; truncating the original, which has no file then, writes
  to that name again (`writes.rs:136`), under the copy's etag.

and in `Hydration`:

* pin 1, write 1, with a mount, `LocalBytes`: the daemon and a command download
  one generation into one partial file; after the first has published it, the
  other writes into the file a program is writing (`hydration.rs:61`);
* read 1, remote edit 1, release 1, with a mount, "a file that is online-only has
  no release waiting": a release that waited for a reader survives the import
  of a newer version, and no open can download the file again until it is
  pinned (`twodrive-core/database/metadata.rs:204`);
* trunc 1, read 1, file online-only: the read's `begin_hydration` comes between
  `mark_cached` and `mark_state` of the truncation and takes the cache path away
  (`LocalBytes`; `writes.rs:147-150`, `cache.rs:204`);
* write 2, the second after the upload of the first: a handle that was not
  closed writes into a copy that is clean again (`CleanBytes`; `writes.rs:193`);
* the download of a pinned row that a worker enqueued reads the generation after
  a release and downloads all the same (`hydration.rs:47`): `ReleaseWins` counts
  a download as asked for when its generation is read;
* a truncating open, a retention pass and a new download at the same generation:
  the descriptor is of the removed file, the name of the new one
  (`writes.rs:136-145`; a retention pass does not raise the generation);
* a command killed between the two transactions of a release leaves it to the
  next close of a handle or the next mount (`cache.rs:431-440`).

and in `Tree`:

* rename 2, `Replayed`: after `mv y x/z; mv x y` neither is ever done: the PATCH
  of the folder is refused because the file y is still there, and the file's
  waits for the folder's;
* mkdir 1, rename 1, `Replayed`: a folder made in a folder that is renamed before
  the acknowledgement; the delta imports its echo at the old path, and adopting
  it violates the unique cloud identity from then on (the guard of
  `twodrive-core/database/metadata.rs:143-157` compares new local paths only);
* the import of a moved folder re-paths the rows below it but not the paths in
  `pending_metadata_operations` (`metadata.rs:260-292`), which a replay compares
  with the row's (`recovery.rs:425`): the operation stays;
* remote make 1, rename 1: another client takes the name first, and the rename is
  queued for ever;
* rmdir 1, mkdir 1, x empty at the start, `Replayed`: after `rmdir x; mkdir x` the
  creation finds the old folder, is refused (409) and takes it over
  (`recovery.rs:432`); the tombstone now names an item that a live row owns, and
  is neither carried out nor dropped (`recovery.rs:293`), although
  `doc/local-first-sync-2026-09-03.md:80` calls recovery idempotent at the remote
  boundary;
* `rm x/y; rmdir x; mkdir x` with the DELETE of x under way: it deletes the folder
  the creation adopted;
* rename of a folder whose creation is in flight: a second folder is created and
  the first is left on the drive;
* the order of a page can delete the row of a folder that was only moved;
* `rmdir` looks for children in the inode table, so that children never listed
  are deleted along.

and in `WindowsEngine`, where no document says otherwise: after a sign-out that
interrupts a refresh `cloud_status` stays "refreshing" (`engine/cloud.rs:142`),
and a login after a failed removal of credentials clears `auth_error`, so that
leftover credentials sign in again at the next start. In `KnownFolders`: an
error event of the watcher is only logged; an error of the disk, the store or the
database, even of one directory below the folder, ends the thread until the
daemon restarts (`mod.rs:45-49`); a comment says that dropped events "are replaced
with a scan" (`mod.rs:113-114`), but the flag is down before the scan, which does nothing
when the folder is not ready (`OverflowSkipped`); with `startup_scan` off, changes made
while the daemon is down, or seen by the watch and not yet queued when it ends,
are not uploaded until the file changes again; and the limit per project
counts only files whose directory is cached (`rate.rs:117-141`).

In `UploadSession`, `Whole` without its condition `~tied`: a write within the second
of the last one leaves size and time as they were, a resumed run goes on with
the session of the older bytes (`onedrive/mod.rs:95`), and the item made of
both versions is recorded as the newer one. The known folders tell such versions
apart (`same_second_same_size_changes_have_distinct_snapshots` in
`known_folders/tests.rs`); the session store does not.

And one that no document excludes: a deletion request has no
If-Match, so an edit of another client that the delta had not shown when the
file was unlinked goes with it (`recovery.rs:352`).

## 4. Proofs

`UploadQueueProofs` proves, for any set of items, any non-empty finite set of
workers and any number of senders: `TypeCorrect`, `NoOverlap` (OneRunPerKey),
`NothingSwallowed` (NoLostRequest), `Invariance` (the inductive `IInv`) and `Refinement`
(`Spec => CoalescedSpec`). The assumptions are `WorkersAssumption` and
`ShutdownAssumption` (the command that ends a worker is not a key).

OneRunPerKey is not inductive: a worker that receives a key must know that no
other holds it. `IInv` adds that a key is at most once in the channel
(`QueuedOnce`), that a queued key is held by nobody (`QueuedIsIdle`), and that
the map knows every key that is queued or held (`MapCovers`), which is what
lets `Send` append. `HoldsKey` says that a worker past `Receive` holds a key.
NoLostRequest needs the same facts: `Start` lowers the flag only for the run
that has not looked, and `Finish` turns a raised flag into a `resend`. The
proof has one lemma per conjunct or group of them and one step per action; the
refinement maps `Request` and `ChainDelete` to `Ask`, `Start` to `Begin`,
`Look` to `Observe`, `Finish` to `End`, and the rest to stutters.

`HydrationProofs` proves `ReleasesWin` (ReleaseWins) and `GenerationsOrdered`
(AskedSince) for any sets of threads, commands and scenarios; no assumption on
the constants is used. ReleaseWins speaks of the moment of publication only;
what carries it is AskedSince, which holds from the moment a download reads the
generation: the generation it holds is at most the row's, and if it is the
row's, no release came since. It is inductive together with the shape of the
records (`IInv`) because every statement keeps the row's generation or raises
it, and a release always raises it (`SameGeneration`, `RaisedGeneration`). A step
of a thread satisfies `Counters` and `JobStep`, proved action by action;
`StepKeeps` is the induction. `Publish` requires the row's generation, so the
theorem follows. Releases by a process that dies half way are included.

`HydrationProofs` also proves `TypeCorrect` (TypeOK). Its invariant `Typed` also says
what the record of every thread may hold: the paths it remembers are ones the
row has had, its version is one the cloud has, an upload that was sent has put a
version after the one it names. Versions and generations only grow (`Grown`,
`Growth`), so that what a thread remembers stays a path and a version.

Its last part proves, for any threads, commands, versions, numbers of saves,
pins, releases, failures and restarts:

* `SerializedPerProcess`: no two threads of one process download the item at the same
  time, which is what `hydrate_generation` is told to guarantee ("Hydration is
  serialized per file across read handles and pin jobs",
  `doc/responsiveness-recovery-2026-09-08.md:23`);
* `CopiesClean` (CleanBytes), `SavesKept` (LocalBytes) and `PinnedCopiesKept`
  (PinnedKept), in behaviours in which three things hold that the code does not
  enforce (`Orderly`): no open truncates, one write handle is open at a time, and
  a command does not download the item while the daemon or another command
  does; and in which no command is killed between the removal of a file and the
  commit of its release (`NotTorn`). The list "and in `Hydration`" in section 3
  has what happens without each of the three: they are what the code needs of
  its users and not a convenience of the proof. `NotTorn` is one: a row that names
  a removed file is repaired by the next open, and the invariant does not follow
  it until then. The run `cache` checks the same three properties without these
  hypotheses on its scenarios, which truncate and kill.

None of the three is inductive. `Copied` adds, of the row, that a copy is clean or
waits for its upload (`Shaped`), that it is there and complete (`Whole`), that a
conflict is based on a replaced version (`Refused`), that two names never lead to
one file (`Injective`) and that one upload runs (`OneUpload`); and of each thread
(`JobOK`) that a handle which has claimed the row writes into the row's copy
(`Writer`); that an upload sends the row's copy, and that what it has sent is what
the copy still holds as long as the row says "uploading" (`Sender`), which is why
`CommitUpload` may call it clean; that a download with the row's generation is
for the row's version and has no copy to replace (`Loader`); and that its partial
file is its own, is a beginning of the version it names as long as that is the
latest, and is all of it when it comes to be published (`LoaderFile`). `Loader` is
where the generation does its work: whatever takes a copy away from a download
raises the generation, and `Publish` compares it. Most steps are tame: they take
copies away and never give one (`Tame`, `TameKeeps`); the steps that write a file
or give the row a copy have a lemma each.

`FileSyncProofs` proves, for any set of handles and any scenarios (however many opens,
writes, truncations, edits, failures and crashes, in any order):

* `TypeCorrect` (TypeOK), which contains OneOwner: no two rows have the same path or
  the same item, so that no statement fails on a UNIQUE constraint between two others;
* `BindingsKept`: a row bound to an item is never bound to another one;
* `LocksHold`: the runs of one file exclude each other;
* `BytesAreKept`: the cache file a run sends is not removed under it;
* `DeletedStayDeleted`: nothing brings back a row whose deletion is queued.

The assumptions are `ScenariosAssumption` (a budget is a natural number) and
`NoneAssumption` (NULL is no path, version, identity, cache file, handler or entry). None of the
five is inductive: a page of the delta that was listed earlier, a request that is
sent again and an acknowledgement that comes after its row was deleted all carry an
identity, a path and an item of an earlier state. `IInv` says that there is one assignment of paths to identities, `home`, with which every row,
tombstone, entry of a page, answer and run agrees (`World`, `IsRow`, `IsTomb`, `IsEntry`,
`IsTask`); that a run, its row and its tombstone agree on the item (`Linked`), which is
why a late acknowledgement can only repeat what the row is bound to; that cache files
are named after their identity (`Own`), which is why no run and no deletion touches
another's; and that a deletion run is not under the lock of an upload (`Dels`).
`Core` joins the parts that runs, handlers and the refresh share. A statement of
`FileRecord` keeps the items of the rows it keeps (`Kept`), or adds a row that is alone
at its path and owns its item (`Follows`); `KeptCore` and `FollowsTable` carry both to
`Core`, and there is a lemma per statement and per action. A new identity or a new
write makes a larger world (`Grows`), in which everything said of the smaller one holds
(`GrowsGood`). What a page of the delta leaves is proved by induction over its entries:
`Imported` is a recursive function, so the induction is a least counterexample
(`Least`, from the well-foundedness of the naturals), without the library's
induction theorems; `FoldExists` shows that the function is what its equation says.

`FileSyncSafetyProofs` proves, again for any set of handles and any scenarios:

* `DirtyRowsKeepTheirBytes` (DirtyHasCache) and `UploadsWaitForTheWriter`
  (NoUploadWhileWriting);
* `SavedWritesSurvive` (SavedNotLost): no acknowledged write is lost;
* `OverwritesAreSeen` (NoBlindOverwrite) and `DeletionsTakeNoBystander`
  (NoForeignDelete).

None of the five is a theorem of `Spec`: the code leaves races open in which each of
them fails. `Orderly` is the list of these races, as nine conditions on single states,
and the theorems read `Spec /\ []Orderly => ...`. Each condition is there because without
it, and with the other eight, TLC finds one of the five violated:

| condition | what is excluded | without it, in the scenario |
|---|---|---|
| `RemovalsHeed` | local bytes appear in a row between the two transactions in which the refresh looks at it and removes it | `delta_race` |
| `CopiesUndisturbed` | a program writes a file whose conflict copy has begun | open 2, write 2, remote edit 1 |
| `WriteAlone` | two handles write one file, or a truncation meets a writer | two handles: open 2, write 3, remote edit 1 |
| `FailuresHeed` | an upload fails while the file is written again | open 2, write 2, failed request 1 |
| `TruncateAlone` | an import into a row, or its removal, while it is truncated | trunc 1, remote edit 1 |
| `PathIsOurs` | the other client creates the file while this computer is about to send one to its path | create 1, remote create 1 |
| `DeletedAsSeen` | the other client edits an item that is deleted here | unlink 1, remote edit 1 |
| `NewFilesWhole` | a crash inside the truncation of a file that has no item yet | create 1, trunc 1, crash 1 |
| `EntriesCurrent` | another item takes the path between a listing and its import | unlink 2, create 2, write 1, remote edit 1, remote delete 1 |

They are races of programs, the other client and crashes with the code, and section 3
says what comes of them; everything else is allowed, at any time and any number of times:
concurrent edits and the conflict copies they cause, lost answers and the requests sent
again, late acknowledgements of deleted files, replays, deletions and new files at
the same path, refreshes and crashes anywhere else.

The proof has three layers. `Shape` is what IInv says of the state, without the choice of
`home`. `Working` says who holds bytes: a row's cache file is there (`Held`), a handle
that has written belongs to a row in state writing (`Writers`), a truncation has given
up what its file holds (`Cut`), a run sends its row's bytes or those of a deleted file
(`Running`); `WorkingInvariance` is its induction, and the first two theorems follow.
`Faithful` says what everybody knows of the bytes: those of a row were made from the
version it names (`Base`); a row without an item, or a run that sends one, has its claim
(`Rows`, `Requests`); what was sent is in the cloud or was given up, and an answered upload is
what the row's bytes were (`Answered`), which is why an acknowledgement may call them
clean; of all deleted files and the live one at the path at most one has bytes in the
cloud or under way (`Generations`); what a tombstone will remove or replay was given up or is
another client's (`Graves`, `Deletions`); copies lie at the paths named after them
(`Drives`), the refresh removes rows of items that are gone (`Listed`), and every item at
the path is another client's, or a row or tombstone owns it or has claimed the path for
bytes that include it (`NoStrangers`), which is why an upload by path replaces nothing
it has not seen; and every write is in one of four places (`AllSafe`). Every action has a
lemma that it keeps `Faithful` and that it neither overwrites nor removes what it must
not; those that do similar things share one (`PutsFaithful` for the requests of a run,
`HandlerFaithful` for what a handler does to its row, `ImportLoses` for imports).
`FaithfulInvariance` is the induction.

`FileSyncCopyProofs` proves `CleanCopiesMatch` (CleanMatchesCloud): what is called clean,
in the row at the path or in a conflict copy, is the version its row names, byte for
byte. Two races more break it, and the theorem reads `Spec /\ []Orderly /\
[]CopiesApart /\ [][CutsEnd]_vars => ...`:

| condition | what is excluded | without it, in the scenario |
|---|---|---|
| `CopiesApart` | a truncation starts over in the cache file that a conflict copy took from the row | create 1, open 1, write 1, trunc 1, remote edit 1, file absent at the start |
| `CutsEnd` | a crash between the truncation of the bytes and the claim of the row | trunc 1, crash 1 |

A conflict copy takes over the cache file of the row it was made from, and the file keeps
its name, which is made of that row's identity and a download generation. Nobody writes
to it any more, and this is what has to be proved: programs write into the file their
row names, and downloads into the file of the next generation. The invariant `Matched`
therefore speaks of revisions. What a row, a run, an answer or the page of a refresh
names is not newer than the item (`RowFits`, `RunFits`, `Told`), so that a version once
passed does not come back; a row in conflict has lost to a later version (`Revised`), so
that its next import raises its generation past the file it lent (`LentAt`); a row in
conflict is the one its run has read, and an upload replaces the version the row still has
(`RunAt`); the entry of a copy is named after its bytes, so that an import meets the row
of a copy only with the version it has (`CopyAt`, `Named`); a clean row at the path has
the bytes of its version, and names no file of a later generation (`DocAt`); a truncation
is of a row that is there or whose item has gone (`Cutting`). `Matching` is the lemma that all
steps share: rows, runs and copies that a step leaves alone keep what is said of them
if items only move forward (`Rises`) and the row at the path only by new versions
(`Steady`). `ImportMatch` is the one for imports, with `Aged` for what a page does to the
generation of the row, again by a least counterexample over its entries.
`MatchedInvariance` is the induction.

`KnownFoldersProofs` proves `TypeCorrect` (TypeOK), `NeverForgotten`
(NothingForgotten) and `RecordIsTrue` (RecordedIsCloud) for any finite set of
files, any subset of them in the subfolder, any capacities, limits and numbers
of changes and crashes; the assumption used is `KnownFoldersAssumption`.
NothingForgotten needs `KInv`: no version is ahead of the clock (`ClockPast`), so
that a watch that begins has missed everything before it; and a result on its way
to the thread is of the file as it is, or the watch has seen the change since
(`Looked`), because the thread takes no event during a batch. What a change or an
event does to the channel is `EnqueueProperties`, what taking from it does
`TakeProperties`, and what the bounded path set still covers after merging is
`WithPathCovers` (with `BelowTransitive`); a file over its limit stays queued
(`RetryRemembered`). RecordedIsCloud needs the invariant `IInv`: an upload under
way has its row in memory and on disk, and what is queued in memory is queued
on disk (`JobsQueued`); versions are not used again (`VersionsPast`); what an
upload sent, and found unchanged after, is what the cloud holds (`SentIsCloud`); nothing is uploaded before
the baseline (`NothingBefore`); and the record itself, in memory and on disk
(`Kept`). A crash replaces memory by the disk, which is why both are needed; so does the
end of the thread, also after a retry that had saved its part (`PrunedRecorded`).

`WindowsEngineProofs` proves `IdentityOwn` (IdentityIsAccount), `DirectoryOwned`
(DirectoryOwn) and `CredentialsKept` (CredentialsOnlyByLogin) for any accounts,
links, threads and numbers of everything; the assumption is `EngineAssumption`.
`IInv` says which thread may be in which session: a login or a sign-out runs
only in its own `auth` state, a login that was granted was not cancelled before,
and a saved identity exists only while signed in (`Sessions`); a backend that can still ask holds the credentials that are stored,
and is the session's or the one about to be cleared, and only such a backend
refreshes a token (`GraphsOwn`, which is what forbids storing credentials after
a sign-out); a refresh that is not cancelled belongs to the session
(`RefreshOwn`); a browse thread that is not cancelled is the last one started,
and the directory is being loaded for it (`BrowsesOwn`, `DirectoryShown`). The
step from the cancellation flag to "nothing is published" is the code's test
under the state lock (`GuardSession`).

It also proves, of what is on disk, `TypeCorrect` (TypeOK), `IndexIsFaithful`
(IndexFaithful) and `CachedIsWhole` (CachedBytes) for any accounts, links, chunks,
changes of the drive, cancellations and restarts. `StoreInv` adds to the types that
neither the drive nor a link runs ahead of the clock (`Clocked`); that in a listing
under way what was not named yet is not staged, and an item that has not
changed since the listing was opened is still to be named, is staged as it is, or
needs no row (`StageFaithful`), from which the commit makes IndexFaithful; that a
finished file is all fragments of its version, and the bytes of a partial file are
of the version it is named after unless the drive has moved on, and then it is
never published (`FilesFaithful`); and how far the download under way has come
(`DownloadStep`). `StoreInvariance` is the induction.

`UploadSessionProofs` proves `Uploaded` (Whole) and `ProgressKept` (KeepsProgress)
for any number of fragments, attempts, commands and budgets; the assumption is
`UploadSessionAssumption`. Whole says nothing of sessions, so its invariant
`IInv` must: numbers of writes are not used again (`Numbered`), which is why a
write makes every claimed version an older one; a session holds a beginning of
the source of its second and replaces a version not newer than that source
(`SessionsOK`); an entry and a run name a session made for the second they say
(`EntriesOK`, `RunsOK`), and a run sends the fragment of the place where its
session is; the item was made of the source of its second (`DriveOK`). A run that
ended and whose claim is still the source therefore has the second of the
source, and so has the item, although another run may have replaced it since.
KeepsProgress is carried by `Remembered`: a run that asks found its session in
memory, and one that forgets a session for these bytes has been told that it is
closed; sessions are not opened again (`StayClosed`). Each action has its lemma;
those that change sessions go through `SessionStep` and `DriveStep`, the others
through `QuietStep`.

Only model-checked:

* liveness under fairness: RequestsServed, DropReturns, Drains, Reconciles,
  ReleaseDone, PinnedArrives, Uploaded, SignOutEnds, Replayed, Delivered;
* all of `Tree`. QueueAgrees and QueuedUntilDone are not theorems of `Spec`: four renames
  can bring a row back to the path that a request of it names, below another folder,
  while that request is under way, and the acknowledgement settles it; the scenarios of
  the run are too short for that. TypeOK rests on recursive functions over paths and
  over the names of the inode table, whose lemmas are not written.

## 5. Plan

Done: `UploadQueue`, `KnownFolders`, `WindowsEngine` and `UploadSession` with their proofs,
`FileRecord` and `FileSync`, `CacheRow` and `Hydration` with the proof that
releases win and those about the copy, `InodeTable` and `Tree`; the proofs about
`FileSync`.

Next, in this order:

1. Proofs: what the operators of `InodeTable` preserve, for `Tree!TypeOK`.
2. `Pins`: inheritance by directory through moves, on the rows of `Tree`.
3. `DeleteRetry`: the backoff arithmetic against a reference definition.
4. What a survey of the peer's update protocol justifies.

### Not modelled

* Inherited pins, the arithmetic of the backoff: planned. Until then a pin belongs
  to one file, and a deferred deletion may be tried again at any time.
* The control backend, the mock, diagnostics: decoding and forwarding of single
  requests, no state of the synchronisation.
* The peer: its cryptography is out of the reach of a model checker; its session
  and update protocols have not been surveyed.
* Domain, configuration, command line, development mounts, applications,
  packaging and scripts: parsing, display and files for people; no concurrent
  state of their own.
