----------------------------- MODULE Hydration ------------------------------
(***************************************************************************)
(* The local copy of one cloud file: who downloads, reads, writes, pins,   *)
(* releases and reclaims it.  Threads of the daemon (FUSE handlers, read   *)
(* pool, upload workers, recovery thread) and of twodrive commands, which  *)
(* are processes of their own, run jobs against one database row, a        *)
(* directory of cache files and the cloud, which another client edits.     *)
(*                                                                         *)
(* A step is one transaction, one request or one access to a file.  Cache  *)
(* files are POSIX files: a name leads to an inode, an open descriptor and *)
(* its lock stay with the inode when the name is removed or replaced.      *)
(* A content is a sequence of blocks, a block the number of the write it   *)
(* comes from, or Hole.                                                    *)
(***************************************************************************)
EXTENDS CacheRow, Sequences, FiniteSets, FiniteSetsExt

CONSTANTS
  Workers,   \* threads of the daemon
  Commands,  \* threads of twodrive commands, a process each
  Scenarios  \* what a behaviour may do: [pinned, cached: is the file kept and is it
             \* present on this device at the start; budget: how often each action
             \* that can repeat may happen]

Threads == Workers \cup Commands
\* "mount" is never spent: without it the daemon does not run, only commands do.
Kinds == {"mount", "read", "write", "trunc", "pin", "unpin", "sync", "release", "prune", "edit",
          "age", "fault", "crash", "kill"}
ASSUME ScenariosAssumption ==
  \A s \in Scenarios : {s.pinned, s.cached} \subseteq BOOLEAN /\ s.budget \in [Kinds -> Nat]
ASSUME ThreadsAssumption ==
  /\ IsFiniteSet(Workers) /\ IsFiniteSet(Commands) /\ Workers \cap Commands = {}
  /\ None \notin {"own", "download", "partial"} \X Nat

VARIABLES
  row,      \* the file's row
  retired,  \* table retired_cache
  dir,      \* cache directory: name -> inode
  data,     \* inode -> content
  body,     \* the contents of the item's versions; the last is in the cloud
  job,      \* what each thread is doing
  local,    \* history: what the programs saved, None if all of it is uploaded
  stamp,    \* history: number of the last write
  era,      \* history: number of releases
  budget

vars == <<row, retired, dir, data, body, job, local, stamp, era, budget>>
store == <<retired, dir, data>>
history == <<local, stamp, era>>

Hole == 0
Inodes == 1..(Cardinality(Threads) + 6)
Latest == Len(body)

Idle == [kind |-> "none", pc |-> "idle", gen |-> 0, path |-> None, etag |-> 0, base |-> 0,
         fd |-> None, locked |-> FALSE, changed |-> FALSE, blocks |-> 0, era |-> 0]

Init ==
  /\ retired = {}
  /\ body = << <<1, 1>> >> /\ stamp = 1
  /\ job = [t \in Threads |-> Idle]
  /\ local = None /\ era = 0
  /\ \E s \in Scenarios :
       /\ budget = s.budget
       /\ LET r == Recompute(SetPin(ImportedRow, s.pinned))
          IN row = IF s.cached THEN Finished(r, 0) ELSE r
       /\ dir = [p \in IF s.cached THEN {Download(0)} ELSE {} |-> 1]
       /\ data = [i \in Inodes |-> IF s.cached /\ i = 1 THEN <<1, 1>> ELSE <<>>]

Spend(b) == budget[b] > 0 /\ budget' = [budget EXCEPT ![b] = @ - 1]
Free == UNCHANGED budget

-----------------------------------------------------------------------------
(* Files                                                                   *)

Exists(p) == p \in DOMAIN dir
Content(p) == data[dir[p]]
With(f, k, v) == [x \in DOMAIN f \cup {k} |-> IF x = k THEN v ELSE f[x]]
Without(f, k) == [x \in DOMAIN f \ {k} |-> f[x]]

\* Opening a name creates the file when there is none.  Inodes bounds the files.
FreeInodes == Inodes \ ({dir[p] : p \in DOMAIN dir} \cup {job[t].fd : t \in Threads})
CanOpen(p) == Exists(p) \/ FreeInodes # {}
Opened(p) == IF Exists(p) THEN dir[p] ELSE CHOOSE i \in FreeInodes : TRUE

\* Block k of a file becomes v; what lies between its end and k is a hole.
WriteAt(s, k, v) ==
  [n \in 1..Max({Len(s), k}) |-> IF n = k THEN v ELSE IF n <= Len(s) THEN s[n] ELSE Hole]

\* A shared lock on the inode keeps try_lock from succeeding.
LockedBy(i) == {t \in Threads : job[t].locked /\ job[t].fd = i}
InUse(p) == Exists(p) /\ LockedBy(dir[p]) # {}

Size(r) == Len(body[r.etag])

\* reconcile_cached_record: a clean cache file of a wrong length.
Mismatched(r) ==
  Clean(r) /\ r.cache # None /\ Exists(r.cache) /\ Len(Content(r.cache)) # Size(r)

HasExistingCache(r) ==
  /\ r.state \in {"cached", "pinned"} \cup Saved
  /\ r.cache # None /\ Exists(r.cache)
  /\ Clean(r) => Len(Content(r.cache)) = Size(r)

-----------------------------------------------------------------------------
(* Jobs                                                                    *)

At(t, pc) == job[t].pc = pc
Serves(t) == t \in Workers /\ budget["mount"] > 0
Goto(t, pc) == job' = [job EXCEPT ![t].pc = pc]
Stop(t) == job' = [job EXCEPT ![t] = Idle]

FuseKinds == {"read", "write", "trunc"}

\* The dispatcher runs one handler at a time.  A read handle's first read and
\* its download run in the read pool; an open for writing downloads in place.
Dispatching ==
  \E t \in Threads :
    \/ job[t].kind \in {"write", "trunc"} /\ job[t].pc \notin {"idle", "open"}
    \/ job[t].kind = "read" /\ job[t].pc \in {"look", "invalid", "looked", "sweep", "drop"}

Home(t) == IF t \in Commands THEN t ELSE "daemon"
Downloading == {"begin", "verify", "fetch", "confirm", "upserted", "publish", "abandon"}

\* Slip: downloads of one item do not wait for each other.
NeverLocked(t) == FALSE

\* item_sync_lock, which is the process's own.
HydrateLocked(t) == \E u \in Threads : Home(u) = Home(t) /\ job[u].pc \in Downloading

Start(t, kind, pc) ==
  /\ At(t, "idle")
  /\ job' = [job EXCEPT ![t].kind = kind, ![t].pc = pc]

\* A job that only needs the thread: its kind, first step and who may run it.
OpenFile(t, kind) ==
  /\ Serves(t) /\ kind \in FuseKinds /\ ~Dispatching
  /\ Start(t, kind, "look") /\ Spend(kind)
  /\ UNCHANGED <<row, store, body, history>>

PinPath(t) ==
  /\ t \in Commands
  /\ Start(t, "pin", "repin") /\ Spend("pin")
  /\ row' = SetPin(row, TRUE)
  /\ UNCHANGED <<store, body, history>>

UnpinPath(t) ==
  /\ t \in Commands /\ row.pin
  /\ Start(t, "unpin", "repin") /\ Spend("unpin")
  /\ row' = SetPin(row, FALSE)
  /\ UNCHANGED <<store, body, history>>

\* recompute_pin_inheritance after this job's own change of policy or import.
\* Every import of other entries runs it too: RecomputePins.
Repin(t) ==
  /\ At(t, "repin")
  /\ row' = Recompute(row)
  /\ IF job[t].kind = "pin" THEN Goto(t, "look") ELSE Stop(t)
  /\ UNCHANGED <<store, body, history>> /\ Free

RecomputePins ==
  /\ row' = Recompute(row) /\ row' # row
  /\ UNCHANGED <<store, body, job, history>> /\ Free

PinPending == row.pin /\ row.state \notin Protected /\ ~HasExistingCache(row)

\* The upload worker's turn for a pinned row that the recovery thread enqueued.
\* The queue runs one of them at a time.
KeepPinned(t) ==
  /\ Serves(t) /\ PinPending
  /\ ~\E u \in Workers : job[u].kind = "keep"
  /\ Start(t, "keep", "look")
  /\ UNCHANGED <<row, store, body, history>> /\ Free

\* hydrate_pending_pins of `twodrive sync`.
SyncPins(t) ==
  /\ t \in Commands /\ PinPending
  /\ Start(t, "keep", "look") /\ Spend("sync")
  /\ UNCHANGED <<row, store, body, history>>

-----------------------------------------------------------------------------
(* Opening                                                                 *)

\* The record a handler works with, and the length check on its cache.
LookInvalid(t) ==
  /\ At(t, "look") /\ Mismatched(row)
  /\ job' = [job EXCEPT ![t].pc = "invalid", ![t].path = row.cache, ![t].etag = row.etag]
  /\ UNCHANGED <<row, store, body, history>> /\ Free

InvalidateCache(t) ==
  /\ At(t, "invalid")
  /\ row' = Invalidated(row, [cache |-> job[t].path, etag |-> job[t].etag])
  /\ Goto(t, "looked")
  /\ UNCHANGED <<store, body, history>> /\ Free

Looked(t) == At(t, "looked") \/ (At(t, "look") /\ ~Mismatched(row))

\* open for reading a cached file: the descriptor is opened, then locked.
OpenCached(t) ==
  /\ Looked(t) /\ job[t].kind = "read" /\ HasExistingCache(row)
  /\ job' = [job EXCEPT ![t].pc = "lock", ![t].path = row.cache, ![t].fd = dir[row.cache]]
  /\ UNCHANGED <<row, store, body, history>> /\ Free

\* open for reading without a cache: the handle keeps the generation.
OpenDeferred(t) ==
  /\ Looked(t) /\ job[t].kind = "read" /\ ~HasExistingCache(row)
  /\ job' = [job EXCEPT ![t].pc = "deferred", ![t].gen = row.gen, ![t].era = era]
  /\ UNCHANGED <<row, store, body, history>> /\ Free

FirstRead(t) ==
  /\ At(t, "deferred") /\ ~Dispatching
  /\ Goto(t, "enter")
  /\ UNCHANGED <<row, store, body, history>> /\ Free

\* hydrate_record reads the generation after the record.
ReadGeneration(t) ==
  /\ Looked(t) /\ job[t].kind \in {"write", "pin", "keep"}
  /\ job' = [job EXCEPT ![t].pc = "enter", ![t].gen = row.gen, ![t].era = era,
                        ![t].base = row.etag]
  /\ UNCHANGED <<row, store, body, history>> /\ Free

\* open with O_TRUNC needs no content: the cache file is opened or created.
OpenTruncating(t) ==
  /\ Looked(t) /\ job[t].kind = "trunc"
  /\ LET p == IF row.cache = None THEN Own ELSE row.cache
         i == Opened(p)
     IN /\ CanOpen(p) /\ dir' = With(dir, p, i)
        /\ data' = IF Exists(p) THEN data ELSE [data EXCEPT ![i] = <<>>]
        /\ job' = [job EXCEPT ![t].pc = "lock", ![t].path = p, ![t].fd = i,
                              ![t].base = row.etag]
  /\ UNCHANGED <<row, retired, body, history>> /\ Free

-----------------------------------------------------------------------------
(* Downloading: hydrate_generation                                         *)

\* An error ends the job; the program then closes a read handle.
Fails(t) ==
  job' = [job EXCEPT ![t] = IF @.kind = "read" THEN [Idle EXCEPT !.kind = "read", !.pc = "held"]
                            ELSE Idle]

\* The per-item lock of the process, the generation, the record read again.
EnterCancelled(t) ==
  /\ At(t, "enter") /\ ~HydrateLocked(t)
  /\ row.gen # job[t].gen
  /\ Fails(t)
  /\ UNCHANGED <<row, store, body, history>> /\ Free

UseExisting(t) ==
  /\ At(t, "enter") /\ ~HydrateLocked(t)
  /\ row.gen = job[t].gen /\ HasExistingCache(row)
  /\ row' = [row EXCEPT !.fresh = TRUE]
  /\ job' = [job EXCEPT ![t].pc = "got", ![t].path = row.cache]
  /\ UNCHANGED <<store, body, history>> /\ Free

NeedDownload(t) ==
  /\ At(t, "enter") /\ ~HydrateLocked(t)
  /\ row.gen = job[t].gen /\ ~HasExistingCache(row)
  /\ job' = [job EXCEPT ![t].pc = "begin", ![t].etag = row.etag]
  /\ UNCHANGED <<row, store, body, history>> /\ Free

BeginRefused(t) ==
  /\ At(t, "begin") /\ ~MayBegin(row, job[t].gen)
  /\ Fails(t)
  /\ UNCHANGED <<row, store, body, history>> /\ Free

\* begin_hydration, and the partial file created or truncated.
BeginDownload(t) ==
  /\ At(t, "begin") /\ MayBegin(row, job[t].gen)
  /\ row' = Begun(row)
  /\ LET p == Partial(job[t].gen)
         i == Opened(p)
     IN /\ CanOpen(p) /\ dir' = With(dir, p, i)
        /\ data' = [data EXCEPT ![i] = <<>>]
        /\ job' = [job EXCEPT ![t].pc = "verify", ![t].fd = i, ![t].blocks = 0]
  /\ UNCHANGED <<retired, body, history>> /\ Free

\* verify_remote_version found another version: it is imported instead.
\* upsert_metadata retires a clean cache file of the right length.
Import(e) ==
  /\ row' = Imported(row, e)
  /\ retired' = IF row' # row /\ Clean(row) /\ row.cache # None /\ Exists(row.cache)
                     /\ Len(Content(row.cache)) = Size(row)
                THEN retired \cup {row.cache} ELSE retired
  /\ UNCHANGED <<dir, data>>

Superseded(t) ==
  /\ job[t].pc \in {"verify", "confirm"} /\ job[t].etag # Latest
  /\ Import(Latest)
  /\ Goto(t, "upserted")
  /\ UNCHANGED <<body, history>> /\ Free

Recomputed(t) ==
  /\ At(t, "upserted")
  /\ row' = Recompute(row)
  /\ Goto(t, "abandon")
  /\ UNCHANGED <<store, body, history>> /\ Free

Verified(t) ==
  /\ At(t, "verify") /\ job[t].etag = Latest
  /\ Goto(t, "fetch")
  /\ UNCHANGED <<row, store, body, history>> /\ Free

\* A range of the item's content, which is that of its latest version.
Fetch(t) ==
  /\ At(t, "fetch")
  /\ LET k == job[t].blocks + 1
     IN /\ k <= Len(body[job[t].etag]) /\ k <= Len(body[Latest])
        /\ data' = [data EXCEPT ![job[t].fd] = WriteAt(@, k, body[Latest][k])]
        /\ job' = [job EXCEPT ![t].blocks = k]
  /\ UNCHANGED <<row, retired, dir, body, history>> /\ Free

\* All bytes have arrived; the partial file is closed.
Fetched(t) ==
  /\ At(t, "fetch") /\ job[t].blocks = Len(body[job[t].etag])
  /\ job' = [job EXCEPT ![t].pc = "confirm", ![t].fd = None]
  /\ UNCHANGED <<row, store, body, history>> /\ Free

\* The progress callback finds another generation, or the version is shorter.
FetchStopped(t) ==
  /\ At(t, "fetch")
  /\ \/ row.gen # job[t].gen
     \/ job[t].blocks < Len(body[job[t].etag]) /\ job[t].blocks >= Len(body[Latest])
  /\ job' = [job EXCEPT ![t].pc = "abandon", ![t].fd = None]
  /\ UNCHANGED <<row, store, body, history>> /\ Free

RequestFails(t) ==
  /\ job[t].pc \in {"verify", "fetch", "confirm"} /\ Spend("fault")
  /\ job' = [job EXCEPT ![t].pc = "abandon", ![t].fd = None]
  /\ UNCHANGED <<row, store, body, history>>

\* Slip: the version is not looked at again after the transfer.
ConfirmGenerationOnly(t) ==
  /\ At(t, "confirm")
  /\ Goto(t, IF row.gen = job[t].gen THEN "publish" ELSE "abandon")
  /\ UNCHANGED <<row, store, body, history>> /\ Free

\* The version and the generation are still those of the transfer.
Confirm(t) ==
  /\ At(t, "confirm") /\ job[t].etag = Latest
  /\ Goto(t, IF row.gen = job[t].gen THEN "publish" ELSE "abandon")
  /\ UNCHANGED <<row, store, body, history>> /\ Free

Publishable(t) ==
  LET p == Partial(job[t].gen)
  IN MayFinish(row, job[t].gen) /\ Exists(p) /\ Len(Content(p)) = Size(row)

\* finish_hydration: the rename is part of the transaction.
Publish(t) ==
  /\ At(t, "publish") /\ Publishable(t)
  /\ LET g == job[t].gen
     IN /\ row' = Finished(row, g)
        /\ dir' = Without(With(dir, Download(g), dir[Partial(g)]), Partial(g))
        /\ job' = [job EXCEPT ![t].pc = "got", ![t].path = Download(g)]
  /\ UNCHANGED <<retired, data, body, history>> /\ Free

PublishRefused(t) ==
  /\ At(t, "publish") /\ ~Publishable(t)
  /\ Goto(t, "abandon")
  /\ UNCHANGED <<row, store, body, history>> /\ Free

\* The partial file goes, then fail_hydration.
Abandon(t) ==
  /\ At(t, "abandon")
  /\ dir' = Without(dir, Partial(job[t].gen))
  /\ row' = Failed(row, job[t].gen)
  /\ Fails(t)
  /\ UNCHANGED <<retired, data, body, history>> /\ Free

-----------------------------------------------------------------------------
(* Handles                                                                 *)

\* The path a download returned: a pin is done, a reader opens the file, which
\* may have been released in between, a writer opens or creates it.
GotPinned(t) ==
  /\ At(t, "got") /\ job[t].kind \in {"pin", "keep"}
  /\ Stop(t)
  /\ UNCHANGED <<row, store, body, history>> /\ Free

GotRead(t) ==
  /\ At(t, "got") /\ job[t].kind = "read"
  /\ IF Exists(job[t].path)
       THEN job' = [job EXCEPT ![t].pc = "lock", ![t].fd = dir[job[t].path]]
       ELSE Fails(t)
  /\ UNCHANGED <<row, store, body, history>> /\ Free

GotWrite(t) ==
  /\ At(t, "got") /\ job[t].kind = "write"
  /\ LET p == job[t].path
         i == Opened(p)
     IN /\ CanOpen(p) /\ dir' = With(dir, p, i)
        /\ data' = IF Exists(p) THEN data ELSE [data EXCEPT ![i] = <<>>]
        /\ job' = [job EXCEPT ![t].pc = "lock", ![t].fd = i, ![t].blocks = 0]
  /\ UNCHANGED <<row, retired, body, history>> /\ Free

LockRead(t) ==
  /\ At(t, "lock") /\ job[t].kind = "read"
  /\ job' = [job EXCEPT ![t].pc = "held", ![t].locked = TRUE]
  /\ UNCHANGED <<row, store, body, history>> /\ Free

\* "A release may have won before the shared lock": the open fails then.
LockWrite(t) ==
  /\ At(t, "lock") /\ job[t].kind \in {"write", "trunc"}
  /\ IF ~Exists(job[t].path) THEN Stop(t)
     ELSE job' = [job EXCEPT ![t].locked = TRUE,
                             ![t].pc = IF job[t].kind = "trunc" THEN "cut" ELSE "open"]
  /\ UNCHANGED <<row, store, body, history>> /\ Free

Cut(t) ==
  /\ At(t, "cut")
  /\ data' = [data EXCEPT ![job[t].fd] = <<>>]
  /\ local' = IF local = None THEN None ELSE <<>>
  /\ Goto(t, "mark")
  /\ UNCHANGED <<row, retired, dir, body, stamp, era>> /\ Free

MarkCached(t) ==
  /\ At(t, "mark")
  /\ row' = MarkedCached(row, job[t].path)
  /\ Goto(t, "claim")
  /\ UNCHANGED <<store, body, history>> /\ Free

MarkWriting(t) ==
  /\ At(t, "claim")
  /\ row' = MarkedWriting(row)
  /\ local' = <<>>
  /\ job' = [job EXCEPT ![t].pc = "open", ![t].changed = TRUE]
  /\ UNCHANGED <<store, body, stamp, era>> /\ Free

MayClaim(t) == row.cache = job[t].path /\ row.etag = job[t].base

\* The first write of a handle: begin_handle_write.
ClaimWrite(t) ==
  /\ At(t, "open") /\ ~job[t].changed /\ ~Dispatching /\ MayClaim(t)
  /\ row' = MarkedWriting(row)
  /\ local' = IF local = None THEN Content(job[t].path) ELSE local
  /\ job' = [job EXCEPT ![t].changed = TRUE]
  /\ UNCHANGED <<store, body, stamp, era>> /\ Free

\* write_slice opens the file by its name.  A handle writes once.
Write(t) ==
  /\ At(t, "open") /\ job[t].changed /\ job[t].blocks = 0 /\ ~Dispatching
  /\ Exists(job[t].path)
  /\ stamp' = stamp + 1
  /\ data' = [data EXCEPT ![dir[job[t].path]] = WriteAt(@, 1, stamp')]
  /\ local' = WriteAt(IF local = None THEN Content(job[t].path) ELSE local, 1, stamp')
  /\ job' = [job EXCEPT ![t].blocks = 1]
  /\ UNCHANGED <<row, retired, dir, body, era>> /\ Free

\* release of a write handle: queue_upload_handle; then the lock goes and
\* finish_pending_releases begins.  A handle whose claim failed changes nothing.
CloseWrite(t) ==
  /\ At(t, "open") /\ ~Dispatching
  /\ job[t].changed \/ ~MayClaim(t)
  /\ row' = IF job[t].changed /\ Exists(job[t].path)
              THEN [row EXCEPT !.state = "dirty"] ELSE row
  /\ job' = [job EXCEPT ![t] = [Idle EXCEPT !.kind = "write", !.pc = "sweep"]]
  /\ UNCHANGED <<store, body, history>> /\ Free

\* A program may close any read handle, read or not.
CloseRead(t) ==
  /\ job[t].kind = "read" /\ job[t].pc \in {"deferred", "held"} /\ ~Dispatching
  /\ job' = [job EXCEPT ![t] = [Idle EXCEPT !.kind = "read", !.pc = "sweep"]]
  /\ UNCHANGED <<row, store, body, history>> /\ Free

-----------------------------------------------------------------------------
(* Releasing and reclaiming                                                *)

ReleasePath(t) ==
  /\ t \in Commands
  /\ Start(t, "release", "drop") /\ Spend("release")
  /\ row' = Released(row)
  /\ era' = era + 1
  /\ UNCHANGED <<store, body, local, stamp>>

\* Slip: closing a handle does not look for releases that wait.
CloseOnly(t) ==
  /\ At(t, "sweep") /\ Stop(t)
  /\ UNCHANGED <<row, store, body, history>> /\ Free

\* finish_pending_releases lists the rows first.
SweepReleases(t) ==
  /\ At(t, "sweep")
  /\ IF row.release THEN Goto(t, "drop") ELSE Stop(t)
  /\ UNCHANGED <<row, store, body, history>> /\ Free

\* prune_cache lists the rows first.
PruneCache(t) ==
  /\ Serves(t) \/ t \in Commands
  /\ row.state = "cached" /\ ~row.pin /\ ~row.fresh
  /\ Start(t, "prune", "drop") /\ Spend("prune")
  /\ UNCHANGED <<row, store, body, history>>

Droppable(t) ==
  /\ MayDrop(row)
  /\ job[t].kind = "prune" => ~row.fresh
  /\ row.cache = None \/ ~InUse(row.cache)

RemoveFile(p) == dir' = Without(dir, p) /\ UNCHANGED <<retired, data>>

\* release_cached_record: one transaction that also removes the file.
DropRecord(t) ==
  /\ At(t, "drop")
  /\ IF Droppable(t) THEN row' = Dropped(row) /\ RemoveFile(row.cache)
     ELSE UNCHANGED <<row, store>>
  /\ Stop(t)
  /\ UNCHANGED <<body, history>> /\ Free

\* prune_retired_cache lists the paths first.
ListRetired(t) ==
  /\ Serves(t) \/ t \in Commands
  /\ \E p \in retired :
       /\ At(t, "idle")
       /\ ~\E u \in Threads : job[u].kind = "reclaim"
       /\ job' = [job EXCEPT ![t].kind = "reclaim", ![t].pc = "reclaim", ![t].path = p]
  /\ UNCHANGED <<row, store, body, history>> /\ Free

Unreferenced(p) == row.cache # p /\ row.up # p

\* remove_unreferenced_cache
Reclaim(t) ==
  /\ At(t, "reclaim")
  /\ LET p == job[t].path
     IN IF Unreferenced(p) /\ ~InUse(p)
          THEN dir' = Without(dir, p) /\ retired' = retired \ {p}
          ELSE UNCHANGED <<dir, retired>>
  /\ Stop(t)
  /\ UNCHANGED <<row, data, body, history>> /\ Free

-----------------------------------------------------------------------------
(* Uploads, deltas, the other client                                       *)

\* recover_dirty_record up to begin_upload; the shared lock is taken before.
StartUpload(t) ==
  /\ Serves(t)
  /\ row.state \in {"dirty", "uploading"} /\ row.cache # None /\ Exists(row.cache)
  /\ ~\E u \in Threads : job[u].kind = "upload"
  /\ At(t, "idle")
  /\ row' = Uploading(row)
  /\ job' = [job EXCEPT ![t].kind = "upload", ![t].pc = "put", ![t].path = row.cache,
                        ![t].fd = dir[row.cache], ![t].locked = TRUE, ![t].etag = row.etag]
  /\ UNCHANGED <<store, body, history>> /\ Free

\* The PUT names the version the save is based on.
Put(t) ==
  /\ At(t, "put") /\ job[t].etag = Latest /\ Exists(job[t].path)
  /\ body' = Append(body, Content(job[t].path))
  /\ Goto(t, "commit")
  /\ UNCHANGED <<row, store, history>> /\ Free

\* Another version is there.  What becomes of a conflict is the subject of
\* FileSync.
PutRefused(t) ==
  /\ At(t, "put") /\ job[t].etag # Latest
  /\ row' = IF row.state = "uploading" THEN [row EXCEPT !.state = "conflict"] ELSE row
  /\ Stop(t)
  /\ UNCHANGED <<store, body, history>> /\ Free

CommitUpload(t) ==
  /\ At(t, "commit")
  /\ row' = Committed(row, job[t].path, job[t].etag + 1)
  /\ local' = IF Clean(row') THEN None ELSE local
  /\ job' = [job EXCEPT ![t] = [Idle EXCEPT !.kind = "upload", !.pc = "sweep"]]
  /\ UNCHANGED <<store, body, stamp, era>> /\ Free

\* The delta lists the item; its entry may be old when it is imported.
ListDelta(t) ==
  /\ Serves(t) /\ row.etag # Latest /\ row.state \notin Protected
  /\ ~\E u \in Threads : job[u].kind = "refresh"
  /\ At(t, "idle")
  /\ job' = [job EXCEPT ![t].kind = "refresh", ![t].pc = "import", ![t].etag = Latest]
  /\ UNCHANGED <<row, store, body, history>> /\ Free

ImportEntry(t) ==
  /\ At(t, "import")
  /\ Import(job[t].etag)
  /\ Goto(t, "repin")
  /\ UNCHANGED <<body, history>> /\ Free

RemoteEdit ==
  /\ Spend("edit")
  /\ stamp' = stamp + 1
  /\ body' = Append(body, <<stamp', stamp'>>)
  /\ UNCHANGED <<row, store, job, local, era>>

\* The retention passes for what has not been read since.
Age ==
  /\ Spend("age") /\ row.fresh
  /\ ~\E t \in Threads : job[t].kind = "prune"
  /\ row' = [row EXCEPT !.fresh = FALSE]
  /\ UNCHANGED <<store, body, job, history>>

-----------------------------------------------------------------------------
(* Crashes                                                                 *)

\* A command is killed; a transaction it was in leaves only the removed file.
KillCommand(t) ==
  /\ t \in Commands /\ ~At(t, "idle") /\ Spend("kill")
  /\ Stop(t)
  /\ \/ UNCHANGED dir
     \/ At(t, "drop") /\ Droppable(t) /\ dir' = Without(dir, row.cache)
  /\ UNCHANGED <<row, retired, data, body, history>>

\* The daemon dies and starts again: locks are gone, recover_interrupted_writes
\* and finish_pending_releases run before the mount serves.
Restart ==
  /\ budget["mount"] > 0 /\ Spend("crash")
  /\ job' = [t \in Threads |-> IF t \in Workers THEN Idle ELSE job[t]]
  /\ LET saved == IF row.state = "writing" /\ row.cache # None /\ Exists(row.cache)
                    THEN [row EXCEPT !.state = "dirty"] ELSE row
         held == saved.cache # None /\ Exists(saved.cache)
                 /\ LockedBy(dir[saved.cache]) \cap Commands # {}
     IN IF saved.release /\ MayDrop(saved) /\ ~held
          THEN row' = Dropped(saved) /\ RemoveFile(saved.cache)
          ELSE row' = saved /\ UNCHANGED store
  /\ UNCHANGED <<body, history>>

-----------------------------------------------------------------------------
(* The specification                                                       *)

Downloads(t) ==
  \/ EnterCancelled(t) \/ UseExisting(t) \/ NeedDownload(t)
  \/ BeginRefused(t) \/ BeginDownload(t) \/ Superseded(t) \/ Recomputed(t)
  \/ Verified(t) \/ Fetch(t) \/ Fetched(t) \/ FetchStopped(t)
  \/ Confirm(t) \/ Publish(t) \/ PublishRefused(t) \/ Abandon(t)

Opening(t) ==
  \/ LookInvalid(t) \/ InvalidateCache(t) \/ OpenCached(t) \/ OpenDeferred(t)
  \/ FirstRead(t) \/ ReadGeneration(t) \/ OpenTruncating(t)
  \/ GotPinned(t) \/ GotRead(t) \/ GotWrite(t) \/ LockRead(t) \/ LockWrite(t)
  \/ Cut(t) \/ MarkCached(t) \/ MarkWriting(t)

Releasing(t) == SweepReleases(t) \/ DropRecord(t)

\* What a program does with a handle it has.
Handling(t) == ClaimWrite(t) \/ Write(t) \/ CloseWrite(t) \/ CloseRead(t)

Background(t) ==
  \/ KeepPinned(t) \/ Repin(t) \/ ListRetired(t) \/ Reclaim(t)
  \/ StartUpload(t) \/ Put(t) \/ PutRefused(t) \/ CommitUpload(t)
  \/ ListDelta(t) \/ ImportEntry(t)

Program(t) ==
  \/ \E kind \in FuseKinds : OpenFile(t, kind)
  \/ PinPath(t) \/ UnpinPath(t) \/ SyncPins(t) \/ ReleasePath(t) \/ PruneCache(t)

Next ==
  \/ \E t \in Threads :
       \/ Downloads(t) \/ Opening(t) \/ Handling(t) \/ Releasing(t)
       \/ Background(t) \/ Program(t)
       \/ RequestFails(t) \/ KillCommand(t)
  \/ RecomputePins \/ RemoteEdit \/ Age \/ Restart

Spec == Init /\ [][Next]_vars

-----------------------------------------------------------------------------
(* Fairness                                                                *)

\* Threads run; programs close their handles; the recovery thread retries pins
\* and releases and refreshes the delta.  Programs, the other client, the passage
\* of the retention, failures and crashes are not fair.
Fairness ==
  /\ \A t \in Threads :
       /\ WF_vars(Downloads(t) \/ Opening(t) \/ Releasing(t))
       /\ SF_vars(Handling(t))
       /\ SF_vars(Background(t))
  /\ WF_vars(RecomputePins)

FairSpec == Spec /\ Fairness

-----------------------------------------------------------------------------
(* Properties                                                              *)

Paths == {Own} \cup {Download(g) : g \in 0..row.gen} \cup {Partial(g) : g \in 0..row.gen}

TypeOK ==
  /\ TypeRow(row, 1..Latest, Paths)
  /\ retired \subseteq Paths /\ DOMAIN dir \subseteq Paths
  /\ \A p \in DOMAIN dir : dir[p] \in Inodes
  /\ \A t \in Threads : job[t].fd \in Inodes \cup {None} /\ job[t].gen <= row.gen

\* A cache file that is shown as an unmodified copy, of the length of the version
\* the row describes, has that version's bytes: neither a transfer that another
\* client's edit overtook nor a partial file is ever published
\* (hydration.rs:118, cache.rs:208-242).
CleanBytes ==
  Clean(row) /\ row.cache # None /\ Exists(row.cache) /\ Len(Content(row.cache)) = Size(row)
    => Content(row.cache) = body[row.etag]

\* While a save is not in the cloud, the row says so and leads to a cache file with
\* what the programs wrote: no download, release, retention or reclamation replaces
\* or removes it (cache.rs:242, 308-370, 158-198).
LocalBytes ==
  local # None =>
    /\ row.state \in Protected
    /\ row.cache # None /\ Exists(row.cache) /\ Content(row.cache) = local

Asked == {"deferred", "enter"} \cup Downloading

\* A download that still holds the row's generation was asked for after the last
\* release: between a release and its own end a download has an older one
\* (cache.rs:113-119, 424, hydration.rs:47, fuse.rs:247).
AskedSince ==
  \A t \in Threads : job[t].pc \in Asked =>
    /\ job[t].gen <= row.gen
    /\ job[t].gen = row.gen => job[t].era = era

\* What a release cancelled stays cancelled: the download that is published was
\* asked for after the last release (cache.rs:395-432, fuse.rs:245-270).
ReleaseWins ==
  [][\A t \in Threads : At(t, "publish") /\ job'[t].pc = "got" => job[t].era = era]_vars

Intact == Clean(row) /\ HasExistingCache(row)

\* The intact copy of a file that is always kept is given up only for another
\* version: downloads of one process do not discard each other's result
\* (hydration.rs:61-75, cache.rs:200).
PinnedKept ==
  [][Intact /\ row.pin /\ row'.pin /\ row'.etag = row.etag => row'.cache = row.cache]_vars

\* While the daemon runs, a release that had to wait is carried out once the save
\* is uploaded and the handles are closed, unless the file is pinned again, a newer
\* version has taken its copy away or the save became a conflict (cache.rs:372-386).
ReleaseDone ==
  budget["mount"] > 0 /\ row.release
    ~> ~row.release \/ row.cache = None \/ row.state = "conflict"

\* While the daemon runs, a pinned file is on this device in the end, in its latest
\* version (mount.rs:80-123, upload_queue.rs:200-209).
PinnedArrives ==
  []<>(budget["mount"] > 0 /\ row.pin /\ row.state # "conflict"
         => Intact /\ row.etag = Latest)
=============================================================================
