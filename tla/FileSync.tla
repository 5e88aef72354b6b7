------------------------------ MODULE FileSync ------------------------------
(***************************************************************************)
(* The life of the file saved at one path of a twodrive mount: programs    *)
(* open, write, truncate, close, create and unlink it through FUSE, upload *)
(* workers carry its bytes to the cloud, conflict copies preserve edits    *)
(* that lost a race, deletions are replayed, the recovery thread imports   *)
(* deltas, another client edits the same item, requests fail, their        *)
(* answers are lost, and the process dies at any point.                    *)
(*                                                                         *)
(* One step is one database transaction, one request to the cloud or one   *)
(* access to a cache file; steps of different threads interleave freely    *)
(* except where the code holds a lock.                                     *)
(*                                                                         *)
(* Contents are sets of writes: a write (local or remote) adds a fresh     *)
(* number to the content it is applied to, so a content that contains the  *)
(* number was made from that write.  An etag is the revision of the item   *)
(* together with its content; the code only compares etags.                *)
(***************************************************************************)
EXTENDS FileRecord

CONSTANTS
  Handles,   \* writable file handles that may be open at a time
  Scenarios  \* what a behaviour may do: [seeded: does the file exist, synchronised,
             \* at the start; budget: how often each action that can repeat may happen]

Doc == <<"doc", {}>>
CopyPath(data) == <<"copy", data>>  \* named after the mtime of the copied bytes

\* Cache files: a file of its own per identity, one per download generation.
OwnCache(k) == <<k, 0>>
DownloadCache(k, gen) == <<k, gen + 1>>

VARIABLES
  files, tombs,  \* the database
  disk,          \* cache files: name -> content
  cloud,         \* the drive: item -> [path, etag]
  made,          \* cloud items and local identities created so far
  unseen,        \* items changed since the persisted delta link
  handles,       \* open writable handles
  fuse,          \* the FUSE handler in progress, None between handlers
  task,          \* upload runs, by local identity
  del,           \* deletion runs, by tombstone
  delta,         \* the delta refresh in progress, None if there is none
  writes,        \* history: number of the last write, and those of the other client
  discarded,     \* history: writes given up on purpose (truncation, deletion)
  budget         \* what is left of the scenario's

vars == <<files, tombs, disk, cloud, made, unseen, handles, fuse, task, del, delta,
          writes, discarded, budget>>

Kinds == {"open", "write", "trunc", "create", "unlink", "edit", "remove", "make",
          "fault", "crash"}
ASSUME ScenariosAssumption ==
  \A s \in Scenarios : s.seeded \in BOOLEAN /\ s.budget \in [Kinds -> Nat]

\* NULL is no path, no version, no identity, no cache file, no handler and no entry.
ASSUME NoneAssumption ==
  /\ None \notin {"doc", "copy"} \X SUBSET Nat
  /\ None \notin [rev : Nat, data : SUBSET Nat]
  /\ None \notin {"c", "l"} \X Nat
  /\ None \notin ({"c", "l"} \X Nat) \X Nat
  /\ None \notin [at : {"mark", "claim"}, k : {"c", "l"} \X Nat, c : ({"c", "l"} \X Nat) \X Nat,
                   h : Handles \cup {None}, base : {None} \cup [rev : Nat, data : SUBSET Nat],
                   w : Nat]
  /\ None \notin [id : {"c"} \X Nat, path : {"doc", "copy"} \X SUBSET Nat,
                   etag : [rev : Nat, data : SUBSET Nat]]

Spend(b) == budget[b] > 0 /\ budget' = [budget EXCEPT ![b] = @ - 1]

Empty == [x \in {} |-> None]

NextWrite == writes.last + 1
LocalWrite == writes' = [writes EXCEPT !.last = NextWrite]
RemoteWrite == writes' = [last |-> NextWrite, theirs |-> writes.theirs \cup {NextWrite}]

Etag(rev, data) == [rev |-> rev, data |-> data]
Entry(cl, i) == [id |-> i, path |-> cl[i].path, etag |-> cl[i].etag]
CloudId(n) == <<"c", n>>
LocalIdentity(n) == <<"l", n>>

Init ==
  /\ tombs = Empty /\ unseen = {} /\ handles = Empty /\ fuse = None
  /\ task = Empty /\ del = Empty /\ delta = None
  /\ disk = Empty /\ writes = [last |-> 0, theirs |-> {}] /\ discarded = {}
  /\ \E s \in Scenarios :
       /\ budget = s.budget
       /\ IF s.seeded
            THEN /\ made = 1
                 /\ cloud = With(Empty, CloudId(1), [path |-> Doc, etag |-> Etag(1, {0})])
                 /\ files = With(Empty, CloudId(1), ImportedRow(Entry(cloud, CloudId(1))))
            ELSE made = 0 /\ cloud = Empty /\ files = Empty

-----------------------------------------------------------------------------
(* The cloud                                                               *)

ItemsAt(p) == {i \in DOMAIN cloud : cloud[i].path = p}

\* The item a PUT changes: the one it names, else the one at the path, else a
\* new one (conflictBehavior=replace).
PutTarget(t, p) ==
  IF t # None THEN t
  ELSE IF ItemsAt(p) # {} THEN CHOOSE i \in ItemsAt(p) : TRUE
  ELSE CloudId(made + 1)

Changed(is) ==
  /\ unseen' = unseen \cup is
  /\ delta' = IF delta = None THEN None ELSE [delta EXCEPT !.since = @ \cup is]

Store(i, p, data) ==
  /\ cloud' = IF i \in DOMAIN cloud
                THEN [cloud EXCEPT ![i].etag = Etag(@.rev + 1, data)]
                ELSE With(cloud, i, [path |-> p, etag |-> Etag(1, data)])
  /\ made' = IF i \in DOMAIN cloud THEN made ELSE made + 1
  /\ Changed({i})

Drop(i) ==
  /\ cloud' = Without(cloud, i)
  /\ Changed({i})
  /\ UNCHANGED made

NoRequest == UNCHANGED <<cloud, made, unseen, delta>>

\* Another client of the drive.
RemoteEdit(i) ==
  /\ Spend("edit")
  /\ i \in DOMAIN cloud /\ cloud[i].path = Doc
  /\ RemoteWrite
  /\ Store(i, Doc, cloud[i].etag.data \cup {NextWrite})
  /\ UNCHANGED <<files, tombs, disk, handles, fuse, task, del, discarded>>

RemoteCreate ==
  /\ Spend("make")
  /\ ItemsAt(Doc) = {}
  /\ RemoteWrite
  /\ Store(CloudId(made + 1), Doc, {NextWrite})
  /\ UNCHANGED <<files, tombs, disk, handles, fuse, task, del, discarded>>

RemoteDelete(i) ==
  /\ Spend("remove")
  /\ i \in DOMAIN cloud /\ cloud[i].path = Doc
  /\ discarded' = discarded \cup cloud[i].etag.data
  /\ Drop(i)
  /\ UNCHANGED <<files, tombs, disk, handles, fuse, task, del, writes>>

-----------------------------------------------------------------------------
(* FUSE: handlers run one at a time                                        *)

FuseOnly == fuse = None /\ UNCHANGED <<task, del>>

UploadEtag(r) == IF r.cloud = None THEN None ELSE r.etag

CacheExists(r) == r.cache # None /\ r.cache \in DOMAIN disk

HasExistingCache(r) ==
  CacheExists(r) /\ r.state \in {"cached", "writing", "dirty", "uploading"}

Opened(k, c, base, changed) ==
  [k |-> k, c |-> c, base |-> base, changed |-> changed, unlinked |-> FALSE]

\* open without O_TRUNC of a file whose cache is there.
OpenCached(h) ==
  /\ FuseOnly
  /\ Spend("open")
  /\ h \notin DOMAIN handles
  /\ \E k \in RowAt(files, Doc) :
       /\ HasExistingCache(files[k])
       /\ handles' = With(handles, h, Opened(k, files[k].cache, UploadEtag(files[k]), FALSE))
  /\ NoRequest
  /\ UNCHANGED <<files, tombs, disk, fuse, writes, discarded>>

\* reconcile_cached_record: a cached file of the drive whose length is not the
\* row's is detached (bytes of another version may differ in length).
OpenInvalid ==
  /\ FuseOnly
  /\ Spend("open")
  /\ \E k \in RowAt(files, Doc) :
       /\ files[k].state = "cached" /\ CacheExists(files[k])
       /\ files[k].cloud # None
       /\ files[k].etag # None => disk[files[k].cache] # files[k].etag.data
       /\ files' = [files EXCEPT ![k].state = "online", ![k].cache = None, ![k].gen = @ + 1]
  /\ NoRequest
  /\ UNCHANGED <<tombs, disk, handles, fuse, writes, discarded>>

\* open of an online-only file downloads it first; a version the row does not
\* know is imported instead and the open fails.
OpenOnline(h) ==
  /\ FuseOnly
  /\ Spend("open")
  /\ h \notin DOMAIN handles
  /\ \E k \in RowAt(files, Doc) :
       LET r == files[k]  c == DownloadCache(k, r.gen)
       IN /\ ~ HasExistingCache(r)
          /\ r.state \in {"online", "cached"}
          /\ r.cloud \in DOMAIN cloud
          /\ IF cloud[r.cloud].etag = r.etag
               THEN /\ files' = MarkCached(files, k, c)
                    /\ disk' = With(disk, c, r.etag.data)
                    /\ handles' = With(handles, h, Opened(k, c, UploadEtag(r), FALSE))
               ELSE /\ files' = Upsert([files EXCEPT ![k].state = "online", ![k].cache = None],
                                       tombs, Entry(cloud, r.cloud))
                    /\ UNCHANGED <<disk, handles>>
  /\ NoRequest
  /\ UNCHANGED <<tombs, fuse, writes, discarded>>

\* create of a name that is free.
Create(h) ==
  /\ FuseOnly
  /\ Spend("create")
  /\ h \notin DOMAIN handles
  /\ RowAt(files, Doc) = {}
  /\ made' = made + 1
  /\ LET k == LocalIdentity(made')
         c == OwnCache(k)
     IN /\ files' = With(files, k, LocalRow(Doc, c))
        /\ disk' = With(disk, c, {})
        /\ handles' = With(handles, h, Opened(k, c, None, TRUE))
  /\ UNCHANGED <<tombs, cloud, unseen, delta, fuse, writes, discarded>>

\* The name of the cache file a truncation uses when the row has none.
TruncCache(k) == IF files[k].cache # None THEN files[k].cache ELSE OwnCache(k)

\* open with O_TRUNC, and truncate(path, 0) without a handle (h = None): the
\* bytes go first, the row follows in two more statements.
TruncateBytes(h) ==
  /\ FuseOnly
  /\ Spend("trunc")
  /\ h \notin DOMAIN handles
  /\ LocalWrite
  /\ \E k \in RowAt(files, Doc) :
       LET c == TruncCache(k)
           seen == IF CacheExists(files[k]) THEN disk[c]
                   ELSE IF files[k].etag = None THEN {} ELSE files[k].etag.data
       IN /\ disk' = With(disk, c, seen \cup {NextWrite})
          /\ discarded' = discarded \cup seen
          /\ fuse' = [at |-> "mark", k |-> k, c |-> c, h |-> h, base |-> UploadEtag(files[k]),
                      w |-> NextWrite]
  /\ NoRequest
  /\ UNCHANGED <<files, tombs, handles, task, del>>

TruncateMark ==
  /\ fuse # None /\ fuse.at = "mark"
  /\ files' = MarkCached(files, fuse.k, fuse.c)
  /\ fuse' = [fuse EXCEPT !.at = "claim"]
  /\ NoRequest
  /\ UNCHANGED <<tombs, disk, handles, task, del, writes, discarded, budget>>

TruncateClaim ==
  /\ fuse # None /\ fuse.at = "claim"
  /\ fuse' = None
  /\ IF fuse.k \notin DOMAIN files
       THEN UNCHANGED <<files, handles>>   \* "record disappeared"
       ELSE IF fuse.h = None
              THEN /\ \E s \in {0, 1} : files' = MarkDirty(files, fuse.k, s)
                   /\ UNCHANGED handles
              ELSE /\ files' = MarkState(files, fuse.k, "writing")
                   /\ handles' = With(handles, fuse.h, Opened(fuse.k, fuse.c, fuse.base, TRUE))
  /\ NoRequest
  /\ UNCHANGED <<tombs, disk, task, del, writes, discarded, budget>>

\* write: the first one of a handle claims the baseline it was opened with.
Write(h) ==
  /\ FuseOnly
  /\ Spend("write")
  /\ h \in DOMAIN handles /\ ~ handles[h].unlinked
  /\ LET o == handles[h]
     IN /\ IF o.changed THEN UNCHANGED files
           ELSE /\ o.k \in DOMAIN files
                /\ files[o.k].cache = o.c
                /\ UploadEtag(files[o.k]) = o.base
                /\ CanClaimWrite(files, o.k, files[o.k])
                /\ files' = ClaimWrite(files, o.k)
        /\ LocalWrite
        /\ disk' = [disk EXCEPT ![o.c] = @ \cup {NextWrite}]
        /\ handles' = [handles EXCEPT ![h].changed = TRUE]
  /\ NoRequest
  /\ UNCHANGED <<tombs, fuse, discarded>>

\* release: a handle that changed the file makes the row dirty.  If the row is
\* gone the handler logs the error and the close succeeds.
Release(h) ==
  /\ FuseOnly
  /\ h \in DOMAIN handles
  /\ handles' = Without(handles, h)
  /\ LET o == handles[h]
     IN IF o.changed /\ ~ o.unlinked /\ o.k \in DOMAIN files
          THEN \E s \in {0, 1} : files' = MarkDirty(files, o.k, s)
          ELSE UNCHANGED files
  /\ NoRequest
  /\ UNCHANGED <<tombs, disk, fuse, writes, discarded, budget>>

\* Tasks that hold the upload commit lock between two of their steps.
CommitLocked == \E k \in DOMAIN task : task[k].pc \in {"detach", "import"}

\* Whoever unlinks a file gives up the bytes it has here, the version its row
\* stands for, and what this computer saved in it; not what others wrote unseen.
GivenUp(r) ==
  (IF CacheExists(r) THEN disk[r.cache] ELSE {})
    \cup (IF r.etag # None THEN r.etag.data ELSE {})
    \cup (IF r.cloud \in DOMAIN cloud THEN cloud[r.cloud].etag.data \ writes.theirs ELSE {})

\* unlink, with or without open handles: durable tombstone, row gone.
Unlink ==
  /\ FuseOnly
  /\ Spend("unlink")
  /\ ~ CommitLocked
  /\ \E k \in RowAt(files, Doc) :
       /\ tombs' = QueueDelete(files, tombs, k)
       /\ files' = Without(files, k)
       /\ handles' = [h \in DOMAIN handles |->
                        IF handles[h].k = k THEN [handles[h] EXCEPT !.unlinked = TRUE]
                        ELSE handles[h]]
       /\ discarded' = discarded \cup GivenUp(files[k])
  /\ NoRequest
  /\ UNCHANGED <<disk, fuse, writes>>

-----------------------------------------------------------------------------
(* Upload runs: recover_dirty_record and preserve_conflict_copy            *)

LockOf(d) == IF tombs[d].local = None THEN d ELSE tombs[d].local

\* The item lock of k is held by its upload run or by a deletion run.
ItemLocked(k) == k \in DOMAIN task \/ \E d \in DOMAIN del : del[d].lock = k

Goto(k, t) == task' = With(task, k, t)
Done(k) == task' = Without(task, k)
At(k, at) == k \in DOMAIN task /\ task[k].pc = at
Move(k, at) == Goto(k, [task[k] EXCEPT !.pc = at])
Leave(k, at) == IF at = None THEN Done(k) ELSE Move(k, at)  \* None: the run ends

OnlyTask == UNCHANGED <<handles, fuse, del, disk, writes, discarded>>

\* The item at the path of a file that has none is not the file's to replace if
\* another row owns it or a deletion waits for it.
Taken(k, i) ==
  \/ \E o \in Owners(files, i) : o # k
  \/ \E d \in DOMAIN tombs : tombs[d].cloud = i

\* Read the row, take the item lock and make the checks that need no claim.
StartUpload(k) ==
  /\ k \in DOMAIN files
  /\ files[k].state \in {"dirty", "uploading", "conflict"}
  /\ ~ ItemLocked(k)
  /\ ~ IsPendingDelete(tombs, k, files[k].path)
  /\ CacheExists(files[k])
  /\ files[k].state # "conflict" /\ files[k].cloud = None
       => \A i \in ItemsAt(files[k].path) : ~ Taken(k, i)
  /\ Goto(k, [pc |-> IF files[k].state = "conflict" THEN "claimcopy" ELSE "claim",
              r |-> files[k], p |-> files[k].path, res |-> None, latest |-> None])
  /\ NoRequest /\ OnlyTask
  /\ UNCHANGED <<files, tombs, budget>>

ClaimUpload(k) ==
  /\ At(k, "claim")
  /\ IF CanBeginUpload(files, tombs, k, task[k].r)
       THEN files' = BeginUpload(files, k) /\ Move(k, "put")
       ELSE UNCHANGED files /\ Done(k)
  /\ NoRequest /\ OnlyTask
  /\ UNCHANGED <<tombs, budget>>

\* The request of a run, to item t (None: by path) at path p.  It may fail before
\* it reaches the cloud; its answer may be lost after it was applied, and then a
\* retried If-Match fails on the run's own etag.
Put(k, t, p, acked, failed) ==
  LET i == PutTarget(t, p)  data == disk[task[k].r.cache]
  IN \/ /\ Store(i, p, data)
        /\ \/ /\ Goto(k, [task[k] EXCEPT !.pc = acked, !.res = Entry(cloud', i)])
              /\ UNCHANGED budget
           \/ /\ Spend("fault")
              /\ \/ Leave(k, failed)
                 \/ t # None /\ Move(k, "refused")
     \/ /\ Spend("fault")
        /\ Leave(k, failed)
        /\ NoRequest

\* Slip: the request carries no If-Match.
AcceptsAny(r) == r.cloud = None \/ r.cloud \in DOMAIN cloud

\* The item is still the version the bytes were made from (If-Match).
Accepts(r) ==
  r.cloud = None \/ (r.cloud \in DOMAIN cloud /\ cloud[r.cloud].etag = r.etag)

PutFile(k) ==
  /\ At(k, "put")
  /\ LET r == task[k].r
     IN IF Accepts(r)
          THEN Put(k, r.cloud, r.path, "commit", "failed")
          ELSE /\ Move(k, "refused")   \* HTTP 412, or 404 confirmed by a GET
               /\ NoRequest /\ UNCHANGED budget
  /\ OnlyTask
  /\ UNCHANGED <<files, tombs>>

\* The acknowledgement, under the upload commit lock.
CommitFile(k) ==
  /\ At(k, "commit")
  /\ ~ CommitLocked
  /\ LET t == task[k]
     IN IF DeletesOf(tombs, k) # {}
          THEN tombs' = CompleteDeleted(tombs, k, t.res) /\ UNCHANGED files
        ELSE IF k \notin DOMAIN files
          THEN tombs' = QueueRemoteDelete(files, tombs, t.res.id, t.p) /\ UNCHANGED files
        ELSE /\ files' = CommitUploaded(files, k, t.p, t.res, t.r.cache)
             /\ tombs' = IF files'[k].cloud = t.res.id THEN tombs
                         ELSE QueueRemoteDelete(files', tombs, t.res.id, t.p)
  /\ Done(k)
  /\ NoRequest /\ OnlyTask
  /\ UNCHANGED budget

\* Any other error: the row goes back to dirty, whatever became of it meanwhile.
FailUpload(k) ==
  /\ At(k, "failed")
  /\ files' = IF DeletesOf(tombs, k) # {} THEN files ELSE MarkState(files, k, "dirty")
  /\ Done(k)
  /\ NoRequest /\ OnlyTask
  /\ UNCHANGED <<tombs, budget>>

\* The cloud refused the version or the item is gone.
RefuseUpload(k) ==
  /\ At(k, "refused")
  /\ IF DeletesOf(tombs, k) = {} /\ CanMarkConflict(files, k, task[k].r)
       THEN /\ files' = MarkState(files, k, "conflict")
            /\ Goto(k, [task[k] EXCEPT !.pc = "claimcopy", !.r = files'[k]])
       ELSE UNCHANGED files /\ Done(k)
  /\ NoRequest /\ OnlyTask
  /\ UNCHANGED <<tombs, budget>>

ClaimCopy(k) ==
  /\ At(k, "claimcopy")
  /\ LET r == task[k].r  p == CopyPath(disk[r.cache])
     IN IF CanBeginConflict(files, k, r, r.cache)
          THEN /\ files' = BeginConflict(files, k, p, r.cache)
               /\ Goto(k, [task[k] EXCEPT !.pc = "copy", !.p = p])
          ELSE UNCHANGED files /\ Done(k)
  /\ NoRequest /\ OnlyTask
  /\ UNCHANGED <<tombs, budget>>

\* A copy that could not be stored leaves the row in conflict.
PutCopy(k) ==
  /\ At(k, "copy")
  /\ Put(k, None, task[k].p, "copied", None)
  /\ OnlyTask
  /\ UNCHANGED <<files, tombs>>

\* The copy is stored: ask for the version that won.
AskLatest(k) ==
  /\ At(k, "copied")
  /\ LET t == task[k]
     IN IF DeletesOf(tombs, k) # {}
          THEN /\ tombs' = CompleteDeleted(tombs, k, t.res)
               /\ Done(k)
               /\ UNCHANGED budget
          ELSE /\ UNCHANGED tombs
               /\ \/ /\ Goto(k, [t EXCEPT !.pc = "publish",
                           !.latest = IF t.r.cloud \in DOMAIN cloud THEN Entry(cloud, t.r.cloud)
                                      ELSE None])
                     /\ UNCHANGED budget
                  \/ Spend("fault") /\ Done(k)
  /\ NoRequest /\ OnlyTask
  /\ UNCHANGED files

\* Under the commit lock: give the copy a row that owns the bytes.  An error or a
\* death between the two updates leaves the row without them, and the conflict queued.
PublishCopy(k) ==
  /\ At(k, "publish")
  /\ ~ CommitLocked
  /\ LET t == task[k]
     IN IF DeletesOf(tombs, k) # {}
          THEN /\ tombs' = CompleteDeleted(tombs, k, t.res)
               /\ Done(k)
               /\ UNCHANGED <<files, budget>>
        ELSE IF k \notin DOMAIN files
          THEN /\ tombs' = QueueRemoteDelete(files, tombs, t.res.id, t.p)
               /\ Done(k)
               /\ UNCHANGED <<files, budget>>
        ELSE IF t.latest # None
          THEN /\ UNCHANGED tombs
               /\ \/ /\ files' = MarkCached(Upsert(files, tombs, t.res), t.res.id, t.r.cache)
                     /\ Move(k, "detach")
                     /\ UNCHANGED budget
                  \/ /\ Spend("fault")   \* the row is stored, its bytes are not
                     /\ files' = Upsert(files, tombs, t.res)
                     /\ Done(k)
        ELSE /\ files' = IF CanAdoptCopy(files, t.res, k)
                           THEN CompleteMissing(files, k, t.r, t.res, t.r.cache)
                           ELSE files   \* an error: the conflict stays queued
             /\ Done(k)
             /\ UNCHANGED <<tombs, budget>>
  /\ NoRequest /\ OnlyTask

\* The original gives up its bytes ...
DetachOriginal(k) ==
  /\ At(k, "detach")
  /\ files' = MarkOnlineOnly(files, k)
  /\ Move(k, "import")
  /\ NoRequest /\ OnlyTask
  /\ UNCHANGED <<tombs, budget>>

\* ... and takes the version that won.
ImportLatest(k) ==
  /\ At(k, "import")
  /\ files' = Upsert(files, tombs, task[k].latest)
  /\ Done(k)
  /\ NoRequest /\ OnlyTask
  /\ UNCHANGED <<tombs, budget>>

-----------------------------------------------------------------------------
(* Deletion runs: recover_pending_delete_id                                *)

Caches(d) == {tombs[d].cache, tombs[d].up.cache} \ {None}

\* Shared locks: open handles and upload runs.
InUse(c) ==
  \/ \E h \in DOMAIN handles : handles[h].c = c
  \/ \E k \in DOMAIN task : task[k].r.cache = c

OnlyDel == UNCHANGED <<handles, fuse, task, writes, discarded>>

\* A tombstone whose item a live row has adopted is dropped if it is a cleanup,
\* and left alone otherwise.
DropCleanup(d) ==
  /\ d \in DOMAIN tombs /\ tombs[d].local = None
  /\ ~ ItemLocked(d)
  /\ Owners(files, tombs[d].cloud) # {}
  /\ tombs' = Without(tombs, d)
  /\ NoRequest /\ OnlyDel
  /\ UNCHANGED <<files, disk, del, budget>>

\* An unbound upload whose answer never came is replayed first, to learn its item.
StartDelete(d) ==
  /\ d \in DOMAIN tombs
  /\ ~ ItemLocked(LockOf(d))
  /\ tombs[d].cloud # None => Owners(files, tombs[d].cloud) = {}
  /\ \A c \in Caches(d) : c \in DOMAIN disk => ~ InUse(c)
  /\ LET replay == tombs[d].up.path # None /\ tombs[d].up.target = None
     IN /\ replay => tombs[d].up.cache \in DOMAIN disk
        /\ del' = With(del, d, [pc |-> IF replay THEN "replay" ELSE "remove", lock |-> LockOf(d)])
  /\ NoRequest /\ OnlyDel
  /\ UNCHANGED <<files, tombs, disk, budget>>

Deleting(d, at) == d \in DOMAIN del /\ del[d].pc = at

\* A failed request defers the tombstone; the next run starts over.
GiveUp(d) == Spend("fault") /\ del' = Without(del, d)

Replay(d) ==
  /\ Deleting(d, "replay")
  /\ LET up == tombs[d].up  i == PutTarget(None, up.path)
     IN \/ /\ Store(i, up.path, disk[up.cache])
           /\ \/ /\ tombs' = CompleteDeleted(tombs, tombs[d].local, Entry(cloud', i))
                 /\ del' = [del EXCEPT ![d].pc = "remove"]
                 /\ UNCHANGED budget
              \/ GiveUp(d) /\ UNCHANGED tombs
        \/ GiveUp(d) /\ NoRequest /\ UNCHANGED tombs
  /\ OnlyDel
  /\ UNCHANGED <<files, disk>>

RemoveRemote(d) ==
  /\ Deleting(d, "remove")
  /\ \/ /\ IF tombs[d].cloud \in DOMAIN cloud THEN Drop(tombs[d].cloud) ELSE NoRequest
        /\ \/ del' = [del EXCEPT ![d].pc = "clean"] /\ UNCHANGED budget
           \/ GiveUp(d)
     \/ GiveUp(d) /\ NoRequest
  /\ OnlyDel
  /\ UNCHANGED <<files, tombs, disk>>

\* The cache files go, then the tombstone and with it the barrier on the path.
RetireDelete(d) ==
  /\ Deleting(d, "clean")
  /\ disk' = [c \in DOMAIN disk \ Caches(d) |-> disk[c]]
  /\ tombs' = Without(tombs, d)
  /\ del' = Without(del, d)
  /\ NoRequest /\ OnlyDel
  /\ UNCHANGED <<files, budget>>

-----------------------------------------------------------------------------
(* The delta refresh: sync_delta_metadata                                  *)

OnlyDelta == UNCHANGED <<disk, cloud, made, handles, fuse, task, del, writes, discarded, budget>>

ListDelta ==
  /\ delta = None
  /\ unseen # {}
  /\ delta' = [pc |-> "deleted", since |-> {}, row |-> None, gone |-> unseen \ DOMAIN cloud,
               entries |-> {Entry(cloud, i) : i \in unseen \cap DOMAIN cloud}]
  /\ OnlyDelta
  /\ UNCHANGED <<files, tombs, unseen>>

\* A deleted item: look at the row that owns it ...
CheckDeleted(i) ==
  /\ delta # None /\ delta.pc = "deleted" /\ i \in delta.gone
  /\ LET rows == {k \in Owners(files, i) : files[k].state \notin Protected}
     IN delta' = [delta EXCEPT !.gone = @ \ {i},
                               !.pc = IF rows = {} THEN @ ELSE "remove",
                               !.row = IF rows = {} THEN None ELSE CHOOSE k \in rows : TRUE]
  /\ OnlyDelta
  /\ UNCHANGED <<files, tombs, unseen>>

\* ... and remove it in another transaction.
RemoveRow ==
  /\ delta # None /\ delta.pc = "remove"
  /\ files' = Without(files, delta.row)
  /\ delta' = [delta EXCEPT !.pc = "deleted", !.row = None]
  /\ OnlyDelta
  /\ UNCHANGED <<tombs, unseen>>

\* The table after the entries of a page, one after the other.
Imported(entries) ==
  LET table[es \in SUBSET entries] ==
        IF es = {} THEN files
        ELSE LET e == CHOOSE x \in es : TRUE IN Upsert(table[es \ {e}], tombs, e)
  IN table[entries]

\* upsert_metadata_batch is one transaction.
ImportEntries ==
  /\ delta # None /\ delta.pc = "deleted" /\ delta.gone = {}
  /\ files' = Imported(delta.entries)
  /\ delta' = [delta EXCEPT !.pc = "link"]
  /\ OnlyDelta
  /\ UNCHANGED <<tombs, unseen>>

AdvanceLink ==
  /\ delta # None /\ delta.pc = "link"
  /\ unseen' = delta.since
  /\ delta' = None
  /\ OnlyDelta
  /\ UNCHANGED <<files, tombs>>

-----------------------------------------------------------------------------
(* The process dies and is mounted again: recover_interrupted_writes       *)

Crash ==
  /\ Spend("crash")
  /\ handles' = Empty /\ fuse' = None /\ task' = Empty /\ del' = Empty /\ delta' = None
  /\ \E s \in {0, 1} :
       files' = [k \in DOMAIN files |->
                   IF files[k].state = "writing" /\ CacheExists(files[k])
                     THEN [files[k] EXCEPT !.state = "dirty", !.stamp = s] ELSE files[k]]
  /\ discarded' = discarded \cup {fuse.w : x \in {y \in {0} : fuse # None}}  \* never acknowledged
  /\ UNCHANGED <<tombs, disk, cloud, made, unseen, writes>>

-----------------------------------------------------------------------------

FuseNext ==
  \/ \E h \in Handles : OpenCached(h) \/ OpenOnline(h) \/ Create(h) \/ Write(h) \/ Release(h)
  \/ \E h \in Handles \cup {None} : TruncateBytes(h)
  \/ OpenInvalid \/ TruncateMark \/ TruncateClaim \/ Unlink

UploadStep(k) ==
  \/ StartUpload(k) \/ ClaimUpload(k) \/ PutFile(k) \/ CommitFile(k) \/ FailUpload(k)
  \/ RefuseUpload(k) \/ ClaimCopy(k) \/ PutCopy(k) \/ AskLatest(k) \/ PublishCopy(k)
  \/ DetachOriginal(k) \/ ImportLatest(k)

DeleteStep(d) ==
  DropCleanup(d) \/ StartDelete(d) \/ Replay(d) \/ RemoveRemote(d) \/ RetireDelete(d)

DeltaStep ==
  \/ ListDelta \/ RemoveRow \/ ImportEntries \/ AdvanceLink
  \/ \E i \in unseen : CheckDeleted(i)

RemoteStep ==
  RemoteCreate \/ \E i \in DOMAIN cloud : RemoteEdit(i) \/ RemoteDelete(i)

Next ==
  \/ FuseNext
  \/ \E k \in DOMAIN files \cup DOMAIN task : UploadStep(k)
  \/ \E d \in DOMAIN tombs \cup DOMAIN del : DeleteStep(d)
  \/ DeltaStep
  \/ RemoteStep
  \/ Crash

Spec == Init /\ [][Next]_vars

\* The kernel releases every handle in the end, the handler that is running
\* finishes, and the recovery thread enqueues all unfinished work and refreshes
\* the delta once a minute.  Nothing is assumed of the other client, of failures
\* or of crashes but that the budget bounds them.
Fairness(ids) ==
  /\ \A h \in Handles : WF_vars(Release(h))
  /\ WF_vars(TruncateMark \/ TruncateClaim)
  /\ \A k \in ids : WF_vars(UploadStep(k)) /\ WF_vars(DeleteStep(k))
  /\ WF_vars(DeltaStep)

-----------------------------------------------------------------------------
(* Properties                                                              *)

Contents == SUBSET (0..writes.last)
Items == {CloudId(n) : n \in 1..made}
Locals == Items \cup {LocalIdentity(n) : n \in 1..made}
Etags == {None} \cup [rev : Nat \ {0}, data : Contents]
Paths == {Doc, None} \cup {CopyPath(data) : data \in Contents}
Names == {None} \cup (Locals \X Nat)
Claims == [path : Paths, target : Items \cup {None}, cache : Names]

RowType(r) ==
  /\ r.path \in Paths \ {None} /\ r.state \in Protected \cup {"online", "cached"}
  /\ r.cache \in Names /\ r.cloud \in Items \cup {None} /\ r.etag \in Etags
  /\ r.stamp \in {0, 1} /\ r.up \in Claims /\ r.gen \in Nat

\* Two rows never have the same path or the same item: no statement meets a
\* UNIQUE constraint of the schema, so none of them fails halfway.
OneOwner ==
  \A j, k \in DOMAIN files :
    j # k => files[j].path # files[k].path /\ (files[j].cloud = None \/ files[j].cloud # files[k].cloud)

\* Every table and register holds what the code puts there, and no row stands in
\* another one's place.
TypeOK ==
  /\ DOMAIN files \subseteq Locals /\ \A k \in DOMAIN files : RowType(files[k])
  /\ OneOwner
  /\ DOMAIN tombs \subseteq Locals
  /\ \A d \in DOMAIN tombs :
       /\ tombs[d].local \in Locals \cup {None} /\ tombs[d].cloud \in Items \cup {None}
       /\ tombs[d].path \in Paths /\ tombs[d].done \in Paths /\ tombs[d].up \in Claims
  /\ DOMAIN disk \subseteq Names \ {None} /\ \A c \in DOMAIN disk : disk[c] \in Contents
  /\ DOMAIN cloud \subseteq Items
  /\ \A i \in DOMAIN cloud : cloud[i].path \in Paths \ {None} /\ cloud[i].etag \in Etags \ {None}
  /\ unseen \subseteq Items
  /\ DOMAIN handles \subseteq Handles
  /\ DOMAIN task \subseteq Locals /\ \A k \in DOMAIN task : RowType(task[k].r)
  /\ DOMAIN del \subseteq DOMAIN tombs
  /\ budget \in [Kinds -> Nat] /\ discarded \in Contents

\* The contents a program, the user or another client can still get at.
Reachable ==
  UNION ({cloud[i].etag.data : i \in DOMAIN cloud}
    \cup {disk[files[k].cache] : k \in {j \in DOMAIN files : CacheExists(files[j])}}
    \cup {disk[handles[h].c] : h \in DOMAIN handles}
    \cup {disk[fuse.c] : x \in {y \in {0} : fuse # None}})

\* No write that was acknowledged to a program, here or at another client, is
\* lost unless somebody deleted the file: it is in the cloud, in a cache file
\* that a row names, or in one that is open.
SavedNotLost == (1..writes.last) \subseteq discarded \cup Reachable

ChangedBy(k) == {h \in DOMAIN handles : handles[h].k = k /\ handles[h].changed /\ ~ handles[h].unlinked}

\* A row that claims to be in step with the cloud has the very bytes of its etag,
\* unless a program is writing them now: nothing local is taken for uploaded.
CleanMatchesCloud ==
  \A k \in DOMAIN files :
    files[k].state = "cached" /\ CacheExists(files[k]) /\ ChangedBy(k) = {} /\ fuse = None
      => files[k].etag # None /\ disk[files[k].cache] = files[k].etag.data

\* A row that waits for an upload still has the bytes to upload.
DirtyHasCache ==
  \A k \in DOMAIN files :
    files[k].state \in {"dirty", "uploading", "conflict"} => CacheExists(files[k])

\* A file that a program is still writing is neither queued for upload nor being
\* uploaded.
NoUploadWhileWriting ==
  \A k \in DOMAIN files : files[k].state \in {"dirty", "uploading"} => ChangedBy(k) = {}

\* No request of twodrive replaces a cloud content it has not seen: whatever
\* becomes the content of an item was made from the content it replaces.
NoBlindOverwrite ==
  [][\A i \in DOMAIN cloud \cap DOMAIN cloud' :
       cloud[i].etag.data \subseteq cloud'[i].etag.data]_vars

\* No item disappears from the cloud with contents nobody chose to delete: a
\* replayed upload, a late acknowledgement or a cleanup never takes a bystander.
NoForeignDelete ==
  [][\A i \in DOMAIN cloud \ DOMAIN cloud' : cloud[i].etag.data \subseteq discarded']_vars

\* Nothing is left to upload or to delete ...
Drained ==
  /\ task = Empty /\ del = Empty /\ tombs = Empty
  /\ \A k \in DOMAIN files : files[k].state \in {"online", "cached"}

\* ... and each side has the other's items and versions.
InStep ==
  /\ \A k \in DOMAIN files :
       files[k].cloud \in DOMAIN cloud /\ files[k].etag = cloud[files[k].cloud].etag
  /\ \A i \in DOMAIN cloud : Owners(files, i) # {}

\* Once programs, the other client, failures and crashes stop, no upload, conflict
\* copy or deletion stays queued for ever.
Drains == <>[]Drained

\* ... and everything written, deleted or changed on one side reaches the other.
Converges == <>[](Drained /\ InStep)

\* The refresh is about to pass over a deletion, or a version that neither the row
\* nor a running upload knows, because the row has local bytes ...
Overlooks ==
  /\ delta # None /\ delta.pc = "deleted"
  /\ \/ \E i \in delta.gone : \E k \in Owners(files, i) : files[k].state \in Protected
     \/ /\ delta.gone = {}
        /\ \E e \in delta.entries :
             /\ Skipped(files, tombs, e) /\ ~ IsPendingDelete(tombs, e.id, e.path)
             /\ \A k \in Owners(files, e.id) : files[k].etag # e.etag
             /\ \A k \in DOMAIN task : task[k].res # e

\* ... or a conflict run to import a version that has been replaced meanwhile.
Outdated ==
  \E k \in DOMAIN task :
    /\ task[k].pc = "import"
    /\ LET e == task[k].latest IN e.id \in DOMAIN cloud => e # Entry(cloud, e.id)

\* Unless one of these happens, the two sides agree in the end.
Reconciles == [](~ Overlooks /\ ~ Outdated) => Converges
=============================================================================
