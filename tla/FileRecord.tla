----------------------------- MODULE FileRecord -----------------------------
(***************************************************************************)
(* The statements of twodrive-core's SQLite database that carry the        *)
(* synchronisation of one file, as operators on two tables:                *)
(*   fs  the table files: local identity -> row                            *)
(*   ds  the table pending_deletes: key -> tombstone                       *)
(* Each operator is one transaction of database/{mutations,cache,metadata} *)
(* and returns the table it leaves.  Directories, renames, pins and error  *)
(* rows are not part of this module.                                       *)
(*                                                                         *)
(* A definition under "Slip:" is a wrong version of the one that follows   *)
(* it.  The specification never uses it; it shows what the properties of   *)
(* FileSync can detect.                                                    *)
(***************************************************************************)
EXTENDS Naturals, FiniteSets

CONSTANT None  \* SQL NULL

\* States a delta may not touch: bytes that are, or may be, only local.
Protected == {"writing", "dirty", "uploading", "conflict"}

With(t, k, v) == [x \in DOMAIN t \cup {k} |-> IF x = k THEN v ELSE t[x]]
Without(t, k) == [x \in DOMAIN t \ {k} |-> t[x]]

-----------------------------------------------------------------------------
(* Rows                                                                    *)

\* An upload claim: where the bytes go, the item they replace, the cache file.
Claim(p, t, c) == [path |-> p, target |-> t, cache |-> c]
NoClaim == Claim(None, None, None)

\* create_local_file: a new row is exposed in state writing, bound to no item.
LocalRow(p, c) ==
  [path |-> p, state |-> "writing", cache |-> c, cloud |-> None, etag |-> None,
   stamp |-> 0, up |-> NoClaim, gen |-> 0]

\* What an import inserts for an item not yet known.
ImportedRow(e) ==
  [path |-> e.path, state |-> "online", cache |-> None, cloud |-> e.id,
   etag |-> e.etag, stamp |-> 0, up |-> NoClaim, gen |-> 0]

Owners(fs, i) == {k \in DOMAIN fs : fs[k].cloud = i}
RowAt(fs, p)  == {k \in DOMAIN fs : fs[k].path = p}

\* The row is still the one inspected earlier: the WHERE clause of the
\* compare-and-set statements.  stamp stands for size and mtime.
Unchanged(fs, k, r) ==
  /\ k \in DOMAIN fs
  /\ fs[k].path = r.path
  /\ fs[k].cache = r.cache
  /\ fs[k].cloud = r.cloud
  /\ fs[k].etag = r.etag
  /\ fs[k].stamp = r.stamp

-----------------------------------------------------------------------------
(* Tombstones                                                              *)

\* Slip: the path is closed only by an upload whose answer is known.
BarrierOnceAnswered(ds, p) == \E k \in DOMAIN ds : p = ds[k].done

\* The paths a tombstone keeps closed: the deleted one, the one an upload of the
\* deleted generation goes to, and the one it went to.
Barrier(ds, p) == \E k \in DOMAIN ds : p \in {ds[k].path, ds[k].up.path, ds[k].done}

IsPendingDelete(ds, k, p) ==
  \/ k \in DOMAIN ds
  \/ \E d \in DOMAIN ds : ds[d].cloud = k
  \/ Barrier(ds, p)

DeletesOf(ds, k) == {d \in DOMAIN ds : ds[d].local = k}

\* queue_pending_delete re-reads the row and the claim in its transaction.  A row
\* found uploading without a claim (an older version's) gets one.
Tombstone(fs, k) ==
  LET r == fs[k]
      legacy == r.up.path = None /\ r.state = "uploading"
      path == IF legacy THEN r.path ELSE r.up.path
  IN [local |-> k, cloud |-> r.cloud, path |-> r.path, cache |-> r.cache, done |-> None,
      up |-> Claim(path,
                   IF legacy THEN r.cloud ELSE r.up.target,
                   IF r.up.cache # None \/ path = None THEN r.up.cache ELSE r.cache)]

\* A deletion of the same key that is still queued keeps its acknowledged path.
QueueDelete(fs, ds, k) ==
  With(ds, k, [Tombstone(fs, k) EXCEPT !.done = IF k \in DOMAIN ds THEN ds[k].done ELSE None])

CleanupTask(i, p) ==
  [local |-> None, cloud |-> i, path |-> p, cache |-> None, done |-> None, up |-> NoClaim]

\* queue_remote_delete: the cleanup of an acknowledged but orphaned upload.
QueueRemoteDelete(fs, ds, i, p) ==
  IF Owners(fs, i) # {} THEN ds
  ELSE IF i \in DOMAIN ds
         THEN [ds EXCEPT ![i].cloud = i, ![i].path = p]
         ELSE With(ds, i, CleanupTask(i, p))

\* complete_deleted_upload for a local identity that has a tombstone: a late
\* acknowledgement belongs to the deleted generation.
CompleteDeleted(ds, k, e) ==
  LET settled == [d \in DOMAIN ds |->
        IF ds[d].local # k THEN ds[d]
        ELSE [ds[d] EXCEPT
                !.cloud = IF ds[d].cloud = None THEN e.id ELSE @,
                !.up = Claim(None, None, ds[d].up.cache),
                !.done = e.path]]
  IN IF (\E d \in DeletesOf(ds, k) : ds[d].cloud \notin {None, e.id}) /\ e.id \notin DOMAIN ds
       THEN With(settled, e.id, CleanupTask(e.id, e.path))
       ELSE settled

-----------------------------------------------------------------------------
(* Statements on the state of a row                                        *)

\* An UPDATE whose WHERE names a row that is gone changes nothing.
MarkState(fs, k, s) == IF k \in DOMAIN fs THEN [fs EXCEPT ![k].state = s] ELSE fs

\* begin_cached_write: claim the inspected baseline for a delayed first write.
CanClaimWrite(fs, k, r) == Unchanged(fs, k, r) /\ fs[k].state = r.state
ClaimWrite(fs, k) == MarkState(fs, k, "writing")

\* A cached row that is not pinned; unconditional, as mark_online_only is.
MarkCached(fs, k, c) ==
  IF k \in DOMAIN fs THEN [fs EXCEPT ![k].state = "cached", ![k].cache = c] ELSE fs

\* Slip: the size is stored and the state is not.
MarkSize(fs, k, stamp) == [fs EXCEPT ![k].stamp = stamp]
MarkDirty(fs, k, stamp) == [fs EXCEPT ![k].state = "dirty", ![k].stamp = stamp]

\* Slip: the bytes are detached and the state is kept.
DetachBytes(fs, k) ==
  IF k \in DOMAIN fs THEN [fs EXCEPT ![k].cache = None, ![k].up = NoClaim] ELSE fs

MarkOnlineOnly(fs, k) ==
  IF k \in DOMAIN fs
    THEN [fs EXCEPT ![k].state = "online", ![k].cache = None, ![k].up = NoClaim]
    ELSE fs

\* Slip: a row that was written since it was read is claimed all the same.
CanBeginUploadLate(fs, ds, k, r) ==
  /\ r.state \in {"dirty", "uploading"}
  /\ Unchanged(fs, k, r)
  /\ ~ Barrier(ds, r.path)

CanBeginUpload(fs, ds, k, r) ==
  /\ r.state \in {"dirty", "uploading"}
  /\ Unchanged(fs, k, r)
  /\ fs[k].state = r.state
  /\ ~ Barrier(ds, r.path)

BeginUpload(fs, k) ==
  [fs EXCEPT ![k].state = "uploading",
             ![k].up = Claim(fs[k].path, fs[k].cloud, fs[k].cache)]

\* mark_upload_conflict: only for the very generation that failed.
CanMarkConflict(fs, k, r) == Unchanged(fs, k, r) /\ fs[k].state = "uploading"

CanBeginConflict(fs, k, r, c) ==
  /\ k \in DOMAIN fs
  /\ fs[k].state = "conflict"
  /\ fs[k].path = r.path
  /\ fs[k].cache = c
  /\ fs[k].etag = r.etag

BeginConflict(fs, k, p, c) == [fs EXCEPT ![k].up = Claim(p, None, c)]

\* Slip: an acknowledgement settles whatever the row holds now.
CommitUploadedLate(fs, k, p, e, c) ==
  [fs EXCEPT ![k].up = NoClaim, ![k].cloud = e.id, ![k].etag = e.etag, ![k].state = "cached"]

\* commit_uploaded: the acknowledgement settles the row only if it still is the
\* generation that was claimed; otherwise it only moves the baseline etag.
CommitUploaded(fs, k, p, e, c) ==
  LET r == fs[k]
      current == r.path = p /\ r.state = "uploading" /\ r.cache = c
  IN [fs EXCEPT ![k] =
       [r EXCEPT !.up = NoClaim,
                 !.cloud = IF current \/ @ = None THEN e.id ELSE @,
                 !.etag = IF r.cloud \in {None, e.id} THEN e.etag ELSE @,
                 !.state = IF current THEN "cached" ELSE @]]

-----------------------------------------------------------------------------
(* Imports                                                                 *)

\* The row an entry is about: the one bound to the item, else a new one.
LocalId(fs, e) == IF Owners(fs, e.id) = {} THEN e.id ELSE CHOOSE k \in Owners(fs, e.id) : TRUE

\* Slip: local bytes do not protect their own row.
SkippedDeletes(fs, ds, e) ==
  \/ IsPendingDelete(ds, e.id, e.path)
  \/ \E o \in RowAt(fs, e.path) : o # LocalId(fs, e) /\ fs[o].state \in Protected

\* An entry is skipped while a deletion waits for the item or its path, and when
\* it would replace a row with local bytes.
Skipped(fs, ds, e) ==
  LET k == LocalId(fs, e)
  IN \/ IsPendingDelete(ds, e.id, e.path)
     \/ \E o \in RowAt(fs, e.path) : o # k /\ fs[o].state \in Protected
     \/ k \in DOMAIN fs /\ fs[k].state \in Protected

\* Slip: the new version keeps the bytes of the old one.
UpsertKeepingCache(fs, ds, e) ==
  IF Skipped(fs, ds, e) THEN fs
  ELSE LET k == LocalId(fs, e)
           rest == [o \in DOMAIN fs \ (RowAt(fs, e.path) \ {k}) |-> fs[o]]
       IN With(rest, k, IF k \notin DOMAIN fs THEN ImportedRow(e)
                        ELSE [fs[k] EXCEPT !.path = e.path, !.etag = e.etag, !.cloud = e.id])

\* Slip: another item's row at the path stays.
UpsertBeside(fs, ds, e) ==
  IF Skipped(fs, ds, e) \/ LocalId(fs, e) \in DOMAIN fs THEN fs
  ELSE With(fs, e.id, ImportedRow(e))

\* upsert_metadata of one entry.  A new version detaches the cache of the old one.
Upsert(fs, ds, e) ==
  IF Skipped(fs, ds, e) THEN fs
  ELSE LET k == LocalId(fs, e)
           rest == [o \in DOMAIN fs \ (RowAt(fs, e.path) \ {k}) |-> fs[o]]
       IN IF k \notin DOMAIN fs
            THEN With(rest, k, ImportedRow(e))
          ELSE LET r == fs[k]
                   moved == [r EXCEPT !.path = e.path, !.etag = e.etag, !.cloud = e.id]
               IN With(rest, k,
                    IF r.etag = e.etag THEN moved
                    ELSE [moved EXCEPT !.cache = None, !.state = "online", !.gen = @ + 1])

\* complete_missing_conflict_upload, first part: the copy gets a row with the bytes.
CanAdoptCopy(fs, e, k) ==
  /\ LocalId(fs, e) # k
  /\ IF LocalId(fs, e) \in DOMAIN fs
       THEN fs[LocalId(fs, e)].state \notin Protected
       ELSE RowAt(fs, e.path) = {}   \* UNIQUE(path)

\* ... and the conflicted row goes, if it is the generation that was copied;
\* otherwise it only loses the acknowledged claim.
CompleteMissing(fs, k, r, e, c) ==
  LET j == LocalId(fs, e)
      copy == IF j \in DOMAIN fs
                THEN [fs[j] EXCEPT !.etag = e.etag, !.state = "cached", !.cache = c]
                ELSE [ImportedRow(e) EXCEPT !.state = "cached", !.cache = c]
      adopted == With(fs, j, copy)
      mine == fs[k].up = Claim(e.path, None, c)
  IN IF /\ Unchanged(fs, k, [r EXCEPT !.cache = c, !.path = fs[k].path])
        /\ fs[k].state = "conflict"
        /\ mine
       THEN Without(adopted, k)
       ELSE IF mine THEN [adopted EXCEPT ![k].up = NoClaim] ELSE adopted
=============================================================================
