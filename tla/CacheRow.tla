------------------------------ MODULE CacheRow ------------------------------
(***************************************************************************)
(* The statements of twodrive-core's database that govern the local copy   *)
(* of one cloud file: pins, downloads, releases and the import of a newer  *)
(* version.  r is the file's row; every operator on it is one transaction  *)
(* of database/{cache,pins,metadata}.rs and returns the row it leaves.     *)
(*   state, cache  FileState and cache_path                                *)
(*   etag          the version the row describes (it determines the size)  *)
(*   gen           download_generation                                     *)
(*   release       release_pending                                         *)
(*   pin           pin_explicit (a single file inherits no policy)         *)
(*   fresh         cache_accessed_unix is within the retention             *)
(*   up            upload_cache_path                                       *)
(*                                                                         *)
(* A definition under "Slip:" is a wrong version of the one that follows   *)
(* it, used only to show what the properties can detect.                   *)
(***************************************************************************)
EXTENDS Naturals

CONSTANT None  \* SQL NULL

\* A cache file: one of the item's own, one per download generation, and the
\* partial file of that download.
Own == <<"own", 0>>
Download(g) == <<"download", g>>
Partial(g) == <<"partial", g>>

Saved == {"writing", "dirty", "uploading"}
Protected == Saved \cup {"conflict"}
Clean(r) == r.state \in {"cached", "pinned"}

ImportedRow ==
  [state |-> "online_only", cache |-> None, etag |-> 1, gen |-> 0, release |-> FALSE,
   pin |-> FALSE, fresh |-> FALSE, up |-> None]

-----------------------------------------------------------------------------
(* Pins                                                                    *)

\* set_explicit_pin, first transaction.
SetPin(r, on) == [r EXCEPT !.pin = on]

\* recompute_pin_inheritance, which also follows every import of entries.
Recompute(r) ==
  [r EXCEPT !.release = @ /\ ~r.pin,
            !.state = IF r.state \in Protected THEN @
                      ELSE IF r.cache # None THEN (IF r.pin THEN "pinned" ELSE "cached")
                      ELSE IF r.pin THEN "hydrating" ELSE "online_only"]

-----------------------------------------------------------------------------
(* Downloads                                                               *)

\* Slip: a download that was interrupted is not begun again.
MayBeginOnce(r, g) ==
  /\ r.gen = g
  /\ ~r.release
  /\ r.state \in {"online_only", "cached"}

MayBegin(r, g) ==
  /\ r.gen = g
  /\ ~r.release
  /\ r.state \in {"online_only", "hydrating", "pinned", "cached"}

\* begin_hydration
Begun(r) == [r EXCEPT !.state = IF r.pin THEN "pinned" ELSE "hydrating",
                      !.cache = None, !.fresh = FALSE]

MayFinish(r, g) ==
  /\ r.gen = g
  /\ ~r.release
  /\ r.state \in {"online_only", "hydrating", "pinned"}

\* finish_hydration
Finished(r, g) == [r EXCEPT !.state = IF r.pin THEN "pinned" ELSE "cached",
                            !.cache = Download(g), !.fresh = TRUE]

\* fail_hydration
Failed(r, g) ==
  IF r.gen = g /\ r.state = "hydrating" /\ r.cache = None
    THEN [r EXCEPT !.state = "online_only"] ELSE r

\* invalidate_cached_snapshot, for the row s inspected before.
Invalidated(r, s) ==
  IF Clean(r) /\ r.cache = s.cache /\ r.etag = s.etag
    THEN [r EXCEPT !.cache = None, !.fresh = FALSE, !.gen = @ + 1,
                   !.state = IF r.pin THEN "hydrating" ELSE "online_only"]
    ELSE r

-----------------------------------------------------------------------------
(* Releases                                                                *)

\* Slip: a release only stops the downloads that the row shows.
ReleasedIfHydrating(r) ==
  LET s == IF r.state # "pinned" THEN r.state
           ELSE IF r.cache # None THEN "cached" ELSE "hydrating"
      loading == s = "hydrating" /\ r.cache = None
  IN [r EXCEPT !.pin = FALSE,
               !.gen = IF loading THEN @ + 1 ELSE @,
               !.release = ~(s = "online_only" \/ loading),
               !.state = IF loading THEN "online_only" ELSE s]

\* release_path's transaction: the policy goes, a download is cancelled by its
\* generation, and what cannot go yet is marked.
Released(r) ==
  LET s == IF r.state # "pinned" THEN r.state
           ELSE IF r.cache # None THEN "cached" ELSE "hydrating"
      loading == s = "hydrating" /\ r.cache = None
  IN [r EXCEPT !.pin = FALSE,
               !.gen = @ + 1,
               !.release = ~(s = "online_only" \/ loading),
               !.state = IF loading THEN "online_only" ELSE s]

\* Slip: a save that waits for its upload may go.
MayDropDirty(r) ==
  ~r.pin /\ r.state \in {"cached", "dirty"} /\ (r.cache = None \/ r.up # r.cache)

\* What release_cached_record requires of the row it reads in its transaction.
MayDrop(r) == ~r.pin /\ r.state = "cached" /\ (r.cache = None \/ r.up # r.cache)

Dropped(r) == [r EXCEPT !.state = "online_only", !.cache = None, !.fresh = FALSE,
                        !.release = FALSE]

-----------------------------------------------------------------------------
(* Saves and versions                                                      *)

\* create_overwrite_upload with O_TRUNC: mark_cached, then mark_state.
MarkedCached(r, p) == [r EXCEPT !.state = IF r.pin THEN "pinned" ELSE "cached",
                                !.cache = p, !.fresh = TRUE]
MarkedWriting(r) == [r EXCEPT !.state = "writing"]

\* begin_upload
Uploading(r) == [r EXCEPT !.state = "uploading", !.up = r.cache]

\* commit_uploaded: only the generation that was uploaded becomes clean.
Committed(r, p, e) ==
  IF r.state = "uploading" /\ r.cache = p
    THEN [r EXCEPT !.state = IF r.pin THEN "pinned" ELSE "cached",
                   !.etag = e, !.up = None, !.fresh = TRUE]
    ELSE [r EXCEPT !.etag = e, !.up = None]

\* Slip: the entry replaces the row.
ImportedAnew(r, e) ==
  IF r.state \in Protected \/ r.etag = e THEN r
  ELSE [ImportedRow EXCEPT !.etag = e, !.pin = r.pin]

\* upsert_metadata_entries, for an entry of the same item at the same path.
Imported(r, e) ==
  IF r.state \in Protected \/ r.etag = e THEN r
  ELSE [r EXCEPT !.state = "online_only", !.cache = None, !.fresh = FALSE, !.etag = e,
                 !.gen = @ + 1]

TypeRow(r, versions, paths) ==
  /\ r.state \in {"online_only", "hydrating", "cached", "pinned"} \cup Protected
  /\ r.cache \in paths \cup {None}
  /\ r.up \in paths \cup {None}
  /\ r.etag \in versions
  /\ r.gen \in Nat
  /\ {r.release, r.pin, r.fresh} \subseteq BOOLEAN
=============================================================================
