--------------------------- MODULE HydrationProofs --------------------------
(***************************************************************************)
(* Hydration, for any number of threads, commands, versions and files.     *)
(*                                                                         *)
(* First part: a release is never undone by a download that was asked for  *)
(* before it.  Second part: the types of the row, the files, the cloud's   *)
(* versions and what every thread remembers.  Typed also says what TypeOK  *)
(* leaves out and the steps need: a job's path and generation are ones the *)
(* row has had, a thread that commits an upload has put a version after    *)
(* the one it names.                                                       *)
(*                                                                         *)
(* Third part, what the local copy of a file is worth through saves,       *)
(* releases and crashes: a clean copy has the bytes of its version         *)
(* (CopiesClean), a save that is not in the cloud is on this device        *)
(* (SavesKept), the copy of a pinned file stays (PinnedCopiesKept).  Its   *)
(* inductive invariant Copied ties each thread's memory to the row, the    *)
(* files and the cloud.  It needs two facts of a behaviour that the code   *)
(* does not enforce, Orderly and NotTorn; README.md shows what happens     *)
(* without them.                                                           *)
(***************************************************************************)
EXTENDS Hydration, SequenceTheorems, FiniteSetTheorems, TLAPS

RowFields == {"state", "cache", "etag", "gen", "release", "pin", "fresh", "up"}
JobFields == {"kind", "pc", "gen", "path", "etag", "base", "fd", "locked", "changed", "blocks",
              "era"}

IsRow(r) == DOMAIN r = RowFields /\ r.gen \in Nat
IsJob(j) == DOMAIN j = JobFields /\ j.gen \in Nat

IInv ==
  /\ IsRow(row) /\ era \in Nat
  /\ DOMAIN job = Threads /\ \A t \in Threads : IsJob(job[t])
  /\ AskedSince

\* What a step may do to the generations: a release raises the row's.
Counters ==
  /\ IsRow(row') /\ era' \in Nat
  /\ row'.gen >= row.gen
  /\ row'.gen = row.gen => era' = era

\* What the step of one thread may do to its job.
JobStep(t) ==
  /\ DOMAIN job' = Threads /\ IsJob(job'[t])
  /\ \A u \in Threads \ {t} : job'[u] = job[u]
  /\ job'[t].pc \in Asked =>
       \/ job[t].pc \in Asked /\ job'[t].gen = job[t].gen /\ job'[t].era = job[t].era
       \/ job'[t].gen = row'.gen /\ job'[t].era = era'
  /\ job[t].pc = "publish" /\ job'[t].pc = "got" => job[t].gen = row.gen

\* What both allow keeps the invariant.
LEMMA StepKeeps ==
  ASSUME IInv, Counters, NEW t \in Threads, JobStep(t)
  PROVE  IInv'
  BY DEF IInv, Counters, JobStep, AskedSince, IsRow, IsJob

\* What each statement of the database does to the generation.
LEMMA SameGeneration ==
  ASSUME NEW r, IsRow(r), NEW on, NEW g, NEW p, NEW e
  PROVE  /\ IsRow(SetPin(r, on)) /\ SetPin(r, on).gen = r.gen
         /\ IsRow(Recompute(r)) /\ Recompute(r).gen = r.gen
         /\ IsRow(Begun(r)) /\ Begun(r).gen = r.gen
         /\ IsRow(Finished(r, g)) /\ Finished(r, g).gen = r.gen
         /\ IsRow(Failed(r, g)) /\ Failed(r, g).gen = r.gen
         /\ IsRow(Dropped(r)) /\ Dropped(r).gen = r.gen
         /\ IsRow(MarkedCached(r, p)) /\ MarkedCached(r, p).gen = r.gen
         /\ IsRow(MarkedWriting(r)) /\ MarkedWriting(r).gen = r.gen
         /\ IsRow(Uploading(r)) /\ Uploading(r).gen = r.gen
         /\ IsRow(Committed(r, p, e)) /\ Committed(r, p, e).gen = r.gen
  BY DEF IsRow, RowFields, SetPin, Recompute, Begun, Finished, Failed, Dropped, MarkedCached,
         MarkedWriting, Uploading, Committed

\* An import or an invalidation may raise it, a release does.
LEMMA RaisedGeneration ==
  ASSUME NEW r, IsRow(r), NEW s, NEW e
  PROVE  /\ IsRow(Invalidated(r, s)) /\ Invalidated(r, s).gen >= r.gen
         /\ IsRow(Imported(r, e)) /\ Imported(r, e).gen >= r.gen
         /\ IsRow(Released(r)) /\ Released(r).gen = r.gen + 1
  BY DEF IsRow, RowFields, Invalidated, Imported, Released

\* A step of a download keeps the generation it was asked with.
LEMMA DownloadsStep ==
  ASSUME IInv, NEW t \in Threads, Downloads(t)
  PROVE  Counters /\ JobStep(t)
  <1> USE DEF IInv, Counters, JobStep, IsRow, IsJob, JobFields, Asked, Downloading, history, At
  <1>1. CASE EnterCancelled(t)
    BY <1>1 DEF EnterCancelled, Fails, Idle
  <1>2. CASE UseExisting(t)
    BY <1>2 DEF UseExisting, RowFields
  <1>3. CASE NeedDownload(t)
    BY <1>3 DEF NeedDownload
  <1>4. CASE BeginRefused(t)
    BY <1>4 DEF BeginRefused, Fails, Idle
  <1>5. CASE BeginDownload(t)
    <2>1. row' = Begun(row) /\ era' = era /\ job[t].pc = "begin"
      BY <1>5 DEF BeginDownload
    <2>2. Counters
      BY <2>1, SameGeneration
    <2>3. PICK i : job' = [job EXCEPT ![t].pc = "verify", ![t].fd = i, ![t].blocks = 0]
      BY <1>5 DEF BeginDownload
    <2>4. JobStep(t)
      BY <2>1, <2>3
    <2> QED
      BY <2>2, <2>4
  <1>6. CASE Superseded(t)
    BY <1>6, RaisedGeneration DEF Superseded, Import, Goto
  <1>7. CASE Recomputed(t)
    BY <1>7, SameGeneration DEF Recomputed, Goto
  <1>8. CASE Verified(t)
    BY <1>8 DEF Verified, Goto
  <1>9. CASE Fetch(t)
    BY <1>9 DEF Fetch
  <1>10. CASE Fetched(t)
    BY <1>10 DEF Fetched
  <1>11. CASE FetchStopped(t)
    BY <1>11 DEF FetchStopped
  <1>12. CASE Confirm(t)
    BY <1>12 DEF Confirm, Goto
  <1>13. CASE Publish(t)
    BY <1>13, SameGeneration DEF Publish, Publishable, MayFinish
  <1>14. CASE PublishRefused(t)
    BY <1>14 DEF PublishRefused, Goto
  <1>15. CASE Abandon(t)
    BY <1>15, SameGeneration DEF Abandon, Fails, Idle
  <1> QED
    BY <1>1, <1>2, <1>3, <1>4, <1>5, <1>6, <1>7, <1>8, <1>9, <1>10, <1>11, <1>12, <1>13, <1>14, <1>15 DEF Downloads

\* An open asks with the generation the row has, in the era it has it.
LEMMA OpeningStep ==
  ASSUME IInv, NEW t \in Threads, Opening(t)
  PROVE  Counters /\ JobStep(t)
  <1> USE DEF IInv, Counters, JobStep, IsRow, IsJob, JobFields, Asked, Downloading, history, At
  <1>1. CASE LookInvalid(t)
    BY <1>1 DEF LookInvalid
  <1>2. CASE InvalidateCache(t)
    BY <1>2, RaisedGeneration DEF InvalidateCache, Goto
  <1>3. CASE OpenCached(t)
    BY <1>3 DEF OpenCached, Looked
  <1>4. CASE OpenDeferred(t)
    BY <1>4 DEF OpenDeferred, Looked
  <1>5. CASE FirstRead(t)
    BY <1>5 DEF FirstRead, Goto
  <1>6. CASE ReadGeneration(t)
    BY <1>6 DEF ReadGeneration, Looked
  <1>7. CASE OpenTruncating(t)
    BY <1>7 DEF OpenTruncating, Looked
  <1>8. CASE GotPinned(t)
    BY <1>8 DEF GotPinned, Stop, Idle
  <1>9. CASE GotRead(t)
    <2>1. CASE Exists(job[t].path)
      BY <1>9, <2>1 DEF GotRead
    <2>2. CASE ~Exists(job[t].path)
      <3>1. /\ job' = [job EXCEPT ![t] = [Idle EXCEPT !.kind = "read", !.pc = "held"]]
            /\ UNCHANGED <<row, history>> /\ At(t, "got")
        BY <1>9, <2>2 DEF GotRead, Fails
      <3> QED
        BY <3>1 DEF Idle
    <2> QED
      BY <2>1, <2>2
  <1>10. CASE GotWrite(t)
    BY <1>10 DEF GotWrite
  <1>11. CASE LockRead(t)
    BY <1>11 DEF LockRead
  <1>12. CASE LockWrite(t)
    BY <1>12 DEF LockWrite, Stop, Idle
  <1>13. CASE Cut(t)
    BY <1>13 DEF Cut, Goto
  <1>14. CASE MarkCached(t)
    <2>1. IsRow(row') /\ row'.gen = row.gen
      BY <1>14, SameGeneration DEF MarkCached
    <2> QED
      BY <1>14, <2>1 DEF MarkCached, Goto
  <1>15. CASE MarkWriting(t)
    BY <1>15, SameGeneration DEF MarkWriting
  <1> QED
    BY <1>1, <1>2, <1>3, <1>4, <1>5, <1>6, <1>7, <1>8, <1>9, <1>10, <1>11, <1>12, <1>13, <1>14, <1>15 DEF Opening

\* Programs use and close their handles.
LEMMA HandlingStep ==
  ASSUME IInv, NEW t \in Threads, Handling(t)
  PROVE  Counters /\ JobStep(t)
  <1> USE DEF IInv, Counters, JobStep, IsRow, IsJob, JobFields, Asked, Downloading, history, At
  <1>1. CASE ClaimWrite(t)
    BY <1>1, SameGeneration DEF ClaimWrite
  <1>2. CASE Write(t)
    BY <1>2 DEF Write
  <1>3. CASE CloseWrite(t)
    BY <1>3 DEF CloseWrite, Idle, RowFields
  <1>4. CASE CloseRead(t)
    BY <1>4 DEF CloseRead, Idle
  <1> QED
    BY <1>1, <1>2, <1>3, <1>4 DEF Handling

\* Carrying out a release leaves the generation alone.
LEMMA ReleasingStep ==
  ASSUME IInv, NEW t \in Threads, Releasing(t)
  PROVE  Counters /\ JobStep(t)
  <1> USE DEF IInv, Counters, JobStep, IsRow, IsJob, JobFields, Asked, Downloading, history, At
  <1>1. CASE SweepReleases(t)
    BY <1>1 DEF SweepReleases, Goto, Stop, Idle
  <1>2. CASE DropRecord(t)
    BY <1>2, SameGeneration DEF DropRecord, Stop, Idle
  <1> QED
    BY <1>1, <1>2 DEF Releasing

\* Uploads, imports, pins and reclamation.
LEMMA BackgroundStep ==
  ASSUME IInv, NEW t \in Threads, Background(t)
  PROVE  Counters /\ JobStep(t)
  <1> USE DEF IInv, Counters, JobStep, IsRow, IsJob, JobFields, Asked, Downloading, history, At
  <1>1. CASE KeepPinned(t)
    BY <1>1 DEF KeepPinned, Start
  <1>2. CASE Repin(t)
    BY <1>2, SameGeneration DEF Repin, Goto, Stop, Idle
  <1>3. CASE ListRetired(t)
    BY <1>3 DEF ListRetired
  <1>4. CASE Reclaim(t)
    BY <1>4 DEF Reclaim, Stop, Idle
  <1>5. CASE StartUpload(t)
    BY <1>5, SameGeneration DEF StartUpload
  <1>6. CASE Put(t)
    BY <1>6 DEF Put, Goto
  <1>7. CASE PutRefused(t)
    BY <1>7 DEF PutRefused, Stop, Idle, RowFields
  <1>8. CASE CommitUpload(t)
    BY <1>8, SameGeneration DEF CommitUpload, Idle
  <1>9. CASE ListDelta(t)
    BY <1>9 DEF ListDelta
  <1>10. CASE ImportEntry(t)
    BY <1>10, RaisedGeneration DEF ImportEntry, Import, Goto
  <1> QED
    BY <1>1, <1>2, <1>3, <1>4, <1>5, <1>6, <1>7, <1>8, <1>9, <1>10 DEF Background

\* What programs and users ask for; only a release begins a new era.
LEMMA ProgramStep ==
  ASSUME IInv, NEW t \in Threads, Program(t)
  PROVE  Counters /\ JobStep(t)
  <1> USE DEF IInv, Counters, JobStep, IsRow, IsJob, JobFields, Asked, Downloading, history, At
  <1>1. CASE \E kind \in FuseKinds : OpenFile(t, kind)
    BY <1>1 DEF OpenFile, Start
  <1>2. CASE PinPath(t)
    BY <1>2, SameGeneration DEF PinPath, Start
  <1>3. CASE UnpinPath(t)
    BY <1>3, SameGeneration DEF UnpinPath, Start
  <1>4. CASE SyncPins(t)
    BY <1>4 DEF SyncPins, Start
  <1>5. CASE ReleasePath(t)
    BY <1>5, RaisedGeneration DEF ReleasePath, Start
  <1>6. CASE PruneCache(t)
    BY <1>6 DEF PruneCache, Start
  <1> QED
    BY <1>1, <1>2, <1>3, <1>4, <1>5, <1>6 DEF Program

-----------------------------------------------------------------------------
(* The invariant                                                           *)

LEMMA InitIInv == Init => IInv
  <1> SUFFICES ASSUME Init PROVE IInv
    OBVIOUS
  <1>1. /\ DOMAIN job = Threads
        /\ \A t \in Threads : IsJob(job[t]) /\ job[t].pc \notin Asked
    BY DEF Init, Idle, IsJob, JobFields, Asked, Downloading
  <1>2. IsRow(ImportedRow)
    BY DEF ImportedRow, IsRow, RowFields
  <1>3. \A on : IsRow(Recompute(SetPin(ImportedRow, on)))
    BY <1>2, SameGeneration
  <1>4. IsRow(row)
    BY <1>3, SameGeneration DEF Init
  <1> QED
    BY <1>1, <1>4 DEF Init, IInv, AskedSince

\* A step of one thread.
ThreadStep(t) ==
  \/ Downloads(t) \/ Opening(t) \/ Handling(t) \/ Releasing(t)
  \/ Background(t) \/ Program(t)
  \/ RequestFails(t) \/ KillCommand(t)

LEMMA ThreadStepIsOne ==
  ASSUME IInv, NEW t \in Threads, ThreadStep(t)
  PROVE  Counters /\ JobStep(t)
  <1>1. CASE RequestFails(t)
    BY <1>1 DEF RequestFails, IInv, Counters, JobStep, IsRow, IsJob, JobFields, Asked, Downloading,
                history, At
  <1>2. CASE KillCommand(t)
    BY <1>2 DEF KillCommand, Stop, Idle, IInv, Counters, JobStep, IsRow, IsJob, JobFields, Asked,
                Downloading, history, At
  <1> QED
    BY <1>1, <1>2, DownloadsStep, OpeningStep, HandlingStep, ReleasingStep, BackgroundStep,
       ProgramStep DEF ThreadStep

\* The steps that belong to no thread keep the jobs or stop them.
WorldStep == RecomputePins \/ RemoteEdit \/ Age \/ Restart

LEMMA WorldStepKeeps ==
  ASSUME IInv, WorldStep
  PROVE  /\ Counters
         /\ DOMAIN job' = Threads
         /\ \A t \in Threads : job'[t] = job[t] \/ job'[t] = Idle
  <1> USE DEF IInv, Counters, history
  <1>1. CASE RecomputePins
    BY <1>1, SameGeneration DEF RecomputePins, IsRow
  <1>2. CASE RemoteEdit
    BY <1>2 DEF RemoteEdit, IsRow
  <1>3. CASE Age
    BY <1>3 DEF Age, IsRow, RowFields
  <1>4. CASE Restart
    <2>1. PICK saved : /\ saved = row \/ saved = [row EXCEPT !.state = "dirty"]
                       /\ row' = Dropped(saved) \/ row' = saved
      BY <1>4 DEF Restart
    <2>2. IsRow(saved) /\ saved.gen = row.gen
      BY <2>1 DEF IsRow, RowFields
    <2>3. IsRow(row') /\ row'.gen = row.gen
      BY <2>1, <2>2, SameGeneration
    <2> QED
      BY <1>4, <2>3 DEF Restart, IsRow
  <1> QED
    BY <1>1, <1>2, <1>3, <1>4 DEF WorldStep

LEMMA NextIInv == IInv /\ [Next]_vars => IInv'
  <1> SUFFICES ASSUME IInv, [Next]_vars PROVE IInv'
    OBVIOUS
  <1>1. CASE \E t \in Threads : ThreadStep(t)
    BY <1>1, ThreadStepIsOne, StepKeeps
  <1>2. CASE WorldStep
    <2>1. IsJob(Idle) /\ Idle.pc \notin Asked
      BY DEF Idle, IsJob, JobFields, Asked, Downloading
    <2> QED
      BY <1>2, <2>1, WorldStepKeeps DEF IInv, Counters, AskedSince, IsRow, IsJob
  <1>3. CASE UNCHANGED vars
    BY <1>3 DEF vars, history, IInv, AskedSince, IsRow, IsJob
  <1> QED
    BY <1>1, <1>2, <1>3 DEF Next, ThreadStep, WorldStep

\* The strengthened invariant holds throughout: rows and jobs keep their fields and
\* their generations stay numbers (cache.rs:113-119).
THEOREM Invariance == Spec => []IInv
  BY InitIInv, NextIInv, PTL DEF Spec

\* A download that still holds the row's generation was asked for after the last
\* release, however many threads and commands there are (cache.rs:424).
THEOREM GenerationsOrdered == Spec => []AskedSince
  BY Invariance, PTL DEF IInv

\* Only a download that was asked for after the last release is ever published
\* (hydration.rs:124-135, cache.rs:208-242).
THEOREM ReleasesWin == Spec => ReleaseWins
  <1>1. IInv /\ [Next]_vars =>
          [\A t \in Threads : At(t, "publish") /\ job'[t].pc = "got" => job[t].era = era]_vars
    <2> SUFFICES ASSUME IInv, Next, NEW t \in Threads, At(t, "publish"), job'[t].pc = "got"
                 PROVE  job[t].era = era
      OBVIOUS
    <2>1. CASE \E u \in Threads : ThreadStep(u)
      <3>1. PICK u \in Threads : ThreadStep(u)
        BY <2>1
      <3>2. JobStep(u)
        BY <3>1, ThreadStepIsOne
      <3>3. u = t /\ job[t].gen = row.gen
        BY <3>2 DEF JobStep, At
      <3> QED
        BY <3>3 DEF IInv, AskedSince, Asked, Downloading, At
    <2>2. CASE WorldStep
      BY <2>2, WorldStepKeeps DEF At, Idle
    <2> QED
      BY <2>1, <2>2 DEF Next, ThreadStep, WorldStep
  <1> QED
    BY <1>1, Invariance, PTL DEF Spec, ReleaseWins

-----------------------------------------------------------------------------
(* Types                                                                   *)

Contents == Seq(Nat)

RowTyped(r, latest, paths) == DOMAIN r = RowFields /\ TypeRow(r, 1..latest, paths)

JobTyped(t) ==
  LET j == job[t]
  IN /\ DOMAIN j = JobFields
     /\ j.gen \in 0..row.gen /\ j.etag \in 0..Latest /\ j.base \in Nat /\ j.blocks \in Nat
     /\ j.path \in Paths \cup {None} /\ j.fd \in Inodes \cup {None}
     /\ {j.locked, j.changed} \subseteq BOOLEAN
     /\ j.pc = "got" => j.path \in Paths
     /\ j.pc = "import" => j.etag >= 1
     /\ j.pc = "commit" => j.etag < Latest

FilesTyped ==
  /\ retired \subseteq Paths /\ DOMAIN dir \subseteq Paths
  /\ \A p \in DOMAIN dir : dir[p] \in Inodes
  /\ data \in [Inodes -> Contents]

CloudTyped == body \in Seq(Contents) /\ Latest >= 1 /\ stamp \in Nat

Typed ==
  /\ RowTyped(row, Latest, Paths) /\ FilesTyped /\ CloudTyped
  /\ budget \in [Kinds -> Nat]
  /\ DOMAIN job = Threads /\ \A t \in Threads : JobTyped(t)

-----------------------------------------------------------------------------
(* The operators.                                                          *)

LEMMA RowOperators ==
  ASSUME NEW latest \in Nat, NEW paths, NEW r, RowTyped(r, latest, paths)
  PROVE  /\ RowTyped(Recompute(r), latest, paths) /\ Recompute(r).gen = r.gen
         /\ RowTyped(Begun(r), latest, paths) /\ Begun(r).gen = r.gen
         /\ RowTyped(Dropped(r), latest, paths) /\ Dropped(r).gen = r.gen
         /\ RowTyped(MarkedWriting(r), latest, paths) /\ MarkedWriting(r).gen = r.gen
         /\ RowTyped(Uploading(r), latest, paths) /\ Uploading(r).gen = r.gen
  BY DEF RowTyped, RowFields, TypeRow, Protected, Saved, Recompute, Begun, Dropped, MarkedWriting,
         Uploading

LEMMA RowSetPin ==
  ASSUME NEW latest \in Nat, NEW paths, NEW r, RowTyped(r, latest, paths)
  PROVE  /\ RowTyped(SetPin(r, TRUE), latest, paths) /\ SetPin(r, TRUE).gen = r.gen
         /\ RowTyped(SetPin(r, FALSE), latest, paths) /\ SetPin(r, FALSE).gen = r.gen
  BY DEF RowTyped, RowFields, TypeRow, Protected, Saved, SetPin

LEMMA RowDownload ==
  ASSUME NEW latest \in Nat, NEW paths, NEW r, RowTyped(r, latest, paths), NEW g
  PROVE  /\ Download(g) \in paths => RowTyped(Finished(r, g), latest, paths)
         /\ Finished(r, g).gen = r.gen
         /\ RowTyped(Failed(r, g), latest, paths) /\ Failed(r, g).gen = r.gen
  BY DEF RowTyped, RowFields, TypeRow, Protected, Saved, Finished, Failed

LEMMA RowMarked ==
  ASSUME NEW latest \in Nat, NEW paths, NEW r, RowTyped(r, latest, paths),
         NEW p \in paths \cup {None}
  PROVE  RowTyped(MarkedCached(r, p), latest, paths) /\ MarkedCached(r, p).gen = r.gen
  BY DEF RowTyped, RowFields, TypeRow, Protected, Saved, MarkedCached

LEMMA RowCommitted ==
  ASSUME NEW latest \in Nat, NEW paths, NEW r, RowTyped(r, latest, paths),
         NEW p, NEW e \in 1..latest
  PROVE  RowTyped(Committed(r, p, e), latest, paths) /\ Committed(r, p, e).gen = r.gen
  BY DEF RowTyped, RowFields, TypeRow, Protected, Saved, Committed

LEMMA RowGenerations ==
  ASSUME NEW latest \in Nat, NEW paths, NEW r, RowTyped(r, latest, paths), NEW s,
         NEW e \in 1..latest
  PROVE  /\ RowTyped(Invalidated(r, s), latest, paths)
         /\ RowTyped(Imported(r, e), latest, paths)
         /\ RowTyped(Released(r), latest, paths)
  <1> USE DEF RowTyped, RowFields, TypeRow, Protected, Saved
  <1>1. RowTyped(Invalidated(r, s), latest, paths)
    <2> DEFINE v == [r EXCEPT !.cache = None, !.fresh = FALSE, !.gen = r.gen + 1,
                              !.state = IF r.pin THEN "hydrating" ELSE "online_only"]
    <2>1. RowTyped(v, latest, paths)
      OBVIOUS
    <2>2. Invalidated(r, s) \in {v, r}
      BY DEF Invalidated
    <2> HIDE DEF v
    <2> QED
      BY <2>1, <2>2
  <1>2. RowTyped(Imported(r, e), latest, paths)
    <2> DEFINE v == [r EXCEPT !.state = "online_only", !.cache = None, !.fresh = FALSE,
                              !.etag = e, !.gen = r.gen + 1]
    <2>1. RowTyped(v, latest, paths)
      OBVIOUS
    <2>2. Imported(r, e) \in {v, r}
      BY DEF Imported
    <2> HIDE DEF v
    <2> QED
      BY <2>1, <2>2
  <1>3. RowTyped(Released(r), latest, paths)
    <2> DEFINE s1 == IF r.state # "pinned" THEN r.state
                     ELSE IF r.cache # None THEN "cached" ELSE "hydrating"
               loading == s1 = "hydrating" /\ r.cache = None
               s2 == IF loading THEN "online_only" ELSE s1
               kept == ~(s1 = "online_only" \/ loading)
    <2>1. Released(r) = [r EXCEPT !.pin = FALSE, !.gen = r.gen + 1, !.release = kept, !.state = s2]
      BY DEF Released
    <2>2. kept \in BOOLEAN
      OBVIOUS
    <2>3. s2 \in {"online_only", "hydrating", "cached", "pinned"} \cup Protected
      OBVIOUS
    <2> HIDE DEF kept, s2
    <2> QED
      BY <2>1, <2>2, <2>3
  <1> QED
    BY <1>1, <1>2, <1>3

LEMMA MaxOfTwo ==
  ASSUME NEW a \in Nat, NEW b \in Nat
  PROVE  Max({a, b}) = IF a >= b THEN a ELSE b
  <1> DEFINE m == IF a >= b THEN a ELSE b
  <1>1. m \in {a, b} /\ \A y \in {a, b} : m >= y
    OBVIOUS
  <1>2. \A x \in {a, b} : (\A y \in {a, b} : x >= y) => x = m
    OBVIOUS
  <1> QED
    BY <1>1, <1>2 DEF Max

\* A write of one block: the blocks it does not touch stay.
LEMMA WriteAtIs ==
  ASSUME NEW s \in Contents, NEW k \in Nat \ {0}, NEW v \in Nat
  PROVE  /\ WriteAt(s, k, v) \in Contents
         /\ Len(WriteAt(s, k, v)) = IF Len(s) >= k THEN Len(s) ELSE k
         /\ WriteAt(s, k, v)[k] = v
         /\ \A n \in 1..Len(s) : n # k => WriteAt(s, k, v)[n] = s[n]
  <1> DEFINE m == IF Len(s) >= k THEN Len(s) ELSE k
             w == [n \in 1..m |-> IF n = k THEN v ELSE IF n <= Len(s) THEN s[n] ELSE Hole]
  <1>1. Len(s) \in Nat /\ s \in [1..Len(s) -> Nat]
    BY LenProperties DEF Contents
  <1>2. WriteAt(s, k, v) = w
    BY <1>1, MaxOfTwo DEF WriteAt
  <1>3. m \in Nat /\ w \in [1..m -> Nat]
    BY <1>1 DEF Hole
  <1>4. w \in Seq(Nat) /\ Len(w) = m
    BY <1>3
  <1> HIDE DEF w
  <1> QED
    BY <1>1, <1>2, <1>4 DEF w, Contents

-----------------------------------------------------------------------------
(* Types.                                                                  *)

\* The numbers that only grow.
Grown == row'.gen \in Nat /\ row'.gen >= row.gen /\ Latest' \in Nat /\ Latest' >= Latest

LEMMA Growth ==
  ASSUME Typed, Grown
  PROVE  /\ Paths \subseteq Paths'
         /\ RowTyped(row, Latest', Paths')
         /\ \A t \in Threads : job'[t] = job[t] => JobTyped(t)'
         /\ row'.gen = row.gen => Paths' = Paths
  <1> USE DEF Typed, Grown, RowTyped, TypeRow
  <1>1. Paths \subseteq Paths'
    BY DEF Paths
  <1>3. row'.gen = row.gen => Paths' = Paths
    BY DEF Paths
  <1>4. Latest \in Nat
    BY DEF CloudTyped, Latest
  <1>2. ASSUME NEW t \in Threads, job'[t] = job[t] PROVE JobTyped(t)'
    <2>1. JobTyped(t)
      OBVIOUS
    <2> QED
      BY <1>1, <1>2, <1>4, <2>1 DEF JobTyped
  <1>5. RowTyped(row, Latest', Paths')
    BY <1>1, <1>4
  <1> QED
    BY <1>1, <1>2, <1>3, <1>5

LEMMA SpendTyped ==
  ASSUME budget \in [Kinds -> Nat], NEW b \in Kinds, Spend(b)
  PROVE  /\ budget' \in [Kinds -> Nat] /\ budget'[b] < budget[b]
         /\ \A k \in Kinds : budget'[k] <= budget[k]
  BY DEF Spend

StepTyped(t) ==
  /\ RowTyped(row', Latest', Paths') /\ FilesTyped' /\ CloudTyped' /\ Grown
  /\ budget' \in [Kinds -> Nat]
  /\ DOMAIN job' = Threads /\ JobTyped(t)'
  /\ \A u \in Threads \ {t} : job'[u] = job[u]

LEMMA StepKeepsTypes ==
  ASSUME Typed, NEW t \in Threads, StepTyped(t)
  PROVE  Typed'
  BY Growth DEF Typed, StepTyped

\* A step that only moves a job.
LEMMA QuietTyped ==
  ASSUME Typed, UNCHANGED <<row, store, body, stamp>>
  PROVE  /\ RowTyped(row', Latest', Paths') /\ FilesTyped' /\ CloudTyped' /\ Grown
         /\ Paths' = Paths /\ Latest' = Latest
  BY DEF Typed, RowTyped, TypeRow, FilesTyped, CloudTyped, Grown, Paths, store, Latest

Special == {"got", "import", "commit"}

\* What is left of a job that ends or goes on without its record.
Resting(kind, pc) == [Idle EXCEPT !.kind = kind, !.pc = pc]

LEMMA RestTyped ==
  ASSUME Typed, Grown, NEW t \in Threads, NEW kind, NEW pc, pc \notin Special,
         job'[t] \in {Idle, Resting(kind, pc)}
  PROVE  JobTyped(t)'
  <1>1. 0 \in 0..row'.gen /\ 0 \in 0..Latest'
    BY DEF Grown
  <1>2. CASE job'[t] = Idle
    BY <1>1, <1>2 DEF JobTyped, JobFields, Idle
  <1>3. CASE job'[t] = Resting(kind, pc)
    BY <1>1, <1>3 DEF JobTyped, JobFields, Idle, Special, Resting
  <1> QED
    BY <1>2, <1>3

\* What both leave of a job that is replaced as a whole.
LEMMA OneJob ==
  ASSUME Typed, NEW t \in Threads, NEW j, job' = [job EXCEPT ![t] = j]
  PROVE  DOMAIN job' = Threads /\ job'[t] = j /\ \A u \in Threads \ {t} : job'[u] = job[u]
  BY DEF Typed

LEMMA FailsTyped ==
  ASSUME Typed, Grown, NEW t \in Threads, Fails(t)
  PROVE  /\ DOMAIN job' = Threads /\ \A u \in Threads \ {t} : job'[u] = job[u]
         /\ JobTyped(t)'
  <1>1. PICK j \in {Idle, Resting("read", "held")} : job' = [job EXCEPT ![t] = j]
    BY DEF Fails, Resting
  <1>2. job'[t] \in {Idle, Resting("read", "held")}
    BY <1>1, OneJob
  <1>3. "held" \notin Special
    BY DEF Special
  <1> QED
    BY <1>1, <1>2, <1>3, OneJob, RestTyped

LEMMA GotoTyped ==
  ASSUME Typed, Grown, NEW t \in Threads, NEW pc, pc \notin Special, Goto(t, pc)
  PROVE  /\ DOMAIN job' = Threads /\ \A u \in Threads \ {t} : job'[u] = job[u]
         /\ JobTyped(t)'
  <1>1. job'[t] = [job[t] EXCEPT !.pc = pc]
    BY DEF Goto, Typed
  <1>2. /\ JobTyped(t) /\ Paths \subseteq Paths'
        /\ job[t].gen \in 0..row'.gen /\ job[t].etag \in 0..Latest'
    BY Growth DEF Typed, JobTyped, RowTyped, TypeRow, Grown, CloudTyped, Latest
  <1>3. JobTyped(t)'
    BY <1>1, <1>2 DEF JobTyped, JobFields, Special
  <1> QED
    BY <1>3 DEF Goto, Typed

LEMMA StopTyped ==
  ASSUME Typed, Grown, NEW t \in Threads, Stop(t)
  PROVE  /\ DOMAIN job' = Threads /\ \A u \in Threads \ {t} : job'[u] = job[u]
         /\ JobTyped(t)'
  <1>1. job'[t] = Idle /\ "idle" \notin Special
    BY OneJob DEF Stop, Special
  <1> QED
    BY <1>1, OneJob, RestTyped DEF Stop

LEMMA QuietDownloads ==
  ASSUME Typed, NEW t \in Threads,
         \/ EnterCancelled(t) \/ NeedDownload(t) \/ BeginRefused(t) \/ Verified(t)
         \/ Fetched(t) \/ FetchStopped(t) \/ Confirm(t) \/ PublishRefused(t) \/ RequestFails(t)
  PROVE  StepTyped(t)
  <1>1. UNCHANGED <<row, store, body, stamp>>
    BY DEF EnterCancelled, NeedDownload, BeginRefused, Verified, Fetched, FetchStopped, Confirm,
           PublishRefused, RequestFails, history
  <1>2. budget' \in [Kinds -> Nat]
    BY SpendTyped DEF EnterCancelled, NeedDownload, BeginRefused, Verified, Fetched, FetchStopped,
           Confirm, PublishRefused, RequestFails, Free, Typed, Kinds
  <1>3. Grown
    BY <1>1, QuietTyped
  <1>4. /\ DOMAIN job' = Threads /\ \A u \in Threads \ {t} : job'[u] = job[u]
        /\ JobTyped(t)'
    <2> USE <1>1, <1>3
    <2>1. CASE EnterCancelled(t) \/ BeginRefused(t)
      BY <2>1, FailsTyped DEF EnterCancelled, BeginRefused
    <2>2. CASE Verified(t) \/ Confirm(t) \/ PublishRefused(t)
      BY <2>2, GotoTyped DEF Verified, Confirm, PublishRefused, Special
    <2>3. CASE NeedDownload(t)
      BY <2>3, QuietTyped DEF NeedDownload, Typed, RowTyped, TypeRow, JobTyped, JobFields
    <2>4. CASE Fetched(t) \/ FetchStopped(t) \/ RequestFails(t)
      BY <2>4, QuietTyped DEF Fetched, FetchStopped, RequestFails, Typed, JobTyped, JobFields
    <2> QED
      BY <2>1, <2>2, <2>3, <2>4
  <1> QED
    BY <1>1, <1>2, <1>3, <1>4, QuietTyped DEF StepTyped

\* A step that changes the row.
LEMMA RowChangeTyped ==
  ASSUME Typed, UNCHANGED <<body, stamp, data>>, row'.gen \in Nat, row'.gen >= row.gen,
         RowTyped(row', Latest, Paths), retired' \subseteq Paths, DOMAIN dir' \subseteq Paths,
         \A p \in DOMAIN dir' : dir'[p] \in Inodes
  PROVE  RowTyped(row', Latest', Paths') /\ FilesTyped' /\ CloudTyped' /\ Grown
  <1>1. Grown /\ Latest' = Latest
    BY DEF Grown, Typed, CloudTyped, Latest
  <1>2. Paths \subseteq Paths'
    BY <1>1, Growth
  <1>3. RowTyped(row', Latest', Paths')
    BY <1>1, <1>2 DEF RowTyped, TypeRow
  <1> QED
    BY <1>1, <1>2, <1>3 DEF FilesTyped, CloudTyped, Typed, Latest

\* What every operator on the row needs to know of it.
LEMMA RowIs ==
  ASSUME Typed
  PROVE  /\ IsRow(row) /\ RowTyped(row, Latest, Paths) /\ Latest \in Nat /\ Latest \in 1..Latest
         /\ \A g \in 0..row.gen : Download(g) \in Paths /\ Partial(g) \in Paths
         /\ Own \in Paths
  BY DEF Typed, RowTyped, TypeRow, IsRow, CloudTyped, Latest, Paths

\* The files a step leaves alone.
LEMMA FilesStay ==
  ASSUME Typed, UNCHANGED <<retired, dir>>
  PROVE  /\ retired' \subseteq Paths /\ DOMAIN dir' \subseteq Paths
         /\ \A p \in DOMAIN dir' : dir'[p] \in Inodes
  BY DEF Typed, FilesTyped

\* A name that is removed.
LEMMA FileGone ==
  ASSUME Typed, NEW p, dir' = Without(dir, p)
  PROVE  /\ DOMAIN dir' = DOMAIN dir \ {p} /\ DOMAIN dir' \subseteq Paths
         /\ \A q \in DOMAIN dir' : dir'[q] = dir[q] /\ dir'[q] \in Inodes
  BY DEF Typed, FilesTyped, Without

\* A name that leads to another file than before.
LEMMA FileNamed ==
  ASSUME Typed, NEW p \in Paths, NEW i \in Inodes, dir' = With(dir, p, i)
  PROVE  /\ DOMAIN dir' = DOMAIN dir \cup {p} /\ DOMAIN dir' \subseteq Paths /\ dir'[p] = i
         /\ \A q \in DOMAIN dir : q # p => dir'[q] = dir[q]
         /\ \A q \in DOMAIN dir' : dir'[q] \in Inodes
  BY DEF Typed, FilesTyped, With

\* The file that an open leads to.
LEMMA OpenedIs ==
  ASSUME Typed, NEW p, CanOpen(p)
  PROVE  /\ Opened(p) \in Inodes
         /\ Exists(p) => Opened(p) = dir[p]
         /\ ~Exists(p) => /\ \A q \in DOMAIN dir : dir[q] # Opened(p)
                          /\ \A t \in Threads : job[t].fd # Opened(p)
  <1>1. CASE Exists(p)
    BY <1>1 DEF Opened, Exists, Typed, FilesTyped
  <1>2. CASE ~Exists(p)
    <2>1. Opened(p) \in FreeInodes
      BY <1>2 DEF Opened, CanOpen
    <2> QED
      BY <1>2, <2>1 DEF FreeInodes
  <1> QED
    BY <1>1, <1>2

LEMMA EmptyIsContents == <<>> \in Contents /\ Len(<<>>) = 0
  BY EmptySeq DEF Contents

LEMMA DownloadsTyped ==
  ASSUME Typed, NEW t \in Threads, Downloads(t)
  PROVE  StepTyped(t)
  <1> USE RowIs DEF Free, history, At
  <1>j. JobTyped(t) /\ job[t].gen \in 0..row.gen
    BY DEF Typed, JobTyped
  <1>1. CASE UseExisting(t)
    <2>1. RowTyped(row', Latest, Paths) /\ row'.gen = row.gen
      BY <1>1 DEF UseExisting, RowTyped, RowFields, TypeRow
    <2>2. RowTyped(row', Latest', Paths') /\ FilesTyped' /\ CloudTyped' /\ Grown /\ Paths' = Paths
          /\ Latest' = Latest
      BY <1>1, <2>1, RowChangeTyped, FilesStay, Growth DEF UseExisting, store, IsRow, Latest
    <2>3. row.cache \in Paths
      BY <1>1 DEF UseExisting, HasExistingCache, RowTyped, TypeRow
    <2>4. JobTyped(t)'
      BY <1>1, <1>j, <2>1, <2>2, <2>3 DEF UseExisting, JobTyped, JobFields, Typed
    <2> QED
      BY <1>1, <2>2, <2>4 DEF UseExisting, StepTyped, Typed
  <1>2. CASE BeginDownload(t)
    <2> DEFINE p == Partial(job[t].gen)
               i == Opened(p)
    <2>1. /\ row' = Begun(row) /\ CanOpen(p) /\ dir' = With(dir, p, i)
          /\ data' = [data EXCEPT ![i] = <<>>]
          /\ job' = [job EXCEPT ![t].pc = "verify", ![t].fd = i, ![t].blocks = 0]
          /\ UNCHANGED <<retired, body, stamp, budget>>
      BY <1>2 DEF BeginDownload
    <2>2. p \in Paths /\ i \in Inodes
      BY <1>j, <2>1, OpenedIs
    <2> HIDE DEF p, i
    <2>3. RowTyped(row', Latest, Paths) /\ row'.gen = row.gen
      BY <2>1, RowOperators
    <2>4. data' \in [Inodes -> Contents]
      BY <2>1, EmptyIsContents DEF Typed, FilesTyped
    <2>5. Grown /\ Paths' = Paths /\ Latest' = Latest
      BY <2>1, <2>3, Growth DEF Grown, Latest, IsRow
    <2>6. FilesTyped' /\ CloudTyped' /\ RowTyped(row', Latest', Paths')
      BY <2>1, <2>2, <2>3, <2>4, <2>5, FileNamed DEF FilesTyped, CloudTyped, Typed
    <2>7. JobTyped(t)'
      BY <1>j, <2>1, <2>2, <2>3, <2>5 DEF JobTyped, JobFields, Typed
    <2> QED
      BY <2>1, <2>5, <2>6, <2>7 DEF StepTyped, Typed
  <1>3. CASE Superseded(t)
    <2>1. /\ row' = Imported(row, Latest) /\ Goto(t, "upserted")
          /\ retired' \in {retired, retired \cup {row.cache}}
          /\ retired' # retired => row.cache # None
          /\ UNCHANGED <<dir, data, body, stamp, budget>>
      BY <1>3 DEF Superseded, Import
    <2>2. RowTyped(row', Latest, Paths) /\ row'.gen \in Nat /\ row'.gen >= row.gen
      BY <2>1, RowGenerations, RaisedGeneration DEF IsRow
    <2>3. retired' \subseteq Paths
      BY <2>1 DEF Typed, FilesTyped, RowTyped, TypeRow
    <2>4. RowTyped(row', Latest', Paths') /\ FilesTyped' /\ CloudTyped' /\ Grown
      BY <2>1, <2>2, <2>3, RowChangeTyped DEF Typed, FilesTyped
    <2> QED
      BY <2>1, <2>4, GotoTyped DEF StepTyped, Typed, Special
  <1>4. CASE Recomputed(t)
    <2>1. row' = Recompute(row) /\ Goto(t, "abandon") /\ UNCHANGED <<store, body, stamp, budget>>
      BY <1>4 DEF Recomputed
    <2>2. RowTyped(row', Latest, Paths) /\ row'.gen = row.gen
      BY <2>1, RowOperators
    <2>3. RowTyped(row', Latest', Paths') /\ FilesTyped' /\ CloudTyped' /\ Grown
      BY <2>1, <2>2, RowChangeTyped, FilesStay DEF IsRow, store
    <2> QED
      BY <2>1, <2>3, GotoTyped DEF StepTyped, Typed, Special
  <1>5. CASE Fetch(t)
    <2> DEFINE k == job[t].blocks + 1
               i == job[t].fd
               v == body[Latest][k]
    <2>1. /\ k <= Len(body[Latest])
          /\ data' = [data EXCEPT ![i] = WriteAt(data[i], k, v)]
          /\ job' = [job EXCEPT ![t].blocks = k]
          /\ UNCHANGED <<row, retired, dir, body, stamp, budget>> /\ job[t].pc = "fetch"
      BY <1>5 DEF Fetch
    <2>2. k \in Nat \ {0} /\ v \in Nat
      <3>1. body[Latest] \in Contents
        BY ElementOfSeq DEF Typed, CloudTyped, Latest
      <3>2. k \in Nat \ {0}
        BY <1>j DEF JobTyped
      <3>3. k \in 1..Len(body[Latest])
        BY <2>1, <3>1, <3>2, LenProperties DEF Contents
      <3> QED
        BY <3>1, <3>2, <3>3, ElementOfSeq DEF Contents
    <2> HIDE DEF k, v
    <2>3. data' \in [Inodes -> Contents]
      <3>1. CASE i \in Inodes
        BY <2>1, <2>2, <3>1, WriteAtIs DEF Typed, FilesTyped
      <3>2. CASE i \notin Inodes
        BY <2>1, <3>2 DEF Typed, FilesTyped
      <3> QED
        BY <3>1, <3>2
    <2>4. FilesTyped' /\ CloudTyped' /\ RowTyped(row', Latest', Paths') /\ Grown
          /\ Paths' = Paths /\ Latest' = Latest
      BY <2>1, <2>3, SMTT(30)
         DEF FilesTyped, CloudTyped, Typed, RowTyped, TypeRow, Grown, Latest, Paths
    <2>5. JobTyped(t)'
      BY <1>j, <2>1, <2>2, <2>4 DEF JobTyped, JobFields, Typed
    <2> QED
      BY <2>1, <2>4, <2>5 DEF StepTyped, Typed
  <1>6. CASE Publish(t)
    <2> DEFINE g == job[t].gen
               mid == With(dir, Download(g), dir[Partial(g)])
    <2>1. /\ row' = Finished(row, g) /\ dir' = Without(mid, Partial(g)) /\ Exists(Partial(g))
          /\ job' = [job EXCEPT ![t].pc = "got", ![t].path = Download(g)]
          /\ UNCHANGED <<retired, data, body, stamp, budget>>
      BY <1>6 DEF Publish, Publishable
    <2>2. Download(g) \in Paths /\ Partial(g) \in Paths
      BY <1>j
    <2>3. RowTyped(row', Latest, Paths) /\ row'.gen = row.gen
      BY <2>1, <2>2, RowDownload
    <2>4. DOMAIN dir' \subseteq Paths /\ \A q \in DOMAIN dir' : dir'[q] \in Inodes
      BY <2>1, <2>2 DEF With, Without, Typed, FilesTyped, Exists
    <2>5. FilesTyped' /\ CloudTyped' /\ RowTyped(row', Latest', Paths') /\ Grown
          /\ Paths' = Paths /\ Latest' = Latest
      BY <2>1, <2>3, <2>4, RowChangeTyped, Growth DEF Typed, FilesTyped, IsRow, Latest
    <2>6. /\ DOMAIN job' = Threads /\ \A u \in Threads \ {t} : job'[u] = job[u]
          /\ job'[t] = [job[t] EXCEPT !.pc = "got", !.path = Download(g)]
      BY <2>1 DEF Typed
    <2>7. JobTyped(t)'
      <3> HIDE DEF g
      <3> QED
        BY <1>j, <2>2, <2>3, <2>5, <2>6 DEF JobTyped, JobFields
    <2> QED
      BY <2>1, <2>5, <2>6, <2>7 DEF StepTyped, Typed
  <1>7. CASE Abandon(t)
    <2>1. /\ row' = Failed(row, job[t].gen) /\ dir' = Without(dir, Partial(job[t].gen)) /\ Fails(t)
          /\ UNCHANGED <<retired, data, body, stamp, budget>>
      BY <1>7 DEF Abandon
    <2>2. RowTyped(row', Latest, Paths) /\ row'.gen = row.gen
      BY <2>1, RowDownload
    <2>3. /\ retired' \subseteq Paths /\ DOMAIN dir' \subseteq Paths
          /\ \A q \in DOMAIN dir' : dir'[q] \in Inodes
      BY <2>1, FileGone DEF Typed, FilesTyped
    <2>4. FilesTyped' /\ CloudTyped' /\ RowTyped(row', Latest', Paths') /\ Grown
      BY <2>1, <2>2, <2>3, RowChangeTyped DEF IsRow
    <2> QED
      BY <2>1, <2>4, FailsTyped DEF StepTyped, Typed
  <1> QED
    BY <1>1, <1>2, <1>3, <1>4, <1>5, <1>6, <1>7, QuietDownloads DEF Downloads

\* The steps of an open, a handle, a program and the background that only move a job.
QuietMove(t) ==
  \/ LookInvalid(t) \/ OpenCached(t) \/ OpenDeferred(t) \/ FirstRead(t) \/ ReadGeneration(t)
  \/ GotPinned(t) \/ GotRead(t) \/ LockRead(t) \/ LockWrite(t) \/ CloseRead(t)
  \/ SweepReleases(t) \/ KeepPinned(t) \/ SyncPins(t) \/ ListRetired(t) \/ ListDelta(t)
  \/ PruneCache(t) \/ \E kind \in FuseKinds : OpenFile(t, kind)

LEMMA QuietMoveTyped ==
  ASSUME Typed, NEW t \in Threads, QuietMove(t)
  PROVE  StepTyped(t)
  <1> USE RowIs DEF Free, history, At
  <1>j. JobTyped(t) /\ job[t].gen \in 0..row.gen
    BY DEF Typed, JobTyped
  <1>1. UNCHANGED <<row, store, body, stamp>>
    BY DEF QuietMove, LookInvalid, OpenCached, OpenDeferred, FirstRead, ReadGeneration, GotPinned,
           GotRead, LockRead, LockWrite, CloseRead, SweepReleases, KeepPinned, SyncPins,
           ListRetired, ListDelta, PruneCache, OpenFile
  <1>2. budget' \in [Kinds -> Nat]
    BY SpendTyped DEF QuietMove, LookInvalid, OpenCached, OpenDeferred, FirstRead, ReadGeneration,
           GotPinned, GotRead, LockRead, LockWrite, CloseRead, SweepReleases, KeepPinned, SyncPins,
           ListRetired, ListDelta, PruneCache, OpenFile, Typed, Kinds, FuseKinds
  <1>3. Grown /\ Paths' = Paths /\ Latest' = Latest
    BY <1>1, QuietTyped
  <1>4. /\ DOMAIN job' = Threads /\ \A u \in Threads \ {t} : job'[u] = job[u]
        /\ JobTyped(t)'
    <2> USE <1>1, <1>3, <1>j
    <2>1. CASE GotPinned(t)
      BY <2>1, StopTyped DEF GotPinned
    <2>2. CASE FirstRead(t)
      BY <2>2, GotoTyped DEF FirstRead, Special
    <2>3. CASE SweepReleases(t)
      BY <2>3, GotoTyped, StopTyped DEF SweepReleases, Special
    <2>4. CASE CloseRead(t)
      <3>1. job' = [job EXCEPT ![t] = Resting("read", "sweep")] /\ "sweep" \notin Special
        BY <2>4 DEF CloseRead, Resting, Special
      <3> QED
        BY <3>1, OneJob, RestTyped
    <2>5. CASE LookInvalid(t)
      BY <2>5 DEF LookInvalid, Typed, RowTyped, TypeRow, JobTyped, JobFields
    <2>6. CASE OpenCached(t)
      <3>1. row.cache \in Paths /\ dir[row.cache] \in Inodes
        BY <2>6 DEF OpenCached, HasExistingCache, Exists, Typed, FilesTyped, RowTyped, TypeRow
      <3> QED
        BY <2>6, <3>1 DEF OpenCached, Typed, JobTyped, JobFields
    <2>7. CASE OpenDeferred(t)
      <3>1. /\ DOMAIN job' = Threads /\ \A u \in Threads \ {t} : job'[u] = job[u]
            /\ \E e : job'[t] = [job[t] EXCEPT !.pc = "deferred", !.gen = row.gen, !.era = e]
        BY <2>7 DEF OpenDeferred, Typed
      <3> QED
        BY <3>1 DEF Typed, JobTyped, JobFields, RowTyped, TypeRow
    <2>8. CASE ReadGeneration(t)
      <3>1. /\ DOMAIN job' = Threads /\ \A u \in Threads \ {t} : job'[u] = job[u]
            /\ \E e : job'[t] = [job[t] EXCEPT !.pc = "enter", !.gen = row.gen, !.era = e,
                                               !.base = row.etag]
        BY <2>8 DEF ReadGeneration, Typed
      <3> QED
        BY <3>1 DEF Typed, JobTyped, JobFields, RowTyped, TypeRow
    <2>9. CASE GotRead(t)
      <3>1. CASE Exists(job[t].path)
        BY <2>9, <3>1 DEF GotRead, Exists, Typed, FilesTyped, JobTyped, JobFields
      <3>2. CASE ~Exists(job[t].path)
        BY <2>9, <3>2, FailsTyped DEF GotRead
      <3> QED
        BY <3>1, <3>2
    <2>10. CASE LockRead(t)
      BY <2>10 DEF LockRead, Typed, JobTyped, JobFields
    <2>11. CASE LockWrite(t)
      <3>1. CASE Exists(job[t].path)
        <4>1. PICK pc \in {"cut", "open"} :
                job' = [job EXCEPT ![t].locked = TRUE, ![t].pc = pc]
          BY <2>11, <3>1 DEF LockWrite
        <4> QED
          BY <4>1 DEF Typed, JobTyped, JobFields
      <3>2. CASE ~Exists(job[t].path)
        BY <2>11, <3>2, StopTyped DEF LockWrite
      <3> QED
        BY <3>1, <3>2
    <2>12. CASE KeepPinned(t) \/ SyncPins(t)
      BY <2>12 DEF KeepPinned, SyncPins, Start, Typed, JobTyped, JobFields
    <2>13. CASE ListRetired(t)
      BY <2>13 DEF ListRetired, Typed, FilesTyped, JobTyped, JobFields
    <2>14. CASE ListDelta(t)
      BY <2>14 DEF ListDelta, Typed, JobTyped, JobFields, CloudTyped
    <2>15. CASE PruneCache(t)
      BY <2>15 DEF PruneCache, Start, Typed, JobTyped, JobFields
    <2>16. CASE \E kind \in FuseKinds : OpenFile(t, kind)
      BY <2>16 DEF OpenFile, Start, Typed, JobTyped, JobFields
    <2> QED
      BY <2>1, <2>2, <2>3, <2>4, <2>5, <2>6, <2>7, <2>8, <2>9, <2>10, <2>11, <2>12, <2>13, <2>14,
         <2>15, <2>16 DEF QuietMove
  <1> QED
    BY <1>1, <1>2, <1>4, QuietTyped DEF StepTyped

\* The steps that change the row and no file.
RowMove(t) ==
  \/ InvalidateCache(t) \/ MarkCached(t) \/ MarkWriting(t) \/ ClaimWrite(t) \/ CloseWrite(t)
  \/ Repin(t) \/ StartUpload(t) \/ PutRefused(t) \/ CommitUpload(t) \/ ImportEntry(t)
  \/ PinPath(t) \/ UnpinPath(t) \/ ReleasePath(t)

LEMMA RowMoveTyped ==
  ASSUME Typed, NEW t \in Threads, RowMove(t)
  PROVE  StepTyped(t)
  <1> USE RowIs DEF Free, history, At
  <1>j. JobTyped(t) /\ job[t].gen \in 0..row.gen
    BY DEF Typed, JobTyped
  <1>1. UNCHANGED <<dir, data, body, stamp>>
    BY DEF RowMove, InvalidateCache, MarkCached, MarkWriting, ClaimWrite, CloseWrite, Repin,
           StartUpload, PutRefused, CommitUpload, ImportEntry, Import, PinPath, UnpinPath,
           ReleasePath, store
  <1>2. budget' \in [Kinds -> Nat]
    BY SpendTyped DEF RowMove, InvalidateCache, MarkCached, MarkWriting, ClaimWrite, CloseWrite,
           Repin, StartUpload, PutRefused, CommitUpload, ImportEntry, PinPath, UnpinPath,
           ReleasePath, Typed, Kinds
  <1>3. retired' \subseteq Paths
    BY DEF RowMove, InvalidateCache, MarkCached, MarkWriting, ClaimWrite, CloseWrite, Repin,
           StartUpload, PutRefused, CommitUpload, ImportEntry, Import, PinPath, UnpinPath,
           ReleasePath, store, Typed, FilesTyped, RowTyped, TypeRow
  <1>4. RowTyped(row', Latest, Paths) /\ row'.gen \in Nat /\ row'.gen >= row.gen
    <2> USE <1>j
    <2>1. CASE InvalidateCache(t)
      BY <2>1, RowGenerations, RaisedGeneration DEF InvalidateCache, IsRow
    <2>2. CASE MarkCached(t)
      <3>1. job[t].path \in Paths \cup {None}
        BY DEF JobTyped
      <3>2. row' = MarkedCached(row, job[t].path)
        BY <2>2 DEF MarkCached
      <3>3. RowTyped(row', Latest, Paths) /\ row'.gen = row.gen
        BY <3>1, <3>2, RowMarked
      <3> QED
        BY <3>3 DEF IsRow
    <2>3. CASE MarkWriting(t) \/ ClaimWrite(t)
      BY <2>3, RowOperators DEF MarkWriting, ClaimWrite, IsRow
    <2>4. CASE CloseWrite(t) \/ PutRefused(t)
      <3>1. row' \in {row, [row EXCEPT !.state = "dirty"], [row EXCEPT !.state = "conflict"]}
        BY <2>4 DEF CloseWrite, PutRefused
      <3> QED
        BY <3>1 DEF RowTyped, RowFields, TypeRow, Protected, Saved
    <2>5. CASE Repin(t)
      BY <2>5, RowOperators DEF Repin, IsRow
    <2>6. CASE StartUpload(t)
      BY <2>6, RowOperators DEF StartUpload, IsRow
    <2>7. CASE CommitUpload(t)
      <3>1. job[t].path \in Paths \cup {None} /\ job[t].etag + 1 \in 1..Latest
        BY <2>7 DEF JobTyped, CommitUpload
      <3>2. row' = Committed(row, job[t].path, job[t].etag + 1)
        BY <2>7 DEF CommitUpload
      <3> QED
        BY <3>1, <3>2, RowCommitted DEF IsRow
    <2>8. CASE ImportEntry(t)
      <3>1. job[t].etag \in 1..Latest
        BY <2>8 DEF JobTyped, ImportEntry
      <3> QED
        BY <2>8, <3>1, RowGenerations, RaisedGeneration DEF ImportEntry, Import, IsRow
    <2>9. CASE PinPath(t) \/ UnpinPath(t)
      <3>1. row' = SetPin(row, TRUE) \/ row' = SetPin(row, FALSE)
        BY <2>9 DEF PinPath, UnpinPath
      <3>2. RowTyped(row', Latest, Paths) /\ row'.gen = row.gen
        BY <3>1, RowSetPin
      <3> QED
        BY <3>2 DEF IsRow
    <2>10. CASE ReleasePath(t)
      BY <2>10, RowGenerations, RaisedGeneration DEF ReleasePath, IsRow
    <2> QED
      BY <2>1, <2>2, <2>3, <2>4, <2>5, <2>6, <2>7, <2>8, <2>9, <2>10 DEF RowMove
  <1>5. RowTyped(row', Latest', Paths') /\ FilesTyped' /\ CloudTyped' /\ Grown /\ Latest' = Latest
    BY <1>1, <1>3, <1>4, RowChangeTyped DEF Typed, FilesTyped, Latest
  <1>6. /\ DOMAIN job' = Threads /\ \A u \in Threads \ {t} : job'[u] = job[u]
        /\ JobTyped(t)'
    <2> USE <1>5, <1>j
    <2>g. Paths \subseteq Paths'
      BY Growth
    <2>1. CASE InvalidateCache(t)
      BY <2>1, GotoTyped DEF InvalidateCache, Special
    <2>2. CASE MarkCached(t) \/ ImportEntry(t)
      BY <2>2, GotoTyped DEF MarkCached, ImportEntry, Special
    <2>3. CASE MarkWriting(t)
      BY <2>3, <2>g DEF MarkWriting, Typed, JobTyped, JobFields, MarkedWriting
    <2>4. CASE ClaimWrite(t)
      BY <2>4, <2>g DEF ClaimWrite, Typed, JobTyped, JobFields, MarkedWriting
    <2>5. CASE CloseWrite(t)
      <3>1. job' = [job EXCEPT ![t] = Resting("write", "sweep")] /\ "sweep" \notin Special
        BY <2>5 DEF CloseWrite, Resting, Special
      <3> QED
        BY <3>1, OneJob, RestTyped
    <2>6. CASE Repin(t)
      BY <2>6, GotoTyped, StopTyped DEF Repin, Special
    <2>7. CASE StartUpload(t)
      <3>1. row.cache \in Paths /\ dir[row.cache] \in Inodes /\ row.etag \in 0..Latest
        BY <2>7 DEF StartUpload, Exists, Typed, FilesTyped, RowTyped, TypeRow
      <3>2. row'.gen = row.gen /\ Paths' = Paths
        BY <2>7, SameGeneration, Growth DEF StartUpload
      <3> QED
        BY <2>7, <3>1, <3>2 DEF StartUpload, Typed, JobTyped, JobFields
    <2>8. CASE PutRefused(t)
      BY <2>8, StopTyped DEF PutRefused
    <2>9. CASE CommitUpload(t)
      <3>1. job' = [job EXCEPT ![t] = Resting("upload", "sweep")] /\ "sweep" \notin Special
        BY <2>9 DEF CommitUpload, Resting, Special
      <3> QED
        BY <3>1, OneJob, RestTyped
    <2>10. CASE PinPath(t) \/ UnpinPath(t)
      <3>1. row'.gen = row.gen /\ Paths' = Paths
        BY <2>10, RowSetPin, Growth DEF PinPath, UnpinPath
      <3>2. \E kind : job' = [job EXCEPT ![t].kind = kind, ![t].pc = "repin"]
        BY <2>10 DEF PinPath, UnpinPath, Start
      <3> QED
        BY <3>1, <3>2 DEF Typed, JobTyped, JobFields
    <2>11. CASE ReleasePath(t)
      <3>1. job[t].gen \in 0..row'.gen
        BY <1>4 DEF IsRow
      <3> QED
        BY <2>11, <2>g, <3>1 DEF ReleasePath, Start, Typed, JobTyped, JobFields
    <2> QED
      BY <2>1, <2>2, <2>3, <2>4, <2>5, <2>6, <2>7, <2>8, <2>9, <2>10, <2>11 DEF RowMove
  <1> QED
    BY <1>2, <1>5, <1>6 DEF StepTyped

\* A step that changes files and not the row.
LEMMA FilesChangeTyped ==
  ASSUME Typed, UNCHANGED <<row, body>>, FilesTyped, stamp' \in Nat,
         retired' \subseteq Paths, DOMAIN dir' \subseteq Paths,
         \A p \in DOMAIN dir' : dir'[p] \in Inodes, data' \in [Inodes -> Contents]
  PROVE  RowTyped(row', Latest', Paths') /\ FilesTyped' /\ CloudTyped' /\ Grown
         /\ Paths' = Paths /\ Latest' = Latest
  <1>1. Paths' = Paths /\ Latest' = Latest
    BY DEF Paths, Latest
  <1>2. Grown
    BY <1>1, RowIs DEF Grown, IsRow
  <1> QED
    BY <1>1, <1>2 DEF Typed, FilesTyped, CloudTyped

LEMMA OpenFileTyped ==
  ASSUME Typed, NEW t \in Threads, OpenTruncating(t) \/ GotWrite(t)
  PROVE  StepTyped(t)
  <1>j. JobTyped(t)
    BY DEF Typed
  <1>1. PICK p \in Paths, base \in Nat, blocks \in Nat :
          /\ CanOpen(p) /\ dir' = With(dir, p, Opened(p))
          /\ data' = data \/ data' = [data EXCEPT ![Opened(p)] = <<>>]
          /\ job' = [job EXCEPT ![t].pc = "lock", ![t].path = p, ![t].fd = Opened(p),
                                ![t].base = base, ![t].blocks = blocks]
          /\ UNCHANGED <<row, retired, body, stamp, budget>>
    <2>1. CASE OpenTruncating(t)
      <3> DEFINE p == IF row.cache = None THEN Own ELSE row.cache
      <3>1. p \in Paths /\ row.etag \in Nat /\ job[t].blocks \in Nat
        BY <1>j, RowIs DEF RowTyped, TypeRow, JobTyped
      <3>2. /\ CanOpen(p) /\ dir' = With(dir, p, Opened(p))
            /\ data' = data \/ data' = [data EXCEPT ![Opened(p)] = <<>>]
            /\ job' = [job EXCEPT ![t].pc = "lock", ![t].path = p, ![t].fd = Opened(p),
                                  ![t].base = row.etag]
            /\ UNCHANGED <<row, retired, body, stamp, budget>>
        BY <2>1 DEF OpenTruncating, history, Free
      <3> HIDE DEF p
      <3>3. job' = [job EXCEPT ![t].pc = "lock", ![t].path = p, ![t].fd = Opened(p),
                               ![t].base = row.etag, ![t].blocks = job[t].blocks]
        BY <1>j, <3>2, ZenonT(40) DEF JobTyped, JobFields, Typed
      <3> QED
        BY <3>1, <3>2, <3>3
    <2>2. CASE GotWrite(t)
      <3> DEFINE p == job[t].path
      <3>1. p \in Paths /\ job[t].base \in Nat
        BY <1>j, <2>2 DEF JobTyped, GotWrite, At
      <3>2. /\ CanOpen(p) /\ dir' = With(dir, p, Opened(p))
            /\ data' = data \/ data' = [data EXCEPT ![Opened(p)] = <<>>]
            /\ job' = [job EXCEPT ![t].pc = "lock", ![t].fd = Opened(p), ![t].blocks = 0]
            /\ UNCHANGED <<row, retired, body, stamp, budget>>
        BY <2>2 DEF GotWrite, history, Free
      <3>3. job' = [job EXCEPT ![t].pc = "lock", ![t].path = p, ![t].fd = Opened(p),
                               ![t].base = job[t].base, ![t].blocks = 0]
        BY <1>j, <3>2, ZenonT(40) DEF JobTyped, JobFields, Typed
      <3> QED
        BY <3>1, <3>2, <3>3
    <2> QED
      BY <2>1, <2>2
  <1>2. Opened(p) \in Inodes
    BY <1>1, OpenedIs
  <1>3. data' \in [Inodes -> Contents]
    BY <1>1, EmptyIsContents DEF Typed, FilesTyped
  <1>4. DOMAIN dir' \subseteq Paths /\ \A q \in DOMAIN dir' : dir'[q] \in Inodes
    BY <1>1, <1>2, FileNamed
  <1>5. RowTyped(row', Latest', Paths') /\ FilesTyped' /\ CloudTyped' /\ Grown
        /\ Paths' = Paths /\ Latest' = Latest
    BY <1>1, <1>3, <1>4, FilesChangeTyped DEF Typed, FilesTyped, CloudTyped
  <1>6. /\ DOMAIN job' = Threads /\ \A u \in Threads \ {t} : job'[u] = job[u]
        /\ JobTyped(t)'
    BY <1>j, <1>1, <1>2, <1>5 DEF Typed, JobTyped, JobFields
  <1> QED
    BY <1>1, <1>5, <1>6 DEF StepTyped, Typed

\* The content of a name.
LEMMA ContentTyped ==
  ASSUME Typed, NEW p, Exists(p)
  PROVE  Content(p) \in Contents /\ dir[p] \in Inodes
  BY DEF Typed, FilesTyped, Exists, Content

\* A version more.
LEMMA VersionTyped ==
  ASSUME Typed, NEW c \in Contents, body' = Append(body, c)
  PROVE  /\ body' \in Seq(Contents) /\ Latest' = Latest + 1
         /\ \A e \in 1..Latest : body'[e] = body[e]
         /\ body'[Latest'] = c
  BY DEF Typed, CloudTyped, Latest

LEMMA FileMoveTyped ==
  ASSUME Typed, NEW t \in Threads,
         Cut(t) \/ Write(t) \/ DropRecord(t) \/ Reclaim(t) \/ KillCommand(t) \/ Put(t)
  PROVE  StepTyped(t)
  <1> USE RowIs DEF Free, history, At
  <1>j. JobTyped(t)
    BY DEF Typed
  <1>1. CASE Cut(t)
    <2>1. data' \in [Inodes -> Contents]
      <3>1. CASE job[t].fd \in Inodes
        BY <1>1, <3>1, EmptyIsContents DEF Cut, Typed, FilesTyped
      <3>2. CASE job[t].fd \notin Inodes
        BY <1>1, <3>2 DEF Cut, Typed, FilesTyped
      <3> QED
        BY <3>1, <3>2
    <2>2. RowTyped(row', Latest', Paths') /\ FilesTyped' /\ CloudTyped' /\ Grown
      BY <1>1, <2>1, FilesChangeTyped, FilesStay DEF Cut, Typed, CloudTyped
    <2> QED
      BY <1>1, <2>2, GotoTyped DEF Cut, StepTyped, Typed, Special
  <1>2. CASE Write(t)
    <2> DEFINE i == dir[job[t].path]
    <2>1. /\ Exists(job[t].path) /\ stamp' = stamp + 1
          /\ data' = [data EXCEPT ![i] = WriteAt(data[i], 1, stamp')]
          /\ job' = [job EXCEPT ![t].blocks = 1]
          /\ UNCHANGED <<row, retired, dir, body, budget>> /\ job[t].pc = "open"
      BY <1>2 DEF Write
    <2>2. i \in Inodes /\ data[i] \in Contents /\ stamp' \in Nat
      BY <2>1 DEF Typed, FilesTyped, CloudTyped, Exists
    <2> HIDE DEF i
    <2>3. data' \in [Inodes -> Contents]
      BY <2>1, <2>2, WriteAtIs DEF Typed, FilesTyped
    <2>4. RowTyped(row', Latest', Paths') /\ FilesTyped' /\ CloudTyped' /\ Grown
          /\ Paths' = Paths /\ Latest' = Latest
      BY <2>1, <2>2, <2>3, FilesChangeTyped, FilesStay DEF Typed
    <2>5. JobTyped(t)'
      BY <1>j, <2>1, <2>4 DEF JobTyped, JobFields, Typed
    <2> QED
      BY <2>1, <2>4, <2>5 DEF StepTyped, Typed
  <1>3. CASE DropRecord(t)
    <2>1. CASE Droppable(t)
      <3>1. /\ row' = Dropped(row) /\ dir' = Without(dir, row.cache) /\ Stop(t)
            /\ UNCHANGED <<retired, data, body, stamp, budget>>
        BY <1>3, <2>1 DEF DropRecord, RemoveFile
      <3>2. RowTyped(row', Latest, Paths) /\ row'.gen = row.gen
        BY <3>1, RowOperators
      <3>3. DOMAIN dir' \subseteq Paths /\ \A q \in DOMAIN dir' : dir'[q] \in Inodes
        BY <3>1, FileGone
      <3>4. RowTyped(row', Latest', Paths') /\ FilesTyped' /\ CloudTyped' /\ Grown
        BY <3>1, <3>2, <3>3, RowChangeTyped DEF IsRow, Typed, FilesTyped
      <3> QED
        BY <3>1, <3>4, StopTyped DEF StepTyped, Typed
    <2>2. CASE ~Droppable(t)
      <3>1. UNCHANGED <<row, store, body, stamp, budget>> /\ Stop(t)
        BY <1>3, <2>2 DEF DropRecord
      <3> QED
        BY <3>1, QuietTyped, StopTyped DEF StepTyped, Typed
    <2> QED
      BY <2>1, <2>2
  <1>4. CASE Reclaim(t)
    <2> DEFINE p == job[t].path
    <2>1. UNCHANGED <<row, data, body, stamp, budget>> /\ Stop(t)
      BY <1>4 DEF Reclaim
    <2>2. /\ retired' \subseteq Paths /\ DOMAIN dir' \subseteq Paths
          /\ \A q \in DOMAIN dir' : dir'[q] \in Inodes
      <3>1. CASE Unreferenced(p) /\ ~InUse(p)
        <4>1. dir' = Without(dir, p) /\ retired' = retired \ {p}
          BY <1>4, <3>1 DEF Reclaim
        <4> QED
          BY <4>1, FileGone DEF Typed, FilesTyped
      <3>2. CASE ~(Unreferenced(p) /\ ~InUse(p))
        BY <1>4, <3>2, FilesStay DEF Reclaim
      <3> QED
        BY <3>1, <3>2
    <2>3. RowTyped(row', Latest', Paths') /\ FilesTyped' /\ CloudTyped' /\ Grown
      BY <2>1, <2>2, FilesChangeTyped DEF Typed, FilesTyped, CloudTyped
    <2> QED
      BY <2>1, <2>3, StopTyped DEF StepTyped, Typed
  <1>5. CASE KillCommand(t)
    <2>1. /\ UNCHANGED <<row, retired, data, body, stamp>> /\ Stop(t) /\ Spend("kill")
          /\ dir' = dir \/ dir' = Without(dir, row.cache)
      BY <1>5 DEF KillCommand
    <2>2. DOMAIN dir' \subseteq Paths /\ \A q \in DOMAIN dir' : dir'[q] \in Inodes
      <3>1. CASE dir' = dir
        BY <3>1 DEF Typed, FilesTyped
      <3>2. CASE dir' = Without(dir, row.cache)
        BY <3>2, FileGone
      <3> QED
        BY <2>1, <3>1, <3>2
    <2>3. RowTyped(row', Latest', Paths') /\ FilesTyped' /\ CloudTyped' /\ Grown
      BY <2>1, <2>2, FilesChangeTyped DEF Typed, FilesTyped, CloudTyped
    <2>4. budget' \in [Kinds -> Nat]
      BY <2>1, SpendTyped DEF Typed, Kinds
    <2> QED
      BY <2>1, <2>3, <2>4, StopTyped DEF StepTyped
  <1>6. CASE Put(t)
    <2>1. /\ body' = Append(body, Content(job[t].path)) /\ Exists(job[t].path)
          /\ job' = [job EXCEPT ![t].pc = "commit"] /\ job[t].etag = Latest
          /\ UNCHANGED <<row, store, stamp, budget>>
      BY <1>6 DEF Put, Goto
    <2>2. body' \in Seq(Contents) /\ Latest' = Latest + 1
      BY <2>1, ContentTyped, VersionTyped
    <2>3. Grown /\ Paths' = Paths
      BY <2>1, <2>2 DEF Grown, IsRow, Paths
    <2>4. RowTyped(row', Latest', Paths')
      BY <2>1, <2>2, <2>3 DEF RowTyped, TypeRow
    <2>5. FilesTyped' /\ CloudTyped'
      BY <2>1, <2>2, <2>3 DEF Typed, FilesTyped, CloudTyped, store
    <2>6. JobTyped(t)'
      BY <1>j, <2>1, <2>2, <2>3 DEF JobTyped, JobFields, Typed
    <2> QED
      BY <2>1, <2>3, <2>4, <2>5, <2>6 DEF StepTyped, Typed
  <1> QED
    BY <1>1, <1>2, <1>3, <1>4, <1>5, <1>6

LEMMA WorldTyped ==
  ASSUME Typed, WorldStep
  PROVE  Typed'
  <1> USE RowIs DEF Free, history
  <1>1. CASE RecomputePins \/ Age
    <2>1. row' = Recompute(row) \/ row' = [row EXCEPT !.fresh = FALSE]
      BY <1>1 DEF RecomputePins, Age
    <2>2. RowTyped(row', Latest, Paths) /\ row'.gen = row.gen
      <3>1. CASE row' = Recompute(row)
        BY <3>1, RowOperators
      <3>2. CASE row' = [row EXCEPT !.fresh = FALSE]
        BY <3>2 DEF RowTyped, RowFields, TypeRow
      <3> QED
        BY <2>1, <3>1, <3>2
    <2>3. UNCHANGED <<retired, dir, data, body, stamp, job>>
      BY <1>1 DEF RecomputePins, Age, store
    <2>4. RowTyped(row', Latest', Paths') /\ FilesTyped' /\ CloudTyped' /\ Grown
      BY <2>2, <2>3, FilesStay, RowChangeTyped DEF IsRow
    <2>5. budget' \in [Kinds -> Nat]
      BY <1>1, SpendTyped DEF RecomputePins, Age, Typed, Kinds
    <2> QED
      BY <2>3, <2>4, <2>5, Growth DEF Typed
  <1>2. CASE RemoteEdit
    <2>1. /\ stamp' = stamp + 1 /\ body' = Append(body, <<stamp', stamp'>>) /\ Spend("edit")
          /\ UNCHANGED <<row, retired, dir, data, job>>
      BY <1>2 DEF RemoteEdit, store
    <2>2. stamp' \in Nat /\ <<stamp', stamp'>> \in Contents
      BY <2>1 DEF Typed, CloudTyped, Contents
    <2>3. body' \in Seq(Contents) /\ Latest' = Latest + 1
      BY <2>1, <2>2, VersionTyped
    <2>4. Grown /\ Paths' = Paths
      BY <2>1, <2>3 DEF Grown, IsRow, Paths
    <2>5. FilesTyped' /\ CloudTyped' /\ RowTyped(row', Latest', Paths')
      BY <2>1, <2>2, <2>3, <2>4, Growth DEF Typed, FilesTyped, CloudTyped
    <2>6. budget' \in [Kinds -> Nat]
      BY <2>1, SpendTyped DEF Typed, Kinds
    <2> QED
      BY <2>1, <2>4, <2>5, <2>6, Growth DEF Typed
  <1>3. CASE Restart
    <2>1. PICK saved \in {row, [row EXCEPT !.state = "dirty"]} :
            \/ row' = Dropped(saved) /\ dir' = Without(dir, saved.cache)
            \/ row' = saved /\ dir' = dir
      BY <1>3 DEF Restart, RemoveFile, store
    <2>2. /\ UNCHANGED <<retired, data, body, stamp>> /\ Spend("crash")
          /\ job' = [t \in Threads |-> IF t \in Workers THEN Idle ELSE job[t]]
      BY <1>3 DEF Restart, RemoveFile, store
    <2>3. RowTyped(saved, Latest, Paths) /\ saved.gen = row.gen
      BY <2>1 DEF RowTyped, RowFields, TypeRow, Protected, Saved
    <2>4. RowTyped(row', Latest, Paths) /\ row'.gen = row.gen
      BY <2>1, <2>3, RowOperators
    <2>5. DOMAIN dir' \subseteq Paths /\ \A q \in DOMAIN dir' : dir'[q] \in Inodes
      <3>1. CASE dir' = dir
        BY <3>1 DEF Typed, FilesTyped
      <3>2. CASE dir' = Without(dir, saved.cache)
        BY <3>2, FileGone
      <3> QED
        BY <2>1, <3>1, <3>2
    <2>6. RowTyped(row', Latest', Paths') /\ FilesTyped' /\ CloudTyped' /\ Grown
      BY <2>2, <2>4, <2>5, RowChangeTyped DEF IsRow, Typed, FilesTyped
    <2>7. budget' \in [Kinds -> Nat]
      BY <2>2, SpendTyped DEF Typed, Kinds
    <2>8. "idle" \notin Special
      BY DEF Special
    <2>9. ASSUME NEW t \in Threads PROVE JobTyped(t)'
      <3>1. job'[t] = Idle \/ job'[t] = job[t]
        BY <2>2
      <3> QED
        BY <3>1, <2>6, <2>8, Growth, RestTyped
    <2> QED
      BY <2>2, <2>6, <2>7, <2>9 DEF Typed
  <1> QED
    BY <1>1, <1>2, <1>3 DEF WorldStep

LEMMA InitTyped == Init => Typed
  <1> SUFFICES ASSUME Init PROVE Typed
    OBVIOUS
  <1>1. PICK s \in Scenarios :
          /\ budget = s.budget
          /\ LET r == Recompute(SetPin(ImportedRow, s.pinned))
             IN row = IF s.cached THEN Finished(r, 0) ELSE r
          /\ dir = [p \in IF s.cached THEN {Download(0)} ELSE {} |-> 1]
          /\ data = [i \in Inodes |-> IF s.cached /\ i = 1 THEN <<1, 1>> ELSE <<>>]
    BY DEF Init
  <1>2. s.pinned \in BOOLEAN /\ budget \in [Kinds -> Nat]
    BY <1>1, ScenariosAssumption
  <1>3. CloudTyped /\ Latest = 1
    BY DEF Init, CloudTyped, Latest, Contents
  <1>4. RowTyped(row, Latest, Paths) /\ row.gen = 0
    <2> DEFINE r == Recompute(SetPin(ImportedRow, s.pinned))
    <2>1. RowTyped(r, 1, {Own, Download(0), Partial(0)}) /\ r.gen = 0
      BY <1>2 DEF RowTyped, RowFields, TypeRow, Protected, Saved, Recompute, SetPin, ImportedRow
    <2>2. RowTyped(row, 1, {Own, Download(0), Partial(0)}) /\ row.gen = 0
      <3>1. row = IF s.cached THEN Finished(r, 0) ELSE r
        BY <1>1
      <3>2. 1 \in Nat /\ Download(0) \in {Own, Download(0), Partial(0)}
        OBVIOUS
      <3> HIDE DEF r
      <3>3. /\ RowTyped(Finished(r, 0), 1, {Own, Download(0), Partial(0)})
            /\ Finished(r, 0).gen = r.gen
        BY <2>1, <3>2, RowDownload
      <3> QED
        BY <2>1, <3>1, <3>3
    <2>3. {Own, Download(0), Partial(0)} \subseteq Paths
      BY <2>2 DEF Paths
    <2> QED
      BY <1>3, <2>2, <2>3 DEF RowTyped, TypeRow
  <1>5. 1 \in Inodes
    <2>1. IsFiniteSet(Threads)
      BY ThreadsAssumption, FS_Union DEF Threads
    <2> QED
      BY <2>1, FS_CardinalityType DEF Inodes
  <1>6. FilesTyped
    <2>1. DOMAIN dir \subseteq Paths /\ \A p \in DOMAIN dir : dir[p] \in Inodes
      BY <1>1, <1>4, <1>5 DEF Paths
    <2>2. <<1, 1>> \in Contents /\ <<>> \in Contents
      BY DEF Contents
    <2>3. data \in [Inodes -> Contents]
      BY <1>1, <2>2
    <2> QED
      BY <2>1, <2>3 DEF FilesTyped, Init
  <1>7. DOMAIN job = Threads /\ \A t \in Threads : JobTyped(t)
    <2>1. \A t \in Threads : job[t] = Idle
      BY DEF Init
    <2>2. 0 \in 0..row.gen /\ 0 \in 0..Latest
      BY <1>3, <1>4
    <2>3. ASSUME NEW t \in Threads PROVE JobTyped(t)
      <3>1. job[t] = Idle
        BY <2>1
      <3> QED
        BY <3>1, <2>2 DEF JobTyped, JobFields, Idle
    <2> QED
      BY <2>3 DEF Init
  <1> QED
    BY <1>2, <1>3, <1>4, <1>6, <1>7 DEF Typed

LEMMA ThreadStepTyped ==
  ASSUME Typed, NEW t \in Threads, ThreadStep(t)
  PROVE  StepTyped(t)
  BY DownloadsTyped, QuietDownloads, QuietMoveTyped, RowMoveTyped, OpenFileTyped, FileMoveTyped
     DEF ThreadStep, Opening, Handling, Releasing, Background, Program, QuietMove, RowMove

LEMMA NextTyped == Typed /\ [Next]_vars => Typed'
  <1> SUFFICES ASSUME Typed, [Next]_vars PROVE Typed'
    OBVIOUS
  <1>1. CASE \E t \in Threads : ThreadStep(t)
    BY <1>1, ThreadStepTyped, StepKeepsTypes
  <1>2. CASE WorldStep
    BY <1>2, WorldTyped
  <1>3. CASE UNCHANGED vars
    <2>1. Grown
      BY <1>3, QuietTyped DEF vars, store
    <2> QED
      BY <1>3, <2>1, QuietTyped, Growth DEF vars, store, Typed
  <1> QED
    BY <1>1, <1>2, <1>3 DEF Next, ThreadStep, WorldStep

\* Every behaviour keeps the strengthened types: no handler leaves a row, a cache
\* file, a version or a thread's record that another handler cannot use
\* (hydration.rs:40-140, fuse.rs:225-440, cache.rs:104-442).
THEOREM TypeInvariance == Spec => []Typed
  BY InitTyped, NextTyped, PTL DEF Spec

\* Type correctness: the row describes a version the cloud has, its cache, the retired
\* files and the cache directory only name files that a generation of this row has
\* made, and no thread holds a generation the row has not had (cache.rs:104-242).
THEOREM TypeCorrect == Spec => []TypeOK
  <1>1. Typed => TypeOK
    BY DEF Typed, TypeOK, RowTyped, FilesTyped, JobTyped, TypeRow
  <1> QED
    BY <1>1, TypeInvariance, PTL

-----------------------------------------------------------------------------
(* What is assumed of the programs and commands.                           *)

\* No open truncates, one program at a time writes the file, and a command does
\* not download it while the daemon or another command does.
Orderly ==
  /\ \A t \in Threads : job[t].kind # "trunc"
  /\ \A t, u \in Threads : job[t].kind = "write" /\ job[u].kind = "write" => t = u
  /\ \A t \in Commands, u \in Threads :
       job[t].pc \in Downloading /\ job[u].pc \in Downloading => t = u

\* No command dies between the removal of a file and the commit of its release.
NotTorn == dir' = dir \/ budget'["kill"] = budget["kill"]

-----------------------------------------------------------------------------
(* The invariant.                                                          *)

Loading == {"begin", "verify", "fetch", "confirm", "publish"}
Fetching == {"verify", "fetch"}
Sending == {"put", "commit"}
Copies == {Own} \cup {Download(g) : g \in Nat}

\* One download of the item in all processes ...
OneDownload ==
  \A t, u \in Threads : job[t].pc \in Downloading /\ job[u].pc \in Downloading => t = u

\* ... and in each of them.
Serialized ==
  \A t, u \in Threads :
    Home(t) = Home(u) /\ job[t].pc \in Downloading /\ job[u].pc \in Downloading => t = u

\* A row with a copy is clean or waits for its upload; one that waits has a copy.
Shaped(r) ==
  /\ r.cache # None => r.cache \in Copies /\ (Clean(r) \/ r.state \in Protected)
  /\ r.state \in Protected => r.cache # None

\* A save in conflict is based on a version that was replaced, and nobody sends it.
Refused ==
  row.state = "conflict" => row.etag < Latest /\ \A t \in Threads : job[t].pc \notin Sending

\* The copy a row names is there, and is the row's version if the row is clean.
Whole ==
  row.cache # None =>
    Exists(row.cache) /\ (Clean(row) => Content(row.cache) = body[row.etag])

\* No two names lead to one file.
Injective == \A p, q \in DOMAIN dir : dir[p] = dir[q] => p = q

OneUpload == \A t, u \in Threads : job[t].kind = "upload" /\ job[u].kind = "upload" => t = u

\* Which kinds of job are where, and which paths they hold.
Place(t) ==
  /\ job[t].pc \notin {"cut", "mark", "claim", "invalid"}
  /\ job[t].kind \in {"write", "upload"} => t \in Workers
  /\ job[t].pc \in {"got", "lock", "open"} => job[t].path \in Copies
  /\ job[t].pc \in Sending => job[t].kind = "upload"
  /\ job[t].pc = "open" => job[t].kind = "write"
  /\ job[t].changed => job[t].pc = "open"

\* A handle that has claimed the row writes into the copy the row names.
Writer(t) == job[t].changed => row.state = "writing" /\ job[t].path = row.cache

\* An upload sends the row's copy, and what it has sent is the copy still unless
\* the row says that it was written since.
Sender(t) ==
  /\ job[t].pc \in Sending =>
       row.state \in Saved /\ job[t].path = row.cache /\ job[t].etag = row.etag
  /\ job[t].pc = "commit" =>
       /\ job[t].etag < Latest
       /\ row.state = "uploading" => Content(row.cache) = body[job[t].etag + 1]

\* A download of the row's generation is for the row's version, and the row has no
\* copy that it could replace.
Loader(t) ==
  /\ job[t].pc \in Loading =>
       job[t].etag \in 1..Latest /\ (job[t].gen = row.gen => job[t].etag = row.etag)
  /\ job[t].pc \in Loading \ {"begin"} /\ job[t].gen = row.gen => row.cache = None
  /\ job[t].pc = "begin" /\ job[t].gen = row.gen /\ row.cache # None =>
       /\ row.state \in Protected /\ row.etag < Latest
       /\ \A u \in Threads : job[u].pc # "commit"

\* The partial file is this download's alone and holds a beginning of the version,
\* and all of it once the version was confirmed.
LoaderFile(t) ==
  LET p == Partial(job[t].gen)
      s == data[job[t].fd]
  IN /\ job[t].pc \in Fetching =>
          /\ job[t].fd \in Inodes
          /\ \A q \in DOMAIN dir : dir[q] = job[t].fd <=> q = p
          /\ job[t].blocks = Len(s)
          /\ job[t].pc = "verify" => job[t].blocks = 0
          /\ job[t].etag = Latest =>
               \A n \in 1..job[t].blocks : n <= Len(body[Latest]) /\ s[n] = body[Latest][n]
     /\ (job[t].pc = "confirm" /\ job[t].etag = Latest) \/ job[t].pc = "publish" =>
          (Exists(p) => Content(p) = body[job[t].etag])

JobOK(t) == Place(t) /\ Writer(t) /\ Sender(t) /\ Loader(t) /\ LoaderFile(t)

Copied ==
  /\ Shaped(row) /\ Refused /\ Whole /\ LocalBytes /\ Injective /\ OneUpload
  /\ \A t \in Threads : JobOK(t)

-----------------------------------------------------------------------------
(* Downloads of one process are serialized.                                *)

LEMMA Alone ==
  ASSUME Serialized, Orderly
  PROVE  OneDownload
  BY DEF Serialized, Orderly, OneDownload, Home, Threads

\* Only a thread that waited for the process's lock begins to download.
LEMMA EntersAlone ==
  ASSUME Typed, NEW t \in Threads, ThreadStep(t), job'[t].pc \in Downloading
  PROVE  job[t].pc \in Downloading \/ ~HydrateLocked(t)
  <1> USE DEF At, Downloading
  <1>j. DOMAIN job = Threads /\ DOMAIN job[t] = JobFields
    BY DEF Typed, JobTyped
  <1>f. ASSUME Fails(t) PROVE job'[t].pc \notin Downloading
    BY <1>j, <1>f DEF Fails, Idle
  <1>s. ASSUME Stop(t) PROVE job'[t].pc \notin Downloading
    BY <1>j, <1>s DEF Stop, Idle
  <1>g. ASSUME NEW pc, Goto(t, pc) PROVE job'[t].pc = pc
    BY <1>j, <1>g DEF Goto, JobFields
  <1>b. ASSUME NEW k, NEW pc, Start(t, k, pc) PROVE job'[t].pc = pc
    BY <1>j, <1>b DEF Start, JobFields
  <1>1. CASE EnterCancelled(t) \/ UseExisting(t) \/ NeedDownload(t)
    BY <1>1 DEF EnterCancelled, UseExisting, NeedDownload
  <1>2. CASE \/ BeginRefused(t) \/ BeginDownload(t) \/ Superseded(t) \/ Recomputed(t)
             \/ Verified(t) \/ Fetch(t) \/ Fetched(t) \/ FetchStopped(t) \/ Confirm(t)
             \/ Publish(t) \/ PublishRefused(t) \/ Abandon(t)
    BY <1>2 DEF BeginRefused, BeginDownload, Superseded, Recomputed, Verified, Fetch,
       Fetched, FetchStopped, Confirm, Publish, PublishRefused, Abandon
  <1>3. CASE \/ LookInvalid(t) \/ OpenCached(t) \/ OpenDeferred(t) \/ ReadGeneration(t)
             \/ OpenTruncating(t) \/ GotWrite(t) \/ LockRead(t) \/ ClaimWrite(t) \/ Write(t)
             \/ ListRetired(t) \/ StartUpload(t) \/ ListDelta(t) \/ MarkWriting(t)
    BY <1>3, <1>j DEF LookInvalid, OpenCached, OpenDeferred, ReadGeneration,
       OpenTruncating, GotWrite, LockRead, ClaimWrite, Write, ListRetired, StartUpload,
       ListDelta, MarkWriting, JobFields
  <1>4. CASE \/ InvalidateCache(t) \/ FirstRead(t) \/ Cut(t) \/ MarkCached(t) \/ Put(t)
             \/ ImportEntry(t) \/ SweepReleases(t) \/ Repin(t)
    BY <1>4, <1>s, <1>g DEF InvalidateCache, FirstRead, Cut, MarkCached, Put, ImportEntry,
       SweepReleases, Repin
  <1>5. CASE GotPinned(t) \/ DropRecord(t) \/ Reclaim(t) \/ PutRefused(t) \/ KillCommand(t)
    BY <1>5, <1>s DEF GotPinned, DropRecord, Reclaim, PutRefused, KillCommand
  <1>6. CASE \/ KeepPinned(t) \/ PinPath(t) \/ UnpinPath(t) \/ SyncPins(t)
             \/ ReleasePath(t) \/ PruneCache(t) \/ \E kind \in FuseKinds : OpenFile(t, kind)
    BY <1>6, <1>b DEF KeepPinned, PinPath, UnpinPath, SyncPins, ReleasePath, PruneCache,
       OpenFile
  <1>7. CASE GotRead(t)
    BY <1>7, <1>f, <1>j DEF GotRead, JobFields
  <1>8. CASE LockWrite(t)
    BY <1>8, <1>s, <1>j DEF LockWrite, JobFields
  <1>9. CASE CloseWrite(t) \/ CloseRead(t) \/ CommitUpload(t)
    BY <1>9, <1>j, ZenonT(40) DEF CloseWrite, CloseRead, CommitUpload, Idle
  <1>10. CASE RequestFails(t)
    BY <1>10, <1>j DEF RequestFails, JobFields
  <1> QED
    BY <1>1, <1>2, <1>3, <1>4, <1>5, <1>6, <1>7, <1>8, <1>9, <1>10
       DEF ThreadStep, Downloads, Opening, Handling, Releasing, Background, Program

\* "Hydration is serialized per file across read handles and pin jobs": no two
\* threads of one process download the item at the same time, whatever they were
\* started for (hydration.rs:61-65, locks.rs:4-15).
THEOREM SerializedPerProcess == Spec => []Serialized
  <1>1. Init => Serialized
    BY DEF Init, Serialized, Idle, Downloading
  <1>2. Typed /\ Serialized /\ [Next]_vars => Serialized'
    <2> SUFFICES ASSUME Typed, Serialized, [Next]_vars PROVE Serialized'
      OBVIOUS
    <2>1. CASE \E t \in Threads : ThreadStep(t)
      <3>1. PICK t \in Threads : ThreadStep(t)
        BY <2>1
      <3>2. \A u \in Threads \ {t} : job'[u] = job[u]
        BY <3>1, ThreadStepTyped DEF StepTyped
      <3>3. job'[t].pc \in Downloading => job[t].pc \in Downloading \/ ~HydrateLocked(t)
        BY <3>1, EntersAlone
      <3> QED
        BY <3>2, <3>3 DEF Serialized, HydrateLocked, Home
    <2>2. CASE WorldStep
      <3>1. \A t \in Threads : job'[t] = job[t] \/ job'[t] = Idle
        BY <2>2 DEF WorldStep, RecomputePins, RemoteEdit, Age, Restart
      <3> QED
        BY <3>1 DEF Serialized, Home, Idle, Downloading
    <2>3. CASE UNCHANGED vars
      BY <2>3 DEF vars, Serialized, Home
    <2> QED
      BY <2>1, <2>2, <2>3 DEF Next, ThreadStep, WorldStep
  <1> QED
    BY <1>1, <1>2, TypeInvariance, PTL DEF Spec

-----------------------------------------------------------------------------
(* The row.                                                                *)

LEMMA CopiesAre ==
  ASSUME NEW p \in Copies, NEW g \in Nat
  PROVE  p # None /\ p # Partial(g)
  <1>1. p \in {"own", "download", "partial"} \X Nat /\ p[1] # "partial"
    BY DEF Copies, Own, Download
  <1>2. Partial(g)[1] = "partial"
    BY DEF Partial
  <1> QED
    BY <1>1, <1>2, ThreadsAssumption

\* What a statement may do to a row that no program writes to: a copy is only ever
\* given up, a row that waits for its upload stays as it is.
Tame(r, s) ==
  /\ s.gen >= r.gen
  /\ s.gen = r.gen => s.etag = r.etag
  /\ r.state \in Protected => s.state = r.state /\ s.cache = r.cache /\ s.etag = r.etag
  /\ r.state \notin Protected => s.state \notin Protected
  /\ s.cache # None =>
       s.cache = r.cache /\ s.etag = r.etag /\ (Clean(s) \/ s.state \in Protected)

LEMMA TameShaped ==
  ASSUME NEW r, NEW s, Shaped(r), Tame(r, s)
  PROVE  Shaped(s)
  BY DEF Shaped, Tame

LEMMA TameRows ==
  ASSUME NEW latest \in Nat, NEW paths, NEW r, RowTyped(r, latest, paths), Shaped(r), NEW g,
         NEW e \in 1..latest
  PROVE  /\ Tame(r, r) /\ Tame(r, Recompute(r)) /\ Tame(r, Failed(r, g))
         /\ MayDrop(r) => Tame(r, Dropped(r))
         /\ r.state \notin Protected => Tame(r, Begun(r))
  <1> USE DEF RowTyped, RowFields, TypeRow, Protected, Saved, Tame, Shaped, Clean
  <1>1. Tame(r, r)
    OBVIOUS
  <1>2. Tame(r, Recompute(r))
    BY DEF Recompute
  <1>3. Tame(r, Failed(r, g))
    BY DEF Failed
  <1>4. MayDrop(r) => Tame(r, Dropped(r))
    BY DEF Dropped, MayDrop
  <1>5. r.state \notin Protected => Tame(r, Begun(r))
    BY DEF Begun
  <1> QED
    BY <1>1, <1>2, <1>3, <1>4, <1>5

LEMMA TameMarks ==
  ASSUME NEW latest \in Nat, NEW paths, NEW r, RowTyped(r, latest, paths), Shaped(r)
  PROVE  /\ Tame(r, SetPin(r, TRUE)) /\ Tame(r, SetPin(r, FALSE))
         /\ Tame(r, [r EXCEPT !.fresh = TRUE]) /\ Tame(r, [r EXCEPT !.fresh = FALSE])
  BY DEF RowTyped, RowFields, TypeRow, Protected, Saved, Tame, Shaped, Clean, SetPin

LEMMA TameImported ==
  ASSUME NEW latest \in Nat, NEW paths, NEW r, RowTyped(r, latest, paths), Shaped(r),
         NEW e \in 1..latest
  PROVE  Tame(r, Imported(r, e))
  <1> USE DEF RowTyped, RowFields, TypeRow, Protected, Saved, Tame, Shaped, Clean
  <1> DEFINE v == [r EXCEPT !.state = "online_only", !.cache = None, !.fresh = FALSE,
                            !.etag = e, !.gen = r.gen + 1]
  <1>1. CASE r.state \in Protected \/ r.etag = e
    BY <1>1 DEF Imported
  <1>2. CASE ~(r.state \in Protected \/ r.etag = e)
    <2>1. Tame(r, v)
      BY <1>2
    <2>2. Imported(r, e) = v
      BY <1>2 DEF Imported
    <2> QED
      BY <2>1, <2>2
  <1> QED
    BY <1>1, <1>2

LEMMA TameReleased ==
  ASSUME NEW latest \in Nat, NEW paths, NEW r, RowTyped(r, latest, paths), Shaped(r)
  PROVE  Tame(r, Released(r))
  <1> USE DEF RowTyped, RowFields, TypeRow, Protected, Saved, Tame, Shaped, Clean
  <1> DEFINE s == IF r.state # "pinned" THEN r.state
                  ELSE IF r.cache # None THEN "cached" ELSE "hydrating"
             loading == s = "hydrating" /\ r.cache = None
             s2 == IF loading THEN "online_only" ELSE s
             kept == ~(s = "online_only" \/ loading)
  <1>1. Released(r) = [r EXCEPT !.pin = FALSE, !.gen = r.gen + 1, !.release = kept,
                                !.state = s2]
    BY DEF Released
  <1>2. /\ r.state \in Protected => s2 = r.state
        /\ r.state \notin Protected => s2 \notin Protected
        /\ r.cache # None => s2 \in {"cached"} \cup Protected
    OBVIOUS
  <1> HIDE DEF s, loading, s2, kept
  <1> QED
    BY <1>1, <1>2

-----------------------------------------------------------------------------
(* What a step leaves to the threads that do not take it.                  *)

\* The versions only grow in number.
Later ==
  /\ Latest' \in Nat /\ Latest' >= Latest
  /\ \A e \in 1..Latest : body'[e] = body[e]

\* The file that u downloads to keeps its name and its content.
Apart(u) ==
  LET p == Partial(job[u].gen)
  IN /\ \A q \in DOMAIN dir' : \/ q \in DOMAIN dir /\ dir'[q] = dir[q]
                               \/ q # p /\ dir'[q] # job[u].fd
     /\ Exists(p) => data'[dir[p]] = data[dir[p]]
     /\ job[u].pc \in Fetching => data'[job[u].fd] = data[job[u].fd]

LEMMA LoaderFileStays ==
  ASSUME Typed, Later, NEW u \in Threads, JobOK(u), job'[u] = job[u], Apart(u)
  PROVE  LoaderFile(u)'
  <1> DEFINE p == Partial(job[u].gen)
             s == data[job[u].fd]
  <1>t. /\ Latest \in Nat /\ job[u].etag \in Nat
        /\ job[u].pc \in Loading => job[u].etag \in 1..Latest
    BY RowIs DEF Typed, JobTyped, JobOK, Loader
  <1>1. ASSUME job[u].pc \in Fetching
        PROVE  /\ job[u].fd \in Inodes /\ data'[job[u].fd] = s
               /\ \A q \in DOMAIN dir' : dir'[q] = job[u].fd <=> q = p
               /\ job[u].blocks = Len(s)
               /\ job[u].pc = "verify" => job[u].blocks = 0
    BY <1>1 DEF JobOK, LoaderFile, Apart, Exists
  <1>2. ASSUME job[u].pc \in Fetching, job[u].etag = Latest'
        PROVE  \A n \in 1..job[u].blocks : n <= Len(body'[Latest']) /\ s[n] = body'[Latest'][n]
    <2>1. job[u].etag = Latest /\ Latest' = Latest /\ body'[Latest'] = body[Latest]
      BY <1>t, <1>2 DEF Later, Loading, Fetching
    <2> QED
      BY <1>2, <2>1 DEF JobOK, LoaderFile
  <1>3. ASSUME (job[u].pc = "confirm" /\ job[u].etag = Latest') \/ job[u].pc = "publish",
               p \in DOMAIN dir'
        PROVE  data'[dir'[p]] = body'[job[u].etag]
    <2>1. job[u].etag \in 1..Latest
      BY <1>t, <1>3 DEF Loading
    <2>2. (job[u].pc = "confirm" /\ job[u].etag = Latest) \/ job[u].pc = "publish"
      BY <1>t, <1>3, <2>1 DEF Later
    <2>3. p \in DOMAIN dir /\ dir'[p] = dir[p] /\ data'[dir[p]] = data[dir[p]]
      BY <1>3 DEF Apart, Exists
    <2>4. data[dir[p]] = body[job[u].etag]
      BY <2>2, <2>3 DEF JobOK, LoaderFile, Exists, Content
    <2> QED
      BY <2>1, <2>3, <2>4 DEF Later
  <1> QED
    BY <1>1, <1>2, <1>3 DEF LoaderFile, Exists, Content

\* Files are only removed; a copy the row still leads to is not.
Shrunk ==
  /\ DOMAIN dir' \subseteq DOMAIN dir /\ \A q \in DOMAIN dir' : dir'[q] = dir[q]
  /\ row'.cache # None => row.cache \in DOMAIN dir'
  /\ UNCHANGED <<data, body, local>>

NoNewSends == \A u \in Threads : job'[u].pc \in Sending => job'[u] = job[u]

\* A step that writes and sends nothing.
TameStep == Tame(row, row') /\ Shrunk /\ NoNewSends

LEMMA TameWorld ==
  ASSUME Typed, Copied, TameStep
  PROVE  Shaped(row)' /\ Refused' /\ Whole' /\ LocalBytes' /\ Injective'
  <1>1. Latest' = Latest
    BY DEF TameStep, Shrunk, Latest
  <1>2. Shaped(row')
    BY TameShaped DEF Copied, TameStep
  <1>3. Refused'
    BY <1>1 DEF Refused, Copied, TameStep, Tame, NoNewSends, Protected
  <1>4. Whole'
    <2> SUFFICES ASSUME row'.cache # None
                 PROVE  /\ Exists(row.cache)'
                        /\ Clean(row') => Content(row.cache)' = body'[row'.etag]
      BY DEF Whole
    <2>1. /\ row'.cache = row.cache /\ row'.etag = row.etag /\ row.cache \in DOMAIN dir'
          /\ dir'[row.cache] = dir[row.cache] /\ UNCHANGED <<data, body>>
      BY DEF TameStep, Tame, Shrunk
    <2>2. Clean(row') => Clean(row)
      BY <2>1 DEF TameStep, Tame, Copied, Shaped, Clean, Protected, Saved
    <2> QED
      BY <2>1, <2>2 DEF Whole, Copied, Exists, Content
  <1>5. LocalBytes'
    <2> SUFFICES ASSUME local' # None
                 PROVE  /\ row'.state \in Protected
                        /\ row'.cache # None /\ row'.cache \in DOMAIN dir'
                        /\ data'[dir'[row'.cache]] = local'
      BY DEF LocalBytes, Exists, Content
    <2>1. /\ local' = local /\ row.state \in Protected
          /\ row.cache # None /\ Content(row.cache) = local
      BY DEF Copied, LocalBytes, TameStep, Shrunk
    <2> QED
      BY <2>1 DEF TameStep, Tame, Shrunk, Content
  <1>6. Injective'
    BY DEF Copied, Injective, TameStep, Shrunk
  <1> QED
    BY <1>2, <1>3, <1>4, <1>5, <1>6

LEMMA PlaceStays ==
  ASSUME NEW u \in Threads, JobOK(u), job'[u] = job[u]
  PROVE  Place(u)'
  BY DEF JobOK, Place

\* A version is only committed of an upload that named the latest.
NoNewCommits ==
  row.etag < Latest /\ (\A u \in Threads : job[u].pc # "commit")
    => \A u \in Threads : job'[u].pc # "commit"

\* What the row still says to a thread that has its generation.
LEMMA LoaderStays ==
  ASSUME Typed, Copied, Later, NoNewCommits, row'.gen \in Nat, row'.gen >= row.gen,
         NEW u \in Threads, job'[u] = job[u],
         job[u].pc \in Loading /\ row'.gen = row.gen /\ job[u].gen = row.gen =>
           /\ row'.etag = row.etag
           /\ row'.cache # None =>
                row'.cache = row.cache /\ row'.state \in {row.state} \cup Protected
  PROVE  Loader(u)'
  <1>1. job[u].gen \in 0..row.gen /\ row.gen \in Nat /\ Latest \in Nat
    BY RowIs DEF Typed, JobTyped, IsRow
  <1>2. job[u].gen = row'.gen => row'.gen = row.gen /\ job[u].gen = row.gen
    BY <1>1
  <1>3. Loader(u)
    BY DEF Copied, JobOK
  <1>4. job[u].pc \in Loading =>
          job[u].etag \in 1..Latest' /\ (job[u].gen = row'.gen => job[u].etag = row'.etag)
    BY <1>1, <1>2, <1>3 DEF Loader, Later
  <1>5. job[u].pc \in Loading \ {"begin"} /\ job[u].gen = row'.gen => row'.cache = None
    BY <1>2, <1>3 DEF Loader
  <1>6. ASSUME job[u].pc = "begin", job[u].gen = row'.gen, row'.cache # None
        PROVE  /\ row'.state \in Protected /\ row'.etag < Latest'
               /\ \A v \in Threads : job'[v].pc # "commit"
    <2>1. job[u].pc \in Loading /\ row'.gen = row.gen /\ job[u].gen = row.gen
      BY <1>2, <1>6 DEF Loading
    <2>2. /\ row'.etag = row.etag /\ row'.cache = row.cache
          /\ row'.state \in {row.state} \cup Protected
      BY <1>6, <2>1
    <2>3. /\ row.state \in Protected /\ row.etag < Latest
          /\ \A v \in Threads : job[v].pc # "commit"
      BY <1>3, <1>6, <2>1, <2>2 DEF Loader
    <2>4. row.etag \in Nat
      BY RowIs DEF RowTyped, TypeRow
    <2> QED
      BY <1>1, <2>2, <2>3, <2>4 DEF Later, NoNewCommits
  <1> QED
    BY <1>4, <1>5, <1>6 DEF Loader

LEMMA TameOthers ==
  ASSUME Typed, Copied, TameStep, row'.gen \in Nat, NEW u \in Threads, job'[u] = job[u]
  PROVE  JobOK(u)'
  <1>1. Latest \in Nat /\ Latest' = Latest /\ Later /\ JobOK(u)
    BY RowIs DEF TameStep, Shrunk, Latest, Later, Copied
  <1>2. LoaderFile(u)'
    BY <1>1, LoaderFileStays DEF Apart, TameStep, Shrunk
  <1>3. Loader(u)'
    <2>1. ASSUME row'.gen = row.gen, row'.cache # None, job[u].pc \in Loading,
                 job[u].gen = row.gen
          PROVE  row'.state \in {row.state} \cup Protected
      <3>1. row.cache # None /\ row.state \in Protected
        BY <2>1, <1>1 DEF TameStep, Tame, JobOK, Loader, Loading
      <3> QED
        BY <3>1 DEF TameStep, Tame
    <2> QED
      BY <1>1, <2>1, LoaderStays DEF TameStep, Tame, NoNewSends, NoNewCommits, Sending
  <1>4. Sender(u)'
    <2>1. Sender(u)
      BY <1>1 DEF JobOK
    <2>2. ASSUME job[u].pc \in Sending
          PROVE  /\ row.state \in Saved /\ row'.state = row.state /\ row'.cache = row.cache
                 /\ row'.etag = row.etag /\ Content(row.cache)' = Content(row.cache)
      <3>1. row.state \in Saved /\ row.state \in Protected /\ row.cache # None
        BY <2>1, <2>2 DEF Sender, Copied, Shaped, Protected
      <3> QED
        BY <3>1 DEF TameStep, Tame, Shrunk, Content
    <2> QED
      BY <1>1, <2>1, <2>2 DEF Sender, Sending, TameStep, Shrunk
  <1>5. Writer(u)'
    BY <1>1 DEF JobOK, Writer, TameStep, Tame, Protected, Saved
  <1> QED
    BY <1>1, <1>2, <1>3, <1>4, <1>5, PlaceStays DEF JobOK

\* A thread that neither downloads nor sends nor has written needs nothing.
LEMMA CalmOK ==
  ASSUME NEW t \in Threads, Place(t)', job'[t].pc \notin Loading \cup Sending, ~job'[t].changed
  PROVE  JobOK(t)'
  BY DEF JobOK, Writer, Sender, Loader, LoaderFile, Loading, Fetching, Sending

\* A tame step of one thread.
LEMMA TameKeeps ==
  ASSUME Typed, Copied, TameStep, row'.gen \in Nat, NEW t \in Threads,
         \A u \in Threads \ {t} : job'[u] = job[u], JobOK(t)',
         job'[t].kind = "upload" => job[t].kind = "upload"
  PROVE  Copied'
  <1>1. \A u \in Threads : JobOK(u)'
    BY TameOthers
  <1>2. OneUpload'
    BY DEF Copied, OneUpload
  <1> QED
    BY <1>1, <1>2, TameWorld DEF Copied

-----------------------------------------------------------------------------
(* Steps that leave their thread with nothing to lose.                     *)

CalmMove(t) ==
  \/ EnterCancelled(t) \/ BeginRefused(t) \/ FetchStopped(t) \/ RequestFails(t)
  \/ PublishRefused(t) \/ UseExisting(t) \/ Superseded(t) \/ Recomputed(t)
  \/ Abandon(t) \/ OpenCached(t) \/ OpenDeferred(t) \/ FirstRead(t)
  \/ ReadGeneration(t) \/ GotPinned(t) \/ GotRead(t) \/ LockRead(t)
  \/ LockWrite(t) \/ CloseRead(t) \/ SweepReleases(t) \/ KeepPinned(t)
  \/ SyncPins(t) \/ ListRetired(t) \/ ListDelta(t) \/ PruneCache(t)
  \/ KillCommand(t) \/ Repin(t) \/ PinPath(t) \/ UnpinPath(t)
  \/ ReleasePath(t) \/ ImportEntry(t) \/ DropRecord(t) \/ Reclaim(t)
  \/ \E kind \in FuseKinds : OpenFile(t, kind)

\* What such a step makes of its thread.
Calmed(t) ==
  /\ Place(t)' /\ job'[t].pc \notin Loading \cup Sending /\ ~job'[t].changed
  /\ job'[t].kind = "upload" => job[t].kind = "upload"

LEMMA CalmJob ==
  ASSUME Typed, Copied, Orderly', NEW t \in Threads, CalmMove(t)
  PROVE  Calmed(t)
  <1> USE DEF At, Calmed, Place, Loading, Sending
  <1>j. DOMAIN job = Threads /\ DOMAIN job[t] = JobFields /\ job[t].changed \in BOOLEAN
    BY DEF Typed, JobTyped
  <1>p. /\ Place(t) /\ (row.cache # None => row.cache \in Copies)
        /\ job'[t].kind # "trunc"
    BY DEF Copied, JobOK, Shaped, Orderly
  <1>f. ASSUME Fails(t) PROVE Calmed(t)
    BY <1>j, <1>f DEF Fails, Idle
  <1>s. ASSUME Stop(t) PROVE Calmed(t)
    BY <1>j, <1>s DEF Stop, Idle
  <1>g. ASSUME NEW pc \in {"upserted", "abandon", "enter", "drop", "repin", "look"},
               Goto(t, pc), job[t].pc # "open"
        PROVE  Calmed(t)
    BY <1>j, <1>p, <1>g DEF Goto, JobFields
  <1>b. ASSUME NEW k, k \notin {"upload"}, k = "write" => t \in Workers,
               NEW pc \in {"look", "repin", "drop"}, Start(t, k, pc)
        PROVE  Calmed(t)
    BY <1>j, <1>p, <1>b DEF Start, JobFields
  <1>1. CASE EnterCancelled(t) \/ BeginRefused(t) \/ Abandon(t)
    BY <1>1, <1>f DEF EnterCancelled, BeginRefused, Abandon
  <1>2. CASE GotPinned(t) \/ KillCommand(t) \/ DropRecord(t) \/ Reclaim(t)
    BY <1>2, <1>s DEF GotPinned, KillCommand, DropRecord, Reclaim
  <1>3. CASE Superseded(t) \/ Recomputed(t) \/ FirstRead(t) \/ ImportEntry(t)
             \/ PublishRefused(t)
    BY <1>3, <1>g DEF Superseded, Recomputed, FirstRead, ImportEntry, PublishRefused
  <1>4. CASE Repin(t) \/ SweepReleases(t)
    BY <1>4, <1>s, <1>g DEF Repin, SweepReleases
  <1>5. CASE KeepPinned(t) \/ SyncPins(t) \/ PinPath(t) \/ UnpinPath(t) \/ ReleasePath(t)
             \/ PruneCache(t)
    BY <1>5, <1>b DEF KeepPinned, SyncPins, PinPath, UnpinPath, ReleasePath, PruneCache
  <1>6. CASE \E kind \in FuseKinds : OpenFile(t, kind)
    BY <1>6, <1>b DEF OpenFile, Serves, FuseKinds
  <1>7. CASE FetchStopped(t) \/ RequestFails(t) \/ LockRead(t)
    BY <1>7, <1>p, <1>j DEF FetchStopped, RequestFails, LockRead, JobFields
  <1>8. CASE ListRetired(t) \/ ListDelta(t)
    BY <1>8, <1>p, <1>j DEF ListRetired, ListDelta, Serves, JobFields
  <1>9. CASE OpenCached(t) \/ OpenDeferred(t) \/ ReadGeneration(t)
    BY <1>9, <1>p, <1>j DEF OpenCached, OpenDeferred, ReadGeneration, Looked,
       HasExistingCache, JobFields
  <1>10. CASE UseExisting(t)
    BY <1>10, <1>p, <1>j DEF UseExisting, HasExistingCache, JobFields
  <1>11. CASE GotRead(t)
    BY <1>11, <1>f, <1>p, <1>j DEF GotRead, JobFields
  <1>12. CASE LockWrite(t)
    BY <1>12, <1>s, <1>p, <1>j DEF LockWrite, JobFields
  <1>13. CASE CloseRead(t)
    BY <1>13, <1>j DEF CloseRead, Idle
  <1> QED
    BY <1>1, <1>2, <1>3, <1>4, <1>5, <1>6, <1>7, <1>8, <1>9, <1>10, <1>11, <1>12, <1>13
       DEF CalmMove

\* The files after a step that removes one the row does not lead to.
LEMMA OneGone ==
  ASSUME Typed, Copied, NEW p, dir' = Without(dir, p), UNCHANGED <<data, body, local>>,
         row'.cache # None => row'.cache = row.cache /\ row.cache # p
  PROVE  Shrunk
  <1>1. /\ DOMAIN dir' = DOMAIN dir \ {p} /\ \A q \in DOMAIN dir' : dir'[q] = dir[q]
    BY FileGone
  <1>2. row.cache # None => row.cache \in DOMAIN dir
    BY DEF Copied, Whole, Exists
  <1> QED
    BY <1>1, <1>2 DEF Shrunk

LEMMA NoneGone ==
  ASSUME Copied, UNCHANGED <<dir, data, body, local>>, Tame(row, row')
  PROVE  Shrunk
  BY DEF Copied, Whole, Exists, Shrunk, Tame

\* Such a step leaves the row, the files and the cloud in order.
LEMMA CalmShared ==
  ASSUME Typed, Copied, NotTorn, NEW t \in Threads, CalmMove(t)
  PROVE  Tame(row, row') /\ Shrunk
  <1> USE DEF history, At, Free
  <1>r. /\ Latest \in Nat /\ RowTyped(row, Latest, Paths) /\ Shaped(row) /\ Latest \in 1..Latest
    BY RowIs DEF Copied
  <1>j. JobTyped(t)
    BY DEF Typed
  <1>k. budget \in [Kinds -> Nat]
    BY DEF Typed
  <1>1. CASE \/ EnterCancelled(t) \/ BeginRefused(t) \/ FetchStopped(t) \/ RequestFails(t)
             \/ PublishRefused(t) \/ OpenCached(t) \/ OpenDeferred(t) \/ FirstRead(t)
             \/ ReadGeneration(t) \/ GotPinned(t) \/ GotRead(t) \/ LockRead(t)
             \/ LockWrite(t) \/ CloseRead(t) \/ SweepReleases(t) \/ KeepPinned(t)
             \/ SyncPins(t) \/ ListRetired(t) \/ ListDelta(t) \/ PruneCache(t)
             \/ \E kind \in FuseKinds : OpenFile(t, kind)
    <2>1. UNCHANGED <<row, dir, data, body, local>>
      BY <1>1 DEF EnterCancelled, BeginRefused, FetchStopped, RequestFails, PublishRefused,
         OpenCached, OpenDeferred, FirstRead, ReadGeneration, GotPinned, GotRead, LockRead,
         LockWrite, CloseRead, SweepReleases, KeepPinned, SyncPins, ListRetired, ListDelta,
         PruneCache, OpenFile, store
    <2>2. Tame(row, row')
      BY <1>r, <2>1, TameRows
    <2> QED
      BY <2>1, <2>2, NoneGone
  <1>2. CASE KillCommand(t)
    <2>1. /\ UNCHANGED <<row, data, body, local>> /\ Spend("kill")
      BY <1>2 DEF KillCommand
    <2>2. dir' = dir
      BY <1>k, <2>1, SpendTyped DEF NotTorn, Kinds
    <2>3. Tame(row, row')
      BY <1>r, <2>1, TameRows
    <2> QED
      BY <2>1, <2>2, <2>3, NoneGone
  <1>3. CASE \/ UseExisting(t) \/ Superseded(t) \/ ImportEntry(t) \/ Recomputed(t) \/ Repin(t)
             \/ PinPath(t) \/ UnpinPath(t) \/ ReleasePath(t)
    <2>1. UNCHANGED <<dir, data, body, local>>
      BY <1>3 DEF UseExisting, Superseded, ImportEntry, Recomputed, Repin, PinPath, UnpinPath,
         ReleasePath, Import, store
    <2>2. \/ row' = [row EXCEPT !.fresh = TRUE] \/ row' = Recompute(row)
          \/ row' = SetPin(row, TRUE) \/ row' = SetPin(row, FALSE) \/ row' = Released(row)
          \/ \E e \in 1..Latest : row' = Imported(row, e)
      <3>1. job[t].pc = "import" => job[t].etag \in 1..Latest
        BY <1>j, <1>r DEF JobTyped
      <3> QED
        BY <1>3, <1>r, <3>1 DEF UseExisting, Superseded, ImportEntry, Recomputed, Repin, PinPath,
           UnpinPath, ReleasePath, Import
    <2>3. Tame(row, row')
      BY <1>r, <2>2, TameRows, TameMarks, TameImported, TameReleased
    <2> QED
      BY <2>1, <2>3, NoneGone
  <1>4. CASE Abandon(t)
    <2>1. /\ row' = Failed(row, job[t].gen) /\ dir' = Without(dir, Partial(job[t].gen))
          /\ UNCHANGED <<data, body, local>>
      BY <1>4 DEF Abandon
    <2>2. Tame(row, row')
      BY <1>r, <2>1, TameRows
    <2>3. row.cache # None => row.cache # Partial(job[t].gen)
      BY <1>r, <1>j, CopiesAre DEF Shaped, JobTyped
    <2>4. row'.cache # None => row'.cache = row.cache
      BY <2>2 DEF Tame
    <2> QED
      BY <2>1, <2>2, <2>3, <2>4, OneGone
  <1>5. CASE DropRecord(t)
    <2>1. CASE Droppable(t)
      <3>1. /\ row' = Dropped(row) /\ dir' = Without(dir, row.cache) /\ MayDrop(row)
            /\ UNCHANGED <<data, body, local>>
        BY <1>5, <2>1 DEF DropRecord, RemoveFile, Droppable
      <3>2. Tame(row, row')
        BY <1>r, <3>1, TameRows
      <3>3. row'.cache = None
        BY <1>r, <3>1 DEF Dropped, RowTyped, RowFields
      <3> QED
        BY <3>1, <3>2, <3>3, OneGone
    <2>2. CASE ~Droppable(t)
      <3>1. UNCHANGED <<row, dir, data, body, local>>
        BY <1>5, <2>2 DEF DropRecord, store
      <3>2. Tame(row, row')
        BY <1>r, <3>1, TameRows
      <3> QED
        BY <3>1, <3>2, NoneGone
    <2> QED
      BY <2>1, <2>2
  <1>6. CASE Reclaim(t)
    <2>1. UNCHANGED <<row, data, body, local>>
      BY <1>6 DEF Reclaim
    <2>2. Tame(row, row')
      BY <1>r, <2>1, TameRows
    <2>3. dir' = dir \/ (dir' = Without(dir, job[t].path) /\ row.cache # job[t].path)
      BY <1>6 DEF Reclaim, Unreferenced
    <2> QED
      BY <2>1, <2>2, <2>3, OneGone, NoneGone
  <1> QED
    BY <1>1, <1>2, <1>3, <1>4, <1>5, <1>6 DEF CalmMove

LEMMA CalmKeeps ==
  ASSUME Typed, Copied, NotTorn, Orderly', NEW t \in Threads, ThreadStep(t), CalmMove(t)
  PROVE  Copied'
  <1>1. (\A u \in Threads \ {t} : job'[u] = job[u]) /\ row'.gen \in Nat
    BY ThreadStepTyped DEF StepTyped, Grown
  <1>2. Calmed(t)
    BY CalmJob
  <1>3. TameStep
    BY <1>1, <1>2, CalmShared DEF TameStep, NoNewSends, Calmed
  <1>4. JobOK(t)'
    BY <1>2, CalmOK DEF Calmed
  <1> QED
    BY <1>1, <1>2, <1>3, <1>4, TameKeeps DEF Calmed

-----------------------------------------------------------------------------
(* Downloads.                                                              *)

\* The steps of a download that change neither the row nor a file.
LoadMove(t) == NeedDownload(t) \/ Verified(t) \/ Fetched(t) \/ Confirm(t)

\* What they leave to the thread itself.
LEMMA LoadJob ==
  ASSUME Typed, Copied, NEW t \in Threads, LoadMove(t),
         UNCHANGED <<row, dir, data, body>>
  PROVE  /\ Loader(t)' /\ LoaderFile(t)'
         /\ job'[t].kind = job[t].kind /\ job'[t].path = job[t].path
         /\ job'[t].changed = job[t].changed /\ job[t].pc # "open"
         /\ job'[t].pc \in {"begin", "fetch", "confirm", "publish", "abandon"}
  <1> USE DEF At
  <1>j. JobTyped(t) /\ DOMAIN job[t] = JobFields /\ DOMAIN job = Threads
    BY DEF Typed, JobTyped
  <1>r. /\ Latest \in Nat /\ RowTyped(row, Latest, Paths) /\ Latest' = Latest
        /\ row.etag \in 1..Latest
    BY RowIs DEF Latest, RowTyped, TypeRow
  <1>o. Loader(t) /\ LoaderFile(t)
    BY DEF Copied, JobOK
  <1>1. CASE NeedDownload(t)
    <2>1. /\ job[t].pc = "enter" /\ job[t].gen = row.gen /\ ~HasExistingCache(row)
          /\ job'[t] = [job[t] EXCEPT !.pc = "begin", !.etag = row.etag]
      BY <1>1, <1>j DEF NeedDownload
    <2>2. ASSUME row.cache # None
          PROVE  row.state = "conflict"
      <3>1. Exists(row.cache) /\ (Clean(row) => Len(Content(row.cache)) = Size(row))
        BY <2>2 DEF Copied, Whole, Size
      <3> QED
        BY <2>1, <2>2, <3>1 DEF HasExistingCache, Copied, Shaped, Clean, Protected
    <2>3. /\ job'[t].pc = "begin" /\ job'[t].etag = row.etag /\ job'[t].gen = row.gen
          /\ job'[t].kind = job[t].kind /\ job'[t].path = job[t].path
          /\ job'[t].changed = job[t].changed
      BY <1>j, <2>1 DEF JobFields
    <2>4. row.cache # None =>
            /\ row.state \in Protected /\ row.etag < Latest
            /\ \A u \in Threads : job'[u].pc # "commit"
      <3>1. \A u \in Threads : job'[u] = job[u] \/ job'[u].pc = "begin"
        BY <1>1, <1>j, <2>3 DEF NeedDownload
      <3> QED
        BY <2>2, <3>1 DEF Copied, Refused, Protected, Sending
    <2>5. Loader(t)'
      BY <1>r, <2>3, <2>4 DEF Loader, Loading
    <2> QED
      BY <2>1, <2>3, <2>5 DEF LoaderFile, Fetching
  <1>2. CASE Verified(t)
    <2>1. job[t].pc = "verify" /\ job'[t] = [job[t] EXCEPT !.pc = "fetch"]
      BY <1>2, <1>j DEF Verified, Goto
    <2>2. /\ job'[t].pc = "fetch" /\ job'[t].etag = job[t].etag /\ job'[t].gen = job[t].gen
          /\ job'[t].kind = job[t].kind /\ job'[t].path = job[t].path
          /\ job'[t].changed = job[t].changed /\ job'[t].fd = job[t].fd
          /\ job'[t].blocks = job[t].blocks
      BY <1>j, <2>1 DEF JobFields
    <2> QED
      BY <1>o, <1>r, <2>1, <2>2 DEF Loader, LoaderFile, Loading, Fetching
  <1>3. CASE Fetched(t)
    <2> DEFINE s == data[job[t].fd]
               p == Partial(job[t].gen)
    <2>1. /\ job[t].pc = "fetch" /\ job'[t] = [job[t] EXCEPT !.pc = "confirm", !.fd = None]
          /\ job[t].blocks = Len(body[job[t].etag])
      BY <1>3, <1>j DEF Fetched
    <2>2. /\ job'[t].pc = "confirm" /\ job'[t].etag = job[t].etag /\ job'[t].gen = job[t].gen
          /\ job'[t].kind = job[t].kind /\ job'[t].path = job[t].path
          /\ job'[t].changed = job[t].changed
      BY <1>j, <2>1 DEF JobFields
    <2>3. ASSUME job[t].etag = Latest, Exists(p)
          PROVE  Content(p) = body[Latest]
      <3>1. s \in Seq(Nat) /\ body[Latest] \in Seq(Nat)
        <4>1. job[t].fd \in Inodes /\ Latest \in 1..Latest /\ Latest = Len(body)
          BY <1>o, <2>1, RowIs DEF LoaderFile, Fetching, Latest
        <4> QED
          BY <4>1, ElementOfSeq DEF Typed, FilesTyped, CloudTyped, Contents
      <3>2. Len(s) = Len(body[Latest]) /\ \A n \in 1..Len(s) : s[n] = body[Latest][n]
        BY <1>o, <2>1, <2>3 DEF LoaderFile, Fetching
      <3>3. s = body[Latest]
        BY <3>1, <3>2, SeqEqual
      <3>4. dir[p] = job[t].fd
        BY <1>o, <2>1, <2>3 DEF LoaderFile, Fetching, Exists
      <3> QED
        BY <3>3, <3>4 DEF Content
    <2>4. LoaderFile(t)'
      <3>1. job[t].etag = Latest /\ Exists(p) => data'[dir'[p]] = body'[Latest]
        BY <2>3 DEF Content
      <3> QED
        BY <1>r, <2>2, <3>1 DEF LoaderFile, Fetching, Exists, Content
    <2> QED
      BY <1>o, <1>r, <2>1, <2>2, <2>4 DEF Loader, Loading
  <1>4. CASE Confirm(t)
    <2>1. PICK pc \in {"publish", "abandon"} : job'[t] = [job[t] EXCEPT !.pc = pc]
      BY <1>4, <1>j DEF Confirm, Goto
    <2>2. job[t].pc = "confirm" /\ job[t].etag = Latest
      BY <1>4 DEF Confirm
    <2>3. /\ job'[t].pc = pc /\ job'[t].etag = job[t].etag /\ job'[t].gen = job[t].gen
          /\ job'[t].kind = job[t].kind /\ job'[t].path = job[t].path
          /\ job'[t].changed = job[t].changed
      BY <1>j, <2>1 DEF JobFields
    <2>4. LoaderFile(t)'
      BY <1>o, <1>r, <2>2, <2>3 DEF LoaderFile, Fetching, Exists, Content
    <2> QED
      BY <1>o, <1>r, <2>2, <2>3, <2>4 DEF Loader, Loading
  <1> QED
    BY <1>1, <1>2, <1>3, <1>4 DEF LoadMove

LEMMA LoadKeeps ==
  ASSUME Typed, Copied, NEW t \in Threads, ThreadStep(t), LoadMove(t)
  PROVE  Copied'
  <1>1. (\A u \in Threads \ {t} : job'[u] = job[u]) /\ row'.gen \in Nat
    BY ThreadStepTyped DEF StepTyped, Grown
  <1>2. UNCHANGED <<row, dir, data, body, local>>
    BY DEF LoadMove, NeedDownload, Verified, Fetched, Confirm, store, history
  <1>3. /\ Loader(t)' /\ LoaderFile(t)'
        /\ job'[t].kind = job[t].kind /\ job'[t].path = job[t].path
        /\ job'[t].changed = job[t].changed /\ job[t].pc # "open"
        /\ job'[t].pc \in {"begin", "fetch", "confirm", "publish", "abandon"}
    BY <1>2, LoadJob
  <1>4. Place(t)' /\ Writer(t)' /\ Sender(t)'
    BY <1>3 DEF Copied, JobOK, Place, Writer, Sender, Sending
  <1>5. JobOK(t)'
    BY <1>3, <1>4 DEF JobOK
  <1>6. TameStep
    <2>1. Tame(row, row') /\ Shrunk
      BY <1>2, RowIs, TameRows, NoneGone DEF Copied
    <2> QED
      BY <1>1, <1>3, <2>1 DEF TameStep, NoNewSends, Sending
  <1> QED
    BY <1>1, <1>3, <1>5, <1>6, TameKeeps

\* While a thread downloads for a row that waits for no upload, nobody else has
\* anything to lose.
LEMMA OthersRest ==
  ASSUME Copied, OneDownload, row.state \notin Protected,
         NEW t \in Threads, job[t].pc \in Downloading,
         \A u \in Threads \ {t} : job'[u] = job[u]
  PROVE  \A u \in Threads \ {t} : JobOK(u)'
  <1> SUFFICES ASSUME NEW u \in Threads \ {t} PROVE JobOK(u)'
    OBVIOUS
  <1>1. JobOK(u) /\ job'[u] = job[u]
    BY DEF Copied
  <1>2. job[u].pc \notin Loading
    BY DEF OneDownload, Loading, Downloading
  <1>3. job[u].pc \notin Sending /\ ~job[u].changed
    BY <1>1 DEF JobOK, Sender, Writer, Protected, Saved
  <1>4. Place(u)'
    BY <1>1, PlaceStays
  <1> QED
    BY <1>1, <1>2, <1>3, <1>4, CalmOK

\* A name that an open leads to is a file's only one, as before.
LEMMA NamedInjective ==
  ASSUME Typed, Injective, NEW p \in Paths, CanOpen(p), dir' = With(dir, p, Opened(p))
  PROVE  /\ Injective' /\ dir'[p] = Opened(p) /\ DOMAIN dir' = DOMAIN dir \cup {p}
         /\ \A q \in DOMAIN dir : dir'[q] = dir[q]
         /\ \A q \in DOMAIN dir' : dir'[q] = Opened(p) <=> q = p
  <1>1. /\ Opened(p) \in Inodes
        /\ Exists(p) => Opened(p) = dir[p]
        /\ ~Exists(p) => \A q \in DOMAIN dir : dir[q] # Opened(p)
    BY OpenedIs
  <1>2. /\ DOMAIN dir' = DOMAIN dir \cup {p} /\ dir'[p] = Opened(p)
        /\ \A q \in DOMAIN dir : q # p => dir'[q] = dir[q]
    BY <1>1, FileNamed
  <1>3. \A q \in DOMAIN dir' : dir'[q] = Opened(p) <=> q = p
    BY <1>1, <1>2 DEF Exists, Injective
  <1>4. Injective'
    BY <1>2, <1>3 DEF Injective
  <1> QED
    BY <1>1, <1>2, <1>3, <1>4 DEF Exists

\* A download begins: its partial file is empty.
LEMMA BeginKeeps ==
  ASSUME Typed, Copied, OneDownload, NEW t \in Threads, ThreadStep(t), BeginDownload(t)
  PROVE  Copied'
  <1> DEFINE p == Partial(job[t].gen)
             i == Opened(p)
  <1>j. JobTyped(t) /\ DOMAIN job[t] = JobFields /\ DOMAIN job = Threads
    BY DEF Typed, JobTyped
  <1>r. /\ Latest \in Nat /\ RowTyped(row, Latest, Paths) /\ row.etag \in 1..Latest
        /\ \A g \in 0..row.gen : Partial(g) \in Paths
    BY RowIs DEF RowTyped, TypeRow
  <1>1. /\ job[t].pc = "begin" /\ MayBegin(row, job[t].gen) /\ row' = Begun(row) /\ CanOpen(p)
        /\ dir' = With(dir, p, i) /\ data' = [data EXCEPT ![i] = <<>>]
        /\ job' = [job EXCEPT ![t].pc = "verify", ![t].fd = i, ![t].blocks = 0]
        /\ UNCHANGED <<body, local>>
    BY DEF BeginDownload, At, history
  <1>2. /\ job[t].gen = row.gen /\ row.state \notin Protected
    BY <1>1 DEF MayBegin, Protected, Saved
  <1>3. JobOK(t)
    BY DEF Copied
  <1>4. row.cache = None
    BY <1>1, <1>2, <1>3 DEF JobOK, Loader
  <1>5. /\ row'.cache = None /\ row'.etag = row.etag /\ row'.gen = row.gen
        /\ row'.state \in {"pinned", "hydrating"}
    BY <1>1, <1>r DEF Begun, RowTyped, RowFields
  <1>6. p \in Paths
    BY <1>j, <1>r DEF JobTyped
  <1>7. i \in Inodes /\ data \in [Inodes -> Contents]
    BY <1>1, OpenedIs DEF Typed, FilesTyped
  <1>8. Injective' /\ \A q \in DOMAIN dir' : dir'[q] = i <=> q = p
    BY <1>1, <1>6, NamedInjective DEF Copied
  <1> HIDE DEF i, p
  <1>9. /\ job'[t].pc = "verify" /\ job'[t].fd = i /\ job'[t].blocks = 0
        /\ job'[t].etag = job[t].etag /\ job'[t].gen = job[t].gen
        /\ job'[t].kind = job[t].kind /\ job'[t].changed = job[t].changed
        /\ job'[t].path = job[t].path
        /\ \A u \in Threads \ {t} : job'[u] = job[u]
    BY <1>1, <1>j DEF JobFields
  <1>10. \A u \in Threads \ {t} : JobOK(u)'
    BY <1>1, <1>2, <1>9, OthersRest DEF Downloading
  <1>11. LoaderFile(t)'
    <2>1. data'[i] = <<>> /\ Len(<<>>) = 0
      BY <1>1, <1>7, EmptyIsContents
    <2>2. p = Partial(job'[t].gen)
      BY <1>9 DEF p
    <2> QED
      BY <1>7, <1>8, <1>9, <2>1, <2>2 DEF LoaderFile, Fetching
  <1>12. Loader(t)'
    <2>1. job[t].etag = row.etag /\ Latest' = Latest
      BY <1>1, <1>2, <1>3 DEF JobOK, Loader, Loading, Latest
    <2> QED
      BY <1>r, <1>5, <1>9, <2>1 DEF Loader, Loading
  <1>13. Place(t)' /\ Writer(t)' /\ Sender(t)'
    BY <1>1, <1>3, <1>9 DEF JobOK, Place, Writer, Sender, Sending
  <1>14. Shaped(row)' /\ Refused' /\ Whole'
    BY <1>5 DEF Shaped, Refused, Whole, Protected, Saved
  <1>15. LocalBytes'
    BY <1>1, <1>2 DEF Copied, LocalBytes
  <1>16. OneUpload'
    BY <1>9 DEF Copied, OneUpload
  <1> QED
    BY <1>8, <1>10, <1>11, <1>12, <1>13, <1>14, <1>15, <1>16 DEF Copied, JobOK

\* A range arrives: it goes to the download's own file.
LEMMA FetchKeeps ==
  ASSUME Typed, Copied, OneDownload, NEW t \in Threads, ThreadStep(t), Fetch(t)
  PROVE  Copied'
  <1> DEFINE i == job[t].fd
             s == data[i]
             k == job[t].blocks + 1
             v == body[Latest][k]
             p == Partial(job[t].gen)
  <1>j. JobTyped(t) /\ DOMAIN job[t] = JobFields /\ DOMAIN job = Threads
    BY DEF Typed, JobTyped
  <1>r. Latest \in Nat /\ Latest \in 1..Latest /\ RowTyped(row, Latest, Paths)
    BY RowIs
  <1>1. /\ job[t].pc = "fetch" /\ k <= Len(body[Latest])
        /\ data' = [data EXCEPT ![i] = WriteAt(s, k, v)]
        /\ job' = [job EXCEPT ![t].blocks = k]
        /\ UNCHANGED <<row, dir, body, local>>
    BY DEF Fetch, At, history
  <1>2. JobOK(t)
    BY DEF Copied
  <1>3. /\ i \in Inodes /\ (\A q \in DOMAIN dir : dir[q] = i <=> q = p) /\ job[t].blocks = Len(s)
        /\ job[t].etag = Latest =>
             \A n \in 1..job[t].blocks : n <= Len(body[Latest]) /\ s[n] = body[Latest][n]
    BY <1>1, <1>2 DEF JobOK, LoaderFile, Fetching
  <1>4. s \in Contents /\ body[Latest] \in Contents
    BY <1>3, <1>r, ElementOfSeq DEF Typed, FilesTyped, CloudTyped, Latest
  <1>5. k \in Nat \ {0} /\ v \in Nat /\ Len(s) \in Nat /\ k = Len(s) + 1
    <2>1. Len(s) \in Nat /\ Len(body[Latest]) \in Nat
      BY <1>4, LenProperties DEF Contents
    <2>2. k \in 1..Len(body[Latest])
      BY <1>1, <1>3, <2>1
    <2>3. k = Len(s) + 1
      BY <1>3
    <2> HIDE DEF k, s
    <2>4. v \in Nat
      BY <1>4, <2>2, ElementOfSeq DEF Contents
    <2> HIDE DEF v
    <2> QED
      BY <2>1, <2>2, <2>3, <2>4
  <1> HIDE DEF k, v, s
  <1>6. LET w == WriteAt(s, k, v)
        IN Len(w) = k /\ w[k] = v /\ \A n \in 1..Len(s) : w[n] = s[n]
    BY <1>4, <1>5, WriteAtIs
  <1>7. data'[i] = WriteAt(s, k, v) /\ \A n \in Inodes : n # i => data'[n] = data[n]
    BY <1>1, <1>3 DEF Typed, FilesTyped
  <1>8. /\ job'[t].pc = "fetch" /\ job'[t].fd = i /\ job'[t].blocks = k
        /\ job'[t].etag = job[t].etag /\ job'[t].gen = job[t].gen
        /\ job'[t].kind = job[t].kind /\ job'[t].changed = job[t].changed
        /\ job'[t].path = job[t].path
        /\ \A u \in Threads \ {t} : job'[u] = job[u]
    BY <1>1, <1>j DEF JobFields
  <1>9. LoaderFile(t)'
    <2>1. ASSUME job[t].etag = Latest, NEW n \in 1..k
          PROVE  n <= Len(body[Latest]) /\ data'[i][n] = body[Latest][n]
      <3>1. CASE n = k
        BY <1>1, <1>6, <1>7, <3>1 DEF v
      <3>2. CASE n # k
        <4>1. n \in 1..Len(s) /\ n \in 1..job[t].blocks
          BY <1>3, <1>5, <3>2
        <4> QED
          BY <1>3, <1>6, <1>7, <2>1, <4>1
      <3> QED
        BY <3>1, <3>2
    <2>2. Latest' = Latest /\ p = Partial(job'[t].gen) /\ Len(data'[i]) = k
      BY <1>1, <1>6, <1>7, <1>8 DEF Latest
    <2>3. (\A q \in DOMAIN dir' : dir'[q] = i <=> q = p) /\ body'[Latest'] = body[Latest]
      BY <1>1, <1>3, <2>2
    <2> HIDE DEF p, i
    <2> QED
      BY <1>3, <1>8, <2>1, <2>2, <2>3 DEF LoaderFile, Fetching
  <1>10. row.cache # None => Exists(row.cache) /\ Content(row.cache)' = Content(row.cache)
    <2>1. ASSUME row.cache # None
          PROVE  Exists(row.cache) /\ row.cache # p /\ dir[row.cache] \in Inodes
      <3>1. row.cache \in Copies /\ Exists(row.cache) /\ job[t].gen \in Nat
        BY <2>1, <1>j, RowIs DEF Copied, Shaped, Whole, JobTyped, IsRow
      <3> QED
        BY <3>1, CopiesAre, ContentTyped
    <2>2. ASSUME row.cache # None
          PROVE  dir[row.cache] # i
      BY <1>3, <2>1, <2>2 DEF Exists
    <2> QED
      BY <1>1, <1>7, <2>1, <2>2 DEF Content
  <1>11. ASSUME NEW u \in Threads \ {t} PROVE JobOK(u)'
    <2>1. JobOK(u) /\ job'[u] = job[u] /\ Latest' = Latest
      BY <1>1, <1>8 DEF Copied, Latest
    <2>2. job[u].pc \notin Loading
      BY <1>1 DEF OneDownload, Loading, Downloading
    <2>3. Loader(u)' /\ LoaderFile(u)'
      BY <2>1, <2>2 DEF Loader, LoaderFile, Loading, Fetching
    <2>4. Writer(u)' /\ Place(u)'
      BY <1>1, <2>1, PlaceStays DEF JobOK, Writer
    <2>5. Sender(u)'
      <3>1. job[u].pc \in Sending => row.cache # None
        BY <2>1 DEF JobOK, Sender, Copied, Shaped, Protected
      <3> QED
        BY <1>1, <1>10, <2>1, <3>1 DEF JobOK, Sender, Sending
    <2> QED
      BY <2>3, <2>4, <2>5 DEF JobOK
  <1>12. Loader(t)'
    <2>1. Latest' = Latest
      BY <1>1 DEF Latest
    <2> QED
      BY <1>1, <1>2, <1>8, <2>1 DEF JobOK, Loader, Loading
  <1>13. Place(t)' /\ Writer(t)' /\ Sender(t)'
    BY <1>1, <1>2, <1>8 DEF JobOK, Place, Writer, Sender, Sending
  <1>14. Shaped(row)' /\ Refused' /\ Injective'
    <2>1. \A u \in Threads : job'[u].pc = job[u].pc
      BY <1>1, <1>8
    <2> QED
      BY <1>1, <2>1 DEF Copied, Shaped, Refused, Injective, Latest, Clean
  <1>15. Whole' /\ LocalBytes'
    BY <1>1, <1>10 DEF Copied, Whole, LocalBytes, Exists, Clean
  <1>16. OneUpload'
    BY <1>8 DEF Copied, OneUpload
  <1> QED
    BY <1>9, <1>11, <1>12, <1>13, <1>14, <1>15, <1>16 DEF Copied, JobOK

\* The partial file becomes the row's copy.
LEMMA PublishKeeps ==
  ASSUME Typed, Copied, OneDownload, NEW t \in Threads, ThreadStep(t), Publish(t)
  PROVE  Copied'
  <1> DEFINE g == job[t].gen
             p == Partial(g)
             d == Download(g)
  <1>j. JobTyped(t) /\ DOMAIN job[t] = JobFields /\ DOMAIN job = Threads
    BY DEF Typed, JobTyped
  <1>r. /\ Latest \in Nat /\ RowTyped(row, Latest, Paths) /\ row.gen \in Nat
    BY RowIs DEF IsRow
  <1>1. /\ job[t].pc = "publish" /\ MayFinish(row, g) /\ p \in DOMAIN dir
        /\ row' = Finished(row, g) /\ dir' = Without(With(dir, d, dir[p]), p)
        /\ job' = [job EXCEPT ![t].pc = "got", ![t].path = d]
        /\ UNCHANGED <<data, body, local>>
    BY DEF Publish, Publishable, Exists, At, history
  <1>2. g = row.gen /\ row.state \notin Protected /\ JobOK(t)
    BY <1>1 DEF MayFinish, Protected, Saved, Copied
  <1>3. data[dir[p]] = body[row.etag]
    BY <1>1, <1>2 DEF JobOK, Loader, LoaderFile, Loading, Exists, Content
  <1>4. /\ row'.cache = d /\ row'.etag = row.etag /\ row'.state \in {"pinned", "cached"}
    BY <1>1, <1>r DEF Finished, RowTyped, RowFields
  <1>5. d # None /\ d # p /\ d \in Copies
    <2>1. d \in Copies
      BY <1>2, <1>r DEF Copies
    <2> QED
      BY <1>2, <1>r, <2>1, CopiesAre
  <1>6. /\ DOMAIN dir' = (DOMAIN dir \cup {d}) \ {p} /\ dir'[d] = dir[p]
        /\ \A q \in DOMAIN dir' : q # d => q \in DOMAIN dir /\ q # p /\ dir'[q] = dir[q]
    BY <1>1, <1>5 DEF With, Without
  <1>7. Injective'
    BY <1>1, <1>6 DEF Copied, Injective
  <1>8. /\ job'[t].pc = "got" /\ job'[t].path = d
        /\ job'[t].kind = job[t].kind /\ job'[t].changed = job[t].changed
        /\ \A u \in Threads \ {t} : job'[u] = job[u]
    BY <1>1, <1>j DEF JobFields
  <1>9. \A u \in Threads \ {t} : JobOK(u)'
    BY <1>1, <1>2, <1>8, OthersRest DEF Downloading
  <1> HIDE DEF d, p, g
  <1>10. JobOK(t)'
    <2>1. Place(t)' /\ ~job'[t].changed /\ job'[t].pc \notin Loading \cup Sending
      BY <1>1, <1>2, <1>5, <1>8 DEF JobOK, Place, Loading, Sending
    <2> QED
      BY <2>1, CalmOK
  <1>11. Shaped(row)' /\ Refused' /\ Whole'
    <2>1. Exists(row.cache)' /\ Content(row.cache)' = body'[row'.etag]
      BY <1>1, <1>3, <1>4, <1>5, <1>6 DEF Exists, Content
    <2> QED
      BY <1>4, <1>5, <2>1 DEF Shaped, Refused, Whole, Clean, Protected, Saved
  <1>12. LocalBytes'
    BY <1>1, <1>2 DEF Copied, LocalBytes
  <1>13. OneUpload'
    BY <1>8 DEF Copied, OneUpload
  <1> QED
    BY <1>7, <1>9, <1>10, <1>11, <1>12, <1>13 DEF Copied

-----------------------------------------------------------------------------
(* Writing.                                                                *)

\* What a step that leaves the row alone leaves to another thread.
LEMMA RowSameOthers ==
  ASSUME Typed, Copied, UNCHANGED <<row, body>>, NoNewSends,
         row.state = "uploading" => Content(row.cache)' = Content(row.cache),
         NEW u \in Threads, job'[u] = job[u], job[u].pc \in Loading => Apart(u)
  PROVE  JobOK(u)'
  <1>1. /\ JobOK(u) /\ Latest \in Nat /\ Latest' = Latest /\ Later
        /\ row'.gen \in Nat /\ row'.gen >= row.gen
    BY RowIs DEF Copied, Latest, Later, IsRow
  <1>2. LoaderFile(u)'
    <2>1. CASE job[u].pc \in Loading
      BY <1>1, <2>1, LoaderFileStays
    <2>2. CASE job[u].pc \notin Loading
      BY <2>2 DEF LoaderFile, Loading, Fetching
    <2> QED
      BY <2>1, <2>2
  <1>3. Loader(u)'
    <2>1. NoNewCommits
      BY DEF NoNewCommits, NoNewSends, Sending
    <2> QED
      BY <1>1, <2>1, LoaderStays
  <1>4. Sender(u)' /\ Writer(u)'
    BY <1>1 DEF JobOK, Sender, Writer, Sending
  <1> QED
    BY <1>1, <1>2, <1>3, <1>4, PlaceStays DEF JobOK

\* A writer opens what its download left, or makes the file again.
LEMMA GotWriteKeeps ==
  ASSUME Typed, Copied, NEW t \in Threads, ThreadStep(t), GotWrite(t)
  PROVE  Copied'
  <1> DEFINE p == job[t].path
             i == Opened(p)
  <1>j. JobTyped(t) /\ DOMAIN job[t] = JobFields /\ DOMAIN job = Threads
    BY DEF Typed, JobTyped
  <1>1. /\ job[t].pc = "got" /\ job[t].kind = "write" /\ CanOpen(p) /\ dir' = With(dir, p, i)
        /\ data' = IF Exists(p) THEN data ELSE [data EXCEPT ![i] = <<>>]
        /\ job' = [job EXCEPT ![t].pc = "lock", ![t].fd = i, ![t].blocks = 0]
        /\ UNCHANGED <<row, body, local>>
    BY DEF GotWrite, At, history
  <1>2. JobOK(t) /\ p \in Copies /\ p \in Paths
    BY <1>1, <1>j DEF Copied, JobOK, Place, JobTyped
  <1>3. /\ Injective' /\ DOMAIN dir' = DOMAIN dir \cup {p} /\ dir'[p] = i
        /\ \A q \in DOMAIN dir : dir'[q] = dir[q]
    BY <1>1, <1>2, NamedInjective DEF Copied
  <1>4. ~Exists(p) => /\ \A q \in DOMAIN dir : dir[q] # i
                      /\ \A u \in Threads : job[u].fd # i
    BY <1>1, OpenedIs
  <1>5. /\ \A q \in DOMAIN dir : data'[dir[q]] = data[dir[q]]
        /\ \A u \in Threads : data'[job[u].fd] = data[job[u].fd]
    BY <1>1, <1>4
  <1> HIDE DEF i, p
  <1>6. /\ job'[t].pc = "lock" /\ job'[t].path = p
        /\ job'[t].kind = job[t].kind /\ job'[t].changed = job[t].changed
        /\ \A u \in Threads \ {t} : job'[u] = job[u]
    BY <1>1, <1>j DEF JobFields, p
  <1>7. row.cache # None => /\ Exists(row.cache) /\ Exists(row.cache)'
                            /\ Content(row.cache)' = Content(row.cache)
    BY <1>1, <1>3, <1>5 DEF Copied, Whole, Exists, Content
  <1>8. ASSUME NEW u \in Threads \ {t} PROVE JobOK(u)'
    <2>1. job[u].gen \in Nat
      BY RowIs DEF Typed, JobTyped, IsRow
    <2>2. p # Partial(job[u].gen)
      BY <1>2, <2>1, CopiesAre
    <2>3. Apart(u)
      <3>1. ASSUME NEW q \in DOMAIN dir'
            PROVE  \/ q \in DOMAIN dir /\ dir'[q] = dir[q]
                   \/ q # Partial(job[u].gen) /\ dir'[q] # job[u].fd
        BY <1>3, <1>4, <2>2, <3>1 DEF Exists
      <3> QED
        BY <1>5, <3>1 DEF Apart, Exists
    <2>4. NoNewSends /\ (row.state = "uploading" => row.cache # None)
      BY <1>6 DEF NoNewSends, Sending, Copied, Shaped, Protected, Saved
    <2> QED
      BY <1>1, <1>6, <1>7, <2>3, <2>4, RowSameOthers
  <1>9. JobOK(t)'
    <2>1. Place(t)' /\ ~job'[t].changed /\ job'[t].pc \notin Loading \cup Sending
      BY <1>1, <1>2, <1>6 DEF JobOK, Place, Loading, Sending
    <2> QED
      BY <2>1, CalmOK
  <1>10. Shaped(row)' /\ Refused' /\ Whole'
    <2>1. \A u \in Threads : job'[u].pc \in Sending => job[u].pc \in Sending
      BY <1>6 DEF Sending
    <2> QED
      BY <1>1, <1>7, <2>1 DEF Copied, Shaped, Refused, Whole, Clean, Latest
  <1>11. LocalBytes'
    BY <1>1, <1>7 DEF Copied, LocalBytes
  <1>12. OneUpload'
    BY <1>6 DEF Copied, OneUpload
  <1> QED
    BY <1>3, <1>8, <1>9, <1>10, <1>11, <1>12 DEF Copied

\* A write goes to the row's copy, which nobody downloads.
LEMMA WriteKeeps ==
  ASSUME Typed, Copied, NEW t \in Threads, ThreadStep(t), Write(t)
  PROVE  Copied'
  <1> DEFINE p == job[t].path
             i == dir[p]
  <1>j. JobTyped(t) /\ DOMAIN job[t] = JobFields /\ DOMAIN job = Threads
    BY DEF Typed, JobTyped
  <1>1. /\ job[t].pc = "open" /\ job[t].changed
        /\ data' = [data EXCEPT ![i] = WriteAt(data[i], 1, stamp')]
        /\ local' = WriteAt(IF local = None THEN Content(p) ELSE local, 1, stamp')
        /\ job' = [job EXCEPT ![t].blocks = 1]
        /\ UNCHANGED <<row, dir, body>>
    BY DEF Write, At
  <1>2. JobOK(t) /\ row.state = "writing" /\ p = row.cache
    BY <1>1 DEF Copied, JobOK, Writer
  <1>3. row.cache # None /\ p \in Copies /\ p \in DOMAIN dir /\ i \in Inodes
    BY <1>2, ContentTyped DEF Copied, Shaped, Whole, Protected, Saved, Exists
  <1>4. /\ data'[i] = WriteAt(data[i], 1, stamp')
        /\ \A n \in Inodes : n # i => data'[n] = data[n]
    BY <1>1, <1>3 DEF Typed, FilesTyped
  <1>5. /\ job'[t].pc = "open" /\ job'[t].path = p
        /\ job'[t].kind = job[t].kind /\ job'[t].changed = job[t].changed
        /\ \A u \in Threads \ {t} : job'[u] = job[u]
    BY <1>1, <1>j DEF JobFields
  <1> HIDE DEF i, p
  <1>6. ASSUME NEW u \in Threads \ {t} PROVE JobOK(u)'
    <2> DEFINE q == Partial(job[u].gen)
    <2>1. JobOK(u) /\ job[u].gen \in Nat
      BY RowIs DEF Copied, Typed, JobTyped, IsRow
    <2>2. p # q
      BY <1>3, <2>1, CopiesAre
    <2>3. Exists(q) => dir[q] # i /\ dir[q] \in Inodes
      BY <1>3, <2>2, ContentTyped DEF Copied, Injective, Exists, i
    <2>4. job[u].pc \in Fetching => job[u].fd # i /\ job[u].fd \in Inodes
      BY <1>3, <2>1, <2>2 DEF JobOK, LoaderFile, i
    <2>5. Apart(u)
      BY <1>1, <1>4, <2>3, <2>4 DEF Apart
    <2>6. NoNewSends
      BY <1>5 DEF NoNewSends, Sending
    <2> QED
      BY <1>1, <1>2, <1>5, <2>5, <2>6, RowSameOthers
  <1>7. JobOK(t)'
    <2>1. Place(t)' /\ Writer(t)'
      BY <1>1, <1>2, <1>5 DEF JobOK, Place, Writer, Sending
    <2> QED
      BY <1>5, <2>1 DEF JobOK, Sender, Loader, LoaderFile, Loading, Fetching, Sending
  <1>8. Shaped(row)' /\ Refused' /\ Whole'
    BY <1>1, <1>2 DEF Copied, Shaped, Refused, Whole, Clean, Exists
  <1>9. LocalBytes'
    <2>1. local' = data'[i]
      BY <1>1, <1>2, <1>4 DEF Copied, LocalBytes, Content, i
    <2> QED
      BY <1>1, <1>2, <1>3, <2>1 DEF LocalBytes, Content, Exists, Protected, Saved, i
  <1>10. OneUpload' /\ Injective'
    BY <1>1, <1>5 DEF Copied, OneUpload, Injective
  <1> QED
    BY <1>6, <1>7, <1>8, <1>9, <1>10 DEF Copied

\* A step that only says how far a save has come.
Marked ==
  /\ row'.cache = row.cache /\ row'.etag = row.etag /\ row'.gen = row.gen
  /\ row'.state \in Protected
  /\ row'.state = "uploading" =>
       row.state = "uploading" \/ \A u \in Threads : job[u].pc # "commit"
  /\ row.cache # None
  /\ UNCHANGED <<dir, data, body>>

\* What such a step leaves to another thread.
LEMMA StateStays ==
  ASSUME Typed, Copied, Marked, NoNewCommits, NEW u \in Threads, job'[u] = job[u],
         job[u].pc \in Sending => row'.state \in Saved,
         job[u].changed => row'.state = "writing"
  PROVE  JobOK(u)'
  <1> USE DEF Marked
  <1>1. /\ JobOK(u) /\ Latest \in Nat /\ Latest' = Latest /\ Later
        /\ row'.gen \in Nat /\ row'.gen >= row.gen
    BY RowIs DEF Copied, Latest, Later, IsRow
  <1>2. LoaderFile(u)'
    BY <1>1, LoaderFileStays DEF Apart
  <1>3. Loader(u)'
    BY <1>1, LoaderStays
  <1>4. Sender(u)' /\ Writer(u)'
    BY <1>1 DEF JobOK, Sender, Writer, Sending, Content
  <1> QED
    BY <1>1, <1>2, <1>3, <1>4, PlaceStays DEF JobOK

LEMMA StateKeeps ==
  ASSUME Typed, Copied, Marked, NoNewCommits, NEW t \in Threads,
         \A u \in Threads \ {t} :
           /\ job'[u] = job[u]
           /\ job[u].pc \in Sending => row'.state \in Saved
           /\ job[u].changed => row'.state = "writing",
         JobOK(t)', Refused', OneUpload',
         local' = local \/ local' = Content(row.cache)
  PROVE  Copied'
  <1> USE DEF Marked
  <1>1. \A u \in Threads : JobOK(u)'
    BY StateStays
  <1>2. Exists(row.cache)
    BY DEF Copied, Whole
  <1>3. Shaped(row)' /\ Whole' /\ Injective'
    BY <1>2 DEF Copied, Shaped, Whole, Injective, Exists, Clean, Protected, Saved
  <1>4. LocalBytes'
    BY <1>2 DEF Copied, LocalBytes, Exists, Content
  <1> QED
    BY <1>1, <1>3, <1>4 DEF Copied

\* The first write of a handle.
LEMMA ClaimKeeps ==
  ASSUME Typed, Copied, NEW t \in Threads, ThreadStep(t), ClaimWrite(t)
  PROVE  Copied'
  <1>j. JobTyped(t) /\ DOMAIN job[t] = JobFields /\ DOMAIN job = Threads
    BY DEF Typed, JobTyped
  <1>r. RowTyped(row, Latest, Paths)
    BY RowIs
  <1>1. /\ job[t].pc = "open" /\ row.cache = job[t].path /\ row' = MarkedWriting(row)
        /\ local' = IF local = None THEN Content(job[t].path) ELSE local
        /\ job' = [job EXCEPT ![t].changed = TRUE]
        /\ UNCHANGED <<dir, data, body>>
    BY DEF ClaimWrite, MayClaim, At, store
  <1>2. JobOK(t) /\ row.cache # None
    <2>1. JobOK(t) /\ row.cache \in Copies
      BY <1>1 DEF Copied, JobOK, Place
    <2> QED
      BY <2>1, RowIs, CopiesAre DEF IsRow
  <1>3. /\ row'.cache = row.cache /\ row'.etag = row.etag /\ row'.gen = row.gen
        /\ row'.state = "writing"
    BY <1>1, <1>r DEF MarkedWriting, RowTyped, RowFields
  <1>4. /\ job'[t].pc = "open" /\ job'[t].path = job[t].path /\ job'[t].kind = job[t].kind
        /\ job'[t].changed /\ \A u \in Threads \ {t} : job'[u] = job[u]
    BY <1>1, <1>j DEF JobFields
  <1>5. Marked /\ NoNewCommits
    BY <1>1, <1>2, <1>3, <1>4 DEF Marked, NoNewCommits, Protected, Saved
  <1>6. JobOK(t)'
    <2>1. Place(t)' /\ Writer(t)'
      BY <1>1, <1>2, <1>3, <1>4 DEF JobOK, Place, Writer, Sending
    <2> QED
      BY <1>4, <2>1 DEF JobOK, Sender, Loader, LoaderFile, Loading, Fetching, Sending
  <1>7. Refused' /\ OneUpload'
    BY <1>3, <1>4 DEF Refused, Copied, OneUpload
  <1>8. \A u \in Threads \ {t} :
          /\ job'[u] = job[u]
          /\ job[u].pc \in Sending => row'.state \in Saved
          /\ job[u].changed => row'.state = "writing"
    BY <1>3, <1>4 DEF Saved
  <1>9. local' = local \/ local' = Content(row.cache)
    BY <1>1
  <1> QED
    BY <1>5, <1>6, <1>7, <1>8, <1>9, StateKeeps

\* The handle is closed: what it wrote waits for its upload.
LEMMA CloseKeeps ==
  ASSUME Typed, Copied, Orderly, NEW t \in Threads, ThreadStep(t), CloseWrite(t)
  PROVE  Copied'
  <1>j. DOMAIN job = Threads /\ JobTyped(t)
    BY DEF Typed
  <1>r. RowTyped(row, Latest, Paths) /\ row.gen \in Nat /\ Latest \in Nat /\ Latest \in 1..Latest
    BY RowIs DEF IsRow
  <1>1. /\ job[t].pc = "open"
        /\ row' = IF job[t].changed /\ Exists(job[t].path)
                    THEN [row EXCEPT !.state = "dirty"] ELSE row
        /\ job' = [job EXCEPT ![t] = [Idle EXCEPT !.kind = "write", !.pc = "sweep"]]
        /\ UNCHANGED <<dir, data, body, local>>
    BY DEF CloseWrite, At, store, history
  <1>2. JobOK(t) /\ job[t].kind = "write"
    BY <1>1 DEF Copied, JobOK, Place
  <1>3. /\ job'[t].pc = "sweep" /\ job'[t].kind = "write" /\ ~job'[t].changed
        /\ \A u \in Threads \ {t} : job'[u] = job[u]
    BY <1>1, <1>j DEF Idle
  <1>4. JobOK(t)'
    <2>1. Place(t)' /\ job'[t].pc \notin Loading \cup Sending
      BY <1>2, <1>3 DEF JobOK, Place, Loading, Sending
    <2> QED
      BY <1>3, <2>1, CalmOK
  <1>5. CASE ~job[t].changed
    <2>1. row' = row
      BY <1>1, <1>5
    <2>2. Tame(row, row') /\ Shrunk
      BY <1>1, <1>r, <2>1, TameRows, NoneGone DEF Copied
    <2>3. TameStep
      BY <1>3, <2>2 DEF TameStep, NoNewSends, Sending
    <2> QED
      BY <1>3, <1>4, <1>r, <2>1, <2>3, TameKeeps
  <1>6. CASE job[t].changed
    <2>1. row.state = "writing" /\ job[t].path = row.cache
      BY <1>2, <1>6 DEF JobOK, Writer
    <2>2. row.cache # None /\ Exists(row.cache)
      BY <2>1 DEF Copied, Shaped, Whole, Protected, Saved
    <2>3. /\ row'.cache = row.cache /\ row'.etag = row.etag /\ row'.gen = row.gen
          /\ row'.state = "dirty"
      BY <1>1, <1>6, <1>r, <2>1, <2>2 DEF RowTyped, RowFields
    <2>4. Marked /\ NoNewCommits
      BY <1>1, <1>3, <2>2, <2>3 DEF Marked, NoNewCommits, Protected, Saved
    <2>5. ASSUME NEW u \in Threads \ {t} PROVE ~job[u].changed
      <3>1. JobOK(u)
        BY DEF Copied
      <3> QED
        BY <1>2, <3>1 DEF JobOK, Place, Orderly
    <2>6. Refused' /\ OneUpload'
      BY <1>3, <2>3 DEF Refused, Copied, OneUpload
    <2>7. \A u \in Threads \ {t} :
            /\ job'[u] = job[u]
            /\ job[u].pc \in Sending => row'.state \in Saved
            /\ job[u].changed => row'.state = "writing"
      BY <1>3, <2>3, <2>5 DEF Saved
    <2> QED
      BY <1>1, <1>4, <2>4, <2>6, <2>7, StateKeeps
  <1> QED
    BY <1>5, <1>6

-----------------------------------------------------------------------------
(* Uploads and the other client.                                           *)

\* Besides the one upload nobody sends, and nobody writes while it is sent.
LEMMA OthersQuiet ==
  ASSUME Copied, NEW t \in Threads, job[t].kind = "upload", NEW u \in Threads \ {t}
  PROVE  job[u].pc \notin Sending /\ (job[u].changed => row.state = "writing")
  BY DEF Copied, JobOK, Place, Writer, OneUpload

LEMMA StartKeeps ==
  ASSUME Typed, Copied, NEW t \in Threads, ThreadStep(t), StartUpload(t)
  PROVE  Copied'
  <1>j. JobTyped(t) /\ DOMAIN job[t] = JobFields /\ DOMAIN job = Threads
    BY DEF Typed, JobTyped
  <1>r. RowTyped(row, Latest, Paths)
    BY RowIs
  <1>1. /\ row.state \in {"dirty", "uploading"} /\ row.cache # None /\ t \in Workers
        /\ (\A u \in Threads : job[u].kind # "upload") /\ job[t].pc = "idle"
        /\ row' = Uploading(row)
        /\ job' = [job EXCEPT ![t].kind = "upload", ![t].pc = "put", ![t].path = row.cache,
                        ![t].fd = dir[row.cache], ![t].locked = TRUE, ![t].etag = row.etag]
        /\ UNCHANGED <<dir, data, body, local>>
    BY DEF StartUpload, At, Serves, store, history
  <1>2. /\ row'.cache = row.cache /\ row'.etag = row.etag /\ row'.gen = row.gen
        /\ row'.state = "uploading"
    BY <1>1, <1>r DEF Uploading, RowTyped, RowFields
  <1>3. /\ job'[t].pc = "put" /\ job'[t].kind = "upload" /\ job'[t].path = row.cache
        /\ job'[t].etag = row.etag /\ job'[t].changed = job[t].changed
        /\ \A u \in Threads \ {t} : job'[u] = job[u]
    BY <1>1, <1>j DEF JobFields
  <1>4. \A u \in Threads : JobOK(u) /\ job[u].pc \notin Sending /\ ~job[u].changed
    BY <1>1 DEF Copied, JobOK, Place, Writer
  <1>5. Marked /\ NoNewCommits
    BY <1>1, <1>2, <1>3, <1>4 DEF Marked, NoNewCommits, Protected, Saved, Sending
  <1>6. JobOK(t)'
    <2>1. Place(t)' /\ Writer(t)' /\ Sender(t)'
      BY <1>1, <1>2, <1>3, <1>4 DEF Place, Writer, Sender, Sending, Saved
    <2> QED
      BY <1>3, <2>1 DEF JobOK, Loader, LoaderFile, Loading, Fetching
  <1>7. Refused'
    BY <1>2 DEF Refused
  <1>8. OneUpload'
    <2>1. \A u \in Threads \ {t} : job'[u].kind # "upload"
      BY <1>1, <1>3
    <2> QED
      BY <2>1 DEF OneUpload
  <1> QED
    BY <1>1, <1>3, <1>4, <1>5, <1>6, <1>7, <1>8, StateKeeps

\* The cloud has another version: the save becomes a conflict.
LEMMA RefusedKeeps ==
  ASSUME Typed, Copied, NEW t \in Threads, ThreadStep(t), PutRefused(t)
  PROVE  Copied'
  <1>j. DOMAIN job = Threads /\ JobTyped(t)
    BY DEF Typed
  <1>r. RowTyped(row, Latest, Paths) /\ row.etag \in 1..Latest /\ Latest \in Nat
    BY RowIs DEF RowTyped, TypeRow
  <1>1. /\ job[t].pc = "put" /\ job[t].etag # Latest
        /\ row' = IF row.state = "uploading" THEN [row EXCEPT !.state = "conflict"] ELSE row
        /\ job' = [job EXCEPT ![t] = Idle] /\ UNCHANGED <<dir, data, body, local>>
    BY DEF PutRefused, Stop, At, store, history
  <1>2. /\ JobOK(t) /\ row.state \in Saved /\ job[t].etag = row.etag /\ job[t].kind = "upload"
    BY <1>1 DEF Copied, JobOK, Sender, Place, Sending
  <1>3. row.cache # None
    BY <1>2 DEF Copied, Shaped, Protected
  <1>4. /\ row'.cache = row.cache /\ row'.etag = row.etag /\ row'.gen = row.gen
        /\ row'.state \in Protected /\ row'.state # "uploading"
        /\ row'.state # "conflict" => row'.state = row.state
        /\ row.state = "writing" => row'.state = "writing"
    BY <1>1, <1>2, <1>r DEF RowTyped, RowFields, Protected, Saved
  <1>5. /\ job'[t] = Idle /\ \A u \in Threads \ {t} : job'[u] = job[u]
    BY <1>1, <1>j
  <1>6. \A u \in Threads \ {t} :
           job[u].pc \notin Sending /\ (job[u].changed => row'.state = "writing")
    BY <1>2, <1>4, OthersQuiet
  <1>7. Marked /\ NoNewCommits
    BY <1>1, <1>3, <1>4, <1>5 DEF Marked, NoNewCommits, Idle
  <1>8. JobOK(t)'
    <2>1. Place(t)' /\ ~job'[t].changed /\ job'[t].pc \notin Loading \cup Sending
      BY <1>5 DEF Idle, Place, Loading, Sending
    <2> QED
      BY <2>1, CalmOK
  <1>9. Refused'
    <2>1. row.etag < Latest /\ Latest' = Latest
      BY <1>1, <1>2, <1>r DEF Latest
    <2>2. \A u \in Threads : job'[u].pc \notin Sending
      BY <1>5, <1>6 DEF Idle, Sending
    <2> QED
      BY <1>4, <2>1, <2>2 DEF Refused
  <1>10. OneUpload'
    BY <1>5 DEF Copied, OneUpload, Idle
  <1> QED
    BY <1>1, <1>5, <1>6, <1>7, <1>8, <1>9, <1>10, StateKeeps

\* What a new version leaves to another thread.
LEMMA VersionStays ==
  ASSUME Typed, Copied, UNCHANGED <<row, dir, data>>, Later, NoNewCommits,
         NEW u \in Threads, job'[u] = job[u]
  PROVE  JobOK(u)'
  <1>1. JobOK(u) /\ row'.gen \in Nat /\ row'.gen >= row.gen /\ Latest \in Nat
    BY RowIs DEF Copied, IsRow
  <1>2. LoaderFile(u)'
    BY <1>1, LoaderFileStays DEF Apart
  <1>3. Loader(u)'
    BY <1>1, LoaderStays
  <1>4. Sender(u)'
    <2>1. job[u].etag \in Nat
      BY <1>1 DEF Typed, JobTyped
    <2>2. job[u].pc = "commit" =>
            job[u].etag < Latest' /\ body'[job[u].etag + 1] = body[job[u].etag + 1]
      BY <1>1, <2>1 DEF JobOK, Sender, Later
    <2> QED
      BY <1>1, <2>2 DEF JobOK, Sender, Sending, Content
  <1>5. Writer(u)'
    BY <1>1 DEF JobOK, Writer
  <1> QED
    BY <1>1, <1>2, <1>3, <1>4, <1>5, PlaceStays DEF JobOK

\* What it leaves of the row, the files and the save.
LEMMA VersionWorld ==
  ASSUME Typed, Copied, UNCHANGED <<row, dir, data, local>>, Later
  PROVE  Shaped(row)' /\ Whole' /\ LocalBytes' /\ Injective'
  <1>1. row.etag \in 1..Latest
    BY RowIs DEF RowTyped, TypeRow
  <1>2. Whole'
    BY <1>1 DEF Copied, Whole, Exists, Content, Later, Clean
  <1> QED
    BY <1>2 DEF Copied, Shaped, LocalBytes, Injective, Exists, Content, Clean

LEMMA PutKeeps ==
  ASSUME Typed, Copied, NEW t \in Threads, ThreadStep(t), Put(t)
  PROVE  Copied'
  <1> DEFINE c == Content(job[t].path)
  <1>j. JobTyped(t) /\ DOMAIN job[t] = JobFields /\ DOMAIN job = Threads
    BY DEF Typed, JobTyped
  <1>1. /\ job[t].pc = "put" /\ job[t].etag = Latest /\ Exists(job[t].path)
        /\ body' = Append(body, c) /\ job' = [job EXCEPT ![t].pc = "commit"]
        /\ UNCHANGED <<row, dir, data, local>>
    BY DEF Put, Goto, At, store, history
  <1>2. /\ JobOK(t) /\ row.state \in Saved /\ job[t].path = row.cache
        /\ job[t].etag = row.etag /\ job[t].kind = "upload" /\ ~(row.etag < Latest)
    BY <1>1, RowIs DEF Copied, JobOK, Sender, Place, Sending
  <1>3. /\ job'[t].pc = "commit" /\ job'[t].path = job[t].path /\ job'[t].etag = job[t].etag
        /\ job'[t].kind = job[t].kind /\ job'[t].changed = job[t].changed
        /\ \A u \in Threads \ {t} : job'[u] = job[u]
    BY <1>1, <1>j DEF JobFields
  <1>4. /\ Latest \in Nat /\ Latest' = Latest + 1 /\ body'[Latest'] = c
        /\ \A e \in 1..Latest : body'[e] = body[e]
    BY <1>1, RowIs, ContentTyped, VersionTyped
  <1>5. Later /\ NoNewCommits
    BY <1>2, <1>4 DEF Later, NoNewCommits
  <1>6. \A u \in Threads \ {t} : JobOK(u)'
    BY <1>1, <1>3, <1>5, VersionStays
  <1>7. JobOK(t)'
    <2>1. Place(t)' /\ Writer(t)'
      BY <1>1, <1>2, <1>3 DEF JobOK, Place, Writer, Sending
    <2>5. job'[t].etag = Latest /\ job[t].etag = Latest
      BY <1>1, <1>3
    <2>2. /\ row'.state \in Saved /\ job'[t].path = row'.cache /\ job'[t].etag = row'.etag
          /\ job'[t].etag < Latest'
      <3> HIDE DEF c
      <3>1. job'[t].etag < Latest'
        BY <1>4, <2>5
      <3>2. row' = row
        BY <1>1
      <3> QED
        BY <1>2, <1>3, <3>1, <3>2
    <2>3. data'[dir'[row'.cache]] = body'[job'[t].etag + 1]
      BY <1>1, <1>2, <1>3, <1>4 DEF Content
    <2>4. Sender(t)'
      BY <2>2, <2>3 DEF Sender, Content
    <2> QED
      BY <1>3, <2>1, <2>4 DEF JobOK, Loader, LoaderFile, Loading, Fetching
  <1>8. Refused' /\ OneUpload'
    BY <1>1, <1>2, <1>3 DEF Refused, Copied, OneUpload, Saved
  <1> QED
    BY <1>1, <1>5, <1>6, <1>7, <1>8, VersionWorld DEF Copied

LEMMA EditKeeps ==
  ASSUME Typed, Copied, RemoteEdit
  PROVE  Copied'
  <1>1. /\ body' = Append(body, <<stamp', stamp'>>) /\ <<stamp', stamp'>> \in Contents
        /\ UNCHANGED <<row, dir, data, local, job>>
    BY DEF RemoteEdit, store, Typed, CloudTyped, Contents
  <1>2. /\ Latest \in Nat /\ Latest' = Latest + 1 /\ \A e \in 1..Latest : body'[e] = body[e]
    BY <1>1, RowIs, VersionTyped
  <1>3. Later /\ NoNewCommits
    <2>1. \A u \in Threads : job'[u] = job[u]
      BY <1>1
    <2>2. Later
      BY <1>2 DEF Later
    <2>3. NoNewCommits
      BY <2>1 DEF NoNewCommits
    <2> QED
      BY <2>2, <2>3
  <1>4. \A u \in Threads : JobOK(u)'
    BY <1>1, <1>3, VersionStays
  <1>5. Refused' /\ OneUpload'
    <2>1. row.etag \in Nat
      BY RowIs DEF RowTyped, TypeRow
    <2>2. row.state = "conflict" =>
            row.etag < Latest' /\ \A u \in Threads : job[u].pc \notin Sending
      BY <1>2, <2>1 DEF Copied, Refused
    <2> QED
      BY <1>1, <2>2 DEF Refused, Copied, OneUpload
  <1> QED
    BY <1>1, <1>3, <1>4, <1>5, VersionWorld DEF Copied

\* The upload is committed: the row is clean if it was not written since.
LEMMA CommitKeeps ==
  ASSUME Typed, Copied, NEW t \in Threads, ThreadStep(t), CommitUpload(t)
  PROVE  Copied'
  <1> DEFINE p == job[t].path
             e == job[t].etag
  <1>j. DOMAIN job = Threads /\ JobTyped(t) /\ e \in Nat
    BY DEF Typed, JobTyped
  <1>r. RowTyped(row, Latest, Paths) /\ Latest \in Nat /\ row.gen \in Nat
    BY RowIs DEF IsRow
  <1>1. /\ job[t].pc = "commit" /\ row' = Committed(row, p, e + 1)
        /\ local' = IF Clean(row') THEN None ELSE local
        /\ job' = [job EXCEPT ![t] = [Idle EXCEPT !.kind = "upload", !.pc = "sweep"]]
        /\ UNCHANGED <<dir, data, body>>
    BY DEF CommitUpload, At, store
  <1>2. /\ JobOK(t) /\ row.state \in Saved /\ p = row.cache /\ e = row.etag /\ e < Latest
        /\ job[t].kind = "upload"
        /\ row.state = "uploading" => Content(row.cache) = body[e + 1]
    BY <1>1 DEF Copied, JobOK, Sender, Place, Sending
  <1>3. row.cache # None /\ Exists(row.cache) /\ row.cache \in Copies
    BY <1>2 DEF Copied, Shaped, Whole, Protected
  <1>4. /\ row'.cache = row.cache /\ row'.gen = row.gen /\ row'.etag = e + 1
        /\ row.state = "uploading" => row'.state \in {"pinned", "cached"}
        /\ row.state # "uploading" => row'.state = row.state
    BY <1>1, <1>2, <1>r DEF Committed, RowTyped, RowFields
  <1>5. /\ job'[t].pc = "sweep" /\ job'[t].kind = "upload" /\ ~job'[t].changed
        /\ \A u \in Threads \ {t} : job'[u] = job[u]
    BY <1>1, <1>j DEF Idle
  <1>6. /\ Latest' = Latest /\ Later /\ NoNewCommits
    <2>1. Latest' = Latest /\ Later
      BY <1>1, <1>r DEF Later, Latest
    <2> QED
      BY <1>5, <2>1 DEF NoNewCommits
  <1>7. JobOK(t)'
    <2>1. Place(t)' /\ job'[t].pc \notin Loading \cup Sending
      BY <1>2, <1>5 DEF JobOK, Place, Loading, Sending
    <2> QED
      BY <1>5, <2>1, CalmOK
  <1> HIDE DEF p, e
  <1>8. ASSUME NEW u \in Threads \ {t} PROVE JobOK(u)'
    <2>1. JobOK(u) /\ job'[u] = job[u]
      BY <1>5 DEF Copied
    <2>2. job[u].pc \notin Sending /\ (job[u].changed => row.state = "writing")
      BY <1>2, OthersQuiet
    <2>3. ~(job[u].pc \in Loading /\ job[u].gen = row.gen)
      BY <1>1, <1>3, <2>1 DEF JobOK, Loader, Loading
    <2>4. Loader(u)'
      BY <1>4, <1>6, <1>r, <2>1, <2>3, LoaderStays
    <2>5. LoaderFile(u)'
      BY <1>1, <1>6, <2>1, LoaderFileStays DEF Apart
    <2>6. Sender(u)' /\ Writer(u)'
      BY <1>4, <2>1, <2>2 DEF JobOK, Sender, Writer, Sending
    <2> QED
      BY <2>1, <2>4, <2>5, <2>6, PlaceStays DEF JobOK
  <1>9. Shaped(row)' /\ Refused' /\ Injective'
    BY <1>1, <1>2, <1>3, <1>4 DEF Shaped, Refused, Injective, Copied, Clean, Protected, Saved
  <1>10. Whole'
    <2>1. Exists(row.cache)' /\ Content(row.cache)' = Content(row.cache)
      BY <1>1, <1>3, <1>4 DEF Exists, Content
    <2> QED
      BY <1>1, <1>2, <1>4, <2>1 DEF Whole, Clean, Saved
  <1>11. LocalBytes'
    <2> SUFFICES ASSUME local' # None PROVE LocalBytes'
      BY DEF LocalBytes
    <2>1. local' = local /\ row.state # "uploading" /\ row'.state = row.state
      BY <1>1, <1>4 DEF Clean
    <2> QED
      BY <1>1, <1>4, <2>1 DEF Copied, LocalBytes, Exists, Content
  <1>12. OneUpload'
    BY <1>2, <1>5 DEF Copied, OneUpload
  <1> QED
    BY <1>7, <1>8, <1>9, <1>10, <1>11, <1>12 DEF Copied

-----------------------------------------------------------------------------
(* Every step.                                                             *)

LEMMA RowKeeps ==
  ASSUME Typed, Copied, RecomputePins \/ Age
  PROVE  Copied'
  <1>1. /\ row' = Recompute(row) \/ row' = [row EXCEPT !.fresh = FALSE]
        /\ UNCHANGED <<dir, data, body, job, local>>
    BY DEF RecomputePins, Age, store, history
  <1>2. Tame(row, row')
    BY <1>1, RowIs, TameRows, TameMarks DEF Copied
  <1>3. TameStep
    BY <1>1, <1>2, NoneGone DEF TameStep, NoNewSends
  <1>4. row'.gen \in Nat
    BY <1>1, WorldTyped, RowIs DEF WorldStep, IsRow, Typed, RowTyped, TypeRow
  <1>5. \A u \in Threads : JobOK(u)'
    BY <1>1, <1>3, <1>4, TameOthers
  <1>6. OneUpload'
    BY <1>1 DEF Copied, OneUpload
  <1> QED
    BY <1>3, <1>5, <1>6, TameWorld DEF Copied

LEMMA RestartKeeps ==
  ASSUME Typed, Copied, Restart
  PROVE  Copied'
  <1>r. RowTyped(row, Latest, Paths) /\ row.gen \in Nat /\ Latest \in Nat /\ Latest \in 1..Latest
    BY RowIs DEF IsRow
  <1>1. /\ job' = [t \in Threads |-> IF t \in Workers THEN Idle ELSE job[t]]
        /\ UNCHANGED <<data, body, local>>
    BY DEF Restart, RemoveFile, store, history
  <1>2. \/ /\ row.state = "writing" /\ row' = [row EXCEPT !.state = "dirty"] /\ dir' = dir
        \/ row' = row /\ dir' = dir
        \/ MayDrop(row) /\ row' = Dropped(row) /\ dir' = Without(dir, row.cache)
    <2>1. MayDrop([row EXCEPT !.state = "dirty"]) = FALSE
      BY <1>r DEF MayDrop, RowTyped, RowFields
    <2> QED
      BY <2>1 DEF Restart, RemoveFile, store
  <1>3. \A t \in Threads : job'[t] = Idle \/ (job'[t] = job[t] /\ t \notin Workers)
    BY <1>1
  <1>4. \A t \in Threads : t \notin Workers => job[t].pc \notin Sending /\ ~job[t].changed
    BY DEF Copied, JobOK, Place
  <1>5. NoNewSends /\ NoNewCommits /\ \A t \in Threads : job'[t].pc \notin Sending
    BY <1>3, <1>4 DEF NoNewSends, NoNewCommits, Sending, Idle
  <1>6. OneUpload'
    BY <1>3 DEF Copied, OneUpload, Idle
  <1>7. ASSUME NEW t \in Threads, job'[t] = Idle PROVE JobOK(t)'
    <2>1. Place(t)' /\ ~job'[t].changed /\ job'[t].pc \notin Loading \cup Sending
      BY <1>7 DEF Idle, Place, Loading, Sending
    <2> QED
      BY <2>1, CalmOK
  <1>8. CASE row.state = "writing" /\ row' = [row EXCEPT !.state = "dirty"] /\ dir' = dir
    <2>1. row.cache # None /\ Exists(row.cache)
      BY <1>8 DEF Copied, Shaped, Whole, Protected, Saved
    <2>2. /\ row'.cache = row.cache /\ row'.etag = row.etag /\ row'.gen = row.gen
          /\ row'.state = "dirty"
      BY <1>8, <1>r DEF RowTyped, RowFields
    <2>3. Marked
      BY <1>1, <1>8, <2>1, <2>2 DEF Marked, Protected, Saved
    <2>4. \A t \in Threads : JobOK(t)'
      BY <1>3, <1>4, <1>5, <1>7, <2>3, StateStays
    <2>5. Shaped(row)' /\ Refused' /\ Whole' /\ Injective' /\ LocalBytes'
      BY <1>1, <1>8, <2>1, <2>2 DEF Copied, Shaped, Refused, Whole, Injective, LocalBytes, Exists,
         Content, Clean, Protected, Saved
    <2> QED
      BY <1>6, <2>4, <2>5 DEF Copied
  <1>9. CASE \/ row' = row /\ dir' = dir
             \/ MayDrop(row) /\ row' = Dropped(row) /\ dir' = Without(dir, row.cache)
    <2>1. Tame(row, row')
      BY <1>9, <1>r, TameRows DEF Copied
    <2>2. dir' = dir \/ (dir' = Without(dir, row.cache) /\ row'.cache = None)
      BY <1>9, <1>r DEF Dropped, RowTyped, RowFields
    <2>3. Shrunk
      <3>1. CASE dir' = dir
        BY <1>1, <2>1, <3>1, NoneGone
      <3>2. CASE dir' = Without(dir, row.cache) /\ row'.cache = None
        BY <1>1, <3>2, OneGone
      <3> QED
        BY <2>2, <3>1, <3>2
    <2>4. TameStep
      BY <1>5, <2>1, <2>3 DEF TameStep
    <2>5. row'.gen \in Nat
      BY <1>9, <1>r DEF Dropped, RowTyped, RowFields
    <2>6. \A t \in Threads : JobOK(t)'
      BY <1>3, <1>7, <2>4, <2>5, TameOthers
    <2> QED
      BY <1>6, <2>4, <2>6, TameWorld DEF Copied
  <1> QED
    BY <1>2, <1>8, <1>9

\* What the invariant rules out: no copy has a wrong length, and no open truncates.
LEMMA Barred ==
  ASSUME Copied, Orderly, NEW t \in Threads
  PROVE  /\ ~LookInvalid(t) /\ ~InvalidateCache(t) /\ ~OpenTruncating(t)
         /\ ~Cut(t) /\ ~MarkCached(t) /\ ~MarkWriting(t)
  <1>1. job[t].pc \notin {"cut", "mark", "claim", "invalid"} /\ job[t].kind # "trunc"
    BY DEF Copied, JobOK, Place, Orderly
  <1>2. ~Mismatched(row)
    BY DEF Copied, Whole, Mismatched, Size
  <1> QED
    BY <1>1, <1>2 DEF LookInvalid, InvalidateCache, OpenTruncating, Cut, MarkCached, MarkWriting,
       At

LEMMA ThreadKeeps ==
  ASSUME Typed, Serialized, Copied, Orderly, Orderly', NotTorn, NEW t \in Threads, ThreadStep(t)
  PROVE  Copied'
  <1>1. OneDownload
    BY Alone
  <1>2. \/ CalmMove(t) \/ LoadMove(t) \/ BeginDownload(t) \/ Fetch(t) \/ Publish(t)
        \/ GotWrite(t) \/ ClaimWrite(t) \/ Write(t) \/ CloseWrite(t)
        \/ StartUpload(t) \/ Put(t) \/ PutRefused(t) \/ CommitUpload(t)
    BY Barred DEF ThreadStep, Downloads, Opening, Handling, Releasing, Background, Program,
       CalmMove, LoadMove
  <1>3. CASE CalmMove(t) \/ LoadMove(t)
    BY <1>3, CalmKeeps, LoadKeeps
  <1>4. CASE BeginDownload(t) \/ Fetch(t) \/ Publish(t)
    BY <1>1, <1>4, BeginKeeps, FetchKeeps, PublishKeeps
  <1>5. CASE GotWrite(t) \/ ClaimWrite(t) \/ Write(t) \/ CloseWrite(t)
    BY <1>5, GotWriteKeeps, ClaimKeeps, WriteKeeps, CloseKeeps
  <1>6. CASE StartUpload(t) \/ Put(t) \/ PutRefused(t) \/ CommitUpload(t)
    BY <1>6, StartKeeps, PutKeeps, RefusedKeeps, CommitKeeps
  <1> QED
    BY <1>2, <1>3, <1>4, <1>5, <1>6

\* When no thread works and nothing was saved.
LEMMA CopiedAtRest ==
  ASSUME Shaped(row), Refused, Whole, Injective, local = None,
         \A t \in Threads : job[t] = Idle
  PROVE  Copied
  <1>1. \A t \in Threads : JobOK(t)
    BY DEF JobOK, Place, Writer, Sender, Loader, LoaderFile, Idle, Loading, Fetching, Sending
  <1> QED
    BY <1>1 DEF Copied, LocalBytes, OneUpload, Idle

LEMMA InitCopied == Init => Copied
  <1> SUFFICES ASSUME Init PROVE Copied
    OBVIOUS
  <1>1. PICK s \in Scenarios :
          /\ LET r == Recompute(SetPin(ImportedRow, s.pinned))
             IN row = IF s.cached THEN Finished(r, 0) ELSE r
          /\ dir = [p \in IF s.cached THEN {Download(0)} ELSE {} |-> 1]
          /\ data = [i \in Inodes |-> IF s.cached /\ i = 1 THEN <<1, 1>> ELSE <<>>]
    BY DEF Init
  <1>2. body[1] = <<1, 1>> /\ local = None /\ \A t \in Threads : job[t] = Idle
    BY DEF Init
  <1>3. row.etag = 1
    BY <1>1 DEF Recompute, SetPin, ImportedRow, Finished, Protected, Saved
  <1>4. CASE s.cached
    <2>1. row.cache = Download(0) /\ Clean(row) /\ row.state \notin Protected
      BY <1>1, <1>4 DEF Recompute, SetPin, ImportedRow, Finished, Clean, Protected, Saved
    <2>2. Download(0) \in Copies /\ 1 \in Inodes
      <3>1. dir[Download(0)] \in Inodes
        BY <1>1, <1>4, InitTyped DEF Typed, FilesTyped
      <3> QED
        BY <1>1, <1>4, <3>1 DEF Copies
    <2>3. Exists(row.cache) /\ Content(row.cache) = <<1, 1>>
      BY <1>1, <1>4, <2>1, <2>2 DEF Exists, Content
    <2>4. Shaped(row) /\ Refused /\ Whole /\ Injective
      BY <1>1, <1>2, <1>3, <1>4, <2>1, <2>2, <2>3
         DEF Shaped, Refused, Whole, Injective, Protected
    <2> QED
      BY <1>2, <2>4, CopiedAtRest
  <1>5. CASE ~s.cached
    <2>1. row.cache = None /\ row.state \notin Protected /\ DOMAIN dir = {}
      BY <1>1, <1>5 DEF Recompute, SetPin, ImportedRow, Protected, Saved
    <2>2. Shaped(row) /\ Refused /\ Whole /\ Injective
      BY <2>1 DEF Shaped, Refused, Whole, Injective, Protected
    <2> QED
      BY <1>2, <2>2, CopiedAtRest
  <1> QED
    BY <1>4, <1>5

LEMMA NextCopied ==
  Typed /\ Typed' /\ Serialized /\ Copied /\ Orderly /\ Orderly' /\ [NotTorn]_vars /\ [Next]_vars
    => Copied'
  <1> SUFFICES ASSUME Typed, Serialized, Copied, Orderly, Orderly', [NotTorn]_vars, [Next]_vars
               PROVE  Copied'
    OBVIOUS
  <1>1. CASE \E t \in Threads : ThreadStep(t)
    <2>1. NotTorn
      BY DEF vars, NotTorn
    <2> QED
      BY <1>1, <2>1, ThreadKeeps
  <1>2. CASE WorldStep
    BY <1>2, RowKeeps, EditKeeps, RestartKeeps DEF WorldStep
  <1>3. CASE UNCHANGED vars
    <2>1. Tame(row, row') /\ Shrunk
      BY <1>3, RowIs, TameRows, NoneGone DEF vars, store, history, Copied
    <2>2. TameStep /\ row'.gen \in Nat
      BY <1>3, <2>1, RowIs DEF vars, TameStep, NoNewSends, IsRow
    <2>3. \A u \in Threads : JobOK(u)'
      BY <1>3, <2>2, TameOthers DEF vars
    <2>4. OneUpload'
      BY <1>3 DEF vars, Copied, OneUpload
    <2> QED
      BY <2>2, <2>3, <2>4, TameWorld DEF Copied
  <1> QED
    BY <1>1, <1>2, <1>3 DEF Next, ThreadStep, WorldStep

-----------------------------------------------------------------------------
(* What follows for every behaviour.                                       *)

\* The row, the files, the cloud and the threads fit together in every state: the
\* invariant behind the three theorems that follow.  It is about all transitions of a
\* row and its copy (hydration.rs:40-140, cache.rs:104-442, fuse.rs:225-440).
THEOREM CopiedInvariance == Spec /\ []Orderly /\ [][NotTorn]_vars => []Copied
  BY InitCopied, NextCopied, TypeInvariance, SerializedPerProcess, PTL DEF Spec

\* A clean cache file of the right length has the bytes of the version the row
\* describes: no transfer that a remote edit overtook is published, and no save is
\* marked as uploaded that was not (hydration.rs:118, cache.rs:208-242).
THEOREM CopiesClean == Spec /\ []Orderly /\ [][NotTorn]_vars => []CleanBytes
  <1>1. Copied => CleanBytes
    BY DEF Copied, Whole, CleanBytes
  <1> QED
    BY <1>1, CopiedInvariance, PTL

\* A save that is not in the cloud is on this device, in a file the row names, as the
\* program left it: no download, release, pin, retention pass, import or restart takes
\* it away (cache.rs:242, 308-370, 158-198).
THEOREM SavesKept == Spec /\ []Orderly /\ [][NotTorn]_vars => []LocalBytes
  <1>1. Copied => LocalBytes
    BY DEF Copied
  <1> QED
    BY <1>1, CopiedInvariance, PTL

\* Only a download, an import and a drop change what the row names as its copy.
LEMMA SameCache ==
  ASSUME NEW latest, NEW paths, NEW r, RowTyped(r, latest, paths), NEW on, NEW g, NEW p, NEW e
  PROVE  /\ SetPin(r, on).cache = r.cache /\ Recompute(r).cache = r.cache
         /\ Released(r).cache = r.cache /\ MarkedWriting(r).cache = r.cache
         /\ Uploading(r).cache = r.cache /\ Committed(r, p, e).cache = r.cache
         /\ Failed(r, g).cache = r.cache
         /\ Imported(r, e).cache = r.cache \/ Imported(r, e).etag # r.etag
  BY DEF RowTyped, RowFields, SetPin, Recompute, Released, MarkedWriting, Uploading, Committed,
     Failed, Imported

LEMMA PinnedStays ==
  ASSUME Typed, Copied, Orderly, Next, Intact, row.pin, row'.pin, row'.etag = row.etag
  PROVE  row'.cache = row.cache
  <1> USE RowIs DEF At
  <1>c. row.cache # None /\ row.state \notin Protected
    BY DEF Intact, HasExistingCache, Clean, Protected, Saved
  <1>1. ASSUME NEW t \in Threads, ThreadStep(t)
        PROVE  row'.cache = row.cache
    <2>j. JobOK(t)
      BY DEF Copied
    <2>1. CASE \/ QuietMove(t) \/ NeedDownload(t) \/ EnterCancelled(t) \/ BeginRefused(t)
               \/ Verified(t) \/ Fetch(t) \/ Fetched(t) \/ FetchStopped(t) \/ Confirm(t)
               \/ PublishRefused(t) \/ GotWrite(t) \/ Write(t) \/ Reclaim(t) \/ Put(t)
               \/ RequestFails(t) \/ KillCommand(t)
      <3>1. row' = row
        BY <2>1 DEF QuietMove, LookInvalid, OpenCached, OpenDeferred, FirstRead, ReadGeneration,
           GotPinned, GotRead, LockRead, LockWrite, CloseRead, SweepReleases, KeepPinned,
           SyncPins, ListRetired, ListDelta, PruneCache, OpenFile, NeedDownload, EnterCancelled,
           BeginRefused, Verified, Fetch, Fetched, FetchStopped, Confirm, PublishRefused,
           GotWrite, Write, Reclaim, Put, RequestFails, KillCommand
      <3> QED
        BY <3>1
    <2>2. CASE UseExisting(t) \/ CloseWrite(t) \/ PutRefused(t)
      <3>1. row' \in {row, [row EXCEPT !.fresh = TRUE], [row EXCEPT !.state = "dirty"],
                      [row EXCEPT !.state = "conflict"]}
        BY <2>2 DEF UseExisting, CloseWrite, PutRefused
      <3> QED
        BY <3>1 DEF RowTyped, RowFields
    <2>3. CASE Recomputed(t) \/ Repin(t)
      <3>1. row' = Recompute(row)
        BY <2>3 DEF Recomputed, Repin
      <3> QED
        BY <3>1, SameCache
    <2>4. CASE Superseded(t) \/ ImportEntry(t)
      BY <2>4, SameCache DEF Superseded, ImportEntry, Import
    <2>5. CASE DropRecord(t)
      BY <2>5 DEF DropRecord, Droppable, MayDrop
    <2>6. CASE BeginDownload(t)
      BY <2>6, <2>j, <1>c DEF BeginDownload, MayBegin, JobOK, Loader
    <2>7. CASE Publish(t)
      BY <2>7, <2>j, <1>c DEF Publish, Publishable, MayFinish, JobOK, Loader, Loading
    <2>8. CASE PinPath(t) \/ UnpinPath(t) \/ ReleasePath(t)
      <3>1. row' = SetPin(row, TRUE) \/ row' = SetPin(row, FALSE) \/ row' = Released(row)
        BY <2>8 DEF PinPath, UnpinPath, ReleasePath
      <3> QED
        BY <3>1 DEF SetPin, Released, RowTyped, RowFields
    <2>9. CASE Abandon(t) \/ ClaimWrite(t) \/ StartUpload(t) \/ CommitUpload(t)
      <3>1. \/ row' = Failed(row, job[t].gen) \/ row' = MarkedWriting(row)
            \/ row' = Uploading(row) \/ row' = Committed(row, job[t].path, job[t].etag + 1)
        BY <2>9 DEF Abandon, ClaimWrite, StartUpload, CommitUpload
      <3> QED
        BY <3>1, SameCache
    <2> QED
      BY <1>1, <2>1, <2>2, <2>3, <2>4, <2>5, <2>6, <2>7, <2>8, <2>9, Barred
         DEF ThreadStep, Downloads, Opening, Handling, Releasing, Background, Program, QuietMove
  <1>2. ASSUME WorldStep
        PROVE  row'.cache = row.cache
    <2>1. CASE RecomputePins \/ Age
      BY <2>1, SameCache DEF RecomputePins, Age, RowTyped, RowFields
    <2>2. CASE RemoteEdit
      BY <2>2 DEF RemoteEdit
    <2>3. CASE Restart
      <3>1. PICK saved \in {row, [row EXCEPT !.state = "dirty"]} :
              (row' = Dropped(saved) /\ MayDrop(saved)) \/ row' = saved
        BY <2>3 DEF Restart
      <3>2. saved.cache = row.cache /\ saved.pin = row.pin
        BY <3>1 DEF RowTyped, RowFields
      <3> QED
        BY <3>1, <3>2 DEF MayDrop
    <2> QED
      BY <1>2, <2>1, <2>2, <2>3 DEF WorldStep
  <1> QED
    BY <1>1, <1>2 DEF Next, ThreadStep, WorldStep

\* The intact copy of a pinned file is given up only for another version: a second
\* download that was under way does not discard it, and neither does a release that
\* lost to the pin (hydration.rs:61-75, cache.rs:200).
THEOREM PinnedCopiesKept == Spec /\ []Orderly /\ [][NotTorn]_vars => PinnedKept
  <1>1. Typed /\ Copied /\ Orderly /\ [Next]_vars =>
          [Intact /\ row.pin /\ row'.pin /\ row'.etag = row.etag
             => row'.cache = row.cache]_vars
    BY PinnedStays
  <1> QED
    BY <1>1, CopiedInvariance, TypeInvariance, PTL DEF Spec, PinnedKept
=============================================================================
