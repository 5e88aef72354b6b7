---------------------------- MODULE KnownFolders ----------------------------
(***************************************************************************)
(* Known folders: local folders outside the mount that are uploaded only.  *)
(* A watcher puts events into a bounded channel; one thread takes them,    *)
(* waits for quiet, compares what it finds on disk with the snapshots of   *)
(* what was uploaded before, records the work in its own database and lets *)
(* a few threads upload it, within the limits on changes of a hot file.    *)
(* The process may die at any moment and start again; an error of the      *)
(* local disk or of a database ends the thread, and only another start of  *)
(* the daemon brings it back.                                              *)
(*                                                                         *)
(* One configured folder holds the files; those of InDir lie in one of its *)
(* subfolders.  A version of a file is its size and time of change: each   *)
(* change gives one that was never used before.  Version 0 is no file.     *)
(* Left out: exclusions by name, symbolic links, creating the cloud's      *)
(* folders (a request that may fail), and conflicts with other clients,    *)
(* which refuse a request like any other failure.                          *)
(***************************************************************************)
EXTENDS Naturals, Sequences, FiniteSets

CONSTANTS Files, InDir,   \* the files, and those in the subfolder
          Root, Dir,      \* the folder and its subfolder
          Mixed,          \* a content read while the file changed
          MaxPendingPaths, \* capacity of the channel and of the path set (1024)
          FileMax,        \* changes of a file per window (25)
          MaxChanges, MaxCrashes   \* bounds: changes of the folder, deaths

ASSUME KnownFoldersAssumption ==
    /\ InDir \subseteq Files /\ IsFiniteSet(Files)
    /\ Root \notin Files /\ Dir \notin Files /\ Root # Dir
    /\ MaxPendingPaths \in Nat \ {0} /\ FileMax \in Nat \ {0}
    /\ MaxChanges \in Nat /\ MaxCrashes \in Nat

Versions == 0 .. MaxChanges + 1
Paths == Files \cup {Root, Dir}

\* path.starts_with, and the files a path stands for.
Below(path, p) == p \in {path, Root} \/ (p = Dir /\ path \in InDir)
Under(p) == {f \in Files : Below(f, p)}

VARIABLES
    local,       \* file -> the version on the local disk
    clock,       \* the last version given
    cloud,       \* file -> what the cloud holds
    channel,     \* events not taken yet: [path, addition]
    overflow,    \* the flag beside the channel
    pc, after,   \* the thread's place, and where it goes after a batch
    paths,       \* paths waiting for quiet
    files,       \* file -> the version recorded as uploaded, in memory
    pending,     \* files queued for upload, in memory
    removed,     \* a path of this sync was gone: save when done
    disk,        \* known-folders-state.sqlite3: [files, pending, baseline]
    jobs,        \* file -> its upload in the running batch
    slots,       \* file -> changes admitted within the window
    admitted,    \* file -> the generation admitted last, 0 for none
    base,        \* history: file -> the version the baseline took for granted
    since,       \* history: the clock when the watch began, or a scan that was
                 \* called for was left out; 0 after a scan
    crashes

localVars == <<local, clock>>
watchVars == <<channel, overflow>>
stateVars == <<files, pending, disk, base, since>>
batchVars == <<jobs, slots, admitted>>
vars == <<localVars, cloud, watchVars, pc, after, paths, removed, stateVars,
          batchVars, crashes>>

Existing == {f \in Files : local[f] # 0}
NoJob == [snap |-> 0, changed |-> FALSE, stage |-> "none"]
Idle == [f \in Files |-> NoJob]
Running == pc \notin {"down", "stopped"}

---------------------------------------------------------------------------
(* The local folder and its watcher. *)

\* Slip: an event that finds the channel full is dropped.
Slip_Enqueue(path, addition) ==
    IF Running /\ Len(channel) < MaxPendingPaths
    THEN /\ channel' = Append(channel, [path |-> path, addition |-> addition])
         /\ UNCHANGED overflow
    ELSE UNCHANGED watchVars

\* enqueue_watch_event: what does not fit into the channel sets the flag.
Enqueue(path, addition) ==
    IF ~Running THEN UNCHANGED watchVars
    ELSE IF Len(channel) < MaxPendingPaths
    THEN /\ channel' = Append(channel, [path |-> path, addition |-> addition])
         /\ UNCHANGED overflow
    ELSE overflow' = TRUE /\ UNCHANGED channel

\* The system lost events and says so: need_rescan().
EnqueueRescan ==
    IF ~Running THEN UNCHANGED watchVars
    ELSE /\ overflow' = TRUE
         /\ channel' = IF Len(channel) < MaxPendingPaths
                       THEN Append(channel, [path |-> Root, addition |-> FALSE])
                       ELSE channel

\* A path is there when it is a file that exists, or holds one.
Missing(p) == p # Root /\ Under(p) \cap Existing = {}

LocalUnchanged == UNCHANGED <<cloud, pc, after, paths, removed, stateVars,
                              batchVars, crashes>>

Write(f) ==
    /\ clock < MaxChanges + 1
    /\ clock' = clock + 1
    /\ local' = [local EXCEPT ![f] = clock']
    /\ Enqueue(f, TRUE) \/ EnqueueRescan
    /\ LocalUnchanged

\* A folder with files in it moves in: one event for all of them.
MoveIn ==
    /\ clock < MaxChanges + 1 /\ InDir \cap Existing = {}
    /\ clock' = clock + 1
    /\ local' = [f \in Files |-> IF f \in InDir THEN clock' ELSE local[f]]
    /\ Enqueue(Dir, TRUE)
    /\ LocalUnchanged

\* Deletions are no events for the thread, a move away is one it ignores.
Remove(path) ==
    /\ Under(path) \cap Existing # {} /\ clock < MaxChanges + 1
    /\ local' = [f \in Files |-> IF f \in Under(path) THEN 0 ELSE local[f]]
    /\ clock' = clock + 1
    /\ UNCHANGED watchVars \/ Enqueue(path, FALSE)
    /\ LocalUnchanged

User == \/ MoveIn
        \/ \E f \in Files : Write(f)
        \/ \E path \in Files \cup {Dir} : Remove(path)

---------------------------------------------------------------------------
(* Finding and recording the work. *)

Goto(place) == pc' = place /\ UNCHANGED after

\* collect_local_path below some paths, then queue_uploads: whatever differs
\* from its snapshot becomes a job and a row before any upload starts.
Changed(fs, among) == {f \in among \cap Existing : fs[f] # local[f]}

Queue(fs, ps, work) ==
    /\ jobs' = [f \in Files |->
           IF f \in work
           THEN [snap |-> local[f], changed |-> fs[f] \notin {0, local[f]},
                 stage |-> "queued"]
           ELSE NoJob]
    /\ pending' = ps \cup work
    /\ disk' = [disk EXCEPT !.pending = @ \cup work]

Batch(next) == pc' = "batch" /\ after' = next

\* sync_known_folder_root: the folder can be read.
Scan(next) ==
    /\ Queue(files, pending, Changed(files, Files))
    /\ Batch(next)
    /\ since' = 0
    /\ UNCHANGED <<localVars, cloud, channel, paths, removed, files, base,
                   slots, admitted, crashes>>

\* What a retry saves when a row has lost its file.
Pruned ==
    LET gone == pending \ Existing
    IN  IF gone = {} THEN disk
        ELSE [disk EXCEPT !.files = [f \in Files |-> IF f \in gone THEN 0 ELSE files[f]],
                          !.pending = pending \ gone]

\* retry_known_folder_uploads: rows whose file is gone are dropped, the rest
\* is tried with the file as it is now.
Retry(next) ==
    LET kept == pending \cap Existing
        fs == [f \in Files |-> IF f \in pending \ kept THEN 0 ELSE files[f]]
    IN  /\ files' = fs /\ pending' = kept
        /\ disk' = Pruned
        /\ jobs' = [f \in Files |->
               IF f \in kept
               THEN [snap |-> local[f], changed |-> fs[f] \notin {0, local[f]},
                     stage |-> "queued"]
               ELSE NoJob]
        /\ Batch(next)
        /\ UNCHANGED <<localVars, cloud, watchVars, paths, removed, base, since,
                       slots, admitted, crashes>>

---------------------------------------------------------------------------
(* The thread: run_known_folder_sync. *)

\* The thread loads what is recorded and begins to watch.
Start ==
    /\ pc = "down"
    /\ files' = disk.files /\ pending' = disk.pending
    /\ since' = clock
    /\ Goto("startup")
    /\ UNCHANGED <<localVars, cloud, watchVars, paths, removed, disk, base,
                   batchVars, crashes>>

StartupRetry == pc = "startup" /\ Retry("baseline")

\* The first start takes what is there for uploaded already.
Baseline ==
    /\ pc = "baseline"
    /\ IF disk.baseline THEN UNCHANGED stateVars
       ELSE /\ files' = [f \in Files |-> IF files[f] = 0 THEN local[f] ELSE files[f]]
            /\ base' = [f \in Files |-> IF files[f] = 0 THEN local[f] ELSE base[f]]
            /\ disk' = [files |-> files', pending |-> pending, baseline |-> TRUE]
            /\ UNCHANGED <<pending, since>>
    /\ Goto("startscan")
    /\ UNCHANGED <<localVars, cloud, watchVars, paths, removed, batchVars, crashes>>

\* config.known_folders.startup_scan is true.
StartupScan == pc = "startscan" /\ Scan("top") /\ UNCHANGED overflow

\* It is false, or the folder cannot be read just now: what changed before
\* the watch began goes unnoticed.
NoStartupScan ==
    /\ pc = "startscan"
    /\ Goto("top")
    /\ UNCHANGED <<localVars, cloud, watchVars, paths, removed, stateVars,
                   batchVars, crashes>>

OverflowScan ==
    /\ pc = "top" /\ overflow
    /\ overflow' = FALSE
    /\ Scan("retry")

\* The folder cannot be read just now, and the flag is down all the same.
OverflowSkipped ==
    /\ pc = "top" /\ overflow
    /\ overflow' = FALSE
    /\ since' = clock
    /\ Goto("retry")
    /\ UNCHANGED <<localVars, cloud, channel, paths, removed, files, pending,
                   disk, base, batchVars, crashes>>

NoOverflow ==
    /\ pc = "top" /\ ~overflow
    /\ Goto("retry")
    /\ UNCHANGED <<localVars, cloud, watchVars, paths, removed, stateVars,
                   batchVars, crashes>>

\* The timer of the retries is due, or it is not.
RetryDue == pc = "retry" /\ Retry("recv")

RetryLater ==
    /\ pc = "retry"
    /\ Goto("recv")
    /\ UNCHANGED <<localVars, cloud, watchVars, paths, removed, stateVars,
                   batchVars, crashes>>

\* Slip: the path set is cut only when it is over its bound.
Slip_WithPath(path) ==
    IF \E p \in paths : Below(path, p) THEN paths
    ELSE LET others == {p \in paths : ~Below(p, path)}
         IN  IF Cardinality(others) > MaxPendingPaths THEN {Root}
             ELSE others \cup {path}

\* queue_addition_event: a path stands for what is below it; too many paths
\* become the root.
WithPath(path) ==
    IF \E p \in paths : Below(path, p) THEN paths
    ELSE LET others == {p \in paths : ~Below(p, path)}
         IN  IF Cardinality(others) >= MaxPendingPaths THEN {Root}
             ELSE others \cup {path}

Take == channel # <<>> /\ channel' = Tail(channel) /\ UNCHANGED overflow

TakeUnchanged == UNCHANGED <<localVars, cloud, after, removed, stateVars,
                             batchVars, crashes>>

Receive ==
    /\ pc = "recv" /\ Take
    /\ IF Head(channel).addition
       THEN paths' = WithPath(Head(channel).path) /\ pc' = "quiet"
       ELSE pc' = "top" /\ UNCHANGED paths
    /\ TakeUnchanged

ReceiveQuiet ==
    /\ pc = "quiet" /\ Take
    /\ paths' = IF Head(channel).addition THEN WithPath(Head(channel).path) ELSE paths
    /\ UNCHANGED pc
    /\ TakeUnchanged

\* recv_timeout: nothing came; the periodic scan may be due, if there is one
\* (fairness never asks for it: the rescan may be switched off, and the
\* folder may be one that cannot be read just now).
ReceiveTimeout ==
    /\ pc = "recv" /\ channel = <<>>
    /\ UNCHANGED overflow
    /\ \/ Scan("top")
       \/ /\ Goto("top")
          /\ UNCHANGED <<localVars, cloud, channel, paths, removed, stateVars,
                         batchVars, crashes>>

\* The quiet time or the deadline is over: sync_known_folder_paths forgets
\* paths that are gone and collects below the others.
Sync ==
    /\ pc = "quiet"
    /\ LET gone == UNION {Under(p) : p \in {q \in paths : Missing(q)}}
           fs == [f \in Files |-> IF f \in gone THEN 0 ELSE files[f]]
       IN  /\ files' = fs
           /\ removed' = \E p \in paths : Missing(p)
           /\ Queue(fs, pending \ gone,
                    Changed(fs, UNION {Under(p) : p \in paths}))
    /\ Batch("synced")
    /\ UNCHANGED <<localVars, cloud, watchVars, paths, base, since, slots, admitted,
                   crashes>>

Synced ==
    /\ pc = "synced"
    /\ paths' = {} /\ removed' = FALSE
    /\ disk' = IF removed
               THEN [disk EXCEPT !.files = files, !.pending = pending] ELSE disk
    /\ Goto("top")
    /\ UNCHANGED <<localVars, cloud, watchVars, files, pending, base, since,
                   batchVars, crashes>>

---------------------------------------------------------------------------
(* The threads of a batch: process_known_folder_uploads. *)

SetStage(f, stage) == jobs' = [jobs EXCEPT ![f].stage = stage]
GiveUp(f) == jobs' = [jobs EXCEPT ![f] = NoJob]
Job(f, stage) == pc = "batch" /\ jobs[f].stage = stage

JobUnchanged == UNCHANGED <<localVars, watchVars, pc, after, paths, removed,
                            base, since, crashes>>

\* upload_known_folder_file looks at the file before it sends it.
Begin(f) == IF local[f] = jobs[f].snap THEN SetStage(f, "sending") ELSE GiveUp(f)

\* UploadRate::acquire: first uploads and generations admitted before pass;
\* another change takes a slot of the window.
Acquire(f) ==
    /\ Job(f, "queued")
    /\ \/ /\ ~jobs[f].changed \/ admitted[f] = jobs[f].snap
          /\ UNCHANGED <<slots, admitted>>
       \/ /\ jobs[f].changed /\ admitted[f] # jobs[f].snap
          /\ slots[f] < FileMax
          /\ slots' = [slots EXCEPT ![f] = @ + 1]
          /\ admitted' = [admitted EXCEPT ![f] = jobs[f].snap]
    /\ Begin(f)
    /\ UNCHANGED <<cloud, files, pending, disk>>
    /\ JobUnchanged

\* Slip: a deferred generation leaves the queue as if it were done.
Slip_Defer(f) ==
    /\ Job(f, "queued") /\ jobs[f].changed /\ admitted[f] # jobs[f].snap
    /\ slots[f] > 0
    /\ GiveUp(f)
    /\ pending' = pending \ {f}
    /\ disk' = [disk EXCEPT !.pending = @ \ {f}]
    /\ UNCHANGED <<cloud, slots, admitted, files>>
    /\ JobUnchanged

\* A hot file, or a repeated change in a hot project, waits for a retry.
Defer(f) ==
    /\ Job(f, "queued") /\ jobs[f].changed /\ admitted[f] # jobs[f].snap
    /\ slots[f] > 0
    /\ GiveUp(f)
    /\ UNCHANGED <<cloud, slots, admitted, files, pending, disk>>
    /\ JobUnchanged

\* The window slides, and with it what was admitted is forgotten.
SlotExpires(f) ==
    /\ Running /\ slots[f] > 0
    /\ slots' = [slots EXCEPT ![f] = @ - 1]
    /\ admitted' = IF slots[f] = 1 THEN [admitted EXCEPT ![f] = 0] ELSE admitted
    /\ UNCHANGED <<cloud, jobs, files, pending, disk>>
    /\ JobUnchanged

\* What the cloud receives when the file may change while it is read.
Content(f) == IF local[f] = jobs[f].snap THEN local[f] ELSE Mixed

Send(f) ==
    /\ Job(f, "sending")
    /\ cloud' = [cloud EXCEPT ![f] = Content(f)]
    /\ SetStage(f, "sent")
    /\ UNCHANGED <<slots, admitted, files, pending, disk>>
    /\ JobUnchanged

\* The request is refused or lost, or done and the answer is lost.
SendFails(f) ==
    /\ Job(f, "sending")
    /\ \/ UNCHANGED cloud
       \/ cloud' = [cloud EXCEPT ![f] = Content(f)]
    /\ GiveUp(f)
    /\ UNCHANGED <<slots, admitted, files, pending, disk>>
    /\ JobUnchanged

\* Slip: what was sent is recorded without another look at the file.
Slip_Look(f) ==
    /\ Job(f, "sent")
    /\ SetStage(f, "checked")
    /\ UNCHANGED <<cloud, slots, admitted, files, pending, disk>>
    /\ JobUnchanged

\* The upload's thread looks again: the file still is what was sent, or the
\* row stays for a retry.
Look(f) ==
    /\ Job(f, "sent")
    /\ IF local[f] = jobs[f].snap THEN SetStage(f, "checked") ELSE GiveUp(f)
    /\ UNCHANGED <<cloud, slots, admitted, files, pending, disk>>
    /\ JobUnchanged

\* The main thread takes the result: complete_upload, in one transaction.
Complete(f) ==
    /\ Job(f, "checked") /\ after # "stopped"
    /\ GiveUp(f)
    /\ files' = [files EXCEPT ![f] = jobs[f].snap]
    /\ pending' = pending \ {f}
    /\ disk' = [disk EXCEPT !.files[f] = jobs[f].snap, !.pending = @ \ {f}]
    /\ UNCHANGED <<cloud, slots, admitted>>
    /\ JobUnchanged

\* The result cannot be recorded: the thread will end, when the uploads of
\* this batch have, and takes no more results.
RecordFails(f) ==
    /\ Job(f, "checked") /\ after # "stopped"
    /\ after' = "stopped"
    /\ GiveUp(f)
    /\ UNCHANGED <<localVars, cloud, watchVars, pc, paths, removed, stateVars,
                   slots, admitted, crashes>>

ResultDropped(f) ==
    /\ Job(f, "checked") /\ after = "stopped"
    /\ GiveUp(f)
    /\ UNCHANGED <<cloud, slots, admitted, files, pending, disk>>
    /\ JobUnchanged

BatchEnd ==
    /\ pc = "batch" /\ jobs = Idle /\ after # "stopped"
    /\ Goto(after)
    /\ UNCHANGED <<localVars, cloud, watchVars, paths, removed, stateVars,
                   batchVars, crashes>>

---------------------------------------------------------------------------
(* Ends of the thread. *)

Leave(place) ==
    /\ pc' = place /\ after' = place
    /\ channel' = <<>> /\ overflow' = FALSE
    /\ paths' = {} /\ removed' = FALSE
    /\ files' = [f \in Files |-> 0] /\ pending' = {}
    /\ jobs' = Idle
    /\ slots' = [f \in Files |-> 0] /\ admitted' = slots'
    /\ UNCHANGED <<localVars, cloud, base, since>>

\* run_known_folder_sync returns an error: the folder, the store or the
\* database could not be read or written where the thread is.  A retry may
\* have saved what it dropped.
Fail ==
    /\ \/ pc \in {"down", "startscan", "quiet"}
       \/ pc = "baseline" /\ ~disk.baseline
       \/ pc \in {"startup", "retry"} /\ pending # {}
       \/ pc = "top" /\ overflow
       \/ pc = "recv" /\ channel = <<>>
       \/ pc = "synced" /\ removed
    /\ disk' \in IF pc \in {"startup", "retry"} THEN {disk, Pruned} ELSE {disk}
    /\ Leave("stopped")
    /\ UNCHANGED crashes

\* A result could not be recorded, and the uploads of the batch are over.
BatchFailed ==
    /\ pc = "batch" /\ jobs = Idle /\ after = "stopped"
    /\ Leave("stopped")
    /\ UNCHANGED <<disk, crashes>>

\* The daemon dies; an upload under way may still reach the cloud before.
Crash ==
    /\ pc # "down" /\ crashes < MaxCrashes
    /\ crashes' = crashes + 1
    /\ Leave("down")
    /\ UNCHANGED disk

---------------------------------------------------------------------------
Init ==
    /\ local \in [Files -> {0, 1}] /\ clock = 1
    /\ cloud = [f \in Files |-> 0]
    /\ channel = <<>> /\ overflow = FALSE
    /\ pc = "down" /\ after = "down"
    /\ paths = {} /\ removed = FALSE
    /\ files = [f \in Files |-> 0] /\ pending = {}
    /\ disk = [files |-> files, pending |-> {}, baseline |-> FALSE]
    /\ base = files /\ since = 0
    /\ jobs = Idle /\ slots = files /\ admitted = files
    /\ crashes = 0

Startup == Start \/ StartupRetry \/ Baseline \/ StartupScan \/ NoStartupScan

Loop == \/ OverflowScan \/ OverflowSkipped \/ NoOverflow \/ RetryDue \/ RetryLater
        \/ Receive \/ ReceiveQuiet \/ ReceiveTimeout \/ Sync \/ Synced

Upload(f) == \/ Acquire(f) \/ Defer(f) \/ Send(f) \/ SendFails(f)
             \/ Look(f) \/ Complete(f) \/ ResultDropped(f)

Thread == Startup \/ Loop \/ BatchEnd \/ BatchFailed \/ \E f \in Files : Upload(f)

Errors == Fail \/ \E f \in Files : RecordFails(f)

Next == User \/ Thread \/ Errors \/ (\E f \in Files : SlotExpires(f)) \/ Crash

\* The thread runs, its timers come due, the window slides, and a request
\* that is sent again and again succeeds at last.
Spec ==
    /\ Init /\ [][Next]_vars
    /\ WF_vars(Thread) /\ SF_vars(RetryDue)
    /\ \A f \in Files : /\ SF_vars(Send(f))
                        /\ SF_vars(Acquire(f))
                        /\ WF_vars(SlotExpires(f))

---------------------------------------------------------------------------
(* Properties. *)

Places == {"down", "stopped", "startup", "baseline", "startscan", "top", "retry", "recv",
           "quiet", "synced", "batch"}
Recorded == [Files -> Versions]

\* Types of the state, and the bounds of the channel and the path set.
TypeOK ==
    /\ local \in Recorded /\ clock \in Versions
    /\ cloud \in [Files -> Versions \cup {Mixed}]
    /\ channel \in Seq([path : Paths, addition : BOOLEAN])
    /\ Len(channel) <= MaxPendingPaths
    /\ overflow \in BOOLEAN /\ removed \in BOOLEAN
    /\ pc \in Places /\ after \in Places
    /\ paths \subseteq Paths /\ Cardinality(paths) <= MaxPendingPaths
    /\ files \in Recorded /\ pending \subseteq Files
    /\ disk \in [files : Recorded, pending : SUBSET Files, baseline : BOOLEAN]
    /\ jobs \in [Files -> [snap : Versions, changed : BOOLEAN,
                           stage : {"none", "queued", "sending", "sent", "checked"}]]
    /\ slots \in [Files -> 0 .. FileMax] /\ admitted \in Recorded
    /\ base \in Recorded /\ since \in Versions
    /\ crashes \in 0 .. MaxCrashes

\* No change of a file is forgotten that happens while the folder is watched:
\* a file that differs from its snapshot is named by an event or a path still
\* to be looked at, is queued, or a scan is called for.  The channel and the
\* path set are bounded, events may be lost by the system, and the thread
\* does not look while it uploads (enqueue_watch_event, the overflow flag).
\* After a scan that holds for every file, whenever it was changed; without
\* startup_scan it does not hold for changes before the thread began, nor for
\* those before a scan the thread left out because it could not read the folder.
NothingForgotten ==
    Running => \A f \in Changed(files, Files) : local[f] > since =>
        \/ overflow
        \/ f \in pending
        \/ \E n \in DOMAIN channel : channel[n].addition /\ Below(f, channel[n].path)
        \/ pc = "quiet" /\ \E p \in paths : Below(f, p)

\* What is recorded as uploaded and not queued again is what the cloud
\* holds, whole, in memory and after any crash: completing an upload never
\* covers a generation that was changed while it was read.
RecordedIsCloud ==
    \A state \in {[files |-> files, pending |-> pending], disk} :
        \A f \in Files : state.files[f] # 0 /\ f \notin state.pending =>
            \/ cloud[f] = state.files[f]
            \/ cloud[f] = 0 /\ state.files[f] = base[f]

\* A file that is left alone is uploaded at last, unless an error ends the
\* thread for good: one that was changed while it was watched or that a scan
\* found, after lost events and refused requests and however hot it was, and
\* one whose row is on disk, after any crash (retry_known_folder_uploads).
Uploaded ==
    \A f \in Files :
        <>[](\/ pc = "stopped"
             \/ local[f] # 0 /\ (local[f] > since \/ f \in disk.pending)
                    => files[f] = local[f])

=============================================================================
