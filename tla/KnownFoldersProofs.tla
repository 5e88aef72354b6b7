------------------------ MODULE KnownFoldersProofs ------------------------
(***************************************************************************)
(* For any set of files, any capacity of the channel and any limits: no    *)
(* change of a known folder is forgotten, and what is recorded as uploaded *)
(* is what the cloud holds.                                                *)
(***************************************************************************)
EXTENDS KnownFolders, FiniteSetTheorems, SequenceTheorems, TLAPS

Event == [path : Paths, addition : BOOLEAN]
ChannelOK == channel \in Seq(Event) /\ Len(channel) <= MaxPendingPaths
PathsOK(ps) == ps \subseteq Paths /\ Cardinality(ps) <= MaxPendingPaths

---------------------------------------------------------------------------
(* The operators. *)

\* What an event adds to the channel: either the flag, or a last entry.
LEMMA EnqueueProperties ==
  ASSUME ChannelOK, overflow \in BOOLEAN, NEW path \in Paths, NEW addition \in BOOLEAN,
         Enqueue(path, addition)
  PROVE  /\ ChannelOK' /\ overflow' \in BOOLEAN
         /\ overflow => overflow'
         /\ \A n \in DOMAIN channel : n \in DOMAIN channel' /\ channel'[n] = channel[n]
         /\ Running => \/ overflow'
                       \/ \E n \in DOMAIN channel' :
                             channel'[n] = [path |-> path, addition |-> addition]
  <1> DEFINE e == [path |-> path, addition |-> addition]
  <1> USE KnownFoldersAssumption
  <1>0. e \in Event
    BY DEF Event
  <1>1. CASE UNCHANGED watchVars /\ ~Running
    BY <1>1 DEF watchVars, ChannelOK
  <1>2. CASE /\ Running /\ Len(channel) < MaxPendingPaths
             /\ channel' = Append(channel, e) /\ UNCHANGED overflow
    <2>1. /\ channel' \in Seq(Event) /\ Len(channel') = Len(channel) + 1
          /\ \A i \in 1 .. Len(channel) : channel'[i] = channel[i]
          /\ channel'[Len(channel) + 1] = e
      BY <1>0, <1>2, AppendProperties DEF ChannelOK
    <2>2. /\ DOMAIN channel = 1 .. Len(channel) /\ Len(channel) \in Nat
          /\ DOMAIN channel' = 1 .. Len(channel')
      BY <2>1, LenProperties DEF ChannelOK
    <2> QED
      BY <1>2, <2>1, <2>2 DEF ChannelOK
  <1>3. CASE overflow' = TRUE /\ UNCHANGED channel
    BY <1>3 DEF ChannelOK
  <1> QED
    BY <1>1, <1>2, <1>3 DEF Enqueue

\* Lost events set the flag, whether or not there is room for an entry.
LEMMA RescanProperties ==
  ASSUME ChannelOK, overflow \in BOOLEAN, EnqueueRescan
  PROVE  /\ ChannelOK' /\ overflow' \in BOOLEAN
         /\ Running => overflow'
  <1> DEFINE e == [path |-> Root, addition |-> FALSE]
  <1> USE KnownFoldersAssumption
  <1>0. e \in Event
    BY DEF Event, Paths
  <1>1. overflow' \in BOOLEAN /\ (Running => overflow')
    BY DEF EnqueueRescan, watchVars
  <1>2. CASE Len(channel) < MaxPendingPaths /\ channel' = Append(channel, e)
    <2>1. channel' \in Seq(Event) /\ Len(channel') = Len(channel) + 1
      BY <1>0, <1>2, AppendProperties DEF ChannelOK
    <2>2. Len(channel) \in Nat
      BY LenProperties DEF ChannelOK
    <2> QED
      BY <1>1, <1>2, <2>1, <2>2 DEF ChannelOK
  <1>3. CASE UNCHANGED channel
    BY <1>1, <1>3 DEF ChannelOK
  <1> QED
    BY <1>2, <1>3 DEF EnqueueRescan, watchVars

\* Taking an event leaves the others, each one place further.
LEMMA TakeProperties ==
  ASSUME ChannelOK, Take
  PROVE  /\ ChannelOK' /\ Head(channel) \in Event /\ 1 \in DOMAIN channel
         /\ \A n \in DOMAIN channel :
               \/ n = 1 /\ channel[n] = Head(channel)
               \/ n - 1 \in DOMAIN channel' /\ channel'[n - 1] = channel[n]
  <1> USE KnownFoldersAssumption
  <1>1. /\ channel # <<>> /\ channel' = Tail(channel)
        /\ channel \in Seq(Event)
    BY DEF Take, ChannelOK
  <1>2. /\ Head(channel) \in Event /\ channel' \in Seq(Event)
        /\ Len(channel') = Len(channel) - 1
        /\ \A i \in 1 .. Len(channel') : channel'[i] = channel[i + 1]
    BY <1>1, HeadTailProperties
  <1>3. /\ DOMAIN channel = 1 .. Len(channel) /\ Len(channel) \in Nat \ {0}
        /\ DOMAIN channel' = 1 .. Len(channel') /\ Head(channel) = channel[1]
    BY <1>1, <1>2, LenProperties, EmptySeq
  <1>4. ASSUME NEW n \in DOMAIN channel, n # 1
        PROVE  n - 1 \in DOMAIN channel' /\ channel'[n - 1] = channel[n]
    <2>1. n - 1 \in 1 .. Len(channel') /\ n - 1 + 1 = n
      BY <1>2, <1>3, <1>4
    <2> QED
      BY <1>2, <1>3, <2>1
  <1> QED
    BY <1>2, <1>3, <1>4 DEF ChannelOK

\* A path stands for what the paths below it stand for.
LEMMA BelowTransitive ==
  ASSUME NEW a \in Paths, NEW b \in Paths, NEW c \in Paths, Below(a, b), Below(b, c)
  PROVE  Below(a, c)
  BY KnownFoldersAssumption DEF Below, Paths

\* The bounded path set covers what it covered, and the new path.
LEMMA WithPathCovers ==
  ASSUME NEW path \in Paths, paths \subseteq Paths, NEW f \in Files,
         Below(f, path) \/ \E p \in paths : Below(f, p)
  PROVE  \E p \in WithPath(path) : Below(f, p)
  <1>0. f \in Paths
    BY DEF Paths
  <1>1. CASE \E p \in paths : Below(path, p)
    <2>1. WithPath(path) = paths
      BY <1>1 DEF WithPath
    <2> QED
      BY <1>0, <1>1, <2>1, BelowTransitive
  <1>2. CASE ~\E p \in paths : Below(path, p)
    <2> DEFINE others == {p \in paths : ~Below(p, path)}
    <2>1. WithPath(path) = IF Cardinality(others) >= MaxPendingPaths THEN {Root}
                           ELSE others \cup {path}
      BY <1>2 DEF WithPath
    <2>2. Below(f, Root)
      BY DEF Below
    <2>3. Below(f, path) \/ \E p \in others : Below(f, p)
      BY <1>0, BelowTransitive
    <2> HIDE DEF others
    <2> QED
      BY <2>1, <2>2, <2>3
  <1> QED
    BY <1>1, <1>2

\* The path set keeps its bound: what would exceed it becomes the root.
LEMMA WithPathBounded ==
  ASSUME PathsOK(paths), NEW path \in Paths
  PROVE  PathsOK(WithPath(path))
  <1> DEFINE others == {p \in paths : ~Below(p, path)}
  <1>1. IsFiniteSet(Paths)
    <2>1. IsFiniteSet(Files \cup {Root})
      BY KnownFoldersAssumption, FS_AddElement
    <2>2. IsFiniteSet((Files \cup {Root}) \cup {Dir})
      BY <2>1, FS_AddElement
    <2>3. Paths = (Files \cup {Root}) \cup {Dir}
      BY DEF Paths
    <2> QED
      BY <2>2, <2>3
  <1>2. IsFiniteSet(others) /\ others \subseteq Paths
    BY <1>1, FS_Subset DEF PathsOK
  <1>3. Cardinality(others) \in Nat
    BY <1>2, FS_CardinalityType
  <1>a. /\ Cardinality(others \cup {path}) \in Nat
        /\ Cardinality(others \cup {path}) <= Cardinality(others) + 1
    <2> HIDE DEF others
    <2>1. Cardinality(others \cup {path}) =
            IF path \in others THEN Cardinality(others) ELSE Cardinality(others) + 1
      BY <1>2, FS_AddElement
    <2> QED
      BY <1>3, <2>1
  <1>b. Cardinality({Root}) = 1 /\ {Root} \subseteq Paths
    BY FS_Singleton DEF Paths
  <1>4. CASE \E p \in paths : Below(path, p)
    BY <1>4 DEF WithPath, PathsOK
  <1>5. CASE ~\E p \in paths : Below(path, p)
    <2>1. WithPath(path) = IF Cardinality(others) >= MaxPendingPaths THEN {Root}
                           ELSE others \cup {path}
      BY <1>5 DEF WithPath
    <2> HIDE DEF others
    <2> QED
      BY <1>2, <1>3, <1>a, <1>b, <2>1, KnownFoldersAssumption DEF PathsOK
  <1> QED
    BY <1>4, <1>5

---------------------------------------------------------------------------
(* Types, and the bounds of the channel and the path set. *)

Jobs == [Files -> [snap : Versions, changed : BOOLEAN,
                   stage : {"none", "queued", "sending", "sent", "checked"}]]
Disks == [files : Recorded, pending : SUBSET Files, baseline : BOOLEAN]

\* What a user changes.
LEMMA UserTypes ==
  ASSUME TypeOK, User
  PROVE  TypeOK'
  <1> USE KnownFoldersAssumption DEF TypeOK, LocalUnchanged, stateVars, batchVars, Recorded,
          Versions
  <1>0. ChannelOK /\ Files \subseteq Paths /\ {Root, Dir} \subseteq Paths
    BY DEF ChannelOK, Event, Paths
  <1>a. ASSUME ChannelOK' PROVE (/\ channel \in Seq([path : Paths, addition : BOOLEAN])
                                 /\ Len(channel) <= MaxPendingPaths)'
    BY <1>a DEF ChannelOK, Event
  <1>1. CASE MoveIn
    <2>1. ChannelOK' /\ overflow' \in BOOLEAN
      BY <1>0, <1>1, EnqueueProperties DEF MoveIn
    <2> QED
      BY SMTT(30), <1>1, <1>a, <2>1 DEF MoveIn
  <1>2. ASSUME NEW f \in Files, Write(f) PROVE TypeOK'
    <2>1. ChannelOK' /\ overflow' \in BOOLEAN
      BY <1>0, <1>2, EnqueueProperties, RescanProperties DEF Write
    <2> QED
      BY SMTT(30), <1>2, <1>a, <2>1 DEF Write
  <1>3. ASSUME NEW path \in Files \cup {Dir}, Remove(path) PROVE TypeOK'
    <2>1. ChannelOK' /\ overflow' \in BOOLEAN
      BY <1>0, <1>3, EnqueueProperties DEF Remove, watchVars, ChannelOK
    <2> QED
      BY SMTT(30), <1>3, <1>a, <2>1 DEF Remove
  <1> QED
    BY <1>1, <1>2, <1>3 DEF User

\* What a scan or a retry queues.
LEMMA QueueTypes ==
  ASSUME TypeOK, NEW fs \in Recorded, NEW ps \in SUBSET Files, NEW work \in SUBSET Files,
         Queue(fs, ps, work)
  PROVE  jobs' \in Jobs /\ pending' \subseteq Files /\ disk' \in Disks
  <1>1. disk' \in Disks /\ pending' \subseteq Files
    BY DEF Queue, TypeOK, Disks
  <1>2. jobs' \in Jobs
    BY KnownFoldersAssumption DEF Queue, TypeOK, Jobs, Recorded, Versions, NoJob
  <1> QED
    BY <1>1, <1>2

\* A scan keeps the types,
LEMMA ScanTypes ==
  ASSUME TypeOK, NEW next \in Places, Scan(next), overflow' \in BOOLEAN
  PROVE  TypeOK'
  <1>1. jobs' \in Jobs /\ pending' \subseteq Files /\ disk' \in Disks
    BY QueueTypes DEF TypeOK, Scan, Changed, Existing
  <1>2. since' \in Versions
    BY KnownFoldersAssumption DEF Scan, Versions
  <1> QED
    BY <1>1, <1>2 DEF Scan, TypeOK, Jobs, Disks, Batch, Places, localVars

\* What a retry may save is a state of the disk.
LEMMA PrunedTypes ==
  ASSUME TypeOK
  PROVE  Pruned \in Disks
  <1> DEFINE gone == pending \ Existing
             fs == [f \in Files |-> IF f \in gone THEN 0 ELSE files[f]]
  <1>1. fs \in Recorded /\ pending \ gone \subseteq Files /\ disk \in Disks
    BY KnownFoldersAssumption DEF TypeOK, Recorded, Versions, Disks
  <1>2. Pruned = IF gone = {} THEN disk
                 ELSE [disk EXCEPT !.files = fs, !.pending = pending \ gone]
    BY DEF Pruned
  <1> HIDE DEF gone, fs
  <1> QED
    BY <1>1, <1>2 DEF Disks

\* and so does a retry.
LEMMA RetryTypes ==
  ASSUME TypeOK, NEW next \in Places, Retry(next)
  PROVE  TypeOK'
  <1> USE KnownFoldersAssumption
  <1>1. files' \in Recorded /\ pending' \subseteq Files
    BY DEF Retry, TypeOK, Recorded, Versions
  <1>2. disk' \in Disks
    BY PrunedTypes DEF Retry
  <1>3. jobs' \in Jobs
    BY <1>1 DEF Retry, TypeOK, Jobs, NoJob, Recorded, Versions
  <1> QED
    BY <1>1, <1>2, <1>3 DEF Retry, TypeOK, Jobs, Disks, Batch, Places, localVars, watchVars

\* The thread's own steps.
LEMMA ThreadTypes ==
  ASSUME TypeOK, Startup \/ Loop \/ BatchEnd
  PROVE  TypeOK'
  <1> USE KnownFoldersAssumption
          DEF Goto, localVars, watchVars, stateVars, batchVars
  <1>1. CASE Start
    BY <1>1 DEF Start, TypeOK, Places
  <1>2. CASE StartupRetry
    BY <1>2, RetryTypes DEF StartupRetry, Places
  <1>3. CASE Baseline
    <2>1. files' \in Recorded /\ base' \in Recorded
      BY <1>3 DEF Baseline, TypeOK, Recorded
    <2>2. disk' \in Disks /\ pending' \subseteq Files
      <3>1. CASE disk.baseline
        BY <1>3, <3>1 DEF Baseline, TypeOK, Disks
      <3>2. CASE ~disk.baseline
        <4>1. /\ disk' = [files |-> files', pending |-> pending, baseline |-> TRUE]
              /\ pending' = pending
          BY <1>3, <3>2 DEF Baseline
        <4> QED
          BY <2>1, <4>1 DEF TypeOK, Disks
      <3> QED
        BY <3>1, <3>2
    <2> QED
      BY <1>3, <2>1, <2>2 DEF Baseline, TypeOK, Places, Disks
  <1>4. CASE StartupScan
    BY <1>4, ScanTypes DEF StartupScan, Places, TypeOK
  <1>s. CASE NoStartupScan
    BY <1>s DEF NoStartupScan, TypeOK, Places
  <1>5. CASE OverflowScan
    BY <1>5, ScanTypes DEF OverflowScan, Places
  <1>o. CASE OverflowSkipped
    BY <1>o DEF OverflowSkipped, TypeOK, Places
  <1>6. CASE NoOverflow
    BY <1>6 DEF NoOverflow, TypeOK, Places
  <1>7. CASE RetryDue
    BY <1>7, RetryTypes DEF RetryDue, Places
  <1>8. CASE RetryLater
    BY <1>8 DEF RetryLater, TypeOK, Places
  <1>9. CASE Receive \/ ReceiveQuiet
    <2>1. /\ ChannelOK' /\ Head(channel) \in Event
      BY <1>9, TakeProperties DEF Receive, ReceiveQuiet, TypeOK, ChannelOK, Event
    <2>2. PathsOK(paths')
      BY <1>9, <2>1, WithPathBounded DEF Receive, ReceiveQuiet, TypeOK, PathsOK, Event
    <2> QED
      BY <1>9, <2>1, <2>2 DEF Receive, ReceiveQuiet, Take, TakeUnchanged, TypeOK, ChannelOK,
         Event, PathsOK, Places
  <1>10. CASE ReceiveTimeout
    BY <1>10, ScanTypes DEF ReceiveTimeout, TypeOK, Places
  <1>11. CASE Sync
    <2> DEFINE gone == UNION {Under(p) : p \in {q \in paths : Missing(q)}}
               fs == [f \in Files |-> IF f \in gone THEN 0 ELSE files[f]]
    <2>1. fs \in Recorded /\ files' = fs
      BY <1>11 DEF Sync, TypeOK, Recorded, Versions
    <2>2. Queue(fs, pending \ gone, Changed(fs, UNION {Under(p) : p \in paths}))
      BY <1>11 DEF Sync
    <2>3. /\ pending \ gone \in SUBSET Files
          /\ Changed(fs, UNION {Under(p) : p \in paths}) \in SUBSET Files
      BY DEF TypeOK, Changed, Existing
    <2> HIDE DEF gone, fs
    <2>4. jobs' \in Jobs /\ pending' \subseteq Files /\ disk' \in Disks
      BY <2>1, <2>2, <2>3, QueueTypes
    <2>5. removed' \in BOOLEAN
      BY <1>11 DEF Sync
    <2> QED
      BY <1>11, <2>1, <2>4, <2>5 DEF Sync, TypeOK, Jobs, Disks, Batch, Places
  <1>12. CASE Synced
    <2>1. PathsOK({})
      BY FS_EmptySet DEF PathsOK
    <2> QED
      BY <1>12, <2>1 DEF Synced, TypeOK, PathsOK, Places
  <1>13. CASE BatchEnd
    BY <1>13 DEF BatchEnd, TypeOK
  <1> QED
    BY <1>1, <1>2, <1>3, <1>4, <1>5, <1>6, <1>7, <1>8, <1>9, <1>10, <1>11, <1>12, <1>13,
       <1>s, <1>o
       DEF Startup, Loop

\* The uploads of a batch, and the window of the limiter.
LEMMA UploadTypes ==
  ASSUME TypeOK, NEW f \in Files, Upload(f) \/ RecordFails(f) \/ SlotExpires(f)
  PROVE  TypeOK'
  <1> USE KnownFoldersAssumption DEF Jobs
  <1>a. /\ jobs \in Jobs /\ disk \in Disks /\ files \in Recorded /\ admitted \in Recorded
        /\ slots \in [Files -> 0 .. FileMax] /\ jobs[f].snap \in Versions
        /\ local[f] \in Versions /\ cloud \in [Files -> Versions \cup {Mixed}]
        /\ pending \subseteq Files
    BY DEF TypeOK, Disks, Recorded
  <1>b. \A stage \in {"none", "queued", "sending", "sent", "checked"} :
          [jobs EXCEPT ![f].stage = stage] \in Jobs
    BY <1>a
  <1>c. [jobs EXCEPT ![f] = NoJob] \in Jobs
    BY <1>a DEF NoJob, Versions
  <1>1. CASE Acquire(f)
    <2>1. jobs' \in Jobs
      BY <1>1, <1>b, <1>c DEF Acquire, Begin, SetStage, GiveUp
    <2>2. slots' \in [Files -> 0 .. FileMax]
      BY <1>1, <1>a DEF Acquire
    <2>3. admitted' \in Recorded
      BY <1>1, <1>a DEF Acquire, Recorded
    <2> QED
      BY <1>1, <1>a, <2>1, <2>2, <2>3 DEF Acquire, JobUnchanged, TypeOK, localVars, watchVars,
         Disks
  <1>2. CASE Defer(f)
    BY <1>2, <1>c DEF Defer, GiveUp, JobUnchanged, TypeOK, localVars, watchVars
  <1>d. Content(f) \in Versions \cup {Mixed}
    BY <1>a DEF Content
  <1>e. [cloud EXCEPT ![f] = Content(f)] \in [Files -> Versions \cup {Mixed}]
    BY <1>a, <1>d
  <1>3. CASE Send(f)
    BY <1>3, <1>b, <1>e DEF Send, SetStage, JobUnchanged, TypeOK, localVars, watchVars
  <1>4. CASE SendFails(f)
    BY <1>4, <1>c, <1>e DEF SendFails, GiveUp, JobUnchanged, TypeOK, localVars, watchVars
  <1>l. CASE Look(f)
    BY <1>l, <1>b, <1>c DEF Look, SetStage, GiveUp, JobUnchanged, TypeOK, localVars, watchVars
  <1>5. CASE Complete(f)
    <2>1. jobs' \in Jobs
      BY <1>5, <1>c DEF Complete, GiveUp
    <2>2. files' \in Recorded /\ pending' \subseteq Files
      BY <1>5, <1>a DEF Complete, Recorded
    <2>3. disk' \in Disks
      <3>1. disk' = [disk EXCEPT !.files[f] = jobs[f].snap, !.pending = @ \ {f}]
        BY <1>5 DEF Complete
      <3>2. [disk.files EXCEPT ![f] = jobs[f].snap] \in Recorded
        BY <1>a DEF Recorded, Disks
      <3>3. disk' = [files |-> [disk.files EXCEPT ![f] = jobs[f].snap],
                     pending |-> disk.pending \ {f}, baseline |-> disk.baseline]
        BY <1>a, <3>1 DEF Disks
      <3> QED
        BY <1>a, <3>2, <3>3 DEF Disks
    <2> QED
      BY <1>5, <2>1, <2>2, <2>3 DEF Complete, JobUnchanged, TypeOK, localVars, watchVars, Disks
  <1>r. CASE RecordFails(f)
    BY <1>r, <1>c DEF RecordFails, GiveUp, TypeOK, localVars, watchVars, stateVars, Places
  <1>d1. CASE ResultDropped(f)
    BY <1>d1, <1>c DEF ResultDropped, GiveUp, JobUnchanged, TypeOK, localVars, watchVars
  <1>6. CASE SlotExpires(f)
    <2>1. slots' \in [Files -> 0 .. FileMax]
      BY <1>6, <1>a DEF SlotExpires
    <2>2. admitted' \in Recorded
      BY <1>6, <1>a DEF SlotExpires, Recorded, Versions
    <2> QED
      BY <1>6, <2>1, <2>2 DEF SlotExpires, JobUnchanged, TypeOK, localVars, watchVars
  <1> QED
    BY <1>1, <1>2, <1>3, <1>4, <1>5, <1>6, <1>l, <1>r, <1>d1 DEF Upload

\* The end of the thread, or of the process, leaves nothing in memory; a
\* retry that failed may have saved what it dropped.
End == Fail \/ BatchFailed \/ Crash

LEMMA EndProperties ==
  ASSUME End
  PROVE  \E place \in {"down", "stopped"} :
            /\ Leave(place)
            /\ disk' = disk \/ (disk' = Pruned /\ pc \in {"startup", "retry"})
            /\ crashes' \in {crashes, crashes + 1}
            /\ crashes' # crashes => crashes < MaxCrashes
  BY DEF End, Fail, BatchFailed, Crash

LEMMA EndTypes ==
  ASSUME TypeOK, End
  PROVE  TypeOK'
  <1>1. PathsOK({}) /\ <<>> \in Seq(Event) /\ Len(<<>>) = 0
    BY FS_EmptySet, EmptySeq, KnownFoldersAssumption DEF PathsOK
  <1>2. /\ [f \in Files |-> 0] \in Recorded /\ Idle \in Jobs
        /\ [f \in Files |-> 0] \in [Files -> 0 .. FileMax]
    BY KnownFoldersAssumption DEF Recorded, Versions, Idle, Jobs, NoJob
  <1>0. PICK place \in {"down", "stopped"} :
            /\ Leave(place)
            /\ disk' = disk \/ (disk' = Pruned /\ pc \in {"startup", "retry"})
            /\ crashes' \in {crashes, crashes + 1}
            /\ crashes' # crashes => crashes < MaxCrashes
    BY EndProperties
  <1>3. crashes' \in 0 .. MaxCrashes
    BY <1>0, KnownFoldersAssumption DEF TypeOK
  <1>4. pc' \in Places /\ after' \in Places
    BY <1>0 DEF Leave, Places
  <1>5. ChannelOK' /\ overflow' \in BOOLEAN /\ removed' \in BOOLEAN
    <2>1. channel' = <<>>
      BY <1>0 DEF Leave
    <2>3. overflow' \in BOOLEAN /\ removed' \in BOOLEAN
      BY <1>0 DEF Leave
    <2>2. channel' \in Seq(Event) /\ Len(channel') = 0
      BY <1>1, <2>1, Zenon
    <2> QED
      BY <2>2, <2>3, KnownFoldersAssumption DEF ChannelOK
  <1>6. /\ paths' \subseteq Paths /\ Cardinality(paths') <= MaxPendingPaths
        /\ files' \in Recorded /\ pending' \subseteq Files
        /\ slots' \in [Files -> 0 .. FileMax] /\ admitted' \in Recorded
        /\ jobs' \in Jobs
    <2>1. paths' = {}
      BY <1>0 DEF Leave
    <2>2. Cardinality(paths') <= MaxPendingPaths
      BY <1>1, <2>1 DEF PathsOK
    <2> QED
      BY <1>0, <1>2, <2>1, <2>2 DEF Leave
  <1>7. disk' \in Disks
    BY <1>0, PrunedTypes DEF TypeOK, Disks
  <1> QED
    BY <1>0, <1>3, <1>4, <1>5, <1>6, <1>7
       DEF Leave, TypeOK, Jobs, Disks, ChannelOK, Event, localVars

\* The first start.
LEMMA InitTypes ==
  ASSUME Init
  PROVE  TypeOK
  <1>1. PathsOK({}) /\ <<>> \in Seq(Event) /\ Len(<<>>) = 0
    BY FS_EmptySet, EmptySeq, KnownFoldersAssumption DEF PathsOK
  <1>2. /\ [f \in Files |-> 0] \in Recorded /\ Idle \in Jobs
        /\ [f \in Files |-> 0] \in [Files -> 0 .. FileMax]
        /\ [f \in Files |-> 0] \in [Files -> Versions \cup {Mixed}]
    BY KnownFoldersAssumption DEF Recorded, Versions, Idle, Jobs, NoJob
  <1>3. /\ local \in Recorded /\ clock \in Versions /\ 0 \in 0 .. MaxCrashes
        /\ {0, 1} \subseteq Versions /\ since \in Versions
    BY KnownFoldersAssumption DEF Init, Recorded, Versions
  <1>4. "down" \in Places
    BY DEF Places
  <1>5. /\ ChannelOK /\ PathsOK(paths)
        /\ overflow \in BOOLEAN /\ removed \in BOOLEAN
    <2>1. channel = <<>> /\ paths = {}
      BY DEF Init
    <2>3. overflow \in BOOLEAN /\ removed \in BOOLEAN
      BY DEF Init
    <2>2. channel \in Seq(Event) /\ Len(channel) = 0 /\ PathsOK(paths)
      BY <1>1, <2>1, Zenon
    <2> QED
      BY <2>2, <2>3, KnownFoldersAssumption DEF ChannelOK
  <1>6. /\ files \in Recorded /\ pending \subseteq Files /\ disk \in Disks
        /\ slots \in [Files -> 0 .. FileMax] /\ admitted \in Recorded
        /\ jobs \in Jobs /\ base \in Recorded
        /\ cloud \in [Files -> Versions \cup {Mixed}]
    BY <1>2 DEF Init, Disks
  <1> QED
    BY <1>3, <1>4, <1>5, <1>6 DEF Init, TypeOK, Jobs, Disks, ChannelOK, Event, PathsOK

\* Whatever the folder, the watcher, the thread and the threads of its
\* batches do, the channel and the path set stay within their bound and no
\* file takes more slots of the window than the limit.
THEOREM TypeCorrect == Spec => []TypeOK
  <1>1. Init => TypeOK
    BY InitTypes
  <1>2. TypeOK /\ [Next]_vars => TypeOK'
    <2>1. CASE UNCHANGED vars
      BY <2>1 DEF vars, localVars, watchVars, stateVars, batchVars, TypeOK
    <2> QED
      BY <2>1, UserTypes, ThreadTypes, UploadTypes, EndTypes DEF Next, Thread, Errors, End
  <1> QED
    BY <1>1, <1>2, PTL DEF Spec

---------------------------------------------------------------------------
(* Nothing is forgotten. *)

\* What remembers a file that differs from its snapshot: the watch,
Named(f) ==
    \/ overflow
    \/ \E n \in DOMAIN channel : channel[n].addition /\ Below(f, channel[n].path)

\* or the thread.
Remembered(f) ==
    \/ Named(f)
    \/ f \in pending
    \/ pc = "quiet" /\ \E p \in paths : Below(f, p)

Differs(f) == local[f] # 0 /\ files[f] # local[f] /\ local[f] > since

\* A result on its way to the thread is of the file as it is, or of one
\* whose change the watch has seen, for the thread takes no event now.
Looked ==
    \A f \in Files : jobs[f].stage = "checked" =>
        /\ pc = "batch"
        /\ local[f] # 0 /\ local[f] # jobs[f].snap => Named(f)

\* No version is ahead of the clock.
ClockPast == \A f \in Files : local[f] <= clock

KInv == TypeOK /\ NothingForgotten /\ Looked /\ ClockPast

\* The property file by file, before a step
LEMMA Forgotten ==
  NothingForgotten <=> (Running => \A f \in Files : Differs(f) => Remembered(f))
  BY DEF NothingForgotten, Changed, Existing, Differs, Remembered, Named

\* and after it.
LEMMA ForgottenPrime ==
  NothingForgotten' <=> (Running' => \A f \in Files : Differs(f)' => Remembered(f)')
  BY DEF NothingForgotten, Changed, Existing, Differs, Remembered, Named

\* A change is enqueued, flagged, or the thread is not there to see it.
LEMMA UserRemembered ==
  ASSUME KInv, User
  PROVE  NothingForgotten' /\ Looked' /\ ClockPast'
  <1> USE DEF KInv
  <1>0. /\ ChannelOK /\ Files \subseteq Paths /\ {Root, Dir} \subseteq Paths
        /\ overflow \in BOOLEAN /\ local \in [Files -> Versions]
        /\ clock \in Nat /\ Versions \subseteq Nat
    BY KnownFoldersAssumption DEF ChannelOK, Event, Paths, TypeOK, Recorded, Versions
  <1>a. UNCHANGED <<pc, paths, pending, files, after, jobs, since>>
    BY DEF User, MoveIn, Write, Remove, LocalUnchanged, stateVars, batchVars
  <1>d. ASSUME Running, NEW f \in Files, NEW path \in Paths, NEW addition \in BOOLEAN,
               Enqueue(path, addition), Named(f) \/ (addition /\ Below(f, path))
        PROVE  Named(f)'
    <2>1. CASE overflow'
      BY <2>1 DEF Named
    <2>2. CASE ~overflow' /\ Named(f)
      BY <1>0, <1>d, <2>2, EnqueueProperties DEF Named
    <2>3. CASE ~overflow' /\ addition /\ Below(f, path)
      <3>1. PICK n \in DOMAIN channel' : channel'[n] = [path |-> path, addition |-> addition]
        BY <1>0, <1>d, <2>3, EnqueueProperties
      <3> QED
        BY <2>3, <3>1 DEF Named
    <2> QED
      BY <1>d, <2>1, <2>2, <2>3
  <1>1. \A f \in Files : local'[f] \in {local[f], 0, clock + 1}
    BY <1>0 DEF User, MoveIn, Write, Remove
  <1>2. ClockPast'
    <2>1. clock' = clock + 1
      BY DEF User, MoveIn, Write, Remove
    <2>2. \A f \in Files : local[f] \in Nat /\ local[f] <= clock
      BY <1>0 DEF ClockPast
    <2> QED
      BY <1>0, <1>1, <2>1, <2>2 DEF ClockPast
  <1>3. ASSUME Running, NEW f \in Files
        PROVE  /\ local'[f] = local[f] \/ local'[f] = 0 \/ Named(f)'
               /\ Named(f) => Named(f)'
    <2>1. CASE MoveIn
      <3>1. local'[f] = local[f] \/ Below(f, Dir)
        BY <1>0, <2>1 DEF MoveIn, Below
      <3> QED
        BY <1>0, <1>3, <1>d, <2>1, <3>1 DEF MoveIn
    <2>2. ASSUME NEW g \in Files, Write(g)
          PROVE  /\ local'[f] = local[f] \/ local'[f] = 0 \/ Named(f)'
                 /\ Named(f) => Named(f)'
      <3>1. local'[f] = local[f] \/ Below(f, g)
        BY <1>0, <2>2 DEF Write, Below
      <3>2. CASE Enqueue(g, TRUE)
        BY <1>0, <1>3, <1>d, <3>1, <3>2
      <3>3. CASE EnqueueRescan
        BY <1>0, <1>3, <3>3, RescanProperties DEF Named
      <3> QED
        BY <2>2, <3>2, <3>3 DEF Write
    <2>3. ASSUME NEW path \in Files \cup {Dir}, Remove(path)
          PROVE  /\ local'[f] = local[f] \/ local'[f] = 0 \/ Named(f)'
                 /\ Named(f) => Named(f)'
      <3>1. local'[f] = local[f] \/ local'[f] = 0
        BY <1>0, <2>3 DEF Remove
      <3>2. CASE UNCHANGED watchVars
        BY <3>1, <3>2 DEF Named, watchVars
      <3>3. CASE Enqueue(path, FALSE)
        BY <1>0, <1>3, <1>d, <3>1, <3>3
      <3> QED
        BY <2>3, <3>2, <3>3 DEF Remove
    <2> QED
      BY <2>1, <2>2, <2>3 DEF User
  <1>4. NothingForgotten'
    <2> SUFFICES ASSUME Running', NEW f \in Files, Differs(f)'
                 PROVE  Remembered(f)'
      BY ForgottenPrime
    <2>1. Running
      BY <1>a DEF Running
    <2>2. CASE local'[f] = local[f]
      <3>1. Remembered(f)
        BY <1>a, <2>1, <2>2, Forgotten DEF Differs
      <3> QED
        BY <1>a, <1>3, <2>1, <3>1 DEF Remembered
    <2>3. CASE local'[f] # local[f]
      BY <1>3, <2>1, <2>3 DEF Differs, Remembered
    <2> QED
      BY <2>2, <2>3
  <1>5. Looked'
    <2> SUFFICES ASSUME NEW f \in Files, jobs[f].stage = "checked"
                 PROVE  /\ pc = "batch"
                        /\ local'[f] # 0 /\ local'[f] # jobs[f].snap => Named(f)'
      BY <1>a DEF Looked
    <2>1. Running /\ pc = "batch"
      BY DEF Looked, Running
    <2> QED
      BY <1>3, <2>1 DEF Looked
  <1> QED
    BY <1>2, <1>4, <1>5

\* A batch begins with jobs nobody has worked on.
LEMMA QueueLooked ==
  ASSUME NEW fs, NEW ps, NEW work, Queue(fs, ps, work)
  PROVE  Looked'
  <1>1. \A f \in Files : jobs'[f].stage # "checked"
    BY DEF Queue, NoJob
  <1> QED
    BY <1>1 DEF Looked

\* A scan queues whatever differs.
LEMMA ScanRemembered ==
  ASSUME KInv, NEW next, Scan(next)
  PROVE  NothingForgotten' /\ Looked' /\ ClockPast'
  <1>1. NothingForgotten'
    <2> SUFFICES ASSUME NEW f \in Files, Differs(f)'
                 PROVE  Remembered(f)'
      BY ForgottenPrime
    <2>1. f \in Changed(files, Files)
      BY DEF Scan, localVars, Differs, Changed, Existing
    <2>2. f \in pending'
      BY <2>1 DEF Scan, Queue
    <2> QED
      BY <2>2 DEF Remembered
  <1>2. Looked'
    BY QueueLooked DEF Scan
  <1>3. ClockPast'
    BY DEF KInv, ClockPast, Scan, localVars
  <1> QED
    BY <1>1, <1>2, <1>3

\* A retry drops rows of files that are gone, and those only.
LEMMA RetryRemembered ==
  ASSUME KInv, NEW next, Retry(next), pc \in {"startup", "retry"}
  PROVE  NothingForgotten' /\ Looked' /\ ClockPast'
  <1> USE DEF KInv
  <1>1. NothingForgotten'
    <2> SUFFICES ASSUME NEW f \in Files, Differs(f)'
                 PROVE  Remembered(f)'
      BY ForgottenPrime
    <2>1. local[f] # 0 /\ f \in Existing
      BY DEF Retry, localVars, Differs, Existing
    <2>2. files'[f] = files[f] /\ (f \in pending => f \in pending')
      BY <2>1 DEF Retry, TypeOK
    <2>3. Differs(f) /\ Running
      BY <2>1, <2>2 DEF Differs, Running, Retry, localVars
    <2>4. Remembered(f)
      BY <2>3, Forgotten
    <2> QED
      BY <2>2, <2>4 DEF Remembered, Named, Retry, watchVars
  <1>2. Looked'
    <2>1. \A f \in Files : jobs'[f].stage # "checked"
      BY DEF Retry, NoJob
    <2> QED
      BY <2>1 DEF Looked
  <1>3. ClockPast'
    BY DEF ClockPast, Retry, localVars
  <1> QED
    BY <1>1, <1>2, <1>3

\* The thread keeps what it takes, and looks before it forgets.
LEMMA ThreadRemembered ==
  ASSUME KInv, Startup \/ Loop \/ BatchEnd
  PROVE  NothingForgotten'
  <1> USE DEF KInv, Goto, localVars, watchVars, stateVars, batchVars
  <1>b. ASSUME Running, pc # "quiet",
               UNCHANGED <<local, since, channel, overflow, files, pending>>
        PROVE  NothingForgotten'
    <2>1. ASSUME NEW f \in Files, Differs(f)' PROVE Remembered(f)'
      <3>1. Remembered(f)
        BY <1>b, <2>1, Forgotten DEF Differs
      <3> QED
        BY <1>b, <3>1 DEF Remembered, Named
    <2> QED
      BY <2>1, ForgottenPrime
  <1>n. ASSUME local' = local, since' = clock PROVE NothingForgotten'
    <2>1. \A f \in Files : local[f] \in Nat /\ local[f] <= clock
      BY KnownFoldersAssumption DEF TypeOK, ClockPast, Recorded, Versions
    <2>2. clock \in Nat
      BY KnownFoldersAssumption DEF TypeOK, Versions
    <2>3. \A f \in Files : ~Differs(f)'
      BY <1>n, <2>1, <2>2 DEF Differs
    <2> QED
      BY <2>3, ForgottenPrime
  <1>1. CASE Start \/ OverflowSkipped
    BY <1>1, <1>n DEF Start, OverflowSkipped
  <1>2. CASE StartupScan \/ OverflowScan
    BY <1>2, ScanRemembered DEF StartupScan, OverflowScan
  <1>3. CASE NoOverflow \/ RetryLater \/ NoStartupScan
    BY <1>3, <1>b DEF NoOverflow, RetryLater, NoStartupScan, Running
  <1>4. CASE StartupRetry \/ RetryDue
    BY <1>4, RetryRemembered DEF StartupRetry, RetryDue
  <1>10. CASE Baseline
    <2>1. CASE disk.baseline
      BY <1>10, <1>b, <2>1 DEF Baseline, Running
    <2>2. CASE ~disk.baseline
      <3> SUFFICES ASSUME NEW f \in Files, Differs(f)'
                   PROVE  Remembered(f)'
        BY ForgottenPrime
      <3>1. /\ files' = [g \in Files |-> IF files[g] = 0 THEN local[g] ELSE files[g]]
            /\ UNCHANGED <<local, since, channel, overflow, pending>>
            /\ pc = "baseline"
        BY <1>10, <2>2 DEF Baseline
      <3>2. Differs(f) /\ Running
        BY <3>1 DEF Differs, Running
      <3>3. Remembered(f)
        BY <3>2, Forgotten
      <3> QED
        BY <3>1, <3>3 DEF Remembered, Named
    <2> QED
      BY <2>1, <2>2
  <1>5. CASE Receive \/ ReceiveQuiet
    <2> SUFFICES ASSUME NEW f \in Files, Differs(f)'
                 PROVE  Remembered(f)'
      BY ForgottenPrime
    <2>0. ChannelOK /\ Take /\ paths \subseteq Paths
      BY <1>5 DEF Receive, ReceiveQuiet, ChannelOK, TypeOK, Event
    <2>1. Running /\ Differs(f) /\ overflow' = overflow /\ pending' = pending
      BY <1>5 DEF Receive, ReceiveQuiet, Take, TakeUnchanged, Running, Differs
    <2>2. Remembered(f)
      BY <2>1, Forgotten
    <2>3. CASE overflow \/ f \in pending
      BY <2>1, <2>3 DEF Remembered, Named
    <2>4. CASE \E n \in DOMAIN channel : channel[n].addition /\ Below(f, channel[n].path)
      <3>1. PICK n \in DOMAIN channel : channel[n].addition /\ Below(f, channel[n].path)
        BY <2>4
      <3>2. CASE n - 1 \in DOMAIN channel' /\ channel'[n - 1] = channel[n]
        BY <3>1, <3>2 DEF Remembered, Named
      <3>3. CASE channel[n] = Head(channel)
        <4>1. Head(channel) \in Event
          BY <2>0, TakeProperties
        <4>2. pc' = "quiet" /\ paths' = WithPath(Head(channel).path)
          BY <1>5, <3>1, <3>3 DEF Receive, ReceiveQuiet
        <4>3. Head(channel).path \in Paths
          BY <4>1 DEF Event
        <4>4. \E p \in WithPath(Head(channel).path) : Below(f, p)
          BY <2>0, <3>1, <3>3, <4>3, WithPathCovers
        <4> QED
          BY <4>2, <4>4 DEF Remembered
      <3> QED
        BY <2>0, <3>2, <3>3, TakeProperties
    <2>5. CASE pc = "quiet" /\ \E p \in paths : Below(f, p)
      <3>1. pc' = "quiet"
        BY <1>5, <2>5 DEF Receive, ReceiveQuiet
      <3>2. CASE paths' = paths
        BY <2>5, <3>1, <3>2 DEF Remembered
      <3>3. CASE paths' = WithPath(Head(channel).path)
        <4>1. Head(channel).path \in Paths
          BY <2>0, TakeProperties DEF Event
        <4>2. \E p \in WithPath(Head(channel).path) : Below(f, p)
          BY <2>0, <2>5, <4>1, WithPathCovers
        <4> QED
          BY <3>1, <3>3, <4>2 DEF Remembered
      <3> QED
        BY <1>5, <2>5, <3>2, <3>3 DEF Receive, ReceiveQuiet
    <2> QED
      BY <2>2, <2>3, <2>4, <2>5 DEF Remembered, Named
  <1>6. CASE ReceiveTimeout
    BY <1>6, <1>b, ScanRemembered DEF ReceiveTimeout, Running
  <1>7. CASE Sync
    <2> SUFFICES ASSUME NEW f \in Files, Differs(f)'
                 PROVE  Remembered(f)'
      BY ForgottenPrime
    <2> DEFINE gone == UNION {Under(p) : p \in {q \in paths : Missing(q)}}
               fs == [g \in Files |-> IF g \in gone THEN 0 ELSE files[g]]
               work == Changed(fs, UNION {Under(p) : p \in paths})
    <2>1. /\ local' = local /\ channel' = channel /\ overflow' = overflow
          /\ files' = fs /\ pending' = (pending \ gone) \cup work
      BY <1>7 DEF Sync, Queue
    <2>2. local[f] # 0 /\ f \in Existing
      BY <2>1 DEF Differs, Existing
    <2>3. f \notin gone
      BY <2>2 DEF Missing
    <2>4. fs[f] = files[f] /\ fs[f] # local[f]
      BY <2>1, <2>3 DEF Differs
    <2>5. Running /\ Differs(f)
      BY <1>7, <2>1, <2>2, <2>4 DEF Sync, Running, Differs
    <2>6. Remembered(f)
      BY <2>5, Forgotten
    <2>7. ASSUME NEW p \in paths, Below(f, p) PROVE f \in work
      BY <2>2, <2>4, <2>7 DEF Changed, Under
    <2> HIDE DEF gone, fs, work
    <2>8. f \in pending' \/ overflow \/
            \E n \in DOMAIN channel : channel[n].addition /\ Below(f, channel[n].path)
      BY <2>1, <2>3, <2>6, <2>7 DEF Remembered, Named
    <2> QED
      BY <2>1, <2>8 DEF Remembered, Named
  <1>8. CASE Synced
    BY <1>8, <1>b DEF Synced, Running
  <1>9. CASE BatchEnd
    BY <1>9, <1>b DEF BatchEnd, Running
  <1> QED
    BY <1>1, <1>2, <1>3, <1>4, <1>5, <1>6, <1>7, <1>8, <1>9, <1>10 DEF Startup, Loop

\* Results are on their way only while the thread is in its batch.
LEMMA ThreadLooked ==
  ASSUME KInv, Startup \/ Loop \/ BatchEnd
  PROVE  Looked' /\ ClockPast'
  <1> USE DEF KInv, Goto, localVars, watchVars, stateVars, batchVars
  <1>a. ASSUME pc # "batch", jobs' = jobs PROVE Looked'
    BY <1>a DEF Looked
  <1>1. CASE StartupRetry \/ RetryDue
    BY <1>1, RetryRemembered DEF StartupRetry, RetryDue
  <1>2. CASE StartupScan \/ OverflowScan
    BY <1>2, ScanRemembered DEF StartupScan, OverflowScan
  <1>3. CASE ReceiveTimeout
    <2>1. CASE Scan("top")
      BY <2>1, ScanRemembered
    <2>2. CASE ~Scan("top")
      <3>1. pc # "batch" /\ jobs' = jobs /\ local' = local /\ clock' = clock
        BY <1>3, <2>2 DEF ReceiveTimeout
      <3> QED
        BY <1>a, <3>1 DEF ClockPast
    <2> QED
      BY <2>1, <2>2
  <1>4. CASE Sync
    <2>1. Looked'
      BY <1>4, QueueLooked DEF Sync
    <2> QED
      BY <1>4, <2>1 DEF Sync, ClockPast
  <1>5. CASE BatchEnd
    <2>1. \A f \in Files : jobs'[f].stage = "none"
      BY <1>5 DEF BatchEnd, Idle, NoJob
    <2> QED
      BY <1>5, <2>1 DEF BatchEnd, ClockPast, Looked
  <1>6. CASE \/ Start \/ Baseline \/ NoStartupScan \/ OverflowSkipped \/ NoOverflow
             \/ RetryLater \/ Receive \/ ReceiveQuiet \/ Synced
    <2>1. pc # "batch" /\ jobs' = jobs /\ local' = local /\ clock' = clock
      BY <1>6 DEF Start, Baseline, NoStartupScan, OverflowSkipped, NoOverflow, RetryLater,
         Receive, ReceiveQuiet, TakeUnchanged, Synced
    <2> QED
      BY <1>a, <2>1 DEF ClockPast
  <1> QED
    BY <1>1, <1>2, <1>3, <1>4, <1>5, <1>6 DEF Startup, Loop

\* An upload leaves the queue when the file is recorded as it is, or as it
\* was before a change that the watch has seen.
LEMMA UploadRemembered ==
  ASSUME KInv, NEW f \in Files, Upload(f) \/ RecordFails(f) \/ SlotExpires(f)
  PROVE  NothingForgotten' /\ Looked' /\ ClockPast'
  <1> USE DEF KInv
  <1>1. UNCHANGED <<local, clock, since, channel, overflow, pc, paths>>
    BY DEF Upload, Acquire, Defer, Send, SendFails, Look, Complete, ResultDropped, RecordFails,
           SlotExpires, JobUnchanged, localVars, watchVars, stateVars
  <1>2. \/ UNCHANGED <<files, pending>>
        \/ /\ jobs[f].stage = "checked"
           /\ files' = [files EXCEPT ![f] = jobs[f].snap]
           /\ pending' = pending \ {f}
    BY DEF Upload, Acquire, Defer, Send, SendFails, Look, Complete, ResultDropped, RecordFails,
           SlotExpires, Job, stateVars
  <1>3. \A g \in Files :
          \/ jobs'[g] = jobs[g]
          \/ jobs'[g].stage \in {"none", "sending", "sent"}
          \/ /\ jobs'[g].stage = "checked" /\ jobs'[g].snap = local[g]
             /\ pc = "batch"
    <2>1. jobs \in Jobs
      BY DEF TypeOK, Jobs
    <2>2. \/ jobs' = jobs
          \/ jobs' = [jobs EXCEPT ![f] = NoJob]
          \/ jobs' = [jobs EXCEPT ![f].stage = "sending"]
          \/ jobs' = [jobs EXCEPT ![f].stage = "sent"]
          \/ /\ jobs' = [jobs EXCEPT ![f].stage = "checked"]
             /\ jobs[f].snap = local[f] /\ pc = "batch"
      BY DEF Upload, Acquire, Begin, Defer, Send, SendFails, Look, Complete, ResultDropped,
             RecordFails, SlotExpires, SetStage, GiveUp, Job
    <2> QED
      BY <2>1, <2>2 DEF Jobs, NoJob
  <1>4. \A g \in Files : Named(g)' <=> Named(g)
    BY <1>1 DEF Named
  <1>5. NothingForgotten'
    <2> SUFFICES ASSUME Running', NEW g \in Files, Differs(g)'
                 PROVE  Remembered(g)'
      BY ForgottenPrime
    <2>1. CASE UNCHANGED <<files, pending>> \/ g # f
      <3>1. Differs(g) /\ (g \in pending => g \in pending') /\ Running
        BY <1>1, <1>2, <2>1 DEF Differs, Running, TypeOK, Recorded
      <3>2. Remembered(g)
        BY <3>1, Forgotten
      <3> QED
        BY <1>1, <1>4, <3>1, <3>2 DEF Remembered
    <2>2. CASE g = f /\ jobs[f].stage = "checked" /\ files' = [files EXCEPT ![f] = jobs[f].snap]
      <3>1. local[f] # 0 /\ local[f] # jobs[f].snap
        BY <1>1, <2>2 DEF Differs, TypeOK, Recorded
      <3>2. Named(f)
        BY <2>2, <3>1 DEF Looked
      <3> QED
        BY <1>4, <2>2, <3>2 DEF Remembered
    <2> QED
      BY <1>2, <2>1, <2>2
  <1>6. Looked'
    BY <1>1, <1>3, <1>4 DEF Looked
  <1> QED
    BY <1>1, <1>5, <1>6 DEF ClockPast

\* A thread that has ended watches nothing.
LEMMA EndRemembered ==
  ASSUME KInv, End
  PROVE  NothingForgotten' /\ Looked' /\ ClockPast'
  <1>1. PICK place \in {"down", "stopped"} : Leave(place)
    BY EndProperties
  <1>2. ~Running' /\ local' = local /\ clock' = clock
    BY <1>1 DEF Leave, Running, localVars
  <1>3. \A f \in Files : jobs'[f].stage = "none"
    BY <1>1 DEF Leave, Idle, NoJob
  <1> QED
    BY <1>2, <1>3, ForgottenPrime DEF KInv, ClockPast, Looked

\* However the events overflow, the paths are merged, uploads end and the
\* thread is started again, with a first scan or without: a file that was
\* changed since the watch began, or since a scan found it, and that differs
\* from what was uploaded is on its way to a scan or to the upload.
THEOREM NeverForgotten == Spec => []NothingForgotten
  <1>1. Init => KInv
    <2> SUFFICES ASSUME Init PROVE KInv
      OBVIOUS
    <2>1. TypeOK
      BY InitTypes
    <2>2. ~Running /\ \A f \in Files : jobs[f].stage = "none" /\ local[f] \in {0, 1}
      BY DEF Init, Running, Idle, NoJob
    <2> QED
      BY <2>1, <2>2 DEF Init, KInv, NothingForgotten, Looked, ClockPast
  <1>2. KInv /\ [Next]_vars => KInv'
    <2> SUFFICES ASSUME KInv, [Next]_vars PROVE KInv'
      OBVIOUS
    <2>1. CASE UNCHANGED vars
      <3> USE <2>1 DEF KInv, vars, localVars, watchVars, stateVars, batchVars
      <3>1. TypeOK'
        BY DEF TypeOK
      <3>2. NothingForgotten'
        BY Forgotten, ForgottenPrime DEF Running, Differs, Remembered, Named
      <3>3. Looked' /\ ClockPast'
        BY DEF Looked, Named, ClockPast
      <3> QED
        BY <3>1, <3>2, <3>3
    <2>2. CASE Next
      <3>1. TypeOK'
        BY <2>2, UserTypes, ThreadTypes, UploadTypes, EndTypes
           DEF KInv, Next, Thread, Errors, End
      <3>2. NothingForgotten' /\ Looked' /\ ClockPast'
        BY <2>2, UserRemembered, ThreadRemembered, ThreadLooked, UploadRemembered,
           EndRemembered DEF Next, Thread, Errors, End
      <3> QED
        BY <3>1, <3>2 DEF KInv
    <2> QED
      BY <2>1, <2>2
  <1>3. KInv => NothingForgotten
    BY DEF KInv
  <1> QED
    BY <1>1, <1>2, <1>3, PTL DEF Spec

---------------------------------------------------------------------------
(* What is recorded is what the cloud holds. *)

\* What both states must satisfy, in memory and on disk.
Kept(fs, ps) ==
    \A f \in Files : fs[f] # 0 /\ f \notin ps =>
        \/ cloud[f] = fs[f]
        \/ cloud[f] = 0 /\ fs[f] = base[f]

\* Every upload under way has its row, in memory and on disk.
JobsQueued ==
    /\ pending \subseteq disk.pending
    /\ \A f \in Files : jobs[f].stage # "none" => f \in pending

\* Versions are never used twice: a file that changes is not what was sent.
VersionsPast ==
    \A f \in Files : /\ local[f] <= clock
                     /\ jobs[f].stage # "none" => jobs[f].snap \in 1 .. clock

\* What was sent while the file stood still arrived whole, and what was
\* looked at again did stand still.
SentIsCloud ==
    \A f \in Files :
        /\ jobs[f].stage = "sent" /\ local[f] = jobs[f].snap => cloud[f] = local[f]
        /\ jobs[f].stage = "checked" => cloud[f] = jobs[f].snap

\* Nothing is uploaded before the baseline is taken.
NothingBefore ==
    ~disk.baseline => /\ disk.pending = {}
                      /\ \A f \in Files : cloud[f] = 0
                      /\ \/ pc \in {"down", "stopped", "startup", "baseline"}
                         \/ pc = "batch" /\ after = "baseline"

IInv == /\ TypeOK /\ JobsQueued /\ VersionsPast /\ SentIsCloud /\ NothingBefore
        /\ Kept(files, pending) /\ Kept(disk.files, disk.pending)

\* The property speaks of memory and of the disk alike.
LEMMA RecordedKept ==
  RecordedIsCloud <=> Kept(files, pending) /\ Kept(disk.files, disk.pending)
  BY DEF RecordedIsCloud, Kept

\* A change of the folder gives every file it touches a new version, or none.
LEMMA UserRecorded ==
  ASSUME IInv, User
  PROVE  IInv'
  <1>1. TypeOK'
    BY UserTypes DEF IInv
  <1>2. UNCHANGED <<cloud, pc, after, files, pending, disk, base, jobs>>
    BY DEF User, MoveIn, Write, Remove, LocalUnchanged, stateVars, batchVars
  <1>t. clock \in Nat /\ local \in [Files -> Versions] /\ Versions \subseteq Nat
    BY KnownFoldersAssumption DEF IInv, TypeOK, Recorded, Versions
  <1>3. clock' = clock + 1 /\ clock \in Nat
    BY <1>t DEF User, MoveIn, Write, Remove
  <1>4. \A f \in Files : local[f] \in Nat /\ local'[f] \in {local[f], 0, clock'}
    BY <1>t DEF User, MoveIn, Write, Remove
  <1>5. VersionsPast'
    BY <1>2, <1>3, <1>4 DEF IInv, VersionsPast
  <1>6. SentIsCloud'
    <2> SUFFICES ASSUME NEW f \in Files, jobs[f].stage = "sent", local'[f] = jobs[f].snap
                 PROVE  cloud[f] = local'[f]
      BY <1>2 DEF IInv, SentIsCloud
    <2>1. jobs[f].snap \in 1 .. clock
      BY DEF IInv, VersionsPast
    <2>2. local'[f] = local[f]
      BY <1>3, <1>4, <2>1
    <2> QED
      BY <2>2 DEF IInv, SentIsCloud
  <1> QED
    BY <1>1, <1>2, <1>5, <1>6 DEF IInv, JobsQueued, NothingBefore, Kept

\* Queueing changes no record of what was uploaded, and starts no upload.
LEMMA QueueRecorded ==
  ASSUME IInv, NEW fs, NEW ps \in SUBSET pending, NEW among \in SUBSET Files,
         Queue(fs, ps, Changed(fs, among)), UNCHANGED <<local, clock, cloud, base>>,
         disk.baseline
  PROVE  /\ JobsQueued' /\ VersionsPast' /\ SentIsCloud' /\ NothingBefore'
         /\ Kept(disk.files, disk.pending)'
         /\ ps \subseteq pending'
  <1> DEFINE work == Changed(fs, among)
  <1>1. work \subseteq Files /\ \A f \in work : local[f] # 0
    BY DEF Changed, Existing
  <1>2. /\ pending' = ps \cup work
        /\ disk'.pending = disk.pending \cup work
        /\ disk'.files = disk.files /\ disk'.baseline = disk.baseline
    BY DEF Queue, IInv, TypeOK
  <1>3. \A f \in Files :
          /\ f \in work => jobs'[f].snap = local[f] /\ jobs'[f].stage = "queued"
          /\ f \notin work => jobs'[f].stage = "none"
    BY DEF Queue, NoJob
  <1>4. \A f \in Files : local[f] \in Nat
    BY KnownFoldersAssumption DEF IInv, TypeOK, Recorded, Versions
  <1>5. clock \in Nat
    BY KnownFoldersAssumption DEF IInv, TypeOK, Versions
  <1> HIDE DEF work
  <1>6. JobsQueued'
    BY <1>2, <1>3 DEF IInv, JobsQueued
  <1>7. VersionsPast'
    <2> SUFFICES ASSUME NEW f \in Files
                 PROVE  /\ local[f] <= clock
                        /\ jobs'[f].stage # "none" => jobs'[f].snap \in 1 .. clock
      BY DEF VersionsPast
    <2>1. local[f] <= clock
      BY DEF IInv, VersionsPast
    <2>2. jobs'[f].stage # "none" => jobs'[f].snap = local[f] /\ local[f] # 0
      BY <1>1, <1>3
    <2> QED
      BY <1>4, <1>5, <2>1, <2>2
  <1>8. SentIsCloud'
    <2>1. \A f \in Files : jobs'[f].stage \notin {"sent", "checked"}
      BY <1>3
    <2> QED
      BY <2>1 DEF SentIsCloud
  <1>9. NothingBefore'
    BY <1>2 DEF NothingBefore
  <1>10. Kept(disk.files, disk.pending)'
    BY <1>2 DEF IInv, Kept
  <1> QED
    BY <1>2, <1>6, <1>7, <1>8, <1>9, <1>10

\* A scan keeps the records.
LEMMA ScanRecorded ==
  ASSUME IInv, NEW next \in Places, Scan(next), overflow' \in BOOLEAN, disk.baseline
  PROVE  IInv'
  <1>1. TypeOK'
    BY ScanTypes DEF IInv
  <1>2. UNCHANGED <<local, clock, cloud, base, files>>
    BY DEF Scan, localVars
  <1>3. /\ JobsQueued' /\ VersionsPast' /\ SentIsCloud' /\ NothingBefore'
        /\ Kept(disk.files, disk.pending)' /\ pending \subseteq pending'
    BY <1>2, QueueRecorded DEF Scan
  <1>4. Kept(files, pending)'
    BY <1>2, <1>3 DEF IInv, Kept
  <1> QED
    BY <1>1, <1>3, <1>4 DEF IInv

\* What a retry saves are the snapshots and the rows of the files that exist.
LEMMA PrunedRecorded ==
  ASSUME IInv
  PROVE  /\ Pruned.baseline = disk.baseline
         /\ Kept(Pruned.files, Pruned.pending)
         /\ pending \cap Existing \subseteq Pruned.pending
         /\ disk.pending = {} => Pruned = disk
  <1> DEFINE gone == pending \ Existing
             fs == [f \in Files |-> IF f \in gone THEN 0 ELSE files[f]]
  <1>1. Pruned = IF gone = {} THEN disk
                 ELSE [disk EXCEPT !.files = fs, !.pending = pending \ gone]
    BY DEF Pruned
  <1>2. /\ disk \in Disks /\ pending \subseteq disk.pending
        /\ Kept(files, pending) /\ Kept(disk.files, disk.pending)
    BY DEF IInv, TypeOK, JobsQueued, Disks
  <1>3. \A f \in Files : fs[f] # 0 /\ f \notin pending \ gone
                            => f \notin pending /\ fs[f] = files[f]
    OBVIOUS
  <1>4. /\ pending \cap Existing = pending \ gone
        /\ disk.pending = {} => gone = {}
    BY <1>2
  <1> HIDE DEF gone, fs
  <1>5. CASE gone = {}
    BY <1>1, <1>2, <1>4, <1>5
  <1>6. CASE gone # {}
    <2>1. /\ Pruned.files = fs /\ Pruned.pending = pending \ gone
          /\ Pruned.baseline = disk.baseline
      BY <1>1, <1>2, <1>6 DEF Disks
    <2>2. Kept(fs, pending \ gone)
      BY <1>2, <1>3 DEF Kept
    <2> QED
      BY <1>4, <1>6, <2>1, <2>2
  <1> QED
    BY <1>5, <1>6

\* A retry forgets the snapshot of a row it drops.
LEMMA RetryRecorded ==
  ASSUME IInv, NEW next \in Places, Retry(next),
         disk.baseline \/ next = "baseline"
  PROVE  IInv'
  <1> DEFINE kept == pending \cap Existing
             fs == [f \in Files |-> IF f \in pending \ kept THEN 0 ELSE files[f]]
  <1>1. TypeOK'
    BY RetryTypes DEF IInv
  <1>2. /\ UNCHANGED <<local, clock, cloud, base>>
        /\ files' = fs /\ pending' = kept
        /\ disk' = Pruned
    BY DEF Retry, localVars
  <1>3. /\ kept \subseteq pending /\ pending \subseteq Files
        /\ \A f \in kept : local[f] # 0
    BY DEF IInv, TypeOK, Existing
  <1>4. \A f \in Files :
          /\ f \in kept => jobs'[f].snap = local[f] /\ jobs'[f].stage = "queued"
          /\ f \notin kept => jobs'[f].stage = "none"
    BY DEF Retry, NoJob
  <1>5. clock \in Nat /\ \A f \in Files : local[f] \in Nat
    BY KnownFoldersAssumption DEF IInv, TypeOK, Recorded, Versions
  <1>6. \A f \in Files : fs[f] # 0 /\ f \notin kept => f \notin pending /\ fs[f] = files[f]
    OBVIOUS
  <1> HIDE DEF kept, fs
  <1>7. Kept(files, pending)'
    BY <1>2, <1>6 DEF IInv, Kept
  <1>8. /\ disk'.baseline = disk.baseline
        /\ Kept(disk'.files, disk'.pending)
        /\ kept \subseteq disk'.pending
        /\ disk.pending = {} => disk' = disk
    BY <1>2, PrunedRecorded DEF kept
  <1>9. Kept(disk.files, disk.pending)'
    BY <1>2, <1>8 DEF Kept
  <1>10. JobsQueued'
    BY <1>2, <1>3, <1>4, <1>8 DEF JobsQueued
  <1>11. VersionsPast'
    <2> SUFFICES ASSUME NEW f \in Files
                 PROVE  /\ local[f] <= clock
                        /\ jobs'[f].stage # "none" => jobs'[f].snap \in 1 .. clock
      BY <1>2 DEF VersionsPast
    <2>1. local[f] <= clock
      BY DEF IInv, VersionsPast
    <2>2. jobs'[f].stage # "none" => jobs'[f].snap = local[f] /\ local[f] # 0
      BY <1>3, <1>4
    <2> QED
      BY <1>5, <2>1, <2>2
  <1>12. SentIsCloud'
    <2>1. \A f \in Files : jobs'[f].stage \notin {"sent", "checked"}
      BY <1>4
    <2> QED
      BY <2>1 DEF SentIsCloud
  <1>13. NothingBefore'
    <2> SUFFICES ASSUME ~disk.baseline PROVE NothingBefore'
      BY <1>8 DEF NothingBefore
    <2>1. disk.pending = {} /\ kept = {} /\ \A f \in Files : cloud'[f] = 0
      BY <1>2, <1>3 DEF IInv, NothingBefore, JobsQueued
    <2>2. pc' = "batch" /\ after' = "baseline"
      BY DEF Retry, Batch
    <2> QED
      BY <1>8, <2>1, <2>2 DEF NothingBefore
  <1> QED
    BY <1>1, <1>7, <1>9, <1>10, <1>11, <1>12, <1>13 DEF IInv

\* The baseline vouches for files the cloud has not seen.
LEMMA BaselineRecorded ==
  ASSUME IInv, Baseline
  PROVE  IInv'
  <1>1. TypeOK'
    BY ThreadTypes DEF IInv, Startup
  <1>2. UNCHANGED <<local, clock, cloud, jobs, pending>>
    BY DEF Baseline, localVars, stateVars, batchVars
  <1>3. CASE disk.baseline
    <2>1. UNCHANGED <<files, disk, base>>
      BY <1>3 DEF Baseline, stateVars
    <2> QED
      BY <1>1, <1>2, <1>3, <2>1
         DEF IInv, JobsQueued, VersionsPast, SentIsCloud, NothingBefore, Kept
  <1>4. CASE ~disk.baseline
    <2>1. /\ files' = [f \in Files |-> IF files[f] = 0 THEN local[f] ELSE files[f]]
          /\ base' = [f \in Files |-> IF files[f] = 0 THEN local[f] ELSE base[f]]
          /\ disk' = [files |-> files', pending |-> pending, baseline |-> TRUE]
      BY <1>4 DEF Baseline
    <2>2. \A f \in Files : cloud[f] = 0
      BY <1>4 DEF IInv, NothingBefore
    <2>3. Kept(files, pending)'
      BY <1>2, <2>1, <2>2 DEF IInv, Kept
    <2>4. disk'.files = files' /\ disk'.pending = pending /\ disk'.baseline
      BY <2>1
    <2> QED
      BY <1>1, <1>2, <2>3, <2>4
         DEF IInv, JobsQueued, VersionsPast, SentIsCloud, NothingBefore, Kept
  <1> QED
    BY <1>3, <1>4

\* The sync of some paths forgets snapshots of files that are gone, in memory first.
LEMMA SyncRecorded ==
  ASSUME IInv, Sync
  PROVE  IInv'
  <1> DEFINE gone == UNION {Under(p) : p \in {q \in paths : Missing(q)}}
             fs == [f \in Files |-> IF f \in gone THEN 0 ELSE files[f]]
             among == UNION {Under(p) : p \in paths}
  <1>1. TypeOK'
    BY ThreadTypes DEF IInv, Loop
  <1>2. /\ UNCHANGED <<local, clock, cloud, base>> /\ files' = fs
        /\ Queue(fs, pending \ gone, Changed(fs, among))
    BY DEF Sync, localVars
  <1>3. among \in SUBSET Files /\ pending \ gone \in SUBSET pending
    BY DEF Under
  <1>4. disk.baseline
    BY DEF Sync, IInv, NothingBefore
  <1>5. \A f \in Files : fs[f] # 0 => f \notin gone /\ fs[f] = files[f]
    OBVIOUS
  <1> HIDE DEF gone, fs, among
  <1>6. /\ JobsQueued' /\ VersionsPast' /\ SentIsCloud' /\ NothingBefore'
        /\ Kept(disk.files, disk.pending)' /\ pending \ gone \subseteq pending'
    BY <1>2, <1>3, <1>4, QueueRecorded
  <1>7. Kept(files, pending)'
    BY <1>2, <1>5, <1>6 DEF IInv, Kept
  <1> QED
    BY <1>1, <1>6, <1>7 DEF IInv

\* The thread's other steps record nothing but what memory holds.
LEMMA ThreadRecorded ==
  ASSUME IInv, Startup \/ Loop \/ BatchEnd
  PROVE  IInv'
  <1> USE DEF Goto, localVars, watchVars, stateVars, batchVars
  <1>a. TypeOK'
    BY ThreadTypes DEF IInv
  <1>b. ASSUME UNCHANGED <<local, clock, cloud, files, pending, disk, base, jobs>>,
               NothingBefore'
        PROVE  IInv'
    BY <1>a, <1>b DEF IInv, JobsQueued, VersionsPast, SentIsCloud, Kept
  <1>1. CASE Start
    <2>1. /\ UNCHANGED <<local, clock, cloud, disk, base, jobs>>
          /\ files' = disk.files /\ pending' = disk.pending /\ pc' = "startup"
      BY <1>1 DEF Start
    <2> QED
      BY <1>a, <2>1 DEF IInv, JobsQueued, VersionsPast, SentIsCloud, NothingBefore, Kept
  <1>2. CASE StartupRetry
    BY <1>2, RetryRecorded DEF StartupRetry, Places
  <1>3. CASE Baseline
    BY <1>3, BaselineRecorded
  <1>4. CASE StartupScan
    BY <1>4, ScanRecorded DEF StartupScan, Places, IInv, TypeOK, NothingBefore
  <1>s. CASE NoStartupScan \/ OverflowSkipped
    <2>1. NothingBefore'
      BY <1>s DEF NoStartupScan, OverflowSkipped, IInv, NothingBefore
    <2> QED
      BY <1>s, <1>b, <2>1 DEF NoStartupScan, OverflowSkipped
  <1>5. CASE OverflowScan
    BY <1>5, ScanRecorded DEF OverflowScan, Places, IInv, NothingBefore
  <1>6. CASE RetryDue
    BY <1>6, RetryRecorded DEF RetryDue, Places, IInv, NothingBefore
  <1>7. CASE NoOverflow \/ RetryLater \/ Receive \/ ReceiveQuiet
    <2>1. NothingBefore'
      BY <1>7 DEF NoOverflow, RetryLater, Receive, ReceiveQuiet, TakeUnchanged, IInv,
         NothingBefore
    <2> QED
      BY <1>7, <1>b, <2>1 DEF NoOverflow, RetryLater, Receive, ReceiveQuiet, TakeUnchanged
  <1>8. CASE ReceiveTimeout
    <2>1. disk.baseline
      BY <1>8 DEF ReceiveTimeout, IInv, NothingBefore
    <2>2. CASE Scan("top")
      BY <1>8, <2>1, <2>2, ScanRecorded DEF ReceiveTimeout, Places, IInv, TypeOK
    <2>3. CASE UNCHANGED <<localVars, cloud, channel, paths, removed, stateVars,
                           batchVars, crashes>>
      BY <1>b, <2>1, <2>3 DEF NothingBefore
    <2> QED
      BY <1>8, <2>2, <2>3 DEF ReceiveTimeout
  <1>9. CASE Sync
    BY <1>9, SyncRecorded
  <1>10. CASE Synced
    <2>1. /\ UNCHANGED <<local, clock, cloud, base, jobs, files, pending>>
          /\ disk' = IF removed
                     THEN [disk EXCEPT !.files = files, !.pending = pending] ELSE disk
      BY <1>10 DEF Synced
    <2>2. disk.baseline
      BY <1>10 DEF Synced, IInv, NothingBefore
    <2>3. /\ disk'.baseline
          /\ disk' = disk \/ (disk'.files = files /\ disk'.pending = pending)
      BY <2>1, <2>2 DEF IInv, TypeOK
    <2> QED
      BY <1>a, <2>1, <2>3 DEF IInv, JobsQueued, VersionsPast, SentIsCloud, NothingBefore, Kept
  <1>11. CASE BatchEnd
    <2>1. NothingBefore'
      BY <1>11 DEF BatchEnd, IInv, NothingBefore
    <2> QED
      BY <1>11, <1>b, <2>1 DEF BatchEnd
  <1> QED
    BY <1>1, <1>2, <1>3, <1>4, <1>5, <1>6, <1>7, <1>8, <1>9, <1>10, <1>11, <1>s
       DEF Startup, Loop

\* What an upload may do to its job keeps the others' rows.
LEMMA UploadRecorded ==
  ASSUME IInv, NEW f \in Files, Upload(f) \/ RecordFails(f) \/ SlotExpires(f)
  PROVE  IInv'
  <1>a. TypeOK'
    BY UploadTypes DEF IInv
  <1>b. UNCHANGED <<local, clock, pc, base>>
    BY DEF Upload, Acquire, Defer, Send, SendFails, Look, Complete, ResultDropped, RecordFails,
           SlotExpires, JobUnchanged, localVars, stateVars
  <1>n. ASSUME disk'.baseline = disk.baseline, disk'.pending \subseteq disk.pending,
               UNCHANGED cloud \/ disk.pending # {}
        PROVE  NothingBefore'
    <2> SUFFICES ASSUME ~disk.baseline PROVE NothingBefore'
      BY <1>n DEF NothingBefore
    <2>1. disk.pending = {} /\ jobs[f].stage = "none"
      BY DEF IInv, NothingBefore, JobsQueued
    <2>2. UNCHANGED after
      BY <2>1 DEF Upload, Acquire, Defer, Send, SendFails, Look, Complete, ResultDropped,
         RecordFails, SlotExpires, JobUnchanged, Job
    <2> QED
      BY <1>b, <1>n, <2>1, <2>2 DEF IInv, NothingBefore
  <1>c. \A g \in Files : jobs[g].stage # "none" => g \in pending /\ g \in disk.pending
    BY DEF IInv, JobsQueued
  <1>1. CASE Acquire(f) \/ Defer(f) \/ SlotExpires(f)
    <2>1. UNCHANGED <<cloud, files, pending, disk>>
      BY <1>1 DEF Acquire, Defer, SlotExpires
    <2>2. \A g \in Files :
            \/ jobs'[g] = jobs[g]
            \/ jobs'[g].stage = "none"
            \/ /\ jobs'[g].stage = "sending" /\ jobs[g].stage # "none"
               /\ jobs'[g].snap = jobs[g].snap
      BY <1>1 DEF Acquire, Begin, Defer, SlotExpires, Job, SetStage, GiveUp, NoJob, IInv, TypeOK
    <2>3. JobsQueued' /\ VersionsPast' /\ SentIsCloud'
      BY <1>b, <2>1, <2>2 DEF IInv, JobsQueued, VersionsPast, SentIsCloud
    <2> QED
      BY <1>a, <1>b, <1>n, <2>1, <2>3 DEF IInv, Kept
  <1>2. CASE Send(f) \/ SendFails(f)
    <2>1. /\ UNCHANGED <<files, pending, disk>> /\ jobs[f].stage = "sending"
          /\ \A g \in Files \ {f} : cloud'[g] = cloud[g] /\ jobs'[g] = jobs[g]
      BY <1>2 DEF Send, SendFails, Job, SetStage, GiveUp, IInv, TypeOK
    <2>2. \/ jobs'[f].stage = "none"
          \/ /\ jobs'[f].stage = "sent" /\ jobs'[f].snap = jobs[f].snap
             /\ local[f] = jobs[f].snap => cloud'[f] = local[f]
      BY <1>2 DEF Send, SendFails, Job, SetStage, GiveUp, NoJob, Content, IInv, TypeOK
    <2>3. f \in pending /\ f \in disk.pending
      BY <1>c, <2>1
    <2>4. JobsQueued'
      BY <2>1, <2>3 DEF IInv, JobsQueued
    <2>5. VersionsPast'
      BY <1>b, <2>1, <2>2 DEF IInv, VersionsPast
    <2>6. SentIsCloud'
      BY <1>b, <2>1, <2>2 DEF IInv, SentIsCloud
    <2>7. NothingBefore'
      BY <1>n, <2>1, <2>3
    <2>8. Kept(files, pending)' /\ Kept(disk.files, disk.pending)'
      BY <1>b, <2>1, <2>3 DEF IInv, Kept
    <2> QED
      BY <1>a, <2>4, <2>5, <2>6, <2>7, <2>8 DEF IInv
  <1>3. CASE Look(f) \/ ResultDropped(f) \/ RecordFails(f)
    <2>1. UNCHANGED <<cloud, files, pending, disk>> /\ jobs[f].stage # "none"
      BY <1>3 DEF Look, ResultDropped, RecordFails, Job, stateVars
    <2>2. \A g \in Files :
            \/ jobs'[g] = jobs[g]
            \/ jobs'[g].stage = "none"
            \/ /\ jobs'[g].stage = "checked" /\ jobs[g].stage = "sent"
               /\ jobs'[g].snap = jobs[g].snap /\ local[g] = jobs[g].snap
      BY <1>3 DEF Look, ResultDropped, RecordFails, Job, SetStage, GiveUp, NoJob, IInv, TypeOK
    <2>3. JobsQueued' /\ VersionsPast' /\ SentIsCloud'
      BY <1>b, <2>1, <2>2 DEF IInv, JobsQueued, VersionsPast, SentIsCloud
    <2> QED
      BY <1>a, <1>b, <1>n, <2>1, <2>3 DEF IInv, Kept
  <1>4. CASE Complete(f)
    <2>1. /\ UNCHANGED cloud /\ jobs[f].stage = "checked"
          /\ jobs' = [jobs EXCEPT ![f] = NoJob]
      BY <1>4 DEF Complete, Job, GiveUp
    <2>2. \A g \in Files : (jobs'[g] = jobs[g] /\ g # f) \/ jobs'[g].stage = "none"
      BY <2>1 DEF NoJob, IInv, TypeOK
    <2>3. VersionsPast' /\ SentIsCloud'
      BY <1>b, <2>1, <2>2 DEF IInv, VersionsPast, SentIsCloud
    <2>4. cloud[f] = jobs[f].snap
      BY <2>1 DEF IInv, SentIsCloud
    <2>5. /\ files' = [files EXCEPT ![f] = jobs[f].snap]
          /\ pending' = pending \ {f}
          /\ disk' = [disk EXCEPT !.files[f] = jobs[f].snap, !.pending = @ \ {f}]
      BY <1>4 DEF Complete
    <2>6. /\ disk'.files = [disk.files EXCEPT ![f] = jobs[f].snap]
          /\ disk'.pending = disk.pending \ {f} /\ disk'.baseline = disk.baseline
      BY <2>5 DEF IInv, TypeOK
    <2>7. JobsQueued'
      BY <2>2, <2>5, <2>6 DEF IInv, JobsQueued
    <2>8. NothingBefore'
      BY <1>n, <2>1, <2>6
    <2>9. Kept(files, pending)'
      BY <1>b, <2>1, <2>4, <2>5 DEF IInv, Kept, TypeOK, Recorded
    <2>10. Kept(disk.files, disk.pending)'
      BY <1>b, <2>1, <2>4, <2>6 DEF IInv, Kept, TypeOK, Recorded
    <2> QED
      BY <1>a, <2>3, <2>7, <2>8, <2>9, <2>10 DEF IInv
  <1> QED
    BY <1>1, <1>2, <1>3, <1>4 DEF Upload

\* The end of the thread, or a crash, loses memory only.
LEMMA EndRecorded ==
  ASSUME IInv, End
  PROVE  IInv'
  <1>1. TypeOK'
    BY EndTypes DEF IInv
  <1>2. PICK place \in {"down", "stopped"} :
            Leave(place) /\ (disk' = disk \/ disk' = Pruned)
    BY EndProperties
  <1>3. /\ UNCHANGED <<local, clock, cloud, base>>
        /\ pc' = place /\ pending' = {} /\ files' = [f \in Files |-> 0] /\ jobs' = Idle
    BY <1>2 DEF Leave, localVars
  <1>4. \A f \in Files : jobs'[f].stage = "none" /\ files'[f] = 0
    BY <1>3 DEF Idle, NoJob
  <1>5. /\ disk'.baseline = disk.baseline
        /\ Kept(disk'.files, disk'.pending)
        /\ disk.pending = {} => disk' = disk
    BY <1>2, PrunedRecorded DEF IInv
  <1>6. Kept(disk.files, disk.pending)'
    BY <1>3, <1>5 DEF Kept
  <1>7. NothingBefore'
    BY <1>2, <1>3, <1>5 DEF IInv, NothingBefore
  <1> QED
    BY <1>1, <1>3, <1>4, <1>6, <1>7 DEF IInv, JobsQueued, VersionsPast, SentIsCloud, Kept

\* The records, the queue and the uploads agree at every moment.
LEMMA Invariance == Spec => []IInv
  <1>1. Init => IInv
    <2> SUFFICES ASSUME Init PROVE IInv
      OBVIOUS
    <2>1. TypeOK
      BY InitTypes
    <2>2. \A f \in Files : /\ jobs[f].stage = "none" /\ files[f] = 0 /\ cloud[f] = 0
                            /\ local[f] \in {0, 1}
      BY DEF Init, Idle, NoJob
    <2>3. /\ pending = {} /\ disk.pending = {} /\ disk.files = files /\ pc = "down"
          /\ clock = 1
      BY DEF Init
    <2> QED
      BY <2>1, <2>2, <2>3
         DEF IInv, JobsQueued, VersionsPast, SentIsCloud, NothingBefore, Kept
  <1>2. IInv /\ [Next]_vars => IInv'
    <2>1. CASE UNCHANGED vars
      BY <2>1 DEF vars, localVars, watchVars, stateVars, batchVars, IInv, TypeOK, JobsQueued,
         VersionsPast, SentIsCloud, NothingBefore, Kept
    <2> QED
      BY <2>1, UserRecorded, ThreadRecorded, UploadRecorded, EndRecorded
         DEF Next, Thread, Errors, End
  <1> QED
    BY <1>1, <1>2, PTL DEF Spec

\* Whatever changes while it is uploaded, whenever requests fail, the thread
\* ends or the daemon dies: a file that is recorded and not queued is in the cloud as
\* recorded, or was there before the first start.
THEOREM RecordIsTrue == Spec => []RecordedIsCloud
  <1>1. IInv => RecordedIsCloud
    BY RecordedKept DEF IInv
  <1> QED
    BY <1>1, Invariance, PTL
===========================================================================
