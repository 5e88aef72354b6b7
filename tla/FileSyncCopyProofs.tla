------------------------- MODULE FileSyncCopyProofs -------------------------
(***************************************************************************)
(* What a clean copy is worth, for any scenario and any number of handles: *)
(* a row that is in step with the cloud has the very bytes of its version. *)
(*                                                                         *)
(* A conflict copy takes over the cache file of the row it was made from,  *)
(* which is named after that row.  The inductive invariant Matched says    *)
(* why nothing is written to the file any more: the row has let it go, and *)
(* the next download of the row has a later number, since the version that *)
(* won the conflict is not the one the row had.  Beyond the nine races of  *)
(* FileSyncSafetyProofs, two are excluded: CopiesApart and CutsEnd.        *)
(* README.md shows what happens in them.                                   *)
(***************************************************************************)
EXTENDS FileSyncSafetyProofs

-----------------------------------------------------------------------------
(* What is assumed beyond Orderly                                          *)

CopyRows == DOMAIN files \ DocRows

\* No truncation of a file starts over in the cache file that a copy took from it.
CopiesApart == fuse # None => \A j \in CopyRows : files[j].cache # fuse.c

\* The process does not die inside a truncation.
CutsEnd == fuse # None => ~Crash

-----------------------------------------------------------------------------
(* Revisions: what rows, runs and the refresh know of an item is not newer *)
(* than the item, and a row in conflict has lost to a later version        *)

There(k) == files[k].cloud \in DOMAIN cloud
Revised(k) == cloud[files[k].cloud].etag # files[k].etag
Fit(e) == e.id \in DOMAIN cloud => e.etag.rev <= cloud[e.id].etag.rev
Asking == {"publish", "detach", "import"}

RowFits(k) ==
  There(k) =>
    /\ files[k].etag # None /\ files[k].etag.rev <= cloud[files[k].cloud].etag.rev
    /\ files[k].state = "conflict" => Revised(k)

RunFits(k) ==
  /\ task[k].r.cloud \in DOMAIN cloud =>
       /\ task[k].r.etag # None /\ task[k].r.etag.rev <= cloud[task[k].r.cloud].etag.rev
       /\ task[k].pc = "refused" => task[k].r.etag # cloud[task[k].r.cloud].etag
  /\ task[k].pc \in Storing => Fit(task[k].res)
  /\ task[k].pc \in Asking /\ task[k].latest # None => Fit(task[k].latest)

\* An entry of a copy is named after its bytes.
Named(e) == e.path # Doc => e.path = CopyPath(e.etag.data)

Told == delta # None => \A e \in delta.entries : Fit(e) /\ Named(e)

-----------------------------------------------------------------------------
(* Rows and the runs on them                                               *)

\* The row of a copy has the bytes it is named after, if they are there.
CopyAt(j) ==
  /\ files[j].etag # None /\ files[j].path = CopyPath(files[j].etag.data)
  /\ files[j].cache \in DOMAIN disk => disk[files[j].cache] = files[j].etag.data
  /\ files[j].cache # None => files[j].cache \in Locals \X Nat

\* The n-th cache file of row k, with a copy: row k has let it go, or is about to,
\* and its next download has a later number.
LentAt(j) ==
  \A k \in Locals, n \in Nat :
    files[j].cache = <<k, n>> =>
      /\ k \in DOMAIN cloud => cloud[k].path = Doc /\ (k \in DOMAIN files \/ LocalTomb(k))
      /\ k \in DocRows =>
           /\ files[k].cloud # None
           /\ There(k) => \/ n <= files[k].gen
                          \/ n = files[k].gen + 1 /\ Revised(k) /\ ~At(k, "commit")
           /\ files[k].cache = <<k, n>> => files[k].up.path \notin {None, Doc}

\* The row at the path has the bytes of its version when it is clean, and no cache
\* file from the future.
Live(k) == files[k].cloud = None \/ There(k)
DocAt(k) ==
  /\ files[k].state = "cached" /\ files[k].cache # None /\ ~Truncating(k) =>
       files[k].etag # None /\ disk[files[k].cache] = files[k].etag.data
  /\ Live(k) => \A n \in Nat :
       files[k].cache = <<k, n>> \/ (Truncating(k) /\ fuse.c = <<k, n>>) => n <= files[k].gen + 1

\* A conflict is that of the row which the run has read, and what a run sends
\* replaces the version the row still has.
RunAt(k) ==
  /\ task[k].pc \in Before /\ k \in DOMAIN files => files[k].state # "conflict"
  /\ task[k].pc \in Copying \cup {"claimcopy"} /\ k \in DOMAIN files /\ files[k].state = "conflict" =>
       Unchanged(files, k, task[k].r)
  /\ task[k].pc \in Sending /\ k \in DOMAIN files => files[k].etag = task[k].r.etag
  /\ task[k].pc \in Asking /\ task[k].latest # None => Named(task[k].latest)

Cutting == fuse # None => fuse.k \in DOMAIN files \/ fuse.k \notin DOMAIN cloud

Matched ==
  /\ \A k \in DOMAIN files : RowFits(k)
  /\ \A k \in DOMAIN task : RunFits(k) /\ RunAt(k)
  /\ Told
  /\ \A j \in CopyRows : CopyAt(j) /\ LentAt(j)
  /\ \A k \in DocRows : DocAt(k)
  /\ Cutting

-----------------------------------------------------------------------------
(* Numbers                                                                 *)

IsVersion(e) == e.id \in Items /\ e.etag # None /\ e.etag.rev \in Nat

Numbered ==
  /\ \A k \in DOMAIN files :
       /\ files[k].gen \in Nat /\ (files[k].etag # None => files[k].etag.rev \in Nat)
       /\ files[k].cache # None => files[k].cache \in Locals \X Nat
  /\ \A i \in DOMAIN cloud : cloud[i].etag # None /\ cloud[i].etag.rev \in Nat
  /\ \A k \in DOMAIN task :
       /\ task[k].r.etag # None => task[k].r.etag.rev \in Nat
       /\ task[k].pc \in Storing => IsVersion(task[k].res)
       /\ task[k].pc \in Asking /\ task[k].latest # None => IsVersion(task[k].latest)
  /\ delta # None => \A e \in delta.entries : IsVersion(e)
  /\ \A d \in DOMAIN tombs : d \in Items => tombs[d].cloud = d
  /\ \A k \in CopyRows : k \in Items /\ files[k].cloud = k
  /\ \A k \in Locals, n \in Nat : <<k, n>> # None

LEMMA Numbers ==
  ASSUME IInv
  PROVE  Numbered
  <1>1. PICK g : Now(g)
    BY DEF IInv, Known
  <1>2. /\ ItemsIn(g) = Items /\ IdsIn(g) = Locals /\ World(g) /\ Tombs(tombs, g)
        /\ Tasks(task, disk, g) /\ Drive(cloud, g) /\ Feed(delta, unseen, g) /\ Table(files, g)
    BY <1>1, Worlds
  <1>3. \A e \in EtagsIn(g) : e # None => e.rev \in Nat
    BY DEF EtagsIn
  <1>4. \A e : IsEntry(e, g) => IsVersion(e)
    BY <1>2, <1>3 DEF IsEntry, IsVersion
  <1>5. \A k \in DOMAIN files : IsRow(k, files[k], g) /\ k \in Locals
    BY <1>2 DEF Table
  <1>6. \A k \in DOMAIN files :
          /\ files[k].gen \in Nat /\ (files[k].etag # None => files[k].etag.rev \in Nat)
          /\ files[k].cache # None => files[k].cache \in Locals \X Nat
    BY <1>2, <1>3, <1>5 DEF IsRow, NamesIn
  <1>7. \A i \in DOMAIN cloud : cloud[i].etag # None /\ cloud[i].etag.rev \in Nat
    BY <1>2, <1>3 DEF Drive
  <1>8. ASSUME NEW k \in DOMAIN task
        PROVE  /\ task[k].r.etag # None => task[k].r.etag.rev \in Nat
               /\ task[k].pc \in Storing => IsVersion(task[k].res)
               /\ task[k].pc \in Asking /\ task[k].latest # None => IsVersion(task[k].latest)
    <2>1. IsTask(k, task[k], g)
      BY <1>2 DEF Tasks
    <2>2. task[k].r.etag \in EtagsIn(g)
      BY <2>1 DEF IsTask, IsRow
    <2>3. task[k].pc \in Storing => IsEntry(task[k].res, g)
      BY <2>1 DEF IsTask, Storing, Copying
    <2>4. task[k].pc \in Asking /\ task[k].latest # None => IsEntry(task[k].latest, g)
      BY <2>1 DEF IsTask, Asking
    <2> QED
      BY <1>3, <1>4, <2>2, <2>3, <2>4
  <1>9. delta # None => \A e \in delta.entries : IsVersion(e)
    BY <1>2, <1>4 DEF Feed
  <1>10. \A d \in DOMAIN tombs : d \in Items => tombs[d].cloud = d
    BY <1>2 DEF Tombs, IsTomb
  <1>11. ASSUME NEW k \in CopyRows PROVE k \in Items /\ files[k].cloud = k
    <2>1. k \in DOMAIN files /\ files[k].path # Doc
      BY DEF CopyRows, DocRows, RowAt
    <2>2. k \in Items
      BY <1>2, <1>5, <2>1, Identities DEF IsRow
    <2> QED
      BY <1>2, <1>5, <2>1, <2>2 DEF IsRow
  <1>12. \A k \in Locals, n \in Nat : <<k, n>> # None
    BY <1>2, OwnName, Identities
  <1> QED
    BY <1>6, <1>7, <1>8, <1>9, <1>10, <1>11, <1>12 DEF Numbered

LEMMA NumbersNext ==
  IInv' => Numbered'
  <1>1. IInv => Numbered
    BY Numbers
  <1> QED
    BY <1>1, PTL

-----------------------------------------------------------------------------
(* What a step does to revisions, rows and copies                          *)

\* An item's revision rises with its content.
Rises ==
  \A i \in DOMAIN cloud \cap DOMAIN cloud' :
    cloud'[i] = cloud[i] \/ cloud'[i].etag.rev = cloud[i].etag.rev + 1

\* Rows, runs and copies that a step leaves as they are, as far as it matters.
RowKept(k) ==
  /\ k \in DOMAIN files /\ files'[k].cloud = files[k].cloud /\ files'[k].etag = files[k].etag
  /\ files'[k].state = "conflict" => files[k].state = "conflict"
RunKept(k) ==
  /\ k \in DOMAIN task /\ task'[k] = task[k]
  /\ k \in DOMAIN files' =>
       /\ files'[k].state = "conflict" =>
            /\ k \in DOMAIN files /\ files[k].state = "conflict" /\ files'[k].stamp = files[k].stamp
            /\ files'[k].cache = files[k].cache /\ files'[k].etag = files[k].etag
       /\ task[k].pc \in Sending => k \in DOMAIN files /\ files'[k].etag = files[k].etag
CopyKept(j) ==
  /\ j \in CopyRows /\ files'[j].path = files[j].path
  /\ files'[j].etag = files[j].etag /\ files'[j].cache = files[j].cache
CopyNew(j) ==
  files'[j].cache = None /\ files'[j].etag # None /\ files'[j].path = CopyPath(files'[j].etag.data)
CopyBytes ==
  \A j \in CopyRows : files[j].cache \in DOMAIN disk' =>
    files[j].cache \in DOMAIN disk /\ disk'[files[j].cache] = disk[files[j].cache]

\* What becomes of the row at the path: its item stays, its version goes with its
\* number, and it takes no cache file that a copy has.
SteadyAt(k) ==
  /\ files[k].cloud # None => files'[k].cloud = files[k].cloud
  /\ There(k) =>
       \/ files'[k].gen > files[k].gen
       \/ files'[k].gen = files[k].gen /\ (files'[k].etag = files[k].etag \/ At(k, "commit"))
  /\ There(k) /\ Revised(k) /\ (At(k, "commit"))' => At(k, "commit")
  /\ files'[k].cache # None =>
       \/ /\ files'[k].cache = files[k].cache
          /\ files[k].up.path \notin {None, Doc} => files'[k].up.path \notin {None, Doc}
       \/ \A j \in CopyRows : files[j].cache # files'[k].cache
NewAt(k) ==
  \/ k \notin Locals
  \/ /\ k \in Items \ DOMAIN files /\ files'[k].cloud = k /\ ~LocalTomb(k)
     /\ files'[k].cache = None
Steady ==
  /\ \A k \in DocRows' : IF k \in DocRows THEN SteadyAt(k) ELSE NewAt(k)
  /\ \A k \in DOMAIN cloud' :
       /\ k \in DOMAIN files \ DOMAIN files' /\ cloud'[k].path = Doc => (LocalTomb(k))'
       /\ LocalTomb(k) => (LocalTomb(k))'

LEMMA Risen ==
  ASSUME Numbered, Numbered', Moves, Rises, NEW i \in Items, i \in DOMAIN cloud'
  PROVE  /\ i \in DOMAIN cloud
         /\ \A n \in Nat : n <= cloud[i].etag.rev => n <= cloud'[i].etag.rev
         /\ \A t : t.rev \in Nat /\ t.rev <= cloud[i].etag.rev /\ t # cloud[i].etag => t # cloud'[i].etag
  <1>1. i \in DOMAIN cloud
    BY DEF Moves
  <1>2. cloud[i].etag.rev \in Nat /\ cloud'[i].etag.rev \in Nat
    BY <1>1 DEF Numbered
  <1>3. cloud'[i] = cloud[i] \/ cloud'[i].etag.rev = cloud[i].etag.rev + 1
    BY <1>1 DEF Rises
  <1>4. \A n \in Nat : n <= cloud[i].etag.rev => n <= cloud'[i].etag.rev
    BY <1>2, <1>3
  <1>5. ASSUME NEW t, t.rev \in Nat, t.rev <= cloud[i].etag.rev, t # cloud[i].etag, t = cloud'[i].etag
        PROVE  FALSE
    BY <1>2, <1>3, <1>5
  <1> QED
    BY <1>1, <1>4, <1>5

LEMMA NoneGone ==
  ASSUME Shape'
  PROVE  None \notin DOMAIN cloud'
  BY DEF Shape, CloudShape

LEMMA RowFitsStays ==
  ASSUME Shape, Shape', Numbered, Numbered', Moves, Rises, NEW k \in DOMAIN files, RowFits(k), RowKept(k)
  PROVE  (RowFits(k))'
  <1> DEFINE i == files[k].cloud
  <1> SUFFICES ASSUME i \in DOMAIN cloud'
               PROVE  /\ files[k].etag # None /\ files[k].etag.rev <= cloud'[i].etag.rev
                      /\ files[k].state = "conflict" => cloud'[i].etag # files[k].etag
    BY DEF RowFits, RowKept, There, Revised
  <1>1. i \in Items
    BY NoneGone DEF Shape, RowShape
  <1>2. i \in DOMAIN cloud
    BY <1>1 DEF Moves
  <1>3. /\ files[k].etag # None /\ files[k].etag.rev <= cloud[i].etag.rev
        /\ files[k].state = "conflict" => cloud[i].etag # files[k].etag
    BY <1>2 DEF RowFits, There, Revised
  <1>4. files[k].etag.rev \in Nat
    BY <1>3 DEF Numbered
  <1> QED
    BY <1>1, <1>3, <1>4, Risen

LEMMA FitStays ==
  ASSUME Numbered, Numbered', Moves, Rises
  PROVE  \A e : IsVersion(e) /\ Fit(e) => (e.id \in DOMAIN cloud' => e.etag.rev <= cloud'[e.id].etag.rev)
  BY Risen DEF IsVersion, Fit, Moves

LEMMA ToldStays ==
  ASSUME Numbered, Numbered', Moves, Rises, Told,
         delta' # None => delta # None /\ delta'.entries = delta.entries
  PROVE  Told'
  <1> SUFFICES ASSUME delta' # None, NEW e \in delta.entries
               PROVE  (Fit(e))' /\ (Named(e))'
    BY DEF Told
  <1>1. IsVersion(e) /\ Fit(e) /\ Named(e)
    BY DEF Told, Numbered
  <1> QED
    BY <1>1, FitStays DEF Fit, Named


LEMMA RunStays ==
  ASSUME Shape, Shape', Numbered, Numbered', Moves, Rises,
         NEW k \in DOMAIN task, RunFits(k), RunAt(k), RunKept(k), k \in DOMAIN task'
  PROVE  (RunFits(k))' /\ (RunAt(k))'
  <1> DEFINE t == task[k]
  <1>1. task'[k] = t
    BY DEF RunKept
  <1>2. /\ t.r.cloud \in Items \cup {None} /\ t.r.path = Doc
        /\ k \in DOMAIN files' => files'[k].path = Doc /\ files'[k].cloud = t.r.cloud
    BY <1>1 DEF Shape, TaskShape
  <1>3. (RunFits(k))'
    <2>1. ASSUME t.r.cloud \in DOMAIN cloud'
          PROVE  /\ t.r.etag # None /\ t.r.etag.rev <= cloud'[t.r.cloud].etag.rev
                 /\ t.pc = "refused" => t.r.etag # cloud'[t.r.cloud].etag
      <3>1. t.r.cloud \in Items
        BY <1>2, <2>1, NoneGone
      <3>2. t.r.cloud \in DOMAIN cloud
        BY <2>1, <3>1 DEF Moves
      <3>3. /\ t.r.etag # None /\ t.r.etag.rev <= cloud[t.r.cloud].etag.rev
            /\ t.pc = "refused" => t.r.etag # cloud[t.r.cloud].etag
        BY <3>2 DEF RunFits
      <3>4. t.r.etag.rev \in Nat
        BY <3>3 DEF Numbered
      <3> QED
        BY <2>1, <3>1, <3>3, <3>4, Risen
    <2>2. t.pc \in Storing => (t.res.id \in DOMAIN cloud' => t.res.etag.rev <= cloud'[t.res.id].etag.rev)
      BY FitStays DEF RunFits, Numbered
    <2>3. t.pc \in Asking /\ t.latest # None =>
            (t.latest.id \in DOMAIN cloud' => t.latest.etag.rev <= cloud'[t.latest.id].etag.rev)
      BY FitStays DEF RunFits, Numbered
    <2> QED
      BY <1>1, <2>1, <2>2, <2>3 DEF RunFits, Fit
  <1>4. (RunAt(k))'
    BY <1>1, <1>2 DEF RunAt, RunKept, Unchanged, Named, Before, Copying, Sending
  <1> QED
    BY <1>3, <1>4

\* What a copy has taken from a row stays taken.
LEMMA LentStays ==
  ASSUME Shape, Shape', Numbered, Numbered', Moves, Rises, Steady, \A k \in DOMAIN files : RowFits(k),
         NEW j \in CopyRows, LentAt(j), j \in CopyRows', CopyKept(j)
  PROVE  (LentAt(j))'
  <1> SUFFICES ASSUME NEW k \in Locals', NEW n \in Nat, files[j].cache = <<k, n>>
               PROVE  /\ k \in DOMAIN cloud' => cloud'[k].path = Doc /\ (k \in DOMAIN files' \/ (LocalTomb(k))')
                      /\ k \in DocRows' =>
                           /\ files'[k].cloud # None
                           /\ (There(k))' => \/ n <= files'[k].gen
                                             \/ n = files'[k].gen + 1 /\ (Revised(k))' /\ ~(At(k, "commit"))'
                           /\ files'[k].cache = <<k, n>> => files'[k].up.path \notin {None, Doc}
    BY DEF LentAt, CopyKept
  <1>1. j \in DOMAIN files /\ <<k, n>> # None
    BY DEF CopyRows, Numbered
  <1>2. k \in Locals
    <2>1. files[j].cache \in Locals \X Nat
      BY <1>1 DEF Numbered
    <2> HIDE DEF CopyKept, LentAt
    <2> QED
      BY <2>1
  <1>3. /\ k \in DOMAIN cloud => cloud[k].path = Doc /\ (k \in DOMAIN files \/ LocalTomb(k))
        /\ k \in DocRows =>
             /\ files[k].cloud # None
             /\ There(k) => \/ n <= files[k].gen
                            \/ n = files[k].gen + 1 /\ Revised(k) /\ ~At(k, "commit")
             /\ files[k].cache = <<k, n>> => files[k].up.path \notin {None, Doc}
    BY <1>2 DEF LentAt
  <1>4. k \in DOMAIN cloud' => k \in DOMAIN cloud
    BY <1>2, ItemsOnly DEF Moves
  <1>5. k \in DOMAIN cloud' => cloud'[k].path = Doc /\ (k \in DOMAIN files' \/ (LocalTomb(k))')
    BY <1>3, <1>4 DEF Moves, Steady
  <1>6. ASSUME k \in DocRows', k \notin DocRows
        PROVE  /\ files'[k].cloud # None /\ ~(There(k))' /\ files'[k].cache # <<k, n>>
    <2>1. k \in Items \ DOMAIN files /\ files'[k].cloud = k /\ ~LocalTomb(k) /\ files'[k].cache = None
      BY <1>2, <1>6 DEF Steady, NewAt
    <2> QED
      BY <1>1, <1>3, <1>4, <2>1, NoneNowhere DEF There
  <1>7. ASSUME k \in DocRows', k \in DocRows
        PROVE  /\ files'[k].cloud # None
               /\ (There(k))' => \/ n <= files'[k].gen
                                 \/ n = files'[k].gen + 1 /\ (Revised(k))' /\ ~(At(k, "commit"))'
               /\ files'[k].cache = <<k, n>> => files'[k].up.path \notin {None, Doc}
    <2>1. SteadyAt(k) /\ k \in DOMAIN files /\ k \in DOMAIN files'
      BY <1>7 DEF Steady, DocRows, RowAt
    <2>2. files[k].cloud # None /\ files'[k].cloud = files[k].cloud
      BY <1>3, <1>7, <2>1 DEF SteadyAt
    <2>3. files'[k].cache = <<k, n>> => files'[k].up.path \notin {None, Doc}
      BY <1>1, <1>3, <1>7, <2>1 DEF SteadyAt
    <2>4. ASSUME (There(k))'
          PROVE  \/ n <= files'[k].gen
                 \/ n = files'[k].gen + 1 /\ (Revised(k))' /\ ~(At(k, "commit"))'
      <3> DEFINE i == files[k].cloud
      <3>1. i \in Items /\ i \in DOMAIN cloud'
        BY <2>1, <2>2, <2>4 DEF There, Shape, RowShape
      <3>2. There(k)
        BY <3>1 DEF There, Moves
      <3>3. files[k].gen \in Nat /\ files'[k].gen \in Nat
        BY <2>1 DEF Numbered
      <3>4. CASE n <= files[k].gen
        BY <2>1, <3>2, <3>3, <3>4 DEF SteadyAt
      <3>5. CASE n = files[k].gen + 1 /\ Revised(k) /\ ~At(k, "commit")
        <4>1. \/ files'[k].gen > files[k].gen
              \/ files'[k].gen = files[k].gen /\ files'[k].etag = files[k].etag /\ ~(At(k, "commit"))'
          BY <2>1, <3>2, <3>5 DEF SteadyAt
        <4>2. /\ files[k].etag # None /\ files[k].etag.rev <= cloud[i].etag.rev
              /\ files[k].etag # cloud[i].etag
          BY <2>1, <3>2, <3>5 DEF RowFits, There, Revised
        <4>3. files[k].etag # cloud'[i].etag
          BY <2>1, <3>1, <4>2, Risen DEF Numbered
        <4>4. files'[k].etag = files[k].etag => (Revised(k))'
          BY <2>2, <4>3 DEF Revised
        <4> QED
          BY <3>3, <3>5, <4>1, <4>4
      <3> QED
        BY <1>3, <1>7, <3>2, <3>4, <3>5
    <2> QED
      BY <2>2, <2>3, <2>4
  <1> QED
    BY <1>5, <1>6, <1>7

LEMMA CopyStays ==
  ASSUME Shape', Numbered', Moves, CopyBytes, NEW j \in CopyRows, CopyAt(j), CopyKept(j)
  PROVE  (CopyAt(j))'
  <1>1. /\ files[j].etag # None /\ files[j].path = CopyPath(files[j].etag.data)
        /\ files[j].cache \in DOMAIN disk => disk[files[j].cache] = files[j].etag.data
        /\ files[j].cache # None => files[j].cache \in Locals \X Nat
    BY DEF CopyAt
  <1>2. /\ files'[j].path = files[j].path
        /\ files'[j].etag = files[j].etag /\ files'[j].cache = files[j].cache
    BY DEF CopyKept
  <1>3. files[j].cache # None => files[j].cache \in Locals' \X Nat
    BY <1>1 DEF Moves
  <1>4. files[j].cache \in DOMAIN disk' => disk'[files[j].cache] = files[j].etag.data
    BY <1>1 DEF CopyBytes
  <1> QED
    BY <1>1, <1>2, <1>3, <1>4 DEF CopyAt

LEMMA NewCopy ==
  ASSUME Shape', Numbered', NEW j \in CopyRows', CopyNew(j)
  PROVE  (CopyAt(j))' /\ (LentAt(j))'
  <1>1. None \notin DOMAIN disk'
    BY DEF Shape, CloudShape
  <1>2. (CopyAt(j))'
    BY <1>1 DEF CopyAt, CopyNew
  <1>3. (LentAt(j))'
    BY DEF LentAt, CopyNew, Numbered
  <1> QED
    BY <1>2, <1>3

\* Everything that a step may have disturbed, and what it may leave to these lemmas.
LEMMA Matching ==
  ASSUME Shape, Shape', Numbered, Numbered', Moves, Rises, Steady, CopyBytes, Matched,
         \A k \in DOMAIN files' : RowKept(k) \/ (RowFits(k))',
         \A k \in DOMAIN task' : RunKept(k) \/ ((RunFits(k))' /\ (RunAt(k))'),
         Told',
         \A j \in CopyRows' : CopyKept(j) \/ CopyNew(j) \/ ((CopyAt(j))' /\ (LentAt(j))'),
         \A k \in DocRows' : (DocAt(k))',
         Cutting'
  PROVE  Matched'
  <1>1. ASSUME NEW k \in DOMAIN files' PROVE (RowFits(k))'
    <2>1. CASE RowKept(k)
      BY <2>1, RowFitsStays DEF RowKept, Matched
    <2> QED
      BY <2>1
  <1>2. ASSUME NEW k \in DOMAIN task' PROVE (RunFits(k))' /\ (RunAt(k))'
    <2>1. CASE RunKept(k)
      <3>1. k \in DOMAIN task
        BY <2>1 DEF RunKept
      <3>2. RunFits(k) /\ RunAt(k)
        BY <3>1 DEF Matched
      <3> QED
        BY <2>1, <3>1, <3>2, RunStays
    <2> QED
      BY <2>1
  <1>3. ASSUME NEW j \in CopyRows' PROVE (CopyAt(j))' /\ (LentAt(j))'
    <2>1. CASE CopyKept(j)
      <3>1. j \in CopyRows
        BY <2>1 DEF CopyKept
      <3>2. CopyAt(j) /\ LentAt(j) /\ \A k \in DOMAIN files : RowFits(k)
        BY <3>1 DEF Matched
      <3>3. (CopyAt(j))'
        BY <2>1, <3>1, <3>2, CopyStays
      <3>4. (LentAt(j))'
        BY <2>1, <3>1, <3>2, LentStays
      <3> QED
        BY <3>3, <3>4
    <2>2. CASE CopyNew(j)
      BY <2>2, NewCopy
    <2> QED
      BY <2>1, <2>2
  <1> QED
    BY <1>1, <1>2, <1>3 DEF Matched

-----------------------------------------------------------------------------
(* Steps that leave the rows alone, or rewrite one of them                 *)

\* The row at the path that a step leaves as it is, with its bytes.
DocKept(k) ==
  /\ k \in DocRows /\ fuse' = fuse
  /\ files'[k].cloud = files[k].cloud /\ files'[k].etag = files[k].etag
  /\ files'[k].cache = files[k].cache /\ files'[k].gen = files[k].gen
  /\ files'[k].state = "cached" => files[k].state = "cached"
  /\ files[k].cache # None => disk'[files[k].cache] = disk[files[k].cache]

LEMMA DocStays ==
  ASSUME Shape, Shape', Moves, NEW k, DocKept(k), DocAt(k)
  PROVE  (DocAt(k))'
  <1>1. (Truncating(k))' <=> Truncating(k)
    BY DEF DocKept, Truncating
  <1>2. (Live(k))' => Live(k)
    <2>1. ASSUME files[k].cloud \in DOMAIN cloud' PROVE files[k].cloud \in DOMAIN cloud
      <3>1. files[k].cloud \in Items
        BY <2>1, NoneGone DEF Shape, RowShape, DocKept, DocRows, RowAt
      <3> QED
        BY <2>1, <3>1 DEF Moves
    <2> QED
      BY <2>1 DEF Live, There, DocKept
  <1>3. fuse' = fuse
    BY DEF DocKept
  <1>4. files'[k].state = "cached" /\ files'[k].cache # None /\ ~(Truncating(k))' =>
          files'[k].etag # None /\ disk'[files'[k].cache] = files'[k].etag.data
    BY <1>1 DEF DocKept, DocAt
  <1>5. (Live(k))' => \A n \in Nat :
          files'[k].cache = <<k, n>> \/ ((Truncating(k))' /\ fuse.c = <<k, n>>) => n <= files'[k].gen + 1
    BY <1>1, <1>2 DEF DocKept, DocAt
  <1> QED
    BY <1>3, <1>4, <1>5 DEF DocAt

LEMMA CuttingStays ==
  ASSUME Shape, Shape', Moves, Cutting, fuse' = fuse,
         fuse # None /\ fuse.k \in DOMAIN files => fuse.k \in DOMAIN files' \/ fuse.k \notin DOMAIN cloud'
  PROVE  Cutting'
  <1>1. fuse # None => fuse.k \in Locals
    BY DEF Shape, FuseShape
  <1>2. fuse # None /\ fuse.k \notin DOMAIN cloud => fuse.k \notin DOMAIN cloud'
    BY <1>1, ItemsOnly DEF Moves
  <1> QED
    BY <1>2 DEF Cutting

\* No deleted file that the cloud still has loses its tombstone.
TombsStay == \A k \in DOMAIN cloud' : LocalTomb(k) => (LocalTomb(k))'

\* No answer comes to an upload that the cloud has outrun.
CommitsFit == \A k \in DocRows : There(k) /\ Revised(k) /\ (At(k, "commit"))' => At(k, "commit")

LEMMA SameRowsMatch ==
  ASSUME Shape, Shape', Numbered, Numbered', Moves, Rises, Matched,
         UNCHANGED <<files, fuse>>, CopyBytes,
         \A k \in DocRows : files[k].cache # None => disk'[files[k].cache] = disk[files[k].cache],
         TombsStay, CommitsFit,
         \A k \in DOMAIN task' :
           (k \in DOMAIN task /\ task'[k] = task[k]) \/ ((RunFits(k))' /\ (RunAt(k))'),
         Told'
  PROVE  Matched'
  <1>1. CopyRows' = CopyRows /\ DocRows' = DocRows /\ CopyRows \subseteq DOMAIN files /\ DocRows \subseteq DOMAIN files
    BY DEF CopyRows, DocRows, RowAt
  <1>2. Steady
    <2>1. \A k \in DocRows : SteadyAt(k)
      BY DEF SteadyAt, CommitsFit
    <2> QED
      BY <1>1, <2>1 DEF Steady, TombsStay
  <1>3. \A k \in DOMAIN files' : RowKept(k)
    BY DEF RowKept
  <1>4. ASSUME NEW k \in DOMAIN task' PROVE RunKept(k) \/ ((RunFits(k))' /\ (RunAt(k))')
    <2>1. CASE k \in DOMAIN task /\ task'[k] = task[k]
      BY <2>1 DEF RunKept
    <2> QED
      BY <2>1
  <1>5. \A j \in CopyRows' : CopyKept(j)
    BY <1>1 DEF CopyKept
  <1>6. ASSUME NEW k \in DocRows' PROVE (DocAt(k))'
    <2>1. DocKept(k) /\ DocAt(k)
      BY <1>1, <1>6 DEF DocKept, Matched
    <2> QED
      BY <2>1, DocStays
  <1>7. Cutting'
    BY CuttingStays DEF Matched
  <1> QED
    BY <1>2, <1>3, <1>4, <1>5, <1>6, <1>7, Matching

\* One row at the path is rewritten.
LEMMA OneRowMatch ==
  ASSUME Shape, Shape', Numbered, Numbered', Moves, Rises, Matched,
         NEW k \in DocRows, k \in DocRows', DOMAIN files' = DOMAIN files,
         \A j \in DOMAIN files \ {k} : files'[j] = files[j],
         CopyBytes, TombsStay, SteadyAt(k), RowKept(k) \/ (RowFits(k))', (DocAt(k))',
         OnlyRun(k), k \in DOMAIN task' => RunKept(k) \/ ((RunFits(k))' /\ (RunAt(k))'),
         Told', Cutting'
  PROVE  Matched'
  <1>1. /\ CopyRows' = CopyRows /\ DocRows' = DocRows /\ CopyRows \subseteq DOMAIN files
        /\ DocRows = {k} /\ k \notin CopyRows
    <2>1. \A j \in DocRows : j = k
      BY DocRow2
    <2>2. DocRows' = DocRows
      BY <2>1 DEF DocRows, RowAt
    <2> QED
      BY <2>1, <2>2 DEF CopyRows
  <1>2. Steady
    BY <1>1 DEF Steady, TombsStay
  <1>3. \A j \in DOMAIN files' : RowKept(j) \/ (RowFits(j))'
    <2>1. \A j \in DOMAIN files \ {k} : RowKept(j)
      BY DEF RowKept
    <2> QED
      BY <2>1
  <1>4. ASSUME NEW j \in DOMAIN task', j # k PROVE RunKept(j)
    <2>1. j \in DOMAIN task /\ task'[j] = task[j]
      BY <1>4 DEF OnlyRun
    <2> QED
      BY <1>4, <2>1 DEF RunKept
  <1>5. \A j \in CopyRows' : CopyKept(j)
    BY <1>1 DEF CopyKept
  <1> QED
    BY <1>1, <1>2, <1>3, <1>4, <1>5, Matching

-----------------------------------------------------------------------------
(* Requests to the cloud                                                   *)

LEMMA StoresRise ==
  ASSUME Shape, Shape', Numbered, NEW i, NEW p, NEW data, Stores(i, p, data)
  PROVE  /\ Rises
         /\ i \in DOMAIN cloud' /\ (i \in DOMAIN cloud => cloud'[i].etag.rev = cloud[i].etag.rev + 1)
         /\ delta' # None => delta # None /\ delta'.entries = delta.entries
  <1>1. i \in DOMAIN cloud => cloud'[i].etag.rev = cloud[i].etag.rev + 1
    <2>1. ASSUME i \in DOMAIN cloud PROVE cloud'[i].etag.rev = cloud[i].etag.rev + 1
      <3>1. /\ cloud' = [cloud EXCEPT ![i].etag = Etag(cloud[i].etag.rev + 1, data)]
            /\ DOMAIN cloud[i] = {"path", "etag"}
        BY <2>1 DEF Stores, Store, Shape, CloudShape
      <3> QED
        BY <2>1, <3>1 DEF Etag
    <2> QED
      BY <2>1
  <1>2. i \in DOMAIN cloud' /\ \A j \in DOMAIN cloud \ {i} : cloud'[j] = cloud[j]
    BY StoresFacts
  <1>3. delta' # None => delta # None /\ delta'.entries = delta.entries
    BY DEF Stores, Store, Changed, Shape, DeltaShape, DeltaFields
  <1> QED
    BY <1>1, <1>2, <1>3 DEF Rises

\* A step that stores something, or removes an item, or neither.
LEMMA RequestMatch ==
  ASSUME Shape, Shape', Numbered, Numbered', Moves, Rises, Matched, UNCHANGED <<files, disk, fuse>>,
         TombsStay, CommitsFit,
         \A k \in DOMAIN task' :
           (k \in DOMAIN task /\ task'[k] = task[k]) \/ ((RunFits(k))' /\ (RunAt(k))'),
         delta' # None => delta # None /\ delta'.entries = delta.entries
  PROVE  Matched'
  <1>1. CopyBytes
    BY DEF CopyBytes
  <1>2. Told'
    BY ToldStays DEF Matched
  <1> QED
    BY <1>1, <1>2, SameRowsMatch

LEMMA SameRuns2 ==
  ASSUME task' = task
  PROVE  CommitsFit /\ \A k \in DOMAIN task' : k \in DOMAIN task /\ task'[k] = task[k]
  BY DEF CommitsFit, At

LEMMA SameTombs2 ==
  ASSUME tombs' = tombs
  PROVE  TombsStay
  BY DEF TombsStay, LocalTomb

\* What a run is left with after its request.
LEMMA Turned ==
  ASSUME Shape, Shape', Numbered, Numbered', Moves, Rises, files' = files,
         NEW k \in DOMAIN task, k \in DOMAIN task', RunFits(k), RunAt(k),
         task[k].pc = "put", Turns(k),
         (/\ task'[k].pc = "refused"
          /\ task[k].r.cloud \in DOMAIN cloud'
          /\ task[k].r.cloud \in DOMAIN cloud) =>
             \/ task[k].r.etag # cloud[task[k].r.cloud].etag
             \/ cloud'[task[k].r.cloud].etag.rev = cloud[task[k].r.cloud].etag.rev + 1
  PROVE  (RunFits(k))' /\ (RunAt(k))'
  <1> DEFINE i == task[k].r.cloud
  <1>1. /\ task'[k].pc \in {"failed", "refused"} /\ task'[k].r = task[k].r
        /\ i \in Items \cup {None} /\ DOMAIN task[k] = TaskFields
    BY DEF Turns, Shape, TaskShape, TaskFields
  <1>2. (RunAt(k))'
    BY <1>1 DEF RunAt, Before, Copying, Sending, Asking
  <1>3. ASSUME i \in DOMAIN cloud'
        PROVE  /\ task[k].r.etag # None /\ task[k].r.etag.rev <= cloud'[i].etag.rev
               /\ task'[k].pc = "refused" => task[k].r.etag # cloud'[i].etag
    <2>1. i \in Items
      BY <1>1, <1>3, NoneGone
    <2>2. i \in DOMAIN cloud
      BY <1>3, <2>1 DEF Moves
    <2>3. task[k].r.etag # None /\ task[k].r.etag.rev <= cloud[i].etag.rev
      BY <2>2 DEF RunFits
    <2>4. task[k].r.etag.rev \in Nat /\ cloud[i].etag.rev \in Nat
      BY <2>2, <2>3 DEF Numbered
    <2>5. task[k].r.etag.rev <= cloud'[i].etag.rev
      BY <1>3, <2>1, <2>3, <2>4, Risen
    <2>6. ASSUME task'[k].pc = "refused" PROVE task[k].r.etag # cloud'[i].etag
      <3>1. CASE task[k].r.etag # cloud[i].etag
        BY <1>3, <2>1, <2>3, <2>4, <3>1, Risen
      <3>2. CASE cloud'[i].etag.rev = cloud[i].etag.rev + 1
        BY <2>3, <2>4, <3>2
      <3> QED
        BY <1>3, <2>2, <2>6, <3>1, <3>2
    <2> QED
      BY <2>3, <2>5, <2>6
  <1> QED
    BY <1>1, <1>2, <1>3 DEF RunFits, Storing, Asking

LEMMA AnswersFit ==
  ASSUME Shape, Shape', Numbered, Numbered', Moves, Rises, files' = files,
         NEW k \in DOMAIN task, k \in DOMAIN task', RunFits(k), RunAt(k), NEW i \in DOMAIN cloud',
         NEW at \in {"commit", "copied"}, Answers(k, i, at),
         at = "commit" => task[k].pc = "put", at = "copied" => task[k].pc = "copy"
  PROVE  (RunFits(k))' /\ (RunAt(k))'
  <1> DEFINE j == task[k].r.cloud
  <1>1. /\ task'[k].pc = at /\ task'[k].r = task[k].r /\ task'[k].res = Entry(cloud', i)
        /\ j \in Items \cup {None}
    BY DEF Answers, Shape, TaskShape, TaskFields
  <1>2. (RunAt(k))'
    <2>1. at \notin Asking /\ (at \in Sending => task[k].pc \in Sending)
          /\ (at \in Before => task[k].pc \in Before)
          /\ (at \in Copying \cup {"claimcopy"} => task[k].pc \in Copying \cup {"claimcopy"})
      BY DEF Asking, Before, Copying, Sending
    <2> QED
      BY <1>1, <2>1 DEF RunAt, Unchanged
  <1>3. ASSUME j \in DOMAIN cloud'
        PROVE  task[k].r.etag # None /\ task[k].r.etag.rev <= cloud'[j].etag.rev
    <2>1. j \in Items
      BY <1>1, <1>3, NoneGone
    <2>2. j \in DOMAIN cloud
      BY <1>3, <2>1 DEF Moves
    <2>3. task[k].r.etag # None /\ task[k].r.etag.rev <= cloud[j].etag.rev
      BY <2>2 DEF RunFits
    <2>4. task[k].r.etag.rev \in Nat
      BY <2>3 DEF Numbered
    <2> QED
      BY <1>3, <2>1, <2>3, <2>4, Risen
  <1>4. task'[k].res.id = i /\ task'[k].res.etag = cloud'[i].etag /\ cloud'[i].etag.rev \in Nat
    BY <1>1 DEF Entry, Numbered
  <1>5. task'[k].res.etag.rev <= cloud'[i].etag.rev
    BY <1>4
  <1>6. (RunFits(k))'
    BY <1>1, <1>3, <1>4, <1>5 DEF RunFits, Asking, Fit
  <1> QED
    BY <1>2, <1>6

LEMMA PutFileMatch ==
  ASSUME Shape, Shape', Numbered, Numbered', Orderly, Working, Faithful, Matched, NEW k, PutFile(k)
  PROVE  Matched'
  <1> DEFINE r == task[k].r
             i == PutTarget(r.cloud, Doc)
  <1>1. /\ k \in DOMAIN task /\ task[k].pc = "put" /\ DOMAIN task[k] = TaskFields
        /\ UNCHANGED <<files, tombs, disk, handles, fuse, del, writes, discarded>>
        /\ r.path = Doc /\ r.cloud \in Items \cup {None}
        /\ k \in DOMAIN files => files[k].path = Doc /\ files[k].cloud = r.cloud
        /\ RunFits(k) /\ RunAt(k) /\ Drives
    BY DEF PutFile, At, OnlyTask, Shape, TaskShape, Matched, Faithful
  <1>2. TombsStay
    BY <1>1, SameTombs2
  <1>3. CASE ~Accepts(r)
    <2>1. OnlyRun(k) /\ task' = With(task, k, [task[k] EXCEPT !.pc = "refused"]) /\ NoRequest
      BY <1>3, RunMoves DEF PutFile, Move, Goto
    <2>2. k \in DOMAIN task' /\ task'[k] = [task[k] EXCEPT !.pc = "refused"] /\ Turns(k)
      <3>1. k \in DOMAIN task' /\ task'[k] = [task[k] EXCEPT !.pc = "refused"]
        BY <2>1 DEF With
      <3>2. r.cloud # None
        BY <1>3 DEF Accepts
      <3> QED
        BY <3>1, <3>2 DEF Turns
    <2>3. Moves /\ Rises
      <3>1. Moves
        BY <1>1, <2>1, StillMoves DEF NoRequest
      <3> QED
        BY <2>1, <3>1 DEF Rises, NoRequest
    <2>4. r.cloud \in DOMAIN cloud => r.etag # cloud[r.cloud].etag
      BY <1>3 DEF Accepts
    <2>5. (RunFits(k))' /\ (RunAt(k))'
      BY <1>1, <2>2, <2>3, <2>4, Turned
    <2>6. CommitsFit
      BY <1>1, <2>1, <2>2 DEF CommitsFit, At, OnlyRun, TaskFields
    <2> QED
      BY <1>1, <1>2, <2>1, <2>3, <2>5, <2>6, RequestMatch DEF NoRequest, OnlyRun
  <1>4. CASE Accepts(r)
    <2>1. Put(k, r.cloud, Doc, "commit", "failed")
      BY <1>1, <1>4 DEF PutFile
    <2>2. Fits(i, Doc, Bytes(k))
      BY <1>1, <1>4, SendFits
    <2>3. r.cloud # None => i = r.cloud
      BY DEF PutTarget
    <2>4. /\ OnlyRun(k)
          /\ \/ /\ Store(i, Doc, Bytes(k))
                /\ k \in DOMAIN task' => Answers(k, i, "commit") \/ Turns(k)
             \/ /\ NoRequest
                /\ k \in DOMAIN task' => task'[k] = [task[k] EXCEPT !.pc = "failed"]
      BY <1>1, <2>1, PutCases DEF Turns
    <2> HIDE DEF i
    <2>5. CommitsFit
      <3>1. ~(k \in DocRows /\ There(k) /\ Revised(k))
        BY <1>1, <1>4, NoneNowhere DEF Accepts, There, Revised, RunAt, Sending, DocRows, RowAt
      <3> QED
        BY <2>4, <3>1 DEF CommitsFit, At, OnlyRun
    <2>6. CASE NoRequest /\ (k \in DOMAIN task' => task'[k] = [task[k] EXCEPT !.pc = "failed"])
      <3>1. Moves /\ Rises
        <4>1. Moves
          BY <1>1, <2>6, StillMoves DEF NoRequest
        <4> QED
          BY <2>6, <4>1 DEF Rises, NoRequest
      <3>2. ASSUME k \in DOMAIN task' PROVE (RunFits(k))' /\ (RunAt(k))'
        <4>1. Turns(k) /\ task'[k].pc = "failed"
          BY <1>1, <2>6, <3>2 DEF Turns, TaskFields
        <4>2. task'[k].pc # "refused"
          BY <4>1
        <4> QED
          BY <1>1, <3>1, <3>2, <4>1, <4>2, Turned
      <3> QED
        BY <1>1, <1>2, <2>4, <2>5, <2>6, <3>1, <3>2, RequestMatch DEF NoRequest, OnlyRun
    <2>7. CASE Store(i, Doc, Bytes(k)) /\ (k \in DOMAIN task' => Answers(k, i, "commit") \/ Turns(k))
      <3> DEFINE data == Bytes(k)
      <3>1. Stores(i, Doc, data)
        BY <1>1, <2>2, <2>7 DEF Stores
      <3> HIDE DEF data
      <3>2. Moves
        BY <1>1, <3>1, StoresMoves
      <3>3. /\ i \in DOMAIN cloud' /\ Rises /\ (i \in DOMAIN cloud => cloud'[i].etag.rev = cloud[i].etag.rev + 1)
            /\ delta' # None => delta # None /\ delta'.entries = delta.entries
        BY <3>1, StoresRise
      <3>4. ASSUME k \in DOMAIN task' PROVE (RunFits(k))' /\ (RunAt(k))'
        <4>1. CASE Answers(k, i, "commit")
          BY <1>1, <3>2, <3>3, <3>4, <4>1, AnswersFit
        <4>2. CASE Turns(k)
          <5>1. (/\ task'[k].pc = "refused"
                 /\ r.cloud \in DOMAIN cloud'
                 /\ r.cloud \in DOMAIN cloud) => cloud'[r.cloud].etag.rev = cloud[r.cloud].etag.rev + 1
            BY <1>1, <2>3, <3>3, NoneNowhere
          <5> QED
            BY <1>1, <3>2, <3>3, <3>4, <4>2, <5>1, Turned
        <4> QED
          BY <2>7, <3>4, <4>1, <4>2
      <3> QED
        BY <1>1, <1>2, <2>4, <2>5, <3>2, <3>3, <3>4, RequestMatch DEF OnlyRun
    <2> QED
      BY <2>4, <2>6, <2>7
  <1> QED
    BY <1>3, <1>4

LEMMA PutCopyMatch ==
  ASSUME Shape, Shape', Numbered, Numbered', Working, Faithful, Matched, NEW k, PutCopy(k)
  PROVE  Matched'
  <1>1. /\ k \in DOMAIN task /\ task[k].pc = "copy" /\ RunFits(k) /\ RunAt(k) /\ Drives
        /\ Quits(k) \/ \E i : Puts(k, i, task[k].p, "copied")
    BY PutCopyCases DEF PutCopy, At, Matched, Faithful
  <1>2. CASE Quits(k)
    <2>1. /\ k \notin DOMAIN task' /\ OnlyRun(k) /\ NoRequest
          /\ UNCHANGED <<files, tombs, disk, handles, fuse, del, writes, discarded>>
      BY <1>1, <1>2 DEF Quits, Running1
    <2>2. Moves /\ Rises
      <3>1. Moves
        BY <1>1, <2>1, StillMoves DEF NoRequest
      <3> QED
        BY <2>1, <3>1 DEF Rises, NoRequest
    <2>3. CommitsFit /\ TombsStay
      BY <2>1, SameTombs2 DEF CommitsFit, At, OnlyRun
    <2> QED
      BY <2>1, <2>2, <2>3, RequestMatch DEF NoRequest, OnlyRun
  <1>3. ASSUME NEW i, Puts(k, i, task[k].p, "copied") PROVE Matched'
    <2> DEFINE data == Bytes(k)
               p == task[k].p
    <2>1. /\ Stores(i, p, data) /\ OnlyRun(k) /\ DOMAIN task[k] = TaskFields
          /\ k \in DOMAIN task' => Answers(k, i, "copied")
          /\ UNCHANGED <<files, tombs, disk, handles, fuse, del, writes, discarded>>
      BY <1>3 DEF Puts, Running1
    <2> HIDE DEF data, p
    <2>2. Moves
      BY <1>1, <2>1, StoresMoves
    <2>3. /\ i \in DOMAIN cloud' /\ Rises /\ (delta' # None => delta # None /\ delta'.entries = delta.entries)
      BY <2>1, StoresRise
    <2>4. ASSUME k \in DOMAIN task' PROVE (RunFits(k))' /\ (RunAt(k))'
      <3>1. Answers(k, i, "copied")
        BY <2>1, <2>4
      <3> QED
        BY <1>1, <2>1, <2>2, <2>3, <2>4, <3>1, AnswersFit
    <2>5. CommitsFit /\ TombsStay
      <3>1. k \in DOMAIN task' => task'[k].pc = "copied"
        BY <2>1 DEF Answers, TaskFields
      <3> QED
        BY <2>1, <3>1, SameTombs2 DEF CommitsFit, At, OnlyRun
    <2> QED
      BY <2>1, <2>2, <2>3, <2>4, <2>5, RequestMatch DEF OnlyRun
  <1> QED
    BY <1>1, <1>2, <1>3

\* Deletion runs ask for items of no run and no row.
LEMMA LateTombsStay ==
  ASSUME \A d : LocalTomb(d) <=> (LocalTomb(d))'
  PROVE  TombsStay
  BY DEF TombsStay

LEMMA DeletionRequestMatch ==
  ASSUME Shape, Shape', Numbered, Numbered', Orderly, Working, Faithful, Matched, NEW d,
         Replay(d) \/ RemoveRemote(d)
  PROVE  Matched'
  <1>1. GivesUp(d) \/ (\E i : Replays(d, i)) \/ (\E i : Removes(d, i))
    BY ReplayCases, RemoveRemoteCases
  <1>2. Drives
    BY DEF Faithful
  <1>3. CASE GivesUp(d)
    <2>1. Moves /\ Rises
      <3>1. Moves
        BY <1>2, <1>3, StillMoves DEF GivesUp, NoRequest
      <3> QED
        BY <1>3, <3>1 DEF Rises, GivesUp, NoRequest
    <2> QED
      BY <1>3, <2>1, RequestMatch, SameRuns2, SameTombs2 DEF GivesUp, NoRequest
  <1>4. ASSUME NEW i, Replays(d, i) PROVE Matched'
    <2> DEFINE data == disk[tombs[d].up.cache]
               p == tombs[d].up.path
    <2>1. /\ Stores(i, p, data) /\ UNCHANGED <<files, disk, fuse, task>>
          /\ (tombs' = CompleteDeleted(tombs, d, Entry(cloud', i))) \/ tombs' = tombs
      BY <1>4 DEF Replays
    <2> HIDE DEF data, p
    <2>2. Moves
      BY <1>2, <2>1, StoresMoves
    <2>3. Rises /\ (delta' # None => delta # None /\ delta'.entries = delta.entries)
      BY <2>1, StoresRise
    <2>4. TombsStay
      BY <2>1, LateTombs, SameTombs2, LateTombsStay
    <2> QED
      BY <2>1, <2>2, <2>3, <2>4, RequestMatch, SameRuns2
  <1>5. ASSUME NEW i, Removes(d, i) PROVE Matched'
    <2>1. Drops(i) /\ UNCHANGED <<files, tombs, disk, fuse, task>>
      BY <1>5 DEF Removes
    <2>2. Moves /\ Rises
      BY <1>2, <2>1, DropsMoves DEF Rises
    <2>3. delta' # None => delta # None /\ delta'.entries = delta.entries
      BY <2>1 DEF Drops, Drop, Changed, Shape, DeltaShape, DeltaFields
    <2> QED
      BY <2>1, <2>2, <2>3, RequestMatch, SameRuns2, SameTombs2
  <1> QED
    BY <1>1, <1>3, <1>4, <1>5

LEMMA RemoteMatch ==
  ASSUME Shape, Shape', Numbered, Numbered', Faithful, Matched, RemoteStep
  PROVE  Matched'
  <1>1. Drives
    BY DEF Faithful
  <1>2. CASE RemoteCreate \/ \E i \in DOMAIN cloud : RemoteEdit(i)
    <2>1. PICK i, data : RemoteWrites(i, data)
      BY <1>2, RemoteWriteCases
    <2>2. Stores(i, Doc, data) /\ UNCHANGED <<files, disk, fuse, tombs, task>>
      BY <2>1 DEF RemoteWrites, Stores
    <2>3. Moves /\ Rises /\ (delta' # None => delta # None /\ delta'.entries = delta.entries)
      BY <1>1, <2>2, StoresMoves, StoresRise
    <2> QED
      BY <2>2, <2>3, RequestMatch, SameRuns2, SameTombs2
  <1>3. ASSUME NEW i \in DOMAIN cloud, RemoteDelete(i) PROVE Matched'
    <2>1. Drops(i) /\ UNCHANGED <<files, tombs, disk, fuse, task>>
      BY <1>3 DEF RemoteDelete, Drops, Cur
    <2>2. Moves /\ Rises
      BY <1>1, <2>1, DropsMoves DEF Rises
    <2>3. delta' # None => delta # None /\ delta'.entries = delta.entries
      BY <2>1 DEF Drops, Drop, Changed, Shape, DeltaShape, DeltaFields
    <2> QED
      BY <2>1, <2>2, <2>3, RequestMatch, SameRuns2, SameTombs2
  <1> QED
    BY <1>2, <1>3 DEF RemoteStep

-----------------------------------------------------------------------------
(* Steps that leave the rows and the cloud alone                           *)

NoCommits == \A k \in DOMAIN task' : task'[k].pc = "commit" => k \in DOMAIN task /\ task[k].pc = "commit"

LEMMA FewRuns ==
  ASSUME NEW k, OnlyRun(k), k \in DOMAIN task' => task'[k].pc # "commit"
  PROVE  NoCommits
  BY DEF NoCommits, OnlyRun

LEMMA StillMatch ==
  ASSUME Shape, Shape', Numbered, Numbered', Drives, Matched,
         UNCHANGED <<files, disk, cloud, made, fuse, discarded>>, writes.theirs \subseteq writes'.theirs,
         TombsStay, NoCommits,
         \A k \in DOMAIN task' :
           (k \in DOMAIN task /\ task'[k] = task[k]) \/ ((RunFits(k))' /\ (RunAt(k))'),
         Told'
  PROVE  Matched'
  <1>1. Moves /\ Rises
    <2>1. Moves
      BY StillMoves
    <2> QED
      BY <2>1 DEF Rises
  <1>2. CommitsFit
    BY DEF CommitsFit, NoCommits, At
  <1>3. CopyBytes
    BY DEF CopyBytes
  <1> QED
    BY <1>1, <1>2, <1>3, SameRowsMatch

LEMMA SameTold ==
  ASSUME Told, cloud' = cloud, delta' = delta
  PROVE  Told'
  BY DEF Told, Fit, Named

LEMMA QuietMatch ==
  ASSUME Shape, Shape', Numbered, Numbered', Drives, Matched,
         UNCHANGED <<files, disk, cloud, made, delta, fuse, discarded, writes>>,
         TombsStay, NoCommits,
         \A k \in DOMAIN task' :
           (k \in DOMAIN task /\ task'[k] = task[k]) \/ ((RunFits(k))' /\ (RunAt(k))')
  PROVE  Matched'
  <1>1. Told'
    BY SameTold DEF Matched
  <1> QED
    BY <1>1, StillMatch

LEMMA IdleMatch ==
  ASSUME Shape, Shape', Numbered, Numbered', Faithful, Matched, NEW d,
         StartDelete(d) \/ OpenCached(d) \/ (Release(d) /\ files' = files) \/ UNCHANGED vars
  PROVE  Matched'
  <1>1. UNCHANGED <<files, tombs, disk, cloud, made, delta, fuse, writes, discarded, task>>
    BY DEF OpenCached, Release, FuseOnly, NoRequest, vars, StartDelete, OnlyDel
  <1>2. NoCommits /\ TombsStay
    BY <1>1, SameTombs2 DEF NoCommits
  <1> QED
    BY <1>1, <1>2, QuietMatch DEF Faithful

LEMMA StartUploadMatch ==
  ASSUME Shape, Shape', Numbered, Numbered', Faithful, Matched, NEW k, StartUpload(k)
  PROVE  Matched'
  <1>1. /\ k \in DOMAIN files
        /\ UNCHANGED <<files, tombs, disk, cloud, made, delta, fuse, writes, discarded>>
    BY DEF StartUpload, NoRequest, OnlyTask
  <1>2. PICK t : /\ task' = With(task, k, t) /\ t.r = files[k]
                 /\ t.pc = IF files[k].state = "conflict" THEN "claimcopy" ELSE "claim"
    BY DEF StartUpload, Goto
  <1>3. OnlyRun(k) /\ task'[k] = t
    BY <1>2, RunMoves
  <1>4. (RunFits(k))'
    <2>1. RowFits(k)
      BY <1>1 DEF Matched
    <2> QED
      BY <1>1, <1>2, <1>3, <2>1 DEF RunFits, RowFits, There, Storing, Asking
  <1>5. (RunAt(k))'
    BY <1>1, <1>2, <1>3 DEF RunAt, Before, Copying, Sending, Asking, Unchanged
  <1>6. NoCommits /\ TombsStay
    BY <1>1, <1>2, <1>3, SameTombs2, FewRuns
  <1> QED
    BY <1>1, <1>3, <1>4, <1>5, <1>6, QuietMatch DEF Faithful, OnlyRun

LEMMA LateMatch ==
  ASSUME Shape, Shape', Numbered, Numbered', Faithful, Matched, NEW k, Late(k)
  PROVE  Matched'
  <1>1. /\ tombs' = CompleteDeleted(tombs, k, task[k].res) /\ task' = Without(task, k)
        /\ UNCHANGED <<files, disk, cloud, made, delta, fuse, writes, discarded>>
    BY DEF Late
  <1>2. TombsStay
    BY <1>1, LateTombs, LateTombsStay
  <1>3. OnlyRun(k) /\ k \notin DOMAIN task'
    BY <1>1, RunMoves
  <1> QED
    BY <1>1, <1>2, <1>3, FewRuns, QuietMatch DEF Faithful, OnlyRun

\* A run that ends on its own.
LEMMA EndMatch ==
  ASSUME Shape, Shape', Numbered, Numbered', Faithful, Matched, NEW k, task' = Without(task, k),
         UNCHANGED <<files, tombs, disk, cloud, made, delta, fuse, writes, discarded>>
  PROVE  Matched'
  <1>1. OnlyRun(k) /\ k \notin DOMAIN task'
    BY RunMoves
  <1> QED
    BY <1>1, FewRuns, SameTombs2, QuietMatch DEF Faithful, OnlyRun

LEMMA AskLatestMatch ==
  ASSUME IInv, Shape, Shape', Numbered, Numbered', Working, Faithful, Matched, NEW k, AskLatest(k)
  PROVE  Matched'
  <1> DEFINE j == task[k].r.cloud
             e == IF j \in DOMAIN cloud THEN Entry(cloud, j) ELSE None
  <1>1. /\ k \in DOMAIN task /\ task[k].pc = "copied" /\ DOMAIN task[k] = TaskFields
        /\ UNCHANGED <<files, disk, cloud, made, delta, fuse, writes, discarded>>
        /\ RunFits(k) /\ RunAt(k) /\ (j \in DOMAIN cloud => cloud[j].path = Doc)
    BY RowOfRun DEF AskLatest, OnlyTask, NoRequest, At, Matched, Shape, TaskShape
  <1>2. CASE DeletesOf(tombs, k) # {}
    <2>1. Late(k)
      BY <1>1, <1>2, RunHasTomb DEF AskLatest, Late, Done, OnlyTask, NoRequest
    <2> QED
      BY <2>1, LateMatch
  <1>3. CASE DeletesOf(tombs, k) = {} /\ task' = Without(task, k)
    <2>1. tombs' = tombs
      BY <1>3 DEF AskLatest
    <2> QED
      BY <1>1, <1>3, <2>1, EndMatch
  <1>4. CASE DeletesOf(tombs, k) = {} /\ task' = With(task, k, [task[k] EXCEPT !.pc = "publish", !.latest = e])
    <2>1. tombs' = tombs
      BY <1>4 DEF AskLatest
    <2>2. OnlyRun(k) /\ task'[k] = [task[k] EXCEPT !.pc = "publish", !.latest = e]
      BY <1>4, RunMoves
    <2>3. /\ task'[k].r = task[k].r /\ task'[k].res = task[k].res
          /\ task'[k].pc = "publish" /\ task'[k].latest = e
      BY <1>1, <2>2 DEF TaskFields
    <2>4. e # None => e.id \in DOMAIN cloud /\ e.etag = cloud[e.id].etag /\ e.path = Doc
      BY <1>1 DEF Entry
    <2>5. e # None => (e.id \in DOMAIN cloud => e.etag.rev <= cloud[e.id].etag.rev)
      BY <2>4 DEF Numbered
    <2> HIDE DEF e
    <2>6. (RunFits(k))'
      BY <1>1, <2>3, <2>5 DEF RunFits, Storing, Asking, Fit
    <2>7. (RunAt(k))'
      BY <1>1, <2>3, <2>4 DEF RunAt, Before, Copying, Sending, Asking, Unchanged, Named
    <2> QED
      BY <1>1, <2>1, <2>2, <2>3, <2>6, <2>7, FewRuns, SameTombs2, QuietMatch DEF Faithful, OnlyRun
  <1>5. DeletesOf(tombs, k) = {} =>
          \/ task' = Without(task, k)
          \/ task' = With(task, k, [task[k] EXCEPT !.pc = "publish", !.latest = e])
    BY DEF AskLatest, Goto, Done
  <1> QED
    BY <1>2, <1>3, <1>4, <1>5

LEMMA DropCleanupMatch ==
  ASSUME Shape, Shape', Numbered, Numbered', Faithful, Matched, NEW d, DropCleanup(d)
  PROVE  Matched'
  <1>1. /\ UNCHANGED <<files, disk, cloud, made, delta, fuse, writes, discarded, task>>
        /\ d \in DOMAIN tombs /\ tombs[d].local = None
        /\ DOMAIN tombs' = DOMAIN tombs \ {d} /\ \A e \in DOMAIN tombs' : tombs'[e] = tombs[e]
    BY DEF DropCleanup, NoRequest, OnlyDel, Without
  <1>2. TombsStay
    BY <1>1 DEF TombsStay, LocalTomb
  <1> QED
    BY <1>1, <1>2, QuietMatch DEF Faithful, NoCommits

\* The tombstone that goes is of an item that is gone.
LEMMA RetireDeleteMatch ==
  ASSUME Shape, Shape', Numbered, Numbered', Working, Faithful, Matched, NEW d, RetireDelete(d)
  PROVE  Matched'
  <1>1. /\ d \in DOMAIN del /\ del[d].pc = "clean" /\ d \in DOMAIN tombs
        /\ DOMAIN tombs' = DOMAIN tombs \ {d} /\ \A e \in DOMAIN tombs' : tombs'[e] = tombs[e]
        /\ UNCHANGED <<files, fuse, task, cloud, made, delta, writes, discarded>>
        /\ DOMAIN disk' \subseteq DOMAIN disk /\ \A c \in DOMAIN disk' : disk'[c] = disk[c]
        /\ \A j \in DocRows : files[j].cache # None =>
             files[j].cache \in DOMAIN disk' /\ disk'[files[j].cache] = disk[files[j].cache]
    BY RetiredDisk
  <1>2. d \notin DOMAIN cloud
    <2>1. tombs[d].cloud \notin DOMAIN cloud
      BY <1>1 DEF Faithful, Deletions, DeletionAt
    <2> QED
      BY <1>1, <2>1, NoneNowhere DEF Numbered
  <1>3. TombsStay
    BY <1>1, <1>2 DEF TombsStay, LocalTomb
  <1>4. Moves /\ Rises
    <2>1. Moves
      BY <1>1, StillMoves DEF Faithful
    <2> QED
      BY <1>1, <2>1 DEF Rises
  <1>5. CopyBytes
    BY <1>1 DEF CopyBytes
  <1>6. Told'
    BY <1>1, SameTold DEF Matched
  <1> QED
    BY <1>1, <1>3, <1>4, <1>5, <1>6, SameRuns2, SameRowsMatch

\* The refresh reads what is in the cloud.
LEMMA ReadingMatch ==
  ASSUME Shape, Shape', Numbered, Numbered', Faithful, Matched,
         ListDelta \/ AdvanceLink \/ \E i : CheckDeleted(i)
  PROVE  Matched'
  <1>1. UNCHANGED <<files, tombs, disk, cloud, made, fuse, writes, discarded, task>>
    BY DEF ListDelta, AdvanceLink, CheckDeleted, OnlyDelta
  <1>2. Told'
    <2>1. CASE ListDelta
      <3> SUFFICES ASSUME NEW e \in delta'.entries PROVE (Fit(e))' /\ (Named(e))'
        BY DEF Told
      <3>1. PICK i \in DOMAIN cloud : e = Entry(cloud, i)
        BY <2>1 DEF ListDelta
      <3>2. e.id = i /\ e.path = cloud[i].path /\ e.etag = cloud[i].etag /\ cloud[i].etag.rev \in Nat
        BY <3>1 DEF Entry, Numbered
      <3>3. cloud[i].path # Doc => cloud[i].path = CopyPath(cloud[i].etag.data)
        BY <3>1 DEF Faithful, Drives, Cur
      <3> QED
        BY <1>1, <3>1, <3>2, <3>3 DEF Fit, Named
    <2>2. CASE AdvanceLink
      BY <2>2 DEF Told, AdvanceLink
    <2>3. ASSUME NEW i, CheckDeleted(i) PROVE Told'
      <3>1. delta # None /\ delta'.entries = delta.entries
        BY <2>3 DEF CheckDeleted, Shape, DeltaShape, DeltaFields
      <3> QED
        BY <1>1, <3>1 DEF Matched, Told, Fit, Named
    <2> QED
      BY <2>1, <2>2, <2>3
  <1>3. NoCommits /\ TombsStay
    BY <1>1, SameTombs2 DEF NoCommits
  <1> QED
    BY <1>1, <1>2, <1>3, StillMatch DEF Faithful

-----------------------------------------------------------------------------
(* The steps of an upload run on its row                                   *)

LEMMA RewriteMatch ==
  ASSUME Shape, Shape', Numbered, Numbered', Drives, Matched,
         NEW k \in DocRows, k \in DocRows', DOMAIN files' = DOMAIN files,
         \A j \in DOMAIN files \ {k} : files'[j] = files[j],
         UNCHANGED <<tombs, disk, cloud, made, delta, fuse, discarded, writes>>,
         SteadyAt(k), RowKept(k) \/ (RowFits(k))', (DocAt(k))',
         OnlyRun(k), k \in DOMAIN task' => (RunFits(k))' /\ (RunAt(k))'
  PROVE  Matched'
  <1>1. Moves /\ Rises
    <2>1. Moves
      BY StillMoves
    <2> QED
      BY <2>1 DEF Rises
  <1>2. CopyBytes
    BY DEF CopyBytes
  <1>3. Told' /\ TombsStay
    BY SameTold, SameTombs2 DEF Matched
  <1>4. Cutting'
    BY <1>1, CuttingStays DEF Matched
  <1> QED
    BY <1>1, <1>2, <1>3, <1>4, OneRowMatch

\* A row without bytes: only the file that is being truncated has a name.
LEMMA EmptyDoc ==
  ASSUME Shape, Shape', Numbered', Moves, NEW k \in DocRows, k \in DocRows', DocAt(k), fuse' = fuse,
         files'[k].cache = None, files'[k].cloud = files[k].cloud, files'[k].gen >= files[k].gen,
         files[k].gen \in Nat
  PROVE  (DocAt(k))'
  <1>1. k \in Locals' /\ files'[k].gen \in Nat
    BY DEF Shape, RowShape, Numbered, DocRows, RowAt
  <1>2. (Live(k))' => Live(k)
    <2>1. ASSUME files[k].cloud \in DOMAIN cloud' PROVE files[k].cloud \in DOMAIN cloud
      <3>1. files[k].cloud \in Items
        BY <2>1, NoneGone DEF Shape, RowShape, DocRows, RowAt
      <3> QED
        BY <2>1, <3>1 DEF Moves
    <2> QED
      BY <2>1 DEF Live, There
  <1>3. ASSUME (Live(k))', NEW n \in Nat, (Truncating(k))', fuse'.c = <<k, n>>
        PROVE  n <= files'[k].gen + 1
    <2>1. n <= files[k].gen + 1
      BY <1>2, <1>3 DEF DocAt, Truncating
    <2> QED
      BY <1>1, <2>1
  <1>4. \A n \in Nat : files'[k].cache # <<k, n>>
    BY <1>1 DEF Numbered
  <1> QED
    BY <1>3, <1>4 DEF DocAt

LEMMA ClaimUploadMatch ==
  ASSUME Shape, Shape', Numbered, Numbered', Orderly, Working, Faithful, Matched, NEW k, ClaimUpload(k)
  PROVE  Matched'
  <1>1. /\ k \in DOMAIN task /\ task[k].pc = "claim" /\ DOMAIN task[k] = TaskFields
        /\ UNCHANGED <<tombs, disk, fuse, cloud, made, delta, writes, discarded>>
        /\ RunFits(k) /\ RunAt(k)
    BY RowOfRun DEF ClaimUpload, OnlyTask, NoRequest, At, Matched
  <1>2. CASE ~CanBeginUpload(files, tombs, k, task[k].r)
    BY <1>1, <1>2, EndMatch DEF ClaimUpload, Done
  <1>3. CASE CanBeginUpload(files, tombs, k, task[k].r)
    <2>1. /\ files' = BeginUpload(files, k)
          /\ task' = With(task, k, [task[k] EXCEPT !.pc = "put"])
      BY <1>3 DEF ClaimUpload, Move, Goto
    <2>2. /\ k \in DOMAIN files /\ files[k].path = Doc /\ DOMAIN files[k] = RowFields
          /\ files[k].etag = task[k].r.etag
          /\ files[k].cloud = task[k].r.cloud /\ k \in DocRows
          /\ files[k].state \in {"dirty", "uploading"}
      BY <1>1, <1>3, DocRow2, RowOfRun DEF CanBeginUpload, Unchanged, Shape, RowShape
    <2>3. /\ DOMAIN files' = DOMAIN files /\ \A j \in DOMAIN files \ {k} : files'[j] = files[j]
          /\ files'[k].state = "uploading" /\ files'[k].cache = files[k].cache
          /\ files'[k].path = Doc /\ files'[k].cloud = files[k].cloud /\ files'[k].etag = files[k].etag
          /\ files'[k].gen = files[k].gen
      BY <2>1, <2>2 DEF BeginUpload, RowFields
    <2>4. OnlyRun(k) /\ task'[k] = [task[k] EXCEPT !.pc = "put"]
      BY <2>1, RunMoves
    <2>5. task'[k].pc = "put" /\ task'[k].r = task[k].r
      BY <1>1, <2>4 DEF TaskFields
    <2>6. files[k].up.path \in {None, Doc} /\ files[k].state # "conflict"
      BY <2>2 DEF Orderly, CopiesUndisturbed
    <2>7. SteadyAt(k) /\ RowKept(k)
      BY <1>1, <2>2, <2>3, <2>5, <2>6 DEF SteadyAt, RowKept, At
    <2>8. (RunFits(k))' /\ (RunAt(k))'
      BY <1>1, <2>2, <2>3, <2>5 DEF RunFits, RunAt, Before, Copying, Sending, Storing, Asking
    <2>9. k \in DocRows' /\ Drives
      BY <2>2, <2>3 DEF DocRows, RowAt, Faithful
    <2>10. DocKept(k) /\ DocAt(k)
      BY <1>1, <2>2, <2>3 DEF DocKept, Matched
    <2>11. Moves
      BY <1>1, <2>9, StillMoves
    <2>12. (DocAt(k))'
      BY <2>10, <2>11, DocStays
    <2> QED
      BY <1>1, <2>2, <2>3, <2>4, <2>7, <2>8, <2>9, <2>12, RewriteMatch
  <1> QED
    BY <1>2, <1>3

LEMMA FailUploadMatch ==
  ASSUME Shape, Shape', Numbered, Numbered', Orderly, Working, Faithful, Matched, NEW k, FailUpload(k)
  PROVE  Matched'
  <1>1. /\ k \in DOMAIN task /\ task[k].pc = "failed" /\ task' = Without(task, k)
        /\ UNCHANGED <<tombs, disk, handles, fuse, del, cloud, made, unseen, delta, writes, discarded>>
    BY DEF FailUpload, OnlyTask, NoRequest, At, Done
  <1>2. CASE files' = files
    BY <1>1, <1>2, EndMatch
  <1>3. CASE k \in DOMAIN files /\ files' = [files EXCEPT ![k].state = "dirty"]
    <2>1. /\ k \in DocRows /\ DOMAIN files[k] = RowFields /\ files[k].path = Doc
      BY <1>1, <1>3, DocRow2 DEF Shape, RowShape
    <2>2. /\ DOMAIN files' = DOMAIN files /\ \A j \in DOMAIN files \ {k} : files'[j] = files[j]
          /\ files'[k].state = "dirty" /\ files'[k].cache = files[k].cache
          /\ files'[k].path = Doc /\ files'[k].cloud = files[k].cloud /\ files'[k].etag = files[k].etag
          /\ files'[k].up = files[k].up /\ files'[k].gen = files[k].gen
      BY <1>3, <2>1 DEF RowFields
    <2>3. OnlyRun(k) /\ k \notin DOMAIN task'
      BY <1>1, RunMoves
    <2>4. SteadyAt(k) /\ RowKept(k)
      BY <1>3, <2>2, <2>3 DEF SteadyAt, RowKept, At
    <2>5. k \in DocRows' /\ Drives
      BY <1>3, <2>2 DEF DocRows, RowAt, Faithful
    <2>6. DocKept(k) /\ DocAt(k)
      BY <1>1, <2>1, <2>2 DEF DocKept, Matched
    <2>7. Moves
      BY <1>1, <2>5, StillMoves
    <2>8. (DocAt(k))'
      BY <2>6, <2>7, DocStays
    <2> QED
      BY <1>1, <2>1, <2>2, <2>3, <2>4, <2>5, <2>8, RewriteMatch
  <1> QED
    BY <1>2, <1>3 DEF FailUpload, MarkState

\* A conflict: the cloud has a version that the row does not have.
LEMMA RefuseUploadMatch ==
  ASSUME Shape, Shape', Numbered, Numbered', Orderly, Working, Faithful, Matched, NEW k, RefuseUpload(k)
  PROVE  Matched'
  <1>1. /\ k \in DOMAIN task /\ task[k].pc = "refused" /\ DOMAIN task[k] = TaskFields
        /\ UNCHANGED <<tombs, disk, handles, fuse, del, cloud, made, unseen, delta, writes, discarded>>
        /\ RunFits(k) /\ RunAt(k)
    BY RowOfRun DEF RefuseUpload, OnlyTask, NoRequest, At, Matched
  <1>2. CASE files' = files /\ task' = Without(task, k)
    BY <1>1, <1>2, EndMatch
  <1>3. CASE /\ CanMarkConflict(files, k, task[k].r) /\ files' = MarkState(files, k, "conflict")
             /\ task' = With(task, k, [task[k] EXCEPT !.pc = "claimcopy", !.r = files'[k]])
    <2>1. /\ k \in DOMAIN files /\ files[k].path = Doc /\ DOMAIN files[k] = RowFields
          /\ files[k].cloud = task[k].r.cloud /\ files[k].etag = task[k].r.etag
          /\ k \in DocRows /\ files[k].state = "uploading"
      BY <1>1, <1>3, DocRow2 DEF CanMarkConflict, Unchanged, Shape, RowShape
    <2>2. /\ DOMAIN files' = DOMAIN files /\ \A j \in DOMAIN files \ {k} : files'[j] = files[j]
          /\ files'[k].state = "conflict" /\ files'[k].cache = files[k].cache
          /\ files'[k].path = Doc /\ files'[k].cloud = files[k].cloud /\ files'[k].etag = files[k].etag
          /\ files'[k].up = files[k].up /\ files'[k].gen = files[k].gen
      BY <1>3, <2>1 DEF MarkState, RowFields
    <2>3. OnlyRun(k) /\ k \in DOMAIN task' /\ task'[k] = [task[k] EXCEPT !.pc = "claimcopy", !.r = files'[k]]
      BY <1>3, RunMoves
    <2>4. task'[k].pc = "claimcopy" /\ task'[k].r = files'[k]
      BY <1>1, <2>3 DEF TaskFields
    <2>5. (RowFits(k))'
      BY <1>1, <2>1, <2>2 DEF RunFits, RowFits, There, Revised
    <2>6. SteadyAt(k)
      BY <1>1, <2>2, <2>4 DEF SteadyAt, At
    <2>7. (RunFits(k))'
      BY <2>4, <2>5 DEF RunFits, RowFits, There, Storing, Asking
    <2>8. (RunAt(k))'
      BY <2>1, <2>2, <2>4 DEF RunAt, Before, Copying, Sending, Asking, Unchanged
    <2>9. k \in DocRows' /\ Drives
      BY <2>1, <2>2 DEF DocRows, RowAt, Faithful
    <2>10. DocKept(k) /\ DocAt(k)
      BY <1>1, <2>1, <2>2 DEF DocKept, Matched
    <2>11. Moves
      BY <1>1, <2>9, StillMoves
    <2>12. (DocAt(k))'
      BY <2>10, <2>11, DocStays
    <2> QED
      BY <1>1, <2>1, <2>2, <2>3, <2>5, <2>6, <2>7, <2>8, <2>9, <2>12, RewriteMatch
  <1> QED
    BY <1>2, <1>3 DEF RefuseUpload, Goto, Done

LEMMA ClaimCopyMatch ==
  ASSUME Shape, Shape', Numbered, Numbered', Orderly, Working, Faithful, Matched, NEW k, ClaimCopy(k)
  PROVE  Matched'
  <1>1. /\ k \in DOMAIN task /\ task[k].pc = "claimcopy" /\ DOMAIN task[k] = TaskFields
        /\ UNCHANGED <<tombs, disk, handles, fuse, del, cloud, made, unseen, delta, writes, discarded>>
        /\ RunFits(k) /\ RunAt(k)
    BY RowOfRun DEF ClaimCopy, OnlyTask, NoRequest, At, Matched
  <1>2. CASE files' = files /\ task' = Without(task, k)
    BY <1>1, <1>2, EndMatch
  <1>3. ASSUME NEW c, c = task[k].r.cache, NEW p, p = CopyPath(disk[c]),
               CanBeginConflict(files, k, task[k].r, c), files' = BeginConflict(files, k, p, c),
               task' = With(task, k, [task[k] EXCEPT !.pc = "copy", !.p = p])
        PROVE  Matched'
    <2>1. /\ k \in DOMAIN files /\ files[k].path = Doc /\ DOMAIN files[k] = RowFields
          /\ files[k].cloud = task[k].r.cloud /\ k \in DocRows /\ files[k].state = "conflict"
          /\ files[k].cache = c
      BY <1>1, <1>3, DocRow2 DEF CanBeginConflict, Shape, RowShape, TaskShape
    <2>2. /\ DOMAIN files' = DOMAIN files /\ \A j \in DOMAIN files \ {k} : files'[j] = files[j]
          /\ files'[k].state = "conflict" /\ files'[k].cache = c
          /\ files'[k].path = Doc /\ files'[k].cloud = files[k].cloud /\ files'[k].etag = files[k].etag
          /\ files'[k].up = Claim(p, None, c) /\ files'[k].gen = files[k].gen
          /\ files'[k].stamp = files[k].stamp
      BY <1>3, <2>1 DEF BeginConflict, RowFields
    <2>3. OnlyRun(k) /\ k \in DOMAIN task' /\ task'[k] = [task[k] EXCEPT !.pc = "copy", !.p = p]
      BY <1>3, RunMoves
    <2>4. task'[k].pc = "copy" /\ task'[k].r = task[k].r
      BY <1>1, <2>3 DEF TaskFields
    <2>5. files'[k].up.path = p /\ p \notin {None, Doc}
      <3>1. files'[k].up.path = p
        BY <2>2 DEF Claim
      <3>2. task'[k].p = p
        BY <1>1, <2>3 DEF TaskFields
      <3>3. p \notin {None, Doc}
        BY <2>3, <2>4, <3>2 DEF Shape, TaskShape, Copying
      <3> QED
        BY <3>1, <3>3
    <2>6. SteadyAt(k) /\ RowKept(k)
      BY <1>1, <2>1, <2>2, <2>4, <2>5 DEF SteadyAt, RowKept, At
    <2>7. (RunFits(k))'
      BY <1>1, <2>4 DEF RunFits, Storing, Asking
    <2>8. (RunAt(k))'
      BY <1>1, <2>1, <2>2, <2>4 DEF RunAt, Before, Copying, Sending, Asking, Unchanged
    <2>9. k \in DocRows' /\ Drives
      BY <2>1, <2>2 DEF DocRows, RowAt, Faithful
    <2>10. DocKept(k) /\ DocAt(k)
      BY <1>1, <2>1, <2>2 DEF DocKept, Matched
    <2>11. Moves
      BY <1>1, <2>9, StillMoves
    <2>12. (DocAt(k))'
      BY <2>10, <2>11, DocStays
    <2> QED
      BY <1>1, <2>1, <2>2, <2>3, <2>6, <2>7, <2>8, <2>9, <2>12, RewriteMatch
  <1> QED
    BY <1>2, <1>3 DEF ClaimCopy, Goto, Done

\* The original lets its bytes go.
LEMMA DetachOriginalMatch ==
  ASSUME Shape, Shape', Numbered, Numbered', Orderly, Working, Faithful, Matched, NEW k, DetachOriginal(k)
  PROVE  Matched'
  <1>1. /\ k \in DOMAIN task /\ task[k].pc = "detach" /\ DOMAIN task[k] = TaskFields
        /\ UNCHANGED <<tombs, disk, handles, fuse, del, cloud, made, unseen, delta, writes, discarded>>
        /\ task' = With(task, k, [task[k] EXCEPT !.pc = "import"])
        /\ RunFits(k) /\ RunAt(k) /\ Drives
    BY RowOfRun DEF DetachOriginal, OnlyTask, NoRequest, At, Move, Goto, Matched, Faithful
  <1>2. OnlyRun(k) /\ k \in DOMAIN task' /\ task'[k] = [task[k] EXCEPT !.pc = "import"]
    BY <1>1, RunMoves
  <1>3. task'[k].pc = "import" /\ task'[k].latest = task[k].latest /\ task'[k].r = task[k].r
    BY <1>1, <1>2 DEF TaskFields
  <1>4. (RunFits(k))' /\ (RunAt(k))'
    BY <1>1, <1>3 DEF RunFits, RunAt, Before, Copying, Sending, Storing, Asking, Fit, Named
  <1>5. CASE k \notin DOMAIN files
    <2>1. files' = files
      BY <1>5 DEF DetachOriginal, MarkOnlineOnly
    <2> QED
      BY <1>1, <1>2, <1>3, <1>4, <2>1, FewRuns, SameTombs2, QuietMatch DEF OnlyRun
  <1>6. CASE k \in DOMAIN files
    <2>1. files[k].path = Doc /\ DOMAIN files[k] = RowFields /\ k \in DocRows /\ files[k].gen \in Nat
      BY <1>1, <1>6, DocRow2 DEF Shape, RowShape, Numbered
    <2>2. /\ DOMAIN files' = DOMAIN files /\ \A j \in DOMAIN files \ {k} : files'[j] = files[j]
          /\ files'[k].state = "online" /\ files'[k].cache = None
          /\ files'[k].path = Doc /\ files'[k].cloud = files[k].cloud /\ files'[k].etag = files[k].etag
          /\ files'[k].gen = files[k].gen
      BY <1>6, <2>1 DEF DetachOriginal, MarkOnlineOnly, RowFields
    <2>3. SteadyAt(k) /\ RowKept(k)
      BY <1>1, <1>3, <1>6, <2>2 DEF SteadyAt, RowKept, At
    <2>4. k \in DocRows' /\ DocAt(k)
      BY <1>6, <2>1, <2>2 DEF DocRows, RowAt, Matched
    <2>5. Moves
      BY <1>1, StillMoves
    <2>6. (DocAt(k))'
      BY <1>1, <2>1, <2>2, <2>4, <2>5, EmptyDoc
    <2> QED
      BY <1>1, <1>2, <1>4, <2>1, <2>2, <2>3, <2>4, <2>6, RewriteMatch
  <1> QED
    BY <1>5, <1>6

\* The row has the bytes that the answer says are the item's, unless a truncation
\* has changed them.
LEMMA CommitFileMatch ==
  ASSUME IInv, Shape, Shape', Numbered, Numbered', Orderly, Working, Faithful, Matched, NEW k, CommitFile(k)
  PROVE  Matched'
  <1>1. Acknowledged(k) /\ task[k].pc = "commit" /\ k \in DOMAIN task
    BY CommitAcknowledges
  <1>2. /\ UNCHANGED <<disk, handles, fuse, del, cloud, made, unseen, delta, writes, discarded>>
        /\ task' = Without(task, k)
    BY <1>1 DEF Acknowledged
  <1>3. CASE k \notin DOMAIN files
    <2>1. Late(k)
      BY <1>1, <1>2, <1>3 DEF Acknowledged, Late
    <2> QED
      BY <2>1, LateMatch
  <1>4. CASE k \in DOMAIN files
    <2> DEFINE e == task[k].res
               r == files[k]
    <2>1. /\ tombs' = tombs /\ k \in DocRows
          /\ DOMAIN files' = DOMAIN files /\ \A j \in DOMAIN files \ {k} : files'[j] = files[j]
          /\ files' = CommitUploaded(files, k, task[k].p, e, task[k].r.cache)
      BY <1>1, <1>4 DEF Acknowledged
    <2>2. /\ DOMAIN r = RowFields /\ r.path = Doc /\ r.cache = task[k].r.cache /\ r.cache # None
          /\ r.cloud = task[k].r.cloud /\ task[k].p = Doc /\ e.id \in Items /\ e.id # None
          /\ r.cloud # None => e.id = r.cloud
      BY <1>1, <1>4, DocRow2, RowOfRun, NoneNowhere DEF Shape, RowShape, TaskShape, RunningAt, Before
    <2>3. files'[k] =
            [r EXCEPT !.up = NoClaim,
                      !.cloud = IF r.state = "uploading" \/ r.cloud = None THEN e.id ELSE r.cloud,
                      !.etag = IF r.cloud \in {None, e.id} THEN e.etag ELSE r.etag,
                      !.state = IF r.state = "uploading" THEN "cached" ELSE r.state]
      BY <1>4, <2>1, <2>2 DEF CommitUploaded
    <2>4. /\ files'[k].path = Doc /\ files'[k].cache = r.cache /\ files'[k].gen = r.gen
          /\ files'[k].cloud = e.id /\ files'[k].etag = e.etag
          /\ files'[k].state = IF r.state = "uploading" THEN "cached" ELSE r.state
      BY <2>2, <2>3 DEF RowFields
    <2>5. /\ CommitAt(k) /\ RunFits(k) /\ RunAt(k) /\ RunningAt(k) /\ IsVersion(e)
      BY <1>1, RowOfRun DEF Faithful, Answered, AnsweredAt, Matched, Numbered, Storing
    <2>6. r.state # "conflict" /\ r.up.path \in {None, Doc}
      BY <1>1, <1>4, <2>5 DEF RunAt, Before, Orderly, CopiesUndisturbed
    <2>7. k \in DocRows' /\ DocAt(k)
      BY <1>4, <2>1, <2>4 DEF DocRows, RowAt, Matched
    <2>8. OnlyRun(k) /\ k \notin DOMAIN task'
      BY <1>2, RunMoves
    <2>9. SteadyAt(k)
      BY <1>1, <2>2, <2>4, <2>6 DEF SteadyAt, At
    <2>10. (RowFits(k))'
      <3>1. e.id \in DOMAIN cloud => e.etag.rev <= cloud[e.id].etag.rev
        BY <1>1, <2>5 DEF RunFits, Storing, Fit
      <3> QED
        BY <1>2, <2>4, <2>5, <2>6, <3>1 DEF RowFits, There, IsVersion
    <2>11. ASSUME files'[k].state = "cached", ~(Truncating(k))'
           PROVE  disk'[r.cache] = e.etag.data
      <3>1. ~Truncating(k)
        BY <1>2, <2>11 DEF Truncating
      <3>2. r.state = "uploading"
        BY <1>1, <1>4, <2>4, <2>5, <2>11, <3>1 DEF RunningAt, Window, Protected
      <3> QED
        BY <1>2, <1>4, <2>2, <2>5, <3>1, <3>2 DEF CommitAt, Bytes
    <2>12. (Live(k))' => Live(k)
      BY <1>2, <2>2, <2>4 DEF Live, There
    <2>13. (DocAt(k))'
      <3>1. files'[k].state = "cached" /\ files'[k].cache # None /\ ~(Truncating(k))' =>
              files'[k].etag # None /\ disk'[files'[k].cache] = files'[k].etag.data
        BY <2>4, <2>5, <2>11 DEF IsVersion
      <3>2. (Live(k))' => \A n \in Nat :
              files'[k].cache = <<k, n>> \/ ((Truncating(k))' /\ fuse'.c = <<k, n>>) => n <= files'[k].gen + 1
        BY <1>2, <2>4, <2>7, <2>12 DEF DocAt, Truncating
      <3> QED
        BY <3>1, <3>2 DEF DocAt
    <2> HIDE DEF e, r
    <2> QED
      BY <1>2, <1>4, <2>1, <2>7, <2>8, <2>9, <2>10, <2>13, RewriteMatch DEF Faithful
  <1> QED
    BY <1>3, <1>4

-----------------------------------------------------------------------------
(* FUSE: a handler works on the row at the path                            *)

LEMMA HandlerMatch ==
  ASSUME Shape, Shape', Numbered, Numbered', Faithful, Matched,
         NEW k \in DocRows, DOMAIN files' = DOMAIN files,
         \A j \in DOMAIN files \ {k} : files'[j] = files[j],
         files'[k].path = Doc, files'[k].cloud = files[k].cloud, files'[k].up = files[k].up,
         files'[k].etag = files[k].etag,
         files'[k].gen > files[k].gen \/ files'[k].gen = files[k].gen,
         files'[k].cache \in {None, files[k].cache} \/ \A j \in CopyRows : files[j].cache # files'[k].cache,
         files'[k].state = "conflict" =>
           files[k].state = "conflict" /\ files'[k].stamp = files[k].stamp /\ files'[k].cache = files[k].cache,
         UNCHANGED <<tombs, cloud, made, delta, task>>,
         discarded \subseteq discarded', writes.theirs \subseteq writes'.theirs,
         CopyBytes, (DocAt(k))', fuse' # None => fuse'.k = k
  PROVE  Matched'
  <1>1. Moves /\ Rises
    <2>1. Moves
      BY StillMoves DEF Faithful
    <2> QED
      BY <2>1 DEF Rises
  <1>2. k \in DOMAIN files /\ k \in DocRows'
    BY DEF DocRows, RowAt
  <1>3. SteadyAt(k) /\ RowKept(k)
    BY <1>2 DEF SteadyAt, RowKept, At
  <1>4. OnlyRun(k) /\ (k \in DOMAIN task' => RunKept(k))
    BY <1>2 DEF OnlyRun, RunKept
  <1>5. Told' /\ TombsStay
    BY SameTold, SameTombs2 DEF Matched
  <1>6. Cutting'
    BY <1>2 DEF Cutting
  <1> QED
    BY <1>1, <1>2, <1>3, <1>4, <1>5, <1>6, OneRowMatch

LEMMA OpenInvalidMatch ==
  ASSUME Shape, Shape', Numbered, Numbered', Faithful, Matched, OpenInvalid
  PROVE  Matched'
  <1>1. PICK k \in RowAt(files, Doc) :
          files' = [files EXCEPT ![k].state = "online", ![k].cache = None, ![k].gen = @ + 1]
    BY DEF OpenInvalid
  <1>2. UNCHANGED <<tombs, disk, fuse, task, discarded, cloud, made, delta, writes>> /\ fuse = None
    BY DEF OpenInvalid, FuseOnly, NoRequest
  <1>3. /\ k \in DOMAIN files /\ k \in DocRows /\ DOMAIN files[k] = RowFields /\ files[k].path = Doc
        /\ files[k].gen \in Nat
    BY DEF DocRows, RowAt, Shape, RowShape, Numbered
  <1>4. /\ DOMAIN files' = DOMAIN files /\ \A j \in DOMAIN files \ {k} : files'[j] = files[j]
        /\ files'[k].path = Doc /\ files'[k].cloud = files[k].cloud /\ files'[k].up = files[k].up
        /\ files'[k].etag = files[k].etag /\ files'[k].gen = files[k].gen + 1
        /\ files'[k].cache = None /\ files'[k].state = "online"
    BY <1>1, <1>3 DEF RowFields
  <1>5. CopyBytes
    BY <1>2 DEF CopyBytes
  <1>6. (DocAt(k))'
    <2>1. Moves
      BY <1>2, StillMoves DEF Faithful
    <2>2. k \in DocRows' /\ DocAt(k)
      BY <1>3, <1>4 DEF DocRows, RowAt, Matched
    <2> QED
      BY <1>2, <1>3, <1>4, <2>1, <2>2, EmptyDoc
  <1> QED
    BY <1>2, <1>3, <1>4, <1>5, <1>6, HandlerMatch

\* A download takes a name that no copy has: a copy with that name was made from a
\* row whose version had lost, and the row has the version of the cloud.
LEMMA DownloadsMatch ==
  ASSUME Shape, Shape', Numbered, Numbered', Working, Faithful, Matched, NEW h, NEW k, NEW c, OpenOnline(h),
         Downloads(h, k, c), UNCHANGED <<cloud, made, delta, del, writes>>
  PROVE  Matched'
  <1>1. /\ k \in DOMAIN files /\ k \in DocRows /\ DOMAIN files[k] = RowFields /\ files[k].path = Doc
        /\ UNCHANGED <<tombs, fuse, task, discarded>> /\ fuse = None /\ c # None
        /\ files[k].gen \in Nat
    BY DocRow2 DEF Downloads, Shape, RowShape, Numbered
  <1>2. There(k) /\ ~Revised(k)
    BY DEF Downloads, There, Revised
  <1>3. c = <<k, files[k].gen + 1>>
    <2>1. PICK j \in RowAt(files, Doc) :
            IF cloud[files[j].cloud].etag = files[j].etag
              THEN files' = MarkCached(files, j, DownloadCache(j, files[j].gen))
              ELSE disk' = disk /\ handles' = handles
      BY DEF OpenOnline
    <2>2. j = k
      BY <1>1, DocRow2 DEF DocRows
    <2>3. files' = MarkCached(files, k, DownloadCache(k, files[k].gen))
      BY <1>2, <2>1, <2>2 DEF Revised
    <2>4. files'[k].cache = DownloadCache(k, files[k].gen)
      BY <1>1, <2>3 DEF MarkCached, RowFields
    <2>5. files'[k].cache = c
      BY <1>1 DEF Downloads, MarkCached, RowFields
    <2> QED
      BY <2>4, <2>5 DEF DownloadCache
  <1>4. /\ DOMAIN files' = DOMAIN files /\ \A j \in DOMAIN files \ {k} : files'[j] = files[j]
        /\ files'[k].state = "cached" /\ files'[k].cache = c /\ files'[k].up = files[k].up
        /\ files'[k].path = Doc /\ files'[k].cloud = files[k].cloud /\ files'[k].etag = files[k].etag
        /\ files'[k].gen = files[k].gen
    BY <1>1 DEF Downloads, MarkCached, RowFields
  <1>5. ASSUME NEW j \in CopyRows, files[j].cache = c PROVE FALSE
    <2>1. LentAt(j) /\ k \in Locals
      BY <1>1 DEF Matched, Shape, RowShape
    <2>2. \/ files[k].gen + 1 <= files[k].gen
          \/ Revised(k)
      BY <1>1, <1>2, <1>3, <1>5, <2>1 DEF LentAt
    <2> QED
      BY <1>1, <1>2, <2>2
  <1>6. /\ disk'[c] = files[k].etag.data
        /\ \A d : d # c => (d \in DOMAIN disk' <=> d \in DOMAIN disk) /\ (d \in DOMAIN disk => disk'[d] = disk[d])
    BY DEF Downloads, With
  <1>7. CopyBytes
    BY <1>5, <1>6 DEF CopyBytes
  <1>8. files[k].etag # None
    BY <1>1, <1>2 DEF Matched, RowFits
  <1>9. (DocAt(k))'
    <2>1. \A n \in Nat : <<k, files[k].gen + 1>> = <<k, n>> => n <= files[k].gen + 1
      BY <1>1
    <2>2. ~(Truncating(k))'
      BY <1>1 DEF Truncating
    <2> QED
      BY <1>3, <1>4, <1>6, <1>8, <2>1, <2>2 DEF DocAt
  <1> QED
    BY <1>1, <1>4, <1>5, <1>7, <1>9, HandlerMatch

LEMMA TruncatesMatch ==
  ASSUME Shape, Shape', Numbered, Numbered', CopiesApart', Working, Faithful, Matched, NEW h, TruncateBytes(h),
         NEW k, NEW c, NEW w, NEW seen, Truncates(k, c, w, seen)
  PROVE  Matched'
  <1>1. /\ k \in DOMAIN files /\ k \in DocRows /\ files[k].path = Doc
        /\ UNCHANGED <<files, tombs, task, del, cloud, made, delta>> /\ fuse = None
        /\ files[k].cache \in {None, c} /\ c # None
        /\ fuse' # None /\ fuse'.k = k /\ fuse'.c = c /\ discarded \subseteq discarded'
        /\ writes'.theirs = writes.theirs /\ files[k].gen \in Nat
    BY DocRow2 DEF Truncates, LocalWrite, Numbered, Shape, CloudShape
  <1>2. c = TruncCache(k)
    <2>1. PICK j \in RowAt(files, Doc) : \E at, x, b, v :
            fuse' = [at |-> at, k |-> j, c |-> TruncCache(j), h |-> x, base |-> b, w |-> v]
      BY DEF TruncateBytes
    <2>2. j = k
      BY <1>1, DocRow2 DEF DocRows
    <2>3. fuse'.c = TruncCache(k)
      BY <2>1, <2>2
    <2> QED
      BY <1>1, <2>3
  <1>3. \A d : d # c => (d \in DOMAIN disk' <=> d \in DOMAIN disk) /\ (d \in DOMAIN disk => disk'[d] = disk[d])
    BY DEF Truncates, With
  <1>4. CopyBytes
    <2>1. \A j \in CopyRows : files[j].cache # c
      BY <1>1 DEF CopiesApart, CopyRows, DocRows, RowAt
    <2> QED
      BY <1>3, <2>1 DEF CopyBytes
  <1>5. (DocAt(k))'
    <2>1. DocAt(k) /\ (Truncating(k))'
      BY <1>1 DEF Matched, Truncating
    <2>2. (Live(k))' => Live(k)
      BY <1>1 DEF Live, There
    <2>3. ASSUME Live(k), NEW n \in Nat, files[k].cache = <<k, n>> \/ c = <<k, n>> PROVE n <= files[k].gen + 1
      <3>1. CASE files[k].cache = <<k, n>>
        BY <2>1, <2>3, <3>1 DEF DocAt
      <3>2. CASE files[k].cache = None /\ <<k, 0>> = <<k, n>>
        BY <1>1, <3>2
      <3> QED
        BY <1>1, <1>2, <2>3, <3>1, <3>2 DEF TruncCache, OwnCache
    <2> QED
      BY <1>1, <2>1, <2>2, <2>3 DEF DocAt
  <1> QED
    BY <1>1, <1>4, <1>5, HandlerMatch

LEMMA TruncateMarkMatch ==
  ASSUME Shape, Shape', Numbered, Numbered', Orderly', CopiesApart, Working, Faithful, Matched, TruncateMark
  PROVE  Matched'
  <1> SUFFICES ASSUME NEW k, NEW c, k = fuse.k, c = fuse.c PROVE Matched'
    OBVIOUS
  <1>1. /\ fuse # None /\ fuse.at = "mark" /\ files' = MarkCached(files, k, c)
        /\ fuse' = [fuse EXCEPT !.at = "claim"]
        /\ UNCHANGED <<tombs, disk, task, del, cloud, made, delta, writes, discarded>>
    BY DEF TruncateMark, NoRequest
  <1>2. /\ fuse \in HandlerType /\ c # None
        /\ k \in DOMAIN files => files[k].cache \in {None, c}
    BY <1>1 DEF Working, Cut, Shape, FuseShape
  <1>3. fuse' # None /\ fuse'.k = k /\ fuse'.c = c /\ fuse'.at = "claim"
    <2>1. fuse' \in HandlerType /\ fuse'.k = k /\ fuse'.c = c /\ fuse'.at = "claim"
      BY <1>1, <1>2 DEF HandlerType
    <2> QED
      BY <2>1, NoneAssumption DEF HandlerType
  <1>4. DOMAIN files' = DOMAIN files
    BY <1>1 DEF MarkCached
  <1>5. /\ k \in DOMAIN files /\ k \in DocRows /\ files[k].path = Doc /\ DOMAIN files[k] = RowFields
        /\ files[k].gen \in Nat
    <2>1. k \in DOMAIN files
      BY <1>3, <1>4 DEF Orderly, TruncateAlone
    <2> QED
      BY <1>1, <2>1, DocRow2 DEF Shape, RowShape, Numbered
  <1>6. /\ \A j \in DOMAIN files \ {k} : files'[j] = files[j]
        /\ files'[k].state = "cached" /\ files'[k].cache = c /\ files'[k].up = files[k].up
        /\ files'[k].path = Doc /\ files'[k].cloud = files[k].cloud /\ files'[k].etag = files[k].etag
        /\ files'[k].gen = files[k].gen
    BY <1>1, <1>5 DEF MarkCached, RowFields
  <1>7. \A j \in CopyRows : files[j].cache # c
    BY <1>1 DEF CopiesApart
  <1>8. (DocAt(k))'
    <2>1. DocAt(k) /\ Truncating(k) /\ (Truncating(k))'
      BY <1>1, <1>3, <1>5 DEF Matched, Truncating
    <2>2. (Live(k))' => Live(k)
      BY <1>1, <1>6 DEF Live, There
    <2> QED
      BY <1>3, <1>6, <2>1, <2>2 DEF DocAt
  <1>9. CopyBytes
    BY <1>1 DEF CopyBytes
  <1> QED
    BY <1>1, <1>3, <1>4, <1>5, <1>6, <1>7, <1>8, <1>9, HandlerMatch

\* The row is left with local bytes.
LEMMA LeavesMatch ==
  ASSUME Shape, Shape', Numbered, Numbered', Faithful, Matched, NEW k, NEW s, Leaves(k, s),
         files'[k].gen = files[k].gen, fuse' = None, CopyBytes,
         UNCHANGED <<tombs, task, del, cloud, made, delta, discarded>>,
         writes'.theirs = writes.theirs
  PROVE  Matched'
  <1>1. /\ k \in DOMAIN files /\ k \in DocRows /\ s \in {"writing", "dirty"} /\ files[k].path = Doc
        /\ DOMAIN files' = DOMAIN files /\ \A j \in DOMAIN files \ {k} : files'[j] = files[j]
        /\ files'[k].state = s /\ files'[k].cache = files[k].cache /\ files'[k].up = files[k].up
        /\ files'[k].cloud = files[k].cloud /\ files'[k].etag = files[k].etag
        /\ files'[k].path = files[k].path
    BY DocRow2 DEF Leaves
  <1>2. (DocAt(k))'
    <2>1. DocAt(k) /\ ~(Truncating(k))'
      BY <1>1 DEF Matched, Truncating
    <2>2. (Live(k))' => Live(k)
      BY <1>1 DEF Live, There
    <2> QED
      BY <1>1, <2>1, <2>2 DEF DocAt
  <1> QED
    BY <1>1, <1>2, HandlerMatch

LEMMA TruncateClaimMatch ==
  ASSUME Shape, Shape', Numbered, Numbered', Orderly, Working, Faithful, Matched, TruncateClaim
  PROVE  Matched'
  <1> DEFINE k == fuse.k
             s == IF fuse.h = None THEN "dirty" ELSE "writing"
  <1>1. /\ Leaves(k, s) /\ fuse # None /\ fuse' = None
        /\ UNCHANGED <<tombs, disk, task, discarded, writes, del, cloud, made, unseen, delta>>
    BY TruncateClaims
  <1>2. k \in DOMAIN files /\ DOMAIN files[k] = RowFields
    BY <1>1 DEF Leaves, Shape, RowShape
  <1>3. files'[k].gen = files[k].gen
    <2>1. \/ \E st \in {0, 1} : files' = MarkDirty(files, k, st)
          \/ files' = MarkState(files, k, "writing")
      BY <1>2 DEF TruncateClaim
    <2>2. ASSUME NEW st \in {0, 1}, files' = MarkDirty(files, k, st) PROVE files'[k].gen = files[k].gen
      BY <1>2, <2>2 DEF MarkDirty, RowFields
    <2>3. CASE files' = MarkState(files, k, "writing")
      BY <1>2, <2>3 DEF MarkState, RowFields
    <2> QED
      BY <2>1, <2>2, <2>3
  <1>4. CopyBytes
    BY <1>1 DEF CopyBytes
  <1> HIDE DEF k, s
  <1> QED
    BY <1>1, <1>3, <1>4, LeavesMatch

\* What a program writes is not a copy's: no program writes a file that is copied.
LEMMA WriteMatch ==
  ASSUME Shape, Shape', Numbered, Numbered', Orderly', Working, Faithful, Matched, NEW h, Write(h)
  PROVE  Matched'
  <1> DEFINE k == handles[h].k
             c == handles[h].c
  <1>1. Writes(h, k, c)
    BY WriteCases
  <1>2. files' = files \/ files' = ClaimWrite(files, k)
    BY DEF Write
  <1> HIDE DEF k, c
  <1>3. /\ Leaves(k, "writing") /\ files[k].cache = c /\ fuse = None /\ fuse' = None
        /\ k \in DOMAIN files /\ k \in DocRows
        /\ disk' = [disk EXCEPT ![c] = @ \cup {NextWrite}]
        /\ UNCHANGED <<tombs, task, del, cloud, made, delta, discarded>>
        /\ writes'.theirs = writes.theirs
    BY <1>1 DEF Writes, Leaves, LocalWrite, Shape, CloudShape
  <1>4. DOMAIN files[k] = RowFields /\ k \in Locals /\ Own(k, c) /\ c # None
    BY <1>1, <1>3, DocRow2 DEF Shape, RowShape, Writes
  <1>5. files'[k].gen = files[k].gen
    BY <1>2, <1>3, <1>4 DEF ClaimWrite, MarkState, RowFields
  <1>6. ASSUME NEW j \in CopyRows, files[j].cache = c PROVE FALSE
    <2>1. PICK n \in Nat : c = <<k, n>>
      BY <1>4 DEF Own
    <2>2. LentAt(j)
      BY DEF Matched
    <2>3. files[k].up.path \notin {None, Doc}
      BY <1>3, <1>4, <1>6, <2>1, <2>2 DEF LentAt
    <2>4. k \in DOMAIN files' /\ files'[k].up = files[k].up /\ files'[k].state = "writing"
      BY <1>3 DEF Leaves
    <2> QED
      BY <2>3, <2>4 DEF Orderly, CopiesUndisturbed
  <1>7. CopyBytes
    BY <1>3, <1>6 DEF CopyBytes
  <1> QED
    BY <1>3, <1>5, <1>7, LeavesMatch

LEMMA ReleaseMatch ==
  ASSUME Shape, Shape', Numbered, Numbered', Working, Faithful, Matched, NEW h, Release(h)
  PROVE  Matched'
  <1> DEFINE k == handles[h].k
  <1>1. /\ fuse = None /\ fuse' = None
        /\ UNCHANGED <<tombs, disk, task, del, cloud, made, unseen, delta, writes, discarded>>
        /\ files' = files \/ Leaves(k, "dirty")
    BY ReleaseCases
  <1>2. CASE files' = files
    BY <1>2, IdleMatch
  <1>3. CASE Leaves(k, "dirty")
    <2>1. k \in DOMAIN files /\ DOMAIN files[k] = RowFields
      BY <1>3 DEF Leaves, Shape, RowShape
    <2>2. files' = files \/ \E st \in {0, 1} : files' = MarkDirty(files, k, st)
      BY DEF Release
    <2>3. ASSUME NEW st \in {0, 1}, files' = MarkDirty(files, k, st) PROVE files'[k].gen = files[k].gen
      BY <2>1, <2>3 DEF MarkDirty, RowFields
    <2>4. CopyBytes
      BY <1>1 DEF CopyBytes
    <2> HIDE DEF k
    <2> QED
      BY <1>1, <1>3, <2>2, <2>3, <2>4, LeavesMatch
  <1> QED
    BY <1>1, <1>2, <1>3

-----------------------------------------------------------------------------
(* The row at the path comes and goes                                      *)

LEMMA CreateMatch ==
  ASSUME Shape, Shape', Numbered, Numbered', Faithful, Matched, NEW h, Create(h)
  PROVE  Matched'
  <1> SUFFICES ASSUME NEW k, NEW c, k = LocalIdentity(made'), c = OwnCache(k) PROVE Matched'
    OBVIOUS
  <1>1. /\ DocRows = {} /\ made' = made + 1 /\ fuse = None
        /\ files' = With(files, k, LocalRow(Doc, c)) /\ disk' = With(disk, c, {})
        /\ UNCHANGED <<tombs, cloud, delta, fuse, writes, discarded, task>>
    BY DEF Create, FuseOnly, DocRows
  <1>2. k \notin Locals /\ c = <<k, 0>>
    BY <1>1 DEF OwnCache, Shape, CloudShape
  <1>3. k \notin DOMAIN files /\ k \notin DOMAIN task
    BY <1>2 DEF Shape, RowShape, TaskShape
  <1>4. /\ DOMAIN files' = DOMAIN files \cup {k} /\ files'[k] = LocalRow(Doc, c)
        /\ \A j \in DOMAIN files : files'[j] = files[j]
        /\ \A d : d # c => (d \in DOMAIN disk' <=> d \in DOMAIN disk) /\ (d \in DOMAIN disk => disk'[d] = disk[d])
        /\ c # None
    <2>1. /\ DOMAIN files' = DOMAIN files \cup {k} /\ files'[k] = LocalRow(Doc, c)
          /\ \A j \in DOMAIN files : files'[j] = files[j]
          /\ \A d : d # c => (d \in DOMAIN disk' <=> d \in DOMAIN disk) /\ (d \in DOMAIN disk => disk'[d] = disk[d])
          /\ c \in DOMAIN disk'
      BY <1>1, <1>3 DEF With
    <2> QED
      BY <2>1 DEF Shape, CloudShape
  <1>5. /\ files'[k].path = Doc /\ files'[k].state = "writing" /\ files'[k].cache = c
        /\ files'[k].cloud = None /\ files'[k].etag = None /\ files'[k].gen = 0
    BY <1>4 DEF LocalRow
  <1>6. DocRows' = {k} /\ CopyRows = DOMAIN files /\ CopyRows' = DOMAIN files
    <2>1. DocRows' = {k}
      BY <1>1, <1>4, <1>5 DEF DocRows, RowAt
    <2> QED
      BY <1>1, <1>3, <1>4, <2>1 DEF CopyRows
  <1>7. Moves /\ Rises
    <2>1. Moves
      BY <1>1, StillMoves DEF Faithful
    <2> QED
      BY <1>1, <2>1 DEF Rises
  <1>8. Steady
    <2>1. \A d : LocalTomb(d) => (LocalTomb(d))'
      BY <1>1 DEF LocalTomb
    <2>2. \A j \in DocRows' : j \notin DocRows /\ NewAt(j)
      BY <1>1, <1>2, <1>6 DEF NewAt
    <2> QED
      BY <1>4, <2>1, <2>2 DEF Steady
  <1>9. CopyBytes
    <2>1. ASSUME NEW j \in CopyRows PROVE files[j].cache # c
      <3>1. files[j].cache # None => files[j].cache \in Locals \X Nat
        BY DEF Matched, CopyAt
      <3>2. c \notin Locals \X Nat
        BY <1>2
      <3> QED
        BY <1>4, <3>1, <3>2
    <2> QED
      BY <1>4, <2>1 DEF CopyBytes
  <1>10. \A j \in DOMAIN files' : RowKept(j) \/ (RowFits(j))'
    <2>1. (RowFits(k))'
      BY <1>5, NoneGone DEF RowFits, There
    <2>2. \A j \in DOMAIN files : RowKept(j)
      BY <1>4 DEF RowKept
    <2> QED
      BY <1>4, <2>1, <2>2
  <1>11. ASSUME NEW j \in DOMAIN task' PROVE RunKept(j)
    <2>1. j \in DOMAIN task /\ j # k /\ j \notin DOMAIN files
      BY <1>1, <1>3, <1>11, DocRow2
    <2> QED
      BY <1>1, <1>4, <2>1 DEF RunKept
  <1>12. Told' /\ Cutting'
    BY <1>1, SameTold DEF Matched, Cutting
  <1>13. \A j \in CopyRows' : CopyKept(j)
    BY <1>4, <1>6 DEF CopyKept
  <1>14. (DocAt(k))'
    <2>1. \A n \in Nat : c = <<k, n>> => n <= 1
      BY <1>2
    <2>2. ~(Truncating(k))'
      BY <1>1 DEF Truncating
    <2> QED
      BY <1>5, <2>1, <2>2 DEF DocAt
  <1>15. \A j \in DocRows' : (DocAt(j))'
    BY <1>6, <1>14
  <1> QED
    BY <1>7, <1>8, <1>9, <1>10, <1>11, <1>12, <1>13, <1>15, Matching

LEMMA UnlinkMatch ==
  ASSUME Shape, Shape', Numbered, Numbered', Orderly, Working, Faithful, Matched, Unlink
  PROVE  Matched'
  <1>1. PICK k : Buries(k)
    BY UnlinkCases
  <1>2. /\ DOMAIN tombs' = DOMAIN tombs \cup {k} /\ \A d \in DOMAIN tombs : tombs'[d] = tombs[d]
        /\ k \notin DOMAIN tombs /\ tombs'[k].local = k /\ k # None
    BY <1>1, BuriedTomb
  <1>3. /\ k \in DocRows /\ k \in DOMAIN files /\ (\A j \in DocRows : j = k)
        /\ fuse = None /\ discarded \subseteq discarded'
        /\ DOMAIN files' = DOMAIN files \ {k} /\ \A j \in DOMAIN files' : files'[j] = files[j]
        /\ UNCHANGED <<disk, fuse, task, cloud, made, delta, writes>>
    BY <1>1, DocRow2 DEF Buries, Without
  <1>4. DocRows' = {} /\ CopyRows = DOMAIN files' /\ CopyRows' = DOMAIN files'
    <2>1. DocRows' = {}
      BY <1>3, DocRow2 DEF DocRows, RowAt
    <2> QED
      BY <1>3, <2>1 DEF CopyRows
  <1>5. Moves /\ Rises
    <2>1. Moves
      BY <1>3, StillMoves DEF Faithful
    <2> QED
      BY <1>3, <2>1 DEF Rises
  <1>6. Steady
    <2>1. \A d : LocalTomb(d) => (LocalTomb(d))'
      BY <1>2 DEF LocalTomb
    <2>2. \A j \in DOMAIN files \ DOMAIN files' : (LocalTomb(j))'
      BY <1>2, <1>3 DEF LocalTomb
    <2> QED
      BY <1>4, <2>1, <2>2 DEF Steady
  <1>7. CopyBytes
    BY <1>3 DEF CopyBytes
  <1>8. \A j \in DOMAIN files' : RowKept(j)
    BY <1>3 DEF RowKept
  <1>9. ASSUME NEW j \in DOMAIN task' PROVE RunKept(j)
    <2>1. j \in DOMAIN task /\ j \notin DOMAIN files'
      BY <1>3, <1>9, DocRow2
    <2> QED
      BY <1>3, <2>1 DEF RunKept
  <1>10. Told' /\ Cutting'
    BY <1>3, SameTold DEF Matched, Cutting
  <1>11. \A j \in CopyRows' : CopyKept(j)
    BY <1>3, <1>4 DEF CopyKept
  <1>12. \A j \in DocRows' : (DocAt(j))'
    BY <1>4
  <1> QED
    BY <1>5, <1>6, <1>7, <1>8, <1>9, <1>10, <1>11, <1>12, Matching

\* A crash outside a truncation keeps every row with its bytes.
LEMMA CrashMatch ==
  ASSUME Shape, Shape', Numbered, Numbered', CutsEnd, Faithful, Matched, Crash
  PROVE  Matched'
  <1>1. PICK s \in {0, 1} :
          files' = [k \in DOMAIN files |->
                      IF files[k].state = "writing" /\ CacheExists(files[k])
                        THEN [files[k] EXCEPT !.state = "dirty", !.stamp = s] ELSE files[k]]
    BY DEF Crash
  <1>2. /\ fuse = None /\ fuse' = None /\ task' = Empty /\ delta' = None
        /\ UNCHANGED <<tombs, disk, cloud, made, writes>> /\ discarded \subseteq discarded'
    BY DEF Crash, CutsEnd
  <1>3. DOMAIN task' = {}
    BY <1>2 DEF Empty
  <1>4. /\ DOMAIN files' = DOMAIN files
        /\ \A k \in DOMAIN files :
             /\ files'[k].path = files[k].path /\ files'[k].cache = files[k].cache
             /\ files'[k].cloud = files[k].cloud /\ files'[k].etag = files[k].etag
             /\ files'[k].up = files[k].up /\ files'[k].gen = files[k].gen
             /\ files'[k].state = files[k].state \/ (files[k].state = "writing" /\ files'[k].state = "dirty")
    <2> SUFFICES ASSUME NEW k \in DOMAIN files PROVE <1>4!2!(k)
      BY <1>1
    <2>1. DOMAIN files[k] = RowFields
      BY DEF Shape, RowShape
    <2>2. \/ files'[k] = files[k]
          \/ files[k].state = "writing" /\ files'[k] = [files[k] EXCEPT !.state = "dirty", !.stamp = s]
      BY <1>1
    <2> QED
      BY <2>1, <2>2 DEF RowFields
  <1>5. /\ DocRows' = DocRows /\ CopyRows' = CopyRows
        /\ DocRows \subseteq DOMAIN files /\ CopyRows \subseteq DOMAIN files
    BY <1>4 DEF DocRows, RowAt, CopyRows
  <1>6. Moves /\ Rises
    <2>1. Moves
      BY <1>2, StillMoves DEF Faithful
    <2> QED
      BY <1>2, <2>1 DEF Rises
  <1>7. Steady
    <2>1. \A d : LocalTomb(d) => (LocalTomb(d))'
      BY <1>2 DEF LocalTomb
    <2>2. \A k \in DocRows : SteadyAt(k)
      BY <1>3, <1>4, <1>5 DEF SteadyAt, At
    <2> QED
      BY <1>4, <1>5, <2>1, <2>2 DEF Steady
  <1>8. CopyBytes
    BY <1>2 DEF CopyBytes
  <1>9. \A k \in DOMAIN files' : RowKept(k)
    BY <1>4 DEF RowKept
  <1>10. \A j \in CopyRows' : CopyKept(j)
    BY <1>4, <1>5 DEF CopyKept
  <1>11. ASSUME NEW k \in DocRows' PROVE (DocAt(k))'
    <2>1. DocKept(k) /\ DocAt(k)
      BY <1>2, <1>4, <1>5, <1>11 DEF DocKept, Matched
    <2> QED
      BY <1>6, <2>1, DocStays
  <1>12. Told' /\ Cutting'
    BY <1>2 DEF Told, Cutting
  <1> QED
    BY <1>3, <1>6, <1>7, <1>8, <1>9, <1>10, <1>11, <1>12, Matching

-----------------------------------------------------------------------------
(* What an import does to the row at the path: while its item is there it  *)
(* stays, and a new version has a new number                               *)

Aged(fs) ==
  \A k \in DocRows : Live(k) =>
    /\ There(k) => k \in DOMAIN fs
    /\ k \in DOMAIN fs =>
         /\ fs[k].gen \in Nat
         /\ \/ fs[k].gen > files[k].gen
            \/ fs[k].gen = files[k].gen /\ fs[k].etag = files[k].etag

LEMMA UpsertGen ==
  ASSUME NEW fs, NEW ds, NEW e, NEW k \in DOMAIN fs, k \in DOMAIN Upsert(fs, ds, e), DOMAIN fs[k] = RowFields
  PROVE  LET q == Upsert(fs, ds, e)[k]
         IN \/ q.gen = fs[k].gen + 1
            \/ q.gen = fs[k].gen /\ q.etag = fs[k].etag
  <1> DEFINE i == LocalId(fs, e)
             rest == [o \in DOMAIN fs \ (RowAt(fs, e.path) \ {i}) |-> fs[o]]
             r == fs[k]
             moved == [r EXCEPT !.path = e.path, !.etag = e.etag, !.cloud = e.id]
             x == IF r.etag = e.etag THEN moved
                  ELSE [moved EXCEPT !.cache = None, !.state = "online", !.gen = @ + 1]
  <1>1. CASE Skipped(fs, ds, e)
    BY <1>1 DEF Upsert
  <1>2. CASE ~Skipped(fs, ds, e) /\ i # k
    <2>1. PICK v : Upsert(fs, ds, e) = With(rest, i, v)
      BY <1>2 DEF Upsert
    <2>2. k \in DOMAIN rest
      BY <1>2, <2>1 DEF With
    <2>3. Upsert(fs, ds, e)[k] = fs[k]
      BY <1>2, <2>1, <2>2 DEF With
    <2> QED
      BY <2>3
  <1>3. CASE ~Skipped(fs, ds, e) /\ i = k
    <2>1. Upsert(fs, ds, e) = With(rest, k, x)
      BY <1>3 DEF Upsert
    <2>2. Upsert(fs, ds, e)[k] = x
      <3> HIDE DEF x, rest
      <3> QED
        BY <2>1 DEF With
    <2>3. x.gen = r.gen + 1 \/ (x.gen = r.gen /\ x.etag = r.etag)
      BY DEF RowFields
    <2> QED
      BY <2>2, <2>3
  <1> QED
    BY <1>1, <1>2, <1>3

LEMMA UpsertAges ==
  ASSUME Shape, Numbered, NEW g, World(g), NEW fs, Table(fs, g), NEW e, IsEntry(e, g), e.id \in Items,
         e.path = Doc => Current(e), Aged(fs), Agree(files, fs)
  PROVE  Aged(Upsert(fs, tombs, e))
  <1> DEFINE gs == Upsert(fs, tombs, e)
  <1>1. Spares(fs, gs, tombs, {e})
    BY UpsertSpares
  <1>2. \A k \in DOMAIN fs \cap DOMAIN gs :
          gs[k].gen = fs[k].gen + 1 \/ (gs[k].gen = fs[k].gen /\ gs[k].etag = fs[k].etag)
    <2>1. \A k \in DOMAIN fs : DOMAIN fs[k] = RowFields
      BY DEF Table, IsRow
    <2> QED
      BY <2>1, UpsertGen
  <1> HIDE DEF gs
  <1> SUFFICES ASSUME NEW k \in DocRows, Live(k)
               PROVE  /\ There(k) => k \in DOMAIN gs
                      /\ k \in DOMAIN gs =>
                           /\ gs[k].gen \in Nat
                           /\ \/ gs[k].gen > files[k].gen
                              \/ gs[k].gen = files[k].gen /\ gs[k].etag = files[k].etag
    BY DEF Aged, gs
  <1>3. /\ k \in DOMAIN files /\ files[k].path = Doc /\ files[k].gen \in Nat
        /\ k \in Items => files[k].cloud = k /\ k # None
    BY DocRow2 DEF Shape, RowShape, Numbered, CloudShape
  <1>4. ASSUME There(k) PROVE k \in DOMAIN gs
    <2>1. k \in DOMAIN fs /\ files[k].cloud \in ItemsAt(Doc)
      BY <1>3, <1>4 DEF Aged, There, ItemsAt, Shape, RowShape
    <2>2. fs[k].path = Doc /\ fs[k].cloud = files[k].cloud
      BY <1>3, <2>1 DEF Agree
    <2> QED
      BY <1>1, <2>1, <2>2 DEF Spares, Current
  <1>5. ASSUME k \in DOMAIN gs
        PROVE  /\ gs[k].gen \in Nat
               /\ \/ gs[k].gen > files[k].gen
                  \/ gs[k].gen = files[k].gen /\ gs[k].etag = files[k].etag
    <2>1. CASE k \in DOMAIN fs
      <3>1. /\ fs[k].gen \in Nat
            /\ fs[k].gen > files[k].gen \/ (fs[k].gen = files[k].gen /\ fs[k].etag = files[k].etag)
        BY <2>1 DEF Aged
      <3>2. gs[k].gen = fs[k].gen + 1 \/ (gs[k].gen = fs[k].gen /\ gs[k].etag = fs[k].etag)
        BY <1>2, <1>5, <2>1
      <3> QED
        BY <1>3, <3>1, <3>2
    <2>2. CASE k \notin DOMAIN fs
      <3>1. k = e.id
        BY <1>1, <1>5, <2>2 DEF Spares
      <3>2. files[k].cloud = None
        BY <2>2 DEF Aged, Live
      <3> QED
        BY <1>3, <3>1, <3>2
    <2> QED
      BY <2>1, <2>2
  <1> QED
    BY <1>4, <1>5

LEMMA SameAged ==
  ASSUME Numbered
  PROVE  Aged(files) /\ Agree(files, files)
  BY DEF Aged, Agree, Numbered, DocRows, RowAt

\* By induction on the number of entries, as ImportedSpares.
LEMMA ImportedAges ==
  ASSUME Shape, Numbered, NEW g, NEW S, World(g), IsFiniteSet(S), Table(files, g),
         \A e \in S : IsEntry(e, g) /\ e.id \in Items /\ (e.path = Doc => Current(e))
  PROVE  Aged(Imported(S)) /\ Agree(files, Imported(S))
  <1> DEFINE J(fs) == Table(fs, g) /\ Rebinds(fs, g) /\ Aged(fs)
             f == CHOOSE f : IsFold(f, S, files, tombs)
             Bad == {n \in Nat : \E s \in SUBSET S : Cardinality(s) = n /\ ~J(f[s])}
  <1>1. IsFold(f, S, files, tombs)
    BY FoldExists
  <1>2. \A s \in SUBSET S : f[s] = Round(f, s, files, tombs)
    BY <1>1 DEF IsFold
  <1> HIDE DEF f
  <1>3. ASSUME NEW fs, NEW e \in S, J(fs) PROVE J(Upsert(fs, tombs, e))
    <2> DEFINE gs == Upsert(fs, tombs, e)
    <2>1. Table(gs, g) /\ Agree(files, fs)
      BY <1>3, UpsertAgrees, AgreeHere
    <2>2. /\ Follows(fs, gs, tombs, task) /\ DOMAIN gs \subseteq DOMAIN fs \cup {e.id}
          /\ e.id \in ItemsIn(g)
      BY <1>3, UpsertFollows DEF IsEntry
    <2>3. Aged(gs)
      BY <1>3, <2>1, UpsertAges
    <2> HIDE DEF gs
    <2>4. Rebinds(gs, g)
      BY <1>3, <2>2 DEF Rebinds, Follows
    <2> QED
      BY <2>1, <2>3, <2>4 DEF gs
  <1>4. J(files)
    BY SameAged DEF Rebinds
  <1> HIDE DEF J
  <1>5. ASSUME Bad # {} PROVE FALSE
    <2>1. PICK n \in Bad : \A m \in Bad : n <= m
      BY <1>5, Least
    <2>2. PICK s \in SUBSET S : Cardinality(s) = n /\ ~J(f[s])
      BY <2>1
    <2>3. s # {}
      BY <1>2, <1>4, <2>2 DEF Round
    <2> DEFINE e == CHOOSE x \in s : TRUE
    <2>4. e \in s /\ e \in S
      BY <2>3
    <2>5. f[s] = Upsert(f[s \ {e}], tombs, e)
      BY <1>2, <2>3 DEF Round
    <2> HIDE DEF e
    <2>6. s \ {e} \in SUBSET S /\ Cardinality(s \ {e}) = n - 1 /\ n - 1 \in Nat /\ n \in Nat
      <3>1. IsFiniteSet(s) /\ IsFiniteSet(s \ {e})
        BY FS_Subset, FS_RemoveElement
      <3>2. Cardinality(s \ {e}) = n - 1
        BY <2>2, <2>4, <3>1, FS_RemoveElement
      <3>3. n \in Nat /\ Cardinality(s \ {e}) \in Nat
        BY <2>2, <3>1, FS_CardinalityType
      <3> QED
        BY <3>2, <3>3
    <2>7. J(f[s \ {e}])
      <3>1. n - 1 \notin Bad
        BY <2>1, <2>6
      <3> QED
        BY <2>6, <3>1
    <2> QED
      BY <1>3, <2>2, <2>4, <2>5, <2>7
  <1>6. J(f[S])
    <2>1. Cardinality(S) \in Nat
      BY FS_CardinalityType
    <2> QED
      BY <1>5, <2>1
  <1>7. J(Imported(S))
    BY <1>6, Unfold DEF f
  <1>8. Table(Imported(S), g) /\ Rebinds(Imported(S), g) /\ Aged(Imported(S))
    BY <1>7 DEF J
  <1> QED
    BY <1>8, AgreeHere

-----------------------------------------------------------------------------
(* Imports                                                                 *)

\* The table an import starts from: files, or files with one row without local
\* bytes marked online.
Loosened(fs) ==
  /\ DOMAIN fs = DOMAIN files
  /\ \A k \in DOMAIN files :
       \/ fs[k] = files[k]
       \/ /\ files[k].state \notin Protected /\ fs[k].state = "online"
          /\ fs[k].path = files[k].path /\ fs[k].cache = files[k].cache
          /\ fs[k].cloud = files[k].cloud /\ fs[k].etag = files[k].etag /\ fs[k].up = files[k].up

\* Entries that tell of items what is so, and of the item at the path if of any there.
Heeded(S) ==
  \A e \in S : IsVersion(e) /\ Fit(e) /\ Named(e) /\ (e.path = Doc => Current(e))

\* A row of a copy that gets the bytes of a file after the import.
Given(k, gs) ==
  /\ files'[k].path = gs[k].path /\ files'[k].path # Doc
  /\ (RowFits(k))' /\ (CopyAt(k))' /\ (LentAt(k))'

LEMMA LooseRow ==
  ASSUME NEW fs, Loosened(fs), NEW gs, NEW k \in DOMAIN gs, k \in DOMAIN fs, Like(gs[k], fs[k])
  PROVE  /\ k \in DOMAIN files /\ gs[k].path = files[k].path /\ gs[k].cache = files[k].cache
         /\ gs[k].cloud = files[k].cloud /\ gs[k].etag = files[k].etag /\ gs[k].up = files[k].up
         /\ gs[k].state = files[k].state \/ gs[k].state = "online"
  BY DEF Loosened, Like

\* No row of a live item at the path goes.
LEMMA LiveRowStays ==
  ASSUME Shape, NEW fs, NEW gs, NEW S, Loosened(fs), Spares(fs, gs, tombs, S), Heeded(S),
         NEW k \in DOMAIN files, files[k].path = Doc, files[k].cloud \in DOMAIN cloud
  PROVE  k \in DOMAIN gs
  <1>1. files[k].cloud \in ItemsAt(Doc)
    BY DEF ItemsAt, Shape, RowShape
  <1>2. k \in DOMAIN fs /\ fs[k].path = Doc /\ fs[k].cloud = files[k].cloud
    BY DEF Loosened
  <1> SUFFICES ASSUME k \notin DOMAIN gs PROVE FALSE
    OBVIOUS
  <1>3. PICK e \in S : fs[k].path = e.path /\ fs[k].cloud # e.id
    BY <1>2 DEF Spares
  <1> QED
    BY <1>1, <1>2, <1>3 DEF Heeded, Current

LEMMA ImportMatch ==
  ASSUME Shape, Shape', Numbered, Numbered', Orderly', Working, Faithful, Matched,
         NEW fs, NEW gs, NEW S, Loosened(fs), Spares(fs, gs, tombs, S), Aged(gs), Agree(files, gs), Heeded(S),
         DOMAIN files' = DOMAIN gs, \A k \in DOMAIN gs : files'[k] = gs[k] \/ Given(k, gs),
         UNCHANGED <<tombs, disk, cloud, made, fuse, writes, discarded>>, NoCommits,
         \A k \in DOMAIN task' :
           (k \in DOMAIN task /\ task'[k] = task[k]) \/ ((RunFits(k))' /\ (RunAt(k))'),
         Told'
  PROVE  Matched'
  <1>1. Moves /\ Rises /\ CopyBytes
    <2>1. Moves
      BY StillMoves DEF Faithful
    <2> QED
      BY <2>1 DEF Rises, CopyBytes
  <1>2. ASSUME NEW k \in DOMAIN gs
        PROVE  \/ /\ k \in DOMAIN files /\ gs[k].path = files[k].path /\ gs[k].cache = files[k].cache
                  /\ gs[k].cloud = files[k].cloud /\ gs[k].etag = files[k].etag /\ gs[k].up = files[k].up
                  /\ gs[k].state = files[k].state \/ gs[k].state = "online"
               \/ \E e \in S : /\ Admits(tombs, e) /\ Imports(k, gs[k], e) /\ (k \notin DOMAIN files => k = e.id)
                               /\ IsVersion(e) /\ Fit(e) /\ Named(e)
    <2>1. CASE k \in DOMAIN fs /\ Like(gs[k], fs[k])
      BY <2>1, LooseRow
    <2>2. CASE ~(k \in DOMAIN fs /\ Like(gs[k], fs[k]))
      <3>1. PICK e \in S : Admits(tombs, e) /\ Imports(k, gs[k], e) /\ (k \notin DOMAIN fs => k = e.id)
        BY <2>2 DEF Spares
      <3>2. DOMAIN fs = DOMAIN files
        BY DEF Loosened
      <3> QED
        BY <3>1, <3>2 DEF Heeded
    <2> QED
      BY <2>1, <2>2
  <1>3. \A k \in DOMAIN files : files[k].state \in Protected => k \in DOMAIN gs /\ gs[k] = files[k]
    BY DEF Spares, Loosened
  <1>4. \A k \in DOMAIN gs : files'[k] = gs[k] \/ (files'[k].path = gs[k].path /\ files'[k].path # Doc)
    BY DEF Given
  <1>5. ASSUME NEW k \in DOMAIN files' PROVE RowKept(k) \/ (RowFits(k))'
    <2>1. CASE files'[k] = gs[k]
      <3>1. CASE /\ k \in DOMAIN files /\ gs[k].cloud = files[k].cloud /\ gs[k].etag = files[k].etag
                 /\ gs[k].state = files[k].state \/ gs[k].state = "online"
        BY <2>1, <3>1 DEF RowKept
      <3>2. ASSUME NEW e \in S, Imports(k, gs[k], e), IsVersion(e), Fit(e) PROVE (RowFits(k))'
        BY <2>1, <3>2 DEF Imports, IsVersion, Fit, RowFits, There
      <3> QED
        BY <1>2, <3>1, <3>2
    <2>2. CASE Given(k, gs)
      BY <2>2 DEF Given
    <2> QED
      BY <2>1, <2>2
  <1>6. ASSUME NEW k \in DOMAIN task' PROVE RunKept(k) \/ ((RunFits(k))' /\ (RunAt(k))')
    <2>1. CASE k \in DOMAIN task /\ task'[k] = task[k]
      <3>1. /\ RunningAt(k) /\ k \in Locals /\ k # None
            /\ k \in DOMAIN files => files[k].path = Doc
            /\ k \in DOMAIN files' => files'[k].path = Doc /\ files'[k] = gs[k] /\ k \in DOMAIN gs
        BY <1>4, <2>1, RowOfRun DEF Shape, TaskShape
      <3>2. ASSUME k \in DOMAIN files', files'[k].state = "conflict"
            PROVE  k \in DOMAIN files /\ files[k] = files'[k]
        <4>1. k \in DOMAIN files /\ gs[k].state = files[k].state
          BY <1>2, <3>1, <3>2 DEF Imports
        <4> QED
          BY <1>3, <3>1, <3>2, <4>1 DEF Protected
      <3>3. ASSUME k \in DOMAIN files', task[k].pc \in Sending
            PROVE  k \in DOMAIN files /\ files'[k].etag = files[k].etag
        <4>1. k \in DOMAIN files
          <5> SUFFICES ASSUME k \notin DOMAIN files PROVE FALSE
            OBVIOUS
          <5>1. LocalTomb(k)
            BY <3>1, <3>3 DEF RunningAt, Sending
          <5>2. PICK e \in S : Admits(tombs, e) /\ k = e.id
            BY <1>2, <3>1, <3>3
          <5> QED
            BY <5>1, <5>2 DEF Admits, IsPendingDelete, LocalTomb
        <4>2. CASE files[k].state \in Protected
          BY <1>3, <3>1, <3>3, <4>1, <4>2
        <4>3. CASE files[k].state \notin Protected
          <5>1. Window(k)
            BY <3>1, <3>3, <4>1, <4>3 DEF RunningAt, Sending
          <5>2. files'[k].cache # None
            BY <5>1 DEF Window, Truncating, Orderly, TruncateAlone, Shape, FuseShape
          <5> QED
            BY <1>2, <3>1, <3>3, <5>2 DEF Imports
        <4> QED
          BY <4>1, <4>2, <4>3
      <3> QED
        BY <2>1, <3>2, <3>3 DEF RunKept
    <2> QED
      BY <2>1
  <1>7. ASSUME NEW j \in CopyRows' PROVE CopyKept(j) \/ CopyNew(j) \/ ((CopyAt(j))' /\ (LentAt(j))')
    <2>1. j \in DOMAIN gs /\ j \in DOMAIN files' /\ files'[j].path # Doc
      BY DEF CopyRows, DocRows, RowAt
    <2>2. CASE files'[j] = gs[j]
      <3>1. CASE /\ j \in DOMAIN files /\ gs[j].path = files[j].path /\ gs[j].cache = files[j].cache
                 /\ gs[j].etag = files[j].etag
        BY <2>1, <2>2, <3>1 DEF CopyKept, CopyRows, DocRows, RowAt
      <3>2. ASSUME NEW e \in S, Imports(j, gs[j], e), IsVersion(e), Named(e) PROVE CopyNew(j)
        BY <2>1, <2>2, <3>2 DEF Imports, IsVersion, Named, CopyNew
      <3> QED
        BY <1>2, <2>1, <3>1, <3>2
    <2>3. CASE Given(j, gs)
      BY <2>3 DEF Given
    <2> QED
      BY <2>1, <2>2, <2>3
  <1>8. ASSUME NEW k \in DocRows'
        PROVE  /\ k \in DOMAIN gs /\ k \in DOMAIN files' /\ files'[k] = gs[k] /\ files'[k].path = Doc
               /\ k \in Locals' /\ files'[k].gen \in Nat
               /\ k \in DOMAIN files => k \in DocRows /\ files'[k].cloud = files[k].cloud
    <2>1. k \in DOMAIN files' /\ files'[k].path = Doc
      BY DEF DocRows, RowAt
    <2>2. k \in DOMAIN gs /\ files'[k] = gs[k]
      BY <1>4, <2>1
    <2>3. k \in DOMAIN files => k \in DocRows /\ files'[k].cloud = files[k].cloud
      BY <2>1, <2>2, DocRow2 DEF Agree
    <2>4. k \in Locals' /\ files'[k].gen \in Nat
      BY <2>1 DEF Shape, RowShape, Numbered
    <2> QED
      BY <2>1, <2>2, <2>3, <2>4
  <1>9. ASSUME NEW k \in DocRows', k \notin DOMAIN files
        PROVE  \E e \in S : /\ k = e.id /\ files'[k].cloud = k /\ files'[k].cache = None /\ k \in Items
                            /\ ~LocalTomb(k)
    <2>1. k \in DOMAIN gs /\ files'[k] = gs[k]
      BY <1>8
    <2>2. PICK e \in S : Admits(tombs, e) /\ Imports(k, gs[k], e) /\ k = e.id /\ IsVersion(e)
      BY <1>2, <1>9, <2>1
    <2> QED
      BY <2>1, <2>2 DEF Imports, IsVersion, Admits, IsPendingDelete, LocalTomb
  <1>10. ASSUME NEW k \in DOMAIN files, k \notin DOMAIN files', k \in DOMAIN cloud
         PROVE  files[k].path # Doc
    <2>1. files[k].cloud = k
      BY <1>10 DEF Shape, RowShape, CloudShape
    <2> QED
      BY <1>10, <2>1, LiveRowStays
  <1>11. ASSUME NEW k \in DocRows' PROVE (DocAt(k))'
    <2>1. /\ k \in DOMAIN gs /\ k \in DOMAIN files' /\ files'[k] = gs[k] /\ files'[k].gen \in Nat
          /\ k \in Locals'
          /\ k \in DOMAIN files => k \in DocRows /\ files'[k].cloud = files[k].cloud
      BY <1>8
    <2>2. (Truncating(k))' <=> Truncating(k)
      BY DEF Truncating
    <2>3. \A n \in Nat : <<k, n>> # None
      BY <2>1 DEF Numbered
    <2>4. files'[k].state = "cached" /\ files'[k].cache # None /\ ~(Truncating(k))' =>
            files'[k].etag # None /\ disk'[files'[k].cache] = files'[k].etag.data
      <3>1. CASE /\ k \in DOMAIN files /\ gs[k].cache = files[k].cache /\ gs[k].etag = files[k].etag
                 /\ gs[k].state = files[k].state \/ gs[k].state = "online"
        <4>1. DocAt(k)
          BY <2>1, <3>1 DEF Matched
        <4> QED
          BY <2>1, <2>2, <3>1, <4>1 DEF DocAt
      <3>2. CASE gs[k].cache = None
        BY <2>1, <3>2
      <3> QED
        BY <1>2, <2>1, <3>1, <3>2 DEF Imports
    <2>5. ASSUME (Live(k))', NEW n \in Nat, files'[k].cache = <<k, n>> \/ (Truncating(k) /\ fuse.c = <<k, n>>)
          PROVE  n <= files'[k].gen + 1
      <3>1. CASE k \in DOMAIN files
        <4>1. k \in DocRows /\ DocAt(k) /\ Live(k)
          BY <2>1, <2>5, <3>1 DEF Matched, Live, There
        <4>2. files[k].gen \in Nat /\ gs[k].gen \in Nat /\ gs[k].gen >= files[k].gen
          BY <2>1, <3>1, <4>1 DEF Aged, Numbered
        <4>3. files'[k].cache = <<k, n>> => files[k].cache = <<k, n>>
          BY <1>2, <2>1, <2>3 DEF Imports
        <4>4. n <= files[k].gen + 1
          BY <2>5, <4>1, <4>3 DEF DocAt
        <4> QED
          BY <2>1, <4>2, <4>4
      <3>2. CASE k \notin DOMAIN files
        <4>1. files'[k].cloud = k /\ files'[k].cache = None /\ k \in Items
          BY <1>9, <3>2
        <4>2. k \in DOMAIN cloud
          BY <2>5, <4>1 DEF Live, There, Shape, CloudShape
        <4>3. ~Truncating(k)
          BY <3>2, <4>2 DEF Matched, Cutting, Truncating
        <4> QED
          BY <2>3, <2>5, <4>1, <4>3
      <3> QED
        BY <3>1, <3>2
    <2> QED
      BY <2>2, <2>4, <2>5 DEF DocAt
  <1>12. ASSUME NEW k \in DocRows', k \in DocRows PROVE SteadyAt(k)
    <2>1. k \in DOMAIN gs /\ files'[k] = gs[k] /\ files'[k].cloud = files[k].cloud
      BY <1>8, <1>12 DEF DocRows, RowAt
    <2>2. There(k) => \/ files'[k].gen > files[k].gen
                      \/ files'[k].gen = files[k].gen /\ files'[k].etag = files[k].etag
      BY <1>12, <2>1 DEF Aged, Live
    <2>3. (At(k, "commit"))' => At(k, "commit")
      BY DEF NoCommits, At
    <2>4. files'[k].cache # None => files'[k].cache = files[k].cache /\ files'[k].up = files[k].up
      BY <1>2, <2>1 DEF Imports
    <2> QED
      BY <2>1, <2>2, <2>3, <2>4 DEF SteadyAt
  <1>13. Steady
    <2>1. ASSUME NEW k \in DocRows', k \notin DocRows PROVE NewAt(k)
      <3>1. k \notin DOMAIN files
        BY <1>8, <2>1
      <3> QED
        BY <1>9, <3>1 DEF NewAt
    <2>2. \A k \in DOMAIN cloud' :
            k \in DOMAIN files \ DOMAIN files' /\ cloud'[k].path = Doc => (LocalTomb(k))'
      <3> SUFFICES ASSUME NEW k \in DOMAIN cloud, k \in DOMAIN files \ DOMAIN files', cloud[k].path = Doc
                   PROVE  FALSE
        OBVIOUS
      <3>1. files[k].cloud = k
        BY DEF Shape, RowShape, CloudShape
      <3> QED
        BY <1>10, <3>1 DEF Shape, RowShape
    <2>3. \A k : LocalTomb(k) => (LocalTomb(k))'
      BY DEF LocalTomb
    <2> QED
      BY <1>12, <2>1, <2>2, <2>3 DEF Steady
  <1>14. Cutting'
    <2>1. fuse # None => fuse.k \in DOMAIN files \/ fuse.k \notin DOMAIN cloud
      BY DEF Matched, Cutting
    <2>2. fuse # None /\ fuse.k \in DOMAIN files => files[fuse.k].path = Doc
      BY DEF Shape, FuseShape
    <2>3. fuse # None => fuse.k \in DOMAIN files' \/ fuse.k \notin DOMAIN cloud
      BY <1>10, <2>1, <2>2
    <2> QED
      BY <2>3 DEF Cutting
  <1> QED
    BY <1>1, <1>5, <1>6, <1>7, <1>11, <1>13, <1>14, Matching

-----------------------------------------------------------------------------
(* Steps that import                                                       *)

LEMMA SameLoosened == Loosened(files)
  BY DEF Loosened

LEMMA ImportLatestMatch ==
  ASSUME IInv, Shape, Shape', Numbered, Numbered', Orderly, Orderly', Working, Faithful, Matched,
         NEW k, ImportLatest(k)
  PROVE  Matched'
  <1> DEFINE e == task[k].latest
  <1>1. /\ k \in DOMAIN task /\ task[k].pc = "import" /\ task' = Without(task, k)
        /\ files' = Upsert(files, tombs, e)
        /\ UNCHANGED <<tombs, disk, cloud, made, delta, handles, fuse, del, writes, discarded>>
    BY DEF ImportLatest, OnlyTask, NoRequest, At, Done
  <1>2. PICK g : Now(g)
    BY DEF IInv, Known
  <1>3. IsEntry(e, g) /\ World(g) /\ Table(files, g) /\ ItemsIn(g) = Items
    BY <1>1, <1>2, RunFacts, Worlds DEF IsTask
  <1>4. e # None
    BY <1>1 DEF Faithful, Answered, AnsweredAt
  <1>5. e.id \in Items /\ Current(e) /\ IsVersion(e)
    BY <1>1, <1>3, <1>4 DEF IsEntry, Orderly, EntriesCurrent, Numbered, Asking
  <1>6. Fit(e) /\ Named(e)
    BY <1>1, <1>4 DEF Matched, RunFits, RunAt, Asking
  <1>7. OnlyRun(k) /\ k \notin DOMAIN task'
    BY <1>1, RunMoves
  <1>8. Told'
    BY <1>1, SameTold DEF Matched
  <1> HIDE DEF e
  <1>9. Spares(files, files', tombs, {e})
    BY <1>1, <1>3, UpsertSpares
  <1>10. Agree(files, files')
    BY <1>1, <1>3, UpsertAgrees
  <1>11. Aged(files')
    <2>1. Aged(files) /\ Agree(files, files)
      BY SameAged
    <2> QED
      BY <1>1, <1>3, <1>5, <2>1, UpsertAges
  <1>12. Heeded({e})
    BY <1>5, <1>6 DEF Heeded
  <1>13. NoCommits
    BY <1>7, FewRuns
  <1> QED
    BY <1>1, <1>7, <1>8, <1>9, <1>10, <1>11, <1>12, <1>13, SameLoosened, ImportMatch DEF OnlyRun

LEMMA ImportEntriesMatch ==
  ASSUME IInv, Shape, Shape', Numbered, Numbered', Orderly, Orderly', Working, Faithful, Matched, ImportEntries
  PROVE  Matched'
  <1> DEFINE S == delta.entries
  <1>1. /\ delta # None /\ delta.pc = "deleted" /\ files' = Imported(S)
        /\ delta' = [delta EXCEPT !.pc = "link"] /\ DOMAIN delta = DeltaFields
        /\ UNCHANGED <<tombs, disk, cloud, made, handles, fuse, task, del, writes, discarded>>
    BY DEF ImportEntries, OnlyDelta, Shape, DeltaShape
  <1>2. PICK g : Now(g)
    BY DEF IInv, Known
  <1>3. /\ World(g) /\ Table(files, g) /\ IsFiniteSet(S) /\ \A e \in S : IsEntry(e, g)
        /\ ItemsIn(g) = Items
    BY <1>1, <1>2, Worlds DEF Feed
  <1>4. \A e \in S : e.id \in Items /\ Current(e) /\ IsVersion(e) /\ Fit(e) /\ Named(e)
    BY <1>1, <1>3 DEF IsEntry, Orderly, EntriesCurrent, Numbered, Matched, Told
  <1>5. Spares(files, files', tombs, S)
    BY <1>1, <1>3, ImportedSpares
  <1>6. Aged(files') /\ Agree(files, files')
    BY <1>1, <1>3, <1>4, ImportedAges
  <1>7. Told'
    <2>1. delta'.entries = delta.entries
      BY <1>1 DEF DeltaFields
    <2> QED
      BY <1>1, <2>1 DEF Matched, Told, Fit, Named
  <1>8. Heeded(S)
    BY <1>4 DEF Heeded
  <1> HIDE DEF S
  <1> QED
    BY <1>1, <1>5, <1>6, <1>7, <1>8, SameLoosened, ImportMatch DEF NoCommits

\* The row that an open finds out of date has no bytes.
LEMMA OutrunMatch ==
  ASSUME IInv, Shape, Shape', Numbered, Numbered', Orderly', Working, Faithful, Matched, NEW k, Outrun(k),
         files' = Upsert(OnlineRow(files, k), tombs, Entry(cloud, files[k].cloud)),
         UNCHANGED <<cloud, made, delta, del, writes>>
  PROVE  Matched'
  <1> DEFINE fs == OnlineRow(files, k)
             e == Entry(cloud, files[k].cloud)
  <1>1. /\ k \in DOMAIN files /\ k \in DocRows /\ DOMAIN files[k] = RowFields
        /\ files[k].state \in {"online", "cached"} /\ files[k].cloud \in DOMAIN cloud
        /\ UNCHANGED <<tombs, disk, handles, fuse, task, discarded>>
        /\ Spares(fs, files', tombs, {e})
    BY DEF Outrun, Shape, RowShape
  <1>2. /\ DOMAIN fs = DOMAIN files /\ \A j \in DOMAIN files \ {k} : fs[j] = files[j]
        /\ fs[k].state = "online" /\ fs[k].cache = None /\ fs[k].path = files[k].path
        /\ fs[k].cloud = files[k].cloud /\ fs[k].etag = files[k].etag /\ fs[k].up = files[k].up
        /\ fs[k].gen = files[k].gen
    BY <1>1 DEF OnlineRow, RowFields
  <1>3. PICK g : Now(g)
    BY DEF IInv, Known
  <1>4. IsEntry(e, g) /\ World(g) /\ Table(files, g) /\ ItemsIn(g) = Items
    BY <1>1, <1>3, Facts, DriveEntry, Worlds
  <1>5. Table(fs, g)
    <2>1. PICK up, gen : up = files[k].up /\ gen = files[k].gen /\ gen \in Nat
      BY <1>1 DEF Numbered
    <2>2. fs = [files EXCEPT ![k] = [files[k] EXCEPT !.state = "online", !.cache = None,
                                                     !.up = up, !.gen = gen]]
      BY <1>1, <2>1 DEF RowFields, OnlineRow
    <2>3. Kept(files, fs, g)
      BY <1>1, <1>4, <2>1, <2>2, DetachKept
    <2> QED
      BY <1>3, <1>4, <2>3, Facts, KeptCore DEF Core
  <1>6. e.id \in Items /\ Current(e) /\ IsVersion(e) /\ Fit(e) /\ Named(e)
    <2>1. files[k].cloud \in Items /\ cloud[files[k].cloud].path = Doc
      BY <1>1, DocRow2 DEF Shape, RowShape, CloudShape
    <2>2. e.id = files[k].cloud /\ e.path = Doc /\ e.etag = cloud[files[k].cloud].etag
      BY <2>1 DEF Entry
    <2>3. e.etag # None /\ e.etag.rev \in Nat
      BY <1>1, <2>2 DEF Numbered
    <2> QED
      BY <1>1, <2>1, <2>2, <2>3 DEF Current, ItemsAt, Faithful, Drives, IsVersion, Fit, Named
  <1> HIDE DEF e, fs
  <1>7. files[k].cache = None
    <2>1. RowsAt(k)
      BY <1>1 DEF Faithful, Rows
    <2> QED
      BY <1>1, <2>1 DEF Outrun, HasExistingCache, CacheExists, Working, Held
  <1>8. Loosened(fs)
    <2>1. fs[k].cache = files[k].cache
      BY <1>2, <1>7
    <2> QED
      BY <1>1, <1>2, <2>1 DEF Loosened, Protected
  <1>9. Aged(fs) /\ Agree(files, fs)
    <2>1. \A j \in DocRows : j \in DOMAIN files /\ files[j].gen \in Nat
      BY DEF DocRows, RowAt, Numbered
    <2> QED
      BY <1>2, <2>1 DEF Aged, Agree
  <1>10. Aged(files')
    BY <1>4, <1>5, <1>6, <1>9, UpsertAges DEF fs, e
  <1>11. Agree(fs, files')
    BY <1>4, <1>5, UpsertAgrees DEF fs, e
  <1>12. Agree(files, files')
    BY <1>2, <1>9, <1>11 DEF Agree
  <1>13. Heeded({e}) /\ NoCommits
    BY <1>1, <1>6 DEF Heeded, NoCommits
  <1>14. Told'
    BY SameTold DEF Matched
  <1> QED
    BY <1>1, <1>8, <1>10, <1>12, <1>13, <1>14, ImportMatch

LEMMA OpenOnlineMatch ==
  ASSUME IInv, Shape, Shape', Numbered, Numbered', Orderly', Working, Faithful, Matched, NEW h, OpenOnline(h),
         UNCHANGED <<cloud, made, delta, del, writes>>
  PROVE  Matched'
  <1>1. ASSUME NEW k, Outrun(k) PROVE Matched'
    <2>1. PICK i \in RowAt(files, Doc) :
            cloud[files[i].cloud].etag # files[i].etag =>
              files' = Upsert([files EXCEPT ![i].state = "online", ![i].cache = None],
                              tombs, Entry(cloud, files[i].cloud))
      BY DEF OpenOnline
    <2>2. k \in DocRows /\ cloud[files[k].cloud].etag # files[k].etag
      BY <1>1 DEF Outrun
    <2>3. i = k
      BY <2>2, DocRow2 DEF DocRows
    <2>4. files' = Upsert(OnlineRow(files, k), tombs, Entry(cloud, files[k].cloud))
      BY <2>1, <2>2, <2>3 DEF OnlineRow
    <2> QED
      BY <1>1, <2>4, OutrunMatch
  <1>2. ASSUME NEW k, NEW c, Downloads(h, k, c) PROVE Matched'
    BY <1>2, DownloadsMatch
  <1> QED
    BY <1>1, <1>2, OpenOnlineCases

\* The row that goes, and its item, have gone from the cloud.
LEMMA RemoveRowMatch ==
  ASSUME Shape, Shape', Numbered, Numbered', Faithful, Matched, RemoveRow
  PROVE  Matched'
  <1>1. /\ delta # None /\ delta.pc = "remove" /\ DOMAIN delta = DeltaFields
        /\ delta' = [delta EXCEPT !.pc = "deleted", !.row = None]
        /\ UNCHANGED <<tombs, disk, cloud, made, fuse, task, writes, discarded>>
    BY DEF RemoveRow, OnlyDelta, Shape, DeltaShape
  <1>2. /\ DOMAIN files' = DOMAIN files \ {delta.row}
        /\ \A k \in DOMAIN files' : files'[k] = files[k]
    BY DEF RemoveRow, Without
  <1>3. delta.row \notin DOMAIN cloud
    BY <1>1 DEF Faithful, Listed
  <1>4. Moves /\ Rises /\ CopyBytes
    <2>1. Moves
      BY <1>1, StillMoves DEF Faithful
    <2> QED
      BY <1>1, <2>1 DEF Rises, CopyBytes
  <1>5. \A k \in DocRows' : k \in DocRows /\ k \in DOMAIN files /\ files'[k] = files[k]
    BY <1>2 DEF DocRows, RowAt
  <1>6. Steady
    <2>1. \A k \in DocRows' : k \in DocRows /\ SteadyAt(k)
      BY <1>1, <1>5 DEF SteadyAt, At
    <2>2. \A k \in DOMAIN cloud' : k \notin DOMAIN files \ DOMAIN files'
      BY <1>1, <1>2, <1>3
    <2>3. \A k : LocalTomb(k) => (LocalTomb(k))'
      BY <1>1 DEF LocalTomb
    <2> QED
      BY <2>1, <2>2, <2>3 DEF Steady
  <1>7. \A k \in DOMAIN files' : RowKept(k)
    BY <1>2 DEF RowKept
  <1>8. \A k \in DOMAIN task' : RunKept(k)
    <2> SUFFICES ASSUME NEW k \in DOMAIN task' PROVE RunKept(k)
      OBVIOUS
    <2>1. k \in DOMAIN task /\ task'[k] = task[k]
      BY <1>1
    <2>2. k \in DOMAIN files' => k \in DOMAIN files /\ files'[k] = files[k]
      BY <1>2
    <2> QED
      BY <2>1, <2>2 DEF RunKept
  <1>9. \A j \in CopyRows' : CopyKept(j)
    BY <1>2 DEF CopyRows, DocRows, RowAt, CopyKept
  <1>10. ASSUME NEW k \in DocRows' PROVE (DocAt(k))'
    <2>1. DocKept(k) /\ DocAt(k)
      BY <1>1, <1>5, <1>10 DEF DocKept, Matched
    <2> QED
      BY <1>4, <2>1, DocStays
  <1>11. Cutting'
    BY <1>1, <1>2, <1>3, <1>4, CuttingStays DEF Matched
  <1>12. Told'
    <2>1. delta'.entries = delta.entries
      BY <1>1 DEF DeltaFields
    <2> QED
      BY <1>1, <2>1 DEF Matched, Told, Fit, Named
  <1> QED
    BY <1>4, <1>6, <1>7, <1>8, <1>9, <1>10, <1>11, <1>12, Matching

-----------------------------------------------------------------------------
(* The publication of a conflict copy                                      *)

\* The row in conflict, and what is stored of it.
Lends(k) ==
  /\ k \in DOMAIN task /\ DOMAIN task[k] = TaskFields /\ k \in DOMAIN files /\ k \in DocRows /\ k \in Locals
  /\ files[k].state = "conflict" /\ files[k].cloud = task[k].r.cloud /\ files[k].cloud # None
  /\ files[k].cache = task[k].r.cache /\ task[k].r.cache \in {k} \X Nat /\ task[k].r.cache \in DOMAIN disk
  /\ files[k].up = Claim(task[k].res.path, None, task[k].r.cache)
  /\ files[k].up.path \notin {None, Doc} /\ ~Truncating(k) /\ Unchanged(files, k, task[k].r)
  /\ task[k].res.path = CopyPath(Bytes(k)) /\ task[k].res.etag.data = Bytes(k)
  /\ task[k].res.path # Doc /\ IsVersion(task[k].res) /\ Fit(task[k].res) /\ Named(task[k].res)
  /\ task[k].res.id # k
  /\ \A j \in DOMAIN files : files[j].cloud = task[k].res.id \/ j = task[k].res.id =>
       j = task[k].res.id /\ files[j].cloud = j /\ files[j].path = task[k].res.path

LEMMA PublishLends ==
  ASSUME IInv, Shape, Numbered, Orderly, Working, Faithful, Matched,
         NEW k \in DOMAIN task, task[k].pc = "publish", k \in DOMAIN files
  PROVE  Lends(k)
  <1>1. /\ DOMAIN task[k] = TaskFields /\ k \in DocRows /\ k \in Locals /\ files[k].path = Doc
        /\ files[k].cloud = task[k].r.cloud /\ task[k].r.cache \in {k} \X Nat
        /\ task[k].r.cache \in DOMAIN disk /\ task[k].p \notin {None, Doc} /\ task[k].res.path # Doc
        /\ task[k].r.path = Doc /\ DOMAIN files[k].up = ClaimFields
    BY DocRow2 DEF Shape, TaskShape, RowShape, Copying
  <1>2. files[k].cache = task[k].r.cache /\ files[k].up.path = task[k].p
    BY RowOfRun DEF RunningAt, Copying
  <1>3. files[k].state = "conflict" /\ ~Truncating(k)
    BY <1>1, <1>2 DEF Orderly, CopiesUndisturbed
  <1>4. /\ task[k].r.cloud # None /\ task[k].p = CopyPath(Bytes(k))
        /\ task[k].res.path = task[k].p /\ task[k].res.etag.data = Bytes(k)
    BY DEF Faithful, Requests, RequestAt, Answered, AnsweredAt, Copying, Storing
  <1>5. files[k].up = Claim(task[k].res.path, None, task[k].r.cache)
    <2>1. RowsAt(k)
      BY <1>1 DEF Faithful, Rows
    <2> QED
      BY <1>1, <1>2, <1>4, <2>1 DEF RowsAt, Bytes
  <1>6. Unchanged(files, k, task[k].r)
    BY <1>3 DEF Matched, RunAt, Copying
  <1>7. IsVersion(task[k].res) /\ Fit(task[k].res)
    BY DEF Numbered, Matched, RunFits, Storing
  <1>8. Named(task[k].res)
    BY <1>4 DEF Named
  <1>9. PICK g : Now(g)
    BY DEF IInv, Known
  <1>10. /\ World(g) /\ IsEntry(task[k].res, g) /\ ItemsIn(g) = Items
         /\ \A j \in DOMAIN files : IsRow(j, files[j], g)
    BY <1>9, RunFacts, Worlds DEF IsTask, Copying, Table
  <1>11. task[k].res.id # k
    BY <1>1, <1>10 DEF IsEntry, IsRow
  <1>12. ASSUME NEW j \in DOMAIN files, files[j].cloud = task[k].res.id \/ j = task[k].res.id
         PROVE  j = task[k].res.id /\ files[j].cloud = j /\ files[j].path = task[k].res.path
    <2>1. files[j].cloud = task[k].res.id /\ task[k].res.id \in Items /\ task[k].res.id # None
      BY <1>10, <1>12, NoneNowhere DEF IsRow, IsEntry
    <2>2. files[j].path = task[k].res.path
      BY <1>10, <2>1 DEF IsRow, IsEntry
    <2>3. j \in CopyRows
      BY <1>1, <2>2 DEF CopyRows, DocRows, RowAt
    <2> QED
      BY <2>1, <2>2, <2>3 DEF Numbered
  <1> QED
    BY <1>1, <1>2, <1>3, <1>4, <1>5, <1>6, <1>7, <1>8, <1>11, <1>12 DEF Lends

\* The row of the copy has the bytes that the row in conflict lends it.
LEMMA CopyTakes ==
  ASSUME Shape, Shape', Numbered, Matched, NEW k, Lends(k), NEW j,
         UNCHANGED <<tombs, disk, cloud, made, fuse>>,
         files'[j].etag # None, files'[j].etag.data = Bytes(k), files'[j].path = task[k].res.path,
         files'[j].cache = task[k].r.cache,
         k \in DOMAIN files' => files'[k] = files[k], k \notin DOMAIN files' => task[k].r.cloud \notin DOMAIN cloud,
         k \in DOMAIN task' => task'[k].pc # "commit"
  PROVE  (CopyAt(j))' /\ (LentAt(j))'
  <1>1. Locals' = Locals
    BY DEF Locals, Items
  <1>2. (CopyAt(j))'
    <2>1. task[k].r.cache \in Locals \X Nat
      BY DEF Lends
    <2>2. files'[j].path = CopyPath(files'[j].etag.data)
      BY DEF Lends
    <2>3. disk'[files'[j].cache] = files'[j].etag.data
      BY DEF Bytes
    <2> QED
      BY <1>1, <2>1, <2>2, <2>3 DEF CopyAt
  <1>3. k \in DOMAIN cloud => files[k].cloud = k /\ cloud[k].path = Doc /\ k \in DOMAIN files'
    <2> SUFFICES ASSUME k \in DOMAIN cloud PROVE files[k].cloud = k /\ cloud[k].path = Doc /\ k \in DOMAIN files'
      OBVIOUS
    <2>1. files[k].cloud = k
      BY DEF Lends, Shape, RowShape, CloudShape
    <2>2. cloud[k].path = Doc
      BY <2>1, DocRow2 DEF Lends, Shape, RowShape
    <2> QED
      BY <2>1, <2>2 DEF Lends
  <1>4. ASSUME NEW n \in Nat, task[k].r.cache = <<k, n>>, k \in DocRows'
        PROVE  /\ files'[k].cloud # None
               /\ (There(k))' => \/ n = files'[k].gen + 1 /\ (Revised(k))' /\ ~(At(k, "commit"))'
                                 \/ n <= files'[k].gen
               /\ files'[k].cache = <<k, n>> => files'[k].up.path \notin {None, Doc}
    <2>1. k \in DOMAIN files' /\ files'[k] = files[k]
      BY <1>4 DEF DocRows, RowAt
    <2>2. ASSUME (There(k))' PROVE n <= files[k].gen + 1 /\ Revised(k) /\ files[k].gen \in Nat
      <3>1. There(k)
        BY <2>1, <2>2 DEF There
      <3>2. RowFits(k) /\ DocAt(k)
        BY DEF Matched, Lends
      <3>3. Revised(k) /\ files[k].gen \in Nat
        BY <3>1, <3>2 DEF RowFits, Lends, Numbered
      <3>4. n <= files[k].gen + 1
        BY <1>4, <3>1, <3>2 DEF DocAt, Live, Lends
      <3> QED
        BY <3>3, <3>4
    <2>3. ~(At(k, "commit"))'
      BY DEF At
    <2>4. (There(k))' => (Revised(k))'
      BY <2>1, <2>2 DEF Revised
    <2> QED
      BY <2>1, <2>2, <2>3, <2>4 DEF Lends
  <1>5. (LentAt(j))'
    <2> SUFFICES ASSUME NEW i \in Locals, NEW n \in Nat, files'[j].cache = <<i, n>>
                 PROVE  /\ i \in DOMAIN cloud' => cloud'[i].path = Doc /\ (i \in DOMAIN files' \/ (LocalTomb(i))')
                        /\ i \in DocRows' =>
                             /\ files'[i].cloud # None
                             /\ (There(i))' =>
                                  \/ n <= files'[i].gen
                                  \/ n = files'[i].gen + 1 /\ (Revised(i))' /\ ~(At(i, "commit"))'
                             /\ files'[i].cache = <<i, n>> => files'[i].up.path \notin {None, Doc}
      BY <1>1 DEF LentAt
    <2>1. i = k /\ task[k].r.cache = <<k, n>>
      BY DEF Lends
    <2> QED
      BY <1>3, <1>4, <2>1
  <1> QED
    BY <1>2, <1>5

LEMMA PublishUpsertMatch ==
  ASSUME IInv, Shape, Shape', Numbered, Numbered', Orderly, Orderly', Working, Faithful, Matched,
         NEW k, Lends(k), task[k].pc = "publish", task[k].latest # None,
         files' = MarkCached(Upsert(files, tombs, task[k].res), task[k].res.id, task[k].r.cache),
         task' = With(task, k, [task[k] EXCEPT !.pc = "detach"]),
         UNCHANGED <<tombs, disk, cloud, made, fuse, delta, writes, discarded>>
  PROVE  Matched'
  <1> SUFFICES ASSUME NEW e, NEW c, e = task[k].res, c = task[k].r.cache PROVE Matched'
    OBVIOUS
  <1> DEFINE gs == Upsert(files, tombs, e)
  <1>1. PICK g : Now(g)
    BY DEF IInv, Known
  <1>2. IsEntry(e, g) /\ World(g) /\ Table(files, g) /\ ItemsIn(g) = Items /\ k \in DOMAIN task
    BY <1>1, RunFacts, Worlds DEF IsTask, Copying, Lends
  <1>3. Heeded({e}) /\ e.id \in Items /\ e.path # Doc
    BY DEF Lends, Heeded, IsVersion
  <1>4. files' = MarkCached(gs, e.id, c)
    OBVIOUS
  <1>5. k \in DOMAIN files' /\ files'[k] = files[k]
    BY <1>1, <1>2, UpsertElsewhere DEF Lends, Protected
  <1>6. Aged(files) /\ Agree(files, files)
    BY SameAged
  <1>7. OnlyRun(k) /\ task'[k] = [task[k] EXCEPT !.pc = "detach"]
    BY RunMoves
  <1>8. Told'
    BY SameTold DEF Matched
  <1>9. e = task[k].res /\ c = task[k].r.cache
    OBVIOUS
  <1>10. Aged(gs)
    BY <1>2, <1>3, <1>6, UpsertAges
  <1>11. Agree(files, gs) /\ Table(gs, g)
    BY <1>2, UpsertAgrees
  <1>12. Spares(files, gs, tombs, {e})
    BY <1>2, UpsertSpares
  <1> HIDE DEF gs
  <1>13. /\ task'[k].pc = "detach" /\ task'[k].r = task[k].r /\ task'[k].res = task[k].res
         /\ task'[k].latest = task[k].latest
    BY <1>7 DEF TaskFields, Lends
  <1>14. /\ DOMAIN files' = DOMAIN gs /\ \A j \in DOMAIN gs \ {e.id} : files'[j] = gs[j]
         /\ e.id \in DOMAIN gs =>
              /\ DOMAIN gs[e.id] = RowFields
              /\ files'[e.id] = [gs[e.id] EXCEPT !.state = "cached", !.cache = c]
    BY <1>4, <1>11 DEF MarkCached, Table, IsRow
  <1>15. ASSUME e.id \in DOMAIN gs PROVE Given(e.id, gs)
    <2>1. /\ files'[e.id].path = gs[e.id].path /\ files'[e.id].etag = gs[e.id].etag
          /\ files'[e.id].cloud = gs[e.id].cloud /\ files'[e.id].state = "cached" /\ files'[e.id].cache = c
      BY <1>14, <1>15 DEF RowFields
    <2>2. /\ gs[e.id].path = e.path /\ gs[e.id].etag # None /\ gs[e.id].etag.data = Bytes(k)
          /\ gs[e.id].cloud \in DOMAIN cloud => gs[e.id].etag.rev <= cloud[gs[e.id].cloud].etag.rev
      <3>1. CASE e.id \in DOMAIN files /\ Like(gs[e.id], files[e.id])
        <4>1. files[e.id].path = e.path
          BY <1>9, <3>1 DEF Lends
        <4>2. e.id \in CopyRows
          BY <1>3, <3>1, <4>1 DEF CopyRows, DocRows, RowAt
        <4>3. CopyAt(e.id) /\ RowFits(e.id)
          BY <3>1, <4>2 DEF Matched
        <4>4. files[e.id].etag # None /\ CopyPath(files[e.id].etag.data) = CopyPath(Bytes(k))
          BY <1>9, <4>1, <4>3 DEF CopyAt, Lends
        <4>5. files[e.id].etag.data = Bytes(k)
          BY <4>4 DEF CopyPath
        <4> QED
          BY <3>1, <4>1, <4>3, <4>4, <4>5 DEF Like, RowFits, There
      <3>2. CASE Imports(e.id, gs[e.id], e)
        BY <1>9, <3>2 DEF Imports, Lends, IsVersion, Fit
      <3> QED
        BY <1>12, <1>15, <3>1, <3>2 DEF Spares
    <2>3. (RowFits(e.id))'
      BY <2>1, <2>2 DEF RowFits, There
    <2>4. (CopyAt(e.id))' /\ (LentAt(e.id))'
      <3>1. files'[e.id].etag # None /\ files'[e.id].etag.data = Bytes(k) /\ files'[e.id].path = e.path
        BY <2>1, <2>2
      <3>2. task'[k].pc # "commit"
        BY <1>13
      <3> QED
        BY <1>5, <1>9, <2>1, <3>1, <3>2, CopyTakes
    <2> QED
      BY <1>3, <2>1, <2>2, <2>3, <2>4 DEF Given
  <1>16. (RunFits(k))' /\ (RunAt(k))'
    <2>1. RunFits(k) /\ RunAt(k)
      BY <1>2 DEF Matched
    <2>2. (RunFits(k))'
      BY <1>13, <2>1 DEF RunFits, Storing, Asking, Fit
    <2>3. (RunAt(k))'
      <3>1. Unchanged(files, k, task[k].r)
        BY DEF Lends
      <3>2. Unchanged(files', k, task'[k].r)
        BY <1>5, <1>13, <3>1 DEF Unchanged
      <3> QED
        BY <1>13, <2>1, <3>2 DEF RunAt, Before, Sending, Asking
    <2> QED
      BY <2>2, <2>3
  <1>17. NoCommits
    BY <1>7, <1>13, FewRuns
  <1>18. \A j \in DOMAIN gs : files'[j] = gs[j] \/ Given(j, gs)
    BY <1>14, <1>15
  <1>19. \A j \in DOMAIN task' :
           (j \in DOMAIN task /\ task'[j] = task[j]) \/ ((RunFits(j))' /\ (RunAt(j))')
    BY <1>7, <1>16 DEF OnlyRun
  <1> QED
    BY <1>3, <1>8, <1>10, <1>11, <1>12, <1>14, <1>17, <1>18, <1>19, SameLoosened, ImportMatch

\* The copy's row without the bytes is an import like any other.
LEMMA PublishRowMatch ==
  ASSUME IInv, Shape, Shape', Numbered, Numbered', Orderly', Working, Faithful, Matched,
         NEW k, Lends(k), task[k].pc = "publish",
         files' = Upsert(files, tombs, task[k].res), task' = Without(task, k),
         UNCHANGED <<tombs, disk, cloud, made, fuse, delta, writes, discarded>>
  PROVE  Matched'
  <1> DEFINE e == task[k].res
  <1>1. PICK g : Now(g)
    BY DEF IInv, Known
  <1>2. IsEntry(e, g) /\ World(g) /\ Table(files, g) /\ ItemsIn(g) = Items
    BY <1>1, RunFacts, Worlds DEF IsTask, Copying, Lends
  <1>3. Heeded({e}) /\ e.id \in Items /\ e.path # Doc
    BY DEF Lends, Heeded, IsVersion
  <1>4. files' = Upsert(files, tombs, e)
    OBVIOUS
  <1>5. OnlyRun(k) /\ k \notin DOMAIN task'
    BY RunMoves
  <1>6. Told'
    BY SameTold DEF Matched
  <1> HIDE DEF e
  <1>7. Aged(files) /\ Agree(files, files)
    BY SameAged
  <1>8. Aged(files')
    BY <1>2, <1>3, <1>4, <1>7, UpsertAges
  <1>9. Agree(files, files') /\ Spares(files, files', tombs, {e})
    BY <1>2, <1>4, UpsertAgrees, UpsertSpares
  <1>10. NoCommits
    BY <1>5, FewRuns
  <1>11. \A j \in DOMAIN task' : j \in DOMAIN task /\ task'[j] = task[j]
    BY <1>5 DEF OnlyRun
  <1> QED
    BY <1>3, <1>6, <1>8, <1>9, <1>10, <1>11, SameLoosened, ImportMatch

LEMMA PublishMissingMatch ==
  ASSUME Shape, Shape', Numbered, Numbered', Faithful, Matched,
         NEW k, Lends(k), task[k].r.cloud \notin DOMAIN cloud,
         files' = CompleteMissing(files, k, task[k].r, task[k].res, task[k].r.cache),
         task' = Without(task, k),
         UNCHANGED <<tombs, disk, cloud, made, fuse, delta, writes, discarded>>
  PROVE  Matched'
  <1> SUFFICES ASSUME NEW e, NEW c, NEW j, e = task[k].res, c = task[k].r.cache, j = e.id
               PROVE  Matched'
    OBVIOUS
  <1>1. LocalId(files, e) = j
    BY DEF LocalId, Owners, Lends
  <1>2. files' = Without(With(files, j, CopyRow(files, e, c)), k)
    <2>1. files[k].path = Doc /\ files[k].cache = c
      BY DocRow2 DEF Lends
    <2>2. Unchanged(files, k, [task[k].r EXCEPT !.cache = c, !.path = files[k].path])
      <3>1. DOMAIN task[k].r = RowFields
        BY DEF Lends, Shape, TaskShape
      <3> QED
        BY <2>1, <3>1 DEF Lends, Unchanged, RowFields
    <2>3. files[k].state = "conflict" /\ files[k].up = Claim(e.path, None, c)
      BY DEF Lends
    <2> QED
      BY <1>1, <2>2, <2>3 DEF CompleteMissing, CopyRow
  <1>3. DOMAIN files' = (DOMAIN files \cup {j}) \ {k} /\ \A i \in DOMAIN files' \ {j} : files'[i] = files[i]
    BY <1>2 DEF With, Without
  <1>4. /\ j # k /\ j \in DOMAIN files' /\ files'[j].path = e.path /\ files'[j].etag = e.etag
        /\ files'[j].cloud = j /\ files'[j].cache = c /\ files'[j].state = "cached"
    <2>1. j # k
      BY DEF Lends
    <2>2. j \in DOMAIN files' /\ files'[j] = CopyRow(files, e, c)
      BY <1>2, <2>1 DEF With, Without
    <2>3. CASE j \in DOMAIN files
      <3>1. DOMAIN files[j] = RowFields /\ files[j].cloud = j /\ files[j].path = e.path
        BY <2>3 DEF Shape, RowShape, Lends
      <3> QED
        BY <1>1, <2>1, <2>2, <2>3, <3>1 DEF CopyRow, RowFields
    <2>4. CASE j \notin DOMAIN files
      BY <1>1, <2>1, <2>2, <2>4 DEF CopyRow, ImportedRow
    <2> QED
      BY <2>3, <2>4
  <1>5. Moves /\ Rises /\ CopyBytes
    <2>1. Moves
      BY StillMoves DEF Faithful
    <2> QED
      BY <2>1 DEF Rises, CopyBytes
  <1>6. DocRows' = {}
    <2> SUFFICES ASSUME NEW i \in DocRows' PROVE FALSE
      OBVIOUS
    <2>1. i \in DOMAIN files' /\ files'[i].path = Doc
      BY DEF DocRows, RowAt
    <2>2. i # j
      BY <1>4, <2>1 DEF Lends
    <2>3. i \in DocRows /\ i # k
      BY <1>3, <2>1, <2>2, DocRow2
    <2> QED
      BY <2>3, DocRow2 DEF Lends
  <1>7. k \notin DOMAIN cloud
    BY DEF Lends, Shape, RowShape, CloudShape
  <1>8. \A i \in DOMAIN files : i \in DOMAIN files' \/ i \notin DOMAIN cloud
    BY <1>3, <1>7
  <1>9. Steady
    <2>1. \A i : LocalTomb(i) => (LocalTomb(i))'
      BY DEF LocalTomb
    <2> QED
      BY <1>6, <1>8, <2>1 DEF Steady
  <1>10. ASSUME NEW i \in DOMAIN files' PROVE RowKept(i) \/ (RowFits(i))'
    <2>1. CASE i = j
      BY <1>4, <2>1 DEF RowFits, There, Lends, IsVersion, Fit
    <2>2. CASE i # j
      BY <1>3, <1>10, <2>2 DEF RowKept
    <2> QED
      BY <2>1, <2>2
  <1>11. ASSUME NEW i \in DOMAIN task' PROVE RunKept(i)
    <2>1. i \in DOMAIN task /\ task'[i] = task[i]
      BY <1>11 DEF Without
    <2>2. i \notin DOMAIN files'
      BY <1>6, <1>11, DocRow2 DEF Shape, TaskShape, DocRows, RowAt
    <2> QED
      BY <2>1, <2>2 DEF RunKept
  <1>12. ASSUME NEW i \in CopyRows' PROVE CopyKept(i) \/ ((CopyAt(i))' /\ (LentAt(i))')
    <2>1. CASE i = j
      <3>1. files'[i].etag # None /\ files'[i].etag.data = Bytes(k)
        BY <1>4, <2>1 DEF Lends, IsVersion
      <3>2. k \notin DOMAIN task' /\ k \notin DOMAIN files'
        BY <1>3 DEF Without
      <3> QED
        BY <1>4, <2>1, <3>1, <3>2, CopyTakes
    <2>2. CASE i # j
      <3>1. i \in DOMAIN files' /\ files'[i].path # Doc
        BY DEF CopyRows, DocRows, RowAt
      <3>2. i \in DOMAIN files /\ files'[i] = files[i]
        BY <1>3, <2>2, <3>1
      <3> QED
        BY <3>1, <3>2 DEF CopyKept, CopyRows, DocRows, RowAt
    <2> QED
      BY <2>1, <2>2
  <1>13. Told' /\ Cutting'
    BY <1>5, <1>8, SameTold, CuttingStays DEF Matched
  <1> QED
    BY <1>5, <1>6, <1>9, <1>10, <1>11, <1>12, <1>13, Matching

LEMMA PublishCopyMatch ==
  ASSUME IInv, Shape, Shape', Numbered, Numbered', Orderly, Orderly', Working, Faithful, Matched,
         NEW k, PublishCopy(k)
  PROVE  Matched'
  <1>1. /\ k \in DOMAIN task /\ task[k].pc = "publish"
        /\ UNCHANGED <<disk, handles, fuse, del, cloud, made, unseen, delta, writes, discarded>>
    BY DEF PublishCopy, OnlyTask, NoRequest, At
  <1>2. CASE k \notin DOMAIN files
    <2>1. Late(k)
      BY <1>1, <1>2, RunHasTomb DEF PublishCopy, Late, Done
    <2> QED
      BY <1>1, <2>1, LateMatch
  <1>3. CASE k \in DOMAIN files
    <2>1. DeletesOf(tombs, k) = {} /\ tombs' = tombs
      <3>1. DeletesOf(tombs, k) = {}
        BY <1>1, <1>3, RunHasTomb
      <3> QED
        BY <1>3, <3>1 DEF PublishCopy
    <2>2. Lends(k)
      BY <1>1, <1>3, PublishLends
    <2>3. CASE task[k].latest # None
      <3>1. \/ /\ files' = MarkCached(Upsert(files, tombs, task[k].res), task[k].res.id, task[k].r.cache)
               /\ task' = With(task, k, [task[k] EXCEPT !.pc = "detach"])
            \/ files' = Upsert(files, tombs, task[k].res) /\ task' = Without(task, k)
        BY <1>3, <2>1, <2>3 DEF PublishCopy, Move, Goto, Done
      <3> QED
        BY <1>1, <2>1, <2>2, <2>3, <3>1, PublishUpsertMatch, PublishRowMatch
    <2>4. CASE task[k].latest = None
      <3>1. /\ \/ files' = files
               \/ files' = CompleteMissing(files, k, task[k].r, task[k].res, task[k].r.cache)
            /\ task' = Without(task, k)
        BY <1>3, <2>1, <2>4 DEF PublishCopy, Done
      <3>2. task[k].r.cloud \notin DOMAIN cloud
        BY <1>1, <2>4 DEF Faithful, Answered, AnsweredAt
      <3> QED
        BY <1>1, <2>1, <2>2, <3>1, <3>2, EndMatch, PublishMissingMatch
    <2> QED
      BY <2>3, <2>4
  <1> QED
    BY <1>2, <1>3

-----------------------------------------------------------------------------
(* Every step keeps the copies apart                                       *)

LEMMA FuseMatch ==
  ASSUME IInv, Shape, Shape', Numbered, Numbered', Orderly, Orderly', CopiesApart, CopiesApart',
         Working, Faithful, Matched, FuseNext
  PROVE  Matched'
  <1>1. ASSUME NEW h, OpenOnline(h) PROVE Matched'
    <2>1. UNCHANGED <<cloud, made, delta, del, writes>>
      BY <1>1 DEF OpenOnline, NoRequest, FuseOnly
    <2> QED
      BY <1>1, <2>1, OpenOnlineMatch
  <1>2. ASSUME NEW h \in Handles,
               OpenCached(h) \/ OpenOnline(h) \/ Create(h) \/ Write(h) \/ Release(h)
        PROVE  Matched'
    BY <1>1, <1>2, IdleMatch, CreateMatch, WriteMatch, ReleaseMatch
  <1>3. ASSUME NEW h \in Handles \cup {None}, TruncateBytes(h) PROVE Matched'
    BY <1>3, TruncateCases, TruncatesMatch
  <1>4. ASSUME OpenInvalid \/ TruncateMark \/ TruncateClaim \/ Unlink PROVE Matched'
    BY <1>4, OpenInvalidMatch, TruncateMarkMatch, TruncateClaimMatch, UnlinkMatch
  <1> QED
    BY <1>2, <1>3, <1>4 DEF FuseNext

LEMMA UploadMatch ==
  ASSUME IInv, Shape, Shape', Numbered, Numbered', Orderly, Orderly', Working, Faithful, Matched,
         NEW k, UploadStep(k)
  PROVE  Matched'
  <1>1. ASSUME StartUpload(k) \/ ClaimUpload(k) \/ PutFile(k) \/ CommitFile(k) \/ FailUpload(k)
        PROVE  Matched'
    BY <1>1, StartUploadMatch, ClaimUploadMatch, PutFileMatch, CommitFileMatch, FailUploadMatch
  <1>2. ASSUME RefuseUpload(k) \/ ClaimCopy(k) \/ PutCopy(k) \/ AskLatest(k) PROVE Matched'
    BY <1>2, RefuseUploadMatch, ClaimCopyMatch, PutCopyMatch, AskLatestMatch
  <1>3. ASSUME PublishCopy(k) \/ DetachOriginal(k) \/ ImportLatest(k) PROVE Matched'
    BY <1>3, PublishCopyMatch, DetachOriginalMatch, ImportLatestMatch
  <1> QED
    BY <1>1, <1>2, <1>3 DEF UploadStep

LEMMA DeletionMatch ==
  ASSUME Shape, Shape', Numbered, Numbered', Orderly, Working, Faithful, Matched, NEW d, DeleteStep(d)
  PROVE  Matched'
  <1>1. ASSUME StartDelete(d) \/ Replay(d) \/ RemoveRemote(d) PROVE Matched'
    BY <1>1, IdleMatch, DeletionRequestMatch
  <1>2. ASSUME DropCleanup(d) \/ RetireDelete(d) PROVE Matched'
    BY <1>2, DropCleanupMatch, RetireDeleteMatch
  <1> QED
    BY <1>1, <1>2 DEF DeleteStep

LEMMA RefreshMatch ==
  ASSUME IInv, Shape, Shape', Numbered, Numbered', Orderly, Orderly', Working, Faithful, Matched, DeltaStep
  PROVE  Matched'
  BY ReadingMatch, RemoveRowMatch, ImportEntriesMatch DEF DeltaStep

LEMMA StepMatched ==
  ASSUME IInv, Shape, Shape', Numbered, Numbered', Orderly, Orderly', CopiesApart, CopiesApart',
         Working, Faithful, Matched, [Next]_vars, [CutsEnd]_vars
  PROVE  Matched'
  <1>1. CASE UNCHANGED vars
    BY <1>1, IdleMatch
  <1>2. CASE Next /\ CutsEnd
    BY <1>2, FuseMatch, UploadMatch, DeletionMatch, RefreshMatch, RemoteMatch, CrashMatch DEF Next
  <1> QED
    BY <1>1, <1>2

LEMMA StartMatched ==
  ASSUME Init
  PROVE  Matched
  <1>1. /\ fuse = None /\ task = Empty /\ delta = None /\ DOMAIN Empty = {}
    BY DEF Init, Empty
  <1>2. \A k \in DOMAIN files :
          /\ k = CloudId(1) /\ files[k].path = Doc /\ files[k].state = "online" /\ files[k].cache = None
          /\ files[k].cloud = k /\ files[k].etag = cloud[k].etag /\ k \in DOMAIN cloud
          /\ cloud[k].etag # None /\ cloud[k].etag.rev \in Nat
    <2>1. Etag(1, {0}) # None /\ Etag(1, {0}).rev \in Nat
      <3>1. Etag(1, {0}) \in [rev : Nat, data : SUBSET Nat]
        BY DEF Etag
      <3> QED
        BY <3>1, NoneAssumption
    <2>2. \A k \in DOMAIN files :
            k = CloudId(1) /\ k \in DOMAIN cloud /\ files[k] = ImportedRow(Entry(cloud, k))
      BY <1>1 DEF Init, With
    <2>3. \A k \in DOMAIN files : cloud[k] = [path |-> Doc, etag |-> Etag(1, {0})]
      BY <1>1, <2>2 DEF Init, With
    <2> QED
      BY <2>1, <2>2, <2>3 DEF ImportedRow, Entry
  <1>3. CopyRows = {} /\ DocRows \subseteq DOMAIN files
    BY <1>2 DEF CopyRows, DocRows, RowAt
  <1>4. \A k \in DOMAIN files : RowFits(k)
    BY <1>2 DEF RowFits, There
  <1>5. ASSUME NEW k \in DocRows PROVE DocAt(k)
    <2>1. \A n \in Nat : <<k, n>> # None
      BY <1>2, <1>3, NoneAssumption DEF CloudId
    <2> QED
      BY <1>1, <1>2, <1>3, <2>1 DEF DocAt, Truncating
  <1> QED
    BY <1>1, <1>3, <1>4, <1>5 DEF Matched, Told, Cutting

\* In behaviours without the eleven races, rows, runs and the refresh know of versions
\* what Matched says, and the bytes of a copy are its own.
THEOREM MatchedInvariance == Spec /\ []Orderly /\ []CopiesApart /\ [][CutsEnd]_vars => []Matched
  <1>1. Init => Matched
    BY StartMatched
  <1>2. IInv /\ IInv' /\ Orderly /\ Orderly' /\ CopiesApart /\ CopiesApart' /\ Working /\ Faithful
          /\ Matched /\ [Next]_vars /\ [CutsEnd]_vars => Matched'
    BY Shaped, ShapedNext, Numbers, NumbersNext, StepMatched
  <1> QED
    BY <1>1, <1>2, Invariance, WorkingInvariance, FaithfulInvariance, PTL DEF Spec

\* For any handles and scenarios without one of the eleven races: a file that is clean
\* has the very bytes of the version its row names, in the row at the path and in every
\* conflict copy, so that no stale or foreign bytes are shown as the cloud's.
THEOREM CleanCopiesMatch ==
  Spec /\ []Orderly /\ []CopiesApart /\ [][CutsEnd]_vars => []CleanMatchesCloud
  <1>1. ASSUME Matched PROVE CleanMatchesCloud
    <2> SUFFICES ASSUME NEW k \in DOMAIN files, files[k].state = "cached", CacheExists(files[k]), fuse = None
                 PROVE  files[k].etag # None /\ disk[files[k].cache] = files[k].etag.data
      BY DEF CleanMatchesCloud
    <2>1. CASE k \in DocRows
      BY <1>1, <2>1 DEF Matched, DocAt, CacheExists, Truncating
    <2>2. CASE k \notin DocRows
      BY <1>1, <2>2 DEF Matched, CopyAt, CacheExists, CopyRows
    <2> QED
      BY <2>1, <2>2
  <1>2. Matched => CleanMatchesCloud
    BY <1>1
  <1> QED
    BY <1>2, MatchedInvariance, PTL
=============================================================================
