------------------------ MODULE FileSyncSafetyProofs ------------------------
(***************************************************************************)
(* The safety of FileSync's data, for any scenario and any number of       *)
(* handles: no acknowledged write is lost, nothing that a program still    *)
(* writes is uploaded, no request replaces a cloud content it has not seen *)
(* and no item disappears with contents nobody chose to delete.  The code  *)
(* does not exclude nine races in which one of these fails; Orderly states *)
(* them, and the theorems hold for the behaviours without them.  README.md *)
(* shows what happens in each of them.                                     *)
(***************************************************************************)
EXTENDS FileSyncProofs

-----------------------------------------------------------------------------
(* What is assumed of the programs, the other client and the crashes       *)

LocalTomb(d) == d \in DOMAIN tombs /\ tombs[d].local # None
DocRows == RowAt(files, Doc)

\* The dispatcher is inside a truncation of row k, and between its two statements.
Truncating(k) == fuse # None /\ fuse.k = k
Window(k) == Truncating(k) /\ fuse.at = "claim"

\* The other client's writes in an item.
Theirs(i) == cloud[i].etag.data \cap writes.theirs

\* No local bytes appear in a row between the two transactions in which the refresh
\* looks at it and removes it.
RemovalsHeed ==
  delta # None /\ delta.pc = "remove" /\ delta.row \in DOMAIN files
    => files[delta.row].state \notin Protected

\* No program writes or truncates a file whose conflict copy has begun.
CopiesUndisturbed ==
  \A k \in DOMAIN files :
    files[k].up.path \notin {None, Doc} => files[k].state = "conflict" /\ ~Truncating(k)

\* Two handles do not write one file, nor does a truncation meet a writer.
WriteAlone ==
  /\ \A g, h \in DOMAIN handles :
       g # h /\ handles[g].changed /\ handles[h].changed => handles[g].k # handles[h].k
  /\ \A h \in DOMAIN handles : handles[h].changed => ~Truncating(handles[h].k)

\* An upload does not fail while a program writes the file again.
FailuresHeed ==
  \A k \in DOMAIN task \cap DOMAIN files :
    task[k].pc = "failed" => files[k].state # "writing"

\* Nothing is imported into a row, and none is removed, while it is truncated.
TruncateAlone ==
  fuse # None =>
    /\ fuse.at = "claim" => fuse.k \in DOMAIN files /\ files[fuse.k].cache = fuse.c
    /\ fuse.k \in DOMAIN files /\ files[fuse.k].etag # None
         => files[fuse.k].etag.data \subseteq disk[fuse.c]

\* The other client does not create the file while this computer is about to send
\* one to the path.
SentByPath ==
  \/ \E k \in DOMAIN files : files[k].cloud = None
  \/ \E k \in DOMAIN task : task[k].pc = "put" /\ task[k].r.cloud = None
  \/ \E d \in DOMAIN del : del[d].pc = "replay"
PathIsOurs == SentByPath => \A i \in ItemsAt(Doc) : Theirs(i) = {}

\* The other client does not edit an item that is being deleted here.
DeletedAsSeen ==
  \A d \in DOMAIN tombs :
    tombs[d].cloud \in DOMAIN cloud => Theirs(tombs[d].cloud) \subseteq discarded

\* The process does not die inside the truncation of a file that has no item.
NewFilesWhole ==
  \A k \in DocRows : files[k].state = "cached" /\ files[k].cloud = None => Truncating(k)

\* No item replaces another one at its path between a listing and its import.
Current(e) == \A i \in ItemsAt(e.path) : i = e.id
EntriesCurrent ==
  /\ \A k \in DOMAIN task :
       task[k].pc \in {"publish", "detach", "import"} /\ task[k].latest # None
         => Current(task[k].latest)
  /\ delta # None /\ delta.pc \in {"deleted", "remove"} => \A e \in delta.entries : Current(e)

Orderly ==
  /\ RemovalsHeed /\ CopiesUndisturbed /\ WriteAlone /\ FailuresHeed /\ TruncateAlone
  /\ PathIsOurs /\ DeletedAsSeen /\ NewFilesWhole /\ EntriesCurrent

-----------------------------------------------------------------------------
(* What the type invariant says of the state, without the choice of homes  *)

ClaimFields == {"path", "target", "cache"}

RowShape ==
  /\ \A k \in DOMAIN files :
       LET r == files[k]
       IN /\ DOMAIN r = RowFields /\ DOMAIN r.up = ClaimFields
          /\ r.state \in States /\ (r.state \in Protected => r.path = Doc)
          /\ k \in Locals /\ r.cloud \in Items \cup {None} /\ (k \in Items => r.cloud = k)
          /\ r.path = Doc => Own(k, r.cache) /\ Unbound(r.up, r.cloud)
          /\ r.cloud \in DOMAIN cloud => cloud[r.cloud].path = r.path
  /\ \A j, k \in DocRows : j = k
  /\ \A j, k \in DOMAIN files : files[j].cloud # None /\ files[j].cloud = files[k].cloud => j = k

TaskShape ==
  \A k \in DOMAIN task :
    LET t == task[k]
    IN /\ k \notin DOMAIN del /\ k \in Locals /\ k # None
       /\ DOMAIN t = TaskFields /\ t.pc \in Before \cup Copying \cup {"claimcopy", "import"}
       /\ DOMAIN t.r = RowFields /\ t.r.path = Doc /\ t.r.cloud \in Items \cup {None}
       /\ t.r.cache # None /\ t.r.cache \in {k} \X Nat /\ t.r.cache \in DOMAIN disk
       /\ t.r.cloud \in DOMAIN cloud => cloud[t.r.cloud].path = Doc
       /\ k \in DOMAIN files => files[k].path = Doc /\ files[k].cloud = t.r.cloud
       /\ LocalTomb(k) => tombs[k].cloud = t.r.cloud
       /\ t.pc \in Before => t.p = Doc
       /\ t.pc \in Copying => t.p \notin {None, Doc}
       /\ t.pc = "commit" => t.res.path = Doc /\ (t.r.cloud # None => t.res.id = t.r.cloud)
       /\ t.pc \in {"copied", "publish", "detach"} => t.res.path # Doc
       /\ t.pc \in {"commit", "copied", "publish", "detach"} =>
            t.res.id \in Items /\ (t.res.id \in DOMAIN cloud => cloud[t.res.id].path = t.res.path)

TombShape ==
  \A d \in DOMAIN tombs :
    LET x == tombs[d]
    IN /\ DOMAIN x = TombFields /\ DOMAIN x.up = ClaimFields /\ d \in Locals
       /\ x.cloud \in Items \cup {None} /\ x.local \in {None, d}
       /\ d \in DOMAIN files => files[d].path # Doc
       /\ x.local # None =>
            Own(d, x.cache) /\ Own(d, x.up.cache) /\ Unbound(x.up, x.cloud) /\ d \notin DOMAIN files
       /\ x.local = None => x.cache = None /\ x.up.cache = None /\ x.up.path = None /\ x.cloud = d

DelShape ==
  \A d \in DOMAIN del :
    /\ d \in DOMAIN tombs /\ d \notin DOMAIN task /\ DOMAIN del[d] = {"pc", "lock"} /\ del[d].lock = d
    /\ del[d].pc = "replay" =>
         /\ LocalTomb(d) /\ tombs[d].up.path # None /\ tombs[d].up.target = None
         /\ tombs[d].up.cache \in DOMAIN disk

FuseShape ==
  /\ \A h \in DOMAIN handles :
       /\ DOMAIN handles[h] = HandleFields /\ handles[h].k \in Locals
       /\ handles[h].k \in DOMAIN files => files[handles[h].k].path = Doc
  /\ fuse # None =>
       /\ DOMAIN fuse = FuseFields /\ fuse.k \in Locals /\ fuse.c \in {fuse.k} \X Nat /\ fuse.c # None
       /\ fuse.k \in DOMAIN files => files[fuse.k].path = Doc

CloudShape ==
  /\ made \in Nat /\ CloudId(made + 1) \notin Locals /\ LocalIdentity(made + 1) \notin Locals
  /\ Items \subseteq Locals /\ None \notin Locals
  /\ writes.last \in Nat /\ DOMAIN writes = {"last", "theirs"}
  /\ DOMAIN cloud \subseteq Items
  /\ \A i \in DOMAIN cloud : DOMAIN cloud[i] = {"path", "etag"} /\ cloud[i].etag # None
                             /\ cloud[i].path \in Paths \ {None}
  /\ DOMAIN disk \subseteq Locals \X Nat /\ None \notin DOMAIN disk

DeltaShape ==
  delta # None => DOMAIN delta = DeltaFields /\ delta.since \subseteq Items
Shape ==
  RowShape /\ TaskShape /\ TombShape /\ DelShape /\ FuseShape /\ CloudShape /\ DeltaShape

LEMMA RowsShaped ==
  ASSUME NEW g, Now(g)
  PROVE  RowShape
  <1>1. World(g) /\ Table(files, g) /\ Drive(cloud, g)
    BY Facts
  <1>2. ItemsIn(g) = Items /\ IdsIn(g) = Locals
    BY DEF Now, ItemsIn, IdsIn, Items, Locals
  <1>3. Apart(files) /\ \A k \in DOMAIN files : k \in Locals /\ IsRow(k, files[k], g)
    BY <1>1, <1>2 DEF Table
  <1>4. \A k \in DOMAIN files : files[k].cloud \in DOMAIN cloud => cloud[files[k].cloud].path = files[k].path
    <2> TAKE k \in DOMAIN files
    <2> HAVE files[k].cloud \in DOMAIN cloud
    <2>1. IsRow(k, files[k], g) /\ files[k].cloud # None
      BY <1>1, <1>3, Identities, <1>2 DEF Drive
    <2> QED
      BY <1>1, <2>1 DEF IsRow, Drive
  <1>5. \A k \in DOMAIN files :
          /\ DOMAIN files[k] = RowFields /\ DOMAIN files[k].up = ClaimFields
          /\ files[k].state \in States /\ (files[k].state \in Protected => files[k].path = Doc)
          /\ files[k].cloud \in Items \cup {None} /\ (k \in Items => files[k].cloud = k)
          /\ files[k].path = Doc => Own(k, files[k].cache) /\ Unbound(files[k].up, files[k].cloud)
    BY <1>2, <1>3 DEF IsRow, ClaimsIn, ClaimFields
  <1>6. \A j, k \in DocRows : j = k
    BY <1>3 DEF Apart, DocRows, RowAt
  <1>7. \A j, k \in DOMAIN files : files[j].cloud # None /\ files[j].cloud = files[k].cloud => j = k
    BY <1>3 DEF Apart
  <1> QED
    BY <1>3, <1>4, <1>5, <1>6, <1>7 DEF RowShape

LEMMA Worlds ==
  ASSUME NEW g, Now(g)
  PROVE  /\ ItemsIn(g) = Items /\ IdsIn(g) = Locals /\ World(g)
         /\ Tombs(tombs, g) /\ Tasks(task, disk, g) /\ Linked(files, tombs, task, g)
         /\ Dels(del, tombs, task, disk) /\ Opens(handles, g) /\ Handler(fuse, g)
         /\ Drive(cloud, g) /\ Disk(disk, g) /\ Feed(delta, unseen, g) /\ Table(files, g)
         /\ Items \subseteq Locals /\ None \notin Locals
  <1>1. ItemsIn(g) = Items /\ IdsIn(g) = Locals
    BY DEF Now, ItemsIn, IdsIn, Items, Locals
  <1> QED
    BY <1>1, Facts, Identities DEF Core, Good

LEMMA TasksShaped ==
  ASSUME NEW g, Now(g), RowShape
  PROVE  TaskShape
  <1> SUFFICES ASSUME NEW k \in DOMAIN task PROVE TaskShape!(k)
    BY DEF TaskShape
  <1> DEFINE t == task[k]
  <1>1. /\ World(g) /\ ItemsIn(g) = Items /\ IdsIn(g) = Locals /\ k \in Locals
        /\ Drive(cloud, g) /\ DOMAIN cloud \subseteq Items /\ None \notin Items
    BY Worlds, Identities DEF Tasks, Drive
  <1>2. /\ IsTask(k, t, g) /\ IsRow(k, t.r, g) /\ t.r.cache \in DOMAIN disk /\ k # None
        /\ g.home[k] = Doc /\ Own(k, t.r.cache) /\ DOMAIN t = TaskFields
    BY RunFacts
  <1>3. k \notin DOMAIN del
    BY Worlds DEF Dels
  <1>4. /\ DOMAIN t.r = RowFields /\ t.r.path = Doc /\ t.r.cloud \in Items \cup {None}
        /\ t.r.cache # None /\ (t.r.cloud # None => g.home[t.r.cloud] = Doc)
    BY <1>1, <1>2 DEF IsTask, IsRow
  <1>5. t.r.cache \in {k} \X Nat
    BY <1>2, <1>4 DEF Own
  <1>6. \A i \in DOMAIN cloud : cloud[i].path = g.home[i]
    BY <1>1 DEF Drive
  <1>7. t.r.cloud \in DOMAIN cloud => cloud[t.r.cloud].path = Doc
    BY <1>1, <1>4, <1>6
  <1>8. k \in DOMAIN files => files[k].path = Doc /\ files[k].cloud = t.r.cloud
    BY <1>2, Worlds DEF Table, IsRow, Linked
  <1>9. LocalTomb(k) => tombs[k].cloud = t.r.cloud
    <2>1. \A d \in DOMAIN tombs : tombs[d].local \in {None, d}
      BY Worlds DEF Tombs, IsTomb
    <2> QED
      BY <2>1, Worlds DEF LocalTomb, Linked
  <1>10. /\ t.pc \in Before \cup Copying \cup {"claimcopy", "import"}
         /\ (t.pc \in Before => t.p = Doc) /\ (t.pc \in Copying => t.p \notin {None, Doc})
         /\ t.pc = "commit" => t.res.path = Doc /\ (t.r.cloud # None => t.res.id = t.r.cloud)
         /\ t.pc \in {"copied", "publish", "detach"} => t.res.path # Doc
         /\ t.pc \in {"commit", "copied", "publish", "detach"} => IsEntry(t.res, g)
    BY <1>2 DEF IsTask, Copying
  <1>11. t.pc \in {"commit", "copied", "publish", "detach"} =>
           t.res.id \in Items /\ (t.res.id \in DOMAIN cloud => cloud[t.res.id].path = t.res.path)
    BY <1>1, <1>6, <1>10 DEF IsEntry
  <1> QED
    BY <1>1, <1>2, <1>3, <1>4, <1>5, <1>7, <1>8, <1>9, <1>10, <1>11

LEMMA TombsShaped ==
  ASSUME NEW g, Now(g)
  PROVE  TombShape
  <1> SUFFICES ASSUME NEW d \in DOMAIN tombs PROVE TombShape!(d)
    BY DEF TombShape
  <1>1. IsTomb(d, tombs[d], g) /\ ItemsIn(g) = Items /\ IdsIn(g) = Locals /\ d \in Locals
    BY Worlds DEF Tombs
  <1>2. d \in DOMAIN files => files[d].path # Doc /\ g.home[d] # Doc
    BY Worlds DEF Linked, Table, IsRow
  <1> QED
    BY <1>1, <1>2 DEF IsTomb, ClaimsIn, ClaimFields

LEMMA OthersShaped ==
  ASSUME IInv, NEW g, Now(g)
  PROVE  DelShape /\ FuseShape /\ CloudShape /\ DeltaShape
  <1>1. TombShape
    BY TombsShaped
  <1>2. DelShape
    BY <1>1, Worlds DEF DelShape, Dels, TombShape, LocalTomb
  <1>3. \A k \in Locals : g.home[k] = Doc => (k \in DOMAIN files => files[k].path = Doc)
    BY Worlds DEF Table, IsRow
  <1>4. FuseShape
    <2>1. \A h \in DOMAIN handles :
            DOMAIN handles[h] = HandleFields /\ handles[h].k \in Locals /\ g.home[handles[h].k] = Doc
      BY Worlds DEF Opens
    <2>2. fuse # None => /\ DOMAIN fuse = FuseFields /\ fuse.k \in Locals /\ g.home[fuse.k] = Doc
                         /\ fuse.c \in {fuse.k} \X Nat
      BY Worlds DEF Handler
    <2>3. fuse # None => fuse.c \in IdsIn(g) \X Nat
      BY <2>2, Worlds
    <2>4. fuse # None => fuse.c # None
      BY <2>3, Worlds, Defined
    <2> QED
      BY <1>3, <2>1, <2>2, <2>4 DEF FuseShape
  <1>5. CloudShape
    <2>1. made \in Nat /\ writes.last \in Nat /\ g.made = made /\ g.last = writes.last
      BY DEF Now, World
    <2>2. CloudId(made + 1) \notin Locals /\ LocalIdentity(made + 1) \notin Locals
      BY <2>1, Worlds, NextIdentity
    <2>3. DOMAIN disk \subseteq Locals \X Nat /\ None \notin DOMAIN disk
      BY Worlds, Defined DEF Disk
    <2>4. /\ DOMAIN cloud \subseteq Items
          /\ \A i \in DOMAIN cloud : DOMAIN cloud[i] = {"path", "etag"} /\ cloud[i].etag # None
                                     /\ cloud[i].path \in Paths \ {None}
      <3>1. PathsIn(g) = Paths
        BY <2>1 DEF PathsIn, Paths, ContentsIn, Contents
      <3> QED
        BY <3>1, Worlds DEF Drive
    <2> QED
      BY <2>1, <2>2, <2>3, <2>4, Worlds DEF CloudShape, IInv
  <1>6. DeltaShape
    BY Worlds DEF DeltaShape, Feed
  <1> QED
    BY <1>2, <1>4, <1>5, <1>6

LEMMA Shaped ==
  ASSUME IInv
  PROVE  Shape
  <1>1. PICK g : Now(g)
    BY DEF IInv, Known
  <1> QED
    BY <1>1, RowsShaped, TasksShaped, TombsShaped, OthersShaped DEF Shape

LEMMA ShapedNext ==
  IInv' => Shape'
  <1>1. IInv => Shape
    BY Shaped
  <1> QED
    BY <1>1, PTL


-----------------------------------------------------------------------------
(* What an import does to rows it is not about, and to rows with local bytes *)

\* Rows with local bytes stay as they are.  Any other row stays or is an entry's,
\* without bytes; one that goes makes way for another item's entry at its path.
Admits(ds, e) == ~IsPendingDelete(ds, e.id, e.path)
Imports(k, r, e) ==
  /\ r.state = "online" /\ r.cache = None
  /\ r.cloud = e.id /\ r.etag = e.etag /\ r.path = e.path
Like(q, r) ==
  /\ q.path = r.path /\ q.state = r.state /\ q.cache = r.cache
  /\ q.cloud = r.cloud /\ q.etag = r.etag /\ q.up = r.up
Spares(fs, gs, ds, S) ==
  /\ \A k \in DOMAIN fs :
       fs[k].state \in Protected => k \in DOMAIN gs /\ gs[k] = fs[k]
  /\ \A k \in DOMAIN gs :
       \/ k \in DOMAIN fs /\ Like(gs[k], fs[k])
       \/ \E e \in S : Admits(ds, e) /\ Imports(k, gs[k], e) /\ (k \notin DOMAIN fs => k = e.id)
  /\ \A k \in DOMAIN fs \ DOMAIN gs :
       \E e \in S : Admits(ds, e) /\ fs[k].path = e.path /\ fs[k].cloud # e.id

LEMMA SparesAll ==
  ASSUME NEW fs, NEW ds, NEW S
  PROVE  Spares(fs, fs, ds, S)
  BY DEF Spares, Like

LEMMA UpsertSpares ==
  ASSUME NEW g, NEW fs, NEW ds, NEW S, NEW e \in S, World(g), Table(fs, g), IsEntry(e, g)
  PROVE  Spares(fs, Upsert(fs, ds, e), ds, S)
  <1> DEFINE k == LocalId(fs, e)
             gs == Upsert(fs, ds, e)
             D == DOMAIN fs \ (RowAt(fs, e.path) \ {k})
  <1>1. CASE Skipped(fs, ds, e)
    BY <1>1, SparesAll DEF Upsert
  <1>2. CASE ~Skipped(fs, ds, e)
    <2>1. /\ Admits(ds, e)
          /\ \A o \in RowAt(fs, e.path) : o # k => fs[o].state \notin Protected
          /\ k \in DOMAIN fs => fs[k].state \notin Protected
      BY <1>2 DEF Skipped, Admits
    <2>2. \/ Owners(fs, e.id) = {} /\ k = e.id
          \/ k \in Owners(fs, e.id)
      BY DEF LocalId
    <2>3. \A o \in DOMAIN fs : o # k => fs[o].cloud # e.id
      <3>1. CASE Owners(fs, e.id) = {}
        BY <3>1 DEF Owners
      <3>2. CASE k \in Owners(fs, e.id)
        BY <3>2, Identities DEF Owners, Table, Apart, IsEntry
      <3> QED
        BY <2>2, <3>1, <3>2
    <2>4. \A o \in DOMAIN fs \ (D \cup {k}) : fs[o].path = e.path /\ fs[o].cloud # e.id
      BY <2>3 DEF RowAt
    <2>5. ASSUME NEW r, gs = With([o \in D |-> fs[o]], k, r),
                 (k \in DOMAIN fs /\ Like(r, fs[k])) \/ Imports(k, r, e),
                 k \notin DOMAIN fs => k = e.id
          PROVE  Spares(fs, gs, ds, S)
      <3>1. /\ DOMAIN gs = D \cup {k} /\ gs[k] = r
            /\ \A o \in D : o # k => gs[o] = fs[o]
        BY <2>5 DEF With
      <3> HIDE DEF gs
      <3>2. \A o \in DOMAIN fs : fs[o].state \in Protected => o \in DOMAIN gs /\ gs[o] = fs[o]
        BY <2>1, <3>1
      <3>3. \A o \in DOMAIN gs :
              \/ o \in DOMAIN fs /\ Like(gs[o], fs[o])
              \/ \E x \in S : Admits(ds, x) /\ Imports(o, gs[o], x) /\ (o \notin DOMAIN fs => o = x.id)
        BY <2>1, <2>5, <3>1 DEF Like
      <3>4. \A o \in DOMAIN fs \ DOMAIN gs :
              \E x \in S : Admits(ds, x) /\ fs[o].path = x.path /\ fs[o].cloud # x.id
        BY <2>1, <2>4, <3>1
      <3> QED
        BY <3>2, <3>3, <3>4 DEF Spares
    <2>6. CASE k \notin DOMAIN fs
      <3>1. gs = With([o \in D |-> fs[o]], k, ImportedRow(e))
        BY <1>2, <2>6 DEF Upsert
      <3>2. Imports(k, ImportedRow(e), e) /\ k = e.id
        BY <2>2, <2>6 DEF Imports, ImportedRow, Owners
      <3> QED
        BY <2>5, <3>1, <3>2
    <2>7. CASE k \in DOMAIN fs
      <3> DEFINE r == fs[k]
                 moved == [r EXCEPT !.path = e.path, !.etag = e.etag, !.cloud = e.id]
                 x == IF r.etag = e.etag THEN moved
                      ELSE [moved EXCEPT !.cache = None, !.state = "online", !.gen = @ + 1]
      <3>1. gs = With([o \in D |-> fs[o]], k, x)
        BY <1>2, <2>7 DEF Upsert
      <3>2. DOMAIN r = RowFields /\ IsRow(k, r, g) /\ e.id # None /\ e.path = g.home[e.id]
        BY <2>7, Identities DEF Table, IsRow, IsEntry
      <3>3. r.cloud = e.id
        <4>1. CASE k \in Owners(fs, e.id)
          BY <4>1 DEF Owners
        <4>2. CASE k = e.id
          BY <3>2, <4>2 DEF IsEntry, IsRow
        <4> QED
          BY <2>2, <4>1, <4>2
      <3>4. r.path = e.path
        BY <3>2, <3>3 DEF IsRow
      <3>5. r.etag = e.etag => Like(x, r)
        BY <3>2, <3>3, <3>4 DEF RowFields, Like
      <3>6. r.etag # e.etag => Imports(k, x, e)
        BY <3>2 DEF Imports, RowFields
      <3>7. (k \in DOMAIN fs /\ Like(x, fs[k])) \/ Imports(k, x, e)
        BY <2>7, <3>5, <3>6
      <3> HIDE DEF x
      <3> QED
        BY <2>5, <2>7, <3>1, <3>7
    <2> QED
      BY <2>6, <2>7
  <1> QED
    BY <1>1, <1>2

\* Rows bound the same way at the same path: enough to compose two imports.
Agree(fs, gs) ==
  \A k \in DOMAIN fs \cap DOMAIN gs : gs[k].path = fs[k].path /\ gs[k].cloud = fs[k].cloud

LEMMA SparesTwice ==
  ASSUME NEW fs, NEW gs, NEW hs, NEW ds, NEW S, Spares(fs, gs, ds, S), Spares(gs, hs, ds, S),
         Agree(fs, gs), Agree(gs, hs)
  PROVE  Spares(fs, hs, ds, S)
  <1>1. \A k \in DOMAIN fs : fs[k].state \in Protected => k \in DOMAIN hs /\ hs[k] = fs[k]
    BY DEF Spares
  <1>2. ASSUME NEW k \in DOMAIN hs
        PROVE  \/ k \in DOMAIN fs /\ Like(hs[k], fs[k])
               \/ \E e \in S : Admits(ds, e) /\ Imports(k, hs[k], e) /\ (k \notin DOMAIN fs => k = e.id)
    <2>1. CASE k \in DOMAIN gs /\ Like(hs[k], gs[k])
      BY <2>1 DEF Spares, Like, Imports
    <2>2. ASSUME NEW e \in S, Admits(ds, e), Imports(k, hs[k], e), k \notin DOMAIN gs => k = e.id
          PROVE  <1>2!2
      <3>1. CASE k \in DOMAIN fs \/ k = e.id
        BY <2>2, <3>1
      <3>2. CASE k \notin DOMAIN fs /\ k \in DOMAIN gs /\ k # e.id
        <4>1. PICK x \in S : Admits(ds, x) /\ Imports(k, gs[k], x) /\ k = x.id
          BY <3>2 DEF Spares
        <4> QED
          BY <2>2, <3>2, <4>1 DEF Agree, Imports
      <3> QED
        BY <2>2, <3>1, <3>2
    <2> QED
      BY <2>1, <2>2 DEF Spares
  <1>3. ASSUME NEW k \in DOMAIN fs \ DOMAIN hs
        PROVE  \E e \in S : Admits(ds, e) /\ fs[k].path = e.path /\ fs[k].cloud # e.id
    BY <1>3 DEF Spares, Agree
  <1> QED
    BY <1>1, <1>2, <1>3 DEF Spares

LEMMA AgreeHere ==
  ASSUME NEW g, NEW fs, World(g), Table(files, g), Table(fs, g), Rebinds(fs, g)
  PROVE  Agree(files, fs)
  <1> SUFFICES ASSUME NEW k \in DOMAIN files \cap DOMAIN fs
               PROVE  fs[k].path = files[k].path /\ fs[k].cloud = files[k].cloud
    BY DEF Agree
  <1>1. IsRow(k, files[k], g) /\ IsRow(k, fs[k], g)
    BY DEF Table
  <1> QED
    BY <1>1 DEF IsRow, Rebinds

LEMMA UpsertAgrees ==
  ASSUME NEW g, NEW fs, NEW ds, NEW e, World(g), Table(fs, g), IsEntry(e, g)
  PROVE  Agree(fs, Upsert(fs, ds, e)) /\ Table(Upsert(fs, ds, e), g)
  <1> DEFINE gs == Upsert(fs, ds, e)
  <1>1. /\ Follows(fs, gs, ds, {}) /\ DOMAIN gs \subseteq DOMAIN fs \cup {e.id}
        /\ \A k \in DOMAIN gs : IsRow(k, gs[k], g)
    BY UpsertFollows
  <1> HIDE DEF gs
  <1>2. DOMAIN gs \subseteq IdsIn(g)
    BY <1>1, Identities DEF Table, IsEntry
  <1>3. Table(gs, g)
    BY <1>1, <1>2, FollowsTable
  <1>4. Agree(fs, gs)
    BY <1>1, <1>3 DEF Agree, Follows, Table, IsRow
  <1> QED
    BY <1>3, <1>4 DEF gs

\* By induction on the number of entries, as ImportedKeeps.
LEMMA ImportedSpares ==
  ASSUME NEW g, NEW S, World(g), IsFiniteSet(S), \A e \in S : IsEntry(e, g), Table(files, g)
  PROVE  Spares(files, Imported(S), tombs, S)
  <1> DEFINE J(fs) == Table(fs, g) /\ Rebinds(fs, g) /\ Spares(files, fs, tombs, S)
             f == CHOOSE f : IsFold(f, S, files, tombs)
             Bad == {n \in Nat : \E s \in SUBSET S : Cardinality(s) = n /\ ~J(f[s])}
  <1>1. IsFold(f, S, files, tombs)
    BY FoldExists
  <1>2. \A s \in SUBSET S : f[s] = Round(f, s, files, tombs)
    BY <1>1 DEF IsFold
  <1> HIDE DEF f
  <1>3. ASSUME NEW fs, NEW e \in S, J(fs) PROVE J(Upsert(fs, tombs, e))
    <2> DEFINE gs == Upsert(fs, tombs, e)
    <2>1. Agree(fs, gs) /\ Table(gs, g) /\ Agree(files, fs)
      BY <1>3, UpsertAgrees, AgreeHere
    <2>2. /\ Follows(fs, gs, tombs, task) /\ DOMAIN gs \subseteq DOMAIN fs \cup {e.id}
          /\ e.id \in ItemsIn(g)
      BY <1>3, UpsertFollows DEF IsEntry
    <2>3. Spares(fs, gs, tombs, S)
      BY <1>3, UpsertSpares
    <2> HIDE DEF gs
    <2>4. Rebinds(gs, g)
      BY <1>3, <2>2 DEF Rebinds, Follows
    <2>5. Spares(files, gs, tombs, S)
      BY <1>3, <2>1, <2>3, SparesTwice
    <2> QED
      BY <2>1, <2>4, <2>5 DEF gs
  <1>4. J(files)
    BY SparesAll DEF Rebinds
  <1> HIDE DEF J
  <1>5. ASSUME Bad # {} PROVE FALSE
    <2>1. PICK n \in Bad : \A m \in Bad : n <= m
      BY <1>5, Least
    <2>2. PICK s \in SUBSET S : Cardinality(s) = n /\ ~J(f[s])
      BY <2>1
    <2>3. s # {}
      BY <1>2, <1>4, <2>2 DEF Round
    <2> DEFINE e == CHOOSE x \in s : TRUE
    <2>4. e \in s /\ e \in S
      BY <2>3
    <2>5. f[s] = Upsert(f[s \ {e}], tombs, e)
      BY <1>2, <2>3 DEF Round
    <2> HIDE DEF e
    <2>6. s \ {e} \in SUBSET S /\ Cardinality(s \ {e}) = n - 1 /\ n - 1 \in Nat /\ n \in Nat
      <3>1. IsFiniteSet(s) /\ IsFiniteSet(s \ {e})
        BY FS_Subset, FS_RemoveElement
      <3>2. Cardinality(s \ {e}) = n - 1
        BY <2>2, <2>4, <3>1, FS_RemoveElement
      <3>3. n \in Nat /\ Cardinality(s \ {e}) \in Nat
        BY <2>2, <3>1, FS_CardinalityType
      <3> QED
        BY <3>2, <3>3
    <2>7. J(f[s \ {e}])
      <3>1. n - 1 \notin Bad
        BY <2>1, <2>6
      <3> QED
        BY <2>6, <3>1
    <2> QED
      BY <1>3, <2>2, <2>4, <2>5, <2>7
  <1>6. J(f[S])
    <2>1. Cardinality(S) \in Nat
      BY FS_CardinalityType
    <2> QED
      BY <1>5, <2>1
  <1> QED
    BY <1>6, Unfold DEF J, f

-----------------------------------------------------------------------------
(* The files at work: who holds the bytes of a row                         *)

\* The cache file of a row is there; an online row has none and a row with local
\* bytes has one.
Held ==
  \A k \in DocRows :
    /\ files[k].cache # None => files[k].cache \in DOMAIN disk
    /\ files[k].state = "online" => files[k].cache = None
    /\ files[k].state \in Protected => files[k].cache # None

\* What a program writes is the cache file of a row in state writing.
Writers ==
  \A h \in DOMAIN handles :
    /\ handles[h].c # None
    /\ handles[h].changed /\ ~handles[h].unlinked =>
         /\ handles[h].k \in DOMAIN files
         /\ files[handles[h].k].state = "writing" /\ files[handles[h].k].cache = handles[h].c

\* The truncation in progress, as a record.
HandlerType ==
  [at : {"mark", "claim"}, k : {"c", "l"} \X Nat, c : ({"c", "l"} \X Nat) \X Nat,
   h : Handles \cup {None}, base : {None} \cup [rev : Nat, data : SUBSET Nat], w : Nat]

\* A truncation works on the cache file of a file that is not deleted, and all that
\* this file still holds, but for the truncation itself, was given up.
Cut ==
  fuse # None =>
    /\ fuse \in HandlerType
    /\ fuse.c \in DOMAIN disk /\ disk[fuse.c] \subseteq discarded \cup {fuse.w}
    /\ ~LocalTomb(fuse.k)
    /\ fuse.k \in DOMAIN files => files[fuse.k].cache \in {None, fuse.c}

\* A run sends the bytes of its row, which stay local, or of a deleted file.
RunningAt(k) ==
  /\ task[k].pc # "import" =>
       IF k \in DOMAIN files
         THEN files[k].cache = task[k].r.cache /\ (files[k].state \in Protected \/ Window(k))
         ELSE LocalTomb(k)
  /\ task[k].pc \in Copying /\ k \in DOMAIN files => files[k].up.path = task[k].p
Running == \A k \in DOMAIN task : RunningAt(k)
Working == Held /\ Writers /\ Cut /\ Running

LEMMA DocRow2 ==
  ASSUME Shape
  PROVE  /\ \A k \in DOMAIN files : files[k].path = Doc <=> k \in DocRows
         /\ \A k \in DocRows : k \in DOMAIN files /\ files[k].path = Doc
         /\ \A k \in DOMAIN files : files[k].state \in Protected => k \in DocRows
         /\ \A k \in DOMAIN task \cap DOMAIN files : k \in DocRows
         /\ \A h \in DOMAIN handles : handles[h].k \in DOMAIN files => handles[h].k \in DocRows
         /\ fuse # None => (fuse.k \in DOMAIN files => fuse.k \in DocRows)
         /\ \A j, k \in DocRows : j = k
  BY DEF Shape, RowShape, TaskShape, FuseShape, DocRows, RowAt

\* Steps that leave all of this alone.
LEMMA QuietWorking ==
  ASSUME Working, UNCHANGED <<files, tombs, disk, handles, fuse, task>>, discarded \subseteq discarded'
  PROVE  Working'
  <1>1. Held'
    BY DEF Working, Held, DocRows
  <1>2. Writers'
    BY DEF Working, Writers
  <1>3. Cut'
    BY DEF Working, Cut, LocalTomb
  <1>4. Running'
    BY DEF Working, Running, RunningAt, LocalTomb, Window, Truncating
  <1> QED
    BY <1>1, <1>2, <1>3, <1>4 DEF Working

\* Imports and removals: rows with local bytes stay, others may lose their bytes.
Mild(fs, gs) ==
  /\ \A k \in DOMAIN fs : fs[k].state \in Protected => k \in DOMAIN gs /\ gs[k] = fs[k]
  /\ \A k \in DOMAIN gs :
       \/ k \in DOMAIN fs /\ Like(gs[k], fs[k])
       \/ gs[k].state = "online" /\ gs[k].cache = None

LEMMA SparesMild ==
  ASSUME NEW fs, NEW gs, NEW ds, NEW S, Spares(fs, gs, ds, S)
  PROVE  Mild(fs, gs)
  BY DEF Spares, Mild, Imports

LEMMA MildWorking ==
  ASSUME Shape, Shape', Orderly', Working, Mild(files, files'),
         UNCHANGED <<tombs, disk, handles, fuse, discarded>>,
         DOMAIN task' \subseteq DOMAIN task, \A k \in DOMAIN task' : task'[k] = task[k]
  PROVE  Working'
  <1> USE DEF Working
  <1>1. Held'
    <2> SUFFICES ASSUME NEW k \in DocRows'
                 PROVE  /\ files'[k].cache # None => files'[k].cache \in DOMAIN disk
                        /\ files'[k].state = "online" => files'[k].cache = None
                        /\ files'[k].state \in Protected => files'[k].cache # None
      BY DEF Held
    <2>1. CASE k \in DOMAIN files /\ Like(files'[k], files[k])
      BY <2>1 DEF Held, Like, DocRows, RowAt
    <2>2. CASE files'[k].state = "online" /\ files'[k].cache = None
      BY <2>2 DEF Protected
    <2> QED
      BY <2>1, <2>2 DEF Mild, DocRows, RowAt
  <1>2. Writers'
    BY DEF Writers, Mild, Protected
  <1>3. Cut'
    <2> SUFFICES ASSUME fuse # None
                 PROVE  /\ fuse \in HandlerType /\ fuse.c \in DOMAIN disk /\ disk[fuse.c] \subseteq discarded \cup {fuse.w}
                        /\ ~LocalTomb(fuse.k)
                        /\ fuse.k \in DOMAIN files' => files'[fuse.k].cache \in {None, fuse.c}
      BY DEF Cut, LocalTomb
    <2> QED
      BY DEF Cut, Mild, Like
  <1>4. Running'
    <2> SUFFICES ASSUME NEW k \in DOMAIN task' PROVE RunningAt(k)'
      BY DEF Running
    <2>1. task'[k] = task[k] /\ k \in DOMAIN task /\ RunningAt(k) /\ (LocalTomb(k) <=> (LocalTomb(k))')
      BY DEF Running, LocalTomb
    <2>2. ASSUME task[k].pc # "import", k \in DOMAIN files
          PROVE  /\ k \in DOMAIN files' /\ files'[k].cache = task[k].r.cache
                 /\ files'[k].up = files[k].up
                 /\ (files'[k].state \in Protected \/ (Window(k))')
      <3>1. CASE files[k].state \in Protected
        BY <2>1, <2>2, <3>1 DEF RunningAt, Mild
      <3>2. CASE Window(k)
        <4>1. k \in DOMAIN files' /\ files'[k].cache = fuse.c /\ (Window(k))'
          BY <3>2 DEF Orderly, TruncateAlone, Window, Truncating
        <4>2. fuse.c # None /\ files[k].cache \in {None, fuse.c} /\ files[k].cache # None
          BY <2>1, <2>2, <3>2 DEF Shape, FuseShape, Window, Truncating, Cut, RunningAt, TaskShape
        <4>3. Like(files'[k], files[k])
          BY <4>1, <4>2 DEF Mild
        <4> QED
          BY <2>1, <2>2, <4>1, <4>2, <4>3 DEF RunningAt, Like
      <3> QED
        BY <2>1, <2>2, <3>1, <3>2 DEF RunningAt
    <2>3. ASSUME task[k].pc # "import", k \notin DOMAIN files
          PROVE  k \notin DOMAIN files' /\ (LocalTomb(k))'
      BY <2>1, <2>3 DEF RunningAt, Shape, TombShape, LocalTomb
    <2> QED
      BY <2>1, <2>2, <2>3 DEF RunningAt, Copying
  <1> QED
    BY <1>1, <1>2, <1>3, <1>4

\* What an upload run may do to its own row.
Changes(r, q) ==
  \/ q.cache = r.cache /\ q.state = r.state
  \/ r.state # "writing" /\ r.cache # None /\ q.cache = r.cache /\ q.state \in Protected \cup {"cached"}
  \/ r.state # "writing" /\ q.cache = None /\ q.state = "online"

\* A step of one run: it touches its own row and rows at other paths.
OnlyRow(k) ==
  /\ \A j \in DocRows' \ {k} : j \in DOMAIN files /\ files'[j] = files[j]
  /\ \A j \in DocRows \ {k} : j \in DocRows'
  /\ k \in DOMAIN files' => k \in DocRows /\ Changes(files[k], files'[k])
  /\ k \in DOMAIN files \ DOMAIN files' => files[k].state # "writing"
OnlyRun(k) == \A j \in DOMAIN task' \ {k} : j \in DOMAIN task /\ task'[j] = task[j]

LEMMA RunWorking ==
  ASSUME Shape, Shape', Working, NEW k, OnlyRow(k), OnlyRun(k),
         UNCHANGED <<disk, handles, fuse, discarded>>,
         \A d : LocalTomb(d) <=> (LocalTomb(d))',
         k \in DOMAIN task' => (RunningAt(k))'
  PROVE  Working'
  <1> USE DEF Working
  <1>1. Held'
    <2> SUFFICES ASSUME NEW j \in DocRows'
                 PROVE  /\ files'[j].cache # None => files'[j].cache \in DOMAIN disk
                        /\ files'[j].state = "online" => files'[j].cache = None
                        /\ files'[j].state \in Protected => files'[j].cache # None
      BY DEF Held
    <2>1. CASE j # k
      BY <2>1 DEF Held, OnlyRow, DocRows, RowAt
    <2>2. CASE j = k
      BY <2>2 DEF Held, OnlyRow, Changes, Protected, DocRows, RowAt
    <2> QED
      BY <2>1, <2>2
  <1>2. Writers'
    <2> SUFFICES ASSUME NEW h \in DOMAIN handles, handles[h].changed, ~handles[h].unlinked
                 PROVE  /\ handles[h].k \in DOMAIN files'
                        /\ files'[handles[h].k].state = "writing"
                        /\ files'[handles[h].k].cache = handles[h].c
      BY DEF Writers
    <2>1. /\ handles[h].k \in DOMAIN files /\ handles[h].k \in DocRows
          /\ files[handles[h].k].state = "writing" /\ files[handles[h].k].cache = handles[h].c
      BY DocRow2 DEF Writers
    <2>2. CASE handles[h].k = k
      BY <2>1, <2>2 DEF OnlyRow, Changes
    <2>3. CASE handles[h].k # k
      BY <2>1, <2>3 DEF OnlyRow, DocRows, RowAt
    <2> QED
      BY <2>2, <2>3
  <1>3. Cut'
    <2> SUFFICES ASSUME fuse # None, fuse.k \in DOMAIN files'
                 PROVE  files'[fuse.k].cache \in {None, fuse.c}
      BY DEF Cut
    <2>1. fuse.k \in DocRows'
      BY DEF Shape, FuseShape, DocRows, RowAt
    <2>2. fuse.k \in DOMAIN files /\ (fuse.k # k => files'[fuse.k] = files[fuse.k])
      BY <2>1 DEF OnlyRow, DocRows, RowAt
    <2> QED
      BY <2>2 DEF Cut, OnlyRow, Changes
  <1>4. Running'
    <2> SUFFICES ASSUME NEW j \in DOMAIN task', j # k PROVE (RunningAt(j))'
      BY DEF Running
    <2>1. j \in DOMAIN task /\ task'[j] = task[j] /\ RunningAt(j)
      BY DEF OnlyRun, Running
    <2>2. CASE j \in DOMAIN files
      <3>1. j \in DocRows' /\ files'[j] = files[j] /\ j \in DOMAIN files'
        BY <2>1, <2>2, DocRow2 DEF OnlyRow, DocRows, RowAt
      <3> QED
        BY <2>1, <2>2, <3>1 DEF RunningAt, Window, Truncating
    <2>3. CASE j \notin DOMAIN files
      <3>1. j \notin DOMAIN files'
        <4>1. j \in DOMAIN files' => j \in DocRows'
          BY <2>1 DEF Shape, TaskShape, DocRows, RowAt
        <4> QED
          BY <2>3, <4>1 DEF OnlyRow
      <3> QED
        BY <2>1, <2>3, <3>1 DEF RunningAt
    <2> QED
      BY <2>2, <2>3
  <1> QED
    BY <1>1, <1>2, <1>3, <1>4

\* The steps of an upload run, each touching the row k alone.
LEMMA SameFiles ==
  ASSUME Shape, NEW k, k \in DOMAIN files => k \in DocRows, files' = files
  PROVE  OnlyRow(k)
  BY DEF OnlyRow, Changes, DocRows, RowAt

LEMMA RowOfRun ==
  ASSUME Shape, Working, NEW k \in DOMAIN task
  PROVE  /\ k \in DOMAIN files => k \in DocRows
         /\ RunningAt(k) /\ task[k].r.cache # None /\ DOMAIN task[k] = TaskFields
         /\ (LocalTomb(k) => k \notin DOMAIN files)
  BY DocRow2 DEF Working, Running, Shape, TaskShape, TombShape, LocalTomb

\* A row rewritten in place: [fs EXCEPT ![k] = ...].
LEMMA OneRowRewritten ==
  ASSUME Shape, Shape', NEW k \in DOMAIN files, k \in DocRows, DOMAIN files' = DOMAIN files,
         \A j \in DOMAIN files \ {k} : files'[j] = files[j], Changes(files[k], files'[k])
  PROVE  OnlyRow(k)
  <1>1. \A j \in DocRows' \ {k} : j \in DOMAIN files /\ files'[j] = files[j]
    BY DEF DocRows, RowAt
  <1>2. \A j \in DocRows \ {k} : j \in DocRows'
    BY DEF DocRows, RowAt
  <1> QED
    BY <1>1, <1>2 DEF OnlyRow

\* Where a run goes.
LEMMA RunMoves ==
  ASSUME NEW k, NEW t, (task' = With(task, k, t)) \/ task' = Without(task, k)
  PROVE  /\ OnlyRun(k)
         /\ task' = Without(task, k) => k \notin DOMAIN task'
         /\ task' = With(task, k, t) => k \in DOMAIN task' /\ task'[k] = t
  BY DEF OnlyRun, With, Without

LEMMA SameTombs ==
  ASSUME tombs' = tombs
  PROVE  \A d : LocalTomb(d) <=> (LocalTomb(d))'
  BY DEF LocalTomb

LEMMA StartUploadWorking ==
  ASSUME Shape, Shape', Working, NEW k, StartUpload(k)
  PROVE  Working'
  <1>1. /\ k \in DOMAIN files /\ files' = files /\ tombs' = tombs
        /\ UNCHANGED <<disk, handles, fuse, discarded>>
        /\ files[k].state \in {"dirty", "uploading", "conflict"}
    BY DEF StartUpload, OnlyTask
  <1>2. PICK t : /\ task' = With(task, k, t) /\ t.r = files[k] /\ t.pc \in {"claim", "claimcopy"}
    BY DEF StartUpload, Goto
  <1>3. OnlyRun(k) /\ k \in DOMAIN task' /\ task'[k] = t
    BY <1>2, RunMoves
  <1>4. OnlyRow(k)
    BY <1>1, DocRow2, SameFiles DEF Protected
  <1>5. (RunningAt(k))'
    BY <1>1, <1>2, <1>3 DEF RunningAt, Copying, Protected
  <1> QED
    BY <1>1, <1>3, <1>4, <1>5, RunWorking, SameTombs

LEMMA ClaimUploadWorking ==
  ASSUME Shape, Shape', Working, NEW k, ClaimUpload(k)
  PROVE  Working'
  <1>1. /\ k \in DOMAIN task /\ task[k].pc = "claim" /\ tombs' = tombs
        /\ UNCHANGED <<disk, handles, fuse, discarded>>
    BY DEF ClaimUpload, OnlyTask, At
  <1>2. CASE CanBeginUpload(files, tombs, k, task[k].r)
    <2>1. /\ files' = BeginUpload(files, k)
          /\ task' = With(task, k, [task[k] EXCEPT !.pc = "put"])
      BY <1>2 DEF ClaimUpload, Move, Goto
    <2>2. /\ k \in DOMAIN files /\ files[k].cache = task[k].r.cache
          /\ files[k].state \in {"dirty", "uploading"} /\ DOMAIN files[k] = RowFields
      BY <1>2 DEF CanBeginUpload, Unchanged, Shape, RowShape
    <2>3. /\ DOMAIN files' = DOMAIN files /\ \A j \in DOMAIN files \ {k} : files'[j] = files[j]
          /\ files'[k].state = "uploading" /\ files'[k].cache = files[k].cache
      BY <2>1, <2>2 DEF BeginUpload, RowFields
    <2>4. k \in DocRows /\ task[k].r.cache # None /\ DOMAIN task[k] = TaskFields
      BY <1>1, <2>2, RowOfRun
    <2>5. OnlyRow(k)
      BY <2>2, <2>3, <2>4, OneRowRewritten DEF Changes, Protected
    <2>6. OnlyRun(k) /\ k \in DOMAIN task' /\ task'[k] = [task[k] EXCEPT !.pc = "put"]
      BY <2>1, RunMoves
    <2>7. task'[k].pc = "put" /\ task'[k].r = task[k].r
      BY <2>4, <2>6 DEF TaskFields
    <2>8. (RunningAt(k))'
      BY <2>2, <2>3, <2>7 DEF RunningAt, Copying, Protected
    <2> QED
      BY <1>1, <2>5, <2>6, <2>8, RunWorking, SameTombs
  <1>3. CASE ~CanBeginUpload(files, tombs, k, task[k].r)
    <2>1. files' = files /\ task' = Without(task, k)
      BY <1>3 DEF ClaimUpload, Done
    <2>2. OnlyRow(k) /\ OnlyRun(k) /\ k \notin DOMAIN task'
      BY <1>1, <2>1, SameFiles, RunMoves, RowOfRun
    <2> QED
      BY <1>1, <2>2, RunWorking, SameTombs
  <1> QED
    BY <1>2, <1>3

LEMMA RunGoesOn ==
  ASSUME Shape, Shape', Working, NEW k \in DOMAIN task, task[k].pc # "import",
         UNCHANGED <<files, disk, handles, fuse, discarded>>,
         \A d : LocalTomb(d) <=> (LocalTomb(d))', OnlyRun(k),
         k \in DOMAIN task' =>
           /\ task'[k].r = task[k].r
           /\ task'[k].pc \in Copying => task[k].pc \in Copying /\ task'[k].p = task[k].p
  PROVE  Working'
  <1>1. OnlyRow(k) /\ RunningAt(k)
    BY RowOfRun, SameFiles
  <1>2. k \in DOMAIN task' => (RunningAt(k))'
    BY <1>1 DEF RunningAt, Window, Truncating, LocalTomb
  <1> QED
    BY <1>1, <1>2, RunWorking

LEMMA PutWorking ==
  ASSUME Shape, Shape', Working, NEW k \in DOMAIN task, NEW t, NEW p, NEW acked, NEW failed,
         task[k].pc \in {"put", "copy"}, acked \in {"commit", "copied"},
         failed \in {None, "failed"}, acked = "copied" => task[k].pc = "copy",
         Put(k, t, p, acked, failed), OnlyTask, UNCHANGED <<files, tombs>>
  PROVE  Working'
  <1>1. DOMAIN task[k] = TaskFields
    BY RowOfRun
  <1>2. \/ \E e : task' = With(task, k, [task[k] EXCEPT !.pc = acked, !.res = e])
        \/ task' = Without(task, k)
        \/ task' = With(task, k, [task[k] EXCEPT !.pc = "failed"])
        \/ task' = With(task, k, [task[k] EXCEPT !.pc = "refused"])
    BY DEF Put, Leave, Done, Move, Goto
  <1>3. OnlyRun(k)
    BY <1>2, RunMoves
  <1>4. k \in DOMAIN task' =>
           /\ task'[k].r = task[k].r
           /\ task'[k].pc \in Copying => task[k].pc \in Copying /\ task'[k].p = task[k].p
    <2>1. ASSUME NEW e, task' = With(task, k, [task[k] EXCEPT !.pc = acked, !.res = e]) PROVE <1>4
      BY <1>1, <2>1 DEF With, TaskFields, Copying
    <2>2. ASSUME NEW at \in {"failed", "refused"}, task' = With(task, k, [task[k] EXCEPT !.pc = at])
          PROVE  <1>4
      BY <1>1, <2>2 DEF With, TaskFields, Copying
    <2>3. CASE task' = Without(task, k)
      BY <2>3, RunMoves
    <2> QED
      BY <1>2, <2>1, <2>2, <2>3
  <1> QED
    BY <1>3, <1>4, RunGoesOn, SameTombs DEF OnlyTask

LEMMA PutFileWorking ==
  ASSUME Shape, Shape', Working, NEW k, PutFile(k)
  PROVE  Working'
  <1>1. k \in DOMAIN task /\ task[k].pc = "put" /\ OnlyTask /\ UNCHANGED <<files, tombs>>
    BY DEF PutFile, At
  <1>2. CASE Put(k, task[k].r.cloud, task[k].r.path, "commit", "failed")
    BY <1>1, <1>2, PutWorking
  <1>3. CASE Move(k, "refused")
    <2>1. OnlyRun(k) /\ task'[k] = [task[k] EXCEPT !.pc = "refused"] /\ DOMAIN task[k] = TaskFields
      BY <1>1, <1>3, RunMoves, RowOfRun DEF Move, Goto
    <2> QED
      BY <1>1, <2>1, RunGoesOn, SameTombs DEF OnlyTask, TaskFields, Copying
  <1> QED
    BY <1>2, <1>3 DEF PutFile

LEMMA PutCopyWorking ==
  ASSUME Shape, Shape', Working, NEW k, PutCopy(k)
  PROVE  Working'
  BY PutWorking DEF PutCopy, At

LEMMA FailUploadWorking ==
  ASSUME Shape, Shape', Orderly, Working, NEW k, FailUpload(k)
  PROVE  Working'
  <1>1. /\ k \in DOMAIN task /\ task[k].pc = "failed" /\ tombs' = tombs
        /\ UNCHANGED <<disk, handles, fuse, discarded>> /\ task' = Without(task, k)
    BY DEF FailUpload, OnlyTask, At, Done
  <1>2. OnlyRun(k) /\ k \notin DOMAIN task'
    BY <1>1, RunMoves
  <1>3. CASE files' = files
    BY <1>1, <1>2, <1>3, RunGoesOn, SameTombs
  <1>4. CASE files' = [files EXCEPT ![k].state = "dirty"] /\ k \in DOMAIN files
    <2>1. files[k].state # "writing" /\ DOMAIN files[k] = RowFields /\ k \in DocRows
      BY <1>1, <1>4, RowOfRun DEF Orderly, FailuresHeed, Shape, RowShape
    <2>2. files[k].cache # None
      BY <1>1, <1>4, RowOfRun DEF RunningAt
    <2>3. /\ DOMAIN files' = DOMAIN files /\ \A j \in DOMAIN files \ {k} : files'[j] = files[j]
          /\ files'[k].state = "dirty" /\ files'[k].cache = files[k].cache
      BY <1>4, <2>1 DEF RowFields
    <2>4. OnlyRow(k)
      BY <1>4, <2>1, <2>2, <2>3, OneRowRewritten DEF Changes, Protected
    <2> QED
      BY <1>1, <1>2, <2>4, RunWorking, SameTombs
  <1> QED
    BY <1>3, <1>4 DEF FailUpload, MarkState

LEMMA RefuseUploadWorking ==
  ASSUME Shape, Shape', Working, NEW k, RefuseUpload(k)
  PROVE  Working'
  <1>1. /\ k \in DOMAIN task /\ task[k].pc = "refused" /\ tombs' = tombs
        /\ UNCHANGED <<disk, handles, fuse, discarded>>
    BY DEF RefuseUpload, OnlyTask, At
  <1>2. CASE files' = files /\ task' = Without(task, k)
    BY <1>1, <1>2, RunGoesOn, RunMoves, SameTombs
  <1>3. CASE /\ CanMarkConflict(files, k, task[k].r)
             /\ files' = MarkState(files, k, "conflict")
             /\ task' = With(task, k, [task[k] EXCEPT !.pc = "claimcopy", !.r = files'[k]])
    <2>1. /\ k \in DOMAIN files /\ k \in DocRows /\ DOMAIN files[k] = RowFields
          /\ files[k].state = "uploading" /\ files[k].cache # None /\ DOMAIN task[k] = TaskFields
      BY <1>1, <1>3, RowOfRun DEF CanMarkConflict, Unchanged, Shape, RowShape
    <2>2. /\ DOMAIN files' = DOMAIN files /\ \A j \in DOMAIN files \ {k} : files'[j] = files[j]
          /\ files'[k].state = "conflict" /\ files'[k].cache = files[k].cache
      BY <1>3, <2>1 DEF RowFields, MarkState
    <2>3. OnlyRow(k)
      BY <2>1, <2>2, OneRowRewritten DEF Changes, Protected
    <2>4. OnlyRun(k) /\ task'[k] = [task[k] EXCEPT !.pc = "claimcopy", !.r = files'[k]]
      BY <1>3, RunMoves
    <2>5. (RunningAt(k))'
      BY <2>1, <2>2, <2>4 DEF RunningAt, Protected, Copying, TaskFields
    <2> QED
      BY <1>1, <2>3, <2>4, <2>5, RunWorking, SameTombs
  <1> QED
    BY <1>2, <1>3 DEF RefuseUpload, Done, Goto

LEMMA ClaimCopyWorking ==
  ASSUME Shape, Shape', Working, NEW k, ClaimCopy(k)
  PROVE  Working'
  <1> DEFINE p == CopyPath(disk[task[k].r.cache])
  <1>1. /\ k \in DOMAIN task /\ task[k].pc = "claimcopy" /\ tombs' = tombs
        /\ UNCHANGED <<disk, handles, fuse, discarded>>
    BY DEF ClaimCopy, OnlyTask, At
  <1>2. CASE files' = files /\ task' = Without(task, k)
    BY <1>1, <1>2, RunGoesOn, RunMoves, SameTombs
  <1>3. CASE /\ CanBeginConflict(files, k, task[k].r, task[k].r.cache)
             /\ files' = BeginConflict(files, k, p, task[k].r.cache)
             /\ task' = With(task, k, [task[k] EXCEPT !.pc = "copy", !.p = p])
    <2> HIDE DEF p
    <2>1. /\ k \in DOMAIN files /\ k \in DocRows /\ DOMAIN files[k] = RowFields
          /\ files[k].state = "conflict" /\ DOMAIN task[k] = TaskFields
          /\ files[k].cache = task[k].r.cache
      BY <1>1, <1>3, RowOfRun DEF CanBeginConflict, Shape, RowShape
    <2>2. /\ DOMAIN files' = DOMAIN files /\ \A j \in DOMAIN files \ {k} : files'[j] = files[j]
          /\ files'[k].state = "conflict" /\ files'[k].cache = files[k].cache
          /\ files'[k].up.path = p
      BY <1>3, <2>1 DEF RowFields, BeginConflict, Claim
    <2>3. OnlyRow(k)
      BY <2>1, <2>2, OneRowRewritten DEF Changes
    <2>4. OnlyRun(k) /\ task'[k] = [task[k] EXCEPT !.pc = "copy", !.p = p]
      BY <1>3, RunMoves
    <2>5. (RunningAt(k))'
      BY <2>1, <2>2, <2>4 DEF RunningAt, Protected, Copying, TaskFields
    <2> QED
      BY <1>1, <2>3, <2>4, <2>5, RunWorking, SameTombs
  <1> QED
    BY <1>2, <1>3 DEF ClaimCopy, Done, Goto

\* What a tombstone learns from a late answer does not bury or revive anything.
LEMMA LateTombs ==
  ASSUME Shape, NEW k, NEW e, tombs' = CompleteDeleted(tombs, k, e)
  PROVE  \A d : LocalTomb(d) <=> (LocalTomb(d))'
  <1> DEFINE settled == [d \in DOMAIN tombs |->
               IF tombs[d].local # k THEN tombs[d]
               ELSE [tombs[d] EXCEPT
                       !.cloud = IF tombs[d].cloud = None THEN e.id ELSE @,
                       !.up = Claim(None, None, tombs[d].up.cache),
                       !.done = e.path]]
  <1>1. /\ DOMAIN settled = DOMAIN tombs
        /\ \A d \in DOMAIN tombs : settled[d].local = tombs[d].local
    BY DEF Shape, TombShape, TombFields
  <1>2. \/ tombs' = settled
        \/ e.id \notin DOMAIN tombs /\ tombs' = With(settled, e.id, CleanupTask(e.id, e.path))
    BY DEF CompleteDeleted
  <1> HIDE DEF settled
  <1>3. CASE tombs' = settled
    BY <1>1, <1>3 DEF LocalTomb
  <1>4. CASE e.id \notin DOMAIN tombs /\ tombs' = With(settled, e.id, CleanupTask(e.id, e.path))
    <2>1. /\ DOMAIN tombs' = DOMAIN tombs \cup {e.id} /\ tombs'[e.id].local = None
          /\ \A d \in DOMAIN tombs : tombs'[d].local = tombs[d].local
      BY <1>1, <1>4 DEF With, CleanupTask
    <2> QED
      BY <2>1 DEF LocalTomb
  <1> QED
    BY <1>2, <1>3, <1>4

\* A run whose row is gone has a tombstone: nothing is orphaned.
LEMMA RunHasTomb ==
  ASSUME Shape, Working, NEW k \in DOMAIN task, task[k].pc # "import"
  PROVE  k \notin DOMAIN files <=> DeletesOf(tombs, k) # {}
  <1>1. RunningAt(k) /\ k # None
    BY DEF Working, Running, Shape, TaskShape
  <1>2. DeletesOf(tombs, k) # {} <=> LocalTomb(k)
    BY <1>1 DEF DeletesOf, LocalTomb, Shape, TombShape
  <1> QED
    BY <1>1, <1>2, RowOfRun DEF RunningAt

LEMMA AskLatestWorking ==
  ASSUME Shape, Shape', Working, NEW k, AskLatest(k)
  PROVE  Working'
  <1>1. /\ k \in DOMAIN task /\ task[k].pc = "copied" /\ DOMAIN task[k] = TaskFields
        /\ UNCHANGED <<files, disk, handles, fuse, discarded>>
    BY RowOfRun DEF AskLatest, OnlyTask, At
  <1>2. \/ tombs' = tombs \/ tombs' = CompleteDeleted(tombs, k, task[k].res)
    BY DEF AskLatest
  <1>3. \/ task' = Without(task, k)
        \/ \E e : task' = With(task, k, [task[k] EXCEPT !.pc = "publish", !.latest = e])
    BY DEF AskLatest, Done, Goto
  <1>4. \A d : LocalTomb(d) <=> (LocalTomb(d))'
    BY <1>2, LateTombs, SameTombs
  <1>5. CASE task' = Without(task, k)
    BY <1>1, <1>4, <1>5, RunGoesOn, RunMoves
  <1>6. ASSUME NEW e, task' = With(task, k, [task[k] EXCEPT !.pc = "publish", !.latest = e])
        PROVE  Working'
    <2>1. OnlyRun(k) /\ task'[k] = [task[k] EXCEPT !.pc = "publish", !.latest = e]
      BY <1>6, RunMoves
    <2> QED
      BY <1>1, <1>4, <2>1, RunGoesOn DEF TaskFields, Copying
  <1> QED
    BY <1>3, <1>5, <1>6

\* The acknowledgement of a run: its tombstone or its row takes it.
Acknowledged(k) ==
  /\ UNCHANGED <<disk, handles, fuse, del, cloud, made, unseen, delta, writes, discarded>>
  /\ task' = Without(task, k)
  /\ \/ /\ DeletesOf(tombs, k) # {} /\ k \notin DOMAIN files /\ files' = files
        /\ tombs' = CompleteDeleted(tombs, k, task[k].res)
     \/ /\ DeletesOf(tombs, k) = {} /\ k \in DOMAIN files /\ k \in DocRows /\ tombs' = tombs
        /\ DOMAIN files' = DOMAIN files /\ \A j \in DOMAIN files \ {k} : files'[j] = files[j]
        /\ files' = CommitUploaded(files, k, task[k].p, task[k].res, task[k].r.cache)

LEMMA CommitAcknowledges ==
  ASSUME IInv, Shape, Working, NEW k, CommitFile(k)
  PROVE  Acknowledged(k) /\ task[k].pc = "commit" /\ k \in DOMAIN task
  <1>1. k \in DOMAIN task /\ task[k].pc = "commit"
    BY DEF CommitFile, At
  <1>2. k \notin DOMAIN files <=> DeletesOf(tombs, k) # {}
    BY <1>1, RunHasTomb
  <1>3. CASE DeletesOf(tombs, k) # {}
    BY <1>1, <1>2, <1>3 DEF CommitFile, Acknowledged, OnlyTask, NoRequest, Done
  <1>4. CASE DeletesOf(tombs, k) = {}
    <2>1. /\ k \in DOMAIN files /\ k \in DocRows
          /\ files' = CommitUploaded(files, k, task[k].p, task[k].res, task[k].r.cache)
      BY <1>1, <1>2, <1>4, RowOfRun DEF CommitFile
    <2>2. PICK g : Now(g)
      BY DEF IInv, Known
    <2>3. files'[k].cloud = task[k].res.id
      BY <1>1, <2>1, <2>2, RunFacts, CommitUploadedCore
    <2>4. tombs' = tombs
      BY <1>1, <1>2, <1>4, <2>3 DEF CommitFile
    <2>5. DOMAIN files' = DOMAIN files /\ \A j \in DOMAIN files \ {k} : files'[j] = files[j]
      BY <2>1 DEF CommitUploaded
    <2> QED
      BY <1>1, <1>4, <2>1, <2>4, <2>5 DEF CommitFile, Acknowledged, OnlyTask, NoRequest, Done
  <1> QED
    BY <1>1, <1>3, <1>4

LEMMA CommitFileWorking ==
  ASSUME IInv, Shape, Shape', Working, NEW k, CommitFile(k)
  PROVE  Working'
  <1>1. Acknowledged(k) /\ task[k].pc = "commit" /\ k \in DOMAIN task
    BY CommitAcknowledges
  <1>2. /\ UNCHANGED <<disk, handles, fuse, discarded>>
        /\ OnlyRun(k) /\ k \notin DOMAIN task'
    BY <1>1, RunMoves DEF Acknowledged
  <1>3. CASE files' = files /\ tombs' = CompleteDeleted(tombs, k, task[k].res)
    BY <1>1, <1>2, <1>3, RunGoesOn, LateTombs
  <1>4. CASE /\ k \in DOMAIN files /\ k \in DocRows /\ tombs' = tombs
             /\ DOMAIN files' = DOMAIN files /\ \A j \in DOMAIN files \ {k} : files'[j] = files[j]
             /\ files' = CommitUploaded(files, k, task[k].p, task[k].res, task[k].r.cache)
    <2>1. DOMAIN files[k] = RowFields /\ files[k].cache # None
      BY <1>1, <1>4, RowOfRun DEF Shape, RowShape, RunningAt
    <2>2. Changes(files[k], files'[k])
      BY <1>4, <2>1 DEF CommitUploaded, Changes, RowFields
    <2>3. OnlyRow(k)
      BY <1>4, <2>2, OneRowRewritten
    <2> QED
      BY <1>2, <1>4, <2>3, RunWorking, SameTombs
  <1> QED
    BY <1>1, <1>3, <1>4 DEF Acknowledged

\* Rows at other paths than Doc may be rewritten freely.
LEMMA OnlyThisRow ==
  ASSUME Shape, NEW k \in DocRows,
         \A j \in DocRows' : j = k,
         k \in DOMAIN files' => k \in DocRows' /\ Changes(files[k], files'[k]),
         k \notin DOMAIN files' => files[k].state # "writing"
  PROVE  OnlyRow(k)
  BY DocRow2 DEF OnlyRow

\* What becomes of the row whose conflict copy is published.
Published(k) ==
  /\ tombs' = tombs /\ k \in DocRows /\ k \in DOMAIN files /\ files[k].state = "conflict"
  /\ \A j \in DocRows' : j = k
  /\ \/ k \in DOMAIN files' /\ Like(files'[k], files[k])
     \/ /\ task[k].latest = None /\ k \in DOMAIN files'
        /\ Like(files'[k], [files[k] EXCEPT !.up = NoClaim])
     \/ task[k].latest = None /\ k \notin DOMAIN files'
  /\ \/ task' = Without(task, k)
     \/ task[k].latest # None /\ task' = With(task, k, [task[k] EXCEPT !.pc = "detach"])

LEMMA UpsertElsewhere ==
  ASSUME NEW g, Now(g), Shape, NEW e, IsEntry(e, g), e.path # Doc, NEW k \in DocRows,
         files[k].state \in Protected, NEW c,
         files' \in {Upsert(files, tombs, e), MarkCached(Upsert(files, tombs, e), e.id, c)}
  PROVE  k \in DOMAIN files' /\ files'[k] = files[k] /\ \A j \in DocRows' : j = k
  <1> DEFINE fs == Upsert(files, tombs, e)
  <1>1. World(g) /\ Table(files, g) /\ k \in DOMAIN files
    BY Facts DEF DocRows, RowAt
  <1>2. Spares(files, fs, tombs, {e}) /\ Table(fs, g)
    BY <1>1, UpsertSpares, UpsertAgrees
  <1>3. files' \in {fs, MarkCached(fs, e.id, c)}
    OBVIOUS
  <1> HIDE DEF fs
  <1>4. e.id \in DOMAIN fs => fs[e.id].path = e.path /\ DOMAIN fs[e.id] = RowFields
    BY <1>2 DEF Table, IsRow, IsEntry
  <1>5. /\ DOMAIN files' = DOMAIN fs /\ \A j \in DOMAIN fs \ {e.id} : files'[j] = fs[j]
        /\ e.id \in DOMAIN fs => files'[e.id].path = e.path
    BY <1>3, <1>4 DEF MarkCached, RowFields
  <1>6. k \in DOMAIN fs /\ fs[k] = files[k]
    BY <1>1, <1>2 DEF Spares
  <1>7. k # e.id
    BY <1>4, <1>6 DEF DocRows, RowAt
  <1>8. ASSUME NEW j \in DocRows' PROVE j = k
    <2>1. j \in DOMAIN fs /\ j # e.id /\ fs[j].path = Doc
      BY <1>5 DEF DocRows, RowAt
    <2>2. j \in DOMAIN files /\ files[j].path = Doc
      BY <1>2, <2>1 DEF Spares, Like, Imports
    <2> QED
      BY <2>2, DocRow2
  <1> QED
    BY <1>5, <1>6, <1>7, <1>8

LEMMA AdoptElsewhere ==
  ASSUME Shape, NEW k \in DocRows, NEW e, e.path # Doc, NEW c, NEW r, CanAdoptCopy(files, e, k),
         files' = CompleteMissing(files, k, r, e, c)
  PROVE  /\ \A j \in DocRows' : j = k
         /\ k \in DOMAIN files' =>
              \/ Like(files'[k], files[k])
              \/ Like(files'[k], [files[k] EXCEPT !.up = NoClaim])
  <1> DEFINE l == LocalId(files, e)
             copy == CopyRow(files, e, c)
             fs == With(files, l, copy)
  <1>1. l # k /\ k \in DOMAIN files /\ DOMAIN files[k] = RowFields
    BY DEF CanAdoptCopy, DocRows, RowAt, Shape, RowShape
  <1>2. files' \in {Without(fs, k), [fs EXCEPT ![k].up = NoClaim], fs}
    BY DEF CompleteMissing, CopyRow
  <1>3. copy.path # Doc
    <2>1. CASE l \in DOMAIN files
      <3>1. files[l].path # Doc /\ DOMAIN files[l] = RowFields
        BY <1>1, <2>1, DocRow2 DEF Shape, RowShape
      <3> QED
        BY <2>1, <3>1 DEF CopyRow, RowFields
    <2>2. CASE l \notin DOMAIN files
      BY <2>2 DEF CopyRow, ImportedRow
    <2> QED
      BY <2>1, <2>2
  <1> HIDE DEF l, copy
  <1>4. /\ DOMAIN fs = DOMAIN files \cup {l} /\ fs[l] = copy
        /\ \A j \in DOMAIN files \ {l} : fs[j] = files[j]
    BY DEF With
  <1> HIDE DEF fs
  <1>5. \A j \in DOMAIN fs : fs[j].path = Doc => j = k
    BY <1>3, <1>4, DocRow2 DEF DocRows, RowAt
  <1>6. /\ DOMAIN files' \subseteq DOMAIN fs
        /\ \A j \in DOMAIN files' \ {k} : files'[j] = fs[j]
        /\ k \in DOMAIN files' => files'[k] = files[k] \/ files'[k] = [files[k] EXCEPT !.up = NoClaim]
    BY <1>1, <1>2, <1>4 DEF Without
  <1>7. \A j \in DocRows' : j = k
    BY <1>5, <1>6 DEF DocRows, RowAt
  <1> QED
    BY <1>6, <1>7 DEF Like

LEMMA PublishesElsewhere ==
  ASSUME IInv, Shape, Orderly, Working, NEW k, PublishCopy(k), k \in DOMAIN files
  PROVE  Published(k)
  <1>1. /\ k \in DOMAIN task /\ task[k].pc = "publish" /\ DeletesOf(tombs, k) = {}
        /\ k \in DocRows /\ DOMAIN task[k] = TaskFields
    BY RunHasTomb, RowOfRun DEF PublishCopy, At
  <1>2. PICK g : Now(g)
    BY DEF IInv, Known
  <1>3. IsEntry(task[k].res, g) /\ task[k].res.path # Doc /\ task[k].p \notin {None, Doc}
    BY <1>1, <1>2, RunFacts DEF IsTask, Copying
  <1>4. files[k].state = "conflict" /\ DOMAIN files[k] = RowFields
    <2>1. files[k].up.path = task[k].p
      BY <1>1, RowOfRun DEF RunningAt, Copying
    <2> QED
      BY <1>3, <2>1 DEF Orderly, CopiesUndisturbed, Shape, RowShape
  <1>5. tombs' = tombs
    BY <1>1 DEF PublishCopy
  <1>6. CASE task[k].latest # None
    <2> DEFINE fs == Upsert(files, tombs, task[k].res)
    <2>1. /\ files' \in {fs, MarkCached(fs, task[k].res.id, task[k].r.cache)}
          /\ \/ task' = Without(task, k)
             \/ task' = With(task, k, [task[k] EXCEPT !.pc = "detach"])
      BY <1>1, <1>6 DEF PublishCopy, Move, Goto, Done
    <2>2. k \in DOMAIN files' /\ files'[k] = files[k] /\ \A j \in DocRows' : j = k
      BY <1>1, <1>2, <1>3, <1>4, <2>1, UpsertElsewhere DEF Protected
    <2> QED
      BY <1>1, <1>4, <1>5, <1>6, <2>1, <2>2 DEF Published, Like
  <1>7. CASE task[k].latest = None
    <2>1. task' = Without(task, k)
      BY <1>1, <1>7 DEF PublishCopy, Done
    <2>2. CASE files' = files
      <3>1. \A j \in DocRows' : j = k
        BY <1>1, <2>2, DocRow2 DEF DocRows
      <3> QED
        BY <1>1, <1>4, <1>5, <1>7, <2>1, <2>2, <3>1 DEF Published, Like
    <2>3. CASE /\ CanAdoptCopy(files, task[k].res, k)
               /\ files' = CompleteMissing(files, k, task[k].r, task[k].res, task[k].r.cache)
      <3>1. /\ \A j \in DocRows' : j = k
            /\ k \in DOMAIN files' =>
                 \/ Like(files'[k], files[k])
                 \/ Like(files'[k], [files[k] EXCEPT !.up = NoClaim])
        BY <1>1, <1>3, <2>3, AdoptElsewhere
      <3> QED
        BY <1>1, <1>4, <1>5, <1>7, <2>1, <3>1 DEF Published
    <2> QED
      BY <1>1, <1>7, <2>2, <2>3 DEF PublishCopy
  <1> QED
    BY <1>6, <1>7

LEMMA PublishCopyWorking ==
  ASSUME IInv, Shape, Shape', Orderly, Working, NEW k, PublishCopy(k)
  PROVE  Working'
  <1>1. /\ k \in DOMAIN task /\ task[k].pc = "publish" /\ DOMAIN task[k] = TaskFields
        /\ UNCHANGED <<disk, handles, fuse, discarded>>
    BY RowOfRun DEF PublishCopy, OnlyTask, At
  <1>2. CASE k \notin DOMAIN files
    <2>1. DeletesOf(tombs, k) # {}
      BY <1>1, <1>2, RunHasTomb
    <2>2. /\ files' = files /\ tombs' = CompleteDeleted(tombs, k, task[k].res)
          /\ task' = Without(task, k)
      BY <2>1 DEF PublishCopy, Done
    <2> QED
      BY <1>1, <2>2, LateTombs, RunGoesOn, RunMoves
  <1>3. CASE k \in DOMAIN files
    <2>1. Published(k) /\ RunningAt(k)
      BY <1>1, <1>3, PublishesElsewhere, RowOfRun
    <2>2. k \in DOMAIN files' => Changes(files[k], files'[k]) /\ files'[k].cache = files[k].cache
                                 /\ files'[k].state = "conflict" /\ files'[k].path = Doc
      BY <2>1, DocRow2 DEF Published, Like, Changes, Shape, RowShape, RowFields
    <2>3. OnlyRow(k)
      BY <2>1, <2>2, OnlyThisRow DEF Published, DocRows, RowAt
    <2>4. OnlyRun(k) /\ (k \in DOMAIN task' => task'[k] = [task[k] EXCEPT !.pc = "detach"])
      BY <2>1, RunMoves DEF Published
    <2>5. ASSUME k \in DOMAIN task' PROVE (RunningAt(k))'
      <3>1. task[k].latest # None /\ k \in DOMAIN files' /\ Like(files'[k], files[k])
        BY <2>1, <2>5, RunMoves DEF Published
      <3>2. task'[k].pc = "detach" /\ task'[k].r = task[k].r /\ task'[k].p = task[k].p
        BY <1>1, <2>4, <2>5 DEF TaskFields
      <3> QED
        BY <1>1, <1>3, <2>1, <2>2, <3>1, <3>2 DEF RunningAt, Like, Copying, Protected
    <2> QED
      BY <1>1, <2>1, <2>3, <2>4, <2>5, RunWorking, SameTombs DEF Published
  <1> QED
    BY <1>2, <1>3

LEMMA DetachOriginalWorking ==
  ASSUME Shape, Shape', Orderly, Working, NEW k, DetachOriginal(k)
  PROVE  Working'
  <1>1. /\ k \in DOMAIN task /\ task[k].pc = "detach" /\ DOMAIN task[k] = TaskFields
        /\ tombs' = tombs /\ UNCHANGED <<disk, handles, fuse, discarded>>
        /\ task' = With(task, k, [task[k] EXCEPT !.pc = "import"])
    BY RowOfRun DEF DetachOriginal, OnlyTask, At, Move, Goto
  <1>2. OnlyRun(k) /\ task'[k].pc = "import"
    BY <1>1, RunMoves DEF TaskFields
  <1>3. OnlyRow(k)
    <2>1. CASE k \notin DOMAIN files
      BY <1>1, <2>1, RowOfRun, SameFiles DEF DetachOriginal, MarkOnlineOnly
    <2>2. CASE k \in DOMAIN files
      <3>1. files[k].up.path = task[k].p /\ task[k].p \notin {None, Doc}
        BY <1>1, <2>2, RowOfRun DEF RunningAt, Copying, Shape, TaskShape
      <3>2. files[k].state = "conflict" /\ DOMAIN files[k] = RowFields /\ k \in DocRows
        BY <1>1, <2>2, <3>1, RowOfRun DEF Orderly, CopiesUndisturbed, Shape, RowShape
      <3>3. /\ DOMAIN files' = DOMAIN files /\ \A j \in DOMAIN files \ {k} : files'[j] = files[j]
            /\ files'[k].state = "online" /\ files'[k].cache = None
        BY <2>2, <3>2 DEF DetachOriginal, MarkOnlineOnly, RowFields
      <3> QED
        BY <2>2, <3>2, <3>3, OneRowRewritten DEF Changes
    <2> QED
      BY <2>1, <2>2
  <1>4. (RunningAt(k))'
    BY <1>2 DEF RunningAt, Copying
  <1> QED
    BY <1>1, <1>2, <1>3, <1>4, RunWorking, SameTombs

LEMMA ImportLatestWorking ==
  ASSUME IInv, Shape, Shape', Orderly', Working, NEW k, ImportLatest(k)
  PROVE  Working'
  <1>1. /\ k \in DOMAIN task /\ task[k].pc = "import" /\ task' = Without(task, k)
        /\ files' = Upsert(files, tombs, task[k].latest)
        /\ UNCHANGED <<tombs, disk, handles, fuse, discarded>>
    BY DEF ImportLatest, OnlyTask, At, Done
  <1>2. PICK g : Now(g)
    BY DEF IInv, Known
  <1>3. IsEntry(task[k].latest, g) /\ World(g) /\ Table(files, g)
    BY <1>1, <1>2, RunFacts, Facts DEF IsTask
  <1>4. Mild(files, files')
    BY <1>1, <1>3, UpsertSpares, SparesMild
  <1>5. DOMAIN task' \subseteq DOMAIN task /\ \A j \in DOMAIN task' : task'[j] = task[j]
    BY <1>1 DEF Without
  <1> QED
    BY <1>1, <1>4, <1>5, MildWorking

\* Deletion runs, the refresh and the other client.
LEMMA TombsWorking ==
  ASSUME Working, UNCHANGED <<files, disk, handles, fuse, task, discarded>>,
         \A d : LocalTomb(d) <=> (LocalTomb(d))'
  PROVE  Working'
  <1>1. Held' /\ Writers'
    BY DEF Working, Held, DocRows, Writers
  <1>2. Cut'
    BY DEF Working, Cut
  <1>3. Running'
    BY DEF Working, Running, RunningAt, Window, Truncating
  <1> QED
    BY <1>1, <1>2, <1>3 DEF Working

LEMMA DropCleanupWorking ==
  ASSUME Shape, Working, NEW d, DropCleanup(d)
  PROVE  Working'
  <1>1. /\ d \in DOMAIN tombs /\ tombs[d].local = None /\ tombs' = Without(tombs, d)
        /\ UNCHANGED <<files, disk, handles, fuse, task, discarded>>
    BY DEF DropCleanup, OnlyDel
  <1>2. \A x : LocalTomb(x) <=> (LocalTomb(x))'
    BY <1>1 DEF LocalTomb, Without
  <1> QED
    BY <1>1, <1>2, TombsWorking

LEMMA ReplayWorking ==
  ASSUME Shape, Working, NEW d, Replay(d)
  PROVE  Working'
  <1>1. UNCHANGED <<files, disk, handles, fuse, task, discarded>>
    BY DEF Replay, OnlyDel
  <1>2. \/ tombs' = tombs
        \/ \E i : tombs' = CompleteDeleted(tombs, tombs[d].local, Entry(cloud', i))
    BY DEF Replay
  <1>3. \A x : LocalTomb(x) <=> (LocalTomb(x))'
    BY <1>2, LateTombs, SameTombs
  <1> QED
    BY <1>1, <1>3, TombsWorking

LEMMA RetireDeleteWorking ==
  ASSUME Shape, Working, NEW d, RetireDelete(d)
  PROVE  Working'
  <1>1. /\ d \in DOMAIN del /\ d \in DOMAIN tombs /\ d \notin DOMAIN task
        /\ disk' = [c \in DOMAIN disk \ Caches(d) |-> disk[c]]
        /\ tombs' = Without(tombs, d) /\ UNCHANGED <<files, handles, fuse, task, discarded>>
    BY DEF RetireDelete, Deleting, OnlyDel, Shape, DelShape
  <1>2. \A x : x # d => (LocalTomb(x) <=> (LocalTomb(x))')
    BY <1>1 DEF LocalTomb, Without
  <1>3. ~(LocalTomb(d))'
    BY <1>1 DEF LocalTomb, Without
  <1>4. \A c \in Caches(d) : c \in {d} \X Nat /\ LocalTomb(d)
    BY <1>1 DEF Caches, Shape, TombShape, Own, LocalTomb
  <1>5. LocalTomb(d) => d \notin DOMAIN files
    BY DEF LocalTomb, Shape, TombShape
  <1>6. \A k, c : k # d /\ c \in {k} \X Nat /\ c \in DOMAIN disk => c \in DOMAIN disk' /\ disk'[c] = disk[c]
    BY <1>1, <1>4
  <1>7. Held'
    <2> SUFFICES ASSUME NEW k \in DocRows, files[k].cache # None, files[k].cache \in DOMAIN disk
                 PROVE  files[k].cache \in DOMAIN disk'
      BY <1>1 DEF Working, Held, DocRows
    <2>1. files[k].cache \in {k} \X Nat /\ k \in DOMAIN files
      BY DocRow2 DEF Shape, RowShape, Own
    <2>2. CASE k # d
      BY <1>6, <2>1, <2>2
    <2>3. CASE k = d
      BY <1>1, <1>4, <1>5, <2>1, <2>3
    <2> QED
      BY <2>2, <2>3
  <1>8. Writers'
    BY <1>1 DEF Working, Writers
  <1>9. Cut'
    <2> SUFFICES ASSUME fuse # None PROVE Cut'
      BY <1>1 DEF Cut
    <2>1. fuse.c \in {fuse.k} \X Nat /\ ~LocalTomb(fuse.k) /\ fuse.c \in DOMAIN disk
      BY DEF Working, Cut, Shape, FuseShape
    <2>2. fuse.c \in DOMAIN disk' /\ disk'[fuse.c] = disk[fuse.c]
      BY <1>1, <1>4, <2>1
    <2> QED
      BY <1>1, <1>2, <1>3, <2>1, <2>2 DEF Working, Cut
  <1>10. Running'
    <2> SUFFICES ASSUME NEW k \in DOMAIN task PROVE (RunningAt(k))'
      BY <1>1 DEF Running
    <2> QED
      BY <1>1, <1>2 DEF Working, Running, RunningAt, Window, Truncating
  <1> QED
    BY <1>7, <1>8, <1>9, <1>10 DEF Working

LEMMA DeletionWorking ==
  ASSUME Shape, Working, NEW d, DeleteStep(d)
  PROVE  Working'
  <1>1. CASE StartDelete(d) \/ RemoveRemote(d)
    BY <1>1, QuietWorking DEF StartDelete, RemoveRemote, OnlyDel
  <1> QED
    BY <1>1, DropCleanupWorking, ReplayWorking, RetireDeleteWorking DEF DeleteStep

LEMMA ImportEntriesWorking ==
  ASSUME IInv, Shape, Shape', Orderly', Working, ImportEntries
  PROVE  Working'
  <1>1. /\ delta # None /\ files' = Imported(delta.entries)
        /\ UNCHANGED <<tombs, disk, handles, fuse, task, discarded>>
    BY DEF ImportEntries, OnlyDelta
  <1>2. PICK g : Now(g)
    BY DEF IInv, Known
  <1>3. World(g) /\ Table(files, g) /\ IsFiniteSet(delta.entries) /\ \A e \in delta.entries : IsEntry(e, g)
    BY <1>1, <1>2, Worlds DEF Feed
  <1>4. Mild(files, files')
    BY <1>1, <1>3, ImportedSpares, SparesMild
  <1> QED
    BY <1>1, <1>4, MildWorking

LEMMA RemoveRowWorking ==
  ASSUME Shape, Shape', Orderly, Orderly', Working, RemoveRow
  PROVE  Working'
  <1>1. /\ delta # None /\ delta.pc = "remove" /\ files' = Without(files, delta.row)
        /\ UNCHANGED <<tombs, disk, handles, fuse, task, discarded>>
    BY DEF RemoveRow, OnlyDelta
  <1>2. Mild(files, files')
    BY <1>1 DEF Orderly, RemovalsHeed, Mild, Like, Without
  <1> QED
    BY <1>1, <1>2, MildWorking

LEMMA RefreshWorking ==
  ASSUME IInv, Shape, Shape', Orderly, Orderly', Working, DeltaStep
  PROVE  Working'
  <1>1. CASE ListDelta \/ AdvanceLink \/ \E i \in unseen : CheckDeleted(i)
    BY <1>1, QuietWorking DEF ListDelta, AdvanceLink, CheckDeleted, OnlyDelta
  <1> QED
    BY <1>1, ImportEntriesWorking, RemoveRowWorking DEF DeltaStep

LEMMA RemoteWorking ==
  ASSUME Working, RemoteStep
  PROVE  Working'
  <1>1. UNCHANGED <<files, tombs, disk, handles, fuse, task>> /\ discarded \subseteq discarded'
    BY DEF RemoteStep, RemoteCreate, RemoteEdit, RemoteDelete
  <1> QED
    BY <1>1, QuietWorking

\* FUSE handlers.
LEMMA StillRunning ==
  ASSUME Running, task' = task,
         \A j \in DOMAIN task :
           task[j].pc # "import" /\ j \in DOMAIN files /\ RunningAt(j) =>
             IF j \in DOMAIN files'
               THEN /\ files'[j].cache = files[j].cache /\ files'[j].up.path = files[j].up.path
                    /\ files'[j].state \in Protected \/ (Window(j))'
               ELSE (LocalTomb(j))',
         \A j \in DOMAIN task :
           task[j].pc # "import" /\ j \notin DOMAIN files /\ LocalTomb(j) =>
             j \notin DOMAIN files' /\ (LocalTomb(j))'
  PROVE  Running'
  <1> SUFFICES ASSUME NEW j \in DOMAIN task PROVE (RunningAt(j))'
    BY DEF Running
  <1>1. RunningAt(j)
    BY DEF Running
  <1>2. CASE task[j].pc = "import"
    BY <1>2 DEF RunningAt, Copying
  <1>3. CASE task[j].pc # "import" /\ j \in DOMAIN files
    <2>1. files[j].cache = task[j].r.cache /\ (task[j].pc \in Copying => files[j].up.path = task[j].p)
      BY <1>1, <1>3 DEF RunningAt
    <2>2. CASE j \in DOMAIN files'
      BY <1>1, <1>3, <2>1, <2>2 DEF RunningAt
    <2>3. CASE j \notin DOMAIN files'
      BY <1>1, <1>3, <2>3 DEF RunningAt
    <2> QED
      BY <2>2, <2>3
  <1>4. CASE task[j].pc # "import" /\ j \notin DOMAIN files
    <2>1. LocalTomb(j)
      BY <1>1, <1>4 DEF RunningAt
    <2>2. j \notin DOMAIN files' /\ (LocalTomb(j))'
      BY <1>4, <2>1
    <2> QED
      BY <1>4, <2>2 DEF RunningAt
  <1> QED
    BY <1>2, <1>3, <1>4

LEMMA OpenCachedWorking ==
  ASSUME Shape, Working, NEW h, OpenCached(h)
  PROVE  Working'
  <1>1. /\ UNCHANGED <<files, tombs, disk, fuse, task, discarded>>
        /\ \E k, r, c : c # None /\ handles' = With(handles, h, Opened(k, c, r, FALSE))
    BY DEF OpenCached, FuseOnly, HasExistingCache, CacheExists
  <1>2. Writers'
    BY <1>1 DEF Working, Writers, With, Opened
  <1>3. Held'
    BY <1>1 DEF Working, Held, DocRows
  <1>4. Cut'
    BY <1>1 DEF Working, Cut, LocalTomb
  <1>5. Running'
    BY <1>1 DEF Working, Running, RunningAt, LocalTomb, Window, Truncating
  <1> QED
    BY <1>2, <1>3, <1>4, <1>5 DEF Working

LEMMA OpenInvalidWorking ==
  ASSUME Shape, Shape', Orderly', Working, OpenInvalid
  PROVE  Working'
  <1>1. PICK k \in RowAt(files, Doc) :
          /\ files[k].state = "cached" /\ CacheExists(files[k])
          /\ files' = [files EXCEPT ![k].state = "online", ![k].cache = None, ![k].gen = @ + 1]
    BY DEF OpenInvalid
  <1>2. UNCHANGED <<tombs, disk, handles, fuse, task, discarded>>
    BY DEF OpenInvalid, FuseOnly
  <1>3. k \in DOMAIN files /\ DOMAIN files[k] = RowFields
    BY DEF RowAt, Shape, RowShape
  <1>4. Mild(files, files')
    BY <1>1, <1>3 DEF Mild, Like, RowFields, Protected
  <1> QED
    BY <1>2, <1>4, MildWorking

\* The version that an open finds is not the row's: it is imported.
OnlineRow(fs, k) == [fs EXCEPT ![k].state = "online", ![k].cache = None]
Outrun(k) ==
  /\ k \in DocRows /\ k \in DOMAIN files /\ files[k].state \in {"online", "cached"}
  /\ ~HasExistingCache(files[k])
  /\ files[k].cloud \in DOMAIN cloud /\ cloud[files[k].cloud].etag # files[k].etag
  /\ UNCHANGED <<tombs, disk, handles, fuse, task, discarded>>
  /\ Spares(OnlineRow(files, k), files', tombs, {Entry(cloud, files[k].cloud)})

LEMMA Outruns ==
  ASSUME NEW g, Now(g), NEW k \in DocRows,
         files' = Upsert(OnlineRow(files, k), tombs, Entry(cloud, files[k].cloud)),
         files[k].cloud \in DOMAIN cloud
  PROVE  Spares(OnlineRow(files, k), files', tombs, {Entry(cloud, files[k].cloud)})
  <1> DEFINE fs == OnlineRow(files, k)
             e == Entry(cloud, files[k].cloud)
  <1>1. k \in DOMAIN files /\ DOMAIN files[k] = RowFields
    BY DocRow DEF DocRows
  <1>2. PICK up, gen : up = files[k].up /\ gen = files[k].gen
    OBVIOUS
  <1>3. fs = [files EXCEPT ![k] = [files[k] EXCEPT !.state = "online", !.cache = None,
                                                   !.up = up, !.gen = gen]]
    BY <1>1, <1>2 DEF RowFields, OnlineRow
  <1>4. IsEntry(e, g)
    BY Facts, DriveEntry
  <1> HIDE DEF fs, e
  <1>5. Kept(files, fs, g)
    <2>1. files[k].gen \in Nat
      BY DocRow DEF DocRows
    <2> QED
      BY <1>1, <1>2, <1>3, <2>1, Facts, DetachKept
  <1>6. Table(fs, g)
    BY <1>5, Facts, KeptCore DEF Core
  <1>7. Spares(fs, files', tombs, {e})
    BY <1>4, <1>6, Facts, UpsertSpares DEF fs, e
  <1> QED
    BY <1>7 DEF fs, e

LEMMA OutrunWorking ==
  ASSUME Shape, Shape', Orderly', Working, NEW k, Outrun(k)
  PROVE  Working'
  <1> DEFINE fs == OnlineRow(files, k)
  <1>1. DOMAIN files[k] = RowFields
    BY DEF Outrun, Shape, RowShape
  <1>2. Mild(files, fs)
    BY <1>1 DEF Outrun, OnlineRow, Mild, Like, RowFields, Protected
  <1>3. Mild(fs, files')
    BY SparesMild DEF Outrun
  <1> HIDE DEF fs
  <1>4. Mild(files, files')
    BY <1>2, <1>3 DEF Mild, Like
  <1> QED
    BY <1>4, MildWorking DEF Outrun

\* The version is the row's: its bytes are downloaded.
Downloads(h, k, c) ==
  /\ k \in DocRows /\ k \in DOMAIN files /\ files[k].state \in {"online", "cached"}
  /\ c \in {k} \X Nat /\ c # None /\ fuse = None
  /\ ~HasExistingCache(files[k])
  /\ files[k].cloud \in DOMAIN cloud /\ cloud[files[k].cloud].etag = files[k].etag
  /\ UNCHANGED <<tombs, fuse, task, discarded>>
  /\ files' = MarkCached(files, k, c)
  /\ disk' = With(disk, c, files[k].etag.data)
  /\ handles' = With(handles, h, Opened(k, c, UploadEtag(files[k]), FALSE))

LEMMA OpenOnlineCases ==
  ASSUME IInv, NEW h, OpenOnline(h)
  PROVE  \E k : Outrun(k) \/ \E c : Downloads(h, k, c)
  <1>1. PICK k \in RowAt(files, Doc) :
          LET r == files[k]  c == DownloadCache(k, r.gen)
          IN /\ ~HasExistingCache(r)
             /\ r.state \in {"online", "cached"}
             /\ r.cloud \in DOMAIN cloud
             /\ IF cloud[r.cloud].etag = r.etag
                  THEN /\ files' = MarkCached(files, k, c)
                       /\ disk' = With(disk, c, r.etag.data)
                       /\ handles' = With(handles, h, Opened(k, c, UploadEtag(r), FALSE))
                  ELSE /\ files' = Upsert([files EXCEPT ![k].state = "online", ![k].cache = None],
                                          tombs, Entry(cloud, r.cloud))
                       /\ UNCHANGED <<disk, handles>>
    BY DEF OpenOnline
  <1>2. UNCHANGED <<tombs, fuse, task, discarded>> /\ fuse = None
    BY DEF OpenOnline, FuseOnly
  <1>3. PICK g : Now(g)
    BY DEF IInv, Known
  <1>4. k \in DocRows /\ k \in DOMAIN files
    BY <1>3, DocRow DEF DocRows
  <1>5. CASE cloud[files[k].cloud].etag = files[k].etag
    <2> DEFINE c == DownloadCache(k, files[k].gen)
    <2>1. c \in {k} \X Nat /\ c # None
      <3>1. files[k].gen \in Nat /\ k \in IdsIn(g)
        BY <1>3, DocRow
      <3> QED
        BY <1>3, <3>1, Facts, OwnName DEF DownloadCache
    <2> HIDE DEF c
    <2>2. Downloads(h, k, c)
      BY <1>1, <1>2, <1>4, <1>5, <2>1 DEF Downloads, c
    <2> QED
      BY <2>2
  <1>6. CASE cloud[files[k].cloud].etag # files[k].etag
    <2>1. files' = Upsert(OnlineRow(files, k), tombs, Entry(cloud, files[k].cloud))
      BY <1>1, <1>6 DEF OnlineRow
    <2>2. Spares(OnlineRow(files, k), files', tombs, {Entry(cloud, files[k].cloud)})
      BY <1>1, <1>3, <1>4, <2>1, Outruns
    <2> QED
      BY <1>1, <1>2, <1>4, <1>6, <2>2 DEF Outrun
  <1> QED
    BY <1>5, <1>6

LEMMA DownloadsWorking ==
  ASSUME Shape, Shape', Working, NEW h, NEW k, NEW c, Downloads(h, k, c)
  PROVE  Working'
  <1>1. /\ k \in DOMAIN files /\ k \in DocRows /\ DOMAIN files[k] = RowFields
        /\ UNCHANGED <<tombs, fuse, task, discarded>> /\ fuse = None
    BY DEF Downloads, Shape, RowShape
  <1>2. files[k].cache = None /\ files[k].state \notin Protected
    BY <1>1 DEF Downloads, Working, Held, HasExistingCache, CacheExists, Protected
  <1>3. /\ DOMAIN files' = DOMAIN files /\ \A j \in DOMAIN files \ {k} : files'[j] = files[j]
        /\ files'[k].state = "cached" /\ files'[k].cache = c /\ files'[k].up = files[k].up
    BY <1>1 DEF Downloads, MarkCached, RowFields
  <1>4. DOMAIN disk' = DOMAIN disk \cup {c}
    BY DEF Downloads, With
  <1>5. Held'
    <2> SUFFICES ASSUME NEW j \in DocRows'
                 PROVE  /\ files'[j].cache # None => files'[j].cache \in DOMAIN disk'
                        /\ files'[j].state = "online" => files'[j].cache = None
                        /\ files'[j].state \in Protected => files'[j].cache # None
      BY DEF Held
    <2>1. CASE j # k
      BY <1>3, <1>4, <2>1 DEF Working, Held, DocRows, RowAt
    <2>2. CASE j = k
      BY <1>3, <1>4, <2>2 DEF Protected
    <2> QED
      BY <2>1, <2>2
  <1>6. Writers'
    <2> SUFFICES ASSUME NEW g \in DOMAIN handles'
                 PROVE  /\ handles'[g].c # None
                        /\ handles'[g].changed /\ ~handles'[g].unlinked =>
                             /\ handles'[g].k \in DOMAIN files'
                             /\ files'[handles'[g].k].state = "writing"
                             /\ files'[handles'[g].k].cache = handles'[g].c
      BY DEF Writers
    <2>1. CASE g = h
      BY <2>1 DEF Downloads, With, Opened
    <2>2. CASE g # h
      <3>1. g \in DOMAIN handles /\ handles'[g] = handles[g]
        BY <2>2 DEF Downloads, With
      <3> QED
        BY <1>2, <1>3, <3>1 DEF Working, Writers, Protected
    <2> QED
      BY <2>1, <2>2
  <1>7. Cut'
    BY <1>1 DEF Cut
  <1>8. Running'
    <2>1. \A j \in DOMAIN task : task[j].pc # "import" /\ j \in DOMAIN files /\ RunningAt(j) => j # k
      BY <1>1, <1>2 DEF RunningAt, Window, Truncating
    <2> QED
      BY <1>1, <1>3, <2>1, StillRunning DEF Working, LocalTomb, RunningAt, Window, Truncating
  <1> QED
    BY <1>5, <1>6, <1>7, <1>8 DEF Working

LEMMA OpenOnlineWorking ==
  ASSUME IInv, Shape, Shape', Orderly', Working, NEW h, OpenOnline(h)
  PROVE  Working'
  BY OpenOnlineCases, DownloadsWorking, OutrunWorking

LEMMA CreateWorking ==
  ASSUME Shape, Shape', Working, NEW h, Create(h)
  PROVE  Working'
  <1> DEFINE k == LocalIdentity(made')
             c == OwnCache(k)
  <1>1. /\ RowAt(files, Doc) = {} /\ files' = With(files, k, LocalRow(Doc, c))
        /\ disk' = With(disk, c, {}) /\ handles' = With(handles, h, Opened(k, c, None, TRUE))
        /\ UNCHANGED <<tombs, fuse, task, discarded>> /\ fuse = None
    BY DEF Create, FuseOnly
  <1>2. k \notin Locals
    BY DEF Create, Shape, CloudShape
  <1>3. k \notin DOMAIN files /\ k \notin DOMAIN task
    BY <1>2 DEF Shape, RowShape, TaskShape
  <1>4. c # None
    <2>1. c \in DOMAIN disk'
      BY <1>1 DEF With
    <2> QED
      BY <2>1 DEF Shape, CloudShape
  <1> HIDE DEF k, c
  <1>5. /\ DOMAIN files' = DOMAIN files \cup {k} /\ \A j \in DOMAIN files : files'[j] = files[j]
        /\ files'[k] = LocalRow(Doc, c) /\ c \in DOMAIN disk'
    BY <1>1, <1>3 DEF With
  <1>6. Held'
    BY <1>1, <1>4, <1>5 DEF Held, DocRows, RowAt, LocalRow
  <1>7. Writers'
    <2> SUFFICES ASSUME NEW g \in DOMAIN handles'
                 PROVE  /\ handles'[g].c # None
                        /\ handles'[g].changed /\ ~handles'[g].unlinked =>
                             /\ handles'[g].k \in DOMAIN files'
                             /\ files'[handles'[g].k].state = "writing"
                             /\ files'[handles'[g].k].cache = handles'[g].c
      BY DEF Writers
    <2>1. CASE g = h
      BY <1>1, <1>4, <1>5, <2>1 DEF With, Opened, LocalRow
    <2>2. CASE g # h
      BY <1>1, <1>5, <2>2 DEF With, Working, Writers
    <2> QED
      BY <2>1, <2>2
  <1>8. Cut'
    BY <1>1 DEF Cut
  <1>9. Running'
    <2>1. \A j \in DOMAIN task : j \notin DOMAIN files /\ j # k
      BY <1>1, <1>3, DocRow2 DEF DocRows
    <2> QED
      BY <1>1, <1>5, <2>1, StillRunning DEF Working, LocalTomb
  <1> QED
    BY <1>6, <1>7, <1>8, <1>9 DEF Working

\* The bytes of a truncation: what row k holds is given up.
Truncates(k, c, w, seen) ==
  /\ k \in DocRows /\ k \in DOMAIN files /\ fuse = None
  /\ c \in {k} \X Nat /\ files[k].cache \in {None, c} /\ c # None
  /\ w = writes.last + 1
  /\ seen = IF CacheExists(files[k]) THEN disk[c]
            ELSE IF files[k].etag = None THEN {} ELSE files[k].etag.data
  /\ disk' = With(disk, c, seen \cup {w}) /\ discarded' = discarded \cup seen
  /\ fuse' # None /\ fuse' \in HandlerType /\ fuse'.at = "mark" /\ fuse'.k = k /\ fuse'.c = c /\ fuse'.w = w
  /\ LocalWrite
  /\ UNCHANGED <<files, tombs, handles, task, del, cloud, made, unseen, delta>>

LEMMA TruncateCases ==
  ASSUME IInv, Shape, Shape', NEW h \in Handles \cup {None}, TruncateBytes(h)
  PROVE  \E k, c, w, seen : Truncates(k, c, w, seen)
  <1>1. PICK k \in RowAt(files, Doc) :
          LET c == TruncCache(k)
              seen == IF CacheExists(files[k]) THEN disk[c]
                      ELSE IF files[k].etag = None THEN {} ELSE files[k].etag.data
          IN /\ disk' = With(disk, c, seen \cup {NextWrite})
             /\ discarded' = discarded \cup seen
             /\ fuse' = [at |-> "mark", k |-> k, c |-> c, h |-> h,
                           base |-> UploadEtag(files[k]), w |-> NextWrite]
    BY DEF TruncateBytes
  <1> DEFINE c == TruncCache(k)
             seen == IF CacheExists(files[k]) THEN disk[c]
                     ELSE IF files[k].etag = None THEN {} ELSE files[k].etag.data
  <1>2. k \in DOMAIN files /\ k \in DocRows /\ Own(k, files[k].cache)
    BY DEF DocRows, RowAt, Shape, RowShape
  <1>3. c \in {k} \X Nat /\ files[k].cache \in {None, c}
    BY <1>2 DEF TruncCache, OwnCache, Own
  <1>4. /\ disk' = With(disk, c, seen \cup {NextWrite})
        /\ discarded' = discarded \cup seen
        /\ fuse' = [at |-> "mark", k |-> k, c |-> c, h |-> h,
                           base |-> UploadEtag(files[k]), w |-> NextWrite]
    BY <1>1
  <1>5. c # None
    <2>1. c \in DOMAIN disk'
      BY <1>4 DEF With
    <2> QED
      BY <2>1 DEF Shape, CloudShape
  <1>6. fuse' # None /\ fuse' \in HandlerType
    <2>1. PICK g : Now(g)
      BY DEF IInv, Known
    <2>2. /\ k \in {"c", "l"} \X Nat /\ files[k].etag \in {None} \cup [rev : Nat, data : SUBSET Nat]
      <3>1. files[k].etag \in EtagsIn(g) /\ k \in IdsIn(g) /\ World(g)
        BY <2>1, Facts, DocRow
      <3>2. EtagsIn(g) \subseteq {None} \cup [rev : Nat, data : SUBSET Nat]
        <4>1. ContentsIn(g) \subseteq SUBSET Nat
          BY <3>1 DEF ContentsIn, World
        <4> QED
          BY <4>1 DEF EtagsIn
      <3>3. k \in AllIds
        BY <3>1, Identities
      <3> QED
        BY <3>1, <3>2, <3>3 DEF AllIds
    <2>3. c \in ({"c", "l"} \X Nat) \X Nat
      BY <1>3, <2>2
    <2>4. UploadEtag(files[k]) \in {None} \cup [rev : Nat, data : SUBSET Nat]
      BY <2>2 DEF UploadEtag
    <2>5. NextWrite \in Nat
      BY DEF NextWrite, Shape, CloudShape
    <2> HIDE DEF c
    <2>6. fuse' \in HandlerType
      BY <1>4, <2>2, <2>3, <2>4, <2>5 DEF HandlerType
    <2> QED
      BY <2>6, NoneAssumption DEF HandlerType
  <1>7. /\ UNCHANGED <<files, tombs, handles, task, del, cloud, made, unseen, delta>> /\ fuse = None
        /\ LocalWrite
    BY DEF TruncateBytes, FuseOnly, NoRequest
  <1> HIDE DEF c, seen
  <1>8. Truncates(k, c, NextWrite, seen)
    BY <1>2, <1>3, <1>4, <1>5, <1>6, <1>7 DEF Truncates, NextWrite, seen
  <1> QED
    BY <1>8

LEMMA TruncatesWorking ==
  ASSUME Shape, Working, NEW k, NEW c, NEW w, NEW seen, Truncates(k, c, w, seen)
  PROVE  Working'
  <1>1. /\ k \in DocRows /\ k \in DOMAIN files /\ files[k].cache \in {None, c} /\ c # None
        /\ disk' = With(disk, c, seen \cup {w}) /\ discarded' = discarded \cup seen
        /\ fuse' \in HandlerType /\ fuse'.k = k /\ fuse'.c = c /\ fuse'.w = w /\ fuse = None
        /\ UNCHANGED <<files, tombs, handles, task>>
    BY DEF Truncates
  <1>2. DOMAIN disk' = DOMAIN disk \cup {c} /\ disk'[c] = seen \cup {w}
    BY <1>1 DEF With
  <1>3. Held'
    BY <1>1, <1>2 DEF Working, Held, DocRows
  <1>4. Writers'
    BY <1>1 DEF Working, Writers
  <1>5. Cut'
    <2>1. ~(LocalTomb(k))'
      BY <1>1 DEF LocalTomb, Shape, TombShape
    <2> QED
      BY <1>1, <1>2, <2>1 DEF Cut, LocalTomb
  <1>6. Running'
    BY <1>1, StillRunning DEF Working, LocalTomb, RunningAt, Window, Truncating
  <1> QED
    BY <1>3, <1>4, <1>5, <1>6 DEF Working

LEMMA TruncateMarkWorking ==
  ASSUME Shape, Shape', Orderly, Working, TruncateMark
  PROVE  Working'
  <1> DEFINE k == fuse.k
             c == fuse.c
  <1>1. /\ fuse # None /\ fuse.at = "mark" /\ files' = MarkCached(files, k, c)
        /\ fuse' = [fuse EXCEPT !.at = "claim"]
        /\ UNCHANGED <<tombs, disk, handles, task, discarded>>
    BY DEF TruncateMark
  <1>2. /\ fuse \in HandlerType /\ c \in DOMAIN disk /\ disk[c] \subseteq discarded \cup {fuse.w}
        /\ ~LocalTomb(k) /\ (k \in DOMAIN files => files[k].cache \in {None, c} /\ k \in DocRows)
    BY <1>1, DocRow2 DEF Working, Cut
  <1>3. fuse' \in HandlerType /\ fuse' # None /\ fuse'.k = k /\ fuse'.c = c /\ fuse'.w = fuse.w
        /\ fuse'.at = "claim"
    <2>1. fuse' \in HandlerType /\ fuse'.k = k /\ fuse'.c = c /\ fuse'.w = fuse.w /\ fuse'.at = "claim"
      BY <1>1, <1>2 DEF HandlerType
    <2> QED
      BY <2>1, NoneAssumption DEF HandlerType
  <1>4. /\ DOMAIN files' = DOMAIN files /\ \A j \in DOMAIN files \ {k} : files'[j] = files[j]
        /\ k \in DOMAIN files =>
             files'[k].state = "cached" /\ files'[k].cache = c /\ files'[k].up = files[k].up
    <2>1. k \in DOMAIN files => DOMAIN files[k] = RowFields
      BY DEF Shape, RowShape
    <2> QED
      BY <1>1, <2>1 DEF MarkCached, RowFields
  <1>5. c # None
    BY <1>1 DEF Shape, FuseShape
  <1>6. \A h \in DOMAIN handles : handles[h].changed => handles[h].k # k
    BY <1>1 DEF Orderly, WriteAlone, Truncating
  <1> HIDE DEF k, c
  <1>7. Held'
    <2> SUFFICES ASSUME NEW j \in DocRows'
                 PROVE  /\ files'[j].cache # None => files'[j].cache \in DOMAIN disk'
                        /\ files'[j].state = "online" => files'[j].cache = None
                        /\ files'[j].state \in Protected => files'[j].cache # None
      BY DEF Held
    <2>1. CASE j # k
      BY <1>1, <1>4, <2>1 DEF Working, Held, DocRows, RowAt
    <2>2. CASE j = k
      BY <1>1, <1>2, <1>4, <2>2 DEF Protected, DocRows, RowAt
    <2> QED
      BY <2>1, <2>2
  <1>8. Writers'
    BY <1>1, <1>4, <1>6 DEF Working, Writers
  <1>9. Cut'
    BY <1>1, <1>2, <1>3, <1>4 DEF Cut, LocalTomb
  <1>10. Running'
    <2>1. ASSUME NEW j \in DOMAIN task, task[j].pc # "import", j \in DOMAIN files, RunningAt(j)
          PROVE  /\ j \in DOMAIN files'
                 /\ files'[j].cache = files[j].cache /\ files'[j].up.path = files[j].up.path
                 /\ files'[j].state \in Protected \/ (Window(j))'
      <3>1. CASE j # k
        BY <1>1, <1>3, <1>4, <2>1, <3>1 DEF RunningAt, Window, Truncating, k
      <3>2. CASE j = k
        <4>1. files[k].cache # None
          BY <2>1, <3>2 DEF RunningAt, Shape, TaskShape
        <4> QED
          BY <1>2, <1>3, <1>4, <2>1, <3>2, <4>1 DEF Window, Truncating
      <3> QED
        BY <3>1, <3>2
    <2> QED
      BY <1>1, <1>4, <2>1, StillRunning DEF Working, LocalTomb
  <1> QED
    BY <1>7, <1>8, <1>9, <1>10 DEF Working

\* The row that a handler leaves with local bytes, and the handles after it.
Leaves(k, s) ==
  /\ k \in DocRows /\ k \in DOMAIN files /\ s \in {"writing", "dirty"}
  /\ DOMAIN files' = DOMAIN files /\ \A j \in DOMAIN files \ {k} : files'[j] = files[j]
  /\ files'[k].state = s /\ files'[k].cache = files[k].cache /\ files'[k].up = files[k].up
  /\ files[k].cache # None /\ files[k].cache \in DOMAIN disk
  /\ files'[k].cloud = files[k].cloud /\ files'[k].etag = files[k].etag
  /\ files'[k].path = files[k].path

LEMMA LeavesWorking ==
  ASSUME Shape, Shape', Working, NEW k, NEW s, Leaves(k, s), fuse' = None,
         UNCHANGED <<tombs, task>>, DOMAIN disk' = DOMAIN disk,
         \A h \in DOMAIN handles' :
           /\ handles'[h].c # None
           /\ handles'[h].changed /\ ~handles'[h].unlinked =>
                IF handles'[h].k = k THEN s = "writing" /\ handles'[h].c = files[k].cache
                ELSE /\ h \in DOMAIN handles /\ handles[h].changed /\ ~handles[h].unlinked
                     /\ handles'[h].k = handles[h].k /\ handles'[h].c = handles[h].c
  PROVE  Working'
  <1>1. /\ k \in DocRows /\ k \in DOMAIN files /\ s \in Protected
        /\ DOMAIN files' = DOMAIN files /\ \A j \in DOMAIN files \ {k} : files'[j] = files[j]
        /\ files'[k].state = s /\ files'[k].cache = files[k].cache /\ files'[k].up = files[k].up
        /\ files[k].cache # None /\ files[k].cache \in DOMAIN disk
    BY DEF Leaves, Protected
  <1>2. Held'
    <2> SUFFICES ASSUME NEW j \in DocRows'
                 PROVE  /\ files'[j].cache # None => files'[j].cache \in DOMAIN disk'
                        /\ files'[j].state = "online" => files'[j].cache = None
                        /\ files'[j].state \in Protected => files'[j].cache # None
      BY DEF Held
    <2>1. CASE j # k
      BY <1>1, <2>1 DEF Working, Held, DocRows, RowAt
    <2>2. CASE j = k
      BY <1>1, <2>2 DEF Leaves, DocRows, RowAt
    <2> QED
      BY <2>1, <2>2
  <1>3. Writers'
    BY <1>1 DEF Working, Writers
  <1>4. Cut'
    BY DEF Cut
  <1>5. Running'
    <2>1. \A j \in DOMAIN task : j \in DOMAIN files => j = k
      BY <1>1, DocRow2
    <2> QED
      BY <1>1, <2>1, StillRunning DEF Working, LocalTomb
  <1> QED
    BY <1>2, <1>3, <1>4, <1>5 DEF Working

LEMMA TruncateClaims ==
  ASSUME Shape, Orderly, Working, TruncateClaim
  PROVE  /\ Leaves(fuse.k, IF fuse.h = None THEN "dirty" ELSE "writing")
         /\ files[fuse.k].cache = fuse.c /\ fuse # None /\ fuse' = None
         /\ UNCHANGED <<tombs, disk, task, discarded, writes, del, cloud, made, unseen, delta>>
         /\ handles' = IF fuse.h = None THEN handles
                       ELSE With(handles, fuse.h, Opened(fuse.k, fuse.c, fuse.base, TRUE))
  <1>1. fuse # None /\ fuse.at = "claim" /\ fuse.c # None
    BY DEF TruncateClaim, Shape, FuseShape
  <1>2. fuse.k \in DOMAIN files /\ files[fuse.k].cache = fuse.c /\ fuse.k \in DocRows
    BY <1>1, DocRow2 DEF Orderly, TruncateAlone
  <1>3. DOMAIN files[fuse.k] = RowFields /\ fuse.c \in DOMAIN disk
    BY <1>1, <1>2 DEF Shape, RowShape, Working, Cut
  <1>4. /\ fuse' = None
        /\ UNCHANGED <<tombs, disk, task, discarded, writes, del, cloud, made, unseen, delta>>
    BY DEF TruncateClaim, NoRequest
  <1>5. CASE fuse.h = None
    <2>1. PICK s \in {0, 1} : files' = MarkDirty(files, fuse.k, s)
      BY <1>2, <1>5 DEF TruncateClaim
    <2>2. handles' = handles
      BY <1>2, <1>5 DEF TruncateClaim
    <2> QED
      BY <1>1, <1>2, <1>3, <1>4, <1>5, <2>1, <2>2 DEF MarkDirty, Leaves, RowFields
  <1>6. CASE fuse.h # None
    <2>1. /\ files' = MarkState(files, fuse.k, "writing")
          /\ handles' = With(handles, fuse.h, Opened(fuse.k, fuse.c, fuse.base, TRUE))
      BY <1>2, <1>6 DEF TruncateClaim
    <2> QED
      BY <1>1, <1>2, <1>3, <1>4, <1>6, <2>1 DEF MarkState, Leaves, RowFields
  <1> QED
    BY <1>5, <1>6

LEMMA TruncateClaimWorking ==
  ASSUME Shape, Shape', Orderly, Working, TruncateClaim
  PROVE  Working'
  <1> DEFINE s == IF fuse.h = None THEN "dirty" ELSE "writing"
  <1>1. /\ Leaves(fuse.k, s) /\ files[fuse.k].cache = fuse.c /\ fuse # None /\ fuse' = None
        /\ UNCHANGED <<tombs, disk, task>>
        /\ handles' = IF fuse.h = None THEN handles
                      ELSE With(handles, fuse.h, Opened(fuse.k, fuse.c, fuse.base, TRUE))
    BY TruncateClaims
  <1>2. \A h \in DOMAIN handles : handles[h].changed => handles[h].k # fuse.k
    BY <1>1 DEF Orderly, WriteAlone, Truncating
  <1>3. fuse.c # None
    BY <1>1 DEF Shape, FuseShape
  <1>4. \A h \in DOMAIN handles' :
           /\ handles'[h].c # None
           /\ handles'[h].changed /\ ~handles'[h].unlinked =>
                IF handles'[h].k = fuse.k THEN s = "writing" /\ handles'[h].c = files[fuse.k].cache
                ELSE /\ h \in DOMAIN handles /\ handles[h].changed /\ ~handles[h].unlinked
                     /\ handles'[h].k = handles[h].k /\ handles'[h].c = handles[h].c
    <2> SUFFICES ASSUME NEW h \in DOMAIN handles' PROVE <1>4!(h)
      OBVIOUS
    <2>1. CASE fuse.h # None /\ h = fuse.h
      BY <1>1, <1>3, <2>1 DEF With, Opened
    <2>2. CASE ~(fuse.h # None /\ h = fuse.h)
      <3>1. h \in DOMAIN handles /\ handles'[h] = handles[h]
        BY <1>1, <2>2 DEF With
      <3> QED
        BY <1>2, <3>1 DEF Working, Writers
    <2> QED
      BY <2>1, <2>2
  <1> HIDE DEF s
  <1> QED
    BY <1>1, <1>4, LeavesWorking

\* A write by a program: the row is in state writing from then on.
Writes(h, k, c) ==
  /\ h \in DOMAIN handles /\ handles[h].k = k /\ handles[h].c = c /\ ~handles[h].unlinked
  /\ Leaves(k, "writing") /\ files[k].cache = c /\ c # None /\ fuse = None
  /\ handles[h].changed \/ CanClaimWrite(files, k, files[k])
  /\ handles[h].changed => files' = files
  /\ LocalWrite /\ disk' = [disk EXCEPT ![c] = @ \cup {NextWrite}]
  /\ handles' = [handles EXCEPT ![h].changed = TRUE]
  /\ UNCHANGED <<tombs, fuse, task, del, cloud, made, unseen, delta, discarded>>

LEMMA WriteCases ==
  ASSUME Shape, Working, NEW h, Write(h)
  PROVE  Writes(h, handles[h].k, handles[h].c)
  <1> DEFINE k == handles[h].k
             c == handles[h].c
  <1>1. /\ h \in DOMAIN handles /\ ~handles[h].unlinked /\ fuse = None /\ LocalWrite
        /\ disk' = [disk EXCEPT ![c] = @ \cup {NextWrite}]
        /\ handles' = [handles EXCEPT ![h].changed = TRUE]
        /\ UNCHANGED <<tombs, fuse, task, del, cloud, made, unseen, delta, discarded>>
    BY DEF Write, FuseOnly, NoRequest
  <1>2. c # None
    BY <1>1 DEF Working, Writers
  <1>3. CASE handles[h].changed
    <2>1. k \in DOMAIN files /\ k \in DocRows /\ files[k].state = "writing" /\ files[k].cache = c
          /\ files' = files
      BY <1>1, <1>3, DocRow2 DEF Working, Writers, Write
    <2> QED
      BY <1>1, <1>2, <1>3, <2>1 DEF Writes, Leaves, Working, Held
  <1>4. CASE ~handles[h].changed
    <2>1. /\ k \in DOMAIN files /\ files[k].cache = c /\ CanClaimWrite(files, k, files[k])
          /\ files' = MarkState(files, k, "writing")
      BY <1>4 DEF Write, ClaimWrite
    <2>2. k \in DocRows /\ DOMAIN files[k] = RowFields
      BY <1>1, <2>1, DocRow2 DEF Shape, RowShape
    <2>3. Leaves(k, "writing")
      BY <1>2, <2>1, <2>2 DEF MarkState, Leaves, RowFields, Working, Held
    <2> HIDE DEF k, c
    <2>4. Writes(h, k, c)
      BY <1>1, <1>2, <1>4, <2>1, <2>3 DEF Writes, k, c
    <2> QED
      BY <2>4 DEF k, c
  <1> QED
    BY <1>3, <1>4

LEMMA WriteWorking ==
  ASSUME Shape, Shape', Working, NEW h, Write(h)
  PROVE  Working'
  <1> DEFINE k == handles[h].k
             c == handles[h].c
  <1>1. Writes(h, k, c)
    BY WriteCases
  <1>2. DOMAIN handles[h] = HandleFields
    BY <1>1 DEF Writes, Shape, FuseShape
  <1>3. /\ DOMAIN handles' = DOMAIN handles
        /\ handles'[h].k = k /\ handles'[h].c = c
        /\ \A x \in DOMAIN handles \ {h} : handles'[x] = handles[x]
    BY <1>1, <1>2 DEF Writes, HandleFields
  <1>4. \A x \in DOMAIN handles' :
           /\ handles'[x].c # None
           /\ handles'[x].changed /\ ~handles'[x].unlinked =>
                IF handles'[x].k = k THEN "writing" = "writing" /\ handles'[x].c = files[k].cache
                ELSE /\ x \in DOMAIN handles /\ handles[x].changed /\ ~handles[x].unlinked
                     /\ handles'[x].k = handles[x].k /\ handles'[x].c = handles[x].c
    BY <1>1, <1>3 DEF Writes, Working, Writers
  <1> HIDE DEF k, c
  <1> QED
    BY <1>1, <1>4, LeavesWorking DEF Writes

LEMMA ReleaseCases ==
  ASSUME Shape, Working, NEW h, Release(h)
  PROVE  LET k == handles[h].k
         IN /\ h \in DOMAIN handles /\ handles' = Without(handles, h) /\ fuse = None
            /\ UNCHANGED <<tombs, disk, fuse, task, del, cloud, made, unseen, delta, writes, discarded>>
            /\ \/ files' = files /\ ~(handles[h].changed /\ ~handles[h].unlinked)
               \/ Leaves(k, "dirty") /\ files[k].state = "writing"
                  /\ handles[h].changed /\ ~handles[h].unlinked
  <1> DEFINE k == handles[h].k
  <1>1. /\ h \in DOMAIN handles /\ handles' = Without(handles, h) /\ fuse = None
        /\ UNCHANGED <<tombs, disk, fuse, task, del, cloud, made, unseen, delta, writes, discarded>>
    BY DEF Release, FuseOnly, NoRequest
  <1>2. CASE handles[h].changed /\ ~handles[h].unlinked
    <2>1. /\ k \in DOMAIN files /\ k \in DocRows /\ files[k].state = "writing"
          /\ files[k].cache = handles[h].c /\ handles[h].c # None /\ DOMAIN files[k] = RowFields
      BY <1>1, <1>2, DocRow2 DEF Working, Writers, Shape, RowShape
    <2>2. PICK s \in {0, 1} : files' = MarkDirty(files, k, s)
      BY <1>2, <2>1 DEF Release
    <2>3. Leaves(k, "dirty")
      BY <2>1, <2>2 DEF MarkDirty, Leaves, RowFields, Working, Held
    <2> QED
      BY <1>1, <1>2, <2>1, <2>3
  <1>3. CASE ~(handles[h].changed /\ ~handles[h].unlinked)
    BY <1>1, <1>3 DEF Release
  <1> QED
    BY <1>2, <1>3

LEMMA ReleaseWorking ==
  ASSUME Shape, Shape', Orderly, Working, NEW h, Release(h)
  PROVE  Working'
  <1> DEFINE k == handles[h].k
  <1>1. /\ h \in DOMAIN handles /\ handles' = Without(handles, h) /\ fuse = None
        /\ UNCHANGED <<tombs, disk, fuse, task, discarded>>
        /\ \/ files' = files
           \/ Leaves(k, "dirty") /\ handles[h].changed
    BY ReleaseCases
  <1>2. /\ \A x \in DOMAIN handles' : x # h /\ x \in DOMAIN handles /\ handles'[x] = handles[x]
    BY <1>1 DEF Without
  <1>3. CASE files' = files
    <2>1. Held'
      BY <1>1, <1>3 DEF Working, Held, DocRows
    <2>2. Writers'
      BY <1>2, <1>3 DEF Working, Writers
    <2>3. Cut'
      BY <1>1 DEF Cut
    <2>4. Running'
      BY <1>1, <1>3 DEF Working, Running, RunningAt, LocalTomb, Window, Truncating
    <2> QED
      BY <2>1, <2>2, <2>3, <2>4 DEF Working
  <1>4. CASE Leaves(k, "dirty") /\ handles[h].changed
    <2>1. \A x \in DOMAIN handles' : handles'[x].changed => handles'[x].k # k
      BY <1>1, <1>2, <1>4 DEF Orderly, WriteAlone
    <2> HIDE DEF k
    <2>2. \A x \in DOMAIN handles' :
           /\ handles'[x].c # None
           /\ handles'[x].changed /\ ~handles'[x].unlinked =>
                IF handles'[x].k = k THEN "dirty" = "writing" /\ handles'[x].c = files[k].cache
                ELSE /\ x \in DOMAIN handles /\ handles[x].changed /\ ~handles[x].unlinked
                     /\ handles'[x].k = handles[x].k /\ handles'[x].c = handles[x].c
      BY <1>2, <2>1 DEF Working, Writers
    <2> QED
      BY <1>1, <1>4, <2>2, LeavesWorking
  <1> QED
    BY <1>1, <1>3, <1>4

\* The row k is buried.
Buries(k) ==
  /\ k \in DocRows /\ k \in DOMAIN files /\ fuse = None /\ ~CommitLocked
  /\ tombs' = QueueDelete(files, tombs, k) /\ files' = Without(files, k)
  /\ handles' = [h \in DOMAIN handles |->
                   IF handles[h].k = k THEN [handles[h] EXCEPT !.unlinked = TRUE]
                   ELSE handles[h]]
  /\ discarded' = discarded \cup GivenUp(files[k])
  /\ UNCHANGED <<disk, fuse, task, del, cloud, made, unseen, delta, writes>>

LEMMA UnlinkCases ==
  ASSUME Shape, Unlink
  PROVE  \E k : Buries(k)
  BY DocRow2 DEF Unlink, FuseOnly, NoRequest, Buries, DocRows

LEMMA UnlinkWorking ==
  ASSUME Shape, Shape', Working, Unlink
  PROVE  Working'
  <1>1. PICK k : Buries(k)
    BY UnlinkCases
  <1>2. /\ k \in DocRows /\ k \in DOMAIN files /\ fuse = None /\ fuse' = None
        /\ DOMAIN files' = DOMAIN files \ {k} /\ \A j \in DOMAIN files \ {k} : files'[j] = files[j]
        /\ disk' = disk /\ task' = task
    BY <1>1 DEF Buries, Without
  <1>3. /\ DOMAIN tombs' = DOMAIN tombs \cup {k} /\ tombs'[k].local = k
        /\ \A d \in DOMAIN tombs \ {k} : tombs'[d] = tombs[d]
    BY <1>1 DEF Buries, QueueDelete, With, Tombstone
  <1>4. /\ DOMAIN handles' = DOMAIN handles
        /\ \A h \in DOMAIN handles :
             /\ handles'[h].k = handles[h].k /\ handles'[h].c = handles[h].c
             /\ handles'[h].changed = handles[h].changed
             /\ handles[h].k = k => handles'[h].unlinked
             /\ handles[h].k # k => handles'[h] = handles[h]
    BY <1>1 DEF Buries, Shape, FuseShape, HandleFields
  <1>5. Held'
    BY <1>2 DEF Working, Held, DocRows, RowAt
  <1>6. Writers'
    BY <1>2, <1>4 DEF Working, Writers
  <1>7. Cut'
    BY <1>2 DEF Cut
  <1>8. Running'
    <2>1. k # None
      BY <1>2 DEF Shape, RowShape, CloudShape
    <2>2. \A j \in DOMAIN task : j \in DOMAIN files => j = k
      BY <1>2, DocRow2
    <2> QED
      BY <1>2, <1>3, <2>1, <2>2, StillRunning DEF Working, LocalTomb
  <1> QED
    BY <1>5, <1>6, <1>7, <1>8 DEF Working

LEMMA CrashWorking ==
  ASSUME Shape, Shape', Working, Crash
  PROVE  Working'
  <1>1. PICK s \in {0, 1} :
          files' = [k \in DOMAIN files |->
                      IF files[k].state = "writing" /\ CacheExists(files[k])
                        THEN [files[k] EXCEPT !.state = "dirty", !.stamp = s] ELSE files[k]]
    BY DEF Crash
  <1>2. /\ handles' = Empty /\ fuse' = None /\ task' = Empty /\ disk' = disk
    BY DEF Crash
  <1>3. \A k \in DOMAIN files' :
          /\ k \in DOMAIN files /\ files'[k].path = files[k].path /\ files'[k].cache = files[k].cache
          /\ files'[k].state = files[k].state \/ (files[k].state = "writing" /\ files'[k].state = "dirty")
    <2> SUFFICES ASSUME NEW k \in DOMAIN files' PROVE <1>3!(k)
      OBVIOUS
    <2>1. k \in DOMAIN files /\ DOMAIN files[k] = RowFields
      BY <1>1 DEF Shape, RowShape
    <2>2. \/ files'[k] = files[k]
          \/ files[k].state = "writing" /\ files'[k] = [files[k] EXCEPT !.state = "dirty", !.stamp = s]
      BY <1>1, <2>1
    <2> QED
      BY <2>1, <2>2 DEF RowFields
  <1>4. Held'
    BY <1>2, <1>3 DEF Working, Held, DocRows, RowAt, Protected
  <1> QED
    BY <1>2, <1>4 DEF Working, Writers, Cut, Running, Empty

LEMMA FuseWorking ==
  ASSUME IInv, Shape, Shape', Orderly, Orderly', Working, FuseNext
  PROVE  Working'
  <1>1. ASSUME NEW h \in Handles,
               OpenCached(h) \/ OpenOnline(h) \/ Create(h) \/ Write(h) \/ Release(h)
        PROVE  Working'
    BY <1>1, OpenCachedWorking, OpenOnlineWorking, CreateWorking, WriteWorking, ReleaseWorking
  <1>2. ASSUME NEW h \in Handles \cup {None}, TruncateBytes(h) PROVE Working'
    BY <1>2, TruncateCases, TruncatesWorking
  <1>3. ASSUME OpenInvalid \/ TruncateMark \/ TruncateClaim \/ Unlink PROVE Working'
    BY <1>3, OpenInvalidWorking, TruncateMarkWorking, TruncateClaimWorking, UnlinkWorking
  <1> QED
    BY <1>1, <1>2, <1>3 DEF FuseNext

LEMMA UploadWorking ==
  ASSUME IInv, Shape, Shape', Orderly, Orderly', Working, NEW k, UploadStep(k)
  PROVE  Working'
  <1>1. ASSUME StartUpload(k) \/ ClaimUpload(k) \/ PutFile(k) \/ CommitFile(k) \/ FailUpload(k)
        PROVE  Working'
    BY <1>1, StartUploadWorking, ClaimUploadWorking, PutFileWorking, CommitFileWorking,
       FailUploadWorking
  <1>2. ASSUME RefuseUpload(k) \/ ClaimCopy(k) \/ PutCopy(k) \/ AskLatest(k) \/ PublishCopy(k)
        PROVE  Working'
    BY <1>2, RefuseUploadWorking, ClaimCopyWorking, PutCopyWorking, AskLatestWorking,
       PublishCopyWorking
  <1>3. ASSUME DetachOriginal(k) \/ ImportLatest(k) PROVE Working'
    BY <1>3, DetachOriginalWorking, ImportLatestWorking
  <1> QED
    BY <1>1, <1>2, <1>3 DEF UploadStep

LEMMA StepWorking ==
  ASSUME IInv, Shape, Shape', Orderly, Orderly', Working, [Next]_vars
  PROVE  Working'
  <1>1. CASE Next
    <2>1. ASSUME NEW k, UploadStep(k) PROVE Working'
      BY <2>1, UploadWorking
    <2>2. ASSUME NEW d, DeleteStep(d) PROVE Working'
      BY <2>2, DeletionWorking
    <2>3. ASSUME FuseNext \/ DeltaStep \/ RemoteStep \/ Crash PROVE Working'
      BY <2>3, FuseWorking, RefreshWorking, RemoteWorking, CrashWorking
    <2> QED
      BY <1>1, <2>1, <2>2, <2>3 DEF Next
  <1>2. CASE UNCHANGED vars
    BY <1>2, QuietWorking DEF vars
  <1> QED
    BY <1>1, <1>2

LEMMA StartWorking ==
  ASSUME Init
  PROVE  Working
  <1>1. handles = Empty /\ fuse = None /\ task = Empty
    BY DEF Init
  <1>2. Held
    <2>1. \A k \in DOMAIN files : files[k].state = "online" /\ files[k].cache = None
      BY DEF Init, With, Empty, ImportedRow
    <2> QED
      BY <2>1 DEF Held, DocRows, RowAt, Protected
  <1> QED
    BY <1>1, <1>2 DEF Working, Writers, Cut, Running, Empty

\* In orderly behaviours, who holds which bytes is as Working says: through every
\* interleaving of handlers, runs, the refresh and crashes.
THEOREM WorkingInvariance == Spec /\ []Orderly => []Working
  <1>1. Init => Working
    BY StartWorking
  <1>2. IInv /\ IInv' /\ Orderly /\ Orderly' /\ Working /\ [Next]_vars => Working'
    BY Shaped, StepWorking, ShapedNext
  <1> QED
    BY <1>1, <1>2, Invariance, PTL DEF Spec

LEMMA Holding ==
  ASSUME IInv, Orderly, Working
  PROVE  DirtyHasCache /\ NoUploadWhileWriting
  <1>1. Shape
    BY Shaped
  <1>2. DirtyHasCache
    BY <1>1, DocRow2 DEF Working, Held, DirtyHasCache, CacheExists, Protected
  <1>3. NoUploadWhileWriting
    BY DEF Working, Writers, NoUploadWhileWriting, ChangedBy
  <1> QED
    BY <1>2, <1>3

\* For any handles and scenarios without one of the nine races: a row that waits for
\* an upload or a conflict copy names a cache file that exists, so begin_upload and
\* preserve_conflict_copy never find the bytes of a queued edit gone.
THEOREM DirtyRowsKeepTheirBytes == Spec /\ []Orderly => []DirtyHasCache
  <1>1. IInv /\ Orderly /\ Working => DirtyHasCache
    BY Holding
  <1> QED
    BY <1>1, Invariance, WorkingInvariance, PTL

\* For any handles and scenarios without one of the nine races: a file with an open
\* handle that changed it is neither dirty nor uploading, so mark_state(Writing) at
\* the first write and mark_dirty at the last release bracket every upload.
THEOREM UploadsWaitForTheWriter == Spec /\ []Orderly => []NoUploadWhileWriting
  <1>1. IInv /\ Orderly /\ Working => NoUploadWhileWriting
    BY Holding
  <1> QED
    BY <1>1, Invariance, WorkingInvariance, PTL

-----------------------------------------------------------------------------
(* What rows, runs and tombstones know of the bytes they stand for         *)

Sending == {"put", "commit"}
Storing == {"commit", "copied", "publish", "detach"}

\* The cloud's content of an item.
Cur(i) == IF i \in DOMAIN cloud THEN cloud[i].etag.data ELSE {}

\* The bytes of a row were made from the version it names.
BaseAt(k) ==
  files[k].cache # None /\ files[k].etag # None => files[k].etag.data \subseteq disk[files[k].cache]
Base == \A k \in DocRows : BaseAt(k)

\* A row without an item has bytes, and its claim is for them; what an uploading row
\* has claimed is its own path, and any other claim is for a copy of its bytes.
RowsAt(k) ==
  /\ files[k].cloud = None =>
       /\ files[k].state \in {"writing", "dirty", "uploading"} \/ (files[k].state = "cached" /\ Window(k))
       /\ files[k].etag = None /\ files[k].cache # None
       /\ files[k].up.path = None \/ files[k].up = Claim(Doc, None, files[k].cache)
  /\ files[k].state = "uploading" => files[k].up.path = Doc
  /\ files[k].up.path \notin {None, Doc} =>
       files[k].up = Claim(CopyPath(disk[files[k].cache]), None, files[k].cache)
Rows == \A k \in DocRows : RowsAt(k)

\* Only files with an item come into conflict.  What a run sends was made from the
\* version it replaces; without one, the row or the tombstone still holds its claim.
\* A copy is named after its bytes.  The bytes of a deleted file were given up.
Bytes(k) == disk[task[k].r.cache]
RequestAt(k) ==
  /\ task[k].pc \in Copying \cup {"refused", "claimcopy"} => task[k].r.cloud # None
  /\ task[k].pc \in Sending /\ task[k].r.etag # None => task[k].r.etag.data \subseteq Bytes(k)
  /\ task[k].pc \in Sending /\ task[k].r.cloud = None =>
       IF k \in DOMAIN files THEN files[k].up = Claim(Doc, None, task[k].r.cache)
       ELSE tombs[k].up = Claim(Doc, None, task[k].r.cache)
  /\ task[k].pc \in Copying => task[k].p = CopyPath(Bytes(k))
  /\ task[k].pc \in Sending \cup Copying /\ k \notin DOMAIN files => Bytes(k) \subseteq discarded
Requests == \A k \in DOMAIN task : RequestAt(k)

\* What a run has stored is in the cloud until somebody gives it up.  An upload that
\* was answered holds the content it was answered with, and nothing else lies at the
\* path that only this computer knows of.
CommitAt(k) ==
  /\ task[k].res.etag.data \subseteq Bytes(k)
  /\ k \in DOMAIN files /\ files[k].state = "uploading" /\ ~Truncating(k) =>
       Bytes(k) \subseteq task[k].res.etag.data
  /\ task[k].res.id \in DOMAIN cloud => Cur(task[k].res.id) \subseteq Bytes(k) \cup writes.theirs
  /\ task[k].r.cloud = None => \A i \in ItemsAt(Doc) : i = task[k].res.id \/ Theirs(i) # {}
AnsweredAt(k) ==
  /\ task[k].pc \in Storing => task[k].res.etag.data \subseteq Cur(task[k].res.id) \cup discarded
  /\ task[k].pc \in Storing \ {"commit"} =>
       task[k].res.path = task[k].p /\ task[k].res.etag.data = Bytes(k)
  /\ task[k].pc = "publish" /\ task[k].latest = None => task[k].r.cloud \notin DOMAIN cloud
  /\ task[k].pc \in {"detach", "import"} => task[k].latest # None
  /\ task[k].pc = "commit" => CommitAt(k)
Answered == \A k \in DOMAIN task : AnsweredAt(k)

\* A deleted file that may have bytes in the cloud, and the file made after it: an
\* item, a claim and a run are never of two files at once.
Big(d) == d \in DOMAIN task \/ tombs[d].cloud # None \/ tombs[d].up.path # None
Generations ==
  /\ (\E d \in DOMAIN tombs : LocalTomb(d)) =>
       \A k \in DocRows : files[k].cloud = None /\ files[k].up.path = None /\ k \notin DOMAIN task
  /\ \A d, e \in DOMAIN tombs : d # e /\ LocalTomb(d) /\ LocalTomb(e) => ~Big(d) \/ ~Big(e)

\* A tombstone's item has only contents that were given up, or that others wrote; so
\* have the bytes it may still have to replay.
GraveAt(d) ==
  /\ tombs[d].local # None => tombs[d].path = Doc
  /\ tombs[d].local = None /\ tombs[d].cloud \in DOMAIN cloud => cloud[tombs[d].cloud].path # Doc
  /\ tombs[d].up.path # None /\ tombs[d].up.target = None /\ tombs[d].up.cache \in DOMAIN disk =>
       /\ disk[tombs[d].up.cache] \subseteq discarded
       /\ tombs[d].up.path # Doc => tombs[d].up.path = CopyPath(disk[tombs[d].up.cache])
  /\ tombs[d].up.path \notin {None, Doc} => tombs[d].up.target = None
  /\ tombs[d].cloud \in DOMAIN cloud => Cur(tombs[d].cloud) \subseteq discarded \cup writes.theirs
Graves == \A d \in DOMAIN tombs : GraveAt(d)

\* A deletion run removes an item after the claim on it is settled.
DeletionAt(d) ==
  /\ del[d].pc \in {"replay", "remove", "clean"}
  /\ del[d].pc # "replay" => tombs[d].up.path = None \/ tombs[d].up.target # None
  /\ del[d].pc = "clean" => tombs[d].cloud \notin DOMAIN cloud
Deletions == \A d \in DOMAIN del : DeletionAt(d)

\* Copies lie at the paths named after them, one item at each path.
Drives ==
  /\ \A i \in DOMAIN cloud : cloud[i].path # Doc => cloud[i].path = CopyPath(Cur(i))
  /\ \A i, j \in DOMAIN cloud : cloud[i].path = cloud[j].path => i = j

\* The refresh speaks of items that are gone, and removes a row of such an item.
Listed ==
  delta # None =>
    /\ delta.gone \subseteq Items \ DOMAIN cloud
    /\ delta.pc = "remove" =>
         /\ delta.row \in Locals \ DOMAIN cloud
         /\ delta.row \in DOMAIN files =>
              files[delta.row].cloud # None /\ files[delta.row].cloud \notin DOMAIN cloud

\* Whatever lies at the path is another client's work, or some row or tombstone owns
\* it or has claimed the path for bytes that include it.
RowClaims(i) ==
  \E k \in DocRows :
    files[k].cloud = None /\ files[k].up.path = Doc /\ Cur(i) \subseteq disk[files[k].cache]
TombClaims(i) ==
  \E d \in DOMAIN tombs :
    /\ LocalTomb(d) /\ tombs[d].cloud = None
    /\ tombs[d].up.path = Doc /\ tombs[d].up.target = None
    /\ tombs[d].up.cache \in DOMAIN disk => Cur(i) \subseteq disk[tombs[d].up.cache]
Owned(i) ==
  \/ Theirs(i) # {}
  \/ \E k \in DOMAIN files : files[k].cloud = i
  \/ \E d \in DOMAIN tombs : tombs[d].cloud = i
  \/ RowClaims(i)
  \/ TombClaims(i)
NoStrangers == \A i \in ItemsAt(Doc) : Owned(i)

\* Where a write may be: given up, in the cloud, in a row's cache file or in the one
\* that is truncated.
Safe(w) ==
  \/ w \in discarded
  \/ \E i \in DOMAIN cloud : w \in Cur(i)
  \/ \E k \in DocRows : files[k].state \in Protected /\ w \in disk[files[k].cache]
  \/ fuse # None /\ w \in disk[fuse.c]
AllSafe == \A w \in 1..writes.last : Safe(w)

Faithful ==
  /\ Base /\ Rows /\ Requests /\ Answered /\ Generations /\ Graves /\ Deletions
  /\ Drives /\ Listed /\ NoStrangers /\ AllSafe

\* Who can be at work on the path: one run that holds bytes, or one replay.
LEMMA OneRunner ==
  ASSUME Shape, Working, Generations, NEW j \in DOMAIN task, NEW k \in DOMAIN task,
         task[j].pc # "import", task[k].pc # "import"
  PROVE  j = k
  <1>1. /\ j \in DOMAIN files => j \in DocRows
        /\ k \in DOMAIN files => k \in DocRows
        /\ j \notin DOMAIN files => LocalTomb(j)
        /\ k \notin DOMAIN files => LocalTomb(k)
    BY RowOfRun DEF RunningAt
  <1>2. CASE j \in DOMAIN files /\ k \in DOMAIN files
    BY <1>1, <1>2, DocRow2
  <1>3. CASE j \notin DOMAIN files /\ k \notin DOMAIN files
    BY <1>1, <1>3 DEF Generations, LocalTomb, Big
  <1> QED
    BY <1>1, <1>2, <1>3 DEF Generations, LocalTomb

LEMMA ReplayAlone ==
  ASSUME Shape, Working, Generations, NEW d \in DOMAIN del, del[d].pc = "replay",
         NEW k \in DOMAIN task
  PROVE  task[k].pc = "import"
  <1> SUFFICES ASSUME task[k].pc # "import" PROVE FALSE
    OBVIOUS
  <1>1. LocalTomb(d) /\ Big(d) /\ d \in DOMAIN tombs /\ d \notin DOMAIN task
    BY DEF Shape, DelShape, Big
  <1>2. k \in DOMAIN files => k \in DocRows
    BY RowOfRun
  <1>3. k \notin DOMAIN files => LocalTomb(k) /\ Big(k) /\ k \in DOMAIN tombs
    BY RowOfRun DEF RunningAt, Big, LocalTomb
  <1> QED
    BY <1>1, <1>2, <1>3 DEF Generations

\* While a run works on a row, no deleted file waits at the path; while it works on a
\* deleted file, nothing else there can own or claim an item.
LEMMA RunExcludes ==
  ASSUME Shape, Working, Generations, NEW k \in DOMAIN task, task[k].pc # "import"
  PROVE  /\ k \in DOMAIN files =>
              /\ k \in DocRows /\ files[k].cloud = task[k].r.cloud
              /\ files[k].cache = task[k].r.cache /\ \A d : ~LocalTomb(d)
         /\ k \notin DOMAIN files =>
              /\ LocalTomb(k) /\ k \in DOMAIN tombs /\ tombs[k].cloud = task[k].r.cloud
              /\ \A j \in DocRows : files[j].cloud = None /\ files[j].up.path = None
              /\ \A d : LocalTomb(d) /\ d # k => tombs[d].cloud = None /\ tombs[d].up.path = None
  <1>1. RunningAt(k) /\ (k \in DOMAIN files => k \in DocRows)
    BY RowOfRun
  <1>2. CASE k \in DOMAIN files
    BY <1>1, <1>2 DEF RunningAt, Shape, TaskShape, Generations, LocalTomb
  <1>3. CASE k \notin DOMAIN files
    <2>1. LocalTomb(k) /\ tombs[k].cloud = task[k].r.cloud
      BY <1>1, <1>3 DEF RunningAt, Shape, TaskShape
    <2> QED
      BY <1>3, <2>1 DEF Generations, Big, LocalTomb
  <1> QED
    BY <1>2, <1>3

LEMMA ReplayExcludes ==
  ASSUME Shape, Generations, NEW d \in DOMAIN del, del[d].pc = "replay"
  PROVE  /\ \A j \in DocRows : files[j].cloud = None /\ files[j].up.path = None
         /\ \A e : LocalTomb(e) /\ e # d => tombs[e].cloud = None /\ tombs[e].up.path = None
         /\ LocalTomb(d) /\ tombs[d].up.path # None /\ tombs[d].up.target = None
         /\ tombs[d].up.cache \in DOMAIN disk
  BY DEF Shape, DelShape, Generations, Big, LocalTomb

\* Copies of different bytes have different names.
LEMMA CopyNames ==
  ASSUME NEW a, NEW b
  PROVE  (CopyPath(a) = CopyPath(b) => a = b) /\ CopyPath(a) # Doc
  BY DEF CopyPath, Doc

LEMMA NoneNowhere ==
  ASSUME Shape
  PROVE  /\ None \notin DOMAIN cloud /\ None \notin Items /\ Doc # None
         /\ DOMAIN cloud \subseteq Items /\ Items \subseteq Locals
         /\ CloudId(made + 1) \notin Items /\ CloudId(made + 1) \notin DOMAIN cloud
  BY NoneAssumption DEF Shape, CloudShape, Doc

-----------------------------------------------------------------------------
(* What a step does to the cloud                                           *)

\* Whatever a step does elsewhere, an item keeps its path and its content, which may
\* only grow or be given up, and a new item has a new identity.
Moves ==
  /\ \A j : Cur(j) \subseteq (Cur(j))' \cup discarded'
  /\ DOMAIN cloud' \cap Items \subseteq DOMAIN cloud
  /\ \A j \in DOMAIN cloud \cap DOMAIN cloud' : cloud'[j].path = cloud[j].path
  /\ Items \subseteq Items' /\ Locals \subseteq Locals'
  /\ discarded \subseteq discarded' /\ writes.theirs \subseteq writes'.theirs
Overwrites ==
  \A i \in DOMAIN cloud \cap DOMAIN cloud' : cloud[i].etag.data \subseteq cloud'[i].etag.data
Vanishes ==
  \A i \in DOMAIN cloud \ DOMAIN cloud' : cloud[i].etag.data \subseteq discarded'

\* A request that stores data in item i at path p, and has seen what was there.
Fits(i, p, data) ==
  /\ i \in DOMAIN cloud => cloud[i].path = p /\ Cur(i) \subseteq data
  /\ i \notin DOMAIN cloud => i = CloudId(made + 1) /\ ItemsAt(p) = {}
  /\ p # Doc => p = CopyPath(data)
Stores(i, p, data) ==
  /\ Fits(i, p, data) /\ Store(i, p, data)
  /\ discarded' = discarded /\ writes.theirs \subseteq writes'.theirs
  /\ UNCHANGED <<files, disk, handles, fuse>>
Drops(i) ==
  /\ i \in DOMAIN cloud /\ Drop(i) /\ Cur(i) \subseteq discarded'
  /\ discarded \subseteq discarded' /\ UNCHANGED <<files, disk, handles, fuse, writes>>

LEMMA StoresFacts ==
  ASSUME Shape, NEW i, NEW p, NEW data, Stores(i, p, data)
  PROVE  /\ DOMAIN cloud' = DOMAIN cloud \cup {i}
         /\ cloud'[i].path = p /\ cloud'[i].etag.data = data /\ (Cur(i))' = data
         /\ \A j \in DOMAIN cloud \ {i} : cloud'[j] = cloud[j]
         /\ \A j : j # i => (Cur(j))' = Cur(j)
         /\ i \in DOMAIN cloud => cloud[i].path = p /\ Cur(i) \subseteq data
         /\ i \notin DOMAIN cloud => i \notin Items
  <1>1. /\ DOMAIN cloud' = DOMAIN cloud \cup {i}
        /\ cloud'[i].path = p /\ cloud'[i].etag.data = data
        /\ \A j \in DOMAIN cloud \ {i} : cloud'[j] = cloud[j]
    <2>1. CASE i \in DOMAIN cloud
      <3>1. /\ cloud' = [cloud EXCEPT ![i].etag = Etag(cloud[i].etag.rev + 1, data)]
            /\ DOMAIN cloud[i] = {"path", "etag"} /\ cloud[i].path = p
        BY <2>1 DEF Stores, Store, Fits, Shape, CloudShape
      <3> QED
        BY <2>1, <3>1 DEF Etag
    <2>2. CASE i \notin DOMAIN cloud
      BY <2>2 DEF Stores, Store, With, Etag
    <2> QED
      BY <2>1, <2>2
  <1>2. i \notin DOMAIN cloud => i \notin Items
    BY NoneNowhere DEF Stores, Fits
  <1> QED
    BY <1>1, <1>2 DEF Cur, Stores, Fits

LEMMA More ==
  ASSUME Shape, made' \in {made, made + 1}
  PROVE  Items \subseteq Items' /\ Locals \subseteq Locals'
  <1>1. made \in Nat /\ made' \in Nat /\ made <= made'
    BY DEF Shape, CloudShape
  <1> QED
    BY <1>1 DEF Items, Locals

LEMMA StoresMoves ==
  ASSUME Shape, Drives, NEW i, NEW p, NEW data, Stores(i, p, data)
  PROVE  Moves /\ Overwrites /\ Vanishes /\ Drives'
  <1>1. /\ DOMAIN cloud' = DOMAIN cloud \cup {i}
        /\ cloud'[i].path = p /\ cloud'[i].etag.data = data /\ (Cur(i))' = data
        /\ \A j \in DOMAIN cloud \ {i} : cloud'[j] = cloud[j]
        /\ \A j : j # i => (Cur(j))' = Cur(j)
        /\ i \in DOMAIN cloud => cloud[i].path = p /\ Cur(i) \subseteq data
        /\ i \notin DOMAIN cloud => i \notin Items /\ Cur(i) = {}
    BY StoresFacts DEF Cur
  <1>2. made' \in {made, made + 1}
    BY DEF Stores, Store
  <1>3. Items \subseteq Items' /\ Locals \subseteq Locals'
    BY <1>2, More
  <1>4. Moves
    <2>1. \A j : Cur(j) \subseteq (Cur(j))'
      BY <1>1
    <2> QED
      BY <1>1, <1>3, <2>1 DEF Moves, Stores
  <1>5. Overwrites /\ Vanishes
    BY <1>1 DEF Overwrites, Vanishes, Cur
  <1>6. Drives'
    <2>1. \A j \in DOMAIN cloud' : cloud'[j].path # Doc => cloud'[j].path = CopyPath((Cur(j))')
      BY <1>1 DEF Drives, Stores, Fits
    <2>2. ASSUME NEW j \in DOMAIN cloud, j # i PROVE cloud'[j].path # p
      <3>1. CASE i \in DOMAIN cloud
        BY <1>1, <2>2, <3>1 DEF Drives
      <3>2. CASE i \notin DOMAIN cloud
        BY <1>1, <2>2, <3>2 DEF Stores, Fits, ItemsAt
      <3> QED
        BY <3>1, <3>2
    <2>3. \A j, m \in DOMAIN cloud' : cloud'[j].path = cloud'[m].path => j = m
      BY <1>1, <2>2 DEF Drives
    <2> QED
      BY <2>1, <2>3 DEF Drives
  <1> QED
    BY <1>4, <1>5, <1>6

LEMMA DropsMoves ==
  ASSUME Shape, Drives, NEW i, Drops(i)
  PROVE  /\ Moves /\ Overwrites /\ Vanishes /\ Drives'
         /\ DOMAIN cloud' = DOMAIN cloud \ {i} /\ \A j \in DOMAIN cloud' : cloud'[j] = cloud[j]
         /\ \A j : j # i => (Cur(j))' = Cur(j)
  <1>1. DOMAIN cloud' = DOMAIN cloud \ {i} /\ \A j \in DOMAIN cloud' : cloud'[j] = cloud[j]
    BY DEF Drops, Drop, Without
  <1>2. Items \subseteq Items' /\ Locals \subseteq Locals'
    BY More DEF Drops, Drop
  <1>3. \A j : j # i => (Cur(j))' = Cur(j)
    BY <1>1 DEF Cur
  <1>4. Moves
    BY <1>1, <1>2, <1>3 DEF Moves, Drops
  <1> QED
    BY <1>1, <1>3, <1>4 DEF Overwrites, Vanishes, Drives, Drops, Cur

LEMMA StillMoves ==
  ASSUME Shape, Drives, cloud' = cloud, made' \in {made, made + 1}, discarded \subseteq discarded',
         writes.theirs \subseteq writes'.theirs
  PROVE  Moves /\ Overwrites /\ Vanishes /\ Drives'
  <1>1. Items \subseteq Items' /\ Locals \subseteq Locals'
    BY More
  <1> QED
    BY <1>1 DEF Moves, Overwrites, Vanishes, Drives, Cur

\* What a run sends at the document's path, to its item or to whatever lies there.
LEMMA SendFits ==
  ASSUME Shape, Orderly, Working, Faithful, NEW k \in DOMAIN task, task[k].pc = "put",
         Accepts(task[k].r)
  PROVE  Fits(PutTarget(task[k].r.cloud, Doc), Doc, Bytes(k))
  <1> DEFINE t == task[k].r.cloud
             i == PutTarget(t, Doc)
  <1>1. RequestAt(k) /\ t \in Items \cup {None}
    BY DEF Faithful, Requests, Shape, TaskShape
  <1>2. CASE t # None
    <2>1. i = t /\ t \in DOMAIN cloud /\ cloud[t].etag = task[k].r.etag
      BY <1>2 DEF PutTarget, Accepts
    <2>2. cloud[t].path = Doc /\ cloud[t].etag # None
      BY <2>1 DEF Shape, TaskShape, CloudShape
    <2>3. Cur(t) \subseteq Bytes(k)
      BY <1>1, <2>1, <2>2 DEF RequestAt, Sending, Cur
    <2> QED
      BY <2>1, <2>2, <2>3 DEF Fits
  <1>3. CASE t = None /\ ItemsAt(Doc) = {}
    <2>1. i = CloudId(made + 1)
      BY <1>3 DEF PutTarget
    <2>2. i \notin DOMAIN cloud
      BY <2>1, NoneNowhere
    <2> QED
      BY <1>3, <2>1, <2>2 DEF Fits
  <1>4. CASE t = None /\ ItemsAt(Doc) # {}
    <2>1. i \in ItemsAt(Doc)
      BY <1>4 DEF PutTarget
    <2> HIDE DEF i
    <2>2. i \in DOMAIN cloud /\ cloud[i].path = Doc /\ i # None
      BY <2>1, NoneNowhere DEF ItemsAt
    <2>3. Theirs(i) = {}
      BY <1>4, <2>1 DEF Orderly, PathIsOurs, SentByPath
    <2>4. Owned(i)
      BY <2>1 DEF Faithful, NoStrangers
    <2>5. /\ k \in DOMAIN files =>
               /\ k \in DocRows /\ files[k].cloud = None
               /\ files[k].cache = task[k].r.cache /\ \A d : ~LocalTomb(d)
          /\ k \notin DOMAIN files =>
               /\ LocalTomb(k) /\ k \in DOMAIN tombs /\ tombs[k].cloud = None
               /\ \A j \in DocRows : files[j].cloud = None /\ files[j].up.path = None
               /\ \A d : LocalTomb(d) /\ d # k => tombs[d].cloud = None /\ tombs[d].up.path = None
      BY <1>4, RunExcludes DEF Faithful
    <2>6. ASSUME NEW j \in DOMAIN files, files[j].cloud = i PROVE FALSE
      <3>1. j \in DocRows
        BY <2>2, <2>6, DocRow2 DEF Shape, RowShape
      <3>2. k \in DOMAIN files => j = k
        BY <2>5, <3>1, DocRow2
      <3> QED
        BY <2>2, <2>5, <2>6, <3>1, <3>2
    <2>7. ASSUME NEW d \in DOMAIN tombs, tombs[d].cloud = i PROVE FALSE
      <3>1. LocalTomb(d)
        BY <2>2, <2>7 DEF Faithful, Graves, GraveAt, LocalTomb
      <3> QED
        BY <2>2, <2>5, <2>7, <3>1
    <2>8. ASSUME RowClaims(i) PROVE Cur(i) \subseteq Bytes(k)
      <3>1. PICK j \in DocRows : files[j].up.path = Doc /\ Cur(i) \subseteq disk[files[j].cache]
        BY <2>8 DEF RowClaims
      <3>2. k \in DOMAIN files /\ j = k
        BY <2>5, <3>1, DocRow2, NoneNowhere
      <3> QED
        BY <2>5, <3>1, <3>2 DEF Bytes
    <2>9. ASSUME TombClaims(i) PROVE Cur(i) \subseteq Bytes(k)
      <3>1. PICK d \in DOMAIN tombs :
              /\ LocalTomb(d) /\ tombs[d].up.path = Doc
              /\ tombs[d].up.cache \in DOMAIN disk => Cur(i) \subseteq disk[tombs[d].up.cache]
        BY <2>9 DEF TombClaims
      <3>2. k \notin DOMAIN files /\ d = k
        BY <2>5, <3>1, NoneNowhere
      <3>3. tombs[k].up = Claim(Doc, None, task[k].r.cache)
        BY <1>1, <1>4, <3>2 DEF RequestAt, Sending
      <3>4. tombs[k].up.cache = task[k].r.cache /\ task[k].r.cache \in DOMAIN disk
        BY <3>3 DEF Claim, Shape, TaskShape
      <3> QED
        BY <3>1, <3>2, <3>4 DEF Bytes
    <2>10. Cur(i) \subseteq Bytes(k)
      BY <2>3, <2>4, <2>6, <2>7, <2>8, <2>9 DEF Owned
    <2>11. i = PutTarget(t, Doc)
      BY DEF i
    <2> QED
      BY <2>2, <2>10, <2>11 DEF Fits
  <1> QED
    BY <1>2, <1>3, <1>4

\* A copy finds nothing at its path, or the same bytes.
LEMMA CopyFits ==
  ASSUME Shape, Drives, NEW p, NEW data, p = CopyPath(data)
  PROVE  /\ Fits(PutTarget(None, p), p, data)
         /\ PutTarget(None, p) \in DOMAIN cloud => Cur(PutTarget(None, p)) = data
  <1> DEFINE i == PutTarget(None, p)
  <1>1. p # Doc
    BY CopyNames
  <1>2. CASE ItemsAt(p) = {}
    <2>1. i = CloudId(made + 1) /\ i \notin DOMAIN cloud
      BY <1>2, NoneNowhere DEF PutTarget
    <2> QED
      BY <1>2, <2>1 DEF Fits
  <1>3. CASE ItemsAt(p) # {}
    <2>1. i \in ItemsAt(p)
      BY <1>3 DEF PutTarget
    <2> HIDE DEF i
    <2>2. i \in DOMAIN cloud /\ cloud[i].path = p /\ p = CopyPath(Cur(i))
      BY <1>1, <2>1 DEF ItemsAt, Drives
    <2>3. Cur(i) = data
      BY <2>2, CopyNames
    <2>4. i = PutTarget(None, p)
      BY DEF i
    <2> QED
      BY <2>2, <2>3, <2>4 DEF Fits
  <1> QED
    BY <1>2, <1>3

\* A deleted upload that is replayed: the same as a run of a deleted file.
LEMMA ReplayFits ==
  ASSUME Shape, Orderly, Faithful, NEW d \in DOMAIN del, del[d].pc = "replay"
  PROVE  LET up == tombs[d].up  i == PutTarget(None, up.path)
         IN /\ Fits(i, up.path, disk[up.cache])
            /\ disk[up.cache] \subseteq discarded
            /\ up.path # Doc /\ i \in DOMAIN cloud => Cur(i) = disk[up.cache]
  <1> DEFINE up == tombs[d].up
             i == PutTarget(None, up.path)
  <1>1. /\ \A j \in DocRows : files[j].cloud = None /\ files[j].up.path = None
        /\ \A e : LocalTomb(e) /\ e # d => tombs[e].cloud = None /\ tombs[e].up.path = None
        /\ LocalTomb(d) /\ up.path # None /\ up.target = None /\ up.cache \in DOMAIN disk
        /\ d \in DOMAIN tombs
    BY ReplayExcludes DEF Faithful, LocalTomb
  <1>2. GraveAt(d)
    BY <1>1 DEF Faithful, Graves
  <1>3. disk[up.cache] \subseteq discarded /\ (up.path # Doc => up.path = CopyPath(disk[up.cache]))
    BY <1>1, <1>2 DEF GraveAt
  <1>4. CASE up.path # Doc
    BY <1>3, <1>4, CopyFits DEF Faithful
  <1>5. CASE up.path = Doc /\ ItemsAt(Doc) = {}
    <2>1. i = CloudId(made + 1) /\ i \notin DOMAIN cloud
      BY <1>5, NoneNowhere DEF PutTarget
    <2> QED
      BY <1>3, <1>5, <2>1 DEF Fits
  <1>6. CASE up.path = Doc /\ ItemsAt(Doc) # {}
    <2>1. i \in ItemsAt(Doc)
      BY <1>6 DEF PutTarget
    <2> HIDE DEF i
    <2>2. i \in DOMAIN cloud /\ cloud[i].path = Doc /\ i # None
      BY <2>1, NoneNowhere DEF ItemsAt
    <2>3. Theirs(i) = {} /\ Owned(i)
      BY <2>1 DEF Orderly, PathIsOurs, SentByPath, Faithful, NoStrangers
    <2>4. tombs[d].cloud = None
      BY <1>1, <1>6 DEF Shape, TombShape, Unbound, LocalTomb
    <2>5. ASSUME NEW j \in DOMAIN files, files[j].cloud = i PROVE FALSE
      <3>1. j \in DocRows
        BY <2>2, <2>5, DocRow2 DEF Shape, RowShape
      <3> QED
        BY <1>1, <2>2, <2>5, <3>1
    <2>6. ASSUME NEW e \in DOMAIN tombs, tombs[e].cloud = i PROVE FALSE
      <3>1. LocalTomb(e)
        BY <2>2, <2>6 DEF Faithful, Graves, GraveAt, LocalTomb
      <3> QED
        BY <1>1, <2>2, <2>4, <2>6, <3>1
    <2>7. ~RowClaims(i)
      BY <1>1, NoneNowhere DEF RowClaims
    <2>8. TombClaims(i) => Cur(i) \subseteq disk[up.cache]
      BY <1>1, NoneNowhere DEF TombClaims
    <2>9. Cur(i) \subseteq disk[up.cache]
      BY <2>3, <2>5, <2>6, <2>7, <2>8 DEF Owned
    <2>10. i = PutTarget(None, up.path)
      BY DEF i
    <2> QED
      BY <1>3, <1>6, <2>2, <2>9, <2>10 DEF Fits
  <1> QED
    BY <1>4, <1>5, <1>6

\* The requests of the runs.
Answers(k, i, at) == task'[k] = [task[k] EXCEPT !.pc = at, !.res = Entry(cloud', i)]
Turns(k) ==
  \/ task'[k] = [task[k] EXCEPT !.pc = "failed"]
  \/ task'[k] = [task[k] EXCEPT !.pc = "refused"] /\ task[k].r.cloud # None
Running1(k) == k \in DOMAIN task /\ DOMAIN task[k] = TaskFields /\ OnlyRun(k)
Puts(k, i, p, at) ==
  /\ Running1(k) /\ UNCHANGED <<files, tombs, disk, handles, fuse, del, writes, discarded>>
  /\ Stores(i, p, Bytes(k))
  /\ \/ /\ task[k].pc = "put" /\ p = Doc /\ at = "commit"
        /\ task[k].r.cloud # None => i = task[k].r.cloud
     \/ /\ task[k].pc = "copy" /\ p = task[k].p /\ p # Doc /\ at = "copied"
        /\ i \in DOMAIN cloud => Cur(i) = Bytes(k)
  /\ k \in DOMAIN task' => Answers(k, i, at) \/ (Turns(k) /\ at = "commit")
Quits(k) ==
  /\ Running1(k) /\ UNCHANGED <<files, tombs, disk, handles, fuse, del, writes, discarded>>
  /\ NoRequest /\ task[k].pc # "import"
  /\ k \in DOMAIN task' => Turns(k) /\ task[k].pc = "put"

LEMMA PutCases ==
  ASSUME NEW k \in DOMAIN task, NEW t, NEW p, NEW acked, NEW failed \in {None, "failed"},
         Put(k, t, p, acked, failed)
  PROVE  /\ OnlyRun(k)
         /\ \/ /\ Store(PutTarget(t, p), p, Bytes(k))
               /\ k \in DOMAIN task' =>
                    \/ Answers(k, PutTarget(t, p), acked)
                    \/ failed # None /\ task'[k] = [task[k] EXCEPT !.pc = "failed"]
                    \/ t # None /\ task'[k] = [task[k] EXCEPT !.pc = "refused"]
            \/ /\ NoRequest
               /\ k \in DOMAIN task' => failed # None /\ task'[k] = [task[k] EXCEPT !.pc = "failed"]
  <1> DEFINE i == PutTarget(t, p)
             e == Entry(cloud', i)
  <1>1. Leave(k, failed) =>
          /\ OnlyRun(k)
          /\ k \in DOMAIN task' => failed # None /\ task'[k] = [task[k] EXCEPT !.pc = "failed"]
    BY RunMoves DEF Leave, Done, Move, Goto
  <1>2. Move(k, "refused") => OnlyRun(k) /\ task'[k] = [task[k] EXCEPT !.pc = "refused"]
    BY RunMoves DEF Move, Goto
  <1>3. Goto(k, [task[k] EXCEPT !.pc = acked, !.res = e]) => OnlyRun(k) /\ Answers(k, i, acked)
    BY RunMoves DEF Goto, Answers
  <1> QED
    BY <1>1, <1>2, <1>3 DEF Put, Bytes

LEMMA PutFileCases ==
  ASSUME Shape, Orderly, Working, Faithful, NEW k, PutFile(k)
  PROVE  Quits(k) \/ \E i : Puts(k, i, Doc, "commit")
  <1> DEFINE t == task[k].r.cloud
             i == PutTarget(t, Doc)
  <1>1. /\ k \in DOMAIN task /\ task[k].pc = "put" /\ DOMAIN task[k] = TaskFields
        /\ UNCHANGED <<files, tombs, disk, handles, fuse, del, writes, discarded>>
        /\ task[k].r.path = Doc
    BY DEF PutFile, At, OnlyTask, Shape, TaskShape
  <1>2. CASE ~Accepts(task[k].r)
    <2>1. OnlyRun(k) /\ task'[k] = [task[k] EXCEPT !.pc = "refused"] /\ NoRequest
      BY <1>2, RunMoves DEF PutFile, Move, Goto
    <2>2. t # None
      BY <1>2 DEF Accepts
    <2> QED
      BY <1>1, <2>1, <2>2 DEF Quits, Running1, Turns
  <1>3. CASE Accepts(task[k].r)
    <2>1. Put(k, t, Doc, "commit", "failed")
      BY <1>1, <1>3 DEF PutFile
    <2>2. Fits(i, Doc, Bytes(k))
      BY <1>1, <1>3, SendFits
    <2>3. t # None => i = t
      BY DEF PutTarget
    <2>4. /\ OnlyRun(k)
          /\ \/ /\ Store(i, Doc, Bytes(k))
                /\ k \in DOMAIN task' => Answers(k, i, "commit") \/ Turns(k)
             \/ /\ NoRequest
                /\ k \in DOMAIN task' => Turns(k)
      BY <1>1, <2>1, PutCases DEF Turns
    <2> HIDE DEF i
    <2>5. CASE NoRequest /\ (k \in DOMAIN task' => Turns(k))
      BY <1>1, <2>4, <2>5 DEF Quits, Running1
    <2>6. CASE Store(i, Doc, Bytes(k)) /\ (k \in DOMAIN task' => Answers(k, i, "commit") \/ Turns(k))
      <3>1. Stores(i, Doc, Bytes(k))
        BY <1>1, <2>2, <2>6 DEF Stores
      <3>2. Puts(k, i, Doc, "commit")
        BY <1>1, <2>3, <2>4, <2>6, <3>1 DEF Puts, Running1
      <3> QED
        BY <3>2
    <2> QED
      BY <2>4, <2>5, <2>6
  <1> QED
    BY <1>2, <1>3

LEMMA PutCopyCases ==
  ASSUME Shape, Faithful, NEW k, PutCopy(k)
  PROVE  Quits(k) \/ \E i : Puts(k, i, task[k].p, "copied")
  <1> DEFINE p == task[k].p
             i == PutTarget(None, p)
  <1>1. /\ k \in DOMAIN task /\ task[k].pc = "copy" /\ DOMAIN task[k] = TaskFields
        /\ UNCHANGED <<files, tombs, disk, handles, fuse, del, writes, discarded>>
        /\ p # Doc
    BY DEF PutCopy, At, OnlyTask, Shape, TaskShape, Copying
  <1>2. Put(k, None, p, "copied", None)
    BY DEF PutCopy
  <1>3. p = CopyPath(Bytes(k))
    BY <1>1 DEF Faithful, Requests, RequestAt, Copying
  <1>4. Fits(i, p, Bytes(k)) /\ (i \in DOMAIN cloud => Cur(i) = Bytes(k))
    BY <1>3, CopyFits DEF Faithful
  <1>5. /\ OnlyRun(k)
        /\ \/ /\ Store(i, p, Bytes(k))
              /\ k \in DOMAIN task' => Answers(k, i, "copied")
           \/ NoRequest /\ k \notin DOMAIN task'
    BY <1>1, <1>2, PutCases
  <1> HIDE DEF i, p
  <1>6. CASE NoRequest /\ k \notin DOMAIN task'
    BY <1>1, <1>5, <1>6 DEF Quits, Running1
  <1>7. CASE Store(i, p, Bytes(k)) /\ (k \in DOMAIN task' => Answers(k, i, "copied"))
    <2>1. Stores(i, p, Bytes(k))
      BY <1>1, <1>4, <1>7 DEF Stores
    <2>2. Puts(k, i, p, "copied")
      BY <1>1, <1>4, <1>5, <1>7, <2>1 DEF Puts, Running1, p
    <2> QED
      BY <2>2 DEF p
  <1> QED
    BY <1>5, <1>6, <1>7

\* A replay, answered or not, and the removal of a tombstone's item.
Replays(d, i) ==
  /\ d \in DOMAIN del /\ del[d].pc = "replay" /\ d \in DOMAIN tombs
  /\ UNCHANGED <<files, disk, handles, fuse, task, writes, discarded>>
  /\ Stores(i, tombs[d].up.path, disk[tombs[d].up.cache])
  /\ tombs[d].up.path # Doc /\ i \in DOMAIN cloud => Cur(i) = disk[tombs[d].up.cache]
  /\ disk[tombs[d].up.cache] \subseteq discarded
  /\ \/ /\ tombs' = CompleteDeleted(tombs, d, Entry(cloud', i))
        /\ del' = [del EXCEPT ![d].pc = "remove"]
     \/ tombs' = tombs /\ del' = Without(del, d)
Removes(d, i) ==
  /\ d \in DOMAIN del /\ del[d].pc = "remove" /\ d \in DOMAIN tombs /\ i = tombs[d].cloud
  /\ UNCHANGED <<files, tombs, disk, handles, fuse, task, writes, discarded>> /\ Drops(i)
  /\ del' = [del EXCEPT ![d].pc = "clean"] \/ del' = Without(del, d)
GivesUp(d) ==
  /\ d \in DOMAIN del /\ NoRequest
  /\ UNCHANGED <<files, tombs, disk, handles, fuse, task, writes, discarded>>
  /\ \/ del' = Without(del, d)
     \/ /\ d \in DOMAIN tombs /\ tombs[d].cloud \notin DOMAIN cloud /\ del[d].pc = "remove"
        /\ del' = [del EXCEPT ![d].pc = "clean"]

LEMMA ReplayCases ==
  ASSUME Shape, Orderly, Faithful, NEW d, Replay(d)
  PROVE  GivesUp(d) \/ \E i : Replays(d, i)
  <1> DEFINE up == tombs[d].up
             i == PutTarget(None, up.path)
             data == disk[up.cache]
  <1>1. /\ d \in DOMAIN del /\ del[d].pc = "replay" /\ d \in DOMAIN tombs /\ tombs[d].local = d
        /\ UNCHANGED <<files, disk, handles, fuse, task, writes, discarded>>
    BY DEF Replay, Deleting, OnlyDel, Shape, DelShape, TombShape, LocalTomb
  <1>2. /\ Fits(i, up.path, data) /\ data \subseteq discarded
        /\ up.path # Doc /\ i \in DOMAIN cloud => Cur(i) = data
    BY <1>1, ReplayFits
  <1>3. \/ /\ Store(i, up.path, data)
           /\ \/ /\ tombs' = CompleteDeleted(tombs, d, Entry(cloud', i))
                 /\ del' = [del EXCEPT ![d].pc = "remove"]
              \/ tombs' = tombs /\ del' = Without(del, d)
        \/ NoRequest /\ tombs' = tombs /\ del' = Without(del, d)
    BY <1>1 DEF Replay, GiveUp
  <1> HIDE DEF i, data
  <1>4. CASE NoRequest /\ tombs' = tombs /\ del' = Without(del, d)
    BY <1>1, <1>4 DEF GivesUp
  <1>5. CASE /\ Store(i, up.path, data)
             /\ \/ /\ tombs' = CompleteDeleted(tombs, d, Entry(cloud', i))
                   /\ del' = [del EXCEPT ![d].pc = "remove"]
                \/ tombs' = tombs /\ del' = Without(del, d)
    <2>1. Stores(i, up.path, data)
      BY <1>1, <1>2, <1>5 DEF Stores
    <2>2. Replays(d, i)
      BY <1>1, <1>2, <1>5, <2>1 DEF Replays, data
    <2> QED
      BY <2>2
  <1> QED
    BY <1>3, <1>4, <1>5

LEMMA RemoveRemoteCases ==
  ASSUME Shape, Orderly, Faithful, NEW d, RemoveRemote(d)
  PROVE  GivesUp(d) \/ \E i : Removes(d, i)
  <1> DEFINE i == tombs[d].cloud
  <1>1. /\ d \in DOMAIN del /\ del[d].pc = "remove" /\ d \in DOMAIN tombs
        /\ UNCHANGED <<files, tombs, disk, handles, fuse, task, writes, discarded>>
    BY DEF RemoveRemote, Deleting, OnlyDel, Shape, DelShape
  <1>2. CASE NoRequest /\ del' = Without(del, d)
    BY <1>1, <1>2 DEF GivesUp
  <1>3. CASE NoRequest /\ i \notin DOMAIN cloud /\ del' = [del EXCEPT ![d].pc = "clean"]
    BY <1>1, <1>3 DEF GivesUp
  <1>4. CASE /\ i \in DOMAIN cloud /\ Drop(i)
             /\ del' = [del EXCEPT ![d].pc = "clean"] \/ del' = Without(del, d)
    <2>1. Cur(i) \subseteq discarded \cup writes.theirs
      BY <1>1, <1>4 DEF Faithful, Graves, GraveAt
    <2>2. Cur(i) \subseteq discarded
      BY <1>1, <1>4, <2>1 DEF Orderly, DeletedAsSeen, Theirs, Cur
    <2>3. Removes(d, i)
      BY <1>1, <1>4, <2>2 DEF Removes, Drops
    <2> QED
      BY <2>3
  <1>5. \/ NoRequest /\ del' = Without(del, d)
        \/ NoRequest /\ i \notin DOMAIN cloud /\ del' = [del EXCEPT ![d].pc = "clean"]
        \/ /\ i \in DOMAIN cloud /\ Drop(i)
           /\ del' = [del EXCEPT ![d].pc = "clean"] \/ del' = Without(del, d)
    BY DEF RemoveRemote, GiveUp
  <1> QED
    BY <1>2, <1>3, <1>4, <1>5

-----------------------------------------------------------------------------
(* What remains true when the rest moves                                   *)

LEMMA RowsStill ==
  ASSUME Base, Rows, UNCHANGED <<files, disk, fuse>>
  PROVE  Base' /\ Rows'
  BY DEF Base, BaseAt, Rows, RowsAt, DocRows, Window, Truncating

LEMMA SafeStill ==
  ASSUME Moves, AllSafe, UNCHANGED <<files, disk, fuse>>,
         \A w \in 1..writes'.last : w \in 1..writes.last \/ \E i \in DOMAIN cloud' : w \in (Cur(i))'
  PROVE  AllSafe'
  <1> SUFFICES ASSUME NEW w \in 1..writes'.last PROVE (Safe(w))'
    BY DEF AllSafe
  <1>1. CASE \E i \in DOMAIN cloud' : w \in (Cur(i))'
    BY <1>1 DEF Safe
  <1>2. CASE w \in 1..writes.last
    <2>1. Safe(w)
      BY <1>2 DEF AllSafe
    <2>2. CASE w \in discarded
      BY <2>2 DEF Safe, Moves
    <2>3. ASSUME NEW i \in DOMAIN cloud, w \in Cur(i) PROVE (Safe(w))'
      <3>1. w \in (Cur(i))' \cup discarded'
        BY <2>3 DEF Moves
      <3>2. w \in (Cur(i))' => i \in DOMAIN cloud'
        BY DEF Cur
      <3> QED
        BY <3>1, <3>2 DEF Safe
    <2>4. CASE \/ \E k \in DocRows : files[k].state \in Protected /\ w \in disk[files[k].cache]
               \/ fuse # None /\ w \in disk[fuse.c]
      BY <2>4 DEF Safe, DocRows
    <2> QED
      BY <2>1, <2>2, <2>3, <2>4 DEF Safe
  <1> QED
    BY <1>1, <1>2

\* A tombstone that stays, while its item's content may change.
LEMMA GraveMoves ==
  ASSUME Shape, Shape', Moves, NEW d \in DOMAIN tombs, GraveAt(d),
         d \in DOMAIN tombs', tombs'[d] = tombs[d],
         tombs[d].up.cache \in DOMAIN disk' =>
           tombs[d].up.cache \in DOMAIN disk /\ disk'[tombs[d].up.cache] = disk[tombs[d].up.cache],
         \A i \in DOMAIN cloud \cap DOMAIN cloud' :
           tombs[d].cloud = i => (Cur(i))' \subseteq discarded' \cup writes'.theirs
  PROVE  (GraveAt(d))'
  <1>1. tombs[d].cloud \in DOMAIN cloud' => tombs[d].cloud \in DOMAIN cloud
    <2>1. tombs[d].cloud \in Items \cup {None}
      BY DEF Shape, TombShape
    <2>2. None \notin DOMAIN cloud'
      BY DEF Shape, CloudShape
    <2> QED
      BY <2>1, <2>2 DEF Moves
  <1>2. tombs[d].local = None /\ tombs[d].cloud \in DOMAIN cloud' => cloud'[tombs[d].cloud].path # Doc
    BY <1>1 DEF GraveAt, Moves
  <1> QED
    BY <1>1, <1>2 DEF GraveAt, Moves

LEMMA DeletionMoves ==
  ASSUME Shape, Shape', Moves, NEW d \in DOMAIN del, DeletionAt(d),
         d \in DOMAIN del', del'[d] = del[d], tombs'[d] = tombs[d]
  PROVE  (DeletionAt(d))'
  <1>1. tombs[d].cloud \in Items \cup {None} /\ None \notin DOMAIN cloud'
    BY DEF Shape, DelShape, TombShape, CloudShape
  <1> QED
    BY <1>1 DEF DeletionAt, Moves

LEMMA ItemsOnly ==
  ASSUME Shape', DOMAIN cloud' \cap Items \subseteq DOMAIN cloud
  PROVE  DOMAIN cloud' \cap Locals \subseteq DOMAIN cloud
  <1>1. DOMAIN cloud' \subseteq Items'
    BY DEF Shape, CloudShape
  <1>2. Items' \cap Locals \subseteq Items
    BY DEF Items, Locals, CloudId, LocalIdentity
  <1> QED
    BY <1>1, <1>2

LEMMA ListedMoves ==
  ASSUME Shape, Shape', Moves, Listed, files' = files,
         delta' # None => /\ delta # None /\ delta'.pc = delta.pc /\ delta'.row = delta.row
                          /\ delta'.gone \subseteq delta.gone
  PROVE  Listed'
  <1> SUFFICES ASSUME delta' # None PROVE Listed'
    BY DEF Listed
  <1>1. /\ delta # None /\ delta'.pc = delta.pc /\ delta'.row = delta.row
        /\ delta'.gone \subseteq delta.gone
    OBVIOUS
  <1>2. delta.gone \subseteq Items \ DOMAIN cloud
    BY <1>1 DEF Listed
  <1>3. delta'.gone \subseteq Items' \ DOMAIN cloud'
    BY <1>1, <1>2 DEF Moves
  <1>4. ASSUME delta.pc = "remove"
        PROVE  /\ delta.row \in Locals' \ DOMAIN cloud'
               /\ delta.row \in DOMAIN files =>
                    files[delta.row].cloud # None /\ files[delta.row].cloud \notin DOMAIN cloud'
    <2>1. /\ delta.row \in Locals \ DOMAIN cloud
          /\ delta.row \in DOMAIN files =>
               files[delta.row].cloud # None /\ files[delta.row].cloud \notin DOMAIN cloud
      BY <1>1, <1>4 DEF Listed
    <2>2. delta.row \in DOMAIN files => files[delta.row].cloud \in Items
      BY <2>1 DEF Shape, RowShape
    <2>3. delta.row \notin DOMAIN cloud'
      <3>1. DOMAIN cloud' \cap Locals \subseteq DOMAIN cloud
        BY ItemsOnly DEF Moves
      <3> QED
        BY <2>1, <3>1
    <2> QED
      BY <2>1, <2>2, <2>3 DEF Moves
  <1> QED
    BY <1>1, <1>3, <1>4 DEF Listed

\* A run that stays.
LEMMA AnswerMoves ==
  ASSUME Shape, Shape', Moves, NEW k \in DOMAIN task, AnsweredAt(k), k \in DOMAIN task',
         task'[k] = task[k], (Bytes(k))' = Bytes(k), task[k].pc = "commit" => (CommitAt(k))'
  PROVE  (AnsweredAt(k))'
  <1>1. task[k].pc \in Storing => task[k].res.etag.data \subseteq (Cur(task[k].res.id))' \cup discarded'
    BY DEF AnsweredAt, Moves
  <1>2. task[k].r.cloud \notin DOMAIN cloud => task[k].r.cloud \notin DOMAIN cloud'
    BY DEF Shape, TaskShape, CloudShape, Moves
  <1> QED
    BY <1>1, <1>2 DEF AnsweredAt

LEMMA CommitMoves ==
  ASSUME Shape, Shape', Moves, NEW k \in DOMAIN task, CommitAt(k), task[k].pc = "commit",
         task'[k] = task[k], (Bytes(k))' = Bytes(k), UNCHANGED <<files, fuse>>,
         (Cur(task[k].res.id))' \subseteq Cur(task[k].res.id) \cup writes'.theirs,
         task[k].r.cloud = None =>
           \A i \in (ItemsAt(Doc))' :
             \/ i \in ItemsAt(Doc) /\ Theirs(i) \subseteq (Theirs(i))'
             \/ (Theirs(i))' # {}
  PROVE  (CommitAt(k))'
  <1>1. task[k].res.id \in DOMAIN cloud' => task[k].res.id \in DOMAIN cloud
    BY DEF Shape, TaskShape, Moves
  <1>2. task[k].res.id \in DOMAIN cloud' => (Cur(task[k].res.id))' \subseteq Bytes(k) \cup writes'.theirs
    BY <1>1 DEF CommitAt, Moves
  <1>3. task[k].r.cloud = None => \A i \in (ItemsAt(Doc))' : i = task[k].res.id \/ (Theirs(i))' # {}
    BY DEF CommitAt
  <1> QED
    BY <1>2, <1>3 DEF CommitAt, Truncating

LEMMA RequestStays ==
  ASSUME NEW k \in DOMAIN task, RequestAt(k), k \in DOMAIN task',
         UNCHANGED <<files, disk>>, discarded \subseteq discarded',
         task'[k].r = task[k].r, task'[k].p = task[k].p,
         task'[k].pc \in Copying \cup {"refused", "claimcopy"} =>
           task[k].pc \in Copying \cup {"refused", "claimcopy"} \/ task[k].r.cloud # None,
         task'[k].pc \in Sending => task[k].pc \in Sending,
         task'[k].pc \in Copying => task[k].pc \in Copying,
         k \notin DOMAIN files => tombs'[k].up = tombs[k].up
  PROVE  (RequestAt(k))'
  BY DEF RequestAt, Bytes

LEMMA GenerationsStay ==
  ASSUME Generations, files' = files, \A k \in DocRows : k \in DOMAIN task' => k \in DOMAIN task,
         \A d : (LocalTomb(d))' => LocalTomb(d) /\ ((Big(d))' => Big(d))
  PROVE  Generations'
  <1>1. \A d : LocalTomb(d) => d \in DOMAIN tombs
    BY DEF LocalTomb
  <1>2. DocRows' = DocRows
    BY DEF DocRows
  <1> QED
    BY <1>1, <1>2 DEF Generations

\* An item whose content stays.
LEMMA OwnedStays ==
  ASSUME NEW j \in DOMAIN cloud, j \in DOMAIN cloud', (Cur(j))' = Cur(j), Owned(j),
         UNCHANGED <<files, disk>>, writes.theirs \subseteq writes'.theirs,
         \A d \in DOMAIN tombs : tombs[d].cloud = j => d \in DOMAIN tombs' /\ tombs'[d].cloud = j,
         TombClaims(j) => (Owned(j))'
  PROVE  (Owned(j))'
  <1>1. Theirs(j) # {} => (Theirs(j))' # {}
    BY DEF Theirs, Cur
  <1>2. RowClaims(j) => (RowClaims(j))'
    BY DEF RowClaims, DocRows
  <1>3. (\E d \in DOMAIN tombs : tombs[d].cloud = j) => \E d \in DOMAIN tombs' : tombs'[d].cloud = j
    OBVIOUS
  <1> QED
    BY <1>1, <1>2, <1>3 DEF Owned

LEMMA TombClaimsStay ==
  ASSUME NEW j, (Cur(j))' = Cur(j), UNCHANGED <<disk, tombs>>
  PROVE  TombClaims(j) => (TombClaims(j))'
  BY DEF TombClaims, LocalTomb

-----------------------------------------------------------------------------
(* Requests to the cloud                                                   *)

\* A run ends, or fails, without a request.
LEMMA QuitsFaithful ==
  ASSUME Shape, Shape', Faithful, NEW k, Quits(k)
  PROVE  Faithful'
  <1>1. /\ k \in DOMAIN task /\ DOMAIN task[k] = TaskFields /\ OnlyRun(k)
        /\ UNCHANGED <<files, tombs, disk, handles, fuse, del, writes, discarded>>
        /\ UNCHANGED <<cloud, made, unseen, delta>>
        /\ k \in DOMAIN task' => Turns(k) /\ task[k].pc = "put"
    BY DEF Quits, Running1, NoRequest
  <1>2. Moves /\ Drives'
    BY <1>1, StillMoves DEF Faithful
  <1>3. Base' /\ Rows' /\ AllSafe'
    BY <1>1, <1>2, RowsStill, SafeStill DEF Faithful
  <1>4. ASSUME NEW j \in DOMAIN task', j # k PROVE j \in DOMAIN task /\ task'[j] = task[j]
    BY <1>1, <1>4 DEF OnlyRun
  <1>5. k \in DOMAIN task' =>
          /\ task'[k].r = task[k].r /\ task'[k].p = task[k].p
          /\ task'[k].pc \in {"failed", "refused"}
          /\ task'[k].pc = "refused" => task[k].r.cloud # None
    BY <1>1 DEF Turns, TaskFields
  <1>6. Requests'
    <2> SUFFICES ASSUME NEW j \in DOMAIN task' PROVE (RequestAt(j))'
      BY DEF Requests
    <2>1. j \in DOMAIN task /\ RequestAt(j)
      BY <1>1, <1>4 DEF Faithful, Requests
    <2>2. CASE j # k
      BY <1>1, <1>4, <2>1, <2>2, RequestStays
    <2>3. CASE j = k
      BY <1>1, <1>5, <2>1, <2>3, RequestStays DEF Copying, Sending
    <2> QED
      BY <2>2, <2>3
  <1>7. Answered'
    <2> SUFFICES ASSUME NEW j \in DOMAIN task' PROVE (AnsweredAt(j))'
      BY DEF Answered
    <2>1. CASE j # k
      <3>1. /\ j \in DOMAIN task /\ task'[j] = task[j] /\ AnsweredAt(j) /\ (Bytes(j))' = Bytes(j)
            /\ task[j].pc = "commit" => CommitAt(j)
        BY <1>1, <1>4, <2>1 DEF Faithful, Answered, AnsweredAt, Bytes
      <3>2. task[j].pc = "commit" => (CommitAt(j))'
        BY <1>1, <3>1 DEF CommitAt, Truncating, Cur, Theirs, ItemsAt
      <3> QED
        BY <1>2, <3>1, <3>2, AnswerMoves
    <2>2. CASE j = k
      BY <1>5, <2>2 DEF AnsweredAt, Storing
    <2> QED
      BY <2>1, <2>2
  <1>8. Generations'
    <2>1. DOMAIN task' \subseteq DOMAIN task
      BY <1>1, <1>4
    <2> QED
      BY <1>1, <2>1, GenerationsStay DEF LocalTomb, Big, Faithful
  <1>9. Graves' /\ Deletions' /\ Listed' /\ NoStrangers'
    <2>1. Graves'
      BY <1>1 DEF Faithful, Graves, GraveAt, Cur
    <2>2. Deletions'
      BY <1>1 DEF Faithful, Deletions, DeletionAt
    <2>3. Listed'
      BY <1>1 DEF Faithful, Listed, Items, Locals
    <2>4. NoStrangers'
      BY <1>1 DEF Faithful, NoStrangers, Owned, RowClaims, TombClaims, LocalTomb, DocRows, Cur, Theirs, ItemsAt
    <2> QED
      BY <2>1, <2>2, <2>3, <2>4
  <1> QED
    BY <1>2, <1>3, <1>6, <1>7, <1>8, <1>9 DEF Faithful

\* What lies at the path after it was stored there.
LEMMA StrangersStored ==
  ASSUME Shape, Shape', Drives, Drives', NoStrangers, NEW i, NEW p, NEW data, Stores(i, p, data),
         \A d \in DOMAIN tombs : \A j :
           tombs[d].cloud = j /\ j \in DOMAIN cloud => d \in DOMAIN tombs' /\ tombs'[d].cloud = j,
         \A j \in ItemsAt(Doc) \ {i} : TombClaims(j) => (Owned(j))',
         p = Doc => (Owned(i))'
  PROVE  NoStrangers'
  <1>1. /\ DOMAIN cloud' = DOMAIN cloud \cup {i} /\ cloud'[i].path = p
        /\ \A j \in DOMAIN cloud \ {i} : cloud'[j] = cloud[j]
        /\ \A j : j # i => (Cur(j))' = Cur(j)
    BY StoresFacts
  <1> SUFFICES ASSUME NEW j \in (ItemsAt(Doc))' PROVE (Owned(j))'
    BY DEF NoStrangers
  <1>2. j \in DOMAIN cloud' /\ cloud'[j].path = Doc
    BY DEF ItemsAt
  <1>3. CASE j = i
    BY <1>1, <1>2, <1>3
  <1>4. CASE j # i
    <2>1. j \in ItemsAt(Doc) /\ j \in DOMAIN cloud /\ Owned(j)
      BY <1>1, <1>2, <1>4 DEF ItemsAt, NoStrangers
    <2>2. UNCHANGED <<files, disk>> /\ writes.theirs \subseteq writes'.theirs
      BY DEF Stores
    <2> QED
      BY <1>1, <1>2, <1>4, <2>1, <2>2, OwnedStays
  <1> QED
    BY <1>3, <1>4

LEMMA PutsFaithful ==
  ASSUME Shape, Shape', Working, Working', Faithful, NEW k, NEW i, NEW p, NEW at, Puts(k, i, p, at)
  PROVE  Faithful' /\ Overwrites /\ Vanishes
  <1>1. /\ k \in DOMAIN task /\ DOMAIN task[k] = TaskFields /\ OnlyRun(k)
        /\ UNCHANGED <<files, tombs, disk, handles, fuse, del, writes, discarded>>
        /\ Stores(i, p, Bytes(k)) /\ task[k].pc \in {"put", "copy"}
        /\ k \in DOMAIN task' => Answers(k, i, at) \/ (Turns(k) /\ at = "commit")
        /\ Drives /\ Generations /\ RequestAt(k)
    BY DEF Puts, Running1, Faithful, Requests
  <1>2. \/ /\ task[k].pc = "put" /\ p = Doc /\ at = "commit"
           /\ task[k].r.cloud # None => i = task[k].r.cloud
        \/ /\ task[k].pc = "copy" /\ p = task[k].p /\ p # Doc /\ at = "copied"
           /\ i \in DOMAIN cloud => Cur(i) = Bytes(k)
    BY DEF Puts
  <1>3. Moves /\ Overwrites /\ Vanishes /\ Drives'
    BY <1>1, StoresMoves
  <1>4. /\ DOMAIN cloud' = DOMAIN cloud \cup {i}
        /\ cloud'[i].path = p /\ cloud'[i].etag.data = Bytes(k) /\ (Cur(i))' = Bytes(k)
        /\ \A j : j # i => (Cur(j))' = Cur(j)
        /\ i \in DOMAIN cloud => cloud[i].path = p
    BY <1>1, StoresFacts
  <1>5. /\ task[k].pc # "import"
        /\ k \in DOMAIN files =>
              /\ k \in DocRows /\ files[k].cloud = task[k].r.cloud
              /\ files[k].cache = task[k].r.cache /\ \A d : ~LocalTomb(d)
        /\ k \notin DOMAIN files =>
              /\ LocalTomb(k) /\ k \in DOMAIN tombs /\ tombs[k].cloud = task[k].r.cloud
              /\ \A d : LocalTomb(d) /\ d # k => tombs[d].cloud = None /\ tombs[d].up.path = None
    BY <1>1, RunExcludes
  <1>6. Base' /\ Rows' /\ AllSafe'
    BY <1>1, <1>3, RowsStill, SafeStill DEF Faithful
  <1>7. \A j \in DOMAIN task' : j # k => j \in DOMAIN task /\ task'[j] = task[j] /\ task[j].pc = "import"
    <2>1. \A j \in DOMAIN task : j # k => task[j].pc = "import"
      BY <1>1, <1>5, OneRunner
    <2> QED
      BY <1>1, <2>1 DEF OnlyRun
  <1>8. k \in DOMAIN task' =>
          /\ task'[k].r = task[k].r /\ task'[k].p = task[k].p
          /\ task'[k].pc \in {at, "failed", "refused"}
          /\ task'[k].pc = "refused" => task[k].r.cloud # None
          /\ task'[k].pc \in {"failed", "refused"} => at = "commit"
          /\ task'[k].pc = at => task'[k].res = Entry(cloud', i)
    BY <1>1, <1>2 DEF Turns, Answers, TaskFields
  <1>9. Requests'
    <2> SUFFICES ASSUME NEW j \in DOMAIN task' PROVE (RequestAt(j))'
      BY DEF Requests
    <2>1. j \in DOMAIN task /\ RequestAt(j)
      BY <1>1, <1>7 DEF Faithful, Requests
    <2>2. CASE j # k
      BY <1>1, <1>7, <2>1, <2>2, RequestStays
    <2>3. CASE j = k
      BY <1>1, <1>2, <1>8, <2>1, <2>3, RequestStays DEF Copying, Sending
    <2> QED
      BY <2>2, <2>3
  <1>10. Answered'
    <2> SUFFICES ASSUME NEW j \in DOMAIN task' PROVE (AnsweredAt(j))'
      BY DEF Answered
    <2>1. CASE j # k
      BY <1>1, <1>3, <1>7, <2>1, AnswerMoves DEF Faithful, Answered, Bytes
    <2>2. CASE j = k /\ task'[k].pc # at
      BY <1>2, <1>8, <2>2 DEF AnsweredAt, Storing
    <2>3. CASE j = k /\ task'[k].pc = at
      <3>1. /\ task'[k].res.id = i /\ task'[k].res.path = p /\ task'[k].res.etag.data = Bytes(k)
            /\ (Bytes(k))' = Bytes(k) /\ task'[k].p = task[k].p
            /\ task'[k].r = task[k].r
        BY <1>1, <1>4, <1>8, <2>3 DEF Entry, Bytes
      <3>2. at = "commit" => (CommitAt(k))'
        <4>1. ASSUME NEW m \in (ItemsAt(Doc))', p = Doc PROVE m = i
          BY <1>3, <1>4, <4>1 DEF ItemsAt, Drives
        <4> QED
          BY <1>2, <1>4, <3>1, <4>1, CopyNames DEF CommitAt
      <3> QED
        BY <1>2, <1>4, <2>3, <3>1, <3>2 DEF AnsweredAt, Storing
    <2> QED
      BY <2>1, <2>2, <2>3
  <1>11. Generations'
    <2>1. DOMAIN task' \subseteq DOMAIN task
      BY <1>1, <1>7
    <2> QED
      BY <1>1, <2>1, GenerationsStay DEF LocalTomb, Big
  <1>12. Graves'
    <2> SUFFICES ASSUME NEW d \in DOMAIN tombs PROVE (GraveAt(d))'
      BY <1>1 DEF Graves
    <2>1. GraveAt(d)
      BY DEF Faithful, Graves
    <2>2. ASSUME NEW m \in DOMAIN cloud, tombs[d].cloud = m
          PROVE  (Cur(m))' \subseteq discarded \cup writes.theirs
      <3>1. Cur(m) \subseteq discarded \cup writes.theirs
        BY <2>1, <2>2 DEF GraveAt
      <3>2. CASE m # i \/ p # Doc
        BY <1>2, <1>4, <2>2, <3>1, <3>2
      <3>3. CASE m = i /\ p = Doc
        <4>1. LocalTomb(d) /\ i # None
          BY <1>4, <2>1, <2>2, <3>3, NoneNowhere DEF GraveAt, LocalTomb
        <4>2. k \notin DOMAIN files /\ d = k
          BY <1>5, <2>2, <3>3, <4>1
        <4>3. Bytes(k) \subseteq discarded
          BY <1>1, <1>2, <3>3, <4>2 DEF RequestAt, Sending
        <4> QED
          BY <1>4, <3>3, <4>3
      <3> QED
        BY <3>2, <3>3
    <2> QED
      BY <1>1, <1>3, <2>1, <2>2, GraveMoves
  <1>13. Deletions'
    BY <1>1, <1>3, DeletionMoves DEF Faithful, Deletions
  <1>14. Listed'
    <2>1. delta' = IF delta = None THEN None ELSE [delta EXCEPT !.since = delta.since \cup {i}]
      BY <1>1 DEF Stores, Store, Changed
    <2>2. delta # None => DOMAIN delta = DeltaFields
      BY DEF Shape, DeltaShape
    <2> QED
      BY <1>1, <1>3, <2>1, <2>2, ListedMoves DEF DeltaFields, Faithful
  <1>15. NoStrangers'
    <2>1. ASSUME p = Doc PROVE (Owned(i))'
      <3>1. task[k].pc = "put" /\ (task[k].r.cloud # None => i = task[k].r.cloud)
        BY <1>2, <2>1, CopyNames
      <3>2. CASE k \in DOMAIN files /\ task[k].r.cloud # None
        BY <1>1, <1>5, <3>1, <3>2 DEF Owned
      <3>3. CASE k \in DOMAIN files /\ task[k].r.cloud = None
        <4>1. files[k].up = Claim(Doc, None, task[k].r.cache)
          BY <1>1, <3>1, <3>3 DEF RequestAt, Sending
        <4>2. (RowClaims(i))'
          BY <1>1, <1>4, <1>5, <3>3, <4>1 DEF RowClaims, DocRows, Claim, Bytes
        <4> QED
          BY <4>2 DEF Owned
      <3>4. CASE k \notin DOMAIN files /\ task[k].r.cloud # None
        BY <1>1, <1>5, <3>1, <3>4 DEF Owned
      <3>5. CASE k \notin DOMAIN files /\ task[k].r.cloud = None
        <4>1. tombs[k].up = Claim(Doc, None, task[k].r.cache)
          BY <1>1, <3>1, <3>5 DEF RequestAt, Sending
        <4>2. (TombClaims(i))'
          BY <1>1, <1>4, <1>5, <3>5, <4>1 DEF TombClaims, LocalTomb, Claim, Bytes
        <4> QED
          BY <4>2 DEF Owned
      <3> QED
        BY <3>2, <3>3, <3>4, <3>5
    <2>2. \A j \in ItemsAt(Doc) \ {i} : TombClaims(j) => (Owned(j))'
      BY <1>1, <1>4, TombClaimsStay DEF Owned
    <2> QED
      BY <1>1, <1>3, <2>1, <2>2, StrangersStored DEF Faithful
  <1> QED
    BY <1>3, <1>6, <1>9, <1>10, <1>11, <1>12, <1>13, <1>14, <1>15 DEF Faithful

-----------------------------------------------------------------------------
(* Late answers and replays: what a tombstone learns                       *)

LEMMA SettleFacts ==
  ASSUME Shape, NEW d, LocalTomb(d), NEW e, tombs' = CompleteDeleted(tombs, d, e)
  PROVE  /\ d \in DOMAIN tombs /\ DOMAIN tombs \subseteq DOMAIN tombs'
         /\ \A x \in DOMAIN tombs \ {d} : tombs'[x] = tombs[x]
         /\ tombs'[d].local = tombs[d].local /\ tombs'[d].path = tombs[d].path
         /\ tombs'[d].cache = tombs[d].cache
         /\ tombs'[d].up = Claim(None, None, tombs[d].up.cache)
         /\ tombs'[d].cloud = IF tombs[d].cloud = None THEN e.id ELSE tombs[d].cloud
         /\ \A x \in DOMAIN tombs' \ DOMAIN tombs :
              /\ x = e.id /\ tombs'[x] = CleanupTask(e.id, e.path)
              /\ tombs[d].cloud \notin {None, e.id}
  <1> DEFINE settled == [x \in DOMAIN tombs |->
               IF tombs[x].local # d THEN tombs[x]
               ELSE [tombs[x] EXCEPT
                       !.cloud = IF tombs[x].cloud = None THEN e.id ELSE @,
                       !.up = Claim(None, None, tombs[x].up.cache),
                       !.done = e.path]]
  <1>1. /\ d \in DOMAIN tombs /\ tombs[d].local = d /\ DOMAIN tombs[d] = TombFields
        /\ \A x \in DOMAIN tombs \ {d} : tombs[x].local # d
    <2>1. d \in Locals /\ None \notin Locals
      BY DEF LocalTomb, Shape, TombShape, CloudShape
    <2> QED
      BY <2>1 DEF LocalTomb, Shape, TombShape
  <1>2. DeletesOf(tombs, d) = {d}
    BY <1>1 DEF DeletesOf
  <1>3. /\ DOMAIN settled = DOMAIN tombs
        /\ \A x \in DOMAIN tombs \ {d} : settled[x] = tombs[x]
        /\ settled[d].local = tombs[d].local /\ settled[d].path = tombs[d].path
        /\ settled[d].cache = tombs[d].cache
        /\ settled[d].up = Claim(None, None, tombs[d].up.cache)
        /\ settled[d].cloud = IF tombs[d].cloud = None THEN e.id ELSE tombs[d].cloud
    BY <1>1 DEF TombFields
  <1>4. \/ tombs' = settled
        \/ /\ e.id \notin DOMAIN tombs /\ tombs' = With(settled, e.id, CleanupTask(e.id, e.path))
           /\ tombs[d].cloud \notin {None, e.id}
    BY <1>2 DEF CompleteDeleted
  <1> HIDE DEF settled
  <1>5. CASE tombs' = settled
    BY <1>1, <1>3, <1>5
  <1>6. CASE /\ e.id \notin DOMAIN tombs /\ tombs' = With(settled, e.id, CleanupTask(e.id, e.path))
             /\ tombs[d].cloud \notin {None, e.id}
    <2>1. /\ DOMAIN tombs' = DOMAIN tombs \cup {e.id} /\ tombs'[e.id] = CleanupTask(e.id, e.path)
          /\ \A x \in DOMAIN tombs : tombs'[x] = settled[x]
      BY <1>3, <1>6 DEF With
    <2> QED
      BY <1>1, <1>3, <1>6, <2>1
  <1> QED
    BY <1>4, <1>5, <1>6

LEMMA SettleGraves ==
  ASSUME Shape, Shape', Moves, Graves, NEW d, LocalTomb(d), NEW e,
         tombs' = CompleteDeleted(tombs, d, e), disk' = disk,
         e.id \in DOMAIN cloud' => (Cur(e.id))' \subseteq discarded' \cup writes'.theirs,
         tombs[d].cloud \notin {None, e.id} /\ e.id \in DOMAIN cloud' => cloud'[e.id].path # Doc,
         \A x \in DOMAIN tombs, i \in DOMAIN cloud \cap DOMAIN cloud' :
           tombs[x].cloud = i => (Cur(i))' \subseteq discarded' \cup writes'.theirs
  PROVE  Graves'
  <1> SUFFICES ASSUME NEW x \in DOMAIN tombs' PROVE (GraveAt(x))'
    BY DEF Graves
  <1>1. /\ d \in DOMAIN tombs /\ DOMAIN tombs \subseteq DOMAIN tombs'
        /\ \A y \in DOMAIN tombs \ {d} : tombs'[y] = tombs[y]
        /\ tombs'[d].local = tombs[d].local /\ tombs'[d].path = tombs[d].path
        /\ tombs'[d].up = Claim(None, None, tombs[d].up.cache)
        /\ tombs'[d].cloud = IF tombs[d].cloud = None THEN e.id ELSE tombs[d].cloud
        /\ \A y \in DOMAIN tombs' \ DOMAIN tombs :
             y = e.id /\ tombs'[y] = CleanupTask(e.id, e.path) /\ tombs[d].cloud \notin {None, e.id}
    BY SettleFacts
  <1>2. CASE x \in DOMAIN tombs /\ x # d
    BY <1>1, <1>2, GraveMoves DEF Graves
  <1>3. CASE x = d
    <2>1. tombs'[d].up.path = None /\ tombs[d].local # None
      BY <1>1 DEF Claim, LocalTomb
    <2>2. tombs[d].path = Doc
      BY <1>1, <2>1 DEF Graves, GraveAt
    <2>3. tombs[d].cloud # None /\ tombs[d].cloud \in DOMAIN cloud' => tombs[d].cloud \in DOMAIN cloud
      BY <1>1 DEF Shape, TombShape, Moves
    <2> QED
      BY <1>1, <1>3, <2>1, <2>2, <2>3 DEF GraveAt
  <1>4. CASE x \notin DOMAIN tombs
    <2>1. x = e.id /\ tombs'[x] = CleanupTask(e.id, e.path) /\ tombs[d].cloud \notin {None, e.id}
      BY <1>1, <1>4
    <2>2. /\ tombs'[x].local = None /\ tombs'[x].cloud = e.id /\ tombs'[x].up.path = None
      BY <2>1 DEF CleanupTask, NoClaim, Claim
    <2> QED
      BY <2>1, <2>2 DEF GraveAt
  <1> QED
    BY <1>2, <1>3, <1>4

\* A run that only has an import left asks nothing more of anybody.
LEMMA IdleRun ==
  ASSUME NEW j \in DOMAIN task, task[j].pc = "import", AnsweredAt(j), task'[j] = task[j]
  PROVE  (RequestAt(j))' /\ (AnsweredAt(j))'
  BY DEF RequestAt, AnsweredAt, Copying, Sending, Storing

\* An acknowledgement for a file that was deleted meanwhile.
Late(k) ==
  /\ k \in DOMAIN task /\ task[k].pc \in {"commit", "copied", "publish"} /\ k \notin DOMAIN files
  /\ tombs' = CompleteDeleted(tombs, k, task[k].res) /\ task' = Without(task, k)
  /\ UNCHANGED <<files, disk, handles, fuse, del, cloud, made, unseen, delta, writes, discarded>>

LEMMA LateFaithful ==
  ASSUME Shape, Shape', Working, Faithful, NEW k, Late(k)
  PROVE  Faithful'
  <1> DEFINE e == task[k].res
  <1>1. /\ k \in DOMAIN task /\ task[k].pc \in {"commit", "copied", "publish"} /\ k \notin DOMAIN files
        /\ tombs' = CompleteDeleted(tombs, k, e) /\ task' = Without(task, k)
        /\ UNCHANGED <<files, disk, handles, fuse, del, cloud, made, unseen, delta, writes, discarded>>
        /\ Drives /\ Generations /\ RequestAt(k) /\ AnsweredAt(k) /\ Graves
    BY DEF Late, Faithful, Requests, Answered
  <1>2. /\ LocalTomb(k) /\ k \in DOMAIN tombs /\ tombs[k].cloud = task[k].r.cloud
        /\ \A j \in DocRows : files[j].cloud = None /\ files[j].up.path = None
        /\ \A d : LocalTomb(d) /\ d # k => tombs[d].cloud = None /\ tombs[d].up.path = None
    BY <1>1, RunExcludes
  <1>3. /\ \A x \in DOMAIN tombs \ {k} : tombs'[x] = tombs[x]
        /\ DOMAIN tombs \subseteq DOMAIN tombs'
        /\ tombs'[k].local = tombs[k].local
        /\ tombs'[k].cloud = IF tombs[k].cloud = None THEN e.id ELSE tombs[k].cloud
    BY <1>1, <1>2, SettleFacts
  <1>4. Moves /\ Drives'
    BY <1>1, StillMoves
  <1>5. Base' /\ Rows' /\ AllSafe'
    BY <1>1, <1>4, RowsStill, SafeStill DEF Faithful
  <1>6. \A j \in DOMAIN task' : j \in DOMAIN task /\ task'[j] = task[j] /\ task[j].pc = "import"
    <2>1. \A j \in DOMAIN task : j # k => task[j].pc = "import"
      BY <1>1, OneRunner
    <2> QED
      BY <1>1, <2>1 DEF Without
  <1>7. Requests' /\ Answered'
    BY <1>6, IdleRun DEF Faithful, Requests, Answered
  <1>8. Generations'
    <2>1. \A d : LocalTomb(d) <=> (LocalTomb(d))'
      BY <1>1, LateTombs
    <2>2. ASSUME NEW d, LocalTomb(d), (Big(d))' PROVE Big(d)
      <3>1. d \in DOMAIN task' => d \in DOMAIN task
        BY <1>6
      <3>2. d # k => tombs'[d] = tombs[d]
        BY <1>3, <2>2 DEF LocalTomb
      <3> QED
        BY <1>1, <2>2, <3>1, <3>2 DEF Big
    <2> QED
      BY <1>1, <1>6, <2>1, <2>2, GenerationsStay
  <1>9. Cur(e.id) \subseteq discarded \cup writes.theirs \/ e.id \notin DOMAIN cloud
    <2>1. Bytes(k) \subseteq discarded
      BY <1>1 DEF RequestAt, Sending, Copying
    <2>2. CASE task[k].pc = "commit"
      BY <1>1, <2>1, <2>2 DEF AnsweredAt, CommitAt
    <2>3. CASE task[k].pc \in {"copied", "publish"} /\ e.id \in DOMAIN cloud
      <3>1. e.path = CopyPath(Bytes(k)) /\ cloud[e.id].path = e.path /\ e.path # Doc
        BY <1>1, <2>3 DEF RequestAt, AnsweredAt, Storing, Copying, Shape, TaskShape
      <3>2. cloud[e.id].path = CopyPath(Cur(e.id))
        BY <2>3, <3>1, <1>1 DEF Drives
      <3>3. Cur(e.id) = Bytes(k)
        BY <3>1, <3>2, CopyNames
      <3> QED
        BY <2>1, <3>3
    <2> QED
      BY <1>1, <2>2, <2>3
  <1>10. tombs[k].cloud \notin {None, e.id} /\ e.id \in DOMAIN cloud => cloud[e.id].path # Doc
    <2>1. task[k].pc = "commit" => tombs[k].cloud \in {None, e.id}
      BY <1>1, <1>2 DEF Shape, TaskShape
    <2>2. task[k].pc # "commit" /\ e.id \in DOMAIN cloud => cloud[e.id].path # Doc
      BY <1>1 DEF Shape, TaskShape
    <2> QED
      BY <2>1, <2>2
  <1>11. Graves'
    <2>1. \A x \in DOMAIN tombs, i \in DOMAIN cloud :
            tombs[x].cloud = i => (Cur(i))' \subseteq discarded' \cup writes'.theirs
      BY <1>1 DEF Graves, GraveAt, Cur
    <2>2. \A i : (Cur(i))' = Cur(i)
      BY <1>1 DEF Cur
    <2> QED
      BY <1>1, <1>2, <1>4, <1>9, <1>10, <2>1, <2>2, SettleGraves
  <1>12. Deletions'
    <2> SUFFICES ASSUME NEW d \in DOMAIN del PROVE (DeletionAt(d))'
      BY <1>1 DEF Deletions
    <2>1. d \in DOMAIN tombs /\ d # k /\ DeletionAt(d)
      BY <1>1 DEF Shape, DelShape, Faithful, Deletions
    <2> QED
      BY <1>1, <1>3, <1>4, <2>1, DeletionMoves
  <1>13. Listed'
    BY <1>1 DEF Faithful, Listed, Items, Locals
  <1>14. NoStrangers'
    <2> SUFFICES ASSUME NEW j \in ItemsAt(Doc) PROVE (Owned(j))'
      BY <1>1 DEF NoStrangers, ItemsAt
    <2>1. j \in DOMAIN cloud /\ Owned(j) /\ j # None
      BY NoneNowhere DEF ItemsAt, Faithful, NoStrangers
    <2>2. (Cur(j))' = Cur(j) /\ j \in DOMAIN cloud'
      BY <1>1, <2>1 DEF Cur
    <2>3. \A d \in DOMAIN tombs : tombs[d].cloud = j => d \in DOMAIN tombs' /\ tombs'[d].cloud = j
      BY <1>3, <2>1
    <2>4. ASSUME TombClaims(j) PROVE (Owned(j))'
      <3>1. PICK d \in DOMAIN tombs : LocalTomb(d) /\ tombs[d].cloud = None /\ tombs[d].up.path = Doc
        BY <2>4 DEF TombClaims
      <3>2. d = k
        BY <1>2, <3>1, NoneNowhere
      <3>3. task[k].r.cloud = None /\ task[k].pc = "commit"
        BY <1>1, <1>2, <3>1, <3>2 DEF RequestAt, Copying
      <3>4. j = e.id \/ Theirs(j) # {}
        BY <1>1, <3>3 DEF AnsweredAt, CommitAt
      <3>5. CASE j = e.id
        <4>1. tombs'[k].cloud = j /\ k \in DOMAIN tombs'
          BY <1>2, <1>3, <3>1, <3>2, <3>5
        <4> QED
          BY <4>1 DEF Owned
      <3>6. CASE Theirs(j) # {}
        BY <1>1, <3>6 DEF Owned, Theirs
      <3> QED
        BY <3>4, <3>5, <3>6
    <2> QED
      BY <1>1, <2>1, <2>2, <2>3, <2>4, OwnedStays
  <1> QED
    BY <1>4, <1>5, <1>7, <1>8, <1>11, <1>12, <1>13, <1>14 DEF Faithful

-----------------------------------------------------------------------------
(* Deletion runs                                                           *)

LEMMA SameRuns ==
  ASSUME Requests, UNCHANGED <<files, disk, task>>, discarded \subseteq discarded',
         \A j \in DOMAIN task : j \notin DOMAIN files => tombs'[j].up = tombs[j].up
  PROVE  Requests'
  <1> SUFFICES ASSUME NEW j \in DOMAIN task PROVE (RequestAt(j))'
    BY DEF Requests
  <1> QED
    BY RequestStays DEF Requests

LEMMA ReplaysFaithful ==
  ASSUME Shape, Shape', Working, Faithful, NEW d, NEW i, Replays(d, i)
  PROVE  Faithful' /\ Overwrites /\ Vanishes
  <1> DEFINE p == tombs[d].up.path
             data == disk[tombs[d].up.cache]
             e == Entry(cloud', i)
  <1>1. /\ d \in DOMAIN del /\ del[d].pc = "replay" /\ d \in DOMAIN tombs
        /\ UNCHANGED <<files, disk, handles, fuse, task, writes, discarded>>
        /\ Stores(i, p, data) /\ data \subseteq discarded
        /\ \/ tombs' = CompleteDeleted(tombs, d, e) /\ del' = [del EXCEPT ![d].pc = "remove"]
           \/ tombs' = tombs /\ del' = Without(del, d)
        /\ Drives /\ Generations /\ Graves
    BY DEF Replays, Faithful
  <1>2. /\ \A j \in DocRows : files[j].cloud = None /\ files[j].up.path = None
        /\ \A x : LocalTomb(x) /\ x # d => tombs[x].cloud = None /\ tombs[x].up.path = None
        /\ LocalTomb(d) /\ p # None /\ tombs[d].up.target = None
        /\ tombs[d].up.cache \in DOMAIN disk
        /\ \A j \in DOMAIN task : task[j].pc = "import"
    BY <1>1, ReplayExcludes, ReplayAlone
  <1>3. p = Doc => tombs[d].cloud = None
    BY <1>2 DEF LocalTomb, Shape, TombShape, Unbound
  <1>4. Moves /\ Overwrites /\ Vanishes /\ Drives'
    BY <1>1, StoresMoves
  <1>5. /\ DOMAIN cloud' = DOMAIN cloud \cup {i}
        /\ cloud'[i].path = p /\ (Cur(i))' = data
        /\ \A j : j # i => (Cur(j))' = Cur(j)
        /\ i \in DOMAIN cloud => cloud[i].path = p
        /\ e.id = i /\ e.path = p
    <2>1. /\ DOMAIN cloud' = DOMAIN cloud \cup {i}
          /\ cloud'[i].path = p /\ (Cur(i))' = data
          /\ \A j : j # i => (Cur(j))' = Cur(j)
          /\ i \in DOMAIN cloud => cloud[i].path = p
      <3>1. Stores(i, p, data)
        BY <1>1
      <3> HIDE DEF p, data
      <3> QED
        BY <3>1, StoresFacts
    <2>2. e.id = i /\ e.path = p
      BY <2>1 DEF Entry
    <2> QED
      BY <2>1, <2>2
  <1> HIDE DEF e
  <1>6. Base' /\ Rows' /\ AllSafe'
    BY <1>1, <1>4, RowsStill, SafeStill DEF Faithful
  <1>7. Requests' /\ Answered'
    BY <1>1, <1>2, IdleRun DEF Faithful, Requests, Answered
  <1>8. \/ tombs' = tombs
        \/ /\ tombs' = CompleteDeleted(tombs, d, e) /\ DOMAIN tombs \subseteq DOMAIN tombs'
           /\ \A x \in DOMAIN tombs \ {d} : tombs'[x] = tombs[x]
           /\ tombs'[d].local = tombs[d].local /\ tombs'[d].up.path = None
           /\ tombs'[d].cloud = IF tombs[d].cloud = None THEN i ELSE tombs[d].cloud
    <2>1. CASE tombs' = CompleteDeleted(tombs, d, e)
      <3>1. tombs'[d].up = Claim(None, None, tombs[d].up.cache)
        BY <1>2, <2>1, SettleFacts
      <3>2. tombs'[d].up.path = None
        BY <3>1 DEF Claim
      <3> QED
        BY <1>2, <1>5, <2>1, <3>2, SettleFacts
    <2> QED
      BY <1>1, <2>1
  <1>9. Generations'
    <2>1. \A x : LocalTomb(x) <=> (LocalTomb(x))'
      BY <1>1, LateTombs, SameTombs
    <2>2. ASSUME NEW x, LocalTomb(x), (Big(x))' PROVE Big(x)
      <3>1. CASE x = d
        BY <1>2, <3>1 DEF Big
      <3>2. CASE x # d
        BY <1>1, <1>8, <2>2, <3>2 DEF Big, LocalTomb
      <3> QED
        BY <3>1, <3>2
    <2> QED
      BY <1>1, <2>1, <2>2, GenerationsStay
  <1>10. Graves'
    <2>1. \A x \in DOMAIN tombs, j \in DOMAIN cloud :
            tombs[x].cloud = j => (Cur(j))' \subseteq discarded' \cup writes'.theirs
      <3> SUFFICES ASSUME NEW x \in DOMAIN tombs, NEW j \in DOMAIN cloud, tombs[x].cloud = j
                   PROVE  (Cur(j))' \subseteq discarded' \cup writes'.theirs
        OBVIOUS
      <3>1. GraveAt(x)
        BY <1>1 DEF Graves
      <3> QED
        BY <1>1, <1>5, <3>1 DEF GraveAt
    <2>2. CASE tombs' = CompleteDeleted(tombs, d, e)
      BY <1>1, <1>2, <1>3, <1>4, <1>5, <2>1, <2>2, SettleGraves
    <2>3. CASE tombs' = tombs
      BY <1>1, <1>4, <2>1, <2>3, GraveMoves DEF Graves
    <2> QED
      BY <1>8, <2>2, <2>3
  <1>11. Deletions'
    <2> SUFFICES ASSUME NEW x \in DOMAIN del' PROVE (DeletionAt(x))'
      BY DEF Deletions
    <2>1. CASE x = d
      <3>1. del' = [del EXCEPT ![d].pc = "remove"] /\ tombs' = CompleteDeleted(tombs, d, e)
        BY <1>1, <2>1 DEF Without
      <3>2. del'[d].pc = "remove"
        BY <1>1, <3>1 DEF Shape, DelShape
      <3>3. tombs'[d].up.path = None
        <4>1. tombs'[d].up = Claim(None, None, tombs[d].up.cache)
          BY <1>2, <3>1, SettleFacts
        <4> QED
          BY <4>1 DEF Claim
      <3> QED
        BY <2>1, <3>2, <3>3 DEF DeletionAt
    <2>2. CASE x # d
      <3>1. x \in DOMAIN del /\ del'[x] = del[x]
        BY <1>1, <2>2 DEF Without
      <3>2. x \in DOMAIN tombs /\ DeletionAt(x)
        BY <3>1 DEF Shape, DelShape, Faithful, Deletions
      <3>3. tombs'[x] = tombs[x]
        BY <1>8, <2>2, <3>2
      <3> QED
        BY <1>4, <3>1, <3>2, <3>3, DeletionMoves
    <2> QED
      BY <2>1, <2>2
  <1>12. Listed'
    <2>1. delta' = IF delta = None THEN None ELSE [delta EXCEPT !.since = delta.since \cup {i}]
      BY <1>1 DEF Stores, Store, Changed
    <2>2. delta # None => DOMAIN delta = DeltaFields
      BY DEF Shape, DeltaShape
    <2> QED
      BY <1>1, <1>4, <2>1, <2>2, ListedMoves DEF DeltaFields, Faithful
  <1>13. NoStrangers'
    <2>1. \A x \in DOMAIN tombs : \A j :
            tombs[x].cloud = j /\ j \in DOMAIN cloud => x \in DOMAIN tombs' /\ tombs'[x].cloud = j
      BY <1>8, NoneNowhere
    <2>2. ASSUME NEW j \in ItemsAt(Doc) \ {i} PROVE ~TombClaims(j)
      <3>1. TombClaims(j) => p = Doc
        BY <1>2, NoneNowhere DEF TombClaims
      <3>2. p # Doc
        <4>1. CASE i \in DOMAIN cloud
          BY <1>1, <1>5, <2>2, <4>1 DEF ItemsAt, Drives
        <4>2. CASE i \notin DOMAIN cloud
          BY <1>1, <2>2, <4>2 DEF Stores, Fits
        <4> QED
          BY <4>1, <4>2
      <3> QED
        BY <3>1, <3>2
    <2>3. ASSUME p = Doc PROVE (Owned(i))'
      <3>1. CASE tombs' = tombs
        <4>1. (TombClaims(i))'
          BY <1>1, <1>2, <1>3, <1>5, <2>3, <3>1 DEF TombClaims, LocalTomb
        <4> QED
          BY <4>1 DEF Owned
      <3>2. CASE d \in DOMAIN tombs' /\ tombs'[d].cloud = i
        BY <3>2 DEF Owned
      <3> QED
        BY <1>1, <1>3, <1>8, <2>3, <3>1, <3>2
    <2> QED
      BY <1>1, <1>4, <2>1, <2>2, <2>3, StrangersStored DEF Faithful
  <1> QED
    BY <1>4, <1>6, <1>7, <1>9, <1>10, <1>11, <1>12, <1>13 DEF Faithful

\* An item that goes, with contents that were given up.
LEMMA DropFaithful ==
  ASSUME Shape, Shape', Faithful, NEW i, Drops(i), task' = task, tombs' = tombs,
         Deletions'
  PROVE  Faithful' /\ Overwrites /\ Vanishes
  <1>1. /\ Moves /\ Overwrites /\ Vanishes /\ Drives'
        /\ DOMAIN cloud' = DOMAIN cloud \ {i} /\ \A j \in DOMAIN cloud' : cloud'[j] = cloud[j]
        /\ \A j : j # i => (Cur(j))' = Cur(j)
    BY DropsMoves DEF Faithful
  <1>2. /\ i \in DOMAIN cloud /\ discarded \subseteq discarded'
        /\ UNCHANGED <<files, disk, handles, fuse, writes>>
    BY DEF Drops
  <1>3. Base' /\ Rows' /\ AllSafe'
    BY <1>1, <1>2, RowsStill, SafeStill DEF Faithful
  <1>4. Requests'
    BY <1>2, SameRuns DEF Faithful
  <1>5. Answered'
    <2> SUFFICES ASSUME NEW k \in DOMAIN task PROVE (AnsweredAt(k))'
      BY DEF Answered
    <2>1. AnsweredAt(k) /\ (Bytes(k))' = Bytes(k)
      BY <1>2 DEF Faithful, Answered, Bytes
    <2>2. ASSUME task[k].pc = "commit" PROVE (CommitAt(k))'
      <3>1. CommitAt(k)
        BY <2>1, <2>2 DEF AnsweredAt
      <3>2. \A j \in (ItemsAt(Doc))' : j \in ItemsAt(Doc) /\ Theirs(j) \subseteq (Theirs(j))'
        BY <1>1, <1>2 DEF ItemsAt, Theirs
      <3>3. (Cur(task[k].res.id))' \subseteq Cur(task[k].res.id)
        BY <1>1 DEF Cur
      <3> QED
        BY <1>1, <1>2, <2>1, <2>2, <3>1, <3>2, <3>3, CommitMoves
    <2> QED
      BY <1>1, <2>1, <2>2, AnswerMoves
  <1>6. Generations'
    BY <1>2, GenerationsStay DEF Faithful, LocalTomb, Big
  <1>7. Graves'
    <2> SUFFICES ASSUME NEW x \in DOMAIN tombs PROVE (GraveAt(x))'
      BY DEF Graves
    <2>1. GraveAt(x)
      BY DEF Faithful, Graves
    <2>2. \A j \in DOMAIN cloud \cap DOMAIN cloud' :
            tombs[x].cloud = j => (Cur(j))' \subseteq discarded' \cup writes'.theirs
      BY <1>1, <1>2, <2>1 DEF GraveAt
    <2> QED
      BY <1>1, <1>2, <2>1, <2>2, GraveMoves
  <1>8. Listed'
    <2>1. delta' = IF delta = None THEN None ELSE [delta EXCEPT !.since = delta.since \cup {i}]
      BY DEF Drops, Drop, Changed
    <2>2. delta # None => DOMAIN delta = DeltaFields
      BY DEF Shape, DeltaShape
    <2> QED
      BY <1>1, <1>2, <2>1, <2>2, ListedMoves DEF DeltaFields, Faithful
  <1>9. NoStrangers'
    <2> SUFFICES ASSUME NEW j \in (ItemsAt(Doc))' PROVE (Owned(j))'
      BY DEF NoStrangers
    <2>1. j \in DOMAIN cloud /\ j \in DOMAIN cloud' /\ (Cur(j))' = Cur(j) /\ Owned(j)
      BY <1>1 DEF ItemsAt, Faithful, NoStrangers
    <2>2. TombClaims(j) => (Owned(j))'
      BY <1>2, <2>1, TombClaimsStay DEF Owned
    <2> QED
      BY <1>2, <2>1, <2>2, OwnedStays
  <1> QED
    BY <1>1, <1>3, <1>4, <1>5, <1>6, <1>7, <1>8, <1>9 DEF Faithful

LEMMA RemovesFaithful ==
  ASSUME Shape, Shape', Faithful, NEW d, NEW i, Removes(d, i)
  PROVE  Faithful' /\ Overwrites /\ Vanishes
  <1>1. /\ d \in DOMAIN del /\ del[d].pc = "remove" /\ d \in DOMAIN tombs /\ i = tombs[d].cloud
        /\ UNCHANGED <<files, tombs, disk, handles, fuse, task, writes, discarded>> /\ Drops(i)
        /\ del' = [del EXCEPT ![d].pc = "clean"] \/ del' = Without(del, d)
    BY DEF Removes
  <1>2. Moves /\ DOMAIN cloud' = DOMAIN cloud \ {i}
    BY <1>1, DropsMoves DEF Faithful
  <1>3. Deletions'
    <2> SUFFICES ASSUME NEW x \in DOMAIN del' PROVE (DeletionAt(x))'
      BY DEF Deletions
    <2>1. x \in DOMAIN del /\ (x # d => del'[x] = del[x]) /\ DeletionAt(x)
      BY <1>1 DEF Without, Faithful, Deletions
    <2>2. CASE x # d
      BY <1>1, <1>2, <2>1, <2>2, DeletionMoves
    <2>3. CASE x = d
      <3>1. del'[d].pc = "clean"
        BY <1>1, <2>3 DEF Without, Shape, DelShape
      <3> QED
        BY <1>1, <1>2, <2>1, <2>3, <3>1 DEF DeletionAt
    <2> QED
      BY <2>2, <2>3
  <1> QED
    BY <1>1, <1>3, DropFaithful

\* Nothing moves but a deletion run, or nothing at all.
LEMMA GivesUpFaithful ==
  ASSUME Shape, Shape', Faithful, NEW d, GivesUp(d)
  PROVE  Faithful'
  <1>1. /\ UNCHANGED <<files, tombs, disk, handles, fuse, task, writes, discarded>>
        /\ UNCHANGED <<cloud, made, unseen, delta>> /\ d \in DOMAIN del
        /\ \/ del' = Without(del, d)
           \/ /\ d \in DOMAIN tombs /\ tombs[d].cloud \notin DOMAIN cloud /\ del[d].pc = "remove"
              /\ del' = [del EXCEPT ![d].pc = "clean"]
    BY DEF GivesUp, NoRequest
  <1>2. Deletions'
    <2> SUFFICES ASSUME NEW x \in DOMAIN del' PROVE (DeletionAt(x))'
      BY DEF Deletions
    <2>1. x \in DOMAIN del /\ (x # d => del'[x] = del[x]) /\ DeletionAt(x)
      BY <1>1 DEF Without, Faithful, Deletions
    <2>2. CASE x # d
      BY <1>1, <2>1, <2>2 DEF DeletionAt
    <2>3. CASE x = d
      <3>1. del'[d].pc = "clean" /\ tombs[d].cloud \notin DOMAIN cloud /\ del[d].pc = "remove"
        BY <1>1, <2>3 DEF Without, Shape, DelShape
      <3> QED
        BY <1>1, <2>1, <2>3, <3>1 DEF DeletionAt
    <2> QED
      BY <2>2, <2>3
  <1> QED
    BY <1>1, <1>2 DEF Faithful, Base, BaseAt, Rows, RowsAt, Requests, RequestAt, Answered,
       AnsweredAt, CommitAt, Generations, Big, Graves, GraveAt, Drives, Listed, NoStrangers, Owned,
       RowClaims, TombClaims, AllSafe, Safe, LocalTomb, DocRows, Window, Truncating, Cur, Bytes, Theirs, ItemsAt, Items, Locals

-----------------------------------------------------------------------------
(* The other client                                                        *)

RemoteWrites(i, data) ==
  /\ Stores(i, Doc, data) /\ NextWrite \in data /\ data \subseteq Cur(i) \cup {NextWrite}
  /\ RemoteWrite /\ UNCHANGED <<tombs, task, del>>

LEMMA RemoteWriteCases ==
  ASSUME Shape, RemoteCreate \/ \E i \in DOMAIN cloud : RemoteEdit(i)
  PROVE  \E i, data : RemoteWrites(i, data)
  <1>1. RemoteWrite => writes.theirs \subseteq writes'.theirs
    BY DEF RemoteWrite
  <1>2. CASE RemoteCreate
    <2> DEFINE i == CloudId(made + 1)
    <2>1. /\ Store(i, Doc, {NextWrite}) /\ RemoteWrite /\ ItemsAt(Doc) = {}
          /\ UNCHANGED <<files, tombs, disk, handles, fuse, task, del, discarded>>
      BY <1>2 DEF RemoteCreate
    <2>2. i \notin DOMAIN cloud
      BY NoneNowhere
    <2>3. Fits(i, Doc, {NextWrite})
      BY <2>1, <2>2 DEF Fits
    <2>4. RemoteWrites(i, {NextWrite})
      BY <1>1, <2>1, <2>3 DEF RemoteWrites, Stores
    <2> QED
      BY <2>4
  <1>3. ASSUME NEW i \in DOMAIN cloud, RemoteEdit(i)
        PROVE  \E j, data : RemoteWrites(j, data)
    <2> DEFINE data == cloud[i].etag.data \cup {NextWrite}
    <2>1. /\ cloud[i].path = Doc /\ RemoteWrite /\ Store(i, Doc, data) /\ data = Cur(i) \cup {NextWrite}
          /\ UNCHANGED <<files, tombs, disk, handles, fuse, task, del, discarded>>
      BY <1>3 DEF RemoteEdit, Cur
    <2> HIDE DEF data
    <2>2. RemoteWrites(i, data)
      BY <1>1, <1>3, <2>1 DEF RemoteWrites, Stores, Fits
    <2> QED
      BY <2>2
  <1> QED
    BY <1>2, <1>3

LEMMA RemoteWritesFaithful ==
  ASSUME Shape, Shape', Faithful, NEW i, NEW data, RemoteWrites(i, data)
  PROVE  Faithful' /\ Overwrites /\ Vanishes
  <1>1. /\ Stores(i, Doc, data) /\ UNCHANGED <<files, disk, handles, fuse, tombs, task, del, discarded>>
        /\ writes' = [last |-> writes.last + 1, theirs |-> writes.theirs \cup {writes.last + 1}]
        /\ writes.last + 1 \in data /\ data \subseteq Cur(i) \cup {writes.last + 1}
        /\ Drives
    BY DEF RemoteWrites, RemoteWrite, NextWrite, Stores, Faithful
  <1>2. Moves /\ Overwrites /\ Vanishes /\ Drives'
    BY <1>1, StoresMoves
  <1>3. /\ DOMAIN cloud' = DOMAIN cloud \cup {i}
        /\ cloud'[i].path = Doc /\ cloud'[i].etag.data = data /\ (Cur(i))' = data
        /\ \A j \in DOMAIN cloud \ {i} : cloud'[j] = cloud[j]
        /\ \A j : j # i => (Cur(j))' = Cur(j)
        /\ i \in DOMAIN cloud => cloud[i].path = Doc
    BY <1>1, StoresFacts
  <1>4. \A j : (Cur(j))' \subseteq Cur(j) \cup writes'.theirs
    BY <1>1, <1>3
  <1>5. (Theirs(i))' # {}
    BY <1>1, <1>3 DEF Theirs
  <1>6. Base' /\ Rows' /\ AllSafe'
    <2>1. \A w \in 1..writes'.last : w \in 1..writes.last \/ \E j \in DOMAIN cloud' : w \in (Cur(j))'
      <3> SUFFICES ASSUME NEW w \in 1..writes'.last, w \notin 1..writes.last
                   PROVE  w \in (Cur(i))' /\ i \in DOMAIN cloud'
        OBVIOUS
      <3>1. writes.last \in Nat /\ writes'.last = writes.last + 1
        BY <1>1 DEF Shape, CloudShape
      <3> QED
        BY <1>1, <1>3, <3>1
    <2> QED
      BY <1>1, <1>2, <2>1, RowsStill, SafeStill DEF Faithful
  <1>7. Requests'
    BY <1>1, SameRuns DEF Faithful
  <1>8. Answered'
    <2> SUFFICES ASSUME NEW k \in DOMAIN task PROVE (AnsweredAt(k))'
      BY <1>1 DEF Answered
    <2>1. AnsweredAt(k) /\ (Bytes(k))' = Bytes(k)
      BY <1>1 DEF Faithful, Answered, Bytes
    <2>2. ASSUME task[k].pc = "commit" PROVE (CommitAt(k))'
      <3>1. CommitAt(k)
        BY <2>1, <2>2 DEF AnsweredAt
      <3>2. \A j \in (ItemsAt(Doc))' :
               \/ j \in ItemsAt(Doc) /\ Theirs(j) \subseteq (Theirs(j))'
               \/ (Theirs(j))' # {}
        <4> SUFFICES ASSUME NEW j \in (ItemsAt(Doc))', j # i
                     PROVE  j \in ItemsAt(Doc) /\ Theirs(j) \subseteq (Theirs(j))'
          BY <1>5
        <4> QED
          BY <1>1, <1>3 DEF ItemsAt, Theirs
      <3>3. (Cur(task[k].res.id))' \subseteq Cur(task[k].res.id) \cup writes'.theirs
        BY <1>1, <1>4
      <3> QED
        BY <1>1, <1>2, <2>1, <2>2, <3>1, <3>2, <3>3, CommitMoves
    <2> QED
      BY <1>1, <1>2, <2>1, <2>2, AnswerMoves
  <1>9. Generations'
    BY <1>1, GenerationsStay DEF Faithful, LocalTomb, Big
  <1>10. Graves'
    <2> SUFFICES ASSUME NEW x \in DOMAIN tombs PROVE (GraveAt(x))'
      BY <1>1 DEF Graves
    <2>1. GraveAt(x)
      BY DEF Faithful, Graves
    <2>2. \A j \in DOMAIN cloud \cap DOMAIN cloud' :
            tombs[x].cloud = j => (Cur(j))' \subseteq discarded' \cup writes'.theirs
      BY <1>1, <1>4, <2>1 DEF GraveAt
    <2> QED
      BY <1>1, <1>2, <2>1, <2>2, GraveMoves
  <1>11. Deletions'
    BY <1>1, <1>2, DeletionMoves DEF Faithful, Deletions
  <1>12. Listed'
    <2>1. delta' = IF delta = None THEN None ELSE [delta EXCEPT !.since = delta.since \cup {i}]
      BY <1>1 DEF Stores, Store, Changed
    <2>2. delta # None => DOMAIN delta = DeltaFields
      BY DEF Shape, DeltaShape
    <2> QED
      BY <1>1, <1>2, <2>1, <2>2, ListedMoves DEF DeltaFields, Faithful
  <1>13. NoStrangers'
    <2>1. (Owned(i))'
      BY <1>5 DEF Owned
    <2>2. \A j \in ItemsAt(Doc) \ {i} : TombClaims(j) => (Owned(j))'
      BY <1>1, <1>3, TombClaimsStay DEF Owned
    <2> QED
      BY <1>1, <1>2, <2>1, <2>2, StrangersStored DEF Faithful
  <1> QED
    BY <1>2, <1>6, <1>7, <1>8, <1>9, <1>10, <1>11, <1>12, <1>13 DEF Faithful

LEMMA RemoteFaithful ==
  ASSUME Shape, Shape', Faithful, RemoteStep
  PROVE  Faithful' /\ Overwrites /\ Vanishes
  <1>1. CASE RemoteCreate \/ \E i \in DOMAIN cloud : RemoteEdit(i)
    BY <1>1, RemoteWriteCases, RemoteWritesFaithful
  <1>2. ASSUME NEW i \in DOMAIN cloud, RemoteDelete(i)
        PROVE  Faithful' /\ Overwrites /\ Vanishes
    <2>1. /\ Drops(i) /\ task' = task /\ tombs' = tombs /\ del' = del
      BY <1>2 DEF RemoteDelete, Drops, Cur
    <2>2. Moves
      BY <2>1, DropsMoves DEF Faithful
    <2>3. Deletions'
      BY <2>1, <2>2, DeletionMoves DEF Faithful, Deletions
    <2> QED
      BY <2>1, <2>3, DropFaithful
  <1> QED
    BY <1>1, <1>2 DEF RemoteStep

-----------------------------------------------------------------------------
(* Steps that leave the rows, the bytes and the cloud alone                *)

\* Runs, deletion runs and the refresh go on, each for itself.
LEMMA StillFaithful ==
  ASSUME Shape, Shape', Faithful,
         UNCHANGED <<files, tombs, disk, cloud, made, fuse, writes, discarded>>,
         \A k \in DOMAIN task' :
           (k \in DOMAIN task /\ task'[k] = task[k]) \/ ((RequestAt(k))' /\ (AnsweredAt(k))'),
         Generations', Deletions', Listed'
  PROVE  Faithful' /\ Overwrites /\ Vanishes
  <1>1. Moves /\ Overwrites /\ Vanishes /\ Drives'
    BY StillMoves DEF Faithful
  <1>2. Base' /\ Rows' /\ AllSafe'
    BY <1>1, RowsStill, SafeStill DEF Faithful
  <1>3. ASSUME NEW k \in DOMAIN task' PROVE (RequestAt(k))' /\ (AnsweredAt(k))'
    <2> SUFFICES ASSUME k \in DOMAIN task, task'[k] = task[k] PROVE (RequestAt(k))' /\ (AnsweredAt(k))'
      BY <1>3
    <2>1. RequestAt(k) /\ AnsweredAt(k)
      BY DEF Faithful, Requests, Answered
    <2>2. (RequestAt(k))'
      BY <2>1, RequestStays
    <2>3. (Bytes(k))' = Bytes(k) /\ (task[k].pc = "commit" => (CommitAt(k))')
      BY <2>1 DEF AnsweredAt, CommitAt, Bytes, Truncating, Cur, Theirs, ItemsAt
    <2> QED
      BY <1>1, <2>1, <2>2, <2>3, AnswerMoves
  <1>4. Graves' /\ NoStrangers'
    BY DEF Faithful, Graves, GraveAt, Cur, NoStrangers, Owned, RowClaims, TombClaims, LocalTomb,
           DocRows, Theirs, ItemsAt
  <1> QED
    BY <1>1, <1>2, <1>3, <1>4 DEF Faithful, Requests, Answered

LEMMA IdleFaithful ==
  ASSUME Shape, Shape', Faithful,
         UNCHANGED <<files, tombs, disk, cloud, made, fuse, writes, discarded, task, del>>, Listed'
  PROVE  Faithful' /\ Overwrites /\ Vanishes
  <1>1. Generations' /\ Deletions'
    BY DEF Faithful, Generations, Deletions, DeletionAt, LocalTomb, Big, DocRows
  <1> QED
    BY <1>1, StillFaithful

LEMMA SameListed ==
  ASSUME Listed, UNCHANGED <<files, cloud, made, delta>>
  PROVE  Listed'
  BY DEF Listed, Items, Locals

LEMMA QuietFaithful ==
  ASSUME Shape, Shape', Faithful,
         (\E h : OpenCached(h) \/ (Release(h) /\ files' = files)) \/ UNCHANGED vars
  PROVE  Faithful' /\ Overwrites /\ Vanishes
  <1>1. UNCHANGED <<files, tombs, disk, cloud, made, delta, fuse, writes, discarded, task, del>>
    BY DEF OpenCached, Release, FuseOnly, NoRequest, vars
  <1>2. Listed'
    BY <1>1, SameListed DEF Faithful
  <1> QED
    BY <1>1, <1>2, IdleFaithful

\* A deleted file at the path closes it for an upload.
LEMMA StartUploadFaithful ==
  ASSUME Shape, Shape', Faithful, NEW k, StartUpload(k)
  PROVE  Faithful' /\ Overwrites /\ Vanishes
  <1>1. /\ k \in DOMAIN files /\ files[k].state \in {"dirty", "uploading", "conflict"}
        /\ ~IsPendingDelete(tombs, k, files[k].path)
        /\ UNCHANGED <<files, tombs, disk, cloud, made, delta, fuse, writes, discarded, del>>
    BY DEF StartUpload, NoRequest, OnlyTask
  <1>2. PICK t : /\ task' = With(task, k, t) /\ t.r = files[k]
                 /\ t.pc = IF files[k].state = "conflict" THEN "claimcopy" ELSE "claim"
    BY DEF StartUpload, Goto
  <1>3. OnlyRun(k) /\ task'[k] = t
    BY <1>2, RunMoves
  <1>4. k \in DocRows /\ files[k].path = Doc
    BY <1>1, DocRow2 DEF Protected
  <1>5. (RequestAt(k))'
    <2>1. files[k].state = "conflict" => files[k].cloud # None
      BY <1>4 DEF Faithful, Rows, RowsAt
    <2> QED
      BY <1>2, <1>3, <2>1 DEF RequestAt, Copying, Sending
  <1>6. (AnsweredAt(k))'
    BY <1>2, <1>3 DEF AnsweredAt, Storing
  <1>7. Generations'
    <2>1. \A d : ~LocalTomb(d)
      BY <1>1, <1>4 DEF IsPendingDelete, Barrier, Faithful, Graves, GraveAt, LocalTomb
    <2> QED
      BY <1>1, <2>1 DEF Generations, LocalTomb
  <1>8. Deletions' /\ Listed'
    BY <1>1, SameListed DEF Faithful, Deletions, DeletionAt
  <1> QED
    BY <1>1, <1>3, <1>5, <1>6, <1>7, <1>8, StillFaithful DEF OnlyRun

\* What is there has an entry.
LEMMA EntryThere ==
  ASSUME IInv, NEW i \in DOMAIN cloud
  PROVE  Entry(cloud, i) # None
  <1>1. PICK g : Now(g)
    BY DEF IInv, Known
  <1>2. World(g) /\ i \in ItemsIn(g) /\ cloud[i].path \in PathsIn(g) \ {None}
        /\ cloud[i].etag \in EtagsIn(g) \ {None}
    BY <1>1, Worlds DEF Drive
  <1>3. ContentsIn(g) \subseteq SUBSET Nat
    BY <1>2 DEF ContentsIn, World
  <1>4. i \in {"c"} \X Nat
    BY <1>2 DEF ItemsIn, CloudId, World
  <1>5. cloud[i].path \in {"doc", "copy"} \X SUBSET Nat
    BY <1>2, <1>3 DEF PathsIn, Doc, CopyPath
  <1>6. cloud[i].etag \in [rev : Nat, data : SUBSET Nat]
    BY <1>2, <1>3 DEF EtagsIn
  <1> QED
    BY <1>4, <1>5, <1>6, NoneAssumption DEF Entry

LEMMA AskLatestFaithful ==
  ASSUME IInv, Shape, Shape', Working, Faithful, NEW k, AskLatest(k)
  PROVE  Faithful' /\ Overwrites /\ Vanishes
  <1>1. /\ k \in DOMAIN task /\ task[k].pc = "copied" /\ DOMAIN task[k] = TaskFields
        /\ UNCHANGED <<files, disk, cloud, made, unseen, delta, handles, fuse, writes, discarded, del>>
    BY RowOfRun DEF AskLatest, OnlyTask, NoRequest, At
  <1>2. CASE DeletesOf(tombs, k) # {}
    <2>1. Late(k)
      BY <1>1, <1>2, RunHasTomb DEF AskLatest, Late, Done
    <2>2. Overwrites /\ Vanishes
      BY <1>1, StillMoves DEF Faithful
    <2> QED
      BY <2>1, <2>2, LateFaithful
  <1>3. CASE DeletesOf(tombs, k) = {} /\ task' = Without(task, k)
    <2>1. tombs' = tombs
      BY <1>3 DEF AskLatest
    <2>2. OnlyRun(k) /\ k \notin DOMAIN task'
      BY <1>3, RunMoves
    <2>3. Quits(k)
      BY <1>1, <2>1, <2>2 DEF Quits, Running1, NoRequest
    <2>4. Overwrites /\ Vanishes
      BY <1>1, StillMoves DEF Faithful
    <2> QED
      BY <2>3, <2>4, QuitsFaithful
  <1>4. CASE /\ DeletesOf(tombs, k) = {}
             /\ \E e : /\ e = IF task[k].r.cloud \in DOMAIN cloud THEN Entry(cloud, task[k].r.cloud)
                              ELSE None
                       /\ task' = With(task, k, [task[k] EXCEPT !.pc = "publish", !.latest = e])
    <2>1. PICK e : /\ e = IF task[k].r.cloud \in DOMAIN cloud THEN Entry(cloud, task[k].r.cloud)
                          ELSE None
                   /\ task' = With(task, k, [task[k] EXCEPT !.pc = "publish", !.latest = e])
      BY <1>4
    <2>2. tombs' = tombs
      BY <1>4 DEF AskLatest
    <2>3. OnlyRun(k) /\ k \in DOMAIN task' /\ task'[k] = [task[k] EXCEPT !.pc = "publish", !.latest = e]
      BY <2>1, RunMoves
    <2>4. /\ task'[k].r = task[k].r /\ task'[k].p = task[k].p /\ task'[k].res = task[k].res
          /\ task'[k].pc = "publish" /\ task'[k].latest = e
      BY <1>1, <2>3 DEF TaskFields
    <2>5. RequestAt(k) /\ AnsweredAt(k)
      BY <1>1 DEF Faithful, Requests, Answered
    <2>6. (RequestAt(k))'
      BY <1>1, <2>2, <2>3, <2>4, <2>5, RequestStays DEF Copying, Sending
    <2>7. (AnsweredAt(k))'
      <3>1. e = None => task[k].r.cloud \notin DOMAIN cloud
        BY <2>1, EntryThere
      <3> QED
        BY <1>1, <2>4, <2>5, <3>1 DEF AnsweredAt, Storing, Bytes, Cur
    <2>8. Generations'
      <3>1. DOMAIN task' \subseteq DOMAIN task
        BY <1>1, <2>3 DEF OnlyRun
      <3> QED
        BY <1>1, <2>2, <3>1, GenerationsStay DEF LocalTomb, Big, Faithful
    <2>9. Deletions' /\ Listed'
      BY <1>1, <2>2, SameListed DEF Faithful, Deletions, DeletionAt
    <2> QED
      BY <1>1, <2>2, <2>3, <2>6, <2>7, <2>8, <2>9, StillFaithful DEF OnlyRun
  <1>5. DeletesOf(tombs, k) = {} =>
          \/ task' = Without(task, k)
          \/ \E e : /\ e = IF task[k].r.cloud \in DOMAIN cloud THEN Entry(cloud, task[k].r.cloud)
                              ELSE None
                    /\ task' = With(task, k, [task[k] EXCEPT !.pc = "publish", !.latest = e])
    BY DEF AskLatest, Goto, Done
  <1> QED
    BY <1>2, <1>3, <1>4, <1>5

\* A deletion run starts.
LEMMA StartDeleteFaithful ==
  ASSUME Shape, Shape', Faithful, NEW d, StartDelete(d)
  PROVE  Faithful' /\ Overwrites /\ Vanishes
  <1>1. /\ UNCHANGED <<files, tombs, disk, cloud, made, delta, fuse, writes, discarded, task>>
        /\ d \in DOMAIN tombs
    BY DEF StartDelete, NoRequest, OnlyDel
  <1>2. PICK x : /\ del' = With(del, d, x)
                 /\ x.pc = IF tombs[d].up.path # None /\ tombs[d].up.target = None THEN "replay"
                           ELSE "remove"
    BY DEF StartDelete
  <1>3. Deletions'
    BY <1>1, <1>2 DEF Faithful, Deletions, DeletionAt, With
  <1>4. Generations' /\ Listed'
    BY <1>1, SameListed DEF Faithful, Generations, LocalTomb, Big, DocRows
  <1> QED
    BY <1>1, <1>3, <1>4, StillFaithful

\* A cleanup that a row has made void: no upload needs it.
LEMMA DropCleanupFaithful ==
  ASSUME Shape, Shape', Working, Faithful, NEW d, DropCleanup(d)
  PROVE  Faithful' /\ Overwrites /\ Vanishes
  <1>1. /\ UNCHANGED <<files, disk, cloud, made, delta, fuse, writes, discarded, task, del>>
        /\ d \in DOMAIN tombs /\ tombs[d].local = None /\ d \notin DOMAIN del
        /\ Owners(files, tombs[d].cloud) # {}
        /\ DOMAIN tombs' = DOMAIN tombs \ {d} /\ \A e \in DOMAIN tombs' : tombs'[e] = tombs[e]
    BY DEF DropCleanup, NoRequest, OnlyDel, ItemLocked, Shape, DelShape, Without
  <1>2. Moves /\ Overwrites /\ Vanishes /\ Drives'
    BY <1>1, StillMoves DEF Faithful
  <1>3. Base' /\ Rows' /\ AllSafe'
    BY <1>1, <1>2, RowsStill, SafeStill DEF Faithful
  <1>4. \A e : (LocalTomb(e) <=> (LocalTomb(e))') /\ (LocalTomb(e) => tombs'[e] = tombs[e])
    BY <1>1 DEF LocalTomb
  <1>5. Requests'
    <2> SUFFICES ASSUME NEW k \in DOMAIN task PROVE (RequestAt(k))'
      BY <1>1 DEF Requests
    <2>1. RequestAt(k) /\ RunningAt(k)
      BY RowOfRun DEF Faithful, Requests
    <2>2. CASE k \in DOMAIN files \/ task[k].pc # "import"
      <3>1. k \notin DOMAIN files => tombs'[k].up = tombs[k].up
        BY <1>4, <2>1, <2>2 DEF RunningAt
      <3> QED
        BY <1>1, <2>1, <3>1, RequestStays
    <2>3. CASE task[k].pc = "import"
      BY <1>1, <2>3 DEF RequestAt, Copying, Sending
    <2> QED
      BY <2>2, <2>3
  <1>6. Answered'
    <2> SUFFICES ASSUME NEW k \in DOMAIN task PROVE (AnsweredAt(k))'
      BY <1>1 DEF Answered
    <2>1. AnsweredAt(k)
      BY DEF Faithful, Answered
    <2> QED
      BY <1>1, <2>1 DEF AnsweredAt, CommitAt, Bytes, Truncating, Cur, Theirs, ItemsAt
  <1>7. Generations'
    BY <1>1, <1>4, GenerationsStay DEF Faithful, Big, LocalTomb
  <1>8. Graves'
    BY <1>1 DEF Faithful, Graves, GraveAt, Cur
  <1>9. Deletions' /\ Listed'
    BY <1>1, SameListed DEF Faithful, Deletions, DeletionAt, Shape, DelShape
  <1>10. NoStrangers'
    <2> SUFFICES ASSUME NEW j \in ItemsAt(Doc) PROVE (Owned(j))'
      BY <1>1 DEF NoStrangers, ItemsAt
    <2>1. Owned(j)
      BY DEF Faithful, NoStrangers
    <2>2. Theirs(j) # {} => (Theirs(j))' # {}
      BY <1>1 DEF Theirs
    <2>3. RowClaims(j) => (RowClaims(j))'
      BY <1>1 DEF RowClaims, DocRows, Cur
    <2>4. TombClaims(j) => (TombClaims(j))'
      BY <1>1, <1>4 DEF TombClaims, LocalTomb, Cur
    <2>5. ASSUME NEW e \in DOMAIN tombs, tombs[e].cloud = j PROVE (Owned(j))'
      <3>1. CASE e = d
        BY <1>1, <2>5, <3>1 DEF Owned, Owners
      <3>2. CASE e # d
        BY <1>1, <2>5, <3>2 DEF Owned
      <3> QED
        BY <3>1, <3>2
    <2> QED
      BY <1>1, <2>1, <2>2, <2>3, <2>4, <2>5 DEF Owned
  <1> QED
    BY <1>2, <1>3, <1>5, <1>6, <1>7, <1>8, <1>9, <1>10 DEF Faithful

\* The refresh reads: of a row it is going to remove, the item is gone.
LEMMA ReadingFaithful ==
  ASSUME IInv, Shape, Shape', Faithful, ListDelta \/ AdvanceLink \/ \E i : CheckDeleted(i)
  PROVE  Faithful' /\ Overwrites /\ Vanishes
  <1>1. UNCHANGED <<files, tombs, disk, cloud, made, fuse, writes, discarded, task, del>>
    BY DEF ListDelta, AdvanceLink, CheckDeleted, OnlyDelta
  <1>2. Items' = Items /\ Locals' = Locals
    BY <1>1 DEF Items, Locals
  <1>3. CASE ListDelta
    <2>1. PICK g : Now(g)
      BY DEF IInv, Known
    <2>2. unseen \subseteq Items
      BY <2>1, Worlds DEF Feed
    <2>3. delta'.gone = unseen \ DOMAIN cloud /\ delta'.pc = "deleted"
      BY <1>3 DEF ListDelta
    <2>4. Listed'
      BY <1>1, <1>2, <2>2, <2>3 DEF Listed
    <2> QED
      BY <1>1, <2>4, IdleFaithful
  <1>4. CASE AdvanceLink
    <2>1. Listed'
      BY <1>4 DEF AdvanceLink, Listed
    <2> QED
      BY <1>1, <2>1, IdleFaithful
  <1>5. ASSUME NEW i, CheckDeleted(i) PROVE Faithful' /\ Overwrites /\ Vanishes
    <2> DEFINE rows == {k \in Owners(files, i) : files[k].state \notin Protected}
               row == CHOOSE k \in rows : TRUE
    <2>1. /\ delta # None /\ delta.pc = "deleted" /\ i \in delta.gone /\ DOMAIN delta = DeltaFields
          /\ delta' = [delta EXCEPT !.gone = @ \ {i},
                                    !.pc = IF rows = {} THEN @ ELSE "remove",
                                    !.row = IF rows = {} THEN None ELSE row]
      BY <1>5 DEF CheckDeleted, Shape, DeltaShape
    <2>2. /\ delta'.gone = delta.gone \ {i}
          /\ delta'.pc = "remove" => rows # {} /\ delta'.row = row
      BY <2>1 DEF DeltaFields
    <2>3. delta.gone \subseteq Items \ DOMAIN cloud
      BY <2>1 DEF Faithful, Listed
    <2>4. ASSUME rows # {} PROVE /\ row \in DOMAIN files /\ files[row].cloud = i /\ row \in Locals
                                 /\ row \notin DOMAIN cloud
      <3>1. row \in rows
        BY <2>4
      <3> HIDE DEF row
      <3>2. row \in DOMAIN files /\ files[row].cloud = i
        BY <3>1 DEF Owners
      <3>3. row \in Locals /\ (row \in Items => row = i) /\ DOMAIN cloud \subseteq Items
        BY <3>2 DEF Shape, RowShape, CloudShape
      <3> QED
        BY <2>1, <2>3, <3>2, <3>3
    <2>5. i # None
      BY <2>1, <2>3, NoneNowhere
    <2> HIDE DEF row, rows
    <2>6. Listed'
      BY <1>1, <1>2, <2>1, <2>2, <2>3, <2>4, <2>5 DEF Listed
    <2> QED
      BY <1>1, <2>6, IdleFaithful
  <1> QED
    BY <1>3, <1>4, <1>5

-----------------------------------------------------------------------------
(* Steps that rewrite rows and leave the cloud alone                       *)

\* Rows keep their items, so the refresh still speaks of items that are gone.
LEMMA ListedRows ==
  ASSUME Shape, Shape', Listed, cloud' = cloud, made' \in {made, made + 1}, Bound(files, files'),
         \A j \in DOMAIN files' \ DOMAIN files : j \in Items \/ j \notin Locals,
         delta' # None =>
           /\ delta # None /\ delta'.gone \subseteq delta.gone
           /\ delta'.pc = "remove" => delta.pc = "remove" /\ delta'.row = delta.row
  PROVE  Listed'
  <1> SUFFICES ASSUME delta' # None PROVE Listed'
    BY DEF Listed
  <1>1. Items \subseteq Items' /\ Locals \subseteq Locals'
    BY More
  <1>2. delta'.gone \subseteq Items' \ DOMAIN cloud'
    BY <1>1 DEF Listed
  <1>3. ASSUME delta'.pc = "remove"
        PROVE  /\ delta'.row \in Locals' \ DOMAIN cloud'
               /\ delta'.row \in DOMAIN files' =>
                    files'[delta'.row].cloud # None /\ files'[delta'.row].cloud \notin DOMAIN cloud'
    <2> DEFINE o == delta'.row
    <2>1. /\ o \in Locals \ DOMAIN cloud
          /\ o \in DOMAIN files => files[o].cloud # None /\ files[o].cloud \notin DOMAIN cloud
      BY <1>3 DEF Listed
    <2> HIDE DEF o
    <2>2. CASE o \in DOMAIN files
      BY <1>1, <2>1, <2>2 DEF Bound, o
    <2>3. CASE o \notin DOMAIN files
      <3>1. o \in DOMAIN files' => o \in Items'
        BY <1>1, <2>1, <2>3
      <3>2. o \in DOMAIN files' => files'[o].cloud = o /\ o # None
        BY <3>1, NoneNowhere DEF Shape, RowShape, CloudShape
      <3> QED
        BY <1>1, <2>1, <3>2 DEF o
    <2> QED
      BY <2>2, <2>3
  <1> QED
    BY <1>2, <1>3 DEF Listed

LEMMA StrangersStay ==
  ASSUME NoStrangers, UNCHANGED <<tombs, disk, cloud, writes>>,
         \A j \in ItemsAt(Doc), o \in DOMAIN files : files[o].cloud = j => (Owned(j))',
         \A j \in ItemsAt(Doc) : RowClaims(j) => (Owned(j))'
  PROVE  NoStrangers'
  <1> SUFFICES ASSUME NEW j \in ItemsAt(Doc) PROVE (Owned(j))'
    BY DEF NoStrangers, ItemsAt
  <1>1. Owned(j)
    BY DEF NoStrangers
  <1>2. Theirs(j) # {} => (Theirs(j))' # {}
    BY DEF Theirs
  <1>3. TombClaims(j) => (TombClaims(j))'
    BY DEF TombClaims, LocalTomb, Cur
  <1> QED
    BY <1>1, <1>2, <1>3 DEF Owned

LEMMA SafeRows ==
  ASSUME AllSafe, UNCHANGED <<disk, cloud, fuse, discarded, writes>>,
         \A k \in DocRows : \A w \in disk[files[k].cache] :
           files[k].state \in Protected => (Safe(w))'
  PROVE  AllSafe'
  <1> SUFFICES ASSUME NEW w \in 1..writes.last PROVE (Safe(w))'
    BY DEF AllSafe
  <1>1. Safe(w)
    BY DEF AllSafe
  <1> QED
    BY <1>1 DEF Safe, Cur

\* A run with bytes works on its row: no other run has bytes, no deleted file waits.
LEMMA RunStepFaithful ==
  ASSUME Shape, Shape', Working, Faithful, NEW k \in DOMAIN task, k \in DOMAIN files,
         task[k].pc # "import", OnlyRun(k),
         UNCHANGED <<tombs, disk, cloud, made, fuse, del, writes, discarded>>,
         \A j \in DocRows' : j = k,
         k \in DocRows' => (BaseAt(k))' /\ (RowsAt(k))',
         k \in DOMAIN task' => (RequestAt(k))' /\ (AnsweredAt(k))',
         Listed', NoStrangers', AllSafe'
  PROVE  Faithful' /\ Overwrites /\ Vanishes
  <1>1. Overwrites /\ Vanishes /\ Drives'
    BY StillMoves DEF Faithful
  <1>2. Base' /\ Rows'
    BY DEF Base, Rows
  <1>3. ASSUME NEW j \in DOMAIN task' PROVE (RequestAt(j))' /\ (AnsweredAt(j))'
    <2>1. CASE j # k
      <3>1. j \in DOMAIN task /\ task'[j] = task[j] /\ task[j].pc = "import"
        BY <1>3, <2>1, OneRunner DEF OnlyRun, Faithful
      <3> QED
        BY <3>1, IdleRun DEF Faithful, Answered
    <2> QED
      BY <1>3, <2>1
  <1>4. Generations'
    <2>1. \A d : ~LocalTomb(d)
      BY RunExcludes DEF Faithful
    <2> QED
      BY <2>1 DEF Generations, LocalTomb
  <1>5. Graves' /\ Deletions'
    BY DEF Faithful, Graves, GraveAt, Deletions, DeletionAt, Cur
  <1> QED
    BY <1>1, <1>2, <1>3, <1>4, <1>5 DEF Faithful, Requests, Answered

\* ... and rewrites it in place, keeping its bytes.
LEMMA RewriteFaithful ==
  ASSUME Shape, Shape', Working, Faithful, NEW k \in DOMAIN task, k \in DOMAIN files,
         task[k].pc # "import", OnlyRun(k), Bound(files, files'),
         UNCHANGED <<tombs, disk, cloud, made, delta, fuse, del, writes, discarded>>,
         DOMAIN files' = DOMAIN files, \A j \in DOMAIN files \ {k} : files'[j] = files[j],
         files'[k].path = Doc, files'[k].cache = files[k].cache,
         (BaseAt(k))', (RowsAt(k))',
         k \in DOMAIN task' => (RequestAt(k))' /\ (AnsweredAt(k))',
         files'[k].cloud = None /\ files[k].up.path = Doc => files'[k].up.path = Doc,
         files[k].cloud = None /\ files'[k].cloud # None =>
           \A j \in ItemsAt(Doc) : j = files'[k].cloud \/ Theirs(j) # {},
         files[k].state \in Protected /\ files'[k].state \notin Protected =>
           \A w \in disk[files[k].cache] : (Safe(w))'
  PROVE  Faithful' /\ Overwrites /\ Vanishes
  <1>1. k \in DocRows /\ k \in DocRows' /\ (\A j \in DocRows : j = k) /\ \A j \in DocRows' : j = k
    <2>1. k \in DocRows /\ \A j \in DocRows : j = k
      BY DocRow2
    <2> QED
      BY <2>1 DEF DocRows, RowAt
  <1>2. Listed'
    BY ListedRows DEF Faithful
  <1>3. NoStrangers'
    <2>1. \A j \in ItemsAt(Doc), o \in DOMAIN files : files[o].cloud = j => (Owned(j))'
      <3> SUFFICES ASSUME NEW j \in ItemsAt(Doc), NEW o \in DOMAIN files, files[o].cloud = j
                   PROVE  (Owned(j))'
        OBVIOUS
      <3>1. j # None
        BY NoneNowhere DEF ItemsAt
      <3>2. o \in DOMAIN files' /\ files'[o].cloud = j
        BY <3>1 DEF Bound
      <3> QED
        BY <3>2 DEF Owned
    <2>2. ASSUME NEW j \in ItemsAt(Doc), RowClaims(j) PROVE (Owned(j))'
      <3>1. files[k].cloud = None /\ files[k].up.path = Doc /\ Cur(j) \subseteq disk[files[k].cache]
        BY <1>1, <2>2 DEF RowClaims
      <3>2. CASE files'[k].cloud = None
        <4>1. (RowClaims(j))'
          BY <1>1, <3>1, <3>2 DEF RowClaims, Cur
        <4> QED
          BY <4>1 DEF Owned
      <3>3. CASE files'[k].cloud # None
        BY <1>1, <3>1, <3>3 DEF Owned, Theirs, DocRows, RowAt
      <3> QED
        BY <3>2, <3>3
    <2> QED
      BY <2>1, <2>2, StrangersStay DEF Faithful
  <1>4. AllSafe'
    <2> SUFFICES ASSUME NEW w \in disk[files[k].cache], files[k].state \in Protected,
                        files'[k].state \in Protected
                 PROVE  (Safe(w))'
      BY <1>1, SafeRows DEF Faithful
    <2> QED
      BY <1>1 DEF Safe
  <1> QED
    BY <1>1, <1>2, <1>3, <1>4, RunStepFaithful

-----------------------------------------------------------------------------
(* The steps of an upload run on its row                                   *)

\* The run is over and nothing else happens.
LEMMA EndFaithful ==
  ASSUME Shape, Shape', Working, Faithful, NEW k \in DOMAIN task, task[k].pc # "import",
         task' = Without(task, k),
         UNCHANGED <<files, tombs, disk, handles, fuse, del, cloud, made, unseen, delta, writes, discarded>>
  PROVE  Faithful' /\ Overwrites /\ Vanishes
  <1>1. Quits(k)
    BY RunMoves, RowOfRun DEF Quits, Running1, NoRequest
  <1> QED
    BY <1>1, QuitsFaithful, StillMoves DEF Faithful

LEMMA ClaimUploadFaithful ==
  ASSUME Shape, Shape', Working, Faithful, Bound(files, files'), NEW k, ClaimUpload(k)
  PROVE  Faithful' /\ Overwrites /\ Vanishes
  <1>1. /\ k \in DOMAIN task /\ task[k].pc = "claim" /\ DOMAIN task[k] = TaskFields
        /\ UNCHANGED <<tombs, disk, handles, fuse, del, cloud, made, unseen, delta, writes, discarded>>
    BY RowOfRun DEF ClaimUpload, OnlyTask, NoRequest, At
  <1>2. CASE ~CanBeginUpload(files, tombs, k, task[k].r)
    BY <1>1, <1>2, EndFaithful DEF ClaimUpload, Done
  <1>3. CASE CanBeginUpload(files, tombs, k, task[k].r)
    <2>1. /\ files' = BeginUpload(files, k)
          /\ task' = With(task, k, [task[k] EXCEPT !.pc = "put"])
      BY <1>3 DEF ClaimUpload, Move, Goto
    <2>2. /\ k \in DOMAIN files /\ files[k].path = Doc /\ DOMAIN files[k] = RowFields
          /\ files[k].cache = task[k].r.cache /\ files[k].etag = task[k].r.etag
          /\ files[k].cloud = task[k].r.cloud /\ k \in DocRows /\ task[k].r.cache # None
          /\ files[k].state \in {"dirty", "uploading"}
      BY <1>1, <1>3, DocRow2, RowOfRun DEF CanBeginUpload, Unchanged, Shape, RowShape
    <2>3. /\ DOMAIN files' = DOMAIN files /\ \A j \in DOMAIN files \ {k} : files'[j] = files[j]
          /\ files'[k].state = "uploading" /\ files'[k].cache = files[k].cache
          /\ files'[k].path = Doc /\ files'[k].cloud = files[k].cloud /\ files'[k].etag = files[k].etag
          /\ files'[k].up = Claim(Doc, files[k].cloud, files[k].cache)
      BY <2>1, <2>2 DEF BeginUpload, RowFields
    <2>4. OnlyRun(k) /\ task'[k] = [task[k] EXCEPT !.pc = "put"]
      BY <2>1, RunMoves
    <2>5. task'[k].pc = "put" /\ task'[k].r = task[k].r
      BY <1>1, <2>4 DEF TaskFields
    <2>6. BaseAt(k) /\ RowsAt(k) /\ files'[k].up.path = Doc
      BY <2>2, <2>3 DEF Faithful, Base, Rows, Claim
    <2>7. (BaseAt(k))' /\ (RowsAt(k))'
      BY <1>1, <2>3, <2>6 DEF BaseAt, RowsAt
    <2>8. (RequestAt(k))' /\ (AnsweredAt(k))'
      BY <1>1, <2>2, <2>3, <2>5, <2>6 DEF RequestAt, AnsweredAt, BaseAt, Bytes, Sending, Copying, Storing
    <2> QED
      BY <1>1, <2>2, <2>3, <2>4, <2>6, <2>7, <2>8, RewriteFaithful DEF Protected
  <1> QED
    BY <1>2, <1>3

LEMMA FailUploadFaithful ==
  ASSUME Shape, Shape', Working, Faithful, Bound(files, files'), NEW k, FailUpload(k)
  PROVE  Faithful' /\ Overwrites /\ Vanishes
  <1>1. /\ k \in DOMAIN task /\ task[k].pc = "failed" /\ task' = Without(task, k)
        /\ UNCHANGED <<tombs, disk, handles, fuse, del, cloud, made, unseen, delta, writes, discarded>>
    BY DEF FailUpload, OnlyTask, NoRequest, At, Done
  <1>2. CASE files' = files
    BY <1>1, <1>2, EndFaithful
  <1>3. CASE k \in DOMAIN files /\ files' = [files EXCEPT ![k].state = "dirty"]
    <2>1. /\ k \in DocRows /\ DOMAIN files[k] = RowFields /\ files[k].path = Doc
      BY <1>1, <1>3, DocRow2 DEF Shape, RowShape
    <2>2. /\ DOMAIN files' = DOMAIN files /\ \A j \in DOMAIN files \ {k} : files'[j] = files[j]
          /\ files'[k].state = "dirty" /\ files'[k].cache = files[k].cache
          /\ files'[k].path = Doc /\ files'[k].cloud = files[k].cloud /\ files'[k].etag = files[k].etag
          /\ files'[k].up = files[k].up
      BY <1>3, <2>1 DEF RowFields
    <2>3. BaseAt(k) /\ RowsAt(k)
      BY <2>1 DEF Faithful, Base, Rows
    <2>4. (BaseAt(k))' /\ (RowsAt(k))'
      BY <1>1, <2>2, <2>3 DEF BaseAt, RowsAt
    <2>5. OnlyRun(k) /\ k \notin DOMAIN task'
      BY <1>1, RunMoves
    <2> QED
      BY <1>1, <1>3, <2>2, <2>4, <2>5, RewriteFaithful DEF Protected
  <1> QED
    BY <1>2, <1>3 DEF FailUpload, MarkState

LEMMA RefuseUploadFaithful ==
  ASSUME Shape, Shape', Working, Faithful, Bound(files, files'), NEW k, RefuseUpload(k)
  PROVE  Faithful' /\ Overwrites /\ Vanishes
  <1>1. /\ k \in DOMAIN task /\ task[k].pc = "refused" /\ DOMAIN task[k] = TaskFields
        /\ UNCHANGED <<tombs, disk, handles, fuse, del, cloud, made, unseen, delta, writes, discarded>>
    BY RowOfRun DEF RefuseUpload, OnlyTask, NoRequest, At
  <1>2. CASE files' = files /\ task' = Without(task, k)
    BY <1>1, <1>2, EndFaithful
  <1>3. CASE /\ CanMarkConflict(files, k, task[k].r) /\ files' = MarkState(files, k, "conflict")
             /\ task' = With(task, k, [task[k] EXCEPT !.pc = "claimcopy", !.r = files'[k]])
    <2>1. /\ k \in DOMAIN files /\ files[k].path = Doc /\ DOMAIN files[k] = RowFields
          /\ files[k].cloud = task[k].r.cloud /\ k \in DocRows /\ files[k].state = "uploading"
      BY <1>1, <1>3, DocRow2 DEF CanMarkConflict, Unchanged, Shape, RowShape
    <2>2. /\ DOMAIN files' = DOMAIN files /\ \A j \in DOMAIN files \ {k} : files'[j] = files[j]
          /\ files'[k].state = "conflict" /\ files'[k].cache = files[k].cache
          /\ files'[k].path = Doc /\ files'[k].cloud = files[k].cloud /\ files'[k].etag = files[k].etag
          /\ files'[k].up = files[k].up
      BY <1>3, <2>1 DEF MarkState, RowFields
    <2>3. OnlyRun(k) /\ task'[k] = [task[k] EXCEPT !.pc = "claimcopy", !.r = files'[k]]
      BY <1>3, RunMoves
    <2>4. task'[k].pc = "claimcopy" /\ task'[k].r = files'[k]
      BY <1>1, <2>3 DEF TaskFields
    <2>5. BaseAt(k) /\ RowsAt(k) /\ files[k].cloud # None
      BY <1>1, <2>1 DEF Faithful, Base, Rows, Requests, RequestAt
    <2>6. (BaseAt(k))' /\ (RowsAt(k))'
      BY <1>1, <2>2, <2>5 DEF BaseAt, RowsAt
    <2>7. (RequestAt(k))' /\ (AnsweredAt(k))'
      BY <2>2, <2>4, <2>5 DEF RequestAt, AnsweredAt, Sending, Copying, Storing
    <2> QED
      BY <1>1, <2>1, <2>2, <2>3, <2>5, <2>6, <2>7, RewriteFaithful DEF Protected
  <1> QED
    BY <1>2, <1>3 DEF RefuseUpload, Goto, Done

LEMMA ClaimCopyFaithful ==
  ASSUME Shape, Shape', Working, Faithful, Bound(files, files'), NEW k, ClaimCopy(k)
  PROVE  Faithful' /\ Overwrites /\ Vanishes
  <1>1. /\ k \in DOMAIN task /\ task[k].pc = "claimcopy" /\ DOMAIN task[k] = TaskFields
        /\ UNCHANGED <<tombs, disk, handles, fuse, del, cloud, made, unseen, delta, writes, discarded>>
    BY RowOfRun DEF ClaimCopy, OnlyTask, NoRequest, At
  <1>2. CASE files' = files /\ task' = Without(task, k)
    BY <1>1, <1>2, EndFaithful
  <1>3. ASSUME NEW c, c = task[k].r.cache, NEW p, p = CopyPath(disk[c]),
               CanBeginConflict(files, k, task[k].r, c), files' = BeginConflict(files, k, p, c),
               task' = With(task, k, [task[k] EXCEPT !.pc = "copy", !.p = p])
        PROVE  Faithful' /\ Overwrites /\ Vanishes
    <2>1. /\ k \in DOMAIN files /\ files[k].path = Doc /\ DOMAIN files[k] = RowFields
          /\ files[k].cloud = task[k].r.cloud /\ k \in DocRows /\ files[k].state = "conflict"
          /\ files[k].cache = c
      BY <1>1, <1>3, DocRow2 DEF CanBeginConflict, Shape, RowShape, TaskShape
    <2>2. /\ DOMAIN files' = DOMAIN files /\ \A j \in DOMAIN files \ {k} : files'[j] = files[j]
          /\ files'[k].state = "conflict" /\ files'[k].cache = c
          /\ files'[k].path = Doc /\ files'[k].cloud = files[k].cloud /\ files'[k].etag = files[k].etag
          /\ files'[k].up = Claim(p, None, c)
      BY <1>3, <2>1 DEF BeginConflict, RowFields
    <2>3. OnlyRun(k) /\ task'[k] = [task[k] EXCEPT !.pc = "copy", !.p = p]
      BY <1>3, RunMoves
    <2>4. task'[k].pc = "copy" /\ task'[k].r = task[k].r /\ task'[k].p = p
      BY <1>1, <2>3 DEF TaskFields
    <2>5. BaseAt(k) /\ RowsAt(k) /\ files[k].cloud # None
      BY <1>1, <2>1 DEF Faithful, Base, Rows, Requests, RequestAt
    <2>6. (BaseAt(k))' /\ (RowsAt(k))'
      BY <1>1, <1>3, <2>1, <2>2, <2>5 DEF BaseAt, RowsAt
    <2>7. (RequestAt(k))' /\ (AnsweredAt(k))'
      BY <1>1, <1>3, <2>1, <2>2, <2>4, <2>5 DEF RequestAt, AnsweredAt, Bytes, Sending, Copying, Storing
    <2> QED
      BY <1>1, <2>1, <2>2, <2>3, <2>5, <2>6, <2>7, RewriteFaithful DEF Protected
  <1> QED
    BY <1>2, <1>3 DEF ClaimCopy, Goto, Done

\* The copy is stored and has a row: the original lets its bytes go.
LEMMA DetachOriginalFaithful ==
  ASSUME Shape, Shape', Working, Faithful, Bound(files, files'), NEW k, DetachOriginal(k)
  PROVE  Faithful' /\ Overwrites /\ Vanishes
  <1>1. /\ k \in DOMAIN task /\ task[k].pc = "detach" /\ DOMAIN task[k] = TaskFields
        /\ UNCHANGED <<tombs, disk, handles, fuse, del, cloud, made, unseen, delta, writes, discarded>>
        /\ task' = With(task, k, [task[k] EXCEPT !.pc = "import"])
    BY RowOfRun DEF DetachOriginal, OnlyTask, NoRequest, At, Move, Goto
  <1>2. OnlyRun(k) /\ k \in DOMAIN task' /\ task'[k] = [task[k] EXCEPT !.pc = "import"]
    BY <1>1, RunMoves
  <1>3. task'[k].pc = "import" /\ task'[k].latest = task[k].latest
    BY <1>1, <1>2 DEF TaskFields
  <1>4. RequestAt(k) /\ AnsweredAt(k)
    BY <1>1 DEF Faithful, Requests, Answered
  <1>5. (RequestAt(k))' /\ (AnsweredAt(k))'
    BY <1>1, <1>3, <1>4 DEF RequestAt, AnsweredAt, Sending, Copying, Storing
  <1>6. CASE k \notin DOMAIN files
    <2>1. files' = files
      BY <1>6 DEF DetachOriginal, MarkOnlineOnly
    <2>2. DOMAIN task' = DOMAIN task
      BY <1>1, <1>2 DEF OnlyRun, With
    <2>3. Generations' /\ Deletions' /\ Listed'
      BY <1>1, <2>1, <2>2, GenerationsStay, SameListed DEF Faithful, Deletions, DeletionAt, LocalTomb, Big
    <2> QED
      BY <1>1, <1>2, <1>5, <2>1, <2>3, StillFaithful DEF OnlyRun
  <1>7. CASE k \in DOMAIN files
    <2>1. /\ files[k].path = Doc /\ DOMAIN files[k] = RowFields /\ k \in DocRows
          /\ files[k].cloud = task[k].r.cloud /\ files[k].cache = task[k].r.cache
      BY <1>1, <1>7, DocRow2, RowOfRun DEF Shape, RowShape, TaskShape, RunningAt
    <2>2. /\ DOMAIN files' = DOMAIN files /\ \A j \in DOMAIN files \ {k} : files'[j] = files[j]
          /\ files'[k].state = "online" /\ files'[k].cache = None
          /\ files'[k].path = Doc /\ files'[k].cloud = files[k].cloud /\ files'[k].etag = files[k].etag
          /\ files'[k].up = NoClaim
      BY <1>7, <2>1 DEF DetachOriginal, MarkOnlineOnly, RowFields
    <2>3. files[k].cloud # None
      BY <1>1, <1>4, <2>1 DEF RequestAt, Copying
    <2>4. (BaseAt(k))' /\ (RowsAt(k))'
      BY <2>2, <2>3 DEF BaseAt, RowsAt, NoClaim, Claim
    <2>5. \A j \in DocRows' : j = k
      BY <2>1, <2>2, DocRow2 DEF DocRows, RowAt
    <2>6. Listed'
      BY <1>1, <2>2, ListedRows DEF Faithful
    <2>7. NoStrangers'
      <3>1. \A j \in ItemsAt(Doc) : ~RowClaims(j)
        BY <2>1, <2>3, DocRow2 DEF RowClaims
      <3>2. \A j \in ItemsAt(Doc), o \in DOMAIN files : files[o].cloud = j => (Owned(j))'
        BY <2>2 DEF Owned
      <3> QED
        BY <1>1, <3>1, <3>2, StrangersStay DEF Faithful
    <2>8. AllSafe'
      <3>1. ASSUME NEW w \in Bytes(k) PROVE (Safe(w))'
        <4>1. w \in Cur(task[k].res.id) \cup discarded
          BY <1>1, <1>4, <3>1 DEF AnsweredAt, Storing
        <4> QED
          BY <1>1, <4>1 DEF Safe, Cur
      <3>2. \A j \in DocRows : \A w \in disk[files[j].cache] : (Safe(w))'
        BY <2>1, <3>1, DocRow2 DEF Bytes
      <3> QED
        BY <1>1, <3>2, SafeRows DEF Faithful
    <2> QED
      BY <1>1, <1>2, <1>5, <1>7, <2>4, <2>5, <2>6, <2>7, <2>8, RunStepFaithful
  <1> QED
    BY <1>6, <1>7

\* The acknowledgement settles the row: the upload's bytes are the cloud's content,
\* unless a truncation has given them up.
LEMMA CommitFileFaithful ==
  ASSUME IInv, Shape, Shape', Working, Faithful, Bound(files, files'), NEW k, CommitFile(k)
  PROVE  Faithful' /\ Overwrites /\ Vanishes
  <1>1. Acknowledged(k) /\ task[k].pc = "commit" /\ k \in DOMAIN task
    BY CommitAcknowledges
  <1>2. /\ UNCHANGED <<disk, handles, fuse, del, cloud, made, unseen, delta, writes, discarded>>
        /\ task' = Without(task, k)
    BY <1>1 DEF Acknowledged
  <1>3. CASE k \notin DOMAIN files
    <2>1. Late(k)
      BY <1>1, <1>2, <1>3 DEF Acknowledged, Late
    <2> QED
      BY <1>2, <2>1, LateFaithful, StillMoves DEF Faithful
  <1>4. CASE k \in DOMAIN files
    <2> DEFINE e == task[k].res
               r == files[k]
    <2>1. /\ tombs' = tombs /\ k \in DocRows
          /\ DOMAIN files' = DOMAIN files /\ \A j \in DOMAIN files \ {k} : files'[j] = files[j]
          /\ files' = CommitUploaded(files, k, task[k].p, e, task[k].r.cache)
      BY <1>1, <1>4 DEF Acknowledged
    <2>2. /\ DOMAIN r = RowFields /\ r.path = Doc /\ r.cache = task[k].r.cache /\ r.cache # None
          /\ r.cloud = task[k].r.cloud /\ task[k].p = Doc /\ e.id \in Items /\ e.id # None
          /\ r.cloud # None => e.id = r.cloud
      BY <1>1, <1>4, DocRow2, RowOfRun, NoneNowhere DEF Shape, RowShape, TaskShape, RunningAt, Before
    <2>3. files'[k] =
            [r EXCEPT !.up = NoClaim,
                      !.cloud = IF r.state = "uploading" \/ r.cloud = None THEN e.id ELSE r.cloud,
                      !.etag = IF r.cloud \in {None, e.id} THEN e.etag ELSE r.etag,
                      !.state = IF r.state = "uploading" THEN "cached" ELSE r.state]
      BY <1>4, <2>1, <2>2 DEF CommitUploaded
    <2>4. /\ files'[k].path = Doc /\ files'[k].cache = r.cache /\ files'[k].up = NoClaim
          /\ files'[k].cloud = e.id /\ files'[k].etag = e.etag
          /\ files'[k].state = IF r.state = "uploading" THEN "cached" ELSE r.state
      BY <2>2, <2>3 DEF RowFields
    <2>5. AnsweredAt(k) /\ CommitAt(k)
      BY <1>1 DEF Faithful, Answered, AnsweredAt
    <2>6. (BaseAt(k))'
      BY <1>2, <2>2, <2>4, <2>5 DEF BaseAt, CommitAt, Bytes
    <2>7. (RowsAt(k))'
      BY <2>2, <2>4 DEF RowsAt, NoClaim, Claim
    <2>8. OnlyRun(k) /\ k \notin DOMAIN task'
      BY <1>2, RunMoves
    <2>9. ASSUME r.state = "uploading", NEW w \in disk[r.cache] PROVE (Safe(w))'
      <3>1. CASE Truncating(k)
        <4>1. fuse # None /\ r.cache = fuse.c
          BY <1>4, <2>2, <3>1 DEF Truncating, Working, Cut
        <4> QED
          BY <1>2, <2>9, <4>1 DEF Safe
      <3>2. CASE ~Truncating(k)
        <4>1. w \in e.etag.data
          BY <1>4, <2>2, <2>5, <2>9, <3>2 DEF CommitAt, Bytes
        <4>2. w \in Cur(e.id) \cup discarded
          BY <1>1, <2>5, <4>1 DEF AnsweredAt, Storing
        <4> QED
          BY <1>2, <4>2 DEF Safe, Cur
      <3> QED
        BY <3>1, <3>2
    <2>10. r.cloud = None => \A j \in ItemsAt(Doc) : j = e.id \/ Theirs(j) # {}
      BY <2>2, <2>5 DEF CommitAt
    <2> HIDE DEF e, r
    <2> QED
      BY <1>1, <1>2, <1>4, <2>1, <2>2, <2>4, <2>6, <2>7, <2>8, <2>9, <2>10, RewriteFaithful
      DEF r, NoClaim, Claim
  <1> QED
    BY <1>3, <1>4

\* The copy's row is another one.
LEMMA PublishedRows ==
  ASSUME IInv, NEW k, PublishCopy(k)
  PROVE  \A j \in DOMAIN files' \ DOMAIN files : j \in Items
  <1>1. PICK g : Now(g)
    BY DEF IInv, Known
  <1>2. /\ k \in DOMAIN task /\ task[k].pc = "publish" /\ World(g) /\ Table(files, g)
        /\ ItemsIn(g) = Items
    BY <1>1, Worlds DEF PublishCopy, At
  <1> DEFINE e == task[k].res
             c == task[k].r.cache
  <1>3. IsEntry(e, g)
    BY <1>1, <1>2, RunFacts DEF IsTask, Copying
  <1>4. CASE files' = files
    BY <1>4
  <1>5. CASE files' \in {Upsert(files, tombs, e), MarkCached(Upsert(files, tombs, e), e.id, c)}
    <2>1. Spares(files, Upsert(files, tombs, e), tombs, {e})
      BY <1>2, <1>3, UpsertSpares
    <2>2. DOMAIN files' = DOMAIN Upsert(files, tombs, e)
      BY <1>5 DEF MarkCached
    <2>3. \A j \in DOMAIN Upsert(files, tombs, e) \ DOMAIN files : j = e.id
      BY <2>1 DEF Spares
    <2> QED
      BY <1>2, <1>3, <2>2, <2>3 DEF IsEntry
  <1>6. CASE files' = CompleteMissing(files, k, task[k].r, e, c)
    <2> DEFINE l == LocalId(files, e)
    <2>1. l = e.id \/ l \in DOMAIN files
      BY DEF LocalId, Owners
    <2>2. DOMAIN files' \subseteq DOMAIN files \cup {l}
      BY <1>6 DEF CompleteMissing, With, Without
    <2> QED
      BY <1>2, <1>3, <2>1, <2>2 DEF IsEntry
  <1> QED
    BY <1>2, <1>4, <1>5, <1>6 DEF PublishCopy

LEMMA PublishCopyFaithful ==
  ASSUME IInv, Shape, Shape', Orderly, Working, Faithful, Bound(files, files'), NEW k, PublishCopy(k)
  PROVE  Faithful' /\ Overwrites /\ Vanishes
  <1>1. /\ k \in DOMAIN task /\ task[k].pc = "publish" /\ DOMAIN task[k] = TaskFields
        /\ UNCHANGED <<disk, handles, fuse, del, cloud, made, unseen, delta, writes, discarded>>
    BY RowOfRun DEF PublishCopy, OnlyTask, NoRequest, At
  <1>2. CASE k \notin DOMAIN files
    <2>1. Late(k)
      BY <1>1, <1>2, RunHasTomb DEF PublishCopy, Late, Done
    <2> QED
      BY <1>1, <2>1, LateFaithful, StillMoves DEF Faithful
  <1>3. CASE k \in DOMAIN files
    <2>1. Published(k) /\ tombs' = tombs /\ k \in DocRows
      BY <1>3, PublishesElsewhere DEF Published
    <2>2. /\ files[k].state = "conflict" /\ files[k].path = Doc /\ DOMAIN files[k] = RowFields
          /\ files[k].cache = task[k].r.cache /\ files[k].cloud = task[k].r.cloud
      BY <1>1, <1>3, <2>1, DocRow2, RowOfRun DEF Published, Shape, RowShape, TaskShape, RunningAt
    <2>3. /\ \A j \in DocRows' : j = k
          /\ k \in DOMAIN files' =>
               /\ files'[k].path = Doc /\ files'[k].state = "conflict" /\ files'[k].cache = files[k].cache
               /\ files'[k].cloud = files[k].cloud /\ files'[k].etag = files[k].etag
               /\ files'[k].up \in {files[k].up, NoClaim}
          /\ k \notin DOMAIN files' => task[k].latest = None
      BY <2>1, <2>2 DEF Published, Like, RowFields
    <2>4. RequestAt(k) /\ AnsweredAt(k) /\ BaseAt(k) /\ RowsAt(k)
      BY <1>1, <2>1 DEF Faithful, Requests, Answered, Base, Rows
    <2>5. files[k].cloud # None
      BY <1>1, <2>2, <2>4 DEF RequestAt, Copying
    <2>6. k \in DocRows' => (BaseAt(k))' /\ (RowsAt(k))'
      <3>1. k \in DocRows' => k \in DOMAIN files'
        BY DEF DocRows, RowAt
      <3> QED
        BY <1>1, <2>2, <2>3, <2>4, <2>5, <3>1 DEF BaseAt, RowsAt, NoClaim, Claim
    <2>7. OnlyRun(k) /\ (k \in DOMAIN task' => (RequestAt(k))' /\ (AnsweredAt(k))')
      <3>1. CASE task' = Without(task, k)
        BY <3>1, RunMoves
      <3>2. CASE task[k].latest # None /\ task' = With(task, k, [task[k] EXCEPT !.pc = "detach"])
        <4>1. k \in DOMAIN files' /\ task' = With(task, k, [task[k] EXCEPT !.pc = "detach"])
          BY <2>1, <3>2 DEF Published
        <4>2. OnlyRun(k) /\ task'[k] = [task[k] EXCEPT !.pc = "detach"]
          BY <4>1, RunMoves
        <4>3. /\ task'[k].pc = "detach" /\ task'[k].r = task[k].r /\ task'[k].p = task[k].p
              /\ task'[k].res = task[k].res /\ task'[k].latest = task[k].latest
          BY <1>1, <4>2 DEF TaskFields
        <4> QED
          BY <1>1, <2>4, <3>2, <4>1, <4>2, <4>3
          DEF RequestAt, AnsweredAt, Bytes, Cur, Sending, Copying, Storing
      <3> QED
        BY <2>1, <3>1, <3>2 DEF Published
    <2>8. Listed'
      BY <1>1, PublishedRows, ListedRows DEF Faithful
    <2>9. NoStrangers'
      <3>1. \A j \in ItemsAt(Doc) : ~RowClaims(j)
        BY <2>1, <2>5, DocRow2 DEF RowClaims
      <3>2. ASSUME NEW j \in ItemsAt(Doc), NEW o \in DOMAIN files, files[o].cloud = j PROVE (Owned(j))'
        <4>1. j \in DOMAIN cloud /\ cloud[j].path = Doc
          BY DEF ItemsAt
        <4>2. o = k
          <5>1. files[o].path = Doc
            BY <3>2, <4>1 DEF Shape, RowShape
          <5> QED
            BY <2>1, <5>1, DocRow2
        <4>3. k \in DOMAIN files'
          BY <1>1, <2>2, <2>3, <2>4, <3>2, <4>1, <4>2 DEF AnsweredAt
        <4> QED
          BY <2>3, <3>2, <4>2, <4>3 DEF Owned
      <3> QED
        BY <1>1, <2>1, <3>1, <3>2, StrangersStay DEF Faithful
    <2>10. AllSafe'
      <3>1. ASSUME NEW w \in Bytes(k) PROVE (Safe(w))'
        <4>1. w \in Cur(task[k].res.id) \cup discarded
          BY <1>1, <2>4, <3>1 DEF AnsweredAt, Storing
        <4> QED
          BY <1>1, <4>1 DEF Safe, Cur
      <3>2. \A j \in DocRows : \A w \in disk[files[j].cache] : (Safe(w))'
        BY <2>1, <2>2, <3>1, DocRow2 DEF Bytes
      <3> QED
        BY <1>1, <3>2, SafeRows DEF Faithful
    <2> QED
      BY <1>1, <1>3, <2>1, <2>3, <2>6, <2>7, <2>8, <2>9, <2>10, RunStepFaithful
  <1> QED
    BY <1>2, <1>3

-----------------------------------------------------------------------------
(* Imports, removals and detachments                                       *)

\* Rows with local bytes stay; a row at the path stays, or has no bytes and an item.
Loses ==
  /\ UNCHANGED <<tombs, disk, cloud, made, fuse, del, writes, discarded>>
  /\ DOMAIN task' \subseteq DOMAIN task /\ \A k \in DOMAIN task' : task'[k] = task[k]
  /\ \A k \in DOMAIN files :
       files[k].state \in Protected => k \in DOMAIN files' /\ Like(files'[k], files[k])
  /\ \A k \in DocRows' :
       \/ k \in DocRows /\ Like(files'[k], files[k])
       \/ /\ files'[k].state = "online" /\ files'[k].cache = None /\ files'[k].cloud # None
          /\ \A d : ~LocalTomb(d)

\* ... and so does a row that is being truncated.
LEMMA KeptRows ==
  ASSUME Shape, Shape', Orderly', Working, Loses, NEW k \in DOMAIN files,
         files[k].state \in Protected \/ Window(k)
  PROVE  k \in DOMAIN files' /\ Like(files'[k], files[k])
  <1> SUFFICES ASSUME Window(k) PROVE k \in DOMAIN files' /\ Like(files'[k], files[k])
    BY DEF Loses
  <1>1. /\ fuse # None /\ fuse.k = k /\ fuse.at = "claim" /\ fuse' = fuse /\ fuse.c # None
    BY DEF Window, Truncating, Loses, Shape, FuseShape
  <1>2. k \in DOMAIN files' /\ files'[k].cache = fuse.c
    BY <1>1 DEF Orderly, TruncateAlone
  <1>3. k \in DocRows'
    BY <1>1, <1>2 DEF Shape, FuseShape, DocRows, RowAt
  <1> QED
    BY <1>1, <1>2, <1>3 DEF Loses

LEMMA LosesFaithful ==
  ASSUME Shape, Shape', Orderly', Working, Faithful, Loses, Listed',
         \A j \in ItemsAt(Doc), o \in DOMAIN files : files[o].cloud = j => (Owned(j))'
  PROVE  Faithful' /\ Overwrites /\ Vanishes
  <1>1. /\ UNCHANGED <<tombs, disk, cloud, made, fuse, del, writes, discarded>>
        /\ DOMAIN task' \subseteq DOMAIN task /\ \A k \in DOMAIN task' : task'[k] = task[k]
    BY DEF Loses
  <1>2. Overwrites /\ Vanishes /\ Drives' /\ Moves
    BY <1>1, StillMoves DEF Faithful
  <1>3. ASSUME NEW k \in DocRows' PROVE (BaseAt(k))' /\ (RowsAt(k))'
    <2>1. CASE k \in DocRows /\ Like(files'[k], files[k])
      <3>1. BaseAt(k) /\ RowsAt(k)
        BY <2>1 DEF Faithful, Base, Rows
      <3> QED
        BY <1>1, <2>1, <3>1 DEF Like, BaseAt, RowsAt, Window, Truncating
    <2>2. CASE files'[k].state = "online" /\ files'[k].cache = None /\ files'[k].cloud # None
      <3>1. files'[k].up.path \in {None, Doc}
        BY <2>2 DEF Orderly, CopiesUndisturbed, DocRows, RowAt
      <3> QED
        BY <2>2, <3>1 DEF BaseAt, RowsAt
    <2> QED
      BY <1>3, <2>1, <2>2 DEF Loses
  <1>4. ASSUME NEW k \in DOMAIN task', task[k].pc # "import"
        PROVE  /\ k \in DOMAIN files => k \in DOMAIN files' /\ Like(files'[k], files[k])
               /\ k \notin DOMAIN files => k \notin DOMAIN files'
    <2>1. RunningAt(k)
      BY <1>1, <1>4, RowOfRun
    <2>2. CASE k \in DOMAIN files
      BY <1>4, <2>1, <2>2, KeptRows DEF RunningAt
    <2>3. CASE k \notin DOMAIN files
      BY <1>1, <1>4, <2>1, <2>3 DEF RunningAt, Shape, TombShape, LocalTomb
    <2> QED
      BY <2>2, <2>3
  <1>5. ASSUME NEW k \in DOMAIN task' PROVE (RequestAt(k))' /\ (AnsweredAt(k))'
    <2>1. k \in DOMAIN task /\ task'[k] = task[k] /\ RequestAt(k) /\ AnsweredAt(k)
      BY <1>1, <1>5 DEF Faithful, Requests, Answered
    <2>2. CASE task[k].pc = "import"
      BY <2>1, <2>2, IdleRun
    <2>3. CASE task[k].pc # "import"
      <3>1. /\ k \in DOMAIN files => k \in DOMAIN files' /\ Like(files'[k], files[k])
            /\ k \notin DOMAIN files => k \notin DOMAIN files'
        BY <1>4, <1>5, <2>3
      <3>2. (RequestAt(k))' /\ (Bytes(k))' = Bytes(k)
        BY <1>1, <2>1, <3>1 DEF RequestAt, Bytes, Like
      <3>3. task[k].pc = "commit" => (CommitAt(k))'
        BY <1>1, <2>1, <3>1, <3>2 DEF AnsweredAt, CommitAt, Like, Truncating, Cur, Theirs, ItemsAt
      <3> QED
        BY <1>2, <2>1, <3>2, <3>3, AnswerMoves
    <2> QED
      BY <2>2, <2>3
  <1>6. Generations'
    <2>1. ASSUME NEW d, LocalTomb(d)
          PROVE  \A k \in DocRows' : files'[k].cloud = None /\ files'[k].up.path = None /\ k \notin DOMAIN task'
      <3>1. \A k \in DocRows : files[k].cloud = None /\ files[k].up.path = None /\ k \notin DOMAIN task
        BY <2>1 DEF Faithful, Generations, LocalTomb
      <3>2. \A k \in DocRows' : k \in DocRows /\ Like(files'[k], files[k])
        BY <2>1 DEF Loses
      <3> QED
        BY <1>1, <3>1, <3>2 DEF Like
    <2>2. \A d : LocalTomb(d) <=> (LocalTomb(d))'
      BY <1>1, SameTombs
    <2>3. \A d : (Big(d))' => Big(d)
      BY <1>1 DEF Big
    <2> QED
      BY <1>1, <2>1, <2>2, <2>3 DEF Faithful, Generations
  <1>7. Graves' /\ Deletions'
    BY <1>1 DEF Faithful, Graves, GraveAt, Deletions, DeletionAt, Cur
  <1>8. NoStrangers'
    <2>1. ASSUME NEW j \in ItemsAt(Doc), RowClaims(j) PROVE (Owned(j))'
      <3>1. PICK k \in DocRows :
              files[k].cloud = None /\ files[k].up.path = Doc /\ Cur(j) \subseteq disk[files[k].cache]
        BY <2>1 DEF RowClaims
      <3>2. k \in DOMAIN files /\ (files[k].state \in Protected \/ Window(k))
        BY <3>1, DocRow2 DEF Faithful, Rows, RowsAt, Protected
      <3>3. k \in DOMAIN files' /\ Like(files'[k], files[k])
        BY <3>2, KeptRows
      <3>4. k \in DocRows'
        BY <3>3, DocRow2 DEF Like, DocRows, RowAt
      <3>5. (RowClaims(j))'
        BY <1>1, <3>1, <3>3, <3>4 DEF RowClaims, Like, Cur
      <3> QED
        BY <3>5 DEF Owned
    <2> QED
      BY <1>1, <2>1, StrangersStay DEF Faithful
  <1>9. AllSafe'
    <2> SUFFICES ASSUME NEW k \in DocRows, NEW w \in disk[files[k].cache], files[k].state \in Protected
                 PROVE  (Safe(w))'
      BY <1>1, SafeRows DEF Faithful
    <2>1. k \in DOMAIN files' /\ Like(files'[k], files[k]) /\ files[k].path = Doc
      BY DocRow2 DEF Loses
    <2>2. k \in DocRows'
      BY <2>1 DEF Like, DocRows, RowAt
    <2> QED
      BY <1>1, <2>1, <2>2 DEF Safe, Like
  <1> QED
    BY <1>2, <1>3, <1>5, <1>6, <1>7, <1>8, <1>9 DEF Faithful, Base, Rows, Requests, Answered

\* What an import makes of rows that may have lost their bytes just before.
Detached(fs) ==
  /\ DOMAIN fs = DOMAIN files
  /\ \A k \in DOMAIN files :
       \/ Like(fs[k], files[k])
       \/ /\ k \in DocRows /\ files[k].state \notin Protected /\ files[k].cloud # None
          /\ fs[k].path = files[k].path /\ fs[k].cloud = files[k].cloud
          /\ fs[k].state = "online" /\ fs[k].cache = None

LEMMA ImportLoses ==
  ASSUME Shape, Shape', Faithful, NEW fs, NEW S, Detached(fs), Spares(fs, files', tombs, S),
         UNCHANGED <<tombs, disk, cloud, made, fuse, del, writes, discarded>>,
         DOMAIN task' \subseteq DOMAIN task, \A k \in DOMAIN task' : task'[k] = task[k],
         Bound(files, files'), \A e \in S : e.id \in Items /\ Current(e)
  PROVE  /\ Loses /\ \A k \in DOMAIN files' \ DOMAIN files : k \in Items
         /\ \A j \in ItemsAt(Doc), o \in DOMAIN files : files[o].cloud = j => (Owned(j))'
  <1>1. ASSUME NEW k \in DOMAIN files, files[k].state \in Protected
        PROVE  k \in DOMAIN files' /\ Like(files'[k], files[k])
    <2>1. Like(fs[k], files[k]) /\ k \in DOMAIN fs
      BY <1>1 DEF Detached
    <2>2. k \in DOMAIN files' /\ files'[k] = fs[k]
      BY <1>1, <2>1 DEF Spares, Like
    <2> QED
      BY <2>1, <2>2
  <1>2. ASSUME NEW e \in S, Admits(tombs, e), e.path = Doc PROVE \A d : ~LocalTomb(d)
    BY <1>2 DEF Admits, IsPendingDelete, Barrier, Faithful, Graves, GraveAt, LocalTomb
  <1>3. ASSUME NEW k \in DocRows'
        PROVE  \/ k \in DocRows /\ Like(files'[k], files[k])
               \/ /\ files'[k].state = "online" /\ files'[k].cache = None /\ files'[k].cloud # None
                  /\ \A d : ~LocalTomb(d)
    <2>1. k \in DOMAIN files' /\ files'[k].path = Doc
      BY DEF DocRows, RowAt
    <2>2. CASE k \in DOMAIN fs /\ Like(files'[k], fs[k])
      <3>1. CASE Like(fs[k], files[k])
        BY <2>1, <2>2, <3>1 DEF Like, Detached, DocRows, RowAt
      <3>2. CASE ~Like(fs[k], files[k])
        <4>1. /\ k \in DocRows /\ files[k].cloud # None /\ fs[k].cloud = files[k].cloud
              /\ fs[k].state = "online" /\ fs[k].cache = None
          BY <2>2, <3>2 DEF Detached
        <4>2. \A d : ~LocalTomb(d)
          BY <4>1 DEF Faithful, Generations, LocalTomb
        <4> QED
          BY <2>2, <4>1, <4>2 DEF Like
      <3> QED
        BY <3>1, <3>2
    <2>3. ASSUME NEW e \in S, Admits(tombs, e), Imports(k, files'[k], e) PROVE <1>3!2
      <3>1. \A d : ~LocalTomb(d)
        BY <1>2, <2>1, <2>3 DEF Imports
      <3> QED
        BY <2>3, <3>1, NoneNowhere DEF Imports
    <2> QED
      BY <2>1, <2>2, <2>3 DEF Spares
  <1>4. \A k \in DOMAIN files' \ DOMAIN files : k \in Items
    BY DEF Spares, Detached
  <1>5. ASSUME NEW j \in ItemsAt(Doc), NEW o \in DOMAIN files, files[o].cloud = j PROVE (Owned(j))'
    <2>1. j \in DOMAIN cloud /\ cloud[j].path = Doc /\ j # None
      BY NoneNowhere DEF ItemsAt
    <2>2. CASE o \in DOMAIN files'
      BY <1>5, <2>1, <2>2 DEF Bound, Owned
    <2>3. CASE o \notin DOMAIN files'
      <3>1. files[o].path = Doc
        BY <1>5, <2>1 DEF Shape, RowShape
      <3>2. fs[o].path = files[o].path /\ fs[o].cloud = files[o].cloud /\ o \in DOMAIN fs
        BY DEF Detached, Like
      <3>3. PICK e \in S : fs[o].path = e.path /\ fs[o].cloud # e.id
        BY <2>3, <3>2 DEF Spares
      <3> QED
        BY <1>5, <3>1, <3>2, <3>3 DEF Current
    <2> QED
      BY <2>2, <2>3
  <1> QED
    BY <1>1, <1>3, <1>4, <1>5 DEF Loses

LEMMA SameDetached == Detached(files)
  BY DEF Detached, Like

LEMMA ImportLatestFaithful ==
  ASSUME IInv, Shape, Shape', Orderly, Orderly', Working, Faithful, Bound(files, files'),
         NEW k, ImportLatest(k)
  PROVE  Faithful' /\ Overwrites /\ Vanishes
  <1> DEFINE e == task[k].latest
  <1>1. /\ k \in DOMAIN task /\ task[k].pc = "import" /\ task' = Without(task, k)
        /\ files' = Upsert(files, tombs, e)
        /\ UNCHANGED <<tombs, disk, cloud, made, delta, handles, fuse, del, writes, discarded>>
    BY DEF ImportLatest, OnlyTask, NoRequest, At, Done
  <1>2. PICK g : Now(g)
    BY DEF IInv, Known
  <1>3. IsEntry(e, g) /\ World(g) /\ Table(files, g) /\ ItemsIn(g) = Items
    BY <1>1, <1>2, RunFacts, Worlds DEF IsTask
  <1>4. e # None
    BY <1>1 DEF Faithful, Answered, AnsweredAt
  <1>5. \A x \in {e} : x.id \in Items /\ Current(x)
    BY <1>1, <1>3, <1>4 DEF IsEntry, Orderly, EntriesCurrent
  <1>6. Spares(files, files', tombs, {e})
    BY <1>1, <1>3, UpsertSpares
  <1>7. DOMAIN task' \subseteq DOMAIN task /\ \A j \in DOMAIN task' : task'[j] = task[j]
    BY <1>1 DEF Without
  <1> HIDE DEF e
  <1>8. /\ Loses /\ \A j \in DOMAIN files' \ DOMAIN files : j \in Items
        /\ \A j \in ItemsAt(Doc), o \in DOMAIN files : files[o].cloud = j => (Owned(j))'
    BY <1>1, <1>5, <1>6, <1>7, SameDetached, ImportLoses
  <1>9. Listed'
    BY <1>1, <1>8, ListedRows DEF Faithful
  <1> QED
    BY <1>8, <1>9, LosesFaithful

LEMMA ImportEntriesFaithful ==
  ASSUME IInv, Shape, Shape', Orderly, Orderly', Working, Faithful, Bound(files, files'), ImportEntries
  PROVE  Faithful' /\ Overwrites /\ Vanishes
  <1> DEFINE S == delta.entries
  <1>1. /\ delta # None /\ delta.pc = "deleted" /\ files' = Imported(S)
        /\ delta' = [delta EXCEPT !.pc = "link"]
        /\ UNCHANGED <<tombs, disk, cloud, made, handles, fuse, task, del, writes, discarded>>
    BY DEF ImportEntries, OnlyDelta
  <1>2. PICK g : Now(g)
    BY DEF IInv, Known
  <1>3. /\ World(g) /\ Table(files, g) /\ IsFiniteSet(S) /\ \A e \in S : IsEntry(e, g)
        /\ ItemsIn(g) = Items
    BY <1>1, <1>2, Worlds DEF Feed
  <1>4. \A x \in S : x.id \in Items /\ Current(x)
    BY <1>1, <1>3 DEF IsEntry, Orderly, EntriesCurrent
  <1>5. Spares(files, files', tombs, S)
    BY <1>1, <1>3, ImportedSpares
  <1> HIDE DEF S
  <1>6. /\ Loses /\ \A j \in DOMAIN files' \ DOMAIN files : j \in Items
        /\ \A j \in ItemsAt(Doc), o \in DOMAIN files : files[o].cloud = j => (Owned(j))'
    BY <1>1, <1>4, <1>5, SameDetached, ImportLoses
  <1>7. delta'.gone = delta.gone /\ delta'.pc = "link"
    <2>1. DOMAIN delta = DeltaFields
      BY <1>1 DEF Shape, DeltaShape
    <2> QED
      BY <1>1, <2>1 DEF DeltaFields
  <1>8. Listed'
    BY <1>1, <1>6, <1>7, ListedRows DEF Faithful
  <1> QED
    BY <1>6, <1>8, LosesFaithful

\* The bytes that an open finds invalid are not those of a row without an item.
LEMMA OpenInvalidFaithful ==
  ASSUME IInv, Shape, Shape', Orderly', Working, Faithful, Bound(files, files'), OpenInvalid
  PROVE  Faithful' /\ Overwrites /\ Vanishes
  <1>1. PICK k \in RowAt(files, Doc) :
          /\ files[k].state = "cached" /\ CacheExists(files[k])
          /\ files' = [files EXCEPT ![k].state = "online", ![k].cache = None, ![k].gen = @ + 1]
    BY DEF OpenInvalid
  <1>2. UNCHANGED <<tombs, disk, handles, fuse, task, discarded, cloud, made, delta, del, writes>> /\ fuse = None
    BY DEF OpenInvalid, FuseOnly, NoRequest
  <1>3. k \in DOMAIN files /\ k \in DocRows /\ DOMAIN files[k] = RowFields
    BY DEF DocRows, RowAt, Shape, RowShape
  <1>4. files[k].cloud # None
    BY <1>1, <1>2, <1>3 DEF Faithful, Rows, RowsAt, Window, Truncating
  <1>5. Detached(files')
    BY <1>1, <1>3, <1>4 DEF Detached, Like, RowFields, Protected
  <1>6. Spares(files', files', tombs, {})
    BY SparesAll
  <1>7. /\ Loses /\ \A j \in DOMAIN files' \ DOMAIN files : j \in Items
        /\ \A j \in ItemsAt(Doc), o \in DOMAIN files : files[o].cloud = j => (Owned(j))'
    <2>1. DOMAIN task' \subseteq DOMAIN task /\ \A j \in DOMAIN task' : task'[j] = task[j]
      BY <1>2
    <2> QED
      BY <1>2, <1>5, <1>6, <2>1, ImportLoses
  <1>8. Listed'
    BY <1>2, <1>7, ListedRows DEF Faithful
  <1> QED
    BY <1>7, <1>8, LosesFaithful

LEMMA OutrunFaithful ==
  ASSUME IInv, Shape, Shape', Orderly', Working, Faithful, Bound(files, files'),
         NEW k, Outrun(k), UNCHANGED <<cloud, made, delta, del, writes>>
  PROVE  Faithful' /\ Overwrites /\ Vanishes
  <1> DEFINE fs == OnlineRow(files, k)
             e == Entry(cloud, files[k].cloud)
  <1>1. /\ k \in DOMAIN files /\ k \in DocRows /\ DOMAIN files[k] = RowFields
        /\ files[k].state \in {"online", "cached"} /\ files[k].cloud \in DOMAIN cloud
        /\ UNCHANGED <<tombs, disk, handles, fuse, task, discarded>>
    BY DEF Outrun, Shape, RowShape
  <1>2. Spares(fs, files', tombs, {e})
    BY DEF Outrun
  <1>3. files[k].cloud # None /\ files[k].cloud \in Items
    BY <1>1, NoneNowhere
  <1>4. Detached(fs)
    BY <1>1, <1>3 DEF OnlineRow, Detached, Like, RowFields, Protected
  <1>5. \A x \in {e} : x.id \in Items /\ Current(x)
    BY <1>1, <1>3 DEF Entry, Current, ItemsAt, Faithful, Drives
  <1> HIDE DEF fs, e
  <1>6. /\ Loses /\ \A j \in DOMAIN files' \ DOMAIN files : j \in Items
        /\ \A j \in ItemsAt(Doc), o \in DOMAIN files : files[o].cloud = j => (Owned(j))'
    <2>1. DOMAIN task' \subseteq DOMAIN task /\ \A j \in DOMAIN task' : task'[j] = task[j]
      BY <1>1
    <2> QED
      BY <1>1, <1>2, <1>4, <1>5, <2>1, ImportLoses
  <1>7. Listed'
    BY <1>1, <1>6, ListedRows DEF Faithful
  <1> QED
    BY <1>6, <1>7, LosesFaithful

\* A row that the refresh removes has no bytes, and its item is gone.
LEMMA RemoveRowFaithful ==
  ASSUME IInv, Shape, Shape', Orderly, Orderly', Working, Faithful, Bound(files, files'), RemoveRow
  PROVE  Faithful' /\ Overwrites /\ Vanishes
  <1>1. /\ delta # None /\ delta.pc = "remove" /\ files' = Without(files, delta.row)
        /\ delta' = [delta EXCEPT !.pc = "deleted", !.row = None]
        /\ UNCHANGED <<tombs, disk, cloud, made, handles, fuse, task, del, writes, discarded>>
    BY DEF RemoveRow, OnlyDelta
  <1>2. /\ DOMAIN files' = DOMAIN files \ {delta.row}
        /\ \A k \in DOMAIN files' : files'[k] = files[k]
    BY <1>1 DEF Without
  <1>3. delta.row \in DOMAIN files => files[delta.row].cloud \notin DOMAIN cloud
    BY <1>1 DEF Faithful, Listed
  <1>4. Loses
    BY <1>1, <1>2 DEF Orderly, RemovalsHeed, Loses, Like, DocRows, RowAt
  <1>5. \A j \in ItemsAt(Doc), o \in DOMAIN files : files[o].cloud = j => (Owned(j))'
    BY <1>2, <1>3 DEF ItemsAt, Owned
  <1>6. delta'.gone = delta.gone /\ delta'.pc = "deleted"
    <2>1. DOMAIN delta = DeltaFields
      BY <1>1 DEF Shape, DeltaShape
    <2> QED
      BY <1>1, <2>1 DEF DeltaFields
  <1>7. Listed'
    BY <1>1, <1>2, <1>6, ListedRows DEF Faithful
  <1> QED
    BY <1>4, <1>5, <1>7, LosesFaithful

-----------------------------------------------------------------------------
(* FUSE: a handler works on the row at the path                            *)

\* The bytes of row k may grow or appear, and its claim stays.  Nothing is queued
\* for upload here, and the file that is being copied is left alone.
Handles1(k) ==
  /\ k \in DocRows /\ k \in DOMAIN files
  /\ DOMAIN files' = DOMAIN files /\ \A j \in DOMAIN files \ {k} : files'[j] = files[j]
  /\ files'[k].path = Doc /\ files'[k].cloud = files[k].cloud /\ files'[k].up = files[k].up
  /\ files'[k].etag = files[k].etag
  /\ UNCHANGED <<tombs, task, del, cloud, made, delta>>
  /\ discarded \subseteq discarded' /\ writes'.theirs = writes.theirs
  /\ \A c : c \notin {k} \X Nat =>
       (c \in DOMAIN disk' <=> c \in DOMAIN disk) /\ (c \in DOMAIN disk => disk'[c] = disk[c])
  /\ files[k].cache # None =>
       files'[k].cache = files[k].cache /\ disk[files[k].cache] \subseteq disk'[files[k].cache]
  /\ files[k].cache = None /\ files'[k].cache # None /\ files[k].etag # None =>
       files[k].etag.data \subseteq disk'[files'[k].cache]
  /\ files[k].cloud = None =>
       files'[k].state \in {"writing", "dirty", "uploading"} \/ (files'[k].state = "cached" /\ (Window(k))')
  /\ files'[k].state \in {"uploading", "conflict"} =>
       files'[k].state = files[k].state /\ (Truncating(k))'
  /\ files[k].state \in Protected => \A w \in disk[files[k].cache] : (Safe(w))'
  /\ fuse # None => \A w \in disk[fuse.c] : (Safe(w))'
  /\ \A w \in 1..writes'.last : w \in 1..writes.last \/ (Safe(w))'

LEMMA HandlerRow ==
  ASSUME Shape, Shape', Orderly', Working, Faithful, NEW k, Handles1(k)
  PROVE  (BaseAt(k))' /\ (RowsAt(k))' /\ files[k].up.path \in {None, Doc}
  <1>1. BaseAt(k) /\ RowsAt(k)
    BY DEF Handles1, Faithful, Base, Rows
  <1>2. (BaseAt(k))'
    BY <1>1 DEF Handles1, BaseAt
  <1>3. files[k].up.path \in {None, Doc}
    <2>1. k \in DOMAIN files' /\ files'[k].up = files[k].up
      BY DEF Handles1
    <2>2. files'[k].up.path \notin {None, Doc} => files'[k].state = "conflict" /\ ~(Truncating(k))'
      BY <2>1 DEF Orderly, CopiesUndisturbed
    <2> QED
      BY <2>1, <2>2 DEF Handles1
  <1>4. (RowsAt(k))'
    BY <1>1, <1>3 DEF Handles1, RowsAt
  <1> QED
    BY <1>2, <1>3, <1>4

\* A run of this row sends its bytes, which may have grown; another one sends those
\* of a deleted file.
LEMMA HandlerRuns ==
  ASSUME Shape, Shape', Orderly', Working, Faithful, NEW k, Handles1(k), NEW j \in DOMAIN task
  PROVE  (RequestAt(j))' /\ (AnsweredAt(j))'
  <1>1. /\ RequestAt(j) /\ AnsweredAt(j) /\ RunningAt(j) /\ task' = task /\ tombs' = tombs
        /\ k \in DOMAIN files /\ k \in DocRows /\ DOMAIN files' = DOMAIN files
        /\ files'[k].up = files[k].up
        /\ discarded \subseteq discarded' /\ cloud' = cloud /\ writes'.theirs = writes.theirs
    BY RowOfRun DEF Faithful, Requests, Answered, Handles1
  <1>2. Moves
    BY <1>1, StillMoves DEF Handles1, Faithful
  <1>3. CASE task[j].pc = "import"
    BY <1>1, <1>3, IdleRun
  <1>4. CASE task[j].pc # "import" /\ j # k
    <2>1. j \notin DOMAIN files
      BY <1>1, <1>4, DocRow2
    <2>2. task[j].r.cache \in {j} \X Nat /\ task[j].r.cache \in DOMAIN disk
      BY DEF Shape, TaskShape
    <2>3. (Bytes(j))' = Bytes(j)
      BY <1>1, <1>4, <2>2 DEF Handles1, Bytes
    <2>4. (RequestAt(j))'
      BY <1>1, <2>1, <2>3 DEF RequestAt
    <2>5. task[j].pc = "commit" => (CommitAt(j))'
      BY <1>1, <2>1, <2>3 DEF AnsweredAt, CommitAt, Cur, Theirs, ItemsAt
    <2> QED
      BY <1>1, <1>2, <2>3, <2>4, <2>5, AnswerMoves
  <1>5. CASE task[j].pc # "import" /\ j = k
    <2>1. files[k].cache = task[k].r.cache /\ files[k].cache # None
      BY <1>1, <1>5, RowOfRun DEF RunningAt
    <2>2. Bytes(k) \subseteq (Bytes(k))'
      BY <1>1, <2>1 DEF Handles1, Bytes
    <2>3. task[k].pc \notin Copying
      <3>1. files[k].up.path \in {None, Doc}
        BY HandlerRow
      <3> QED
        BY <1>1, <1>5, <3>1 DEF RunningAt, Shape, TaskShape
    <2>4. (RequestAt(k))'
      BY <1>1, <1>5, <2>2, <2>3 DEF RequestAt
    <2>5. task[k].pc = "commit" => (CommitAt(k))'
      <3>1. files'[k].state = "uploading" => (Truncating(k))'
        BY DEF Handles1
      <3> QED
        BY <1>1, <1>5, <2>2, <3>1 DEF AnsweredAt, CommitAt, Cur, Theirs, ItemsAt
    <2>6. (AnsweredAt(k))'
      BY <1>1, <1>5, <2>3, <2>5 DEF AnsweredAt, Storing, Copying, Cur
    <2> QED
      BY <1>5, <2>4, <2>6
  <1> QED
    BY <1>3, <1>4, <1>5

LEMMA HandlerFaithful ==
  ASSUME Shape, Shape', Orderly', Working, Faithful, NEW k, Handles1(k)
  PROVE  Faithful' /\ Overwrites /\ Vanishes
  <1>1. /\ k \in DOMAIN files /\ k \in DocRows /\ (\A j \in DocRows : j = k)
        /\ k \in DocRows' /\ (\A j \in DocRows' : j = k)
        /\ UNCHANGED <<tombs, task, del, cloud, made, delta>>
        /\ discarded \subseteq discarded' /\ writes'.theirs = writes.theirs
    <2>1. /\ k \in DOMAIN files /\ k \in DocRows /\ \A j \in DocRows : j = k
          /\ UNCHANGED <<tombs, task, del, cloud, made, delta>>
          /\ discarded \subseteq discarded' /\ writes'.theirs = writes.theirs
      BY DocRow2 DEF Handles1
    <2> QED
      BY <2>1 DEF Handles1, DocRows, RowAt
  <1>2. Moves /\ Overwrites /\ Vanishes /\ Drives'
    BY <1>1, StillMoves DEF Faithful
  <1>3. Base' /\ Rows'
    BY <1>1, HandlerRow DEF Base, Rows
  <1>4. Requests' /\ Answered'
    BY <1>1, HandlerRuns DEF Requests, Answered
  <1>5. files'[k].cloud = files[k].cloud /\ files'[k].up = files[k].up
    BY DEF Handles1
  <1>6. Generations'
    BY <1>1, <1>5 DEF Faithful, Generations, LocalTomb, Big
  <1>7. \A d : LocalTomb(d) => /\ tombs[d].up.cache \in DOMAIN disk' =>
                                    /\ tombs[d].up.cache \in DOMAIN disk
                                    /\ disk'[tombs[d].up.cache] = disk[tombs[d].up.cache]
    <2> SUFFICES ASSUME NEW d, LocalTomb(d), tombs[d].up.cache \in DOMAIN disk'
                 PROVE  /\ tombs[d].up.cache \in DOMAIN disk
                        /\ disk'[tombs[d].up.cache] = disk[tombs[d].up.cache]
      OBVIOUS
    <2>1. d # k /\ Own(d, tombs[d].up.cache)
      BY <1>1 DEF LocalTomb, Shape, TombShape
    <2>2. tombs[d].up.cache # None
      BY DEF Shape, CloudShape
    <2>3. tombs[d].up.cache \notin {k} \X Nat
      BY <2>1, <2>2 DEF Own
    <2> QED
      BY <2>3 DEF Handles1
  <1>8. Graves'
    <2> SUFFICES ASSUME NEW d \in DOMAIN tombs PROVE (GraveAt(d))'
      BY <1>1 DEF Graves
    <2>1. GraveAt(d)
      BY DEF Faithful, Graves
    <2>2. tombs[d].up.cache \in DOMAIN disk' =>
            tombs[d].up.cache \in DOMAIN disk /\ disk'[tombs[d].up.cache] = disk[tombs[d].up.cache]
      <3>1. CASE LocalTomb(d)
        BY <1>7, <3>1
      <3>2. CASE ~LocalTomb(d)
        BY <3>2 DEF LocalTomb, Shape, TombShape, CloudShape
      <3> QED
        BY <3>1, <3>2
    <2>3. \A i \in DOMAIN cloud \cap DOMAIN cloud' :
            tombs[d].cloud = i => (Cur(i))' \subseteq discarded' \cup writes'.theirs
      BY <1>1, <2>1 DEF GraveAt, Cur
    <2> QED
      BY <1>1, <1>2, <2>1, <2>2, <2>3, GraveMoves
  <1>9. Deletions'
    BY <1>1 DEF Faithful, Deletions, DeletionAt
  <1>10. Listed'
    <2>1. Bound(files, files')
      BY <1>5 DEF Bound, Handles1
    <2>2. \A j \in DOMAIN files' \ DOMAIN files : j \in Items \/ j \notin Locals
      BY DEF Handles1
    <2> QED
      BY <1>1, <2>1, <2>2, ListedRows DEF Faithful
  <1>11. NoStrangers'
    <2> SUFFICES ASSUME NEW j \in ItemsAt(Doc) PROVE (Owned(j))'
      BY <1>1 DEF NoStrangers, ItemsAt
    <2>1. Owned(j)
      BY DEF Faithful, NoStrangers
    <2>2. Theirs(j) # {} => (Theirs(j))' # {}
      BY <1>1 DEF Theirs
    <2>3. ASSUME NEW o \in DOMAIN files, files[o].cloud = j PROVE o \in DOMAIN files' /\ files'[o].cloud = j
      BY <2>3 DEF Handles1
    <2>4. ASSUME RowClaims(j) PROVE (RowClaims(j))'
      <3>1. files[k].cloud = None /\ files[k].up.path = Doc /\ Cur(j) \subseteq disk[files[k].cache]
        BY <1>1, <2>4 DEF RowClaims
      <3>2. files[k].cache # None
        BY <1>1, <3>1 DEF Faithful, Rows, RowsAt
      <3>3. Cur(j) \subseteq disk'[files'[k].cache]
        BY <3>1, <3>2 DEF Handles1
      <3> QED
        BY <1>1, <1>5, <3>1, <3>3 DEF RowClaims, Cur
    <2>5. ASSUME TombClaims(j) PROVE (TombClaims(j))'
      <3>1. PICK d \in DOMAIN tombs :
              /\ LocalTomb(d) /\ tombs[d].cloud = None
              /\ tombs[d].up.path = Doc /\ tombs[d].up.target = None
              /\ tombs[d].up.cache \in DOMAIN disk => Cur(j) \subseteq disk[tombs[d].up.cache]
        BY <2>5 DEF TombClaims
      <3>2. (LocalTomb(d))'
        BY <1>1, <3>1 DEF LocalTomb
      <3>3. tombs[d].up.cache \in DOMAIN disk' => Cur(j) \subseteq disk'[tombs[d].up.cache]
        BY <1>7, <3>1
      <3> QED
        BY <1>1, <3>1, <3>2, <3>3 DEF TombClaims, Cur
    <2> QED
      BY <1>1, <2>1, <2>2, <2>3, <2>4, <2>5 DEF Owned
  <1>12. AllSafe'
    <2> SUFFICES ASSUME NEW w \in 1..writes.last PROVE (Safe(w))'
      BY DEF AllSafe, Handles1
    <2>1. Safe(w)
      BY DEF Faithful, AllSafe
    <2>2. CASE w \in discarded \/ \E i \in DOMAIN cloud : w \in Cur(i)
      BY <1>1, <2>2 DEF Safe, Cur
    <2>3. CASE \E j \in DocRows : files[j].state \in Protected /\ w \in disk[files[j].cache]
      BY <1>1, <2>3 DEF Handles1
    <2>4. CASE fuse # None /\ w \in disk[fuse.c]
      BY <2>4 DEF Handles1
    <2> QED
      BY <2>1, <2>2, <2>3, <2>4 DEF Safe
  <1> QED
    BY <1>2, <1>3, <1>4, <1>6, <1>8, <1>9, <1>10, <1>11, <1>12 DEF Faithful

LEMMA DownloadsFaithful ==
  ASSUME Shape, Shape', Orderly', Working, Faithful, NEW h, NEW k, NEW c, Downloads(h, k, c),
         UNCHANGED <<cloud, made, delta, del, writes>>
  PROVE  Faithful' /\ Overwrites /\ Vanishes
  <1>1. /\ k \in DOMAIN files /\ k \in DocRows /\ DOMAIN files[k] = RowFields /\ files[k].path = Doc
        /\ UNCHANGED <<tombs, fuse, task, discarded>> /\ fuse = None /\ c \in {k} \X Nat
    BY DocRow2 DEF Downloads, Shape, RowShape
  <1>2. files[k].cache = None /\ files[k].state \notin Protected
    BY <1>1 DEF Downloads, Working, Held, HasExistingCache, CacheExists, Protected
  <1>3. /\ DOMAIN files' = DOMAIN files /\ \A j \in DOMAIN files \ {k} : files'[j] = files[j]
        /\ files'[k].state = "cached" /\ files'[k].cache = c /\ files'[k].up = files[k].up
        /\ files'[k].path = Doc /\ files'[k].cloud = files[k].cloud /\ files'[k].etag = files[k].etag
    BY <1>1 DEF Downloads, MarkCached, RowFields
  <1>4. /\ disk'[c] = files[k].etag.data
        /\ \A d : d # c => (d \in DOMAIN disk' <=> d \in DOMAIN disk) /\ (d \in DOMAIN disk => disk'[d] = disk[d])
    BY DEF Downloads, With
  <1>5. files[k].cloud # None
    BY NoneNowhere DEF Downloads
  <1>6. Handles1(k)
    BY <1>1, <1>2, <1>3, <1>4, <1>5 DEF Handles1
  <1> QED
    BY <1>6, HandlerFaithful

LEMMA TruncatesFaithful ==
  ASSUME Shape, Shape', Orderly', Working, Faithful, NEW k, NEW c, NEW w, NEW seen,
         Truncates(k, c, w, seen)
  PROVE  Faithful' /\ Overwrites /\ Vanishes
  <1>1. /\ k \in DOMAIN files /\ k \in DocRows /\ files[k].path = Doc
        /\ UNCHANGED <<files, tombs, task, del, cloud, made, delta>> /\ fuse = None
        /\ c \in {k} \X Nat /\ files[k].cache \in {None, c} /\ c # None /\ w = writes.last + 1
        /\ seen = IF CacheExists(files[k]) THEN disk[c]
                  ELSE IF files[k].etag = None THEN {} ELSE files[k].etag.data
        /\ fuse' # None /\ fuse'.k = k /\ fuse'.c = c /\ discarded \subseteq discarded'
    BY DocRow2 DEF Truncates
  <1>2. /\ disk'[c] = seen \cup {w}
        /\ \A d : d # c => (d \in DOMAIN disk' <=> d \in DOMAIN disk) /\ (d \in DOMAIN disk => disk'[d] = disk[d])
    BY DEF Truncates, With
  <1>3. writes.last \in Nat /\ writes'.last = writes.last + 1 /\ writes'.theirs = writes.theirs
    BY DEF Truncates, LocalWrite, NextWrite, Shape, CloudShape
  <1>4. files[k].cache # None => files[k].cache = c /\ disk[c] \subseteq disk'[c]
    BY <1>1, <1>2 DEF Working, Held, CacheExists
  <1>5. RowsAt(k)
    BY <1>1 DEF Faithful, Rows
  <1>6. ASSUME files[k].state \in Protected, NEW x \in disk[files[k].cache] PROVE (Safe(x))'
    <2>1. files[k].cache # None
      BY <1>1, <1>6 DEF Working, Held
    <2>2. x \in disk'[c]
      BY <1>4, <1>6, <2>1
    <2> QED
      BY <1>1, <2>2 DEF Safe
  <1>7. \A x \in 1..writes'.last : x \in 1..writes.last \/ (Safe(x))'
    <2>1. (Safe(w))'
      BY <1>1, <1>2 DEF Safe
    <2> QED
      BY <1>1, <1>3, <2>1
  <1>8. Handles1(k)
    BY <1>1, <1>2, <1>3, <1>4, <1>5, <1>6, <1>7 DEF Handles1, RowsAt, Window, Truncating
  <1> QED
    BY <1>8, HandlerFaithful

LEMMA TruncateMarkFaithful ==
  ASSUME Shape, Shape', Orderly', Working, Working', Faithful, TruncateMark
  PROVE  Faithful' /\ Overwrites /\ Vanishes
  <1> DEFINE k == fuse.k
             c == fuse.c
  <1>1. /\ fuse # None /\ fuse.at = "mark" /\ files' = MarkCached(files, k, c)
        /\ fuse' = [fuse EXCEPT !.at = "claim"]
        /\ UNCHANGED <<tombs, disk, task, del, cloud, made, delta, writes, discarded>>
    BY DEF TruncateMark, NoRequest
  <1>2. /\ fuse \in HandlerType /\ c # None
        /\ k \in DOMAIN files => files[k].cache \in {None, c}
    BY <1>1 DEF Working, Cut, Shape, FuseShape
  <1>3. fuse' # None /\ fuse'.k = k /\ fuse'.c = c /\ fuse'.at = "claim"
    <2>1. fuse' \in HandlerType /\ fuse'.k = k /\ fuse'.c = c /\ fuse'.at = "claim"
      BY <1>1, <1>2 DEF HandlerType
    <2> QED
      BY <2>1, NoneAssumption DEF HandlerType
  <1>4. DOMAIN files' = DOMAIN files
    BY <1>1 DEF MarkCached
  <1>5. k \in DOMAIN files /\ k \in DocRows /\ files[k].path = Doc /\ DOMAIN files[k] = RowFields
    <2>1. k \in DOMAIN files
      BY <1>3, <1>4 DEF Orderly, TruncateAlone
    <2> QED
      BY <1>1, <2>1, DocRow2 DEF Shape, RowShape
  <1>6. /\ \A j \in DOMAIN files \ {k} : files'[j] = files[j]
        /\ files'[k].state = "cached" /\ files'[k].cache = c /\ files'[k].up = files[k].up
        /\ files'[k].path = Doc /\ files'[k].cloud = files[k].cloud /\ files'[k].etag = files[k].etag
    BY <1>1, <1>5 DEF MarkCached, RowFields
  <1>7. files[k].etag # None => files[k].etag.data \subseteq disk'[c]
    BY <1>3, <1>4, <1>5, <1>6 DEF Orderly, TruncateAlone
  <1>8. \A w \in disk[c] : (Safe(w))'
    BY <1>1, <1>3 DEF Safe
  <1>9. files[k].cache # None => files[k].cache = c
    BY <1>2, <1>5
  <1>10. files[k].state \in Protected => files[k].cache = c
    BY <1>5, <1>9 DEF Working, Held
  <1>11. (Window(k))'
    BY <1>3 DEF Window, Truncating
  <1> HIDE DEF k
  <1>12. /\ files[k].state \in Protected => \A w \in disk[files[k].cache] : (Safe(w))'
         /\ \A w \in disk[fuse.c] : (Safe(w))'
    BY <1>8, <1>10
  <1> HIDE DEF c
  <1>13. Handles1(k)
    BY <1>1, <1>4, <1>5, <1>6, <1>7, <1>9, <1>11, <1>12 DEF Handles1
  <1> QED
    BY <1>13, HandlerFaithful

\* The row is left with local bytes, and so are those of a truncation.
LEMMA LeavesFaithful ==
  ASSUME Shape, Shape', Orderly', Working, Faithful, NEW k, NEW s, Leaves(k, s),
         UNCHANGED <<tombs, task, del, cloud, made, delta, discarded>>,
         writes'.theirs = writes.theirs,
         \A c : c \notin {k} \X Nat =>
           (c \in DOMAIN disk' <=> c \in DOMAIN disk) /\ (c \in DOMAIN disk => disk'[c] = disk[c]),
         disk[files[k].cache] \subseteq disk'[files[k].cache],
         fuse # None => fuse.c = files[k].cache,
         \A w \in 1..writes'.last : w \in 1..writes.last \/ w \in disk'[files[k].cache]
  PROVE  Faithful' /\ Overwrites /\ Vanishes
  <1>1. /\ k \in DOMAIN files /\ k \in DocRows /\ files[k].path = Doc /\ s \in {"writing", "dirty"}
        /\ files'[k].state = s /\ files'[k].cache = files[k].cache /\ files[k].cache # None
        /\ DOMAIN files' = DOMAIN files /\ files'[k].path = files[k].path
    BY DocRow2 DEF Leaves
  <1>2. k \in DocRows'
    BY <1>1 DEF DocRows, RowAt
  <1>3. \A w \in disk'[files[k].cache] : (Safe(w))'
    BY <1>1, <1>2 DEF Safe, Protected
  <1>4. Handles1(k)
    BY <1>1, <1>3 DEF Leaves, Handles1
  <1> QED
    BY <1>4, HandlerFaithful

LEMMA TruncateClaimFaithful ==
  ASSUME Shape, Shape', Orderly, Orderly', Working, Faithful, TruncateClaim
  PROVE  Faithful' /\ Overwrites /\ Vanishes
  <1> DEFINE k == fuse.k
             s == IF fuse.h = None THEN "dirty" ELSE "writing"
  <1>1. /\ Leaves(k, s) /\ files[k].cache = fuse.c /\ fuse # None /\ fuse' = None
        /\ UNCHANGED <<tombs, disk, task, discarded, writes, del, cloud, made, unseen, delta>>
    BY TruncateClaims
  <1> HIDE DEF k, s
  <1> QED
    BY <1>1, LeavesFaithful

LEMMA WriteFaithful ==
  ASSUME Shape, Shape', Orderly', Working, Faithful, NEW h, Write(h)
  PROVE  Faithful' /\ Overwrites /\ Vanishes
  <1> DEFINE k == handles[h].k
             c == handles[h].c
  <1>1. Writes(h, k, c)
    BY WriteCases
  <1> HIDE DEF k, c
  <1>2. /\ Leaves(k, "writing") /\ files[k].cache = c /\ fuse = None /\ c \in DOMAIN disk
        /\ disk' = [disk EXCEPT ![c] = @ \cup {NextWrite}]
        /\ UNCHANGED <<tombs, task, del, cloud, made, delta, discarded>>
    BY <1>1 DEF Writes, Leaves
  <1>3. /\ writes'.theirs = writes.theirs /\ writes'.last = NextWrite
        /\ writes.last \in Nat /\ NextWrite = writes.last + 1
    BY <1>1 DEF Writes, LocalWrite, NextWrite, Shape, CloudShape
  <1>4. c \in {k} \X Nat
    <2>1. Own(k, c) /\ c # None
      BY <1>1, <1>2, DocRow2 DEF Leaves, Shape, RowShape, Writes
    <2> QED
      BY <2>1 DEF Own
  <1>5. /\ disk'[c] = disk[c] \cup {NextWrite} /\ DOMAIN disk' = DOMAIN disk
        /\ \A d \in DOMAIN disk \ {c} : disk'[d] = disk[d]
    BY <1>2
  <1>6. \A w \in 1..writes'.last : w \in 1..writes.last \/ w \in disk'[files[k].cache]
    BY <1>2, <1>3, <1>5
  <1>7. \A d : d \notin {k} \X Nat =>
           (d \in DOMAIN disk' <=> d \in DOMAIN disk) /\ (d \in DOMAIN disk => disk'[d] = disk[d])
    BY <1>4, <1>5
  <1> QED
    BY <1>2, <1>3, <1>5, <1>6, <1>7, LeavesFaithful

LEMMA ReleaseFaithful ==
  ASSUME Shape, Shape', Orderly', Working, Faithful, NEW h, Release(h)
  PROVE  Faithful' /\ Overwrites /\ Vanishes
  <1> DEFINE k == handles[h].k
  <1>1. /\ fuse = None
        /\ UNCHANGED <<tombs, disk, task, del, cloud, made, unseen, delta, writes, discarded>>
        /\ files' = files \/ Leaves(k, "dirty")
    BY ReleaseCases
  <1> HIDE DEF k
  <1>2. CASE files' = files
    BY <1>2, QuietFaithful
  <1>3. CASE Leaves(k, "dirty")
    BY <1>1, <1>3, LeavesFaithful
  <1> QED
    BY <1>1, <1>2, <1>3

\* A new file has no item, no claim and no run.
LEMMA CreateFaithful ==
  ASSUME Shape, Shape', Working, Faithful, NEW h, Create(h)
  PROVE  Faithful' /\ Overwrites /\ Vanishes
  <1> DEFINE k == LocalIdentity(made')
             c == OwnCache(k)
  <1>1. /\ DocRows = {} /\ made' = made + 1 /\ fuse = None
        /\ files' = With(files, k, LocalRow(Doc, c)) /\ disk' = With(disk, c, {})
        /\ UNCHANGED <<tombs, cloud, unseen, delta, fuse, writes, discarded, task, del>>
    BY DEF Create, FuseOnly, DocRows
  <1>2. k \notin Locals /\ c \notin DOMAIN disk /\ c = <<k, 0>>
    <2>1. k \notin Locals
      BY <1>1 DEF Shape, CloudShape
    <2> QED
      BY <2>1 DEF OwnCache, Shape, CloudShape
  <1> HIDE DEF k, c
  <1>3. k \notin DOMAIN files /\ k \notin DOMAIN task /\ k \notin DOMAIN tombs
    BY <1>2 DEF Shape, RowShape, TaskShape, TombShape
  <1>4. /\ DOMAIN files' = DOMAIN files \cup {k} /\ files'[k] = LocalRow(Doc, c)
        /\ \A j \in DOMAIN files : files'[j] = files[j]
        /\ \A d : d # c => (d \in DOMAIN disk' <=> d \in DOMAIN disk) /\ (d \in DOMAIN disk => disk'[d] = disk[d])
        /\ c # None
    <2>1. /\ DOMAIN files' = DOMAIN files \cup {k} /\ files'[k] = LocalRow(Doc, c)
          /\ \A j \in DOMAIN files : files'[j] = files[j]
          /\ \A d : d # c => (d \in DOMAIN disk' <=> d \in DOMAIN disk) /\ (d \in DOMAIN disk => disk'[d] = disk[d])
          /\ c \in DOMAIN disk'
      BY <1>1, <1>3 DEF With
    <2> QED
      BY <2>1 DEF Shape, CloudShape
  <1>5. /\ files'[k].path = Doc /\ files'[k].state = "writing" /\ files'[k].cache = c
        /\ files'[k].cloud = None /\ files'[k].etag = None /\ files'[k].up.path = None
    BY <1>4 DEF LocalRow, NoClaim, Claim
  <1>6. \A j \in DocRows' : j = k
    BY <1>1, <1>4 DEF DocRows, RowAt
  <1>7. Moves /\ Overwrites /\ Vanishes /\ Drives'
    BY <1>1, StillMoves DEF Faithful
  <1>8. Base' /\ Rows'
    BY <1>4, <1>5, <1>6, NoneNowhere DEF Base, BaseAt, Rows, RowsAt
  <1>9. \A d \in DOMAIN tombs : tombs[d].up.cache # c
    <2> SUFFICES ASSUME NEW d \in DOMAIN tombs, tombs[d].up.cache = c PROVE FALSE
      OBVIOUS
    <2>1. tombs[d].up.cache \in {d} \X Nat /\ d # k
      BY <1>3, <1>4 DEF Shape, TombShape, Own
    <2> QED
      BY <1>2, <2>1
  <1>10. ASSUME NEW j \in DOMAIN task' PROVE (RequestAt(j))' /\ (AnsweredAt(j))'
    <2>1. /\ j \in DOMAIN task /\ task' = task /\ RequestAt(j) /\ AnsweredAt(j)
          /\ j \notin DOMAIN files /\ j \notin DOMAIN files'
      BY <1>1, <1>3, <1>4, <1>10, DocRow2 DEF Faithful, Requests, Answered
    <2>2. task[j].r.cache # c /\ task[j].r.cache \in DOMAIN disk
      BY <1>2, <2>1 DEF Shape, TaskShape
    <2>3. (Bytes(j))' = Bytes(j)
      BY <1>4, <2>1, <2>2 DEF Bytes
    <2>4. (RequestAt(j))'
      BY <1>1, <2>1, <2>3 DEF RequestAt
    <2>5. task[j].pc = "commit" => (CommitAt(j))'
      BY <1>1, <2>1, <2>3 DEF AnsweredAt, CommitAt, Cur, Theirs, ItemsAt
    <2> QED
      BY <1>7, <2>1, <2>3, <2>4, <2>5, AnswerMoves
  <1>11. Generations'
    BY <1>1, <1>3, <1>5, <1>6 DEF Faithful, Generations, LocalTomb, Big
  <1>12. Graves'
    <2> SUFFICES ASSUME NEW d \in DOMAIN tombs PROVE (GraveAt(d))'
      BY <1>1 DEF Graves
    <2>1. GraveAt(d)
      BY DEF Faithful, Graves
    <2>2. tombs[d].up.cache \in DOMAIN disk' =>
            tombs[d].up.cache \in DOMAIN disk /\ disk'[tombs[d].up.cache] = disk[tombs[d].up.cache]
      BY <1>4, <1>9
    <2> QED
      BY <1>1, <2>1, <2>2 DEF GraveAt, Cur
  <1>13. Deletions'
    BY <1>1 DEF Faithful, Deletions, DeletionAt
  <1>14. Listed'
    BY <1>1, <1>2, <1>4, ListedRows DEF Faithful, Bound
  <1>15. NoStrangers'
    <2> SUFFICES ASSUME NEW j \in ItemsAt(Doc) PROVE (Owned(j))'
      BY <1>1 DEF NoStrangers, ItemsAt
    <2>1. Owned(j) /\ ~RowClaims(j)
      BY <1>1 DEF Faithful, NoStrangers, RowClaims
    <2>2. ASSUME TombClaims(j) PROVE (TombClaims(j))'
      <3>1. PICK d \in DOMAIN tombs :
              /\ LocalTomb(d) /\ tombs[d].cloud = None
              /\ tombs[d].up.path = Doc /\ tombs[d].up.target = None
              /\ tombs[d].up.cache \in DOMAIN disk => Cur(j) \subseteq disk[tombs[d].up.cache]
        BY <2>2 DEF TombClaims
      <3>2. tombs[d].up.cache \in DOMAIN disk' => Cur(j) \subseteq disk'[tombs[d].up.cache]
        BY <1>4, <1>9, <3>1
      <3>3. (LocalTomb(d))'
        BY <1>1, <3>1 DEF LocalTomb
      <3> QED
        BY <1>1, <3>1, <3>2, <3>3 DEF TombClaims, Cur
    <2> QED
      BY <1>1, <1>4, <2>1, <2>2 DEF Owned, Theirs
  <1>16. AllSafe'
    BY <1>1 DEF Faithful, AllSafe, Safe, Cur
  <1> QED
    BY <1>7, <1>8, <1>10, <1>11, <1>12, <1>13, <1>14, <1>15, <1>16 DEF Faithful, Requests, Answered

-----------------------------------------------------------------------------
(* Unlink: what the row stood for is given up                              *)

LEMMA BuriedTomb ==
  ASSUME Shape, Orderly, Working, Faithful, NEW k, Buries(k)
  PROVE  /\ k \notin DOMAIN tombs /\ k \notin DOMAIN del
         /\ DOMAIN tombs' = DOMAIN tombs \cup {k} /\ \A d \in DOMAIN tombs : tombs'[d] = tombs[d]
         /\ tombs'[k].local = k /\ k # None /\ tombs'[k].path = Doc /\ tombs'[k].cloud = files[k].cloud
         /\ tombs'[k].up.path = files[k].up.path
         /\ tombs'[k].up.target = files[k].up.target
         /\ files[k].up.path # None /\ files[k].up.cache # None =>
              tombs'[k].up = Claim(files[k].up.path, files[k].up.target, files[k].up.cache)
         /\ files[k].up.path # None /\ files[k].up.target = None =>
              /\ files[k].up.cache = files[k].cache /\ files[k].cache # None
              /\ files[k].up.path # Doc => files[k].up.path = CopyPath(disk[files[k].cache])
         /\ files[k].up.path \notin {None, Doc} => files[k].up.target = None
         /\ files[k].cache # None => disk[files[k].cache] \subseteq discarded'
         /\ files[k].cloud \in DOMAIN cloud => Cur(files[k].cloud) \subseteq discarded' \cup writes.theirs
  <1> DEFINE r == files[k]
  <1>1. /\ k \in DocRows /\ k \in DOMAIN files /\ r.path = Doc /\ Unbound(r.up, r.cloud)
        /\ k \notin DOMAIN tombs /\ k # None /\ RowsAt(k)
    BY DocRow2 DEF Buries, Shape, RowShape, TombShape, CloudShape, Faithful, Rows
  <1>2. k \notin DOMAIN del
    BY <1>1 DEF Shape, DelShape
  <1>3. ~(r.up.path = None /\ r.state = "uploading")
    BY <1>1, NoneNowhere DEF RowsAt
  <1>4. /\ DOMAIN tombs' = DOMAIN tombs \cup {k} /\ \A d \in DOMAIN tombs : tombs'[d] = tombs[d]
        /\ tombs'[k] = [Tombstone(files, k) EXCEPT !.done = None]
    BY <1>1 DEF Buries, QueueDelete, With
  <1>5. /\ tombs'[k].local = k /\ tombs'[k].path = r.path /\ tombs'[k].cloud = r.cloud
        /\ tombs'[k].up = Claim(r.up.path, r.up.target,
                                IF r.up.cache # None \/ r.up.path = None THEN r.up.cache ELSE r.cache)
    BY <1>3, <1>4 DEF Tombstone
  <1>6. r.up.path # None /\ r.up.target = None =>
          /\ r.up.cache = r.cache /\ r.cache # None
          /\ r.up.path # Doc => r.up.path = CopyPath(disk[r.cache])
    <2>1. CASE r.up.path = Doc /\ r.up.target = None
      <3>1. r.cloud = None
        BY <1>1, <2>1 DEF Unbound
      <3> QED
        BY <1>1, <2>1, <3>1, NoneNowhere DEF RowsAt, Claim
    <2>2. CASE r.up.path \notin {None, Doc}
      <3>1. r.up = Claim(CopyPath(disk[r.cache]), None, r.cache)
        BY <1>1, <2>2 DEF RowsAt
      <3>2. r.cache # None
        BY <1>1, <2>2 DEF Orderly, CopiesUndisturbed, Protected, Working, Held
      <3> QED
        BY <3>1, <3>2 DEF Claim
    <2> QED
      BY <2>1, <2>2
  <1>7. r.up.path \notin {None, Doc} => r.up.target = None
    BY <1>1 DEF RowsAt, Claim
  <1>8. r.cache # None => disk[r.cache] \subseteq discarded'
    BY <1>1 DEF Buries, GivenUp, CacheExists, Working, Held
  <1>9. r.cloud \in DOMAIN cloud => Cur(r.cloud) \subseteq discarded' \cup writes.theirs
    BY DEF Buries, GivenUp, Cur
  <1> QED
    BY <1>1, <1>2, <1>4, <1>5, <1>6, <1>7, <1>8, <1>9 DEF Claim

LEMMA UnlinkFaithful ==
  ASSUME Shape, Shape', Orderly, Working, Faithful, Unlink
  PROVE  Faithful' /\ Overwrites /\ Vanishes
  <1>1. PICK k : Buries(k)
    BY UnlinkCases
  <1>2. /\ k \notin DOMAIN tombs /\ k \notin DOMAIN del
        /\ DOMAIN tombs' = DOMAIN tombs \cup {k} /\ \A d \in DOMAIN tombs : tombs'[d] = tombs[d]
        /\ tombs'[k].local = k /\ k # None /\ tombs'[k].path = Doc /\ tombs'[k].cloud = files[k].cloud
        /\ tombs'[k].up.path = files[k].up.path
        /\ tombs'[k].up.target = files[k].up.target
        /\ files[k].up.path # None /\ files[k].up.cache # None =>
             tombs'[k].up = Claim(files[k].up.path, files[k].up.target, files[k].up.cache)
        /\ files[k].up.path # None /\ files[k].up.target = None =>
             /\ files[k].up.cache = files[k].cache /\ files[k].cache # None
             /\ files[k].up.path # Doc => files[k].up.path = CopyPath(disk[files[k].cache])
        /\ files[k].up.path \notin {None, Doc} => files[k].up.target = None
        /\ files[k].cache # None => disk[files[k].cache] \subseteq discarded'
        /\ files[k].cloud \in DOMAIN cloud => Cur(files[k].cloud) \subseteq discarded' \cup writes.theirs
    BY <1>1, BuriedTomb
  <1>3. /\ k \in DocRows /\ k \in DOMAIN files /\ (\A j \in DocRows : j = k)
        /\ fuse = None /\ ~CommitLocked /\ discarded \subseteq discarded'
        /\ DOMAIN files' = DOMAIN files \ {k} /\ \A j \in DOMAIN files' : files'[j] = files[j]
        /\ UNCHANGED <<disk, fuse, task, del, cloud, made, unseen, delta, writes>>
    BY <1>1, DocRow2 DEF Buries, Without
  <1>4. DocRows' = {}
    BY <1>3, DocRow2 DEF DocRows, RowAt
  <1>5. Moves /\ Overwrites /\ Vanishes /\ Drives'
    BY <1>3, StillMoves DEF Faithful
  <1>6. Base' /\ Rows'
    BY <1>4 DEF Base, Rows
  <1>7. ASSUME NEW j \in DOMAIN task' PROVE (RequestAt(j))' /\ (AnsweredAt(j))'
    <2>1. /\ j \in DOMAIN task /\ task' = task /\ task[j].pc # "import"
          /\ RequestAt(j) /\ AnsweredAt(j) /\ (Bytes(j))' = Bytes(j) /\ j \notin DOMAIN files'
      BY <1>3, <1>7, DocRow2 DEF CommitLocked, Faithful, Requests, Answered, Bytes
    <2>2. (RequestAt(j))'
      <3>1. CASE j = k
        <4>1. files[k].cache = task[k].r.cache /\ task[k].r.cache # None
          BY <1>3, <2>1, <3>1, RowOfRun DEF RunningAt
        <4>2. Bytes(k) \subseteq discarded'
          BY <1>2, <4>1 DEF Bytes
        <4>3. task[k].pc \in Sending /\ task[k].r.cloud = None => tombs'[k].up = Claim(Doc, None, task[k].r.cache)
          <5>1. SUFFICES ASSUME task[k].pc \in Sending, task[k].r.cloud = None
                         PROVE  tombs'[k].up = Claim(Doc, None, task[k].r.cache)
            OBVIOUS
          <5>2. files[k].up = Claim(Doc, None, task[k].r.cache)
            BY <1>3, <2>1, <3>1, <5>1 DEF RequestAt
          <5>3. /\ files[k].up.path = Doc /\ files[k].up.target = None
                /\ files[k].up.cache = task[k].r.cache
            BY <5>2 DEF Claim
          <5> QED
            BY <1>2, <4>1, <5>3, NoneNowhere
        <4> QED
          BY <1>3, <2>1, <3>1, <4>2, <4>3 DEF RequestAt
      <3>2. CASE j # k
        <4>1. j \notin DOMAIN files
          BY <1>3, <2>1, <3>2, DocRow2
        <4>2. task[j].pc \in Sending /\ task[j].r.cloud = None => tombs'[j].up = tombs[j].up
          <5>1. j \in DOMAIN tombs
            BY <2>1, <4>1, RowOfRun DEF RunningAt, LocalTomb
          <5> QED
            BY <1>2, <5>1
        <4> QED
          BY <1>3, <2>1, <4>1, <4>2 DEF RequestAt
      <3> QED
        BY <3>1, <3>2
    <2>3. task[j].pc = "commit" => (CommitAt(j))'
      BY <1>3, <2>1 DEF AnsweredAt, CommitAt, Cur, Theirs, ItemsAt
    <2> QED
      BY <1>5, <2>1, <2>2, <2>3, AnswerMoves
  <1>8. Generations'
    <2>1. ASSUME NEW d \in DOMAIN tombs, LocalTomb(d) PROVE ~(Big(k))' /\ d # k
      BY <1>2, <1>3, <2>1, NoneNowhere DEF Faithful, Generations, Big
    <2>2. \A d \in DOMAIN tombs : ((LocalTomb(d))' <=> LocalTomb(d)) /\ ((Big(d))' <=> Big(d))
      BY <1>2, <1>3 DEF LocalTomb, Big
    <2>3. ASSUME NEW d \in DOMAIN tombs', NEW e \in DOMAIN tombs', d # e, (LocalTomb(d))', (LocalTomb(e))'
          PROVE  ~(Big(d))' \/ ~(Big(e))'
      <3>1. CASE d = k \/ e = k
        BY <1>2, <2>1, <2>2, <2>3, <3>1
      <3>2. CASE d \in DOMAIN tombs /\ e \in DOMAIN tombs
        BY <2>2, <2>3, <3>2 DEF Faithful, Generations
      <3> QED
        BY <1>2, <3>1, <3>2
    <2> QED
      BY <1>4, <2>3 DEF Generations
  <1>9. Graves'
    <2> SUFFICES ASSUME NEW d \in DOMAIN tombs' PROVE (GraveAt(d))'
      BY DEF Graves
    <2>1. CASE d = k
      <3>1. tombs'[k].up.path # None /\ tombs'[k].up.target = None =>
              /\ tombs'[k].up.cache = files[k].cache /\ disk[files[k].cache] \subseteq discarded'
              /\ tombs'[k].up.path # Doc => tombs'[k].up.path = CopyPath(disk[files[k].cache])
        <4> SUFFICES ASSUME tombs'[k].up.path # None, tombs'[k].up.target = None PROVE <3>1!2
          OBVIOUS
        <4>1. files[k].up.path # None /\ files[k].up.target = None
          BY <1>2
        <4> QED
          BY <1>2, <4>1 DEF Claim
      <3>2. tombs'[k].up.path \notin {None, Doc} => tombs'[k].up.target = None
        BY <1>2
      <3> QED
        BY <1>2, <1>3, <2>1, <3>1, <3>2 DEF GraveAt, Cur
    <2>2. CASE d # k
      <3>1. d \in DOMAIN tombs /\ GraveAt(d) /\ tombs'[d] = tombs[d]
        BY <1>2, <2>2 DEF Faithful, Graves
      <3> QED
        BY <1>3, <3>1 DEF GraveAt, Cur
    <2> QED
      BY <2>1, <2>2
  <1>10. Deletions'
    <2> SUFFICES ASSUME NEW d \in DOMAIN del PROVE (DeletionAt(d))'
      BY <1>3 DEF Deletions
    <2>1. d \in DOMAIN tombs /\ tombs'[d] = tombs[d] /\ DeletionAt(d)
      BY <1>2 DEF Shape, DelShape, Faithful, Deletions
    <2> QED
      BY <1>3, <2>1 DEF DeletionAt
  <1>11. Listed'
    <2>1. Bound(files, files') /\ \A j \in DOMAIN files' \ DOMAIN files : j \in Items \/ j \notin Locals
      BY <1>3 DEF Bound
    <2> QED
      BY <1>3, <2>1, ListedRows DEF Faithful
  <1>12. NoStrangers'
    <2> SUFFICES ASSUME NEW j \in ItemsAt(Doc) PROVE (Owned(j))'
      BY <1>3 DEF NoStrangers, ItemsAt
    <2>1. Owned(j)
      BY DEF Faithful, NoStrangers
    <2>2. CASE Theirs(j) # {}
      BY <1>3, <2>2 DEF Owned, Theirs
    <2>3. CASE \E o \in DOMAIN files : files[o].cloud = j
      BY <1>2, <1>3, <2>3 DEF Owned
    <2>4. CASE \E d \in DOMAIN tombs : tombs[d].cloud = j
      BY <1>2, <2>4 DEF Owned
    <2>5. CASE RowClaims(j)
      <3>1. files[k].cloud = None /\ files[k].up.path = Doc /\ Cur(j) \subseteq disk[files[k].cache]
        BY <1>3, <2>5 DEF RowClaims
      <3>2. files[k].up.target = None /\ files[k].cache # None
        <4>1. RowsAt(k) /\ Doc # None
          BY <1>3, NoneNowhere DEF Faithful, Rows
        <4> QED
          BY <3>1, <4>1 DEF RowsAt, Claim
      <3>3. /\ (LocalTomb(k))' /\ tombs'[k].cloud = None
            /\ tombs'[k].up.path = Doc /\ tombs'[k].up.target = None
            /\ tombs'[k].up.cache = files[k].cache
        BY <1>2, <3>1, <3>2, NoneNowhere DEF LocalTomb, Claim
      <3>4. (TombClaims(j))'
        BY <1>2, <1>3, <3>1, <3>3 DEF TombClaims, Cur
      <3> QED
        BY <3>4 DEF Owned
    <2>6. CASE TombClaims(j)
      <3>1. PICK d \in DOMAIN tombs :
              /\ LocalTomb(d) /\ tombs[d].cloud = None
              /\ tombs[d].up.path = Doc /\ tombs[d].up.target = None
              /\ tombs[d].up.cache \in DOMAIN disk => Cur(j) \subseteq disk[tombs[d].up.cache]
        BY <2>6 DEF TombClaims
      <3>2. (LocalTomb(d))' /\ d \in DOMAIN tombs' /\ tombs'[d] = tombs[d]
        BY <1>2, <3>1 DEF LocalTomb
      <3>3. (TombClaims(j))'
        BY <1>3, <3>1, <3>2 DEF TombClaims, Cur
      <3> QED
        BY <3>3 DEF Owned
    <2> QED
      BY <2>1, <2>2, <2>3, <2>4, <2>5, <2>6 DEF Owned
  <1>13. AllSafe'
    <2> SUFFICES ASSUME NEW w \in 1..writes.last PROVE (Safe(w))'
      BY <1>3 DEF AllSafe
    <2>1. Safe(w)
      BY DEF Faithful, AllSafe
    <2>2. ASSUME NEW j \in DocRows, files[j].state \in Protected, w \in disk[files[j].cache]
          PROVE  w \in discarded'
      BY <1>2, <1>3, <2>2 DEF Working, Held
    <2> QED
      BY <1>3, <2>1, <2>2 DEF Safe, Cur
  <1> QED
    BY <1>5, <1>6, <1>7, <1>8, <1>9, <1>10, <1>11, <1>12, <1>13 DEF Faithful, Requests, Answered

-----------------------------------------------------------------------------
(* The end of a deletion, and a crash                                      *)

\* Only the cache files of the deleted file go: no row, run or handler uses them.
LEMMA RetiredDisk ==
  ASSUME Shape, Working, NEW d, RetireDelete(d)
  PROVE  /\ d \in DOMAIN del /\ del[d].pc = "clean" /\ d \in DOMAIN tombs /\ d \notin DOMAIN task
         /\ DOMAIN tombs' = DOMAIN tombs \ {d} /\ \A e \in DOMAIN tombs' : tombs'[e] = tombs[e]
         /\ DOMAIN del' = DOMAIN del \ {d} /\ \A e \in DOMAIN del' : del'[e] = del[e]
         /\ UNCHANGED <<files, handles, fuse, task, cloud, made, delta, writes, discarded>>
         /\ DOMAIN disk' \subseteq DOMAIN disk /\ \A c \in DOMAIN disk' : disk'[c] = disk[c]
         /\ \A j \in DocRows : files[j].cache # None =>
              files[j].cache \in DOMAIN disk' /\ disk'[files[j].cache] = disk[files[j].cache]
         /\ \A j \in DOMAIN task : disk'[task[j].r.cache] = disk[task[j].r.cache]
         /\ fuse # None => disk'[fuse.c] = disk[fuse.c]
  <1>1. /\ d \in DOMAIN del /\ del[d].pc = "clean"
        /\ disk' = [c \in DOMAIN disk \ Caches(d) |-> disk[c]]
        /\ tombs' = Without(tombs, d) /\ del' = Without(del, d)
        /\ UNCHANGED <<files, handles, fuse, task, cloud, made, delta, writes, discarded>>
    BY DEF RetireDelete, Deleting, NoRequest, OnlyDel
  <1>2. d \in DOMAIN tombs /\ d \notin DOMAIN task
    BY <1>1 DEF Shape, DelShape
  <1>3. /\ DOMAIN tombs' = DOMAIN tombs \ {d} /\ (\A e \in DOMAIN tombs' : tombs'[e] = tombs[e])
        /\ DOMAIN del' = DOMAIN del \ {d} /\ \A e \in DOMAIN del' : del'[e] = del[e]
    BY <1>1 DEF Without
  <1>4. \A c \in Caches(d) : LocalTomb(d) /\ c \in {d} \X Nat
    BY <1>2 DEF Caches, LocalTomb, Shape, TombShape, Own
  <1>5. /\ DOMAIN disk' = DOMAIN disk \ Caches(d) /\ \A c \in DOMAIN disk' : disk'[c] = disk[c]
    BY <1>1
  <1>6. ASSUME NEW j, j # d \/ ~LocalTomb(d), NEW c \in {j} \X Nat, c \in DOMAIN disk
        PROVE  c \in DOMAIN disk' /\ disk'[c] = disk[c]
    BY <1>4, <1>5, <1>6
  <1>7. ASSUME NEW j \in DocRows, files[j].cache # None
        PROVE  files[j].cache \in DOMAIN disk' /\ disk'[files[j].cache] = disk[files[j].cache]
    <2>1. j \in DOMAIN files /\ files[j].path = Doc /\ files[j].cache \in {j} \X Nat
          /\ files[j].cache \in DOMAIN disk
      BY <1>7, DocRow2 DEF Shape, RowShape, Own, Working, Held
    <2>2. j # d \/ ~LocalTomb(d)
      BY <2>1 DEF LocalTomb, Shape, TombShape
    <2> QED
      BY <1>6, <2>1, <2>2
  <1>8. ASSUME NEW j \in DOMAIN task PROVE disk'[task[j].r.cache] = disk[task[j].r.cache]
    BY <1>2, <1>6 DEF Shape, TaskShape
  <1>9. ASSUME fuse # None PROVE disk'[fuse.c] = disk[fuse.c]
    <2>1. fuse.c \in {fuse.k} \X Nat /\ fuse.c \in DOMAIN disk /\ ~LocalTomb(fuse.k)
      BY <1>9 DEF Working, Cut, Shape, FuseShape
    <2>2. fuse.k # d \/ ~LocalTomb(d)
      BY <2>1
    <2> QED
      BY <1>6, <2>1, <2>2
  <1> QED
    BY <1>1, <1>2, <1>3, <1>5, <1>7, <1>8, <1>9

LEMMA RetireDeleteFaithful ==
  ASSUME Shape, Shape', Orderly', Working, Faithful, NEW d, RetireDelete(d)
  PROVE  Faithful' /\ Overwrites /\ Vanishes
  <1>1. /\ d \in DOMAIN del /\ del[d].pc = "clean" /\ d \in DOMAIN tombs /\ d \notin DOMAIN task
        /\ DOMAIN tombs' = DOMAIN tombs \ {d} /\ (\A e \in DOMAIN tombs' : tombs'[e] = tombs[e])
        /\ DOMAIN del' = DOMAIN del \ {d} /\ (\A e \in DOMAIN del' : del'[e] = del[e])
        /\ UNCHANGED <<files, handles, fuse, task, cloud, made, delta, writes, discarded>>
        /\ DOMAIN disk' \subseteq DOMAIN disk /\ (\A c \in DOMAIN disk' : disk'[c] = disk[c])
        /\ \A j \in DocRows : files[j].cache # None =>
             files[j].cache \in DOMAIN disk' /\ disk'[files[j].cache] = disk[files[j].cache]
        /\ \A j \in DOMAIN task : disk'[task[j].r.cache] = disk[task[j].r.cache]
        /\ fuse # None => disk'[fuse.c] = disk[fuse.c]
    BY RetiredDisk
  <1>2. Moves /\ Overwrites /\ Vanishes /\ Drives'
    BY <1>1, StillMoves DEF Faithful
  <1>3. ASSUME NEW k \in DocRows' PROVE (BaseAt(k))' /\ (RowsAt(k))'
    <2>1. k \in DocRows /\ BaseAt(k) /\ RowsAt(k)
      BY <1>1 DEF DocRows, Faithful, Base, Rows
    <2>2. (BaseAt(k))'
      BY <1>1, <2>1 DEF BaseAt
    <2>3. files[k].up.path \notin {None, Doc} => files[k].cache # None
      BY <1>1, <1>3, <2>1, DocRow2 DEF Orderly, CopiesUndisturbed, Working, Held, Protected
    <2>4. (RowsAt(k))'
      BY <1>1, <2>1, <2>3 DEF RowsAt, Window, Truncating
    <2> QED
      BY <2>2, <2>4
  <1>4. ASSUME NEW j \in DOMAIN task' PROVE (RequestAt(j))' /\ (AnsweredAt(j))'
    <2>1. /\ j \in DOMAIN task /\ task' = task /\ j # d /\ RequestAt(j) /\ AnsweredAt(j)
          /\ (Bytes(j))' = Bytes(j)
      BY <1>1, <1>4 DEF Faithful, Requests, Answered, Bytes
    <2>2. (RequestAt(j))'
      <3>1. CASE task[j].pc \in Sending /\ j \notin DOMAIN files
        <4>1. LocalTomb(j)
          BY <2>1, <3>1, RowOfRun DEF RunningAt, Sending
        <4>2. tombs'[j] = tombs[j]
          BY <1>1, <2>1, <4>1 DEF LocalTomb
        <4> QED
          BY <1>1, <2>1, <4>2 DEF RequestAt
      <3>2. CASE ~(task[j].pc \in Sending /\ j \notin DOMAIN files)
        BY <1>1, <2>1, <3>2 DEF RequestAt
      <3> QED
        BY <3>1, <3>2
    <2>3. task[j].pc = "commit" => (CommitAt(j))'
      BY <1>1, <2>1 DEF AnsweredAt, CommitAt, Truncating, Cur, Theirs, ItemsAt
    <2> QED
      BY <1>2, <2>1, <2>2, <2>3, AnswerMoves
  <1>5. Generations'
    BY <1>1, GenerationsStay DEF Faithful, LocalTomb, Big
  <1>6. Graves'
    <2> SUFFICES ASSUME NEW e \in DOMAIN tombs' PROVE (GraveAt(e))'
      BY DEF Graves
    <2>1. e \in DOMAIN tombs /\ tombs'[e] = tombs[e] /\ GraveAt(e)
      BY <1>1 DEF Faithful, Graves
    <2> QED
      BY <1>1, <2>1 DEF GraveAt, Cur
  <1>7. Deletions'
    <2> SUFFICES ASSUME NEW e \in DOMAIN del' PROVE (DeletionAt(e))'
      BY DEF Deletions
    <2>1. e \in DOMAIN del /\ del'[e] = del[e] /\ DeletionAt(e) /\ e \in DOMAIN tombs /\ tombs'[e] = tombs[e]
      BY <1>1 DEF Faithful, Deletions, Shape, DelShape
    <2> QED
      BY <1>1, <2>1 DEF DeletionAt
  <1>8. Listed'
    BY <1>1, SameListed DEF Faithful
  <1>9. NoStrangers'
    <2> SUFFICES ASSUME NEW j \in ItemsAt(Doc) PROVE (Owned(j))'
      BY <1>1 DEF NoStrangers, ItemsAt
    <2>1. Owned(j) /\ DeletionAt(d) /\ j \in DOMAIN cloud
      BY <1>1 DEF Faithful, NoStrangers, Deletions, ItemsAt
    <2>2. tombs[d].cloud # j /\ (tombs[d].up.path = None \/ tombs[d].up.target # None)
      BY <1>1, <2>1 DEF DeletionAt
    <2>3. CASE Theirs(j) # {} \/ \E o \in DOMAIN files : files[o].cloud = j
      BY <1>1, <2>3 DEF Owned, Theirs
    <2>4. CASE \E e \in DOMAIN tombs : tombs[e].cloud = j
      BY <1>1, <2>2, <2>4 DEF Owned
    <2>5. CASE RowClaims(j)
      <3>1. PICK k \in DocRows :
              files[k].cloud = None /\ files[k].up.path = Doc /\ Cur(j) \subseteq disk[files[k].cache]
        BY <2>5 DEF RowClaims
      <3>2. files[k].cache # None
        BY <3>1 DEF Faithful, Rows, RowsAt
      <3>3. (RowClaims(j))'
        BY <1>1, <3>1, <3>2 DEF RowClaims, Cur, DocRows
      <3> QED
        BY <3>3 DEF Owned
    <2>6. CASE TombClaims(j)
      <3>1. PICK e \in DOMAIN tombs :
              /\ LocalTomb(e) /\ tombs[e].cloud = None
              /\ tombs[e].up.path = Doc /\ tombs[e].up.target = None
              /\ tombs[e].up.cache \in DOMAIN disk => Cur(j) \subseteq disk[tombs[e].up.cache]
        BY <2>6 DEF TombClaims
      <3>2. (LocalTomb(e))' /\ e \in DOMAIN tombs' /\ tombs'[e] = tombs[e]
        BY <1>1, <2>2, <3>1, NoneNowhere DEF LocalTomb
      <3>3. (TombClaims(j))'
        BY <1>1, <3>1, <3>2 DEF TombClaims, Cur
      <3> QED
        BY <3>3 DEF Owned
    <2> QED
      BY <2>1, <2>3, <2>4, <2>5, <2>6 DEF Owned
  <1>10. AllSafe'
    <2> SUFFICES ASSUME NEW w \in 1..writes.last PROVE (Safe(w))'
      BY <1>1 DEF AllSafe
    <2>1. Safe(w)
      BY DEF Faithful, AllSafe
    <2>2. CASE w \in discarded \/ \E i \in DOMAIN cloud : w \in Cur(i)
      BY <1>1, <2>2 DEF Safe, Cur
    <2>3. CASE \E j \in DocRows : files[j].state \in Protected /\ w \in disk[files[j].cache]
      BY <1>1, <2>3 DEF Safe, Working, Held, DocRows
    <2>4. CASE fuse # None /\ w \in disk[fuse.c]
      BY <1>1, <2>4 DEF Safe
    <2> QED
      BY <2>1, <2>2, <2>3, <2>4 DEF Safe
  <1> QED
    BY <1>2, <1>3, <1>4, <1>5, <1>6, <1>7, <1>8, <1>9, <1>10
    DEF Faithful, Base, Rows, Requests, Answered

\* Nothing that was acknowledged is only in memory.
LEMMA CrashFaithful ==
  ASSUME Shape, Shape', Orderly', Working, Faithful, Crash
  PROVE  Faithful' /\ Overwrites /\ Vanishes
  <1>1. PICK s \in {0, 1} :
          files' = [k \in DOMAIN files |->
                      IF files[k].state = "writing" /\ CacheExists(files[k])
                        THEN [files[k] EXCEPT !.state = "dirty", !.stamp = s] ELSE files[k]]
    BY DEF Crash
  <1>2. /\ fuse' = None /\ task' = Empty /\ del' = Empty /\ delta' = None
        /\ UNCHANGED <<tombs, disk, cloud, made, unseen, writes>>
        /\ discarded \subseteq discarded' /\ (fuse # None => fuse.w \in discarded')
    BY DEF Crash
  <1>3. DOMAIN task' = {} /\ DOMAIN del' = {}
    BY <1>2 DEF Empty
  <1>4. /\ DOMAIN files' = DOMAIN files
        /\ \A k \in DOMAIN files :
             /\ files'[k].path = files[k].path /\ files'[k].cache = files[k].cache
             /\ files'[k].cloud = files[k].cloud /\ files'[k].etag = files[k].etag
             /\ files'[k].up = files[k].up
             /\ files'[k].state = files[k].state \/ (files[k].state = "writing" /\ files'[k].state = "dirty")
    <2> SUFFICES ASSUME NEW k \in DOMAIN files PROVE <1>4!2!(k)
      BY <1>1
    <2>1. DOMAIN files[k] = RowFields
      BY DEF Shape, RowShape
    <2>2. \/ files'[k] = files[k]
          \/ files[k].state = "writing" /\ files'[k] = [files[k] EXCEPT !.state = "dirty", !.stamp = s]
      BY <1>1
    <2> QED
      BY <2>1, <2>2 DEF RowFields
  <1>5. DocRows' = DocRows
    BY <1>4 DEF DocRows, RowAt
  <1>6. Overwrites /\ Vanishes /\ Drives'
    BY <1>2, StillMoves DEF Faithful
  <1>7. ASSUME NEW k \in DocRows PROVE (BaseAt(k))' /\ (RowsAt(k))'
    <2>1. k \in DOMAIN files /\ BaseAt(k) /\ RowsAt(k)
      BY DocRow2 DEF Faithful, Base, Rows
    <2>2. files'[k].cloud = None => files'[k].state # "cached"
      BY <1>2, <1>5 DEF Orderly, NewFilesWhole, Truncating
    <2>3. (BaseAt(k))'
      BY <1>2, <1>4, <2>1 DEF BaseAt
    <2>4. (RowsAt(k))'
      BY <1>2, <1>4, <2>1, <2>2 DEF RowsAt
    <2> QED
      BY <2>3, <2>4
  <1>8. Generations'
    BY <1>2, <1>3, <1>4, <1>5, DocRow2 DEF Faithful, Generations, LocalTomb, Big
  <1>9. Graves'
    BY <1>2 DEF Faithful, Graves, GraveAt, Cur
  <1>10. NoStrangers'
    <2>1. \A j : RowClaims(j) => (RowClaims(j))'
      BY <1>2, <1>4, <1>5, DocRow2 DEF RowClaims, Cur
    <2> QED
      BY <1>2, <1>4, <2>1, StrangersStay DEF Faithful, Owned
  <1>11. AllSafe'
    <2> SUFFICES ASSUME NEW w \in 1..writes.last PROVE (Safe(w))'
      BY <1>2 DEF AllSafe
    <2>1. Safe(w)
      BY DEF Faithful, AllSafe
    <2>2. CASE w \in discarded \/ \E i \in DOMAIN cloud : w \in Cur(i)
      BY <1>2, <2>2 DEF Safe, Cur
    <2>3. CASE \E j \in DocRows : files[j].state \in Protected /\ w \in disk[files[j].cache]
      BY <1>2, <1>4, <1>5, <2>3, DocRow2 DEF Safe, Protected
    <2>4. CASE fuse # None /\ w \in disk[fuse.c]
      BY <1>2, <2>4 DEF Safe, Working, Cut
    <2> QED
      BY <2>1, <2>2, <2>3, <2>4 DEF Safe
  <1> QED
    BY <1>2, <1>3, <1>5, <1>6, <1>7, <1>8, <1>9, <1>10, <1>11
    DEF Faithful, Base, Rows, Requests, Answered, Deletions, Listed

-----------------------------------------------------------------------------
(* Every step is faithful                                                  *)

LEMMA CloudStays ==
  ASSUME UNCHANGED cloud
  PROVE  Overwrites /\ Vanishes
  BY DEF Overwrites, Vanishes

LEMMA FuseFaithful ==
  ASSUME IInv, Shape, Shape', Orderly, Orderly', Working, Working', Faithful,
         Bound(files, files'), FuseNext
  PROVE  Faithful' /\ Overwrites /\ Vanishes
  <1>1. ASSUME NEW h, OpenOnline(h) PROVE Faithful' /\ Overwrites /\ Vanishes
    <2>1. UNCHANGED <<cloud, made, delta, del, writes>>
      BY <1>1 DEF OpenOnline, NoRequest, FuseOnly
    <2> QED
      BY <1>1, <2>1, OpenOnlineCases, DownloadsFaithful, OutrunFaithful
  <1>2. ASSUME NEW h \in Handles,
               OpenCached(h) \/ OpenOnline(h) \/ Create(h) \/ Write(h) \/ Release(h)
        PROVE  Faithful' /\ Overwrites /\ Vanishes
    BY <1>1, <1>2, QuietFaithful, CreateFaithful, WriteFaithful, ReleaseFaithful
  <1>3. ASSUME NEW h \in Handles \cup {None}, TruncateBytes(h)
        PROVE  Faithful' /\ Overwrites /\ Vanishes
    BY <1>3, TruncateCases, TruncatesFaithful
  <1>4. ASSUME OpenInvalid \/ TruncateMark \/ TruncateClaim \/ Unlink
        PROVE  Faithful' /\ Overwrites /\ Vanishes
    BY <1>4, OpenInvalidFaithful, TruncateMarkFaithful, TruncateClaimFaithful, UnlinkFaithful
  <1> QED
    BY <1>2, <1>3, <1>4 DEF FuseNext

LEMMA UploadFaithful ==
  ASSUME IInv, Shape, Shape', Orderly, Orderly', Working, Working', Faithful,
         Bound(files, files'), NEW k, UploadStep(k)
  PROVE  Faithful' /\ Overwrites /\ Vanishes
  <1>1. ASSUME Quits(k) PROVE Faithful' /\ Overwrites /\ Vanishes
    BY <1>1, QuitsFaithful, CloudStays DEF Quits, NoRequest
  <1>2. ASSUME PutFile(k) \/ PutCopy(k) PROVE Faithful' /\ Overwrites /\ Vanishes
    BY <1>1, <1>2, PutFileCases, PutCopyCases, PutsFaithful
  <1>3. ASSUME StartUpload(k) \/ ClaimUpload(k) \/ CommitFile(k) \/ FailUpload(k) \/ RefuseUpload(k)
        PROVE  Faithful' /\ Overwrites /\ Vanishes
    BY <1>3, StartUploadFaithful, ClaimUploadFaithful, CommitFileFaithful, FailUploadFaithful,
       RefuseUploadFaithful
  <1>4. ASSUME \/ ClaimCopy(k) \/ AskLatest(k) \/ PublishCopy(k)
               \/ DetachOriginal(k) \/ ImportLatest(k)
        PROVE  Faithful' /\ Overwrites /\ Vanishes
    BY <1>4, ClaimCopyFaithful, AskLatestFaithful, PublishCopyFaithful, DetachOriginalFaithful,
       ImportLatestFaithful
  <1> QED
    BY <1>2, <1>3, <1>4 DEF UploadStep

LEMMA DeletionFaithful ==
  ASSUME Shape, Shape', Orderly, Orderly', Working, Faithful, NEW d, DeleteStep(d)
  PROVE  Faithful' /\ Overwrites /\ Vanishes
  <1>1. ASSUME GivesUp(d) PROVE Faithful' /\ Overwrites /\ Vanishes
    BY <1>1, GivesUpFaithful, CloudStays DEF GivesUp, NoRequest
  <1>2. ASSUME Replay(d) \/ RemoveRemote(d) PROVE Faithful' /\ Overwrites /\ Vanishes
    BY <1>1, <1>2, ReplayCases, RemoveRemoteCases, ReplaysFaithful, RemovesFaithful
  <1>3. ASSUME DropCleanup(d) \/ StartDelete(d) \/ RetireDelete(d)
        PROVE  Faithful' /\ Overwrites /\ Vanishes
    BY <1>3, DropCleanupFaithful, StartDeleteFaithful, RetireDeleteFaithful
  <1> QED
    BY <1>2, <1>3 DEF DeleteStep

LEMMA RefreshFaithful ==
  ASSUME IInv, Shape, Shape', Orderly, Orderly', Working, Faithful, Bound(files, files'), DeltaStep
  PROVE  Faithful' /\ Overwrites /\ Vanishes
  BY ReadingFaithful, RemoveRowFaithful, ImportEntriesFaithful DEF DeltaStep

LEMMA StepFaithful ==
  ASSUME IInv, Shape, Shape', Orderly, Orderly', Working, Working', Faithful, [Next]_vars
  PROVE  Faithful' /\ Overwrites /\ Vanishes
  <1>1. CASE UNCHANGED vars
    BY <1>1, QuietFaithful
  <1>2. CASE Next
    <2>1. Bound(files, files')
      BY <1>2, NextBound
    <2> QED
      BY <1>2, <2>1, FuseFaithful, UploadFaithful, DeletionFaithful, RefreshFaithful,
         RemoteFaithful, CrashFaithful DEF Next
  <1> QED
    BY <1>1, <1>2

LEMMA StartFaithful ==
  ASSUME Init
  PROVE  Faithful
  <1>1. /\ tombs = Empty /\ fuse = None /\ task = Empty /\ del = Empty /\ delta = None
        /\ writes.last = 0 /\ DOMAIN Empty = {}
    BY DEF Init, Empty
  <1>2. \A k \in DOMAIN files :
          /\ files[k].path = Doc /\ files[k].state = "online" /\ files[k].cache = None
          /\ files[k].cloud = k /\ k # None /\ files[k].up = NoClaim
    <2>1. CloudId(1) # None
      BY NoneAssumption DEF CloudId
    <2> QED
      BY <1>1, <2>1 DEF Init, With, ImportedRow, Entry, CloudId
  <1>3. \A i \in DOMAIN cloud : cloud[i].path = Doc /\ i = CloudId(1) /\ i \in DOMAIN files
    BY <1>1 DEF Init, With
  <1>4. Base /\ Rows
    BY <1>2 DEF Base, BaseAt, Rows, RowsAt, NoClaim, Claim, DocRows, RowAt
  <1>5. Requests /\ Answered /\ Generations /\ Graves /\ Deletions /\ Listed
    BY <1>1 DEF Requests, Answered, Generations, Graves, Deletions, Listed, LocalTomb
  <1>6. Drives
    BY <1>3 DEF Drives
  <1>7. NoStrangers
    BY <1>2, <1>3 DEF NoStrangers, Owned, ItemsAt
  <1>8. AllSafe
    BY <1>1 DEF AllSafe
  <1> QED
    BY <1>4, <1>5, <1>6, <1>7, <1>8 DEF Faithful

\* In orderly behaviours, rows, runs and tombstones know of the bytes they stand for
\* what Faithful says: through conflicts, lost answers, replays and crashes.
THEOREM FaithfulInvariance == Spec /\ []Orderly => []Faithful
  <1>1. Init => Faithful
    BY StartFaithful
  <1>2. IInv /\ IInv' /\ Orderly /\ Orderly' /\ Working /\ Working' /\ Faithful /\ [Next]_vars
          => Faithful'
    BY Shaped, StepFaithful, ShapedNext
  <1> QED
    BY <1>1, <1>2, Invariance, WorkingInvariance, PTL DEF Spec

LEMMA Saved ==
  ASSUME IInv, Working, Faithful
  PROVE  SavedNotLost
  <1> SUFFICES ASSUME NEW w \in 1..writes.last, w \notin discarded PROVE w \in Reachable
    BY DEF SavedNotLost
  <1>1. Shape
    BY Shaped
  <1>2. Safe(w)
    BY DEF Faithful, AllSafe
  <1>3. CASE \E i \in DOMAIN cloud : w \in Cur(i)
    BY <1>3 DEF Reachable, Cur
  <1>4. CASE \E k \in DocRows : files[k].state \in Protected /\ w \in disk[files[k].cache]
    <2>1. PICK k \in DocRows : files[k].state \in Protected /\ w \in disk[files[k].cache]
      BY <1>4
    <2>2. k \in DOMAIN files /\ CacheExists(files[k])
      BY <1>1, <2>1, DocRow2 DEF Working, Held, CacheExists
    <2> QED
      BY <2>1, <2>2 DEF Reachable
  <1>5. CASE fuse # None /\ w \in disk[fuse.c]
    BY <1>5 DEF Reachable
  <1> QED
    BY <1>2, <1>3, <1>4, <1>5 DEF Safe

\* For any handles and scenarios without one of the nine races: no write that a
\* program or another client was told is saved is lost, whatever handlers, uploads,
\* conflict copies, refreshes, deletions, lost answers and crashes come between.
THEOREM SavedWritesSurvive == Spec /\ []Orderly => []SavedNotLost
  <1>1. IInv /\ Working /\ Faithful => SavedNotLost
    BY Saved
  <1> QED
    BY <1>1, Invariance, WorkingInvariance, FaithfulInvariance, PTL

\* For any handles and scenarios without one of the nine races: what upload_file puts
\* in an item, by If-Match or by path, was made from the content it replaces.
THEOREM OverwritesAreSeen == Spec /\ []Orderly => NoBlindOverwrite
  <1>1. IInv /\ IInv' /\ Orderly /\ Orderly' /\ Working /\ Working' /\ Faithful /\ [Next]_vars
          => [Overwrites]_vars
    BY Shaped, StepFaithful, ShapedNext
  <1>2. [Overwrites]_vars
          => [\A i \in DOMAIN cloud \cap DOMAIN cloud' :
                cloud[i].etag.data \subseteq cloud'[i].etag.data]_vars
    BY DEF Overwrites
  <1> QED
    BY <1>1, <1>2, Invariance, WorkingInvariance, FaithfulInvariance, PTL
       DEF Spec, NoBlindOverwrite

\* For any handles and scenarios without one of the nine races: an item that
\* delete_item removes, for a tombstone or a cleanup, has no content but what somebody
\* chose to delete.
THEOREM DeletionsTakeNoBystander == Spec /\ []Orderly => NoForeignDelete
  <1>1. IInv /\ IInv' /\ Orderly /\ Orderly' /\ Working /\ Working' /\ Faithful /\ [Next]_vars
          => [Vanishes]_vars
    BY Shaped, StepFaithful, ShapedNext
  <1>2. [Vanishes]_vars
          => [\A i \in DOMAIN cloud \ DOMAIN cloud' : cloud[i].etag.data \subseteq discarded']_vars
    BY DEF Vanishes
  <1> QED
    BY <1>1, <1>2, Invariance, WorkingInvariance, FaithfulInvariance, PTL
       DEF Spec, NoForeignDelete
=============================================================================
