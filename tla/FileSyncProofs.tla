--------------------------- MODULE FileSyncProofs ---------------------------
(***************************************************************************)
(* The tables of FileSync for any handles and scenarios: every register    *)
(* holds what the code puts there, no two rows have the same path or the   *)
(* same item, an item's upload and deletion runs exclude each other, and   *)
(* the bytes a run sends stay on disk until it ends.                       *)
(*                                                                         *)
(* The invariant speaks of a world g: how many identities and writes there *)
(* are, and the home of each identity, the path it is made at.  An item is *)
(* never moved here, so rows, entries and answers that speak of one item   *)
(* agree on its path.                                                      *)
(***************************************************************************)
EXTENDS FileSync, FiniteSetTheorems, WellFoundedInduction, TLAPS

AllIds == {"c", "l"} \X Nat
ItemsIn(g) == {CloudId(n) : n \in 1..g.made}
IdsIn(g) == ItemsIn(g) \cup {LocalIdentity(n) : n \in 1..g.made}
ContentsIn(g) == SUBSET (0..g.last)
EtagsIn(g) == {None} \cup [rev : Nat \ {0}, data : ContentsIn(g)]
PathsIn(g) == {Doc, None} \cup {CopyPath(data) : data \in ContentsIn(g)}
NamesIn(g) == {None} \cup (IdsIn(g) \X Nat)
ClaimsIn(g) == [path : PathsIn(g), target : ItemsIn(g) \cup {None}, cache : NamesIn(g)]

World(g) ==
  /\ g.made \in Nat /\ g.last \in Nat /\ DOMAIN g.home = AllIds
  /\ \A n \in Nat : g.home[LocalIdentity(n)] = Doc

RowFields == {"path", "state", "cache", "cloud", "etag", "stamp", "up", "gen"}
TombFields == {"local", "cloud", "path", "cache", "done", "up"}
TaskFields == {"pc", "r", "p", "res", "latest"}
HandleFields == {"k", "c", "base", "changed", "unlinked"}
FuseFields == {"at", "k", "c", "h", "base", "w"}
DeltaFields == {"pc", "since", "row", "gone", "entries"}
States == Protected \cup {"online", "cached"}

\* A cache file named after the identity.
Own(k, c) == c = None \/ c \in {k} \X Nat

\* An upload by path is of a file without an item.
Unbound(up, i) == up.path = Doc /\ up.target = None => i = None

IsEntry(e, g) ==
  /\ e.id \in ItemsIn(g) /\ e.path = g.home[e.id]
  /\ e.path \in PathsIn(g) \ {None} /\ e.etag \in EtagsIn(g) \ {None}

\* A row under the key k.  Only rows at the document's path have local bytes.
IsRow(k, r, g) ==
  /\ DOMAIN r = RowFields
  /\ r.path = g.home[k] /\ r.path \in PathsIn(g) \ {None}
  /\ r.state \in States /\ r.stamp \in {0, 1} /\ r.gen \in Nat
  /\ r.cache \in NamesIn(g) /\ r.etag \in EtagsIn(g) /\ r.up \in ClaimsIn(g)
  /\ r.cloud \in ItemsIn(g) \cup {None}
  /\ k \in ItemsIn(g) => r.cloud = k
  /\ r.cloud # None => g.home[r.cloud] = r.path
  /\ IF r.path = Doc
       THEN Own(k, r.cache) /\ Own(k, r.up.cache) /\ Unbound(r.up, r.cloud)
       ELSE r.state \notin Protected

Apart(fs) ==
  \A j, k \in DOMAIN fs :
    j # k => fs[j].path # fs[k].path /\ (fs[j].cloud = None \/ fs[j].cloud # fs[k].cloud)

Table(fs, g) ==
  /\ DOMAIN fs \subseteq IdsIn(g)
  /\ \A k \in DOMAIN fs : IsRow(k, fs[k], g)
  /\ Apart(fs)

\* A tombstone under the key d: of a deleted row, or the cleanup of an item.
IsTomb(d, x, g) ==
  /\ DOMAIN x = TombFields
  /\ x.local \in {None, d} /\ x.cloud \in ItemsIn(g) \cup {None}
  /\ x.path \in PathsIn(g) /\ x.done \in PathsIn(g)
  /\ x.cache \in NamesIn(g) /\ x.up \in ClaimsIn(g)
  /\ d \in ItemsIn(g) => x.cloud = d
  /\ IF x.local = None
       THEN d \in ItemsIn(g) /\ x.cache = None /\ x.up.cache = None /\ x.up.path = None
       ELSE g.home[d] = Doc /\ Own(d, x.cache) /\ Own(d, x.up.cache) /\ Unbound(x.up, x.cloud)

Tombs(ds, g) == DOMAIN ds \subseteq IdsIn(g) /\ \A d \in DOMAIN ds : IsTomb(d, ds[d], g)

Disk(dk, g) == DOMAIN dk \subseteq IdsIn(g) \X Nat /\ \A c \in DOMAIN dk : dk[c] \in ContentsIn(g)

Drive(cl, g) ==
  /\ DOMAIN cl \subseteq ItemsIn(g)
  /\ \A i \in DOMAIN cl :
       /\ cl[i] \in [path : PathsIn(g) \ {None}, etag : EtagsIn(g) \ {None}]
       /\ cl[i].path = g.home[i]

Before == {"claim", "put", "refused", "failed", "commit"}
Copying == {"copy", "copied", "publish", "detach"}

\* An upload run under the key k: r is the row it read, p where it sends the bytes.
IsTask(k, t, g) ==
  /\ DOMAIN t = TaskFields
  /\ t.pc \in Before \cup Copying \cup {"claimcopy", "import"}
  /\ IsRow(k, t.r, g) /\ t.r.path = Doc /\ t.r.cache # None
  /\ t.pc \in Before => t.p = Doc
  /\ t.pc \in Copying => t.p \in PathsIn(g) \ {Doc, None}
  /\ t.pc = "commit" =>
       IsEntry(t.res, g) /\ t.res.path = Doc /\ (t.r.cloud # None => t.res.id = t.r.cloud)
  /\ t.pc \in Copying \ {"copy"} => IsEntry(t.res, g) /\ t.res.path # Doc
  /\ t.pc = "publish" => t.latest = None \/ IsEntry(t.latest, g)
  /\ t.pc \in {"detach", "import"} => IsEntry(t.latest, g)

Tasks(ts, dk, g) ==
  /\ DOMAIN ts \subseteq IdsIn(g)
  /\ \A k \in DOMAIN ts : IsTask(k, ts[k], g) /\ ts[k].r.cache \in DOMAIN dk

\* A run finds its row bound as it read it, and so does the tombstone of the row;
\* a row of the document is not waiting for its deletion.
Linked(fs, ds, ts, g) ==
  /\ \A k \in DOMAIN fs \cap DOMAIN ds : g.home[k] # Doc
  /\ \A k \in DOMAIN fs \cap DOMAIN ts : fs[k].cloud = ts[k].r.cloud
  /\ \A k \in DOMAIN ds \cap DOMAIN ts : ds[k].local = k => ds[k].cloud = ts[k].r.cloud

\* Deletion runs, each under the lock of its own key.
Dels(xs, ds, ts, dk) ==
  /\ DOMAIN xs \subseteq DOMAIN ds
  /\ \A d \in DOMAIN xs :
       /\ d \notin DOMAIN ts
       /\ DOMAIN xs[d] = {"pc", "lock"} /\ xs[d].lock = d
       /\ xs[d].pc = "replay" =>
            ds[d].up.path # None /\ ds[d].up.target = None /\ ds[d].up.cache \in DOMAIN dk

Opens(hs, g) ==
  /\ DOMAIN hs \subseteq Handles
  /\ \A h \in DOMAIN hs :
       DOMAIN hs[h] = HandleFields /\ hs[h].k \in IdsIn(g) /\ g.home[hs[h].k] = Doc

Handler(f, g) ==
  f # None =>
    /\ DOMAIN f = FuseFields /\ f.k \in IdsIn(g) /\ g.home[f.k] = Doc
    /\ f.c \in {f.k} \X Nat /\ f.h \in Handles \cup {None} /\ f.w \in 1..g.last

Feed(d, us, g) ==
  /\ us \subseteq ItemsIn(g)
  /\ d # None =>
       /\ DOMAIN d = DeltaFields
       /\ d.since \subseteq ItemsIn(g)
       /\ IsFiniteSet(d.entries) /\ \A e \in d.entries : IsEntry(e, g)

Rest(bg, gone, g) == bg \in [Kinds -> Nat] /\ gone \in ContentsIn(g)

\* What the runs, the handlers and the refresh share.
Core(fs, ds, ts, xs, dk, g) ==
  /\ Table(fs, g) /\ Tombs(ds, g) /\ Disk(dk, g)
  /\ Tasks(ts, dk, g) /\ Linked(fs, ds, ts, g) /\ Dels(xs, ds, ts, dk)

Good(g) ==
  /\ Core(files, tombs, task, del, disk, g)
  /\ Drive(cloud, g) /\ Feed(delta, unseen, g)
  /\ Opens(handles, g) /\ Handler(fuse, g) /\ Rest(budget, discarded, g)

\* g is the world of the current state.
Now(g) == World(g) /\ g.made = made /\ g.last = writes.last /\ Good(g)

Known == \E g : Now(g)

IInv == Known /\ DOMAIN writes = {"last", "theirs"}

-----------------------------------------------------------------------------
(* Identities, paths and NULL                                              *)

LEMMA Identities ==
  ASSUME NEW g, World(g)
  PROVE  /\ ItemsIn(g) \subseteq IdsIn(g) /\ IdsIn(g) \subseteq AllIds
         /\ None \notin IdsIn(g)
         /\ \A k \in IdsIn(g) \ ItemsIn(g) : g.home[k] = Doc
  <1>1. ItemsIn(g) \subseteq AllIds /\ {LocalIdentity(n) : n \in 1..g.made} \subseteq AllIds
    BY DEF World, ItemsIn, AllIds, CloudId, LocalIdentity
  <1>2. None \notin AllIds
    BY NoneAssumption DEF AllIds
  <1>3. \A n \in 1..g.made : g.home[LocalIdentity(n)] = Doc
    BY DEF World
  <1> QED
    BY <1>1, <1>2, <1>3 DEF IdsIn

LEMMA NextIdentity ==
  ASSUME NEW g, World(g), NEW m \in Nat, m > g.made
  PROVE  CloudId(m) \notin IdsIn(g) /\ LocalIdentity(m) \notin IdsIn(g)
  BY DEF World, IdsIn, ItemsIn, CloudId, LocalIdentity

LEMMA Copies ==
  ASSUME NEW g, World(g), NEW data \in ContentsIn(g)
  PROVE  CopyPath(data) \in PathsIn(g) \ {Doc, None}
  <1>1. CopyPath(data) # Doc
    BY DEF CopyPath, Doc
  <1>2. data \in SUBSET Nat
    BY DEF ContentsIn, World
  <1>3. CopyPath(data) # None
    <2>1. CopyPath(data) \in {"doc", "copy"} \X SUBSET Nat
      BY <1>2 DEF CopyPath
    <2> QED
      BY <2>1, NoneAssumption
  <1> QED
    BY <1>1, <1>3 DEF PathsIn

LEMMA Defined ==
  ASSUME NEW g, World(g)
  PROVE  /\ Doc \in PathsIn(g) \ {None}
         /\ None \in PathsIn(g) /\ None \in NamesIn(g) /\ None \in EtagsIn(g)
         /\ None \notin IdsIn(g) \X Nat
         /\ NoClaim \in ClaimsIn(g) /\ NoClaim.path = None /\ NoClaim.cache = None
         /\ \A n \in Nat \ {0}, data \in ContentsIn(g) : Etag(n, data) \in EtagsIn(g) \ {None}
  <1>1. Doc # None
    BY NoneAssumption DEF Doc
  <1>2. None \notin IdsIn(g) \X Nat
    BY Identities, NoneAssumption DEF AllIds
  <1>3. ASSUME NEW n \in Nat \ {0}, NEW data \in ContentsIn(g)
        PROVE  Etag(n, data) \in EtagsIn(g) \ {None}
    <2>1. data \in SUBSET Nat
      BY DEF ContentsIn, World
    <2>2. Etag(n, data) \in [rev : Nat, data : SUBSET Nat]
      BY <2>1 DEF Etag
    <2> QED
      BY <2>2, NoneAssumption DEF EtagsIn, Etag
  <1> QED
    BY <1>1, <1>2, <1>3 DEF PathsIn, NamesIn, EtagsIn, ClaimsIn, NoClaim, Claim

-----------------------------------------------------------------------------
(* The import of a page                                                    *)

\* One round of the import, f being the tables of fewer entries.
Round(f, s, fs, ds) ==
  IF s = {} THEN fs ELSE LET e == CHOOSE x \in s : TRUE IN Upsert(f[s \ {e}], ds, e)

IsFold(f, S, fs, ds) == f = [s \in SUBSET S |-> Round(f, s, fs, ds)]

LEMMA Unfold ==
  ASSUME NEW S
  PROVE  Imported(S) = (CHOOSE f : IsFold(f, S, files, tombs))[S]
  BY DEF Imported, IsFold, Round

\* Induction over the naturals, for a set.
LEMMA Least ==
  ASSUME NEW T, T \subseteq Nat, T # {}
  PROVE  \E n \in T : \A m \in T : n <= m
  <1>1. PICK n \in T : \A m \in T : ~(<<m, n>> \in OpToRel(<, Nat))
    BY NatLessThanWellFounded, WFMin
  <1>2. ASSUME NEW m \in T PROVE n <= m
    <2>1. ~(<<m, n>> \in OpToRel(<, Nat))
      BY <1>1
    <2>2. m \in Nat /\ n \in Nat
      OBVIOUS
    <2>3. ~(m < n)
      BY <2>1, <2>2 DEF OpToRel
    <2> QED
      BY <2>2, <2>3
  <1> QED
    BY <1>2

\* The table of a page is defined: the tables of ever larger sets of entries are.
LEMMA FoldExists ==
  ASSUME NEW S, IsFiniteSet(S), NEW fs, NEW ds
  PROVE  \E f : IsFold(f, S, fs, ds)
  <1> DEFINE Upto(f, n) == \A s \in SUBSET S : Cardinality(s) <= n => f[s] = Round(f, s, fs, ds)
             Bad == {n \in Nat : ~ \E f : Upto(f, n)}
  <1>s. \A s \in SUBSET S : /\ IsFiniteSet(s) /\ Cardinality(s) \in Nat
                            /\ Cardinality(s) <= Cardinality(S)
    BY FS_Subset, FS_CardinalityType
  <1>1. ASSUME Bad # {} PROVE FALSE
    <2>1. PICK n \in Bad : \A m \in Bad : n <= m
      BY <1>1, Least
    <2>2. CASE n = 0
      <3> DEFINE f == [s \in SUBSET S |-> fs]
      <3>1. ASSUME NEW s \in SUBSET S, Cardinality(s) <= 0 PROVE f[s] = Round(f, s, fs, ds)
        <4>1. s = {}
          BY <1>s, <3>1, FS_EmptySet
        <4> QED
          BY <4>1 DEF Round
      <3>2. Upto(f, n)
        BY <2>2, <3>1
      <3> QED
        BY <2>1, <3>2
    <2>3. CASE n # 0
      <3>1. n - 1 \in Nat /\ n - 1 \notin Bad
        BY <2>1, <2>3
      <3>2. PICK f : Upto(f, n - 1)
        BY <3>1
      <3> DEFINE h == [s \in SUBSET S |-> Round(f, s, fs, ds)]
      <3>3. ASSUME NEW s \in SUBSET S, Cardinality(s) <= n PROVE h[s] = Round(h, s, fs, ds)
        <4>1. CASE s = {}
          BY <4>1 DEF Round
        <4>2. CASE s # {}
          <5> DEFINE e == CHOOSE x \in s : TRUE
          <5>1. e \in s
            BY <4>2
          <5> HIDE DEF e
          <5>2. s \ {e} \in SUBSET S /\ Cardinality(s \ {e}) = Cardinality(s) - 1
            BY <1>s, <5>1, FS_RemoveElement
          <5>3. Cardinality(s \ {e}) <= n - 1
            BY <1>s, <2>1, <3>3, <5>2
          <5>4. f[s \ {e}] = Round(f, s \ {e}, fs, ds)
            BY <3>2, <5>2, <5>3
          <5>5. h[s \ {e}] = f[s \ {e}]
            BY <5>2, <5>4
          <5>6. h[s] = Round(f, s, fs, ds)
            OBVIOUS
          <5> HIDE DEF h
          <5> QED
            BY <4>2, <5>5, <5>6 DEF Round, e
        <4> QED
          BY <4>1, <4>2
      <3> HIDE DEF h
      <3>4. Upto(h, n)
        BY <3>3
      <3> QED
        BY <2>1, <3>4
    <2> QED
      BY <2>2, <2>3
  <1>2. PICK f : Upto(f, Cardinality(S))
    BY <1>1, FS_CardinalityType
  <1> DEFINE h == [s \in SUBSET S |-> f[s]]
  <1>3. ASSUME NEW s \in SUBSET S PROVE f[s] = Round(h, s, fs, ds)
    <2>1. f[s] = Round(f, s, fs, ds)
      BY <1>2, <1>s
    <2>2. ASSUME s # {} PROVE Round(h, s, fs, ds) = Round(f, s, fs, ds)
      <3> DEFINE e == CHOOSE x \in s : TRUE
      <3>1. h[s \ {e}] = f[s \ {e}]
        OBVIOUS
      <3> HIDE DEF h
      <3> QED
        BY <2>2, <3>1 DEF Round
    <2>3. ASSUME s = {} PROVE Round(h, s, fs, ds) = Round(f, s, fs, ds)
      BY <2>3 DEF Round
    <2> QED
      BY <2>1, <2>2, <2>3
  <1>4. h = [s \in SUBSET S |-> Round(h, s, fs, ds)]
    BY <1>3
  <1> QED
    BY <1>4 DEF IsFold

-----------------------------------------------------------------------------
(* Statements that change the table of rows                                *)

\* The rows that stay keep their item; a new one is alone at its path, and owns
\* its own item if any.
Follows(fs, gs, ds, ts) ==
  /\ \A k \in DOMAIN gs \cap DOMAIN fs : gs[k].cloud = fs[k].cloud
  /\ \A j \in DOMAIN gs \ DOMAIN fs :
       /\ \A k \in DOMAIN gs \ {j} : gs[k].path # gs[j].path
       /\ j \in DOMAIN ds => gs[j].path # Doc
       /\ gs[j].cloud = None => j \notin DOMAIN ts
       /\ gs[j].cloud # None => gs[j].cloud = j /\ Owners(fs, j) = {}

LEMMA FollowsTable ==
  ASSUME NEW g, NEW fs, NEW gs, NEW ds, NEW ts, World(g), Table(fs, g), Follows(fs, gs, ds, ts),
         DOMAIN gs \subseteq IdsIn(g), \A k \in DOMAIN gs : IsRow(k, gs[k], g)
  PROVE  Table(gs, g)
  <1>1. ASSUME NEW j \in DOMAIN gs, NEW k \in DOMAIN gs, j # k
        PROVE  gs[j].path # gs[k].path /\ (gs[j].cloud = None \/ gs[j].cloud # gs[k].cloud)
    <2>1. CASE j \in DOMAIN fs /\ k \in DOMAIN fs
      <3>1. gs[j].path = fs[j].path /\ gs[k].path = fs[k].path
        BY <2>1 DEF Table, IsRow
      <3>2. fs[j].path # fs[k].path /\ (fs[j].cloud = None \/ fs[j].cloud # fs[k].cloud)
        BY <1>1, <2>1 DEF Table, Apart
      <3> QED
        BY <2>1, <3>1, <3>2 DEF Follows
    <2>2. CASE j \notin DOMAIN fs
      <3>n. j \in DOMAIN gs \ DOMAIN fs /\ k \in DOMAIN gs \ {j}
        BY <1>1, <2>2
      <3>p. gs[k].path # gs[j].path
        BY <3>n DEF Follows
      <3>o. gs[j].cloud # None => gs[j].cloud = j /\ Owners(fs, j) = {}
        BY <3>n DEF Follows
      <3>1. /\ gs[k].path # gs[j].path
            /\ gs[j].cloud = None \/ (gs[j].cloud = j /\ Owners(fs, j) = {})
        BY <3>p, <3>o
      <3>2. CASE k \in DOMAIN fs
        <4>1. gs[k].cloud = fs[k].cloud /\ (fs[k].cloud = j => Owners(fs, j) # {})
          BY <3>2 DEF Follows, Owners
        <4> QED
          BY <3>1, <4>1
      <3>3. CASE k \notin DOMAIN fs
        <4>1. gs[k].cloud = None \/ gs[k].cloud = k
          BY <3>3 DEF Follows
        <4> QED
          BY <1>1, <3>1, <4>1
      <3> QED
        BY <3>2, <3>3
    <2>3. CASE j \in DOMAIN fs /\ k \notin DOMAIN fs
      <3>n. k \in DOMAIN gs \ DOMAIN fs /\ j \in DOMAIN gs \ {k}
        BY <1>1, <2>3
      <3>p. gs[k].path # gs[j].path
        BY <3>n DEF Follows
      <3>o. gs[k].cloud # None => gs[k].cloud = k /\ Owners(fs, k) = {}
        BY <3>n DEF Follows
      <3>1. /\ gs[k].path # gs[j].path
            /\ gs[k].cloud = None \/ (gs[k].cloud = k /\ Owners(fs, k) = {})
        BY <3>p, <3>o
      <3>2. gs[j].cloud = fs[j].cloud /\ (fs[j].cloud = k => Owners(fs, k) # {})
        BY <2>3 DEF Follows, Owners
      <3> QED
        BY <3>1, <3>2
    <2> QED
      BY <2>1, <2>2, <2>3
  <1> QED
    BY <1>1 DEF Table, Apart

LEMMA FollowsLinked ==
  ASSUME NEW g, NEW fs, NEW gs, NEW ds, NEW ts, NEW dk, World(g), Table(fs, g), Tasks(ts, dk, g),
         Linked(fs, ds, ts, g), Follows(fs, gs, ds, ts),
         DOMAIN gs \subseteq IdsIn(g), \A k \in DOMAIN gs : IsRow(k, gs[k], g)
  PROVE  Linked(gs, ds, ts, g)
  <1>1. ASSUME NEW k \in DOMAIN gs \cap DOMAIN ds PROVE g.home[k] # Doc
    <2>1. CASE k \in DOMAIN fs
      BY <2>1 DEF Linked
    <2>2. CASE k \notin DOMAIN fs
      BY <2>2 DEF Follows, IsRow
    <2> QED
      BY <2>1, <2>2
  <1>2. ASSUME NEW k \in DOMAIN gs \cap DOMAIN ts
        PROVE  gs[k].cloud = ts[k].r.cloud
    <2> DEFINE t == ts[k]
    <2>1. IsTask(k, t, g) /\ IsRow(k, t.r, g)
      BY DEF Tasks, IsTask
    <2>2. CASE k \notin DOMAIN fs
      <3>1. gs[k].cloud = k /\ gs[k].cloud # None
        BY <2>2 DEF Follows
      <3>2. k \in ItemsIn(g)
        BY <3>1 DEF IsRow
      <3>3. t.r.cloud = k
        BY <2>1, <3>2 DEF IsRow
      <3> QED
        BY <3>1, <3>3
    <2>3. CASE k \in DOMAIN fs
      BY <2>3 DEF Follows, Linked
    <2> QED
      BY <2>2, <2>3
  <1> QED
    BY <1>1, <1>2 DEF Linked

\* An import is one such statement.
LEMMA UpsertFollows ==
  ASSUME NEW g, NEW fs, NEW ds, NEW ts, NEW e, World(g), Table(fs, g), IsEntry(e, g)
  PROVE  /\ Follows(fs, Upsert(fs, ds, e), ds, ts)
         /\ DOMAIN Upsert(fs, ds, e) \subseteq DOMAIN fs \cup {e.id}
         /\ \A k \in DOMAIN Upsert(fs, ds, e) : IsRow(k, Upsert(fs, ds, e)[k], g)
  <1> DEFINE gs == Upsert(fs, ds, e)
             k == LocalId(fs, e)
             rest == [o \in DOMAIN fs \ (RowAt(fs, e.path) \ {k}) |-> fs[o]]
             new == [fs[k] EXCEPT !.path = e.path, !.etag = e.etag, !.cloud = e.id,
                                  !.cache = None, !.state = "online", !.gen = @ + 1]
             old == [fs[k] EXCEPT !.path = e.path, !.etag = e.etag, !.cloud = e.id]
  <1>e. e.id \in ItemsIn(g) /\ e.id # None /\ e.id \in IdsIn(g)
    BY Identities DEF IsEntry
  <1>r. /\ DOMAIN rest \subseteq DOMAIN fs
        /\ \A o \in DOMAIN rest : rest[o] = fs[o] /\ (o = k \/ fs[o].path # e.path)
    BY DEF RowAt
  <1>1. CASE Skipped(fs, ds, e)
    <2>1. gs = fs
      BY <1>1 DEF Upsert
    <2> QED
      BY <2>1 DEF Follows, Table
  <1>2. CASE ~Skipped(fs, ds, e) /\ Owners(fs, e.id) = {}
    <2>1. k = e.id /\ k \notin DOMAIN fs
      <3>1. k = e.id
        BY <1>2 DEF LocalId
      <3>2. ASSUME k \in DOMAIN fs PROVE FALSE
        <4>1. fs[k].cloud = k
          BY <1>e, <3>1, <3>2 DEF Table, IsRow
        <4> QED
          BY <1>2, <3>1, <3>2, <4>1 DEF Owners
      <3> QED
        BY <3>1, <3>2
    <2>2. gs = With(rest, k, ImportedRow(e))
      BY <1>2, <2>1 DEF Upsert
    <2>3. k \notin DOMAIN ds
      BY <1>2, <2>1 DEF Skipped, IsPendingDelete
    <2> HIDE DEF gs, k, rest
    <2>4. /\ DOMAIN gs = DOMAIN rest \cup {e.id} /\ gs[e.id] = ImportedRow(e)
          /\ \A o \in DOMAIN gs \ {e.id} : o \in DOMAIN rest /\ gs[o] = fs[o]
      BY <1>r, <2>1, <2>2 DEF With
    <2>5. IsRow(e.id, ImportedRow(e), g)
      BY <1>e, Defined DEF IsEntry, IsRow, ImportedRow, RowFields, Own, Unbound, States, Protected
    <2>6. \A o \in DOMAIN gs : IsRow(o, gs[o], g)
      BY <1>r, <2>4, <2>5 DEF Table
    <2>7. ImportedRow(e).cloud = e.id /\ ImportedRow(e).path = e.path
      BY DEF ImportedRow
    <2>8. Follows(fs, gs, ds, ts)
      <3>1. \A o \in DOMAIN gs \cap DOMAIN fs : gs[o].cloud = fs[o].cloud
        BY <2>1, <2>4
      <3>2. \A o \in DOMAIN gs \ {e.id} : gs[o].path # e.path
        BY <1>r, <2>1, <2>4
      <3>3. DOMAIN gs \ DOMAIN fs = {e.id}
        BY <1>r, <2>1, <2>4
      <3> QED
        BY <1>e, <1>2, <2>1, <2>3, <2>4, <2>7, <3>1, <3>2, <3>3 DEF Follows
    <2> QED
      BY <1>r, <2>4, <2>6, <2>8 DEF gs
  <1>3. CASE ~Skipped(fs, ds, e) /\ Owners(fs, e.id) # {}
    <2>1. k \in DOMAIN fs /\ fs[k].cloud = e.id
      <3>1. k \in Owners(fs, e.id)
        BY <1>3 DEF LocalId
      <3> QED
        BY <3>1 DEF Owners
    <2>2. gs = With(rest, k, IF fs[k].etag = e.etag THEN old ELSE new)
      BY <1>3, <2>1 DEF Upsert
    <2>3. IsRow(k, fs[k], g) /\ fs[k].path = e.path
      BY <1>e, <2>1 DEF Table, IsRow, IsEntry
    <2> HIDE DEF gs, k, rest
    <2>4. fs[k].etag = e.etag => IsRow(k, old, g) /\ old.cloud = e.id
      <3>1. /\ DOMAIN old = RowFields
            /\ old.path = e.path /\ old.etag = e.etag /\ old.cloud = e.id
            /\ old.state = fs[k].state /\ old.stamp = fs[k].stamp /\ old.gen = fs[k].gen
            /\ old.cache = fs[k].cache /\ old.up = fs[k].up
        BY <2>3 DEF IsRow, RowFields
      <3> HIDE DEF old
      <3> QED
        BY <2>1, <2>3, <3>1 DEF IsRow
    <2>5. IsRow(k, new, g) /\ new.cloud = e.id
      <3>1. /\ DOMAIN new = RowFields
            /\ new.path = e.path /\ new.etag = e.etag /\ new.cloud = e.id
            /\ new.state = "online" /\ new.stamp = fs[k].stamp /\ new.gen = fs[k].gen + 1
            /\ new.cache = None /\ new.up = fs[k].up
        BY <2>3 DEF IsRow, RowFields
      <3>2. e.etag \in EtagsIn(g) /\ fs[k].gen + 1 \in Nat /\ None \in NamesIn(g)
        BY <2>3, Defined DEF IsRow, IsEntry
      <3> HIDE DEF new
      <3> QED
        BY <2>1, <2>3, <3>1, <3>2 DEF IsRow, States, Protected, Own
    <2> HIDE DEF old, new
    <2>6. /\ DOMAIN gs \subseteq DOMAIN fs /\ IsRow(k, gs[k], g) /\ gs[k].cloud = fs[k].cloud
          /\ \A o \in DOMAIN gs \ {k} : gs[o] = fs[o]
      BY <1>r, <2>1, <2>2, <2>4, <2>5 DEF With
    <2> QED
      BY <2>6 DEF Follows, Table, gs
  <1> QED
    BY <1>1, <1>2, <1>3

LEMMA UpsertKeeps ==
  ASSUME NEW g, NEW fs, NEW ds, NEW ts, NEW dk, NEW e, World(g), Table(fs, g), IsEntry(e, g),
         Tasks(ts, dk, g), Linked(fs, ds, ts, g)
  PROVE  Table(Upsert(fs, ds, e), g) /\ Linked(Upsert(fs, ds, e), ds, ts, g)
  <1> DEFINE gs == Upsert(fs, ds, e)
  <1>1. Follows(fs, gs, ds, ts) /\ \A k \in DOMAIN gs : IsRow(k, gs[k], g)
    BY UpsertFollows
  <1>d. DOMAIN gs \subseteq DOMAIN fs \cup {e.id}
    BY UpsertFollows
  <1> HIDE DEF gs
  <1>2. DOMAIN gs \subseteq IdsIn(g)
    BY <1>d, Identities DEF Table, IsEntry
  <1>3. Table(gs, g)
    BY <1>1, <1>2, FollowsTable
  <1>4. Linked(gs, ds, ts, g)
    BY <1>1, <1>2, FollowsLinked
  <1> QED
    BY <1>3, <1>4 DEF gs

\* The rows of local identities have their item from the table files.
Rebinds(fs, g) ==
  \A k \in DOMAIN fs : k \in ItemsIn(g) \/ (k \in DOMAIN files /\ fs[k].cloud = files[k].cloud)

\* So is the import of a page, by induction over its entries.
LEMMA ImportedKeeps ==
  ASSUME NEW g, NEW S, World(g), IsFiniteSet(S), \A e \in S : IsEntry(e, g), Table(files, g),
         Tasks(task, disk, g), Linked(files, tombs, task, g)
  PROVE  Table(Imported(S), g) /\ Linked(Imported(S), tombs, task, g) /\ Rebinds(Imported(S), g)
  <1> DEFINE J(fs) == Table(fs, g) /\ Linked(fs, tombs, task, g) /\ Rebinds(fs, g)
             f == CHOOSE f : IsFold(f, S, files, tombs)
             Bad == {n \in Nat : \E s \in SUBSET S : Cardinality(s) = n /\ ~J(f[s])}
  <1>1. IsFold(f, S, files, tombs)
    BY FoldExists
  <1>2. \A s \in SUBSET S : f[s] = Round(f, s, files, tombs)
    BY <1>1 DEF IsFold
  <1> HIDE DEF f
  <1>3. ASSUME NEW fs, NEW e \in S, J(fs) PROVE J(Upsert(fs, tombs, e))
    <2> DEFINE gs == Upsert(fs, tombs, e)
    <2>1. Table(gs, g) /\ Linked(gs, tombs, task, g)
      BY <1>3, UpsertKeeps
    <2>2. /\ Follows(fs, gs, tombs, task) /\ DOMAIN gs \subseteq DOMAIN fs \cup {e.id}
          /\ e.id \in ItemsIn(g)
      BY <1>3, UpsertFollows DEF IsEntry
    <2> HIDE DEF gs
    <2>3. Rebinds(gs, g)
      BY <1>3, <2>2 DEF Rebinds, Follows
    <2> QED
      BY <2>1, <2>3 DEF gs
  <1>4. J(files)
    BY DEF Rebinds
  <1> HIDE DEF J
  <1>5. ASSUME Bad # {} PROVE FALSE
    <2>1. PICK n \in Bad : \A m \in Bad : n <= m
      BY <1>5, Least
    <2>2. PICK s \in SUBSET S : Cardinality(s) = n /\ ~J(f[s])
      BY <2>1
    <2>3. s # {}
      BY <1>2, <1>4, <2>2 DEF Round
    <2> DEFINE e == CHOOSE x \in s : TRUE
    <2>4. e \in s /\ e \in S
      BY <2>3
    <2>5. f[s] = Upsert(f[s \ {e}], tombs, e)
      BY <1>2, <2>3 DEF Round
    <2> HIDE DEF e
    <2>6. s \ {e} \in SUBSET S /\ Cardinality(s \ {e}) = n - 1 /\ n - 1 \in Nat /\ n \in Nat
      <3>1. IsFiniteSet(s) /\ IsFiniteSet(s \ {e})
        BY FS_Subset, FS_RemoveElement
      <3>2. Cardinality(s \ {e}) = n - 1
        BY <2>2, <2>4, <3>1, FS_RemoveElement
      <3>3. n \in Nat /\ Cardinality(s \ {e}) \in Nat
        BY <2>2, <3>1, FS_CardinalityType
      <3> QED
        BY <3>2, <3>3
    <2>7. J(f[s \ {e}])
      <3>1. n - 1 \notin Bad
        BY <2>1, <2>6
      <3> QED
        BY <2>6, <3>1
    <2> QED
      BY <1>3, <2>2, <2>4, <2>5, <2>7
  <1>6. J(f[S])
    <2>1. Cardinality(S) \in Nat
      BY FS_CardinalityType
    <2> QED
      BY <1>5, <2>1
  <1> QED
    BY <1>6, Unfold DEF J, f

-----------------------------------------------------------------------------
(* More identities and writes                                              *)

Grows(g, h) ==
  /\ World(g) /\ World(h) /\ g.made <= h.made /\ g.last <= h.last
  /\ \A k \in IdsIn(g) : h.home[k] = g.home[k]

LEMMA Larger ==
  ASSUME NEW g, NEW h, Grows(g, h)
  PROVE  /\ ItemsIn(g) \subseteq ItemsIn(h) /\ IdsIn(g) \subseteq IdsIn(h)
         /\ \A k \in IdsIn(g) : k \in ItemsIn(h) => k \in ItemsIn(g)
         /\ ContentsIn(g) \subseteq ContentsIn(h) /\ EtagsIn(g) \subseteq EtagsIn(h)
         /\ PathsIn(g) \subseteq PathsIn(h) /\ NamesIn(g) \subseteq NamesIn(h)
         /\ ClaimsIn(g) \subseteq ClaimsIn(h)
  <1>n. g.made \in Nat /\ h.made \in Nat /\ g.last \in Nat /\ h.last \in Nat
        /\ g.made <= h.made /\ g.last <= h.last
    BY DEF Grows, World
  <1>1. 1..g.made \subseteq 1..h.made /\ 0..g.last \subseteq 0..h.last
    BY <1>n
  <1>2. ItemsIn(g) \subseteq ItemsIn(h) /\ IdsIn(g) \subseteq IdsIn(h)
    BY <1>1 DEF ItemsIn, IdsIn
  <1>3. ASSUME NEW k \in IdsIn(g), k \in ItemsIn(h) PROVE k \in ItemsIn(g)
    BY <1>3 DEF IdsIn, ItemsIn, CloudId, LocalIdentity
  <1>4. ContentsIn(g) \subseteq ContentsIn(h)
    BY <1>1 DEF ContentsIn
  <1>5. EtagsIn(g) \subseteq EtagsIn(h) /\ PathsIn(g) \subseteq PathsIn(h)
    BY <1>4 DEF EtagsIn, PathsIn
  <1>6. NamesIn(g) \subseteq NamesIn(h)
    BY <1>2 DEF NamesIn
  <1>7. ClaimsIn(g) \subseteq ClaimsIn(h)
    BY <1>2, <1>5, <1>6 DEF ClaimsIn
  <1> QED
    BY <1>2, <1>3, <1>4, <1>5, <1>6, <1>7

LEMMA GrowsEntry ==
  ASSUME NEW g, NEW h, Grows(g, h), NEW e, IsEntry(e, g)
  PROVE  IsEntry(e, h)
  <1>1. h.home[e.id] = g.home[e.id]
    BY Identities DEF Grows, IsEntry
  <1> QED
    BY <1>1, Larger DEF IsEntry

LEMMA GrowsRow ==
  ASSUME NEW g, NEW h, Grows(g, h), NEW k \in IdsIn(g), NEW r, IsRow(k, r, g)
  PROVE  IsRow(k, r, h)
  <1>1. h.home[k] = g.home[k] /\ (r.cloud # None => h.home[r.cloud] = g.home[r.cloud])
    BY Identities DEF Grows, IsRow
  <1>2. k \in ItemsIn(h) => k \in ItemsIn(g)
    BY Larger
  <1>3. /\ r.path \in PathsIn(h) \ {None} /\ r.cache \in NamesIn(h) /\ r.etag \in EtagsIn(h)
        /\ r.up \in ClaimsIn(h) /\ r.cloud \in ItemsIn(h) \cup {None}
    BY Larger DEF IsRow
  <1> QED
    BY <1>1, <1>2, <1>3 DEF IsRow

LEMMA GrowsTomb ==
  ASSUME NEW g, NEW h, Grows(g, h), NEW d \in IdsIn(g), NEW x, IsTomb(d, x, g)
  PROVE  IsTomb(d, x, h)
  <1>1. h.home[d] = g.home[d]
    BY DEF Grows
  <1>2. (d \in ItemsIn(h) => d \in ItemsIn(g)) /\ (d \in ItemsIn(g) => d \in ItemsIn(h))
    BY Larger
  <1>3. /\ x.path \in PathsIn(h) /\ x.done \in PathsIn(h) /\ x.cache \in NamesIn(h)
        /\ x.up \in ClaimsIn(h) /\ x.cloud \in ItemsIn(h) \cup {None}
    BY Larger DEF IsTomb
  <1> QED
    BY <1>1, <1>2, <1>3 DEF IsTomb

LEMMA GrowsTask ==
  ASSUME NEW g, NEW h, Grows(g, h), NEW k \in IdsIn(g), NEW t, IsTask(k, t, g)
  PROVE  IsTask(k, t, h)
  <1>1. IsRow(k, t.r, h)
    BY GrowsRow DEF IsTask
  <1>2. /\ IsEntry(t.res, g) => IsEntry(t.res, h)
        /\ IsEntry(t.latest, g) => IsEntry(t.latest, h)
    BY GrowsEntry
  <1>3. t.p \in PathsIn(g) \ {Doc, None} => t.p \in PathsIn(h) \ {Doc, None}
    BY Larger
  <1> QED
    BY <1>1, <1>2, <1>3 DEF IsTask

LEMMA GrowsCore ==
  ASSUME NEW g, NEW h, Grows(g, h), NEW fs, NEW ds, NEW ts, NEW xs, NEW dk,
         Core(fs, ds, ts, xs, dk, g)
  PROVE  Core(fs, ds, ts, xs, dk, h)
  <1>1. Table(fs, h)
    BY Larger, GrowsRow DEF Core, Table
  <1>2. Tombs(ds, h)
    BY Larger, GrowsTomb DEF Core, Tombs
  <1>3. Disk(dk, h)
    BY Larger DEF Core, Disk
  <1>4. Tasks(ts, dk, h)
    BY Larger, GrowsTask DEF Core, Tasks
  <1>5. Linked(fs, ds, ts, h)
    <2>1. \A k \in DOMAIN fs : h.home[k] = g.home[k]
      BY DEF Core, Table, Grows
    <2> QED
      BY <2>1 DEF Core, Linked
  <1> QED
    BY <1>1, <1>2, <1>3, <1>4, <1>5 DEF Core

LEMMA GrowsGood ==
  ASSUME NEW g, NEW h, Grows(g, h), Good(g)
  PROVE  Good(h)
  <1>1. Core(files, tombs, task, del, disk, h)
    BY GrowsCore DEF Good
  <1>2. Drive(cloud, h)
    <2>1. \A i \in DOMAIN cloud : h.home[i] = g.home[i]
      BY Identities DEF Good, Drive, Grows
    <2>2. DOMAIN cloud \subseteq ItemsIn(h)
      BY Larger DEF Good, Drive
    <2>3. ASSUME NEW i \in DOMAIN cloud
          PROVE  cloud[i] \in [path : PathsIn(h) \ {None}, etag : EtagsIn(h) \ {None}]
      BY Larger DEF Good, Drive
    <2> QED
      BY <2>1, <2>2, <2>3 DEF Good, Drive
  <1>3. Feed(delta, unseen, h)
    <2>1. \A e : IsEntry(e, g) => IsEntry(e, h)
      BY GrowsEntry
    <2> QED
      BY <2>1, Larger DEF Good, Feed
  <1>4. Opens(handles, h)
    BY Larger DEF Good, Opens, Grows
  <1>5. Handler(fuse, h)
    <2>1. 1..g.last \subseteq 1..h.last
      BY DEF Grows, World
    <2> QED
      BY <2>1, Larger DEF Good, Handler, Grows
  <1>6. Rest(budget, discarded, h)
    BY Larger DEF Good, Rest
  <1> QED
    BY <1>1, <1>2, <1>3, <1>4, <1>5, <1>6 DEF Good

\* The world h has another item than g, made at the path p.
Adds(g, h, l, p) ==
  Grows(g, h) /\ h.made = g.made + 1 /\ h.last = l /\ h.home[CloudId(g.made + 1)] = p

\* A world with another write, and one with another item.
LEMMA OneMore ==
  ASSUME NEW g, World(g), NEW l \in {g.last, g.last + 1}, NEW p
  PROVE  /\ \E h : Grows(g, h) /\ h.made = g.made /\ h.last = l
         /\ \E h : Adds(g, h, l, p)
  <1>1. g.made \in Nat /\ g.last \in Nat /\ l \in Nat /\ g.last <= l
    BY DEF World
  <1>2. \E h : Grows(g, h) /\ h.made = g.made /\ h.last = l
    <2> DEFINE h == [made |-> g.made, last |-> l, home |-> g.home]
    <2>1. h.made = g.made /\ h.last = l /\ h.home = g.home
      OBVIOUS
    <2> HIDE DEF h
    <2>2. World(h)
      BY <1>1, <2>1 DEF World
    <2> QED
      BY <1>1, <2>1, <2>2 DEF Grows
  <1>3. \E h : Adds(g, h, l, p)
    <2> DEFINE i == CloudId(g.made + 1)
               h == [made |-> g.made + 1, last |-> l, home |-> [g.home EXCEPT ![i] = p]]
    <2>1. h.made = g.made + 1 /\ h.last = l /\ h.home = [g.home EXCEPT ![i] = p]
      OBVIOUS
    <2>2. i \notin IdsIn(g) /\ i \in AllIds
      BY <1>1, NextIdentity DEF AllIds, CloudId
    <2>3. \A n \in Nat : LocalIdentity(n) # i /\ LocalIdentity(n) \in AllIds
      BY DEF CloudId, LocalIdentity, AllIds
    <2> HIDE DEF h, i
    <2>4. World(h)
      BY <1>1, <2>1, <2>2, <2>3 DEF World
    <2>5. h.home[i] = p /\ \A k \in IdsIn(g) : h.home[k] = g.home[k]
      BY <2>1, <2>2, Identities DEF World
    <2>6. g.made <= h.made /\ g.last <= h.last
      BY <1>1, <2>1
    <2>7. Grows(g, h)
      BY <2>4, <2>5, <2>6 DEF Grows
    <2> QED
      BY <2>1, <2>5, <2>7 DEF i, Adds
  <1> QED
    BY <1>2, <1>3

-----------------------------------------------------------------------------
(* Statements that keep the items of the rows                              *)

Kept(fs, gs, g) ==
  /\ DOMAIN gs \subseteq DOMAIN fs
  /\ \A k \in DOMAIN gs : IsRow(k, gs[k], g) /\ gs[k].cloud = fs[k].cloud

LEMMA KeptCore ==
  ASSUME NEW g, NEW fs, NEW gs, NEW ds, NEW ts, NEW xs, NEW dk, World(g),
         Core(fs, ds, ts, xs, dk, g), Kept(fs, gs, g)
  PROVE  Core(gs, ds, ts, xs, dk, g)
  <1>1. /\ DOMAIN gs \subseteq IdsIn(g) /\ \A k \in DOMAIN gs : IsRow(k, gs[k], g)
        /\ Follows(fs, gs, ds, ts)
    BY DEF Core, Table, Kept, Follows
  <1>2. Table(gs, g)
    BY <1>1, FollowsTable DEF Core
  <1>3. Linked(gs, ds, ts, g)
    BY <1>1, FollowsLinked DEF Core
  <1> QED
    BY <1>2, <1>3 DEF Core

\* A statement on one row that keeps its path and its item.
LEMMA OneRow ==
  ASSUME NEW g, NEW fs, Table(fs, g), NEW k \in DOMAIN fs, NEW r, IsRow(k, r, g),
         r.cloud = fs[k].cloud, NEW gs, gs = [fs EXCEPT ![k] = r]
  PROVE  Kept(fs, gs, g)
  BY DEF Kept, Table

LEMMA Removed ==
  ASSUME NEW g, NEW fs, Table(fs, g), NEW k
  PROVE  Kept(fs, Without(fs, k), g)
  BY DEF Kept, Table, Without

LEMMA MarkStateKept ==
  ASSUME NEW g, NEW fs, Table(fs, g), NEW k, g.home[k] = Doc, NEW s \in States
  PROVE  Kept(fs, MarkState(fs, k, s), g)
  <1>1. CASE k \notin DOMAIN fs
    BY <1>1 DEF MarkState, Kept, Table
  <1>2. CASE k \in DOMAIN fs
    <2> DEFINE r == [fs[k] EXCEPT !.state = s]
    <2>1. IsRow(k, fs[k], g)
      BY <1>2 DEF Table
    <2>2. /\ DOMAIN r = RowFields /\ r.state = s /\ r.path = fs[k].path /\ r.cache = fs[k].cache
          /\ r.cloud = fs[k].cloud /\ r.etag = fs[k].etag /\ r.stamp = fs[k].stamp
          /\ r.up = fs[k].up /\ r.gen = fs[k].gen
      BY <2>1 DEF IsRow, RowFields
    <2>3. MarkState(fs, k, s) = [fs EXCEPT ![k] = r]
      BY <1>2 DEF MarkState
    <2> HIDE DEF r
    <2>4. IsRow(k, r, g)
      BY <2>1, <2>2 DEF IsRow
    <2> QED
      BY <1>2, <2>2, <2>3, <2>4, OneRow
  <1> QED
    BY <1>1, <1>2

LEMMA MarkDirtyKept ==
  ASSUME NEW g, NEW fs, Table(fs, g), NEW k \in DOMAIN fs, g.home[k] = Doc, NEW s \in {0, 1}
  PROVE  Kept(fs, MarkDirty(fs, k, s), g)
  <1> DEFINE r == [fs[k] EXCEPT !.state = "dirty", !.stamp = s]
  <1>1. IsRow(k, fs[k], g)
    BY DEF Table
  <1>2. /\ DOMAIN r = RowFields /\ r.state = "dirty" /\ r.stamp = s /\ r.path = fs[k].path
        /\ r.cache = fs[k].cache /\ r.cloud = fs[k].cloud /\ r.etag = fs[k].etag
        /\ r.up = fs[k].up /\ r.gen = fs[k].gen
    BY <1>1 DEF IsRow, RowFields
  <1>3. MarkDirty(fs, k, s) = [fs EXCEPT ![k] = r]
    BY DEF MarkDirty
  <1> HIDE DEF r
  <1>4. IsRow(k, r, g)
    BY <1>1, <1>2 DEF IsRow, States, Protected
  <1> QED
    BY <1>2, <1>3, <1>4, OneRow

LEMMA MarkCachedKept ==
  ASSUME NEW g, NEW fs, World(g), Table(fs, g), NEW k, NEW c \in NamesIn(g),
         g.home[k] = Doc => Own(k, c)
  PROVE  Kept(fs, MarkCached(fs, k, c), g)
  <1>1. CASE k \notin DOMAIN fs
    BY <1>1 DEF MarkCached, Kept, Table
  <1>2. CASE k \in DOMAIN fs
    <2> DEFINE r == [fs[k] EXCEPT !.state = "cached", !.cache = c]
    <2>1. IsRow(k, fs[k], g)
      BY <1>2 DEF Table
    <2>2. /\ DOMAIN r = RowFields /\ r.state = "cached" /\ r.cache = c /\ r.path = fs[k].path
          /\ r.cloud = fs[k].cloud /\ r.etag = fs[k].etag /\ r.stamp = fs[k].stamp
          /\ r.up = fs[k].up /\ r.gen = fs[k].gen
      BY <2>1 DEF IsRow, RowFields
    <2>3. MarkCached(fs, k, c) = [fs EXCEPT ![k] = r]
      BY <1>2 DEF MarkCached
    <2> HIDE DEF r
    <2>4. IsRow(k, r, g)
      BY <2>1, <2>2 DEF IsRow, States, Protected
    <2> QED
      BY <1>2, <2>2, <2>3, <2>4, OneRow
  <1> QED
    BY <1>1, <1>2

\* Detaching the bytes, with or without the claim.
LEMMA DetachKept ==
  ASSUME NEW g, NEW fs, World(g), Table(fs, g), NEW k \in DOMAIN fs,
         NEW up \in {fs[k].up, NoClaim}, NEW gen \in {fs[k].gen, fs[k].gen + 1}, NEW gs,
         gs = [fs EXCEPT ![k] = [fs[k] EXCEPT !.state = "online", !.cache = None,
                                              !.up = up, !.gen = gen]]
  PROVE  Kept(fs, gs, g)
  <1> DEFINE r == [fs[k] EXCEPT !.state = "online", !.cache = None, !.up = up, !.gen = gen]
  <1>1. IsRow(k, fs[k], g)
    BY DEF Table
  <1>2. /\ DOMAIN r = RowFields /\ r.state = "online" /\ r.cache = None /\ r.path = fs[k].path
        /\ r.cloud = fs[k].cloud /\ r.etag = fs[k].etag /\ r.stamp = fs[k].stamp
        /\ r.up = up /\ r.gen = gen
    BY <1>1 DEF IsRow, RowFields
  <1>3. up \in ClaimsIn(g) /\ gen \in Nat /\ None \in NamesIn(g)
    BY <1>1, Defined DEF IsRow
  <1>4. fs[k].path = Doc => Own(k, up.cache) /\ Unbound(up, fs[k].cloud)
    BY <1>1, Defined DEF IsRow, Own, Unbound
  <1>6. gs = [fs EXCEPT ![k] = r]
    OBVIOUS
  <1> HIDE DEF r
  <1>5. IsRow(k, r, g)
    BY <1>1, <1>2, <1>3, <1>4 DEF IsRow, States, Protected, Own
  <1> QED
    BY <1>2, <1>5, <1>6, OneRow

LEMMA OnlineOnlyKept ==
  ASSUME NEW g, NEW fs, World(g), Table(fs, g), NEW k
  PROVE  Kept(fs, MarkOnlineOnly(fs, k), g)
  <1>1. CASE k \notin DOMAIN fs
    BY <1>1 DEF MarkOnlineOnly, Kept, Table
  <1>2. CASE k \in DOMAIN fs
    <2>1. IsRow(k, fs[k], g)
      BY <1>2 DEF Table
    <2>2. MarkOnlineOnly(fs, k) =
            [fs EXCEPT ![k] = [fs[k] EXCEPT !.state = "online", !.cache = None,
                                            !.up = NoClaim, !.gen = fs[k].gen]]
      BY <1>2, <2>1 DEF MarkOnlineOnly, IsRow, RowFields
    <2> QED
      BY <1>2, <2>2, DetachKept
  <1> QED
    BY <1>1, <1>2

\* The claim of an upload, or of a conflict copy.
LEMMA ClaimKept ==
  ASSUME NEW g, NEW fs, Table(fs, g), NEW k \in DOMAIN fs, g.home[k] = Doc,
         NEW s \in States, NEW up \in ClaimsIn(g), Own(k, up.cache), Unbound(up, fs[k].cloud),
         NEW gs, gs = [fs EXCEPT ![k] = [fs[k] EXCEPT !.state = s, !.up = up]]
  PROVE  Kept(fs, gs, g)
  <1> DEFINE r == [fs[k] EXCEPT !.state = s, !.up = up]
  <1>1. IsRow(k, fs[k], g)
    BY DEF Table
  <1>2. /\ DOMAIN r = RowFields /\ r.state = s /\ r.cache = fs[k].cache /\ r.path = fs[k].path
        /\ r.cloud = fs[k].cloud /\ r.etag = fs[k].etag /\ r.stamp = fs[k].stamp
        /\ r.up = up /\ r.gen = fs[k].gen
    BY <1>1 DEF IsRow, RowFields
  <1>4. gs = [fs EXCEPT ![k] = r]
    OBVIOUS
  <1> HIDE DEF r
  <1>3. IsRow(k, r, g)
    BY <1>1, <1>2 DEF IsRow
  <1> QED
    BY <1>2, <1>3, <1>4, OneRow

LEMMA BeginUploadKept ==
  ASSUME NEW g, NEW fs, Table(fs, g), NEW k \in DOMAIN fs, g.home[k] = Doc
  PROVE  Kept(fs, BeginUpload(fs, k), g)
  <1> DEFINE up == Claim(fs[k].path, fs[k].cloud, fs[k].cache)
  <1>1. IsRow(k, fs[k], g) /\ fs[k].path = Doc
    BY DEF Table, IsRow
  <1>2. up \in ClaimsIn(g) /\ Own(k, up.cache) /\ Unbound(up, fs[k].cloud)
    BY <1>1 DEF IsRow, ClaimsIn, Claim, Unbound
  <1>3. BeginUpload(fs, k) = [fs EXCEPT ![k] = [fs[k] EXCEPT !.state = "uploading", !.up = up]]
    BY DEF BeginUpload
  <1> HIDE DEF up
  <1>4. "uploading" \in States
    BY DEF States, Protected
  <1> QED
    BY <1>2, <1>3, <1>4, ClaimKept

LEMMA BeginConflictKept ==
  ASSUME NEW g, NEW fs, World(g), Table(fs, g), NEW k \in DOMAIN fs, g.home[k] = Doc,
         NEW p \in PathsIn(g) \ {Doc, None}, NEW c \in NamesIn(g), Own(k, c)
  PROVE  Kept(fs, BeginConflict(fs, k, p, c), g)
  <1> DEFINE up == Claim(p, None, c)
  <1>1. IsRow(k, fs[k], g)
    BY DEF Table
  <1>2. up \in ClaimsIn(g) /\ Own(k, up.cache) /\ Unbound(up, fs[k].cloud)
    BY DEF ClaimsIn, Claim, Unbound
  <1>3. BeginConflict(fs, k, p, c) = [fs EXCEPT ![k] = [fs[k] EXCEPT !.state = fs[k].state,
                                                                     !.up = up]]
    BY <1>1 DEF BeginConflict, IsRow, RowFields
  <1> HIDE DEF up
  <1>4. fs[k].state \in States
    BY <1>1 DEF IsRow
  <1> QED
    BY <1>2, <1>3, <1>4, ClaimKept

-----------------------------------------------------------------------------
(* Disk, runs and tombstones                                               *)

LEMMA DiskCore ==
  ASSUME NEW g, NEW fs, NEW ds, NEW ts, NEW xs, NEW dk, NEW dm, Core(fs, ds, ts, xs, dk, g),
         Disk(dm, g), DOMAIN dk \subseteq DOMAIN dm
  PROVE  Core(fs, ds, ts, xs, dm, g)
  <1>1. Tasks(ts, dm, g)
    BY DEF Core, Tasks
  <1>2. Dels(xs, ds, ts, dm)
    BY DEF Core, Dels
  <1> QED
    BY <1>1, <1>2 DEF Core

LEMMA GotoCore ==
  ASSUME NEW g, NEW fs, NEW ds, NEW ts, NEW xs, NEW dk, Core(fs, ds, ts, xs, dk, g),
         NEW k \in IdsIn(g), k \notin DOMAIN xs, NEW t, IsTask(k, t, g), t.r.cache \in DOMAIN dk,
         k \in DOMAIN fs => fs[k].cloud = t.r.cloud,
         k \in DOMAIN ds => (ds[k].local = k => ds[k].cloud = t.r.cloud)
  PROVE  Core(fs, ds, With(ts, k, t), xs, dk, g)
  <1> DEFINE us == With(ts, k, t)
  <1>1. /\ DOMAIN us = DOMAIN ts \cup {k} /\ us[k] = t
        /\ \A j \in DOMAIN ts : j # k => us[j] = ts[j]
    BY DEF With
  <1> HIDE DEF us
  <1>2. Tasks(us, dk, g)
    <2>1. DOMAIN us \subseteq IdsIn(g)
      BY <1>1 DEF Core, Tasks
    <2>2. ASSUME NEW j \in DOMAIN us PROVE IsTask(j, us[j], g) /\ us[j].r.cache \in DOMAIN dk
      BY <1>1 DEF Core, Tasks
    <2> QED
      BY <2>1, <2>2 DEF Tasks
  <1>3. Linked(fs, ds, us, g)
    <2>1. ASSUME NEW j \in DOMAIN fs \cap DOMAIN us PROVE fs[j].cloud = us[j].r.cloud
      BY <1>1 DEF Core, Linked
    <2>2. ASSUME NEW j \in DOMAIN ds \cap DOMAIN us, ds[j].local = j
          PROVE  ds[j].cloud = us[j].r.cloud
      BY <1>1, <2>2 DEF Core, Linked
    <2> QED
      BY <2>1, <2>2 DEF Core, Linked
  <1>4. Dels(xs, ds, us, dk)
    BY <1>1 DEF Core, Dels
  <1> QED
    BY <1>2, <1>3, <1>4 DEF Core, us

\* A step of a run that keeps the row it read.
LEMMA MoveCore ==
  ASSUME NEW g, NEW fs, NEW ds, NEW ts, NEW xs, NEW dk, Core(fs, ds, ts, xs, dk, g),
         NEW k \in DOMAIN ts, NEW t, IsTask(k, t, g), t.r.cache \in DOMAIN dk,
         t.r.cloud = ts[k].r.cloud
  PROVE  Core(fs, ds, With(ts, k, t), xs, dk, g)
  <1>1. k \in IdsIn(g) /\ k \notin DOMAIN xs
    BY DEF Core, Tasks, Dels
  <1>2. /\ k \in DOMAIN fs => fs[k].cloud = t.r.cloud
        /\ k \in DOMAIN ds => (ds[k].local = k => ds[k].cloud = t.r.cloud)
    BY DEF Core, Linked
  <1> QED
    BY <1>1, <1>2, GotoCore

LEMMA DoneCore ==
  ASSUME NEW g, NEW fs, NEW ds, NEW ts, NEW xs, NEW dk, Core(fs, ds, ts, xs, dk, g), NEW k
  PROVE  Core(fs, ds, Without(ts, k), xs, dk, g)
  <1> DEFINE us == Without(ts, k)
  <1>1. DOMAIN us \subseteq DOMAIN ts /\ \A j \in DOMAIN us : us[j] = ts[j]
    BY DEF Without
  <1> HIDE DEF us
  <1>2. Tasks(us, dk, g)
    BY <1>1 DEF Core, Tasks
  <1>3. Linked(fs, ds, us, g)
    BY <1>1 DEF Core, Linked
  <1>4. Dels(xs, ds, us, dk)
    BY <1>1 DEF Core, Dels
  <1> QED
    BY <1>2, <1>3, <1>4 DEF Core, us

\* Deletion runs that end, or that leave the replay behind.
LEMMA DelsCore ==
  ASSUME NEW g, NEW fs, NEW ds, NEW ts, NEW xs, NEW ys, NEW dk, Core(fs, ds, ts, xs, dk, g),
         DOMAIN ys \subseteq DOMAIN xs,
         \A d \in DOMAIN ys : /\ DOMAIN ys[d] = {"pc", "lock"} /\ ys[d].lock = xs[d].lock
                              /\ ys[d].pc = "replay" => xs[d].pc = "replay"
  PROVE  Core(fs, ds, ts, ys, dk, g)
  <1>1. Dels(ys, ds, ts, dk)
    BY DEF Core, Dels
  <1> QED
    BY <1>1 DEF Core

LEMMA NotRunning ==
  ASSUME NEW g, Core(files, tombs, task, del, disk, g), NEW k, ~ItemLocked(k)
  PROVE  k \notin DOMAIN task /\ k \notin DOMAIN del
  BY DEF ItemLocked, Core, Dels

\* A tombstone whose key no row and no run has.
LEMMA BuryCore ==
  ASSUME NEW g, NEW fs, NEW ds, NEW ts, NEW xs, NEW dk, Core(fs, ds, ts, xs, dk, g),
         NEW d \in IdsIn(g), d \notin DOMAIN xs, NEW x, IsTomb(d, x, g),
         d \in DOMAIN fs => g.home[d] # Doc,
         d \in DOMAIN ts => (x.local = d => x.cloud = ts[d].r.cloud)
  PROVE  Core(fs, With(ds, d, x), ts, xs, dk, g)
  <1> DEFINE es == With(ds, d, x)
  <1>1. /\ DOMAIN es = DOMAIN ds \cup {d} /\ es[d] = x
        /\ \A j \in DOMAIN ds : j # d => es[j] = ds[j]
    BY DEF With
  <1> HIDE DEF es
  <1>2. Tombs(es, g)
    BY <1>1 DEF Core, Tombs
  <1>3. Linked(fs, es, ts, g)
    <2>1. ASSUME NEW j \in DOMAIN fs \cap DOMAIN es PROVE g.home[j] # Doc
      BY <1>1 DEF Core, Linked
    <2>2. ASSUME NEW j \in DOMAIN es \cap DOMAIN ts, es[j].local = j
          PROVE  es[j].cloud = ts[j].r.cloud
      BY <1>1, <2>2 DEF Core, Linked
    <2> QED
      BY <2>1, <2>2 DEF Core, Linked
  <1>4. Dels(xs, es, ts, dk)
    BY <1>1 DEF Core, Dels
  <1> QED
    BY <1>2, <1>3, <1>4 DEF Core, es

LEMMA QueueDeleteCore ==
  ASSUME NEW g, NEW fs, NEW ds, NEW ts, NEW xs, NEW dk, World(g), Core(fs, ds, ts, xs, dk, g),
         NEW k \in RowAt(fs, Doc)
  PROVE  Core(Without(fs, k), QueueDelete(fs, ds, k), ts, xs, dk, g)
  <1> DEFINE r == fs[k]
             gs == Without(fs, k)
             x == [Tombstone(fs, k) EXCEPT !.done = IF k \in DOMAIN ds THEN ds[k].done ELSE None]
             legacy == r.up.path = None /\ r.state = "uploading"
             path == IF legacy THEN r.path ELSE r.up.path
             up == Claim(path, IF legacy THEN r.cloud ELSE r.up.target,
                         IF r.up.cache # None \/ path = None THEN r.up.cache ELSE r.cache)
  <1>1. k \in DOMAIN fs /\ k \in IdsIn(g) /\ IsRow(k, r, g) /\ r.path = Doc /\ g.home[k] = Doc
    BY DEF RowAt, Core, Table, IsRow
  <1>2. k \notin DOMAIN ds /\ k \notin DOMAIN xs
    BY <1>1 DEF Core, Linked, Dels
  <1>3. Core(gs, ds, ts, xs, dk, g) /\ k \notin DOMAIN gs
    <2>1. Core(gs, ds, ts, xs, dk, g)
      BY Removed, KeptCore DEF Core
    <2> QED
      BY <2>1 DEF Without
  <1>4. /\ DOMAIN x = TombFields /\ x.local = k /\ x.cloud = r.cloud /\ x.path = r.path
        /\ x.cache = r.cache /\ x.done = None /\ x.up = up
    BY <1>2 DEF Tombstone, TombFields
  <1>5. up \in ClaimsIn(g) /\ Own(k, up.cache) /\ Unbound(up, r.cloud)
    <2>1. /\ r.up \in ClaimsIn(g) /\ r.path \in PathsIn(g) /\ r.cloud \in ItemsIn(g) \cup {None}
          /\ r.cache \in NamesIn(g) /\ Own(k, r.cache) /\ Own(k, r.up.cache)
          /\ Unbound(r.up, r.cloud)
      BY <1>1 DEF IsRow
    <2>2. /\ up.path = path /\ up.target = (IF legacy THEN r.cloud ELSE r.up.target)
          /\ up.cache = (IF r.up.cache # None \/ path = None THEN r.up.cache ELSE r.cache)
      BY DEF Claim
    <2>3. up \in ClaimsIn(g)
      BY <2>1 DEF ClaimsIn, Claim
    <2> HIDE DEF up, r
    <2>4. Own(k, up.cache)
      BY <2>1, <2>2
    <2>5. Unbound(up, r.cloud)
      BY <2>1, <2>2 DEF Unbound
    <2> QED
      BY <2>3, <2>4, <2>5
  <1>6. k \in DOMAIN ts => r.cloud = ts[k].r.cloud
    BY <1>1 DEF Core, Linked
  <1>7. QueueDelete(fs, ds, k) = With(ds, k, x)
    BY DEF QueueDelete
  <1> HIDE DEF x, up, gs, r
  <1>8. IsTomb(k, x, g)
    <2>1. x.local = k /\ k # None
      BY <1>1, <1>4, Identities
    <2>2. /\ r.cloud \in ItemsIn(g) \cup {None} /\ r.path \in PathsIn(g) /\ r.cache \in NamesIn(g)
          /\ (k \in ItemsIn(g) => r.cloud = k) /\ Own(k, r.cache)
      BY <1>1 DEF IsRow
    <2> QED
      BY <1>1, <1>4, <1>5, <2>1, <2>2, Defined DEF IsTomb
  <1>9. Core(gs, With(ds, k, x), ts, xs, dk, g)
    BY <1>1, <1>2, <1>3, <1>4, <1>6, <1>8, BuryCore
  <1> QED
    BY <1>7, <1>9 DEF gs

LEMMA CleanupIsTomb ==
  ASSUME NEW g, World(g), NEW i \in ItemsIn(g), NEW p \in PathsIn(g)
  PROVE  IsTomb(i, CleanupTask(i, p), g) /\ CleanupTask(i, p).local = None
  BY Defined DEF IsTomb, CleanupTask, TombFields

LEMMA QueueRemoteDeleteCore ==
  ASSUME NEW g, NEW fs, NEW ds, NEW ts, NEW xs, NEW dk, World(g), Core(fs, ds, ts, xs, dk, g),
         NEW i \in ItemsIn(g), NEW p \in PathsIn(g)
  PROVE  Core(fs, QueueRemoteDelete(fs, ds, i, p), ts, xs, dk, g)
  <1>1. CASE Owners(fs, i) # {}
    BY <1>1 DEF QueueRemoteDelete
  <1>2. CASE Owners(fs, i) = {} /\ i \in DOMAIN ds
    <2> DEFINE x == [ds[i] EXCEPT !.path = p]
               es == [ds EXCEPT ![i] = x]
    <2>1. IsTomb(i, ds[i], g) /\ ds[i].cloud = i
      BY <1>2 DEF Core, Tombs, IsTomb
    <2>2. QueueRemoteDelete(fs, ds, i, p) = es
      BY <1>2, <2>1 DEF QueueRemoteDelete, IsTomb, TombFields
    <2>3. /\ DOMAIN x = TombFields /\ x.local = ds[i].local /\ x.cloud = ds[i].cloud /\ x.path = p
          /\ x.cache = ds[i].cache /\ x.done = ds[i].done /\ x.up = ds[i].up
      BY <2>1 DEF IsTomb, TombFields
    <2> HIDE DEF x
    <2>4. IsTomb(i, x, g)
      BY <2>1, <2>3 DEF IsTomb
    <2>5. /\ DOMAIN es = DOMAIN ds /\ es[i] = x /\ \A j \in DOMAIN ds : j # i => es[j] = ds[j]
      BY <1>2
    <2> HIDE DEF es
    <2>6. Tombs(es, g)
      BY <2>4, <2>5 DEF Core, Tombs
    <2>7. Linked(fs, es, ts, g)
      <3>1. \A j \in DOMAIN es : es[j].local = ds[j].local /\ es[j].cloud = ds[j].cloud
        BY <2>3, <2>5
      <3> QED
        BY <2>5, <3>1 DEF Core, Linked
    <2>8. Dels(xs, es, ts, dk)
      <3>1. \A j \in DOMAIN es : es[j].up = ds[j].up
        BY <2>3, <2>5
      <3> QED
        BY <2>5, <3>1 DEF Core, Dels
    <2> QED
      BY <2>2, <2>6, <2>7, <2>8 DEF Core
  <1>3. CASE Owners(fs, i) = {} /\ i \notin DOMAIN ds
    <2>1. QueueRemoteDelete(fs, ds, i, p) = With(ds, i, CleanupTask(i, p))
      BY <1>3 DEF QueueRemoteDelete
    <2>2. i \in IdsIn(g) /\ i # None /\ i \notin DOMAIN xs
      BY <1>3, Identities DEF Core, Dels
    <2>3. i \notin DOMAIN fs
      <3>1. ASSUME i \in DOMAIN fs PROVE FALSE
        <4>1. fs[i].cloud = i
          BY <3>1 DEF Core, Table, IsRow
        <4> QED
          BY <1>3, <3>1, <4>1 DEF Owners
      <3> QED
        BY <3>1
    <2>4. IsTomb(i, CleanupTask(i, p), g) /\ CleanupTask(i, p).local # i
      BY <2>2, CleanupIsTomb
    <2>5. Core(fs, With(ds, i, CleanupTask(i, p)), ts, xs, dk, g)
      BY <2>2, <2>3, <2>4, BuryCore
    <2> QED
      BY <2>1, <2>5
  <1> QED
    BY <1>1, <1>2, <1>3

\* An acknowledgement for the tombstone k, once k has no upload run and no replay.
LEMMA CompleteDeletedCore ==
  ASSUME NEW g, NEW fs, NEW ds, NEW ts, NEW xs, NEW dk, World(g), Core(fs, ds, ts, xs, dk, g),
         NEW k, DeletesOf(ds, k) # {}, k # None, k \notin DOMAIN ts,
         k \in DOMAIN xs => xs[k].pc # "replay",
         NEW e, IsEntry(e, g), e.path = Doc => ds[k].cloud \in {None, e.id}
  PROVE  Core(fs, CompleteDeleted(ds, k, e), ts, xs, dk, g)
  <1> DEFINE x == [ds[k] EXCEPT !.cloud = IF ds[k].cloud = None THEN e.id ELSE ds[k].cloud,
                                !.up = Claim(None, None, ds[k].up.cache), !.done = e.path]
             es == [d \in DOMAIN ds |-> IF d = k THEN x ELSE ds[d]]
             settled == [d \in DOMAIN ds |->
                IF ds[d].local # k THEN ds[d]
                ELSE [ds[d] EXCEPT !.cloud = IF ds[d].cloud = None THEN e.id ELSE @,
                                   !.up = Claim(None, None, ds[d].up.cache), !.done = e.path]]
  <1>1. \A d \in DOMAIN ds : ds[d].local = k => d = k
    BY DEF Core, Tombs, IsTomb
  <1>2. k \in DOMAIN ds /\ ds[k].local = k /\ DeletesOf(ds, k) = {k}
    BY <1>1 DEF DeletesOf
  <1>3. IsTomb(k, ds[k], g) /\ k \in IdsIn(g) /\ e.id \in ItemsIn(g) /\ e.id # None
        /\ e.path \in PathsIn(g) /\ e.id \in IdsIn(g) /\ g.home[e.id] = e.path
    BY <1>2, Identities DEF Core, Tombs, IsEntry
  <1>4. settled = es
    BY <1>1, <1>2
  <1>5. /\ DOMAIN x = TombFields /\ x.local = k /\ x.path = ds[k].path /\ x.cache = ds[k].cache
        /\ x.done = e.path /\ x.cloud = (IF ds[k].cloud = None THEN e.id ELSE ds[k].cloud)
        /\ x.up = Claim(None, None, ds[k].up.cache)
    BY <1>2, <1>3 DEF IsTomb, TombFields
  <1>6. IsTomb(k, x, g)
    <2>1. x.up \in ClaimsIn(g) /\ x.up.cache = ds[k].up.cache /\ x.up.path = None
      BY <1>2, <1>3, <1>5, Defined DEF Claim, ClaimsIn, IsTomb
    <2>2. Unbound(x.up, x.cloud)
      BY <2>1, Defined DEF Unbound
    <2> HIDE DEF x
    <2>3. x.cloud \in ItemsIn(g) \cup {None} /\ (k \in ItemsIn(g) => x.cloud = k)
      BY <1>2, <1>3, <1>5 DEF IsTomb
    <2>4. k # None
      OBVIOUS
    <2> QED
      BY <1>2, <1>3, <1>5, <2>1, <2>2, <2>3 DEF IsTomb
  <1>7. /\ DOMAIN es = DOMAIN ds /\ es[k] = x /\ \A j \in DOMAIN ds : j # k => es[j] = ds[j]
    BY <1>2
  <1>c. CompleteDeleted(ds, k, e) =
          IF ds[k].cloud \notin {None, e.id} /\ e.id \notin DOMAIN ds
            THEN With(settled, e.id, CleanupTask(e.id, e.path)) ELSE settled
    BY <1>2 DEF CompleteDeleted
  <1> HIDE DEF x, es, settled
  <1>8. Core(fs, es, ts, xs, dk, g)
    <2>1. Tombs(es, g)
      BY <1>6, <1>7 DEF Core, Tombs
    <2>2. Linked(fs, es, ts, g)
      BY <1>7 DEF Core, Linked
    <2>3. Dels(xs, es, ts, dk)
      BY <1>7 DEF Core, Dels
    <2> QED
      BY <2>1, <2>2, <2>3 DEF Core
  <1>9. CASE ds[k].cloud \notin {None, e.id} /\ e.id \notin DOMAIN ds
    <2>1. e.path # Doc
      BY <1>9
    <2>2. e.id \notin DOMAIN xs
      BY <1>9 DEF Core, Dels
    <2>3. IsTomb(e.id, CleanupTask(e.id, e.path), g) /\ CleanupTask(e.id, e.path).local # e.id
      BY <1>3, CleanupIsTomb
    <2>4. Core(fs, With(es, e.id, CleanupTask(e.id, e.path)), ts, xs, dk, g)
      BY <1>3, <1>8, <2>1, <2>2, <2>3, BuryCore
    <2> QED
      BY <1>c, <1>4, <1>9, <2>4
  <1>10. CASE ~(ds[k].cloud \notin {None, e.id} /\ e.id \notin DOMAIN ds)
    BY <1>c, <1>4, <1>8, <1>10
  <1> QED
    BY <1>9, <1>10

\* A tombstone goes with its run and its cache files.
LEMMA RetireCore ==
  ASSUME NEW g, NEW fs, NEW ds, NEW ts, NEW xs, NEW dk, NEW dm, World(g),
         Core(fs, ds, ts, xs, dk, g), NEW d \in DOMAIN ds, d \notin DOMAIN ts,
         DOMAIN dm \subseteq DOMAIN dk, \A c \in DOMAIN dm : dm[c] = dk[c],
         DOMAIN dk \ DOMAIN dm \subseteq {ds[d].cache, ds[d].up.cache} \ {None}
  PROVE  Core(fs, Without(ds, d), ts, Without(xs, d), dm, g)
  <1> DEFINE es == Without(ds, d)
             ys == Without(xs, d)
  <1>1. /\ DOMAIN es = DOMAIN ds \ {d} /\ \A j \in DOMAIN es : es[j] = ds[j]
        /\ DOMAIN ys = DOMAIN xs \ {d} /\ \A j \in DOMAIN ys : ys[j] = xs[j]
    BY DEF Without
  <1> HIDE DEF es, ys
  <1>2. Tombs(es, g) /\ Disk(dm, g) /\ Linked(fs, es, ts, g)
    BY <1>1 DEF Core, Tombs, Disk, Linked
  <1>3. \A c \in DOMAIN dk \ DOMAIN dm : c \in {d} \X Nat
    <2>1. IsTomb(d, ds[d], g)
      BY DEF Core, Tombs
    <2>2. ASSUME NEW c, c \in {ds[d].cache, ds[d].up.cache}, c # None PROVE c \in {d} \X Nat
      BY <2>1, <2>2 DEF IsTomb, Own
    <2> QED
      BY <2>2
  <1>4. ASSUME NEW k \in IdsIn(g), k # d, NEW c \in DOMAIN dk, Own(k, c) PROVE c \in DOMAIN dm
    <2>1. c # None
      BY Defined DEF Core, Disk
    <2> QED
      BY <1>3, <1>4, <2>1 DEF Own
  <1>5. Tasks(ts, dm, g)
    <2>1. ASSUME NEW k \in DOMAIN ts PROVE ts[k].r.cache \in DOMAIN dm
      <3>1. k \in IdsIn(g) /\ k # d /\ ts[k].r.cache \in DOMAIN dk /\ IsTask(k, ts[k], g)
        BY DEF Core, Tasks
      <3>2. Own(k, ts[k].r.cache)
        BY <3>1 DEF IsTask, IsRow
      <3> QED
        BY <1>4, <3>1, <3>2
    <2> QED
      BY <2>1 DEF Core, Tasks
  <1>6. Dels(ys, es, ts, dm)
    <2>1. ASSUME NEW j \in DOMAIN ys, ys[j].pc = "replay"
          PROVE  es[j].up.path # None /\ es[j].up.target = None /\ es[j].up.cache \in DOMAIN dm
      <3>1. j \in DOMAIN ds /\ j # d /\ es[j] = ds[j] /\ xs[j].pc = "replay"
        BY <1>1, <2>1 DEF Core, Dels
      <3>2. ds[j].up.path # None /\ ds[j].up.target = None /\ ds[j].up.cache \in DOMAIN dk
        BY <1>1, <3>1 DEF Core, Dels
      <3>3. j \in IdsIn(g) /\ IsTomb(j, ds[j], g)
        BY <3>1 DEF Core, Tombs
      <3>4. Own(j, ds[j].up.cache)
        BY <3>2, <3>3 DEF IsTomb
      <3> QED
        BY <1>4, <3>1, <3>2, <3>3, <3>4
    <2>2. DOMAIN ys \subseteq DOMAIN es
      BY <1>1 DEF Core, Dels
    <2>3. \A j \in DOMAIN ys : j \notin DOMAIN ts /\ DOMAIN ys[j] = {"pc", "lock"} /\ ys[j].lock = j
      BY <1>1 DEF Core, Dels
    <2> QED
      BY <2>1, <2>2, <2>3 DEF Dels
  <1> QED
    BY <1>2, <1>5, <1>6 DEF Core, es, ys

-----------------------------------------------------------------------------
(* Acknowledgements                                                        *)

\* The row of an acknowledged upload ends up with the item of the answer: a row
\* that has an item was sent to that item, and another row of the item would be
\* at the same path.
LEMMA CommitUploadedCore ==
  ASSUME NEW g, NEW fs, NEW ds, NEW ts, NEW xs, NEW dk, World(g), Core(fs, ds, ts, xs, dk, g),
         NEW k \in DOMAIN fs, k \in DOMAIN ts, NEW e, e = ts[k].res, ts[k].pc = "commit",
         NEW gs, gs = CommitUploaded(fs, k, ts[k].p, e, ts[k].r.cache)
  PROVE  gs[k].cloud = e.id /\ Core(gs, ds, Without(ts, k), xs, dk, g)
  <1> DEFINE r == fs[k]
             current == r.path = ts[k].p /\ r.state = "uploading" /\ r.cache = ts[k].r.cache
             x == [r EXCEPT !.up = NoClaim, !.cloud = IF current \/ @ = None THEN e.id ELSE @,
                            !.etag = IF r.cloud \in {None, e.id} THEN e.etag ELSE @,
                            !.state = IF current THEN "cached" ELSE @]
             us == Without(ts, k)
  <1>1. IsTask(k, ts[k], g) /\ IsRow(k, ts[k].r, g) /\ k \in IdsIn(g)
    BY DEF Core, Tasks, IsTask
  <1>2. /\ IsEntry(e, g) /\ e.path = Doc /\ (ts[k].r.cloud # None => e.id = ts[k].r.cloud)
        /\ g.home[k] = Doc
    BY <1>1 DEF IsTask, IsRow
  <1>3. IsRow(k, r, g) /\ r.cloud = ts[k].r.cloud /\ r.path = Doc
    BY <1>2 DEF Core, Table, Linked, IsRow
  <1>4. e.id \in ItemsIn(g) /\ e.id # None /\ g.home[e.id] = Doc /\ e.etag \in EtagsIn(g)
    BY <1>2, Identities DEF IsEntry
  <1>5. r.cloud # None => r.cloud = e.id
    BY <1>2, <1>3
  <1>6. gs = [fs EXCEPT ![k] = x]
    BY DEF CommitUploaded
  <1>7. /\ DOMAIN x = RowFields /\ x.path = r.path /\ x.cache = r.cache /\ x.stamp = r.stamp
        /\ x.gen = r.gen /\ x.up = NoClaim /\ x.etag \in {r.etag, e.etag}
        /\ x.state \in {r.state, "cached"}
    BY <1>3 DEF IsRow, RowFields
  <1>8. x.cloud = e.id
    BY <1>3, <1>5 DEF IsRow, RowFields
  <1> HIDE DEF r, x
  <1>9. IsRow(k, x, g)
    <2>1. x.state \in States /\ x.etag \in EtagsIn(g) /\ x.up \in ClaimsIn(g)
      BY <1>3, <1>4, <1>7, Defined DEF IsRow, States, Protected
    <2>2. Own(k, x.up.cache) /\ Unbound(x.up, x.cloud)
      BY <1>7, Defined DEF Own, Unbound
    <2>3. k \in ItemsIn(g) => x.cloud = k
      BY <1>3, <1>4, <1>5, <1>8, Identities DEF IsRow
    <2> QED
      BY <1>3, <1>4, <1>7, <1>8, <2>1, <2>2, <2>3 DEF IsRow
  <1>10. DOMAIN gs = DOMAIN fs /\ gs[k] = x /\ \A j \in DOMAIN fs : j # k => gs[j] = fs[j]
    BY <1>6
  <1>11. ASSUME NEW o \in DOMAIN fs, o # k PROVE fs[o].path # Doc /\ fs[o].cloud # e.id
    <2>1. fs[o].path # Doc
      BY <1>3, <1>11 DEF Core, Table, Apart, r
    <2>2. fs[o].cloud = e.id => fs[o].path = Doc
      BY <1>4 DEF Core, Table, IsRow
    <2> QED
      BY <2>1, <2>2
  <1>12. Table(gs, g)
    <2>1. ASSUME NEW i \in DOMAIN gs, NEW j \in DOMAIN gs, i # j
          PROVE  gs[i].path # gs[j].path /\ (gs[i].cloud = None \/ gs[i].cloud # gs[j].cloud)
      <3>1. CASE i = k
        BY <1>3, <1>7, <1>8, <1>10, <1>11, <2>1, <3>1
      <3>2. CASE j = k
        BY <1>3, <1>7, <1>8, <1>10, <1>11, <2>1, <3>2
      <3>3. CASE i # k /\ j # k
        BY <1>10, <2>1, <3>3 DEF Core, Table, Apart
      <3> QED
        BY <3>1, <3>2, <3>3
    <2>2. \A j \in DOMAIN gs : IsRow(j, gs[j], g)
      BY <1>9, <1>10 DEF Core, Table
    <2> QED
      BY <1>10, <2>1, <2>2 DEF Core, Table, Apart
  <1>13. /\ DOMAIN us = DOMAIN ts \ {k} /\ \A j \in DOMAIN us : us[j] = ts[j]
    BY DEF Without
  <1> HIDE DEF us
  <1>14. Linked(gs, ds, us, g)
    BY <1>10, <1>13 DEF Core, Linked
  <1>15. Tasks(us, dk, g) /\ Dels(xs, ds, us, dk)
    BY <1>13 DEF Core, Tasks, Dels
  <1> QED
    BY <1>8, <1>10, <1>12, <1>14, <1>15 DEF Core, us

\* The row a copy gets, at its own path ...
CopyRow(fs, e, c) ==
  LET j == LocalId(fs, e)
  IN IF j \in DOMAIN fs THEN [fs[j] EXCEPT !.etag = e.etag, !.state = "cached", !.cache = c]
     ELSE [ImportedRow(e) EXCEPT !.state = "cached", !.cache = c]

LEMMA AdoptCore ==
  ASSUME NEW g, NEW fs, NEW ds, NEW ts, NEW xs, NEW dk, World(g), Core(fs, ds, ts, xs, dk, g),
         NEW e, IsEntry(e, g), e.path # Doc, NEW c \in NamesIn(g),
         LocalId(fs, e) \in DOMAIN fs \/ RowAt(fs, e.path) = {}
  PROVE  Core(With(fs, LocalId(fs, e), CopyRow(fs, e, c)), ds, ts, xs, dk, g)
  <1> DEFINE j == LocalId(fs, e)
             copy == CopyRow(fs, e, c)
             adopted == With(fs, j, copy)
  <1>1. e.id \in ItemsIn(g) /\ e.id # None /\ e.id \in IdsIn(g) /\ g.home[e.id] = e.path
        /\ e.path \in PathsIn(g) \ {None} /\ e.etag \in EtagsIn(g)
    BY Identities DEF IsEntry
  <1>2. /\ DOMAIN adopted = DOMAIN fs \cup {j} /\ adopted[j] = copy
        /\ \A o \in DOMAIN fs : o # j => adopted[o] = fs[o]
    BY DEF With
  <1>3. CASE j \in DOMAIN fs
    <2>1. fs[j].cloud = e.id
      <3>1. CASE Owners(fs, e.id) = {}
        <4>1. j = e.id
          BY <3>1 DEF LocalId
        <4> QED
          BY <1>1, <1>3, <4>1 DEF Core, Table, IsRow
      <3>2. CASE Owners(fs, e.id) # {}
        <4>1. j \in Owners(fs, e.id)
          BY <3>2 DEF LocalId
        <4> QED
          BY <4>1 DEF Owners
      <3> QED
        BY <3>1, <3>2
    <2>2. IsRow(j, fs[j], g) /\ fs[j].path = e.path
      BY <1>1, <1>3, <2>1 DEF Core, Table, IsRow
    <2>3. /\ DOMAIN copy = RowFields /\ copy.path = e.path /\ copy.etag = e.etag
          /\ copy.state = "cached" /\ copy.cache = c /\ copy.cloud = e.id
          /\ copy.stamp = fs[j].stamp /\ copy.up = fs[j].up /\ copy.gen = fs[j].gen
      BY <1>3, <2>1, <2>2 DEF CopyRow, IsRow, RowFields
    <2> HIDE DEF copy, adopted, j
    <2>4. IsRow(j, copy, g)
      BY <1>1, <2>1, <2>2, <2>3 DEF IsRow, States, Protected
    <2>5. Kept(fs, adopted, g)
      BY <1>2, <1>3, <2>1, <2>3, <2>4 DEF Kept, Core, Table
    <2>6. Core(adopted, ds, ts, xs, dk, g)
      BY <2>5, KeptCore
    <2> QED
      BY <2>6 DEF adopted, copy, j
  <1>4. CASE j \notin DOMAIN fs
    <2>1. j = e.id /\ Owners(fs, e.id) = {}
      <3>1. Owners(fs, e.id) # {} => j \in Owners(fs, e.id)
        BY DEF LocalId
      <3>2. Owners(fs, e.id) = {}
        BY <1>4, <3>1 DEF Owners
      <3> QED
        BY <3>2 DEF LocalId
    <2>2. \A o \in DOMAIN fs : fs[o].path # e.path
      BY <1>4 DEF RowAt
    <2>3. /\ DOMAIN copy = RowFields /\ copy.path = e.path /\ copy.etag = e.etag
          /\ copy.state = "cached" /\ copy.cache = c /\ copy.cloud = e.id
          /\ copy.stamp = 0 /\ copy.up = NoClaim /\ copy.gen = 0
      BY <1>4 DEF CopyRow, ImportedRow, RowFields
    <2> HIDE DEF copy, adopted, j
    <2>4. IsRow(j, copy, g)
      BY <1>1, <2>1, <2>3, Defined DEF IsRow, States, Protected
    <2>5. \A k \in DOMAIN adopted : IsRow(k, adopted[k], g)
      BY <1>2, <2>4 DEF Core, Table
    <2>6. Follows(fs, adopted, ds, ts)
      <3>1. \A k \in DOMAIN adopted \cap DOMAIN fs : adopted[k].cloud = fs[k].cloud
        BY <1>2, <1>4
      <3>2. DOMAIN adopted \ DOMAIN fs = {j}
        BY <1>2, <1>4
      <3>3. \A k \in DOMAIN adopted \ {j} : adopted[k].path # adopted[j].path
        BY <1>2, <2>2, <2>3
      <3>4. adopted[j].path # Doc /\ adopted[j].cloud = j /\ adopted[j].cloud # None
        BY <1>1, <1>2, <2>1, <2>3
      <3> QED
        BY <2>1, <3>1, <3>2, <3>3, <3>4 DEF Follows
    <2>7. DOMAIN adopted \subseteq IdsIn(g)
      BY <1>1, <1>2, <2>1 DEF Core, Table
    <2>8. Table(adopted, g) /\ Linked(adopted, ds, ts, g)
      BY <2>5, <2>6, <2>7, FollowsTable, FollowsLinked DEF Core
    <2>9. Core(adopted, ds, ts, xs, dk, g)
      BY <2>8 DEF Core
    <2> QED
      BY <2>9 DEF adopted, copy, j
  <1> QED
    BY <1>3, <1>4

\* ... and the row it was made for goes, or loses its claim.
LEMMA CompleteMissingCore ==
  ASSUME NEW g, NEW fs, NEW ds, NEW ts, NEW xs, NEW dk, World(g), Core(fs, ds, ts, xs, dk, g),
         NEW k \in DOMAIN fs, NEW r, NEW e, IsEntry(e, g), e.path # Doc, NEW c \in NamesIn(g),
         CanAdoptCopy(fs, e, k)
  PROVE  Core(CompleteMissing(fs, k, r, e, c), ds, ts, xs, dk, g)
  <1> DEFINE as == With(fs, LocalId(fs, e), CopyRow(fs, e, c))
             x == [as[k] EXCEPT !.up = NoClaim]
             gs == CompleteMissing(fs, k, r, e, c)
  <1>1. Core(as, ds, ts, xs, dk, g)
    BY AdoptCore DEF CanAdoptCopy
  <1>2. k \in DOMAIN as
    BY DEF With
  <1>3. gs \in {Without(as, k), [as EXCEPT ![k].up = NoClaim], as}
    BY DEF CompleteMissing, CopyRow
  <1> HIDE DEF as, gs
  <1>4. CASE gs = Without(as, k)
    <2>1. Kept(as, gs, g)
      BY <1>1, <1>4, Removed DEF Core
    <2> QED
      BY <1>1, <2>1, KeptCore DEF gs
  <1>5. CASE gs = [as EXCEPT ![k].up = NoClaim]
    <2>1. IsRow(k, as[k], g)
      BY <1>1, <1>2 DEF Core, Table
    <2>2. /\ DOMAIN x = RowFields /\ x.path = as[k].path /\ x.etag = as[k].etag
          /\ x.state = as[k].state /\ x.cache = as[k].cache /\ x.cloud = as[k].cloud
          /\ x.stamp = as[k].stamp /\ x.up = NoClaim /\ x.gen = as[k].gen
      BY <2>1 DEF IsRow, RowFields
    <2>3. gs = [as EXCEPT ![k] = x]
      BY <1>5
    <2> HIDE DEF x
    <2>4. IsRow(k, x, g)
      BY <2>1, <2>2, Defined DEF IsRow, Own, Unbound
    <2>5. Kept(as, gs, g)
      BY <1>1, <1>2, <2>2, <2>3, <2>4, OneRow DEF Core
    <2> QED
      BY <1>1, <2>5, KeptCore DEF gs
  <1>6. CASE gs = as
    BY <1>1, <1>6 DEF gs
  <1> QED
    BY <1>3, <1>4, <1>5, <1>6

-----------------------------------------------------------------------------
(* Requests                                                                *)

LEMMA Spent ==
  ASSUME budget \in [Kinds -> Nat], NEW b, Spend(b)
  PROVE  budget' \in [Kinds -> Nat]
  <1>1. budget' = [budget EXCEPT ![b] = budget[b] - 1] /\ budget[b] > 0
    BY DEF Spend
  <1>2. CASE b \in Kinds
    <2>1. budget[b] - 1 \in Nat
      BY <1>1, <1>2
    <2> QED
      BY <1>1, <2>1
  <1>3. CASE b \notin Kinds
    BY <1>1, <1>3
  <1> QED
    BY <1>2, <1>3

LEMMA FeedChanged ==
  ASSUME NEW g, Feed(delta, unseen, g), NEW i \in ItemsIn(g), Changed({i})
  PROVE  Feed(delta', unseen', g)
  <1>1. unseen' \subseteq ItemsIn(g)
    BY DEF Feed, Changed
  <1>2. CASE delta = None
    BY <1>1, <1>2 DEF Feed, Changed
  <1>3. CASE delta # None
    <2>1. delta' = [delta EXCEPT !.since = delta.since \cup {i}] /\ DOMAIN delta = DeltaFields
      BY <1>3 DEF Changed, Feed
    <2>2. /\ DOMAIN delta' = DeltaFields /\ delta'.since = delta.since \cup {i}
          /\ delta'.entries = delta.entries
      BY <2>1 DEF DeltaFields
    <2> QED
      BY <1>1, <1>3, <2>2 DEF Feed
  <1> QED
    BY <1>2, <1>3

LEMMA DriveEntry ==
  ASSUME NEW g, NEW cl, Drive(cl, g), NEW i \in DOMAIN cl
  PROVE  IsEntry(Entry(cl, i), g) /\ Entry(cl, i).id = i /\ Entry(cl, i).path = cl[i].path
  BY DEF Drive, IsEntry, Entry

\* What a PUT changes: the item it names, one at the path, or a new one.
LEMMA Target ==
  ASSUME NEW g, Now(g), NEW t, NEW p, t # None => t \in DOMAIN cloud /\ cloud[t].path = p
  PROVE  /\ t # None => PutTarget(t, p) = t
         /\ \/ PutTarget(t, p) \in DOMAIN cloud /\ cloud[PutTarget(t, p)].path = p
            \/ PutTarget(t, p) = CloudId(made + 1)
  <1>1. CASE t # None
    BY <1>1 DEF PutTarget
  <1>2. CASE t = None /\ ItemsAt(p) # {}
    <2>1. PutTarget(t, p) \in ItemsAt(p)
      BY <1>2 DEF PutTarget
    <2> QED
      BY <1>2, <2>1 DEF ItemsAt
  <1>3. CASE t = None /\ ItemsAt(p) = {}
    BY <1>3 DEF PutTarget
  <1> QED
    BY <1>1, <1>2, <1>3

LEMMA NewItem ==
  ASSUME NEW g, Now(g)
  PROVE  CloudId(made + 1) \notin DOMAIN cloud
  <1>1. made \in Nat /\ made + 1 > made
    BY DEF Now, World
  <1>2. CloudId(made + 1) \notin IdsIn(g)
    BY <1>1, NextIdentity DEF Now
  <1> QED
    BY <1>2, Identities DEF Now, Good, Drive

LEMMA Stored ==
  ASSUME NEW g, Now(g), NEW l \in {g.last, g.last + 1}, NEW i, NEW p \in PathsIn(g) \ {None},
         (i \in DOMAIN cloud /\ cloud[i].path = p) \/ i = CloudId(made + 1),
         NEW data, Store(i, p, data)
  PROVE  \E h : /\ Grows(g, h) /\ h.made = made' /\ h.last = l /\ Good(h)
                /\ data \in ContentsIn(h) =>
                     /\ Drive(cloud', h) /\ Feed(delta', unseen', h)
                     /\ IsEntry(Entry(cloud', i), h)
                     /\ Entry(cloud', i).id = i /\ Entry(cloud', i).path = p
  <1>n. World(g) /\ Good(g) /\ g.made = made /\ made \in Nat
    BY DEF Now, World
  <1>1. PICK h : /\ Grows(g, h) /\ h.made = made' /\ h.last = l
                 /\ i \in ItemsIn(h) /\ h.home[i] = p
    <2>1. CASE i \in DOMAIN cloud
      <3>1. PICK h : Grows(g, h) /\ h.made = g.made /\ h.last = l
        BY <1>n, OneMore
      <3>2. made' = made
        BY <2>1 DEF Store
      <3>3. i \in ItemsIn(g) /\ g.home[i] = p
        BY <1>n, <2>1, NewItem DEF Good, Drive
      <3>4. i \in ItemsIn(h) /\ h.home[i] = p
        BY <1>n, <3>1, <3>3, Larger, Identities DEF Grows
      <3> QED
        BY <1>n, <3>1, <3>2, <3>4
    <2>2. CASE i \notin DOMAIN cloud
      <3>1. i = CloudId(g.made + 1) /\ made' = g.made + 1
        BY <1>n, <2>2 DEF Store
      <3>2. PICK h : Adds(g, h, l, p)
        <4>1. World(g)
          BY <1>n
        <4> QED
          BY <4>1, OneMore
      <3>3. CloudId(g.made + 1) \in ItemsIn(h)
        BY <1>n, <3>2 DEF ItemsIn, Adds
      <3> QED
        BY <3>1, <3>2, <3>3 DEF Adds
    <2> QED
      BY <2>1, <2>2
  <1>2. Good(h)
    BY <1>n, <1>1, GrowsGood
  <1>3. ASSUME data \in ContentsIn(h)
        PROVE  /\ Drive(cloud', h) /\ Feed(delta', unseen', h) /\ IsEntry(Entry(cloud', i), h)
               /\ Entry(cloud', i).id = i /\ Entry(cloud', i).path = p
    <2>1. Feed(delta', unseen', h)
      BY <1>1, <1>2, FeedChanged DEF Good, Store
    <2>2. p \in PathsIn(h) \ {None}
      BY <1>1, Larger
    <2>3. i \in DOMAIN cloud' /\ cloud'[i].path = p /\ Drive(cloud', h)
      <3>1. CASE i \in DOMAIN cloud
        <4> DEFINE v == Etag(cloud[i].etag.rev + 1, data)
        <4>1. cloud[i] \in [path : PathsIn(h) \ {None}, etag : EtagsIn(h) \ {None}]
              /\ cloud[i].path = p
          BY <1>1, <1>2, <3>1 DEF Good, Drive
        <4>2. v \in EtagsIn(h) \ {None}
          <5>1. cloud[i].etag.rev + 1 \in Nat \ {0}
            BY <4>1 DEF EtagsIn
          <5> QED
            BY <1>1, <1>3, <5>1, Defined DEF Grows
        <4> HIDE DEF v
        <4>3. cloud' = [cloud EXCEPT ![i].etag = v]
          BY <3>1 DEF Store, v
        <4>4. /\ DOMAIN cloud' = DOMAIN cloud /\ cloud'[i] = [cloud[i] EXCEPT !.etag = v]
              /\ \A j \in DOMAIN cloud : j # i => cloud'[j] = cloud[j]
          BY <3>1, <4>3
        <4>5. cloud'[i] \in [path : PathsIn(h) \ {None}, etag : EtagsIn(h) \ {None}]
              /\ cloud'[i].path = p
          BY <4>1, <4>2, <4>4
        <4> QED
          BY <1>1, <1>2, <3>1, <4>4, <4>5 DEF Good, Drive
      <3>2. CASE i \notin DOMAIN cloud
        <4> DEFINE x == [path |-> p, etag |-> Etag(1, data)]
        <4>1. x \in [path : PathsIn(h) \ {None}, etag : EtagsIn(h) \ {None}] /\ x.path = p
          BY <1>1, <1>3, <2>2, Defined DEF Grows
        <4>2. cloud' = With(cloud, i, x)
          BY <3>2 DEF Store
        <4> HIDE DEF x
        <4>3. /\ DOMAIN cloud' = DOMAIN cloud \cup {i} /\ cloud'[i] = x
              /\ \A j \in DOMAIN cloud : j # i => cloud'[j] = cloud[j]
          BY <4>2 DEF With
        <4> QED
          BY <1>1, <1>2, <3>2, <4>1, <4>3 DEF Good, Drive
      <3> QED
        BY <3>1, <3>2
    <2>4. IsEntry(Entry(cloud', i), h) /\ Entry(cloud', i).id = i /\ Entry(cloud', i).path = p
      BY <2>3, DriveEntry
    <2> QED
      BY <2>1, <2>3, <2>4
  <1> QED
    BY <1>1, <1>2, <1>3

LEMMA Dropped ==
  ASSUME NEW g, Now(g), NEW i \in DOMAIN cloud, Drop(i)
  PROVE  Drive(cloud', g) /\ Feed(delta', unseen', g) /\ made' = made
  <1>1. i \in ItemsIn(g)
    BY DEF Now, Good, Drive
  <1>2. Feed(delta', unseen', g)
    BY <1>1, FeedChanged DEF Drop, Now, Good
  <1>3. DOMAIN cloud' \subseteq DOMAIN cloud /\ \A j \in DOMAIN cloud' : cloud'[j] = cloud[j]
    BY DEF Drop, Without
  <1>4. Drive(cloud', g)
    BY <1>3 DEF Now, Good, Drive
  <1> QED
    BY <1>2, <1>4 DEF Drop

-----------------------------------------------------------------------------
(* Upload runs                                                             *)

\* A step that asks nothing of the cloud and leaves the handlers alone.
LEMMA CoreStep ==
  ASSUME NEW g, Now(g), Core(files', tombs', task', del', disk', g),
         NoRequest, UNCHANGED <<handles, fuse, writes, discarded>>, budget' \in [Kinds -> Nat]
  PROVE  Known'
  <1>1. /\ cloud' = cloud /\ made' = made /\ unseen' = unseen /\ delta' = delta
        /\ handles' = handles /\ fuse' = fuse /\ writes' = writes /\ discarded' = discarded
    BY DEF NoRequest
  <1>2. Good(g)'
    BY <1>1 DEF Now, Good, Rest
  <1> QED
    BY <1>1, <1>2 DEF Now, Known

\* The same for a step of an upload run.
LEMMA RunStep ==
  ASSUME NEW g, Now(g), Core(files', tombs', task', del, disk, g),
         NoRequest, OnlyTask, budget' \in [Kinds -> Nat]
  PROVE  Known'
  <1>1. del' = del /\ disk' = disk /\ UNCHANGED <<handles, fuse, writes, discarded>>
    BY DEF OnlyTask
  <1> QED
    BY <1>1, CoreStep

LEMMA RunFacts ==
  ASSUME NEW g, Now(g)
  PROVE  /\ World(g) /\ Core(files, tombs, task, del, disk, g) /\ budget \in [Kinds -> Nat]
         /\ Table(files, g) /\ Drive(cloud, g)
         /\ \A k \in DOMAIN task :
              /\ IsTask(k, task[k], g) /\ IsRow(k, task[k].r, g) /\ task[k].r.cache \in DOMAIN disk
              /\ k \in IdsIn(g) /\ k # None /\ g.home[k] = Doc
              /\ task[k].r.cache \in NamesIn(g) /\ Own(k, task[k].r.cache)
              /\ disk[task[k].r.cache] \in ContentsIn(g)
              /\ DOMAIN task[k] = TaskFields
  <1>1. World(g) /\ Core(files, tombs, task, del, disk, g) /\ budget \in [Kinds -> Nat]
        /\ Table(files, g) /\ Drive(cloud, g)
    BY DEF Now, Good, Rest, Core
  <1>2. ASSUME NEW k \in DOMAIN task
        PROVE  /\ IsTask(k, task[k], g) /\ IsRow(k, task[k].r, g)
               /\ task[k].r.cache \in DOMAIN disk /\ task[k].r.path = Doc
               /\ k \in IdsIn(g) /\ k # None
    BY <1>1, Identities DEF Core, Tasks, IsTask
  <1>3. ASSUME NEW k \in DOMAIN task
        PROVE  /\ g.home[k] = Doc /\ task[k].r.cache \in NamesIn(g) /\ Own(k, task[k].r.cache)
               /\ DOMAIN task[k] = TaskFields
    BY <1>2 DEF IsRow, IsTask
  <1>4. \A k \in DOMAIN task : disk[task[k].r.cache] \in ContentsIn(g)
    BY <1>1, <1>2 DEF Core, Disk
  <1> QED
    BY <1>1, <1>2, <1>3, <1>4

\* Moves to a place that needs no answer of the cloud.
LEMMA Moved ==
  ASSUME NEW g, NEW k \in DOMAIN task,
         NEW at \in Before \ {"commit"}, task[k].pc \in Before,
         NEW fs, Core(fs, tombs, task, del, disk, g),
         task' = With(task, k, [task[k] EXCEPT !.pc = at])
  PROVE  Core(fs, tombs, task', del, disk, g)
  <1> DEFINE t == [task[k] EXCEPT !.pc = at]
  <1>1. IsTask(k, task[k], g) /\ task[k].r.cache \in DOMAIN disk
    BY DEF Core, Tasks
  <1>2. /\ DOMAIN t = TaskFields /\ t.pc = at /\ t.r = task[k].r /\ t.p = task[k].p
        /\ t.res = task[k].res /\ t.latest = task[k].latest
    BY <1>1 DEF IsTask, TaskFields
  <1> HIDE DEF t
  <1>3. IsTask(k, t, g)
    BY <1>1, <1>2 DEF IsTask, Before, Copying
  <1>4. Core(fs, tombs, With(task, k, t), del, disk, g)
    BY <1>1, <1>2, <1>3, MoveCore
  <1> QED
    BY <1>4 DEF t

LEMMA StartUploadKeeps ==
  ASSUME NEW g, Now(g), NEW k, StartUpload(k)
  PROVE  Known'
  <1> DEFINE t == [pc |-> IF files[k].state = "conflict" THEN "claimcopy" ELSE "claim",
                   r |-> files[k], p |-> files[k].path, res |-> None, latest |-> None]
  <1>1. /\ k \in DOMAIN files /\ files[k].state \in Protected /\ ~ItemLocked(k)
        /\ files[k].cache # None /\ files[k].cache \in DOMAIN disk
        /\ task' = With(task, k, t) /\ files' = files /\ tombs' = tombs /\ budget' = budget
    BY DEF StartUpload, Goto, CacheExists, Protected
  <1>2. IsRow(k, files[k], g) /\ files[k].path = Doc /\ k \in IdsIn(g) /\ k \notin DOMAIN tombs
    <2>1. IsRow(k, files[k], g) /\ k \in IdsIn(g)
      BY <1>1, RunFacts DEF Table
    <2>2. files[k].path = Doc /\ g.home[k] = Doc
      BY <1>1, <2>1 DEF IsRow
    <2> QED
      BY <1>1, <2>1, <2>2, RunFacts DEF Core, Linked
  <1>3. /\ DOMAIN t = TaskFields /\ t.pc \in {"claimcopy", "claim"} /\ t.r = files[k] /\ t.p = Doc
    BY <1>2 DEF TaskFields
  <1> HIDE DEF t
  <1>4. IsTask(k, t, g)
    BY <1>1, <1>2, <1>3 DEF IsTask, Before, Copying
  <1>5. k \notin DOMAIN del
    BY <1>1, NotRunning, RunFacts
  <1>6. Core(files, tombs, With(task, k, t), del, disk, g)
    BY <1>1, <1>2, <1>3, <1>4, <1>5, RunFacts, GotoCore
  <1> QED
    BY <1>1, <1>6, RunFacts, RunStep DEF StartUpload

LEMMA ClaimUploadKeeps ==
  ASSUME NEW g, Now(g), NEW k, ClaimUpload(k)
  PROVE  Known'
  <1>1. /\ k \in DOMAIN task /\ task[k].pc = "claim" /\ tombs' = tombs /\ budget' = budget
        /\ NoRequest /\ OnlyTask
        /\ \/ /\ k \in DOMAIN files /\ files' = BeginUpload(files, k)
              /\ task' = With(task, k, [task[k] EXCEPT !.pc = "put"])
           \/ files' = files /\ task' = Without(task, k)
    BY DEF ClaimUpload, At, Move, Goto, Done, CanBeginUpload, Unchanged
  <1>2. CASE /\ k \in DOMAIN files /\ files' = BeginUpload(files, k)
             /\ task' = With(task, k, [task[k] EXCEPT !.pc = "put"])
    <2>1. Core(files', tombs, task, del, disk, g)
      BY <1>1, <1>2, RunFacts, BeginUploadKept, KeptCore
    <2>2. Core(files', tombs, task', del, disk, g)
      BY <1>1, <1>2, <2>1, Moved DEF Before
    <2> QED
      BY <1>1, <2>2, RunFacts, RunStep
  <1>3. CASE files' = files /\ task' = Without(task, k)
    <2>1. Core(files', tombs', task', del, disk, g)
      BY <1>1, <1>3, RunFacts, DoneCore
    <2> QED
      BY <1>1, <2>1, RunFacts, RunStep
  <1> QED
    BY <1>1, <1>2, <1>3

\* A step that makes a request, in the world after it.
LEMMA RequestStep ==
  ASSUME NEW h, World(h), h.made = made', h.last = writes'.last, Good(h),
         Core(files', tombs', task', del', disk', h), Drive(cloud', h), Feed(delta', unseen', h),
         UNCHANGED <<handles, fuse>>, Rest(budget', discarded', h)
  PROVE  Known'
  <1>1. Good(h)'
    BY DEF Good
  <1> QED
    BY <1>1 DEF Now, Known

LEMMA NothingAsked ==
  ASSUME NEW g, Now(g), NoRequest
  PROVE  Grows(g, g) /\ g.made = made' /\ Drive(cloud', g) /\ Feed(delta', unseen', g)
  BY DEF NoRequest, Now, Good, Grows, World

\* The world and the run after a request.
Sent(g, h) ==
  /\ Grows(g, h) /\ h.made = made' /\ h.last = writes.last /\ Good(h)
  /\ Drive(cloud', h) /\ Feed(delta', unseen', h) /\ budget' \in [Kinds -> Nat]

Outcome(k, t, p, acked, failed, h) ==
  \/ \E e : /\ IsEntry(e, h) /\ e.path = p /\ (t # None => e.id = t)
            /\ task' = With(task, k, [task[k] EXCEPT !.pc = acked, !.res = e])
  \/ task' = Without(task, k)
  \/ failed # None /\ task' = With(task, k, [task[k] EXCEPT !.pc = failed])
  \/ t # None /\ task' = With(task, k, [task[k] EXCEPT !.pc = "refused"])

LEMMA PutStep ==
  ASSUME NEW g, Now(g), NEW k \in DOMAIN task, NEW t, NEW p \in PathsIn(g) \ {None},
         t # None => t \in DOMAIN cloud /\ cloud[t].path = p, NEW acked, NEW failed,
         Put(k, t, p, acked, failed)
  PROVE  \E h : Sent(g, h) /\ Outcome(k, t, p, acked, failed, h)
  <1> DEFINE i == PutTarget(t, p)
             data == disk[task[k].r.cache]
             out(h) == Outcome(k, t, p, acked, failed, h)
  <1>1. budget \in [Kinds -> Nat] /\ g.last = writes.last /\ Good(g)
    BY DEF Now, Good, Rest
  <1>2. budget' \in [Kinds -> Nat]
    BY <1>1, Spent DEF Put
  <1>3. CASE /\ Store(i, p, data)
             /\ \/ Goto(k, [task[k] EXCEPT !.pc = acked, !.res = Entry(cloud', i)])
                \/ Leave(k, failed) \/ (t # None /\ Move(k, "refused"))
    <2>1. (i \in DOMAIN cloud /\ cloud[i].path = p) \/ i = CloudId(made + 1)
      BY Target
    <2>2. t # None => i = t
      BY Target
    <2>3. data \in ContentsIn(g)
      BY RunFacts
    <2> HIDE DEF i, data
    <2>4. PICK h : /\ Grows(g, h) /\ h.made = made' /\ h.last = g.last /\ Good(h)
                   /\ data \in ContentsIn(h) =>
                        /\ Drive(cloud', h) /\ Feed(delta', unseen', h)
                        /\ IsEntry(Entry(cloud', i), h)
                        /\ Entry(cloud', i).id = i /\ Entry(cloud', i).path = p
      BY <1>3, <2>1, Stored
    <2>5. data \in ContentsIn(h)
      BY <2>3, <2>4, Larger
    <2>6. out(h)
      <3>1. CASE Goto(k, [task[k] EXCEPT !.pc = acked, !.res = Entry(cloud', i)])
        <4>1. task' = With(task, k, [task[k] EXCEPT !.pc = acked, !.res = Entry(cloud', i)])
          BY <3>1 DEF Goto
        <4> QED
          BY <2>2, <2>4, <2>5, <4>1 DEF Outcome
      <3>2. CASE Leave(k, failed) \/ (t # None /\ Move(k, "refused"))
        BY <3>2 DEF Leave, Done, Move, Goto, Outcome
      <3> QED
        BY <1>3, <3>1, <3>2
    <2> QED
      BY <1>1, <1>2, <2>4, <2>5, <2>6 DEF Sent
  <1>4. CASE Leave(k, failed) /\ NoRequest
    <2>1. Grows(g, g) /\ g.made = made' /\ Drive(cloud', g) /\ Feed(delta', unseen', g)
      BY <1>4, NothingAsked
    <2>2. out(g)
      BY <1>4 DEF Leave, Done, Move, Goto, Outcome
    <2> QED
      BY <1>1, <1>2, <2>1, <2>2 DEF Sent
  <1>5. \/ /\ Store(i, p, data)
           /\ \/ Goto(k, [task[k] EXCEPT !.pc = acked, !.res = Entry(cloud', i)])
              \/ Leave(k, failed) \/ (t # None /\ Move(k, "refused"))
        \/ Leave(k, failed) /\ NoRequest
    BY DEF Put
  <1> QED
    BY <1>3, <1>4, <1>5

\* A run at the document's path, in a later world.
LEMMA LaterRun ==
  ASSUME NEW g, Now(g), NEW h, Grows(g, h), Good(h), NEW k \in DOMAIN task
  PROVE  /\ World(h) /\ Core(files, tombs, task, del, disk, h)
         /\ IsTask(k, task[k], h) /\ task[k].r.cache \in DOMAIN disk /\ DOMAIN task[k] = TaskFields
         /\ Rest(budget, discarded, h)
  BY DEF Grows, Good, Core, Tasks, IsTask

LEMMA PutFileKeeps ==
  ASSUME NEW g, Now(g), NEW k, PutFile(k)
  PROVE  Known'
  <1>1. /\ k \in DOMAIN task /\ task[k].pc = "put" /\ OnlyTask
        /\ files' = files /\ tombs' = tombs
        /\ \/ /\ Accepts(task[k].r)
              /\ Put(k, task[k].r.cloud, task[k].r.path, "commit", "failed")
           \/ Move(k, "refused") /\ NoRequest /\ budget' = budget
    BY DEF PutFile, At
  <1>2. del' = del /\ disk' = disk /\ writes' = writes /\ discarded' = discarded
        /\ handles' = handles /\ fuse' = fuse
    BY <1>1 DEF OnlyTask
  <1>3. IsTask(k, task[k], g) /\ IsRow(k, task[k].r, g) /\ task[k].r.path = Doc
    BY <1>1, RunFacts DEF IsTask
  <1>4. CASE Accepts(task[k].r) /\ Put(k, task[k].r.cloud, task[k].r.path, "commit", "failed")
    <2>0. PICK i : i = task[k].r.cloud
      OBVIOUS
    <2>1. i # None => i \in DOMAIN cloud /\ cloud[i].path = Doc
      BY <1>3, <1>4, <2>0, RunFacts DEF Accepts, Drive, IsRow
    <2>2. Doc \in PathsIn(g) \ {None}
      BY RunFacts, Defined
    <2>3. Put(k, i, Doc, "commit", "failed")
      BY <1>3, <1>4, <2>0 DEF Put
    <2>4. PICK h : Sent(g, h) /\ Outcome(k, i, Doc, "commit", "failed", h)
      <3>1. k \in DOMAIN task
        BY <1>1
      <3> QED
        BY <3>1, <2>1, <2>2, <2>3, PutStep
    <2>5. /\ World(h) /\ Core(files, tombs, task, del, disk, h) /\ IsTask(k, task[k], h)
          /\ task[k].r.cache \in DOMAIN disk /\ DOMAIN task[k] = TaskFields
          /\ Rest(budget, discarded, h)
      BY <1>1, <2>4, LaterRun DEF Sent
    <2>6. ASSUME \E e : /\ IsEntry(e, h) /\ e.path = Doc
                        /\ (i # None => e.id = i)
                        /\ task' = With(task, k, [task[k] EXCEPT !.pc = "commit", !.res = e])
          PROVE  Core(files, tombs, task', del, disk, h)
      <3>1. PICK e : /\ IsEntry(e, h) /\ e.path = Doc
                     /\ (i # None => e.id = i)
                     /\ task' = With(task, k, [task[k] EXCEPT !.pc = "commit", !.res = e])
        BY <2>6
      <3> DEFINE t == [task[k] EXCEPT !.pc = "commit", !.res = e]
      <3>2. /\ DOMAIN t = TaskFields /\ t.pc = "commit" /\ t.r = task[k].r /\ t.p = task[k].p
            /\ t.res = e /\ t.latest = task[k].latest
        BY <2>5 DEF TaskFields
      <3>3. task' = With(task, k, t)
        BY <3>1
      <3> HIDE DEF t
      <3>4. IsTask(k, t, h)
        BY <1>1, <2>0, <2>5, <3>1, <3>2 DEF IsTask, Before, Copying
      <3> QED
        BY <1>1, <2>5, <3>2, <3>3, <3>4, MoveCore
    <2>7. ASSUME \/ task' = Without(task, k)
                 \/ task' = With(task, k, [task[k] EXCEPT !.pc = "failed"])
                 \/ task' = With(task, k, [task[k] EXCEPT !.pc = "refused"])
          PROVE  Core(files, tombs, task', del, disk, h)
      <3>2. CASE task' = Without(task, k)
        BY <2>5, <3>2, DoneCore
      <3>3. ASSUME NEW at \in {"failed", "refused"},
                   task' = With(task, k, [task[k] EXCEPT !.pc = at])
            PROVE  Core(files, tombs, task', del, disk, h)
        <4>2. at \in Before \ {"commit"} /\ task[k].pc \in Before
          BY <1>1 DEF Before
        <4> QED
          BY <1>1, <2>5, <3>3, <4>2, Moved
      <3> QED
        BY <2>7, <3>2, <3>3
    <2>8. Core(files, tombs, task', del, disk, h)
      BY <2>4, <2>6, <2>7 DEF Outcome
    <2>9. Rest(budget', discarded', h)
      BY <1>2, <2>4, <2>5 DEF Rest, Sent
    <2> QED
      BY <1>1, <1>2, <2>4, <2>5, <2>8, <2>9, RequestStep DEF Sent
  <1>5. CASE Move(k, "refused") /\ NoRequest /\ budget' = budget
    <2>1. task' = With(task, k, [task[k] EXCEPT !.pc = "refused"])
      BY <1>5 DEF Move, Goto
    <2>2. Core(files, tombs, task', del, disk, g)
      BY <1>1, <2>1, RunFacts, Moved DEF Before
    <2> QED
      BY <1>1, <1>5, <2>2, RunFacts, RunStep
  <1> QED
    BY <1>1, <1>4, <1>5

\* A late answer for the tombstone of a run, which then ends.
LEMMA LateAnswer ==
  ASSUME NEW g, Now(g), NEW k \in DOMAIN task, DeletesOf(tombs, k) # {}, NEW e, IsEntry(e, g),
         e.path = Doc => task[k].r.cloud \in {None, e.id}
  PROVE  Core(files, CompleteDeleted(tombs, k, e), Without(task, k), del, disk, g)
  <1>1. Core(files, tombs, Without(task, k), del, disk, g)
    BY RunFacts, DoneCore
  <1>2. k \notin DOMAIN Without(task, k) /\ k \notin DOMAIN del /\ k # None
    BY RunFacts DEF Without, Core, Dels
  <1>3. tombs[k].cloud = task[k].r.cloud
    <2>1. PICK d \in DOMAIN tombs : tombs[d].local = k
      BY DEF DeletesOf
    <2>2. d = k
      BY <1>2, <2>1, RunFacts DEF Core, Tombs, IsTomb
    <2> QED
      BY <2>1, <2>2, RunFacts DEF Core, Linked
  <1> QED
    BY <1>1, <1>2, <1>3, RunFacts, CompleteDeletedCore

\* The answer of a run whose row is gone: the item it left is to be deleted.
LEMMA Orphaned ==
  ASSUME NEW g, Now(g), NEW k \in DOMAIN task, NEW e, IsEntry(e, g), NEW p \in PathsIn(g)
  PROVE  Core(files, QueueRemoteDelete(files, tombs, e.id, p), Without(task, k), del, disk, g)
  <1>1. Core(files, tombs, Without(task, k), del, disk, g)
    BY RunFacts, DoneCore
  <1>2. e.id \in ItemsIn(g)
    BY DEF IsEntry
  <1> QED
    BY <1>1, <1>2, RunFacts, QueueRemoteDeleteCore

LEMMA CommitFileKeeps ==
  ASSUME NEW g, Now(g), NEW k, CommitFile(k)
  PROVE  Known'
  <1> DEFINE t == task[k]
  <1>1. /\ k \in DOMAIN task /\ t.pc = "commit" /\ task' = Without(task, k)
        /\ NoRequest /\ OnlyTask /\ budget' = budget
    BY DEF CommitFile, At, Done
  <1>2. /\ IsTask(k, t, g) /\ IsEntry(t.res, g) /\ t.res.path = Doc /\ t.p = Doc
        /\ (t.r.cloud # None => t.res.id = t.r.cloud)
    BY <1>1, RunFacts DEF IsTask, Before
  <1>3. Core(files', tombs', task', del, disk, g)
    <2>1. CASE DeletesOf(tombs, k) # {}
      <3>1. files' = files /\ tombs' = CompleteDeleted(tombs, k, t.res)
        BY <2>1 DEF CommitFile
      <3> HIDE DEF t
      <3>2. t.r.cloud \in {None, t.res.id}
        BY <1>2
      <3> QED
        BY <1>1, <1>2, <2>1, <3>1, <3>2, LateAnswer DEF t
    <2>2. CASE DeletesOf(tombs, k) = {} /\ k \notin DOMAIN files
      <3>1. files' = files /\ tombs' = QueueRemoteDelete(files, tombs, t.res.id, t.p)
        BY <2>2 DEF CommitFile
      <3>2. t.p \in PathsIn(g)
        BY <1>2, RunFacts, Defined
      <3> QED
        BY <1>1, <1>2, <3>1, <3>2, Orphaned
    <2>3. CASE DeletesOf(tombs, k) = {} /\ k \in DOMAIN files
      <3>1. /\ files' = CommitUploaded(files, k, t.p, t.res, t.r.cache)
            /\ tombs' = IF files'[k].cloud = t.res.id THEN tombs
                        ELSE QueueRemoteDelete(files', tombs, t.res.id, t.p)
        BY <2>3 DEF CommitFile
      <3>2. files'[k].cloud = t.res.id /\ Core(files', tombs, Without(task, k), del, disk, g)
        BY <1>1, <2>3, <3>1, RunFacts, CommitUploadedCore
      <3>3. tombs' = tombs
        BY <3>1, <3>2
      <3> QED
        BY <1>1, <3>2, <3>3
    <2> QED
      BY <2>1, <2>2, <2>3
  <1> QED
    BY <1>1, <1>3, RunFacts, RunStep

LEMMA FailUploadKeeps ==
  ASSUME NEW g, Now(g), NEW k, FailUpload(k)
  PROVE  Known'
  <1>1. /\ k \in DOMAIN task /\ task' = Without(task, k) /\ tombs' = tombs
        /\ files' \in {files, MarkState(files, k, "dirty")}
        /\ NoRequest /\ OnlyTask /\ budget' = budget
    BY DEF FailUpload, At, Done
  <1>2. Core(files', tombs, task, del, disk, g)
    <2>1. g.home[k] = Doc /\ "dirty" \in States
      BY <1>1, RunFacts DEF States, Protected
    <2>2. Core(MarkState(files, k, "dirty"), tombs, task, del, disk, g)
      BY <2>1, RunFacts, MarkStateKept, KeptCore
    <2> QED
      BY <1>1, <2>2, RunFacts
  <1>3. Core(files', tombs', task', del, disk, g)
    BY <1>1, <1>2, DoneCore
  <1> QED
    BY <1>1, <1>3, RunFacts, RunStep

LEMMA RefuseUploadKeeps ==
  ASSUME NEW g, Now(g), NEW k, RefuseUpload(k)
  PROVE  Known'
  <1>1. /\ k \in DOMAIN task /\ tombs' = tombs /\ NoRequest /\ OnlyTask /\ budget' = budget
        /\ \/ /\ CanMarkConflict(files, k, task[k].r)
              /\ files' = MarkState(files, k, "conflict")
              /\ task' = With(task, k, [task[k] EXCEPT !.pc = "claimcopy", !.r = files'[k]])
           \/ files' = files /\ task' = Without(task, k)
    BY DEF RefuseUpload, At, Done, Goto
  <1>2. CASE /\ CanMarkConflict(files, k, task[k].r)
             /\ files' = MarkState(files, k, "conflict")
             /\ task' = With(task, k, [task[k] EXCEPT !.pc = "claimcopy", !.r = files'[k]])
    <2> DEFINE t == [task[k] EXCEPT !.pc = "claimcopy", !.r = files'[k]]
    <2>1. k \in DOMAIN files /\ files[k].cache = task[k].r.cache /\ files[k].cloud = task[k].r.cloud
      BY <1>2 DEF CanMarkConflict, Unchanged
    <2>2. g.home[k] = Doc /\ "conflict" \in States
      BY <1>1, RunFacts DEF States, Protected
    <2>3. Kept(files, files', g)
      BY <1>2, <2>2, RunFacts, MarkStateKept
    <2>4. Core(files', tombs, task, del, disk, g)
      BY <2>3, RunFacts, KeptCore
    <2>5. /\ k \in DOMAIN files' /\ files'[k].cache = files[k].cache
          /\ files'[k].cloud = files[k].cloud
      <3>1. DOMAIN files[k] = RowFields
        BY <2>1, RunFacts DEF Table, IsRow
      <3>2. files' = [files EXCEPT ![k] = [files[k] EXCEPT !.state = "conflict"]]
        BY <1>2, <2>1 DEF MarkState
      <3> QED
        BY <2>1, <3>1, <3>2 DEF RowFields
    <2>6. IsRow(k, files'[k], g) /\ files'[k].path = Doc
      BY <2>2, <2>3, <2>5 DEF Kept, IsRow
    <2>7. /\ DOMAIN t = TaskFields /\ t.pc = "claimcopy" /\ t.r = files'[k]
      BY <1>1, RunFacts DEF TaskFields
    <2>8. task[k].r.cache # None /\ task[k].r.cache \in DOMAIN disk
      BY <1>1, RunFacts DEF IsTask
    <2>t. task' = With(task, k, t)
      BY <1>2
    <2> HIDE DEF t
    <2>9. IsTask(k, t, g)
      BY <2>1, <2>5, <2>6, <2>7, <2>8 DEF IsTask, Before, Copying
    <2>10. Core(files', tombs, With(task, k, t), del, disk, g)
      BY <1>1, <2>1, <2>4, <2>5, <2>7, <2>8, <2>9, MoveCore
    <2> QED
      BY <1>1, <2>t, <2>10, RunFacts, RunStep
  <1>3. CASE files' = files /\ task' = Without(task, k)
    <2>1. Core(files', tombs', task', del, disk, g)
      BY <1>1, <1>3, RunFacts, DoneCore
    <2> QED
      BY <1>1, <2>1, RunFacts, RunStep
  <1> QED
    BY <1>1, <1>2, <1>3

LEMMA ClaimCopyKeeps ==
  ASSUME NEW g, Now(g), NEW k, ClaimCopy(k)
  PROVE  Known'
  <1> DEFINE c == task[k].r.cache
             p == CopyPath(disk[c])
             t == [task[k] EXCEPT !.pc = "copy", !.p = p]
  <1>1. /\ k \in DOMAIN task /\ tombs' = tombs /\ NoRequest /\ OnlyTask /\ budget' = budget
        /\ \/ /\ k \in DOMAIN files /\ files' = BeginConflict(files, k, p, c)
              /\ task' = With(task, k, t)
           \/ files' = files /\ task' = Without(task, k)
    BY DEF ClaimCopy, At, Done, Goto, CanBeginConflict
  <1>2. CASE /\ k \in DOMAIN files /\ files' = BeginConflict(files, k, p, c)
             /\ task' = With(task, k, t)
    <2>1. p \in PathsIn(g) \ {Doc, None}
      BY <1>1, RunFacts, Copies
    <2>2. /\ DOMAIN t = TaskFields /\ t.pc = "copy" /\ t.r = task[k].r /\ t.p = p
      BY <1>1, RunFacts DEF TaskFields
    <2>3. c \in NamesIn(g) /\ Own(k, c) /\ g.home[k] = Doc
      BY <1>1, RunFacts
    <2> HIDE DEF t, p, c
    <2>4. Core(files', tombs, task, del, disk, g)
      BY <1>2, <2>1, <2>3, RunFacts, BeginConflictKept, KeptCore
    <2>5. IsTask(k, t, g)
      BY <1>1, <2>1, <2>2, RunFacts DEF IsTask, Before, Copying
    <2>6. Core(files', tombs, With(task, k, t), del, disk, g)
      BY <1>1, <2>2, <2>4, <2>5, RunFacts, MoveCore
    <2> QED
      BY <1>1, <1>2, <2>6, RunFacts, RunStep
  <1>3. CASE files' = files /\ task' = Without(task, k)
    <2>1. Core(files', tombs', task', del, disk, g)
      BY <1>1, <1>3, RunFacts, DoneCore
    <2> QED
      BY <1>1, <2>1, RunFacts, RunStep
  <1> QED
    BY <1>1, <1>2, <1>3

LEMMA PutCopyKeeps ==
  ASSUME NEW g, Now(g), NEW k, PutCopy(k)
  PROVE  Known'
  <1>1. /\ k \in DOMAIN task /\ task[k].pc = "copy" /\ OnlyTask /\ files' = files /\ tombs' = tombs
        /\ Put(k, None, task[k].p, "copied", None)
    BY DEF PutCopy, At
  <1>2. del' = del /\ disk' = disk /\ writes' = writes /\ discarded' = discarded
        /\ handles' = handles /\ fuse' = fuse
    BY <1>1 DEF OnlyTask
  <1>0. PICK p : p = task[k].p
    OBVIOUS
  <1>3. p \in PathsIn(g) \ {Doc, None}
    BY <1>0, <1>1, RunFacts DEF IsTask, Copying
  <1>4. Put(k, None, p, "copied", None)
    BY <1>0, <1>1 DEF Put
  <1>5. PICK h : Sent(g, h) /\ Outcome(k, None, p, "copied", None, h)
    BY <1>1, <1>3, <1>4, PutStep
  <1>6. /\ World(h) /\ Core(files, tombs, task, del, disk, h) /\ IsTask(k, task[k], h)
        /\ task[k].r.cache \in DOMAIN disk /\ DOMAIN task[k] = TaskFields
        /\ Rest(budget, discarded, h)
    BY <1>1, <1>5, LaterRun DEF Sent
  <1>7. Core(files, tombs, task', del, disk, h)
    <2>1. CASE task' = Without(task, k)
      BY <1>6, <2>1, DoneCore
    <2>2. ASSUME NEW e, IsEntry(e, h), e.path = p,
                 task' = With(task, k, [task[k] EXCEPT !.pc = "copied", !.res = e])
          PROVE  Core(files, tombs, task', del, disk, h)
      <3> DEFINE t == [task[k] EXCEPT !.pc = "copied", !.res = e]
      <3>1. /\ DOMAIN t = TaskFields /\ t.pc = "copied" /\ t.r = task[k].r /\ t.p = task[k].p
            /\ t.res = e /\ t.latest = task[k].latest
        BY <1>6 DEF TaskFields
      <3>2. task' = With(task, k, t)
        BY <2>2
      <3> HIDE DEF t
      <3>3. IsTask(k, t, h)
        BY <1>1, <1>3, <1>6, <2>2, <3>1 DEF IsTask, Before, Copying
      <3> QED
        BY <1>1, <1>6, <3>1, <3>2, <3>3, MoveCore
    <2> QED
      BY <1>5, <2>1, <2>2 DEF Outcome
  <1>8. Rest(budget', discarded', h)
    BY <1>2, <1>5, <1>6 DEF Rest, Sent
  <1> QED
    BY <1>1, <1>2, <1>5, <1>6, <1>7, <1>8, RequestStep DEF Sent

LEMMA AskLatestKeeps ==
  ASSUME NEW g, Now(g), NEW k, AskLatest(k)
  PROVE  Known'
  <1> DEFINE e == IF task[k].r.cloud \in DOMAIN cloud THEN Entry(cloud, task[k].r.cloud) ELSE None
             t == [task[k] EXCEPT !.pc = "publish", !.latest = e]
  <1>1. /\ k \in DOMAIN task /\ task[k].pc = "copied" /\ files' = files /\ NoRequest /\ OnlyTask
        /\ \/ /\ DeletesOf(tombs, k) # {} /\ tombs' = CompleteDeleted(tombs, k, task[k].res)
              /\ task' = Without(task, k)
           \/ tombs' = tombs /\ task' = With(task, k, t)
           \/ tombs' = tombs /\ task' = Without(task, k)
    BY DEF AskLatest, At, Done, Goto
  <1>2. budget' \in [Kinds -> Nat]
    BY RunFacts, Spent DEF AskLatest
  <1>3. IsTask(k, task[k], g) /\ IsEntry(task[k].res, g) /\ task[k].res.path # Doc
    BY <1>1, RunFacts DEF IsTask, Copying
  <1>4. Core(files', tombs', task', del, disk, g)
    <2>1. CASE /\ DeletesOf(tombs, k) # {} /\ tombs' = CompleteDeleted(tombs, k, task[k].res)
               /\ task' = Without(task, k)
      BY <1>1, <1>3, <2>1, LateAnswer
    <2>2. CASE tombs' = tombs /\ task' = With(task, k, t)
      <3>1. e = None \/ IsEntry(e, g)
        BY RunFacts, DriveEntry
      <3>2. /\ DOMAIN t = TaskFields /\ t.pc = "publish" /\ t.r = task[k].r /\ t.p = task[k].p
            /\ t.res = task[k].res /\ t.latest = e
        BY <1>1, RunFacts DEF TaskFields
      <3> HIDE DEF t, e
      <3>3. IsTask(k, t, g)
        BY <1>1, <1>3, <3>1, <3>2 DEF IsTask, Before, Copying
      <3>4. Core(files, tombs, With(task, k, t), del, disk, g)
        BY <1>1, <3>2, <3>3, RunFacts, MoveCore
      <3> QED
        BY <1>1, <2>2, <3>4
    <2>3. CASE tombs' = tombs /\ task' = Without(task, k)
      BY <1>1, <2>3, RunFacts, DoneCore
    <2> QED
      BY <1>1, <2>1, <2>2, <2>3
  <1> QED
    BY <1>1, <1>2, <1>4, RunStep

\* The steps under the commit lock once the copy has a row.
LEMMA UnderLock ==
  ASSUME NEW g, NEW k \in DOMAIN task, NEW fs, Core(fs, tombs, task, del, disk, g),
         IsEntry(task[k].latest, g), task[k].pc \in {"publish", "detach"},
         NEW at \in {"detach", "import"}, task' = With(task, k, [task[k] EXCEPT !.pc = at])
  PROVE  Core(fs, tombs, task', del, disk, g)
  <1> DEFINE t == [task[k] EXCEPT !.pc = at]
  <1>1. IsTask(k, task[k], g) /\ task[k].r.cache \in DOMAIN disk
    BY DEF Core, Tasks
  <1>2. /\ DOMAIN t = TaskFields /\ t.pc = at /\ t.r = task[k].r /\ t.p = task[k].p
        /\ t.res = task[k].res /\ t.latest = task[k].latest
    BY <1>1 DEF IsTask, TaskFields
  <1> HIDE DEF t
  <1>3. IsTask(k, t, g)
    BY <1>1, <1>2 DEF IsTask, Before, Copying
  <1>4. Core(fs, tombs, With(task, k, t), del, disk, g)
    BY <1>1, <1>2, <1>3, MoveCore
  <1> QED
    BY <1>4 DEF t

LEMMA UpsertCore ==
  ASSUME NEW g, NEW fs, NEW ds, NEW ts, NEW xs, NEW dk, World(g), Core(fs, ds, ts, xs, dk, g),
         NEW e, IsEntry(e, g)
  PROVE  Core(Upsert(fs, ds, e), ds, ts, xs, dk, g)
  <1>1. Table(Upsert(fs, ds, e), g) /\ Linked(Upsert(fs, ds, e), ds, ts, g)
    BY UpsertKeeps DEF Core
  <1> QED
    BY <1>1 DEF Core

LEMMA PublishCopyKeeps ==
  ASSUME NEW g, Now(g), NEW k, PublishCopy(k)
  PROVE  Known'
  <1> DEFINE t == task[k]
  <1>1. k \in DOMAIN task /\ t.pc = "publish" /\ NoRequest /\ OnlyTask
    BY DEF PublishCopy, At
  <1>5. budget' \in [Kinds -> Nat]
    BY RunFacts, Spent DEF PublishCopy
  <1>2. /\ IsTask(k, t, g) /\ IsEntry(t.res, g) /\ t.res.path # Doc /\ t.p \in PathsIn(g)
        /\ t.latest = None \/ IsEntry(t.latest, g)
    BY <1>1, RunFacts DEF IsTask, Copying
  <1>3. t.r.cache \in NamesIn(g)
    BY <1>1, RunFacts
  <1>4. Core(files', tombs', task', del, disk, g)
    <2>1. CASE DeletesOf(tombs, k) # {}
      <3>1. files' = files /\ tombs' = CompleteDeleted(tombs, k, t.res) /\ task' = Without(task, k)
        BY <2>1 DEF PublishCopy, Done
      <3> QED
        BY <1>1, <1>2, <2>1, <3>1, LateAnswer
    <2>2. CASE DeletesOf(tombs, k) = {} /\ k \notin DOMAIN files
      <3>1. /\ files' = files /\ tombs' = QueueRemoteDelete(files, tombs, t.res.id, t.p)
            /\ task' = Without(task, k)
        BY <2>2 DEF PublishCopy, Done
      <3> QED
        BY <1>1, <1>2, <3>1, Orphaned
    <2>3. CASE DeletesOf(tombs, k) = {} /\ k \in DOMAIN files /\ t.latest # None
      <3> DEFINE fs == Upsert(files, tombs, t.res)
      <3>1. /\ tombs' = tombs
            /\ \/ /\ files' = MarkCached(fs, t.res.id, t.r.cache)
                  /\ task' = With(task, k, [task[k] EXCEPT !.pc = "detach"])
               \/ files' = fs /\ task' = Without(task, k)
        BY <2>3 DEF PublishCopy, Move, Goto, Done
      <3>2. Core(fs, tombs, task, del, disk, g)
        BY <1>2, RunFacts, UpsertCore
      <3>3. g.home[t.res.id] # Doc
        BY <1>2 DEF IsEntry
      <3> HIDE DEF fs
      <3>4. CASE /\ files' = MarkCached(fs, t.res.id, t.r.cache)
                 /\ task' = With(task, k, [task[k] EXCEPT !.pc = "detach"])
        <4>1. Core(files', tombs, task, del, disk, g)
          BY <1>3, <3>2, <3>3, <3>4, RunFacts, MarkCachedKept, KeptCore DEF Core
        <4> QED
          BY <1>1, <1>2, <2>3, <3>1, <3>4, <4>1, UnderLock
      <3>5. CASE files' = fs /\ task' = Without(task, k)
        BY <3>1, <3>2, <3>5, DoneCore
      <3> QED
        BY <3>1, <3>4, <3>5
    <2>4. CASE DeletesOf(tombs, k) = {} /\ k \in DOMAIN files /\ t.latest = None
      <3>1. /\ files' = IF CanAdoptCopy(files, t.res, k)
                          THEN CompleteMissing(files, k, t.r, t.res, t.r.cache) ELSE files
            /\ tombs' = tombs /\ task' = Without(task, k)
        BY <2>4 DEF PublishCopy, Done
      <3>2. Core(files', tombs, task, del, disk, g)
        <4>1. CASE CanAdoptCopy(files, t.res, k)
          BY <1>2, <1>3, <2>4, <3>1, <4>1, RunFacts, CompleteMissingCore
        <4>2. CASE ~CanAdoptCopy(files, t.res, k)
          BY <3>1, <4>2, RunFacts
        <4> QED
          BY <4>1, <4>2
      <3> QED
        BY <3>1, <3>2, DoneCore
    <2> QED
      BY <2>1, <2>2, <2>3, <2>4
  <1> QED
    BY <1>1, <1>4, <1>5, RunFacts, RunStep

LEMMA DetachOriginalKeeps ==
  ASSUME NEW g, Now(g), NEW k, DetachOriginal(k)
  PROVE  Known'
  <1>1. /\ k \in DOMAIN task /\ task[k].pc = "detach" /\ NoRequest /\ OnlyTask /\ budget' = budget
        /\ files' = MarkOnlineOnly(files, k) /\ tombs' = tombs
        /\ task' = With(task, k, [task[k] EXCEPT !.pc = "import"])
    BY DEF DetachOriginal, At, Move, Goto
  <1>2. Core(files', tombs, task, del, disk, g)
    BY <1>1, RunFacts, OnlineOnlyKept, KeptCore
  <1>3. IsEntry(task[k].latest, g)
    BY <1>1, RunFacts DEF IsTask
  <1>4. Core(files', tombs, task', del, disk, g)
    BY <1>1, <1>2, <1>3, UnderLock
  <1> QED
    BY <1>1, <1>4, RunFacts, RunStep

LEMMA ImportLatestKeeps ==
  ASSUME NEW g, Now(g), NEW k, ImportLatest(k)
  PROVE  Known'
  <1>1. /\ k \in DOMAIN task /\ task[k].pc = "import" /\ NoRequest /\ OnlyTask /\ budget' = budget
        /\ files' = Upsert(files, tombs, task[k].latest) /\ tombs' = tombs
        /\ task' = Without(task, k)
    BY DEF ImportLatest, At, Done
  <1>2. IsEntry(task[k].latest, g)
    BY <1>1, RunFacts DEF IsTask
  <1>3. Core(files', tombs, task', del, disk, g)
    BY <1>1, <1>2, RunFacts, UpsertCore, DoneCore
  <1> QED
    BY <1>1, <1>3, RunFacts, RunStep

-----------------------------------------------------------------------------
(* Deletion runs                                                           *)

LEMMA DropCleanupKeeps ==
  ASSUME NEW g, Now(g), NEW d, DropCleanup(d)
  PROVE  Known'
  <1>1. /\ d \in DOMAIN tombs /\ ~ItemLocked(d) /\ tombs' = Without(tombs, d)
        /\ files' = files /\ disk' = disk /\ del' = del /\ task' = task /\ budget' = budget
        /\ NoRequest /\ UNCHANGED <<handles, fuse, writes, discarded>>
    BY DEF DropCleanup, OnlyDel
  <1>2. d \notin DOMAIN task /\ d \notin DOMAIN del
    BY <1>1, RunFacts, NotRunning
  <1>3. Core(files, Without(tombs, d), task, Without(del, d), disk, g)
    BY <1>1, <1>2, RunFacts, RetireCore
  <1>4. Core(files', tombs', task', del', disk', g)
    <2>1. DOMAIN del \ {d} = DOMAIN del
      BY <1>2
    <2>2. Dels(del, Without(tombs, d), task, disk)
      <3>1. DOMAIN Without(del, d) = DOMAIN del /\ \A x \in DOMAIN del : Without(del, d)[x] = del[x]
        BY <1>2, <2>1 DEF Without
      <3> QED
        BY <1>3, <3>1 DEF Core, Dels
    <2> QED
      BY <1>1, <1>3, <2>2 DEF Core
  <1> QED
    BY <1>1, <1>4, RunFacts, CoreStep

LEMMA StartDeleteKeeps ==
  ASSUME NEW g, Now(g), NEW d, StartDelete(d)
  PROVE  Known'
  <1> DEFINE replay == tombs[d].up.path # None /\ tombs[d].up.target = None
             x == [pc |-> IF replay THEN "replay" ELSE "remove", lock |-> LockOf(d)]
  <1>1. /\ d \in DOMAIN tombs /\ ~ItemLocked(LockOf(d)) /\ del' = With(del, d, x)
        /\ replay => tombs[d].up.cache \in DOMAIN disk
        /\ files' = files /\ disk' = disk /\ tombs' = tombs /\ task' = task /\ budget' = budget
        /\ NoRequest /\ UNCHANGED <<handles, fuse, writes, discarded>>
    BY DEF StartDelete, OnlyDel
  <1>2. LockOf(d) = d
    BY <1>1, RunFacts DEF LockOf, Core, Tombs, IsTomb
  <1>3. d \notin DOMAIN task
    BY <1>1, <1>2, RunFacts, NotRunning
  <1>4. DOMAIN x = {"pc", "lock"} /\ x.lock = d /\ (x.pc = "replay" => replay)
    BY <1>2
  <1> HIDE DEF x
  <1>5. /\ DOMAIN del' = DOMAIN del \cup {d} /\ del'[d] = x
        /\ \A e \in DOMAIN del : e # d => del'[e] = del[e]
    BY <1>1 DEF With
  <1>6. Dels(del', tombs, task, disk)
    <2>1. ASSUME NEW e \in DOMAIN del'
          PROVE  /\ e \notin DOMAIN task
                 /\ DOMAIN del'[e] = {"pc", "lock"} /\ del'[e].lock = e
                 /\ del'[e].pc = "replay" =>
                      /\ tombs[e].up.path # None /\ tombs[e].up.target = None
                      /\ tombs[e].up.cache \in DOMAIN disk
      <3>1. CASE e = d
        BY <1>1, <1>3, <1>4, <1>5, <3>1
      <3>2. CASE e # d
        BY <1>5, <3>2, RunFacts DEF Core, Dels
      <3> QED
        BY <3>1, <3>2
    <2>2. DOMAIN del' \subseteq DOMAIN tombs
      BY <1>1, <1>5, RunFacts DEF Core, Dels
    <2> QED
      BY <2>1, <2>2 DEF Dels
  <1>7. Core(files', tombs', task', del', disk', g)
    BY <1>1, <1>6, RunFacts DEF Core
  <1> QED
    BY <1>1, <1>7, RunFacts, CoreStep

LEMMA ReplayKeeps ==
  ASSUME NEW g, Now(g), NEW d, Replay(d)
  PROVE  Known'
  <1> DEFINE i == PutTarget(None, tombs[d].up.path)
             data == disk[tombs[d].up.cache]
  <1>1. /\ d \in DOMAIN del /\ del[d].pc = "replay"
        /\ files' = files /\ disk' = disk /\ task' = task
        /\ handles' = handles /\ fuse' = fuse /\ writes' = writes /\ discarded' = discarded
    BY DEF Replay, Deleting, OnlyDel
  <1>2. /\ tombs[d].up.path # None /\ tombs[d].up.target = None /\ tombs[d].up.cache \in DOMAIN disk
        /\ d \in DOMAIN tombs /\ IsTomb(d, tombs[d], g) /\ d \notin DOMAIN task /\ d # None
    BY <1>1, RunFacts, Identities DEF Core, Dels, Tombs
  <1>3. tombs[d].local = d /\ DeletesOf(tombs, d) # {}
    BY <1>2 DEF IsTomb, DeletesOf
  <1>0. PICK p : p = tombs[d].up.path
    OBVIOUS
  <1>4. p \in PathsIn(g) \ {None} /\ (p = Doc => tombs[d].cloud = None)
    BY <1>0, <1>2, <1>3 DEF IsTomb, ClaimsIn, Unbound
  <1>5. data \in ContentsIn(g)
    BY <1>2, RunFacts DEF Core, Disk
  <1>6. (i \in DOMAIN cloud /\ cloud[i].path = p) \/ i = CloudId(made + 1)
    BY <1>0, Target
  <1>b. budget' \in [Kinds -> Nat]
    BY RunFacts, Spent DEF Replay, GiveUp
  <1>7. \/ /\ Store(i, p, data)
           /\ \/ /\ tombs' = CompleteDeleted(tombs, d, Entry(cloud', i))
                 /\ del' = [del EXCEPT ![d].pc = "remove"]
              \/ del' = Without(del, d) /\ tombs' = tombs
        \/ del' = Without(del, d) /\ tombs' = tombs /\ NoRequest
    BY <1>0, <1>3 DEF Replay, GiveUp, Store
  <1> HIDE DEF i, data
  <1>8. ASSUME NEW h, World(h), Core(files, tombs, task, del, disk, h), del' = Without(del, d)
        PROVE  Core(files, tombs, task, del', disk, h)
    <2>1. DOMAIN del' \subseteq DOMAIN del /\ \A e \in DOMAIN del' : del'[e] = del[e]
      BY <1>8 DEF Without
    <2>2. \A e \in DOMAIN del' : /\ DOMAIN del'[e] = {"pc", "lock"} /\ del'[e].lock = del[e].lock
                                 /\ del'[e].pc = "replay" => del[e].pc = "replay"
      BY <2>1, RunFacts DEF Core, Dels
    <2> QED
      BY <1>8, <2>1, <2>2, DelsCore
  <1>9. CASE /\ Store(i, p, data)
             /\ \/ /\ tombs' = CompleteDeleted(tombs, d, Entry(cloud', i))
                   /\ del' = [del EXCEPT ![d].pc = "remove"]
                \/ del' = Without(del, d) /\ tombs' = tombs
    <2>l. g.last = writes.last
      BY DEF Now
    <2>1. PICK h : /\ Grows(g, h) /\ h.made = made' /\ h.last = g.last /\ Good(h)
                   /\ data \in ContentsIn(h) =>
                        /\ Drive(cloud', h) /\ Feed(delta', unseen', h)
                        /\ IsEntry(Entry(cloud', i), h)
                        /\ Entry(cloud', i).id = i /\ Entry(cloud', i).path = p
      BY <1>4, <1>6, <1>9, Stored
    <2>2. data \in ContentsIn(h) /\ World(h) /\ Core(files, tombs, task, del, disk, h)
          /\ Rest(budget, discarded, h)
      BY <1>5, <2>1, Larger DEF Grows, Good
    <2>3. CASE /\ tombs' = CompleteDeleted(tombs, d, Entry(cloud', i))
               /\ del' = [del EXCEPT ![d].pc = "remove"]
      <3>1. DOMAIN del' = DOMAIN del /\ del'[d] = [del[d] EXCEPT !.pc = "remove"]
            /\ \A e \in DOMAIN del : e # d => del'[e] = del[e]
        BY <1>1, <2>3
      <3>2. /\ del'[d].pc = "remove" /\ DOMAIN del'[d] = {"pc", "lock"}
            /\ del'[d].lock = del[d].lock
        BY <1>1, <3>1, RunFacts DEF Core, Dels
      <3>3. \A e \in DOMAIN del' : /\ DOMAIN del'[e] = {"pc", "lock"} /\ del'[e].lock = del[e].lock
                                   /\ del'[e].pc = "replay" => del[e].pc = "replay"
        BY <3>1, <3>2, RunFacts DEF Core, Dels
      <3>4. Core(files, tombs, task, del', disk, h)
        BY <2>2, <3>1, <3>3, DelsCore
      <3>5. Entry(cloud', i).path = Doc => tombs[d].cloud \in {None, Entry(cloud', i).id}
        BY <1>4, <2>1, <2>2
      <3> DEFINE e == Entry(cloud', i)
      <3> HIDE DEF e
      <3>6. IsEntry(e, h) /\ (e.path = Doc => tombs[d].cloud \in {None, e.id})
        BY <2>1, <2>2, <3>5 DEF e
      <3>7. Core(files, CompleteDeleted(tombs, d, e), task, del', disk, h)
        BY <1>2, <1>3, <2>2, <3>2, <3>4, <3>6, CompleteDeletedCore
      <3>8. Core(files, tombs', task, del', disk, h)
        BY <2>3, <3>7 DEF e
      <3> QED
        BY <1>1, <1>b, <2>l, <2>1, <2>2, <3>8, RequestStep DEF Rest
    <2>4. CASE del' = Without(del, d) /\ tombs' = tombs
      <3>1. Core(files, tombs, task, del', disk, h)
        BY <1>8, <2>2, <2>4
      <3> QED
        BY <1>1, <1>b, <2>l, <2>1, <2>2, <2>4, <3>1, RequestStep DEF Rest
    <2> QED
      BY <1>9, <2>3, <2>4
  <1>10. CASE del' = Without(del, d) /\ tombs' = tombs /\ NoRequest
    <2>1. Core(files, tombs, task, del', disk, g)
      BY <1>8, <1>10, RunFacts
    <2> QED
      BY <1>1, <1>b, <1>10, <2>1, CoreStep
  <1> QED
    BY <1>7, <1>9, <1>10

LEMMA RemoveRemoteKeeps ==
  ASSUME NEW g, Now(g), NEW d, RemoveRemote(d)
  PROVE  Known'
  <1>1. /\ d \in DOMAIN del /\ del[d].pc = "remove"
        /\ files' = files /\ tombs' = tombs /\ disk' = disk
        /\ task' = task /\ handles' = handles /\ fuse' = fuse /\ writes' = writes
        /\ discarded' = discarded
        /\ del' \in {[del EXCEPT ![d].pc = "clean"], Without(del, d)}
        /\ NoRequest \/ (tombs[d].cloud \in DOMAIN cloud /\ Drop(tombs[d].cloud))
    BY DEF RemoveRemote, Deleting, OnlyDel, GiveUp
  <1>b. budget' \in [Kinds -> Nat]
    BY RunFacts, Spent DEF RemoveRemote, GiveUp
  <1>2. Core(files, tombs, task, del', disk, g)
    <2>1. /\ DOMAIN del' \subseteq DOMAIN del
          /\ \A e \in DOMAIN del' : /\ DOMAIN del'[e] = {"pc", "lock"} /\ del'[e].lock = del[e].lock
                                    /\ del'[e].pc = "replay" => del[e].pc = "replay"
      <3>1. CASE del' = Without(del, d)
        BY <3>1, RunFacts DEF Without, Core, Dels
      <3>2. CASE del' = [del EXCEPT ![d].pc = "clean"]
        <4>1. DOMAIN del' = DOMAIN del /\ del'[d] = [del[d] EXCEPT !.pc = "clean"]
              /\ \A e \in DOMAIN del : e # d => del'[e] = del[e]
          BY <1>1, <3>2
        <4>2. /\ del'[d].pc = "clean" /\ DOMAIN del'[d] = {"pc", "lock"}
              /\ del'[d].lock = del[d].lock
          BY <1>1, <4>1, RunFacts DEF Core, Dels
        <4> QED
          BY <4>1, <4>2, RunFacts DEF Core, Dels
      <3> QED
        BY <1>1, <3>1, <3>2
    <2> QED
      BY <2>1, RunFacts, DelsCore
  <1>3. CASE NoRequest
    BY <1>1, <1>b, <1>2, <1>3, CoreStep
  <1>4. CASE tombs[d].cloud \in DOMAIN cloud /\ Drop(tombs[d].cloud)
    <2>1. PICK i \in DOMAIN cloud : Drop(i)
      BY <1>4 DEF Drop, Changed
    <2>2. Drive(cloud', g) /\ Feed(delta', unseen', g) /\ made' = made
      BY <2>1, Dropped
    <2>3. World(g) /\ g.made = made' /\ g.last = writes'.last /\ Good(g)
      BY <1>1, <2>2 DEF Now
    <2>4. Rest(budget', discarded', g)
      BY <1>1, <1>b, <2>3 DEF Rest, Good
    <2> QED
      BY <1>1, <1>2, <2>2, <2>3, <2>4, RequestStep
  <1> QED
    BY <1>1, <1>3, <1>4

LEMMA RetireDeleteKeeps ==
  ASSUME NEW g, Now(g), NEW d, RetireDelete(d)
  PROVE  Known'
  <1>1. /\ d \in DOMAIN del /\ disk' = [c \in DOMAIN disk \ Caches(d) |-> disk[c]]
        /\ tombs' = Without(tombs, d) /\ del' = Without(del, d)
        /\ files' = files /\ task' = task /\ budget' = budget
        /\ NoRequest /\ UNCHANGED <<handles, fuse, writes, discarded>>
    BY DEF RetireDelete, Deleting, OnlyDel
  <1>2. d \in DOMAIN tombs /\ d \notin DOMAIN task
    BY <1>1, RunFacts DEF Core, Dels
  <1>3. /\ DOMAIN disk' \subseteq DOMAIN disk /\ \A c \in DOMAIN disk' : disk'[c] = disk[c]
        /\ DOMAIN disk \ DOMAIN disk' \subseteq {tombs[d].cache, tombs[d].up.cache} \ {None}
    BY <1>1 DEF Caches
  <1>4. Core(files, Without(tombs, d), task, Without(del, d), disk', g)
    BY <1>2, <1>3, RunFacts, RetireCore
  <1> QED
    BY <1>1, <1>4, RunFacts, CoreStep

-----------------------------------------------------------------------------
(* Handlers                                                                *)

LEMMA LocalStep ==
  ASSUME NEW h, World(h), h.made = made', h.last = writes'.last, Good(h),
         Core(files', tombs', task', del', disk', h), UNCHANGED <<cloud, unseen, delta>>,
         Opens(handles', h), Handler(fuse', h), Rest(budget', discarded', h)
  PROVE  Known'
  <1>1. cloud' = cloud /\ unseen' = unseen /\ delta' = delta
    OBVIOUS
  <1>2. Good(h)'
    BY <1>1 DEF Good
  <1> QED
    BY <1>2 DEF Now, Known

LEMMA Facts ==
  ASSUME NEW g, Now(g)
  PROVE  /\ World(g) /\ Good(g) /\ g.made = made /\ g.last = writes.last
         /\ Core(files, tombs, task, del, disk, g) /\ Table(files, g) /\ Disk(disk, g)
         /\ Drive(cloud, g) /\ Opens(handles, g) /\ Handler(fuse, g) /\ Rest(budget, discarded, g)
         /\ budget \in [Kinds -> Nat] /\ discarded \in ContentsIn(g)
  BY DEF Now, Good, Core, Rest

LEMMA DocRow ==
  ASSUME NEW g, Now(g), NEW k \in RowAt(files, Doc)
  PROVE  /\ k \in DOMAIN files /\ k \in IdsIn(g) /\ k # None /\ IsRow(k, files[k], g)
         /\ files[k].path = Doc /\ g.home[k] = Doc /\ Own(k, files[k].cache)
         /\ DOMAIN files[k] = RowFields /\ files[k].etag \in EtagsIn(g) /\ files[k].gen \in Nat
  <1>1. k \in DOMAIN files /\ files[k].path = Doc
    BY DEF RowAt
  <1>2. k \in IdsIn(g) /\ IsRow(k, files[k], g) /\ k # None
    BY <1>1, Facts, Identities DEF Table
  <1> QED
    BY <1>1, <1>2 DEF IsRow

LEMMA OpensMore ==
  ASSUME NEW g, NEW hs, Opens(hs, g), NEW h \in Handles, NEW k \in IdsIn(g), g.home[k] = Doc,
         NEW c, NEW r, NEW b
  PROVE  Opens(With(hs, h, Opened(k, c, r, b)), g)
  <1> DEFINE o == Opened(k, c, r, b)
  <1>1. DOMAIN o = HandleFields /\ o.k = k
    BY DEF Opened, HandleFields
  <1> HIDE DEF o
  <1>2. /\ DOMAIN With(hs, h, o) = DOMAIN hs \cup {h} /\ With(hs, h, o)[h] = o
        /\ \A j \in DOMAIN hs : j # h => With(hs, h, o)[j] = hs[j]
    BY DEF With
  <1>3. Opens(With(hs, h, o), g)
    BY <1>1, <1>2 DEF Opens
  <1> QED
    BY <1>3 DEF o

LEMMA OwnName ==
  ASSUME NEW g, World(g), NEW k \in IdsIn(g), NEW n \in Nat
  PROVE  <<k, n>> \in NamesIn(g) /\ Own(k, <<k, n>>) /\ <<k, n>> \in IdsIn(g) \X Nat
         /\ <<k, n>> # None
  BY Defined DEF NamesIn, Own

LEMMA DiskMore ==
  ASSUME NEW g, NEW dk, Disk(dk, g), NEW c \in IdsIn(g) \X Nat, NEW data \in ContentsIn(g)
  PROVE  Disk(With(dk, c, data), g) /\ DOMAIN dk \subseteq DOMAIN With(dk, c, data)
  BY DEF Disk, With

LEMMA EtagData ==
  ASSUME NEW g, NEW e \in EtagsIn(g), e # None
  PROVE  e.data \in ContentsIn(g)
  BY DEF EtagsIn

LEMMA OpenCachedKeeps ==
  ASSUME NEW g, Now(g), NEW h \in Handles, OpenCached(h)
  PROVE  Known'
  <1>1. PICK k \in RowAt(files, Doc) :
          handles' = With(handles, h, Opened(k, files[k].cache, UploadEtag(files[k]), FALSE))
    BY DEF OpenCached
  <1>2. /\ files' = files /\ tombs' = tombs /\ task' = task /\ del' = del /\ disk' = disk
        /\ fuse' = fuse /\ writes' = writes /\ discarded' = discarded
        /\ cloud' = cloud /\ made' = made /\ unseen' = unseen /\ delta' = delta
    BY DEF OpenCached, FuseOnly, NoRequest
  <1>3. Opens(handles', g)
    BY <1>1, DocRow, Facts, OpensMore
  <1>4. Rest(budget', discarded', g)
    BY <1>2, Facts, Spent DEF OpenCached, Rest
  <1> QED
    BY <1>2, <1>3, <1>4, Facts, LocalStep

LEMMA OpenInvalidKeeps ==
  ASSUME NEW g, Now(g), OpenInvalid
  PROVE  Known'
  <1>1. PICK k \in RowAt(files, Doc) :
          files' = [files EXCEPT ![k].state = "online", ![k].cache = None, ![k].gen = @ + 1]
    BY DEF OpenInvalid
  <1>2. /\ tombs' = tombs /\ task' = task /\ del' = del /\ disk' = disk /\ handles' = handles
        /\ fuse' = fuse /\ writes' = writes /\ discarded' = discarded
        /\ cloud' = cloud /\ made' = made /\ unseen' = unseen /\ delta' = delta
    BY DEF OpenInvalid, FuseOnly, NoRequest
  <1>3. k \in DOMAIN files /\ DOMAIN files[k] = RowFields
    BY DocRow
  <1>4. PICK up, gen : up = files[k].up /\ gen = files[k].gen + 1
    OBVIOUS
  <1>5. files' = [files EXCEPT ![k] = [files[k] EXCEPT !.state = "online", !.cache = None,
                                                       !.up = up, !.gen = gen]]
    BY <1>1, <1>3, <1>4 DEF RowFields
  <1>7. Kept(files, files', g)
    BY <1>3, <1>4, <1>5, Facts, DetachKept
  <1>8. Core(files', tombs, task, del, disk, g)
    BY <1>7, Facts, KeptCore
  <1>6. Rest(budget', discarded', g)
    BY <1>2, Facts, Spent DEF OpenInvalid, Rest
  <1> QED
    BY <1>2, <1>6, <1>8, Facts, LocalStep

LEMMA OpenOnlineKeeps ==
  ASSUME NEW g, Now(g), NEW h \in Handles, OpenOnline(h)
  PROVE  Known'
  <1>1. PICK k \in RowAt(files, Doc) :
          LET r == files[k]  c == DownloadCache(k, r.gen)
          IN /\ r.cloud \in DOMAIN cloud
             /\ IF cloud[r.cloud].etag = r.etag
                  THEN /\ files' = MarkCached(files, k, c)
                       /\ disk' = With(disk, c, r.etag.data)
                       /\ handles' = With(handles, h, Opened(k, c, UploadEtag(r), FALSE))
                  ELSE /\ files' = Upsert([files EXCEPT ![k].state = "online", ![k].cache = None],
                                          tombs, Entry(cloud, r.cloud))
                       /\ UNCHANGED <<disk, handles>>
    BY DEF OpenOnline
  <1>2. /\ tombs' = tombs /\ task' = task /\ del' = del
        /\ fuse' = fuse /\ writes' = writes /\ discarded' = discarded
        /\ cloud' = cloud /\ made' = made /\ unseen' = unseen /\ delta' = delta
    BY DEF OpenOnline, FuseOnly, NoRequest
  <1>3. /\ k \in DOMAIN files /\ DOMAIN files[k] = RowFields /\ k \in IdsIn(g) /\ g.home[k] = Doc
        /\ files[k].gen \in Nat
    BY DocRow
  <1>4. Rest(budget', discarded', g)
    BY <1>2, Facts, Spent DEF OpenOnline, Rest
  <1>5. CASE cloud[files[k].cloud].etag = files[k].etag
    <2> DEFINE c == DownloadCache(k, files[k].gen)
    <2>1. /\ files' = MarkCached(files, k, c) /\ disk' = With(disk, c, files[k].etag.data)
          /\ handles' = With(handles, h, Opened(k, c, UploadEtag(files[k]), FALSE))
      BY <1>1, <1>5
    <2>2. files[k].etag \in EtagsIn(g) \ {None}
      BY <1>1, <1>5, Facts DEF Drive
    <2>3. c \in NamesIn(g) /\ Own(k, c) /\ c \in IdsIn(g) \X Nat
      BY <1>3, Facts, OwnName DEF DownloadCache
    <2> HIDE DEF c
    <2>4. Disk(disk', g) /\ DOMAIN disk \subseteq DOMAIN disk'
      BY <2>1, <2>2, <2>3, Facts, EtagData, DiskMore
    <2>5. Core(files', tombs, task, del, disk, g)
      BY <2>1, <2>3, Facts, MarkCachedKept, KeptCore
    <2>6. Core(files', tombs, task, del, disk', g)
      BY <2>4, <2>5, DiskCore
    <2>7. Opens(handles', g)
      BY <1>3, <2>1, Facts, OpensMore
    <2> QED
      BY <1>2, <1>4, <2>6, <2>7, Facts, LocalStep
  <1>6. CASE cloud[files[k].cloud].etag # files[k].etag
    <2> DEFINE fs == [files EXCEPT ![k].state = "online", ![k].cache = None]
               e == Entry(cloud, files[k].cloud)
    <2>1. files' = Upsert(fs, tombs, e) /\ disk' = disk /\ handles' = handles
      BY <1>1, <1>6
    <2>u. PICK up, gen : up = files[k].up /\ gen = files[k].gen
      OBVIOUS
    <2>2. fs = [files EXCEPT ![k] = [files[k] EXCEPT !.state = "online", !.cache = None,
                                                     !.up = up, !.gen = gen]]
      BY <1>3, <2>u DEF RowFields
    <2>3. IsEntry(e, g)
      BY <1>1, Facts, DriveEntry
    <2> HIDE DEF fs, e
    <2>4. Core(fs, tombs, task, del, disk, g)
      <3>1. Kept(files, fs, g)
        BY <1>3, <2>u, <2>2, Facts, DetachKept
      <3> QED
        BY <3>1, Facts, KeptCore
    <2>5. Core(files', tombs, task, del, disk, g)
      BY <2>1, <2>3, <2>4, Facts, UpsertCore
    <2> QED
      BY <1>2, <1>4, <2>1, <2>5, Facts, LocalStep
  <1> QED
    BY <1>5, <1>6

LEMMA CreateKeeps ==
  ASSUME NEW g, Now(g), NEW h \in Handles, Create(h)
  PROVE  Known'
  <1> DEFINE k == LocalIdentity(made + 1)
             c == OwnCache(k)
             r == LocalRow(Doc, c)
  <1>1. /\ RowAt(files, Doc) = {} /\ made' = made + 1 /\ files' = With(files, k, r)
        /\ disk' = With(disk, c, {}) /\ handles' = With(handles, h, Opened(k, c, None, TRUE))
        /\ tombs' = tombs /\ task' = task /\ del' = del /\ fuse' = fuse /\ writes' = writes
        /\ discarded' = discarded /\ cloud' = cloud /\ unseen' = unseen /\ delta' = delta
    BY DEF Create, FuseOnly
  <1>2. PICK w : Grows(g, w) /\ w.made = g.made + 1 /\ w.last = g.last
    <2>1. PICK l : l = g.last
      OBVIOUS
    <2>2. \E w : Adds(g, w, l, Doc)
      BY <2>1, Facts, OneMore
    <2> QED
      BY <2>1, <2>2 DEF Adds
  <1>3. World(w) /\ Good(w) /\ w.made = made' /\ w.last = writes'.last
    BY <1>1, <1>2, Facts, GrowsGood DEF Grows
  <1>4. /\ Core(files, tombs, task, del, disk, w) /\ Table(files, w) /\ Disk(disk, w)
        /\ Opens(handles, w) /\ Handler(fuse, w) /\ Rest(budget, discarded, w)
    BY <1>3 DEF Good, Core
  <1>n. made \in Nat /\ made + 1 \in Nat /\ made + 1 > g.made /\ made + 1 \in 1..w.made
    BY <1>1, <1>2, Facts DEF World
  <1>5. k \in IdsIn(w) /\ w.home[k] = Doc /\ k \notin IdsIn(g)
    BY <1>n, <1>3, Facts, NextIdentity DEF IdsIn, World
  <1>6. k \notin DOMAIN files /\ k \notin DOMAIN tombs /\ k \notin DOMAIN task
    BY <1>5, Facts DEF Core, Table, Tombs, Tasks
  <1>7. k \notin ItemsIn(w)
    BY DEF ItemsIn, CloudId, LocalIdentity
  <1>8. c \in NamesIn(w) /\ Own(k, c) /\ c \in IdsIn(w) \X Nat
    BY <1>3, <1>5, OwnName DEF OwnCache
  <1>9. /\ DOMAIN r = RowFields /\ r.path = Doc /\ r.state = "writing" /\ r.cache = c
        /\ r.cloud = None /\ r.etag = None /\ r.stamp = 0 /\ r.up = NoClaim /\ r.gen = 0
    BY DEF LocalRow, RowFields
  <1> HIDE DEF k, c, r
  <1>10. IsRow(k, r, w)
    BY <1>3, <1>5, <1>7, <1>8, <1>9, Defined DEF IsRow, States, Protected, Own, Unbound
  <1>11. /\ DOMAIN files' = DOMAIN files \cup {k} /\ files'[k] = r
         /\ \A j \in DOMAIN files : j # k => files'[j] = files[j]
    BY <1>1 DEF With
  <1>12. Follows(files, files', tombs, task)
    <2>1. \A j \in DOMAIN files' \ {k} : files'[j].path # Doc
      BY <1>1, <1>11 DEF RowAt
    <2>2. DOMAIN files' \ DOMAIN files = {k}
      BY <1>6, <1>11
    <2>3. \A j \in DOMAIN files' \cap DOMAIN files : files'[j].cloud = files[j].cloud
      BY <1>6, <1>11
    <2> QED
      BY <1>6, <1>9, <1>11, <2>1, <2>2, <2>3 DEF Follows
  <1>13. DOMAIN files' \subseteq IdsIn(w) /\ \A j \in DOMAIN files' : IsRow(j, files'[j], w)
    BY <1>4, <1>5, <1>10, <1>11 DEF Table
  <1>14. Table(files', w)
    BY <1>3, <1>4, <1>12, <1>13, FollowsTable
  <1>15. Linked(files', tombs, task, w)
    BY <1>3, <1>4, <1>12, <1>13, FollowsLinked DEF Core
  <1>16. Core(files', tombs, task, del, disk, w)
    BY <1>4, <1>14, <1>15 DEF Core
  <1>17. Disk(disk', w) /\ DOMAIN disk \subseteq DOMAIN disk'
    <2>1. {} \in ContentsIn(w)
      BY DEF ContentsIn
    <2> QED
      BY <1>1, <1>4, <1>8, <2>1, DiskMore
  <1>18. Core(files', tombs', task', del', disk', w)
    BY <1>1, <1>16, <1>17, DiskCore
  <1>19. Opens(handles', w)
    BY <1>1, <1>4, <1>5, OpensMore
  <1>20. Rest(budget', discarded', w)
    BY <1>1, <1>4, Facts, Spent DEF Create, Rest
  <1> QED
    BY <1>1, <1>3, <1>4, <1>18, <1>19, <1>20, LocalStep

\* The world after a write by a program here.
LEMMA WriteWorld ==
  ASSUME NEW g, Now(g)
  PROVE  \E w : /\ World(w) /\ Good(w) /\ w.made = made /\ w.last = NextWrite
                /\ NextWrite \in 0..w.last /\ NextWrite \in 1..w.last
                /\ Grows(g, w)
  <1>1. PICK w : Grows(g, w) /\ w.made = g.made /\ w.last = g.last + 1
    BY Facts, OneMore
  <1>2. World(w) /\ Good(w)
    BY <1>1, Facts, GrowsGood DEF Grows
  <1>3. w.last = NextWrite /\ writes.last \in Nat
    BY <1>1, Facts DEF NextWrite, World
  <1>4. NextWrite \in 0..w.last /\ NextWrite \in 1..w.last
    BY <1>3 DEF NextWrite
  <1> QED
    BY <1>1, <1>2, <1>3, <1>4, Facts

LEMMA TruncateBytesKeeps ==
  ASSUME NEW g, Now(g), NEW h \in Handles \cup {None}, TruncateBytes(h),
         DOMAIN writes = {"last", "theirs"}
  PROVE  Known'
  <1>1. PICK k \in RowAt(files, Doc) :
          LET c == TruncCache(k)
              seen == IF CacheExists(files[k]) THEN disk[c]
                      ELSE IF files[k].etag = None THEN {} ELSE files[k].etag.data
          IN /\ disk' = With(disk, c, seen \cup {NextWrite})
             /\ discarded' = discarded \cup seen
             /\ fuse' = [at |-> "mark", k |-> k, c |-> c, h |-> h,
                         base |-> UploadEtag(files[k]), w |-> NextWrite]
    BY DEF TruncateBytes
  <1> DEFINE c == TruncCache(k)
             seen == IF CacheExists(files[k]) THEN disk[c]
                     ELSE IF files[k].etag = None THEN {} ELSE files[k].etag.data
  <1>2. /\ disk' = With(disk, c, seen \cup {NextWrite}) /\ discarded' = discarded \cup seen
        /\ fuse' = [at |-> "mark", k |-> k, c |-> c, h |-> h, base |-> UploadEtag(files[k]),
                      w |-> NextWrite]
    BY <1>1
  <1>3. /\ files' = files /\ tombs' = tombs /\ task' = task /\ del' = del /\ handles' = handles
        /\ cloud' = cloud /\ made' = made /\ unseen' = unseen /\ delta' = delta
        /\ writes' = [writes EXCEPT !.last = NextWrite]
    BY DEF TruncateBytes, FuseOnly, NoRequest, LocalWrite
  <1>4. writes'.last = NextWrite
    BY <1>3
  <1>5. /\ k \in DOMAIN files /\ k \in IdsIn(g) /\ k # None /\ g.home[k] = Doc
        /\ IsRow(k, files[k], g) /\ Own(k, files[k].cache)
    BY DocRow
  <1>6. PICK w : /\ World(w) /\ Good(w) /\ w.made = made /\ w.last = NextWrite
                 /\ NextWrite \in 0..w.last /\ NextWrite \in 1..w.last /\ Grows(g, w)
    BY WriteWorld
  <1>7. /\ Core(files, tombs, task, del, disk, w) /\ Disk(disk, w)
        /\ Opens(handles, w) /\ Rest(budget, discarded, w)
    BY <1>6 DEF Good, Core
  <1>8. c \in {k} \X Nat /\ c \in IdsIn(w) \X Nat
    <2>1. c \in {k} \X Nat
      BY <1>5 DEF TruncCache, OwnCache, Own
    <2> QED
      BY <1>5, <1>6, <2>1, Larger
  <1>9. seen \in ContentsIn(w)
    <2>1. CASE CacheExists(files[k])
      BY <1>7, <2>1 DEF CacheExists, TruncCache, Disk
    <2>2. CASE ~CacheExists(files[k])
      <3>1. files[k].etag # None => files[k].etag.data \in ContentsIn(w)
        BY <1>5, <1>6, EtagData, Larger DEF IsRow
      <3>2. {} \in ContentsIn(w)
        BY DEF ContentsIn
      <3> QED
        BY <2>2, <3>1, <3>2
    <2> QED
      BY <2>1, <2>2
  <1> HIDE DEF c, seen
  <1>10. seen \cup {NextWrite} \in ContentsIn(w)
    BY <1>6, <1>9 DEF ContentsIn
  <1>11. Disk(disk', w) /\ DOMAIN disk \subseteq DOMAIN disk'
    BY <1>2, <1>7, <1>8, <1>10, DiskMore
  <1>12. Core(files', tombs', task', del', disk', w)
    BY <1>3, <1>7, <1>11, DiskCore
  <1>13. Handler(fuse', w)
    <2>1. /\ DOMAIN fuse' = FuseFields /\ fuse'.k = k /\ fuse'.c = c /\ fuse'.h = h
          /\ fuse'.w = NextWrite
      BY <1>2 DEF FuseFields
    <2>2. k \in IdsIn(w) /\ w.home[k] = Doc
      BY <1>5, <1>6, Larger DEF Grows
    <2> QED
      BY <1>6, <1>8, <2>1, <2>2 DEF Handler
  <1>14. Rest(budget', discarded', w)
    <2>1. discarded' \in ContentsIn(w)
      BY <1>2, <1>7, <1>9 DEF Rest, ContentsIn
    <2> QED
      BY <2>1, Facts, Spent DEF TruncateBytes, Rest
  <1> QED
    BY <1>3, <1>4, <1>6, <1>7, <1>12, <1>13, <1>14, LocalStep

LEMMA TruncateMarkKeeps ==
  ASSUME NEW g, Now(g), TruncateMark
  PROVE  Known'
  <1>1. /\ fuse # None /\ files' = MarkCached(files, fuse.k, fuse.c)
        /\ fuse' = [fuse EXCEPT !.at = "claim"]
        /\ tombs' = tombs /\ task' = task /\ del' = del /\ handles' = handles /\ disk' = disk
        /\ cloud' = cloud /\ made' = made /\ unseen' = unseen /\ delta' = delta
        /\ writes' = writes /\ discarded' = discarded /\ budget' = budget
    BY DEF TruncateMark, NoRequest
  <1>2. /\ DOMAIN fuse = FuseFields /\ fuse.k \in IdsIn(g) /\ g.home[fuse.k] = Doc
        /\ fuse.c \in {fuse.k} \X Nat /\ fuse.h \in Handles \cup {None} /\ fuse.w \in 1..g.last
    BY <1>1, Facts DEF Handler
  <1>3. fuse.c \in NamesIn(g) /\ Own(fuse.k, fuse.c)
    BY <1>2 DEF NamesIn, Own
  <1>4. Core(files', tombs, task, del, disk, g)
    BY <1>1, <1>3, Facts, MarkCachedKept, KeptCore
  <1>5. Handler(fuse', g)
    <2>1. /\ DOMAIN fuse' = FuseFields /\ fuse'.k = fuse.k /\ fuse'.c = fuse.c
          /\ fuse'.h = fuse.h /\ fuse'.w = fuse.w
      BY <1>1, <1>2 DEF FuseFields
    <2> QED
      BY <1>2, <2>1 DEF Handler
  <1> QED
    BY <1>1, <1>4, <1>5, Facts, LocalStep

LEMMA TruncateClaimKeeps ==
  ASSUME NEW g, Now(g), TruncateClaim
  PROVE  Known'
  <1>1. /\ fuse # None /\ fuse' = None
        /\ tombs' = tombs /\ task' = task /\ del' = del /\ disk' = disk
        /\ cloud' = cloud /\ made' = made /\ unseen' = unseen /\ delta' = delta
        /\ writes' = writes /\ discarded' = discarded /\ budget' = budget
        /\ \/ files' = files /\ handles' = handles
           \/ /\ fuse.k \in DOMAIN files /\ \E s \in {0, 1} : files' = MarkDirty(files, fuse.k, s)
              /\ handles' = handles
           \/ /\ fuse.h # None /\ files' = MarkState(files, fuse.k, "writing")
              /\ handles' = With(handles, fuse.h, Opened(fuse.k, fuse.c, fuse.base, TRUE))
    BY DEF TruncateClaim, NoRequest
  <1>2. fuse.k \in IdsIn(g) /\ g.home[fuse.k] = Doc /\ (fuse.h # None => fuse.h \in Handles)
    BY <1>1, Facts DEF Handler
  <1>3. Kept(files, files', g)
    <2>1. CASE files' = files
      BY <2>1, Facts DEF Kept, Table
    <2>2. CASE fuse.k \in DOMAIN files /\ \E s \in {0, 1} : files' = MarkDirty(files, fuse.k, s)
      BY <1>2, <2>2, Facts, MarkDirtyKept
    <2>3. CASE files' = MarkState(files, fuse.k, "writing")
      <3>1. "writing" \in States
        BY DEF States, Protected
      <3> QED
        BY <1>2, <2>3, <3>1, Facts, MarkStateKept
    <2> QED
      BY <1>1, <2>1, <2>2, <2>3
  <1>4. Opens(handles', g)
    BY <1>1, <1>2, Facts, OpensMore
  <1>5. Core(files', tombs, task, del, disk, g)
    BY <1>3, Facts, KeptCore
  <1>6. Handler(fuse', g)
    BY <1>1 DEF Handler
  <1> QED
    BY <1>1, <1>4, <1>5, <1>6, Facts, LocalStep

LEMMA WriteKeeps ==
  ASSUME NEW g, Now(g), NEW h \in Handles, Write(h), DOMAIN writes = {"last", "theirs"}
  PROVE  Known'
  <1> DEFINE k == handles[h].k
             c == handles[h].c
  <1>1. /\ h \in DOMAIN handles
        /\ files' = files \/ files' = MarkState(files, k, "writing")
        /\ disk' = [disk EXCEPT ![c] = @ \cup {NextWrite}]
        /\ handles' = [handles EXCEPT ![h].changed = TRUE]
        /\ tombs' = tombs /\ task' = task /\ del' = del /\ fuse' = fuse
        /\ discarded' = discarded /\ cloud' = cloud /\ made' = made
        /\ unseen' = unseen /\ delta' = delta
        /\ writes' = [writes EXCEPT !.last = NextWrite]
    BY DEF Write, FuseOnly, NoRequest, LocalWrite, ClaimWrite
  <1>2. writes'.last = NextWrite
    BY <1>1
  <1>3. PICK w : /\ World(w) /\ Good(w) /\ w.made = made /\ w.last = NextWrite
                 /\ NextWrite \in 0..w.last /\ NextWrite \in 1..w.last /\ Grows(g, w)
    BY WriteWorld
  <1>4. /\ Core(files, tombs, task, del, disk, w) /\ Disk(disk, w) /\ Table(files, w)
        /\ Opens(handles, w) /\ Handler(fuse, w) /\ Rest(budget, discarded, w)
    BY <1>3 DEF Good, Core
  <1>5. DOMAIN handles[h] = HandleFields /\ k \in IdsIn(w) /\ w.home[k] = Doc
    BY <1>1, <1>4 DEF Opens
  <1>6. Disk(disk', w) /\ DOMAIN disk \subseteq DOMAIN disk'
    <2>1. DOMAIN disk' = DOMAIN disk /\ \A x \in DOMAIN disk : x # c => disk'[x] = disk[x]
      BY <1>1
    <2>2. c \in DOMAIN disk => disk'[c] = disk[c] \cup {NextWrite}
      BY <1>1
    <2>3. c \in DOMAIN disk => disk'[c] \in ContentsIn(w)
      BY <1>3, <1>4, <2>2 DEF Disk, ContentsIn
    <2> QED
      BY <1>4, <2>1, <2>3 DEF Disk
  <1>7. Core(files', tombs, task, del, disk, w)
    <2>1. "writing" \in States
      BY DEF States, Protected
    <2>2. Core(MarkState(files, k, "writing"), tombs, task, del, disk, w)
      BY <1>3, <1>4, <1>5, <2>1, MarkStateKept, KeptCore
    <2> QED
      BY <1>1, <1>4, <2>2
  <1>8. Core(files', tombs', task', del', disk', w)
    BY <1>1, <1>6, <1>7, DiskCore
  <1>9. Opens(handles', w)
    <2>1. /\ DOMAIN handles' = DOMAIN handles /\ handles'[h] = [handles[h] EXCEPT !.changed = TRUE]
          /\ \A j \in DOMAIN handles : j # h => handles'[j] = handles[j]
      BY <1>1
    <2>2. DOMAIN handles'[h] = HandleFields /\ handles'[h].k = k
      BY <1>5, <2>1 DEF HandleFields
    <2> HIDE DEF k
    <2>3. ASSUME NEW j \in DOMAIN handles'
          PROVE  /\ DOMAIN handles'[j] = HandleFields /\ handles'[j].k \in IdsIn(w)
                 /\ w.home[handles'[j].k] = Doc
      <3>1. CASE j = h
        BY <1>5, <2>2, <3>1
      <3>2. CASE j # h
        BY <1>4, <2>1, <3>2 DEF Opens
      <3> QED
        BY <3>1, <3>2
    <2>4. DOMAIN handles' \subseteq Handles
      BY <1>4, <2>1 DEF Opens
    <2> QED
      BY <2>3, <2>4 DEF Opens
  <1>10. Rest(budget', discarded', w)
    BY <1>1, <1>4, Facts, Spent DEF Write, Rest
  <1> QED
    BY <1>1, <1>2, <1>3, <1>4, <1>8, <1>9, <1>10, LocalStep

LEMMA ReleaseKeeps ==
  ASSUME NEW g, Now(g), NEW h \in Handles, Release(h)
  PROVE  Known'
  <1> DEFINE k == handles[h].k
  <1>1. /\ h \in DOMAIN handles /\ handles' = Without(handles, h)
        /\ \/ k \in DOMAIN files /\ \E s \in {0, 1} : files' = MarkDirty(files, k, s)
           \/ files' = files
        /\ tombs' = tombs /\ task' = task /\ del' = del /\ fuse' = fuse /\ disk' = disk
        /\ discarded' = discarded /\ writes' = writes /\ budget' = budget
        /\ cloud' = cloud /\ made' = made /\ unseen' = unseen /\ delta' = delta
    BY DEF Release, FuseOnly, NoRequest
  <1>2. g.home[k] = Doc
    BY <1>1, Facts DEF Opens
  <1>3. Core(files', tombs, task, del, disk, g)
    <2>1. CASE k \in DOMAIN files /\ \E s \in {0, 1} : files' = MarkDirty(files, k, s)
      <3>1. Kept(files, files', g)
        BY <1>2, <2>1, Facts, MarkDirtyKept
      <3> QED
        BY <3>1, Facts, KeptCore
    <2>2. CASE files' = files
      BY <2>2, Facts
    <2> QED
      BY <1>1, <2>1, <2>2
  <1>4. Opens(handles', g)
    BY <1>1, Facts DEF Opens, Without
  <1> QED
    BY <1>1, <1>3, <1>4, Facts, LocalStep

LEMMA GivenUpType ==
  ASSUME NEW g, Now(g), NEW k \in RowAt(files, Doc)
  PROVE  GivenUp(files[k]) \in ContentsIn(g)
  <1> DEFINE r == files[k]
  <1>1. IsRow(k, r, g)
    BY DocRow
  <1>2. CacheExists(r) => disk[r.cache] \subseteq 0..g.last
    BY Facts DEF CacheExists, Disk, ContentsIn
  <1>3. r.etag # None => r.etag.data \subseteq 0..g.last
    BY <1>1, EtagData DEF IsRow, ContentsIn
  <1>4. r.cloud \in DOMAIN cloud => cloud[r.cloud].etag.data \subseteq 0..g.last
    <2>1. r.cloud \in DOMAIN cloud => cloud[r.cloud].etag \in EtagsIn(g) \ {None}
      BY Facts DEF Drive
    <2> QED
      BY <2>1, EtagData DEF ContentsIn
  <1> HIDE DEF r
  <1>5. GivenUp(r) \subseteq 0..g.last
    BY <1>2, <1>3, <1>4 DEF GivenUp
  <1> QED
    BY <1>5 DEF ContentsIn, r

LEMMA UnlinkKeeps ==
  ASSUME NEW g, Now(g), Unlink
  PROVE  Known'
  <1>1. PICK k \in RowAt(files, Doc) :
          /\ tombs' = QueueDelete(files, tombs, k)
          /\ files' = Without(files, k)
          /\ handles' = [h \in DOMAIN handles |->
                           IF handles[h].k = k THEN [handles[h] EXCEPT !.unlinked = TRUE]
                           ELSE handles[h]]
          /\ discarded' = discarded \cup GivenUp(files[k])
    BY DEF Unlink
  <1>2. /\ task' = task /\ del' = del /\ fuse' = fuse /\ disk' = disk /\ writes' = writes
        /\ cloud' = cloud /\ made' = made /\ unseen' = unseen /\ delta' = delta
    BY DEF Unlink, FuseOnly, NoRequest
  <1>3. Core(files', tombs', task', del', disk', g)
    BY <1>1, <1>2, Facts, QueueDeleteCore
  <1>4. Opens(handles', g)
    <2>1. DOMAIN handles' = DOMAIN handles
      BY <1>1
    <2>2. ASSUME NEW h \in DOMAIN handles
          PROVE  DOMAIN handles'[h] = HandleFields /\ handles'[h].k = handles[h].k
      <3>1. DOMAIN handles[h] = HandleFields
        BY Facts DEF Opens
      <3>2. handles'[h] = handles[h] \/ handles'[h] = [handles[h] EXCEPT !.unlinked = TRUE]
        BY <1>1
      <3> QED
        BY <3>1, <3>2 DEF HandleFields
    <2> QED
      BY <2>1, <2>2, Facts DEF Opens
  <1>5. Rest(budget', discarded', g)
    <2>1. discarded' \in ContentsIn(g)
      BY <1>1, GivenUpType, Facts DEF ContentsIn
    <2> QED
      BY <2>1, Facts, Spent DEF Unlink, Rest
  <1> QED
    BY <1>2, <1>3, <1>4, <1>5, Facts, LocalStep

-----------------------------------------------------------------------------
(* A crash, the refresh and the other client                               *)

LEMMA CrashKeeps ==
  ASSUME NEW g, Now(g), Crash
  PROVE  Known'
  <1>1. PICK s \in {0, 1} :
          files' = [k \in DOMAIN files |->
                      IF files[k].state = "writing" /\ CacheExists(files[k])
                        THEN [files[k] EXCEPT !.state = "dirty", !.stamp = s] ELSE files[k]]
    BY DEF Crash
  <1>2. /\ handles' = Empty /\ fuse' = None /\ task' = Empty /\ del' = Empty /\ delta' = None
        /\ discarded' = discarded \cup {fuse.w : x \in {y \in {0} : fuse # None}}
        /\ tombs' = tombs /\ disk' = disk /\ writes' = writes
        /\ cloud' = cloud /\ made' = made /\ unseen' = unseen
    BY DEF Crash
  <1>3. DOMAIN Empty = {}
    BY DEF Empty
  <1>4. Kept(files, files', g)
    <2>1. DOMAIN files' = DOMAIN files
      BY <1>1
    <2>2. ASSUME NEW k \in DOMAIN files
          PROVE  IsRow(k, files'[k], g) /\ files'[k].cloud = files[k].cloud
      <3>1. IsRow(k, files[k], g)
        BY Facts DEF Table
      <3>2. CASE files'[k] = files[k]
        BY <3>1, <3>2
      <3>3. CASE /\ files[k].state = "writing"
                 /\ files'[k] = [files[k] EXCEPT !.state = "dirty", !.stamp = s]
        <4> DEFINE r == files'[k]
        <4>1. /\ DOMAIN r = RowFields /\ r.state = "dirty" /\ r.stamp = s
              /\ r.path = files[k].path /\ r.cache = files[k].cache /\ r.cloud = files[k].cloud
              /\ r.etag = files[k].etag /\ r.up = files[k].up /\ r.gen = files[k].gen
          BY <3>1, <3>3 DEF IsRow, RowFields
        <4> HIDE DEF r
        <4>2. IsRow(k, r, g)
          BY <3>1, <3>3, <4>1 DEF IsRow, States, Protected
        <4> QED
          BY <4>1, <4>2 DEF r
      <3> QED
        BY <1>1, <3>2, <3>3
    <2> QED
      BY <2>1, <2>2 DEF Kept
  <1>5. Core(files', tombs, task, del, disk, g)
    BY <1>4, Facts, KeptCore
  <1>6. Core(files', tombs', task', del', disk', g)
    BY <1>2, <1>3, <1>5 DEF Core, Tasks, Linked, Dels
  <1>7. Opens(handles', g) /\ Handler(fuse', g) /\ Feed(delta', unseen', g)
    BY <1>2, <1>3, Facts DEF Opens, Handler, Feed, Good
  <1>8. Rest(budget', discarded', g)
    <2>1. fuse # None => fuse.w \in 0..g.last
      BY Facts DEF Handler, World
    <2>2. discarded' \in ContentsIn(g)
      BY <1>2, <2>1, Facts DEF ContentsIn
    <2> QED
      BY <2>2, Facts, Spent DEF Crash, Rest
  <1>9. Good(g)'
    BY <1>2, <1>6, <1>7, <1>8, Facts DEF Good
  <1> QED
    BY <1>2, <1>9, Facts DEF Now, Known

LEMMA FeedFacts ==
  ASSUME NEW g, Now(g), delta # None
  PROVE  /\ DOMAIN delta = DeltaFields /\ delta.since \subseteq ItemsIn(g)
         /\ IsFiniteSet(delta.entries) /\ \A e \in delta.entries : IsEntry(e, g)
         /\ unseen \subseteq ItemsIn(g)
  BY DEF Now, Good, Feed

\* A step of the refresh changes at most the rows.
LEMMA DeltaKeeps ==
  ASSUME NEW g, Now(g), OnlyDelta, tombs' = tombs, Core(files', tombs, task, del, disk, g),
         Feed(delta', unseen', g)
  PROVE  Known'
  <1>1. /\ disk' = disk /\ cloud' = cloud /\ made' = made /\ handles' = handles /\ fuse' = fuse
        /\ task' = task /\ del' = del /\ writes' = writes /\ discarded' = discarded
        /\ budget' = budget
    BY DEF OnlyDelta
  <1>2. Good(g)'
    BY <1>1, Facts DEF Good
  <1> QED
    BY <1>1, <1>2, Facts DEF Now, Known

LEMMA PageFinite ==
  ASSUME NEW g, World(g), NEW S, S \subseteq ItemsIn(g)
  PROVE  IsFiniteSet({Entry(cloud, i) : i \in S})
  <1> DEFINE id == [n \in 1..g.made |-> CloudId(n)]
             page == [i \in S |-> Entry(cloud, i)]
             T == {Entry(cloud, i) : i \in S}
  <1>1. IsFiniteSet(1..g.made)
    <2>1. 1 \in Int /\ g.made \in Int
      BY DEF World
    <2> QED
      BY <2>1, FS_Interval
  <1>2. id \in Surjection(1..g.made, ItemsIn(g))
    BY DEF Surjection, ItemsIn
  <1>3. IsFiniteSet(ItemsIn(g))
    BY <1>1, <1>2, FS_Surjection
  <1>4. IsFiniteSet(S)
    BY <1>3, FS_Subset
  <1>5. page \in Surjection(S, T)
    BY DEF Surjection
  <1> HIDE DEF page, T
  <1>6. IsFiniteSet(T)
    BY <1>4, <1>5, FS_Surjection
  <1> QED
    BY <1>6 DEF T

LEMMA ListDeltaKeeps ==
  ASSUME NEW g, Now(g), ListDelta
  PROVE  Known'
  <1> DEFINE S == unseen \cap DOMAIN cloud
  <1>1. /\ OnlyDelta /\ files' = files /\ tombs' = tombs /\ unseen' = unseen
        /\ delta' = [pc |-> "deleted", since |-> {}, row |-> None, gone |-> unseen \ DOMAIN cloud,
                     entries |-> {Entry(cloud, i) : i \in S}]
    BY DEF ListDelta
  <1>2. /\ DOMAIN delta' = DeltaFields /\ delta'.since = {}
        /\ delta'.entries = {Entry(cloud, i) : i \in S}
    BY <1>1 DEF DeltaFields
  <1>3. S \subseteq ItemsIn(g)
    BY Facts DEF Drive
  <1>4. IsFiniteSet(delta'.entries)
    BY <1>2, <1>3, Facts, PageFinite
  <1>5. \A i \in S : IsEntry(Entry(cloud, i), g)
    BY Facts, DriveEntry
  <1>6. \A e \in delta'.entries : IsEntry(e, g)
    BY <1>2, <1>5
  <1>7. Feed(delta', unseen', g)
    <2>1. unseen' \subseteq ItemsIn(g)
      BY <1>1 DEF Now, Good, Feed
    <2> QED
      BY <1>2, <1>4, <1>6, <2>1 DEF Feed
  <1> QED
    BY <1>1, <1>7, Facts, DeltaKeeps

LEMMA CheckDeletedKeeps ==
  ASSUME NEW g, Now(g), NEW i, CheckDeleted(i)
  PROVE  Known'
  <1>1. /\ OnlyDelta /\ files' = files /\ tombs' = tombs /\ unseen' = unseen /\ delta # None
        /\ \E gone, pc, row : delta' = [delta EXCEPT !.gone = gone, !.pc = pc, !.row = row]
    BY DEF CheckDeleted
  <1>2. PICK gone, pc, row : delta' = [delta EXCEPT !.gone = gone, !.pc = pc, !.row = row]
    BY <1>1
  <1>3. /\ DOMAIN delta' = DeltaFields /\ delta'.since = delta.since
        /\ delta'.entries = delta.entries
    BY <1>1, <1>2, FeedFacts DEF DeltaFields
  <1>4. Feed(delta', unseen', g)
    BY <1>1, <1>3, FeedFacts DEF Feed
  <1> QED
    BY <1>1, <1>4, Facts, DeltaKeeps

LEMMA RemoveRowKeeps ==
  ASSUME NEW g, Now(g), RemoveRow
  PROVE  Known'
  <1>1. /\ OnlyDelta /\ tombs' = tombs /\ unseen' = unseen /\ delta # None
        /\ files' = Without(files, delta.row)
        /\ delta' = [delta EXCEPT !.pc = "deleted", !.row = None]
    BY DEF RemoveRow
  <1>2. /\ DOMAIN delta' = DeltaFields /\ delta'.since = delta.since
        /\ delta'.entries = delta.entries
    BY <1>1, FeedFacts DEF DeltaFields
  <1>3. Feed(delta', unseen', g)
    BY <1>1, <1>2, FeedFacts DEF Feed
  <1>4. Core(files', tombs, task, del, disk, g)
    BY <1>1, Facts, Removed, KeptCore
  <1> QED
    BY <1>1, <1>3, <1>4, DeltaKeeps

LEMMA ImportEntriesKeeps ==
  ASSUME NEW g, Now(g), ImportEntries
  PROVE  Known'
  <1>1. /\ OnlyDelta /\ tombs' = tombs /\ unseen' = unseen /\ delta # None
        /\ files' = Imported(delta.entries)
        /\ delta' = [delta EXCEPT !.pc = "link"]
    BY DEF ImportEntries
  <1>2. /\ DOMAIN delta' = DeltaFields /\ delta'.since = delta.since
        /\ delta'.entries = delta.entries
    BY <1>1, FeedFacts DEF DeltaFields
  <1>3. Feed(delta', unseen', g)
    BY <1>1, <1>2, FeedFacts DEF Feed
  <1>4. Core(files', tombs, task, del, disk, g)
    <2>1. Tasks(task, disk, g) /\ Linked(files, tombs, task, g)
      BY Facts DEF Core
    <2>2. PICK S : S = delta.entries
      OBVIOUS
    <2>3. Table(Imported(S), g) /\ Linked(Imported(S), tombs, task, g)
      BY <1>1, <2>1, <2>2, Facts, FeedFacts, ImportedKeeps
    <2> QED
      BY <1>1, <2>2, <2>3, Facts DEF Core
  <1> QED
    BY <1>1, <1>3, <1>4, DeltaKeeps

LEMMA AdvanceLinkKeeps ==
  ASSUME NEW g, Now(g), AdvanceLink
  PROVE  Known'
  <1>1. /\ OnlyDelta /\ files' = files /\ tombs' = tombs /\ delta # None
        /\ unseen' = delta.since /\ delta' = None
    BY DEF AdvanceLink
  <1>2. Feed(delta', unseen', g)
    BY <1>1, FeedFacts DEF Feed
  <1> QED
    BY <1>1, <1>2, Facts, DeltaKeeps

\* A step of the other client changes the drive and what is known of its changes.
LEMMA RemoteKeeps ==
  ASSUME NEW h, World(h), h.made = made', h.last = writes'.last, Good(h),
         UNCHANGED <<files, tombs, disk, handles, fuse, task, del>>,
         Drive(cloud', h), Feed(delta', unseen', h), Rest(budget', discarded', h)
  PROVE  Known'
  <1>1. /\ files' = files /\ tombs' = tombs /\ disk' = disk /\ handles' = handles
        /\ fuse' = fuse /\ task' = task /\ del' = del
    OBVIOUS
  <1>2. Good(h)'
    BY <1>1 DEF Good
  <1> QED
    BY <1>2 DEF Now, Known

\* The other client stores the number of its write.
LEMMA RemoteStored ==
  ASSUME NEW g, Now(g), NEW i, (i \in DOMAIN cloud /\ cloud[i].path = Doc) \/ i = CloudId(made + 1),
         NEW old \in ContentsIn(g), Store(i, Doc, old \cup {NextWrite}), RemoteWrite,
         UNCHANGED <<files, tombs, disk, handles, fuse, task, del, discarded>>,
         NEW b, Spend(b)
  PROVE  Known'
  <1> DEFINE data == old \cup {NextWrite}
  <1>1. Doc \in PathsIn(g) \ {None} /\ g.last + 1 = NextWrite /\ g.last \in Nat
    BY Facts, Defined DEF NextWrite, World
  <1>2. PICK h : /\ Grows(g, h) /\ h.made = made' /\ h.last = g.last + 1 /\ Good(h)
                 /\ data \in ContentsIn(h) => Drive(cloud', h) /\ Feed(delta', unseen', h)
    BY <1>1, Stored
  <1>3. data \in ContentsIn(h)
    <2>1. NextWrite \in 0..h.last /\ 0..g.last \subseteq 0..h.last
      BY <1>1, <1>2
    <2>2. old \subseteq 0..g.last
      BY DEF ContentsIn
    <2>3. old \cup {NextWrite} \subseteq 0..h.last
      BY <2>1, <2>2
    <2> QED
      BY <2>3 DEF ContentsIn
  <1>4. writes'.last = h.last
    BY <1>1, <1>2 DEF RemoteWrite
  <1>5. Rest(budget', discarded', h)
    BY <1>2, Facts, Spent DEF Good, Rest
  <1> QED
    BY <1>2, <1>3, <1>4, <1>5, RemoteKeeps DEF Grows

LEMMA RemoteEditKeeps ==
  ASSUME NEW g, Now(g), NEW i, RemoteEdit(i)
  PROVE  Known'
  <1>1. /\ i \in DOMAIN cloud /\ cloud[i].path = Doc /\ Spend("edit") /\ RemoteWrite
        /\ Store(i, Doc, cloud[i].etag.data \cup {NextWrite})
        /\ UNCHANGED <<files, tombs, disk, handles, fuse, task, del, discarded>>
    BY DEF RemoteEdit
  <1>2. cloud[i].etag \in EtagsIn(g) \ {None}
    BY <1>1, Facts DEF Drive
  <1>3. PICK old : old = cloud[i].etag.data
    OBVIOUS
  <1>4. old \in ContentsIn(g)
    BY <1>2, <1>3, EtagData
  <1> QED
    BY <1>1, <1>3, <1>4, RemoteStored

LEMMA RemoteCreateKeeps ==
  ASSUME NEW g, Now(g), RemoteCreate
  PROVE  Known'
  <1>1. /\ Spend("make") /\ RemoteWrite /\ Store(CloudId(made + 1), Doc, {NextWrite})
        /\ UNCHANGED <<files, tombs, disk, handles, fuse, task, del, discarded>>
    BY DEF RemoteCreate
  <1>2. {} \in ContentsIn(g) /\ {NextWrite} = {} \cup {NextWrite}
    BY DEF ContentsIn
  <1>3. Store(CloudId(made + 1), Doc, {} \cup {NextWrite})
    BY <1>1, <1>2
  <1> QED
    BY <1>1, <1>2, <1>3, RemoteStored

LEMMA RemoteDeleteKeeps ==
  ASSUME NEW g, Now(g), NEW i, RemoteDelete(i)
  PROVE  Known'
  <1>1. /\ i \in DOMAIN cloud /\ Spend("remove") /\ Drop(i)
        /\ discarded' = discarded \cup cloud[i].etag.data
        /\ UNCHANGED <<files, tombs, disk, handles, fuse, task, del>> /\ writes' = writes
    BY DEF RemoteDelete
  <1>2. cloud[i].etag.data \in ContentsIn(g)
    <2>1. cloud[i].etag \in EtagsIn(g) \ {None}
      BY <1>1, Facts DEF Drive
    <2> QED
      BY <2>1, EtagData
  <1>3. Rest(budget', discarded', g)
    BY <1>1, <1>2, Facts, Spent DEF Rest, ContentsIn
  <1>4. Drive(cloud', g) /\ Feed(delta', unseen', g) /\ made' = made
    BY <1>1, Dropped
  <1> QED
    BY <1>1, <1>3, <1>4, Facts, RemoteKeeps

-----------------------------------------------------------------------------
(* The initial states and all steps                                        *)

LEMMA Start ==
  ASSUME Init
  PROVE  IInv
  <1>1. /\ tombs = Empty /\ unseen = {} /\ handles = Empty /\ fuse = None
        /\ task = Empty /\ del = Empty /\ delta = None /\ disk = Empty
        /\ writes = [last |-> 0, theirs |-> {}] /\ discarded = {} /\ DOMAIN Empty = {}
    BY DEF Init, Empty
  <1>2. budget \in [Kinds -> Nat]
    BY ScenariosAssumption DEF Init
  <1>3. \/ /\ made = 1
           /\ cloud = With(Empty, CloudId(1), [path |-> Doc, etag |-> Etag(1, {0})])
           /\ files = With(Empty, CloudId(1), ImportedRow(Entry(cloud, CloudId(1))))
        \/ made = 0 /\ cloud = Empty /\ files = Empty
    BY DEF Init
  <1>4. made \in {0, 1}
    BY <1>3
  <1> DEFINE h == [made |-> made, last |-> 0, home |-> [k \in AllIds |-> Doc]]
  <1>5. h.made = made /\ h.last = 0 /\ DOMAIN h.home = AllIds /\ \A k \in AllIds : h.home[k] = Doc
    OBVIOUS
  <1> HIDE DEF h
  <1>6. World(h)
    <2>1. \A n \in Nat : LocalIdentity(n) \in AllIds
      BY DEF LocalIdentity, AllIds
    <2> QED
      BY <1>4, <1>5, <2>1 DEF World
  <1>7. writes.last = 0 /\ DOMAIN writes = {"last", "theirs"}
    BY <1>1
  <1>8. Drive(cloud, h) /\ Table(files, h)
    <2>1. CASE cloud = Empty /\ files = Empty
      BY <1>1, <2>1 DEF Drive, Table, Apart
    <2>2. CASE /\ made = 1
               /\ cloud = With(Empty, CloudId(1), [path |-> Doc, etag |-> Etag(1, {0})])
               /\ files = With(Empty, CloudId(1), ImportedRow(Entry(cloud, CloudId(1))))
      <3> DEFINE i == CloudId(1)
                 x == [path |-> Doc, etag |-> Etag(1, {0})]
                 r == ImportedRow(Entry(cloud, i))
      <3>1. i \in ItemsIn(h) /\ h.home[i] = Doc
        <4>1. CloudId(1) \in ItemsIn(h)
          BY <1>5, <2>2 DEF ItemsIn
        <4> QED
          BY <1>5, <1>6, <4>1, Identities
      <3>2. x \in [path : PathsIn(h) \ {None}, etag : EtagsIn(h) \ {None}] /\ x.path = Doc
        <4>1. {0} \in ContentsIn(h)
          BY <1>5 DEF ContentsIn
        <4>2. 1 \in Nat \ {0}
          OBVIOUS
        <4> QED
          BY <1>6, <4>1, <4>2, Defined
      <3> HIDE DEF x
      <3>3. DOMAIN cloud = {i} /\ cloud[i] = x
        BY <1>1, <2>2 DEF With, x
      <3>4. Drive(cloud, h)
        BY <3>1, <3>2, <3>3 DEF Drive
      <3>5. i \in DOMAIN cloud /\ IsEntry(Entry(cloud, i), h)
        BY <3>3, <3>4, DriveEntry
      <3>e. PICK e : e = Entry(cloud, i)
        OBVIOUS
      <3>6. e.id = i /\ e.path = Doc /\ IsEntry(e, h)
        BY <3>2, <3>3, <3>5, <3>e DEF Entry
      <3>7. IsRow(i, ImportedRow(e), h)
        <4>1. i \in IdsIn(h) /\ i # None
          BY <1>6, <3>1, Identities
        <4> HIDE DEF i
        <4> QED
          BY <1>6, <3>1, <3>6, <4>1, Defined
             DEF IsEntry, IsRow, ImportedRow, RowFields, Own, Unbound, States, Protected
      <3>8. DOMAIN files = {i} /\ files[i] = ImportedRow(e)
        BY <1>1, <2>2, <3>e DEF With
      <3>9. i \in IdsIn(h)
        BY <1>6, <3>1, Identities
      <3>10. Table(files, h)
        BY <3>7, <3>8, <3>9 DEF Table, Apart
      <3> QED
        BY <3>4, <3>10
    <2> QED
      BY <1>3, <2>1, <2>2
  <1>9. Core(files, tombs, task, del, disk, h)
    BY <1>1, <1>8 DEF Core, Tombs, Disk, Tasks, Linked, Dels
  <1>10. Feed(delta, unseen, h) /\ Opens(handles, h) /\ Handler(fuse, h)
    BY <1>1 DEF Feed, Opens, Handler
  <1>11. Rest(budget, discarded, h)
    BY <1>1, <1>2 DEF Rest, ContentsIn
  <1>12. Now(h)
    BY <1>5, <1>6, <1>7, <1>8, <1>9, <1>10, <1>11 DEF Now, Good
  <1> QED
    BY <1>7, <1>12 DEF IInv, Known

LEMMA FuseKeeps ==
  ASSUME NEW g, Now(g), DOMAIN writes = {"last", "theirs"}, FuseNext
  PROVE  Known'
  <1>1. ASSUME NEW h \in Handles,
               OpenCached(h) \/ OpenOnline(h) \/ Create(h) \/ Write(h) \/ Release(h)
        PROVE  Known'
    BY <1>1, OpenCachedKeeps, OpenOnlineKeeps, CreateKeeps, WriteKeeps, ReleaseKeeps
  <1>2. ASSUME NEW h \in Handles \cup {None}, TruncateBytes(h) PROVE Known'
    BY <1>2, TruncateBytesKeeps
  <1>3. ASSUME OpenInvalid \/ TruncateMark \/ TruncateClaim \/ Unlink PROVE Known'
    BY <1>3, OpenInvalidKeeps, TruncateMarkKeeps, TruncateClaimKeeps, UnlinkKeeps
  <1> QED
    BY <1>1, <1>2, <1>3 DEF FuseNext

LEMMA UploadKeeps ==
  ASSUME NEW g, Now(g), NEW k, UploadStep(k)
  PROVE  Known'
  <1>1. ASSUME StartUpload(k) \/ ClaimUpload(k) \/ PutFile(k) \/ CommitFile(k) \/ FailUpload(k)
        PROVE  Known'
    BY <1>1, StartUploadKeeps, ClaimUploadKeeps, PutFileKeeps, CommitFileKeeps, FailUploadKeeps
  <1>2. ASSUME RefuseUpload(k) \/ ClaimCopy(k) \/ PutCopy(k) \/ AskLatest(k) \/ PublishCopy(k)
        PROVE  Known'
    BY <1>2, RefuseUploadKeeps, ClaimCopyKeeps, PutCopyKeeps, AskLatestKeeps, PublishCopyKeeps
  <1>3. ASSUME DetachOriginal(k) \/ ImportLatest(k) PROVE Known'
    BY <1>3, DetachOriginalKeeps, ImportLatestKeeps
  <1> QED
    BY <1>1, <1>2, <1>3 DEF UploadStep

LEMMA DeletionKeeps ==
  ASSUME NEW g, Now(g), NEW d, DeleteStep(d)
  PROVE  Known'
  BY DropCleanupKeeps, StartDeleteKeeps, ReplayKeeps, RemoveRemoteKeeps, RetireDeleteKeeps
     DEF DeleteStep

LEMMA RefreshKeeps ==
  ASSUME NEW g, Now(g), DeltaStep
  PROVE  Known'
  BY ListDeltaKeeps, CheckDeletedKeeps, RemoveRowKeeps, ImportEntriesKeeps, AdvanceLinkKeeps
     DEF DeltaStep

LEMMA OthersKeep ==
  ASSUME NEW g, Now(g), RemoteStep
  PROVE  Known'
  BY RemoteEditKeeps, RemoteCreateKeeps, RemoteDeleteKeeps DEF RemoteStep

\* Only writes, here or by the other client, add to the history of writes.
LEMMA HistoryStep ==
  ASSUME Next
  PROVE  writes' = writes \/ LocalWrite \/ RemoteWrite
  <1>1. ASSUME NEW h \in Handles,
               OpenCached(h) \/ OpenOnline(h) \/ Create(h) \/ Write(h) \/ Release(h)
        PROVE  writes' = writes \/ LocalWrite
    BY <1>1 DEF OpenCached, OpenOnline, Create, Write, Release
  <1>2. ASSUME NEW h \in Handles \cup {None}, TruncateBytes(h) PROVE LocalWrite
    BY <1>2 DEF TruncateBytes
  <1>3. ASSUME OpenInvalid \/ TruncateMark \/ TruncateClaim \/ Unlink \/ Crash
        PROVE  writes' = writes
    BY <1>3 DEF OpenInvalid, TruncateMark, TruncateClaim, Unlink, Crash
  <1>4. ASSUME NEW k, UploadStep(k) PROVE OnlyTask
    <2>1. ASSUME StartUpload(k) \/ ClaimUpload(k) \/ PutFile(k) \/ CommitFile(k) \/ FailUpload(k)
          PROVE  OnlyTask
      BY <2>1 DEF StartUpload, ClaimUpload, PutFile, CommitFile, FailUpload
    <2>2. ASSUME RefuseUpload(k) \/ ClaimCopy(k) \/ PutCopy(k) \/ AskLatest(k) \/ PublishCopy(k)
          PROVE  OnlyTask
      BY <2>2 DEF RefuseUpload, ClaimCopy, PutCopy, AskLatest, PublishCopy
    <2>3. ASSUME DetachOriginal(k) \/ ImportLatest(k) PROVE OnlyTask
      BY <2>3 DEF DetachOriginal, ImportLatest
    <2> QED
      BY <1>4, <2>1, <2>2, <2>3 DEF UploadStep
  <1>5. ASSUME NEW d, DeleteStep(d) PROVE OnlyDel
    BY <1>5 DEF DeleteStep, DropCleanup, StartDelete, Replay, RemoveRemote, RetireDelete
  <1>6. ASSUME DeltaStep PROVE OnlyDelta
    BY <1>6 DEF DeltaStep, ListDelta, CheckDeleted, RemoveRow, ImportEntries, AdvanceLink
  <1>7. ASSUME RemoteStep PROVE writes' = writes \/ RemoteWrite
    BY <1>7 DEF RemoteStep, RemoteCreate, RemoteEdit, RemoteDelete
  <1>8. OnlyTask \/ OnlyDel \/ OnlyDelta => writes' = writes
    BY DEF OnlyTask, OnlyDel, OnlyDelta
  <1> QED
    BY <1>1, <1>2, <1>3, <1>4, <1>5, <1>6, <1>7, <1>8 DEF Next, FuseNext

LEMMA StepKeeps ==
  ASSUME NEW g, Now(g), DOMAIN writes = {"last", "theirs"}, Next
  PROVE  Known'
  <1>1. ASSUME FuseNext PROVE Known'
    BY <1>1, FuseKeeps
  <1>2. ASSUME NEW k, UploadStep(k) PROVE Known'
    BY <1>2, UploadKeeps
  <1>3. ASSUME NEW d, DeleteStep(d) PROVE Known'
    BY <1>3, DeletionKeeps
  <1>4. ASSUME DeltaStep PROVE Known'
    BY <1>4, RefreshKeeps
  <1>5. ASSUME RemoteStep PROVE Known'
    BY <1>5, OthersKeep
  <1>6. ASSUME Crash PROVE Known'
    BY <1>6, CrashKeeps
  <1> QED
    BY <1>1, <1>2, <1>3, <1>4, <1>5, <1>6 DEF Next

LEMMA Inductive ==
  ASSUME IInv, [Next]_vars
  PROVE  IInv'
  <1>1. PICK g : Now(g)
    BY DEF IInv, Known
  <1>2. CASE Next
    <2>1. Known'
      BY <1>1, <1>2, StepKeeps DEF IInv
    <2>2. DOMAIN writes' = {"last", "theirs"}
      BY <1>2, HistoryStep DEF IInv, LocalWrite, RemoteWrite
    <2> QED
      BY <2>1, <2>2 DEF IInv
  <1>3. CASE UNCHANGED vars
    <2>1. /\ files' = files /\ tombs' = tombs /\ disk' = disk /\ cloud' = cloud /\ made' = made
          /\ unseen' = unseen /\ handles' = handles /\ fuse' = fuse /\ task' = task /\ del' = del
          /\ delta' = delta /\ writes' = writes /\ discarded' = discarded /\ budget' = budget
      BY <1>3 DEF vars
    <2>2. Good(g)'
      BY <1>1, <2>1 DEF Now, Good
    <2> QED
      BY <1>1, <2>1, <2>2 DEF IInv, Known, Now
  <1> QED
    BY <1>2, <1>3

-----------------------------------------------------------------------------
(* What the invariant says of a state                                      *)

LEMMA RowTyped ==
  ASSUME NEW g, Now(g), NEW k, NEW r, IsRow(k, r, g)
  PROVE  RowType(r)
  <1>1. /\ Contents = ContentsIn(g) /\ Items = ItemsIn(g) /\ Etags = EtagsIn(g)
        /\ Paths = PathsIn(g) /\ Names = NamesIn(g) /\ Claims = ClaimsIn(g)
    <2>1. Contents = ContentsIn(g) /\ Items = ItemsIn(g) /\ Locals = IdsIn(g)
      BY Facts DEF Contents, ContentsIn, Items, ItemsIn, Locals, IdsIn
    <2>2. Etags = EtagsIn(g) /\ Paths = PathsIn(g) /\ Names = NamesIn(g)
      BY <2>1 DEF Etags, EtagsIn, Paths, PathsIn, Names, NamesIn
    <2> QED
      BY <2>1, <2>2 DEF Claims, ClaimsIn
  <1> QED
    BY <1>1 DEF IsRow, RowType, States

LEMMA Typed ==
  ASSUME IInv
  PROVE  TypeOK
  <1>1. PICK g : Now(g)
    BY DEF IInv, Known
  <1>2. Contents = ContentsIn(g) /\ Items = ItemsIn(g) /\ Locals = IdsIn(g)
    BY <1>1, Facts DEF Contents, ContentsIn, Items, ItemsIn, Locals, IdsIn
  <1>3. Etags = EtagsIn(g) /\ Paths = PathsIn(g) /\ Names = NamesIn(g)
    BY <1>2 DEF Etags, EtagsIn, Paths, PathsIn, Names, NamesIn
  <1>4. Claims = ClaimsIn(g)
    BY <1>2, <1>3 DEF Claims, ClaimsIn
  <1>5. DOMAIN files \subseteq Locals /\ (\A k \in DOMAIN files : RowType(files[k])) /\ OneOwner
    BY <1>1, <1>2, Facts, RowTyped DEF Table, Apart, OneOwner
  <1>6. /\ DOMAIN tombs \subseteq Locals
        /\ \A d \in DOMAIN tombs :
             /\ tombs[d].local \in Locals \cup {None} /\ tombs[d].cloud \in Items \cup {None}
             /\ tombs[d].path \in Paths /\ tombs[d].done \in Paths /\ tombs[d].up \in Claims
    <2>1. Tombs(tombs, g)
      BY <1>1, Facts DEF Core
    <2> QED
      BY <1>2, <1>3, <1>4, <2>1 DEF Tombs, IsTomb
  <1>7. DOMAIN disk \subseteq Names \ {None} /\ \A c \in DOMAIN disk : disk[c] \in Contents
    <2>1. None \notin IdsIn(g) \X Nat
      BY <1>1, Facts, Defined
    <2> QED
      BY <1>1, <1>2, <2>1, Facts DEF Disk, Names
  <1>8. /\ DOMAIN cloud \subseteq Items
        /\ \A i \in DOMAIN cloud :
             cloud[i].path \in Paths \ {None} /\ cloud[i].etag \in Etags \ {None}
    BY <1>1, <1>2, <1>3, Facts DEF Drive
  <1>9. unseen \subseteq Items /\ DOMAIN handles \subseteq Handles
    BY <1>1, <1>2 DEF Now, Good, Feed, Opens
  <1>10. DOMAIN task \subseteq Locals /\ \A k \in DOMAIN task : RowType(task[k].r)
    <2>1. Tasks(task, disk, g)
      BY <1>1, Facts DEF Core
    <2> QED
      BY <1>1, <1>2, <2>1, RowTyped DEF Tasks, IsTask
  <1>11. DOMAIN del \subseteq DOMAIN tombs
    BY <1>1, Facts DEF Core, Dels
  <1>12. budget \in [Kinds -> Nat] /\ discarded \in Contents
    BY <1>1, <1>2, Facts
  <1> QED
    BY <1>5, <1>6, <1>7, <1>8, <1>9, <1>10, <1>11, <1>12 DEF TypeOK

\* For any handles and scenarios, the tables of the database, the cache, the drive
\* and the runs satisfy the inductive invariant: every statement of FileRecord, as
\* uploads, deletions, handlers and the refresh interleave it with the others.
THEOREM Invariance == Spec => []IInv
  <1>1. Init => IInv
    BY Start
  <1>2. IInv /\ [Next]_vars => IInv'
    BY Inductive
  <1> QED
    BY <1>1, <1>2, PTL DEF Spec

\* Every table and register has its type, and no two rows of the table files share
\* a path or an item: no statement of database/{mutations,cache,metadata}.rs ever
\* meets a UNIQUE constraint, whatever the other threads do between two of them.
THEOREM TypeCorrect == Spec => []TypeOK
  <1>1. IInv => TypeOK
    BY Typed
  <1> QED
    BY <1>1, Invariance, PTL

-----------------------------------------------------------------------------
(* Runs, their locks and their bytes                                       *)

\* A deletion run holds the lock of its own tombstone, and no upload run works
\* under that lock.
RunsExclude == \A d \in DOMAIN del : del[d].lock = d /\ d \notin DOMAIN task

\* Whatever a run sends, or sends again, is there to be read.
BytesStay ==
  /\ \A k \in DOMAIN task : task[k].r.cache # None /\ task[k].r.cache \in DOMAIN disk
  /\ \A d \in DOMAIN del : del[d].pc = "replay" => tombs[d].up.cache \in DOMAIN disk

\* A row that was deleted stays away until its deletion is done.
Buried == \A d \in DOMAIN tombs : tombs[d].local # None => d \notin DOMAIN files

\* The item lock (item_sync_lock of locks.rs): the uploads, conflict copies and
\* deletions of one file never run at the same time.
THEOREM LocksHold == Spec => []RunsExclude
  <1>1. IInv => RunsExclude
    BY Facts DEF IInv, Known, RunsExclude, Core, Dels
  <1> QED
    BY <1>1, Invariance, PTL

\* No cache file is removed under a run: not by the deletion of another generation
\* (recover_pending_delete_id removes the files of its tombstone), not by a new
\* download and not by an import that detaches the file from its row.
THEOREM BytesAreKept == Spec => []BytesStay
  <1>1. IInv => BytesStay
    BY Facts DEF IInv, Known, BytesStay, Core, Dels, Tasks, IsTask
  <1> QED
    BY <1>1, Invariance, PTL

\* Neither an import nor a late acknowledgement nor a conflict copy brings back a
\* row whose deletion is queued (upsert_metadata, complete_deleted_upload).
THEOREM DeletedStayDeleted == Spec => []Buried
  <1>1. ASSUME NEW g, Now(g) PROVE Buried
    <2>1. Tombs(tombs, g) /\ Linked(files, tombs, task, g)
      BY <1>1, Facts DEF Core
    <2> QED
      BY <2>1 DEF Buried, Tombs, IsTomb, Linked
  <1>2. IInv => Buried
    BY <1>1 DEF IInv, Known
  <1> QED
    BY <1>2, Invariance, PTL

-----------------------------------------------------------------------------
(* The item a row is bound to                                              *)

\* A row that stands for an item never comes to stand for another one.
BindingsLast ==
  [][\A k \in DOMAIN files \cap DOMAIN files' :
       files[k].cloud # None => files'[k].cloud = files[k].cloud]_vars

Same(fs, gs) == \A k \in DOMAIN fs \cap DOMAIN gs : gs[k].cloud = fs[k].cloud
Bound(fs, gs) ==
  \A k \in DOMAIN fs \cap DOMAIN gs : fs[k].cloud # None => gs[k].cloud = fs[k].cloud
Plain(fs) == \A k \in DOMAIN fs : DOMAIN fs[k] = RowFields

LEMMA Columns ==
  ASSUME NEW fs, Plain(fs), NEW k, NEW s, NEW c, NEW u
  PROVE  /\ Same(fs, MarkState(fs, k, s)) /\ Same(fs, MarkDirty(fs, k, s))
         /\ Same(fs, MarkCached(fs, k, c)) /\ DOMAIN MarkCached(fs, k, c) = DOMAIN fs
         /\ Same(fs, MarkOnlineOnly(fs, k)) /\ Same(fs, BeginUpload(fs, k))
         /\ Same(fs, BeginConflict(fs, k, u, c)) /\ Same(fs, Without(fs, k))
  <1>1. Same(fs, MarkState(fs, k, s))
    BY DEF Same, MarkState, Plain, RowFields
  <1>2. Same(fs, MarkDirty(fs, k, s))
    BY DEF Same, MarkDirty, Plain, RowFields
  <1>3. Same(fs, MarkCached(fs, k, c)) /\ DOMAIN MarkCached(fs, k, c) = DOMAIN fs
    BY DEF Same, MarkCached, Plain, RowFields
  <1>4. Same(fs, MarkOnlineOnly(fs, k))
    BY DEF Same, MarkOnlineOnly, Plain, RowFields
  <1>5. Same(fs, BeginUpload(fs, k))
    BY DEF Same, BeginUpload, Plain, RowFields
  <1>6. Same(fs, BeginConflict(fs, k, u, c))
    BY DEF Same, BeginConflict, Plain, RowFields
  <1>7. Same(fs, Without(fs, k))
    BY DEF Same, Without
  <1> QED
    BY <1>1, <1>2, <1>3, <1>4, <1>5, <1>6, <1>7

LEMMA PlainRows ==
  ASSUME NEW g, Now(g)
  PROVE  Plain(files) /\ Table(files, g) /\ World(g)
  BY Facts DEF Plain, Table, IsRow

LEMMA SameBound ==
  ASSUME NEW fs, NEW gs, Same(fs, gs)
  PROVE  Bound(fs, gs)
  BY DEF Same, Bound

LEMMA SameRows ==
  ASSUME files' = files
  PROVE  Bound(files, files')
  BY DEF Bound

LEMMA UpsertBound ==
  ASSUME NEW g, NEW fs, NEW ds, NEW e, World(g), Table(fs, g), IsEntry(e, g)
  PROVE  Same(fs, Upsert(fs, ds, e))
  <1>1. Follows(fs, Upsert(fs, ds, e), ds, task)
    BY UpsertFollows
  <1> QED
    BY <1>1 DEF Follows, Same

LEMMA FuseBound ==
  ASSUME NEW g, Now(g), FuseNext
  PROVE  Bound(files, files')
  <1>p. Plain(files) /\ Table(files, g) /\ World(g)
    BY PlainRows
  <1>1. ASSUME NEW h, OpenCached(h) \/ TruncateBytes(h) PROVE Bound(files, files')
    <2>1. files' = files
      BY <1>1 DEF OpenCached, TruncateBytes
    <2> QED
      BY <2>1, SameRows
  <1>2. ASSUME OpenInvalid PROVE Bound(files, files')
    <2>1. \E k : files' = [files EXCEPT ![k].state = "online", ![k].cache = None, ![k].gen = @ + 1]
      BY <1>2 DEF OpenInvalid
    <2> QED
      BY <1>p, <2>1 DEF Bound, Plain, RowFields
  <1>3. ASSUME NEW h, OpenOnline(h) PROVE Bound(files, files')
    <2>1. PICK k \in RowAt(files, Doc) :
            /\ files[k].cloud \in DOMAIN cloud
            /\ \/ files' = MarkCached(files, k, DownloadCache(k, files[k].gen))
               \/ files' = Upsert([files EXCEPT ![k].state = "online", ![k].cache = None],
                                  tombs, Entry(cloud, files[k].cloud))
      BY <1>3 DEF OpenOnline
    <2>2. CASE files' = MarkCached(files, k, DownloadCache(k, files[k].gen))
      BY <1>p, <2>2, Columns, SameBound
    <2>3. CASE files' = Upsert([files EXCEPT ![k].state = "online", ![k].cache = None],
                               tombs, Entry(cloud, files[k].cloud))
      <3> DEFINE fs == [files EXCEPT ![k].state = "online", ![k].cache = None]
                 e == Entry(cloud, files[k].cloud)
      <3>1. k \in DOMAIN files /\ DOMAIN files[k] = RowFields
        BY DocRow
      <3>2. PICK up, gen : up = files[k].up /\ gen = files[k].gen
        OBVIOUS
      <3>3. fs = [files EXCEPT ![k] = [files[k] EXCEPT !.state = "online", !.cache = None,
                                                       !.up = up, !.gen = gen]]
        BY <3>1, <3>2 DEF RowFields
      <3>4. IsEntry(e, g)
        BY <2>1, Facts, DriveEntry
      <3>5. DOMAIN fs = DOMAIN files /\ Same(files, fs)
        BY <1>p DEF Same, Plain, RowFields
      <3>6. files' = Upsert(fs, tombs, e)
        BY <2>3
      <3> HIDE DEF fs, e
      <3>7. Kept(files, fs, g)
        BY <1>p, <3>1, <3>2, <3>3, DetachKept
      <3>8. Table(fs, g)
        BY <3>7, Facts, KeptCore DEF Core
      <3>9. Same(fs, files')
        BY <1>p, <3>4, <3>6, <3>8, UpsertBound
      <3> QED
        BY <3>5, <3>9 DEF Same, Bound
    <2> QED
      BY <2>1, <2>2, <2>3
  <1>4. ASSUME NEW h, Create(h) PROVE Bound(files, files')
    <2>1. \E r : files' = With(files, LocalIdentity(made + 1), r)
      BY <1>4 DEF Create
    <2>2. LocalIdentity(made + 1) \notin DOMAIN files
      <3>1. made + 1 \in Nat /\ made + 1 > g.made
        BY Facts DEF World
      <3> QED
        BY <1>p, <3>1, NextIdentity DEF Table
    <2> QED
      BY <2>1, <2>2 DEF Bound, With
  <1>5. ASSUME TruncateMark PROVE Bound(files, files')
    BY <1>5, <1>p, Columns, SameBound DEF TruncateMark
  <1>6. ASSUME TruncateClaim PROVE Bound(files, files')
    <2>1. \/ files' = files
          \/ \E s \in {0, 1} : files' = MarkDirty(files, fuse.k, s)
          \/ files' = MarkState(files, fuse.k, "writing")
      BY <1>6 DEF TruncateClaim
    <2> QED
      BY <1>p, <2>1, Columns, SameBound, SameRows
  <1>7. ASSUME NEW h, Write(h) PROVE Bound(files, files')
    <2>1. files' = files \/ files' = MarkState(files, handles[h].k, "writing")
      BY <1>7 DEF Write, ClaimWrite
    <2> QED
      BY <1>p, <2>1, Columns, SameBound, SameRows
  <1>8. ASSUME NEW h, Release(h) PROVE Bound(files, files')
    <2>1. files' = files \/ \E s \in {0, 1} : files' = MarkDirty(files, handles[h].k, s)
      BY <1>8 DEF Release
    <2> QED
      BY <1>p, <2>1, Columns, SameBound, SameRows
  <1>9. ASSUME Unlink PROVE Bound(files, files')
    <2>1. \E k : files' = Without(files, k)
      BY <1>9 DEF Unlink
    <2> QED
      BY <1>p, <2>1, Columns, SameBound
  <1> QED
    BY <1>1, <1>2, <1>3, <1>4, <1>5, <1>6, <1>7, <1>8, <1>9 DEF FuseNext

LEMMA CommitBound ==
  ASSUME NEW g, Now(g), NEW k, CommitFile(k)
  PROVE  Bound(files, files')
  <1>1. k \in DOMAIN task /\ task[k].pc = "commit"
    BY DEF CommitFile, At
  <1>2. PICK e, p, c : e = task[k].res /\ p = task[k].p /\ c = task[k].r.cache
    OBVIOUS
  <1>3. files' = files \/ (k \in DOMAIN files /\ files' = CommitUploaded(files, k, p, e, c))
    BY <1>2 DEF CommitFile
  <1>4. CASE k \in DOMAIN files /\ files' = CommitUploaded(files, k, p, e, c)
    <2>1. files[k].cloud # None => files[k].cloud = e.id
      <3>1. IsTask(k, task[k], g) /\ Linked(files, tombs, task, g)
        BY <1>1, Facts DEF Core, Tasks
      <3>2. task[k].r.cloud # None => e.id = task[k].r.cloud
        BY <1>1, <1>2, <3>1 DEF IsTask
      <3> QED
        BY <1>1, <1>4, <3>1, <3>2 DEF Linked
    <2>2. files'[k].cloud = e.id
      BY <1>1, <1>2, <1>4, Facts, CommitUploadedCore
    <2>3. \A j \in DOMAIN files : j # k => files'[j] = files[j]
      BY <1>4 DEF CommitUploaded
    <2> QED
      BY <2>1, <2>2, <2>3 DEF Bound
  <1> QED
    BY <1>3, <1>4, SameRows

LEMMA PublishBound ==
  ASSUME NEW g, Now(g), NEW k, PublishCopy(k)
  PROVE  Bound(files, files')
  <1>p. Plain(files) /\ Table(files, g) /\ World(g)
    BY PlainRows
  <1>1. k \in DOMAIN task /\ task[k].pc = "publish"
    BY DEF PublishCopy, At
  <1>2. PICK e, r, c : e = task[k].res /\ r = task[k].r /\ c = task[k].r.cache
    OBVIOUS
  <1>3. IsEntry(e, g)
    BY <1>1, <1>2, RunFacts DEF IsTask, Copying
  <1>4. \/ files' = files
        \/ files' \in {Upsert(files, tombs, e), MarkCached(Upsert(files, tombs, e), e.id, c)}
        \/ CanAdoptCopy(files, e, k) /\ files' = CompleteMissing(files, k, r, e, c)
    BY <1>2 DEF PublishCopy
  <1>5. CASE files' \in {Upsert(files, tombs, e), MarkCached(Upsert(files, tombs, e), e.id, c)}
    <2> DEFINE fs == Upsert(files, tombs, e)
    <2>1. Same(files, fs)
      BY <1>p, <1>3, UpsertBound
    <2>i. \A j \in DOMAIN fs : IsRow(j, fs[j], g)
      BY <1>p, <1>3, UpsertFollows
    <2> HIDE DEF fs
    <2>2. Plain(fs)
      BY <2>i DEF Plain, IsRow
    <2>3. Same(fs, files') /\ DOMAIN files' = DOMAIN fs
      <3>1. CASE files' = MarkCached(fs, e.id, c)
        BY <2>2, <3>1, Columns
      <3>2. CASE files' = fs
        BY <3>2 DEF Same
      <3> QED
        BY <1>5, <3>1, <3>2 DEF fs
    <2> QED
      BY <2>1, <2>3 DEF Same, Bound
  <1>6. CASE CanAdoptCopy(files, e, k) /\ files' = CompleteMissing(files, k, r, e, c)
    <2> DEFINE j == LocalId(files, e)
               fs == With(files, j, CopyRow(files, e, c))
    <2>1. files' \in {Without(fs, k), [fs EXCEPT ![k].up = NoClaim], fs}
      BY <1>6 DEF CompleteMissing, CopyRow
    <2>2. j \in DOMAIN files =>
            CopyRow(files, e, c).cloud = files[j].cloud /\ DOMAIN CopyRow(files, e, c) = RowFields
      BY <1>p DEF CopyRow, Plain, RowFields
    <2>3. DOMAIN CopyRow(files, e, c) = RowFields
      BY <2>2 DEF CopyRow, ImportedRow, RowFields
    <2> HIDE DEF j
    <2>4. Same(files, fs) /\ Plain(fs)
      BY <1>p, <2>2, <2>3 DEF Same, Plain, With
    <2> HIDE DEF fs
    <2>5. Same(fs, files') /\ DOMAIN files' \subseteq DOMAIN fs
      BY <2>1, <2>4 DEF Same, Plain, Without, RowFields
    <2>6. DOMAIN files \subseteq DOMAIN fs
      BY DEF With, fs
    <2> QED
      BY <2>4, <2>5, <2>6 DEF Same, Bound
  <1> QED
    BY <1>4, <1>5, <1>6, SameRows

LEMMA UploadBound ==
  ASSUME NEW g, Now(g), NEW k, UploadStep(k)
  PROVE  Bound(files, files')
  <1>p. Plain(files) /\ Table(files, g) /\ World(g)
    BY PlainRows
  <1>1. ASSUME StartUpload(k) \/ PutFile(k) \/ PutCopy(k) \/ AskLatest(k) PROVE Bound(files, files')
    <2>1. files' = files
      BY <1>1 DEF StartUpload, PutFile, PutCopy, AskLatest
    <2> QED
      BY <2>1, SameRows
  <1>2. ASSUME ClaimUpload(k) PROVE Bound(files, files')
    BY <1>2, <1>p, Columns, SameBound, SameRows DEF ClaimUpload
  <1>3. ASSUME FailUpload(k) \/ RefuseUpload(k) PROVE Bound(files, files')
    <2>1. files' = files \/ \E s : files' = MarkState(files, k, s)
      BY <1>3 DEF FailUpload, RefuseUpload
    <2> QED
      BY <1>p, <2>1, Columns, SameBound, SameRows
  <1>4. ASSUME ClaimCopy(k) PROVE Bound(files, files')
    <2>1. files' = files \/ \E p, c : files' = BeginConflict(files, k, p, c)
      BY <1>4 DEF ClaimCopy
    <2> QED
      BY <1>p, <2>1, Columns, SameBound, SameRows
  <1>5. ASSUME DetachOriginal(k) PROVE Bound(files, files')
    BY <1>5, <1>p, Columns, SameBound DEF DetachOriginal
  <1>6. ASSUME ImportLatest(k) PROVE Bound(files, files')
    <2>1. k \in DOMAIN task /\ task[k].pc = "import"
      BY <1>6 DEF ImportLatest, At
    <2>2. PICK e : e = task[k].latest
      OBVIOUS
    <2>3. IsEntry(e, g)
      BY <2>1, <2>2, RunFacts DEF IsTask
    <2>4. files' = Upsert(files, tombs, e)
      BY <1>6, <2>2 DEF ImportLatest
    <2> QED
      BY <1>p, <2>3, <2>4, UpsertBound, SameBound
  <1> QED
    BY <1>1, <1>2, <1>3, <1>4, <1>5, <1>6, CommitBound, PublishBound DEF UploadStep

LEMMA Refreshed ==
  ASSUME NEW g, Now(g), DeltaStep
  PROVE  Table(files', g)
  <1>1. ASSUME ImportEntries PROVE Table(files', g)
    <2>1. delta # None /\ files' = Imported(delta.entries)
      BY <1>1 DEF ImportEntries
    <2>2. PICK S : S = delta.entries
      OBVIOUS
    <2>3. Tasks(task, disk, g) /\ Linked(files, tombs, task, g)
      BY Facts DEF Core
    <2>4. Table(Imported(S), g)
      BY <2>1, <2>2, <2>3, Facts, FeedFacts, ImportedKeeps
    <2> QED
      BY <2>1, <2>2, <2>4
  <1>2. ASSUME RemoveRow PROVE Table(files', g)
    <2>1. files' = Without(files, delta.row)
      BY <1>2 DEF RemoveRow
    <2> QED
      BY <2>1, Facts, Removed, KeptCore DEF Core
  <1>3. ASSUME ListDelta \/ AdvanceLink \/ \E i : CheckDeleted(i) PROVE Table(files', g)
    <2>1. files' = files
      BY <1>3 DEF ListDelta, AdvanceLink, CheckDeleted
    <2> QED
      BY <2>1, Facts
  <1> QED
    BY <1>1, <1>2, <1>3 DEF DeltaStep

LEMMA DeltaBound ==
  ASSUME NEW g, Now(g), DeltaStep, Table(files', g)
  PROVE  Bound(files, files')
  <1>p. Plain(files) /\ Table(files, g) /\ World(g)
    BY PlainRows
  <1>1. ASSUME ImportEntries PROVE Bound(files, files')
    <2>1. delta # None /\ files' = Imported(delta.entries)
      BY <1>1 DEF ImportEntries
    <2>2. PICK S : S = delta.entries
      OBVIOUS
    <2>3. Tasks(task, disk, g) /\ Linked(files, tombs, task, g)
      BY Facts DEF Core
    <2>4. Rebinds(Imported(S), g)
      BY <1>p, <2>1, <2>2, <2>3, FeedFacts, ImportedKeeps
    <2>5. Rebinds(files', g)
      BY <2>1, <2>2, <2>4
    <2>6. \A k \in DOMAIN files \cap DOMAIN files' :
            k \in ItemsIn(g) => files[k].cloud = k /\ files'[k].cloud = k
      BY <1>p DEF Table, IsRow
    <2> QED
      BY <2>5, <2>6 DEF Rebinds, Bound
  <1>2. ASSUME RemoveRow PROVE Bound(files, files')
    BY <1>2, <1>p, Columns, SameBound DEF RemoveRow
  <1>3. ASSUME ListDelta \/ AdvanceLink \/ \E i : CheckDeleted(i) PROVE Bound(files, files')
    <2>1. files' = files
      BY <1>3 DEF ListDelta, AdvanceLink, CheckDeleted
    <2> QED
      BY <2>1, SameRows
  <1> QED
    BY <1>1, <1>2, <1>3 DEF DeltaStep

LEMMA OtherBound ==
  ASSUME NEW g, Now(g), (\E d : DeleteStep(d)) \/ RemoteStep \/ Crash
  PROVE  Bound(files, files')
  <1>p. Plain(files) /\ Table(files, g) /\ World(g)
    BY PlainRows
  <1>1. ASSUME NEW d, DeleteStep(d) PROVE files' = files
    BY <1>1 DEF DeleteStep, DropCleanup, StartDelete, Replay, RemoveRemote, RetireDelete
  <1>2. ASSUME RemoteStep PROVE files' = files
    BY <1>2 DEF RemoteStep, RemoteCreate, RemoteEdit, RemoteDelete
  <1>3. ASSUME Crash PROVE Bound(files, files')
    <2>1. PICK s \in {0, 1} :
            files' = [k \in DOMAIN files |->
                        IF files[k].state = "writing" /\ CacheExists(files[k])
                          THEN [files[k] EXCEPT !.state = "dirty", !.stamp = s] ELSE files[k]]
      BY <1>3 DEF Crash
    <2> QED
      BY <1>p, <2>1 DEF Bound, Plain, RowFields
  <1> QED
    BY <1>1, <1>2, <1>3, SameRows

LEMMA NextBound ==
  ASSUME IInv, Next
  PROVE  Bound(files, files')
  <1>1. PICK g : Now(g)
    BY DEF IInv, Known
  <1>2. ASSUME DeltaStep PROVE Bound(files, files')
    <2>1. Table(files', g)
      BY <1>1, <1>2, Refreshed
    <2> QED
      BY <1>1, <1>2, <2>1, DeltaBound
  <1> QED
    BY <1>1, <1>2, FuseBound, UploadBound, OtherBound DEF Next

\* No acknowledgement, import, conflict copy or deletion, early or late, makes a row
\* stand for another item than the one it was bound to first: commit_uploaded and
\* complete_missing_conflict_upload (database/mutations.rs), upsert_metadata.
THEOREM BindingsKept == Spec => BindingsLast
  <1>1. IInv /\ [Next]_vars =>
          [\A k \in DOMAIN files \cap DOMAIN files' :
             files[k].cloud # None => files'[k].cloud = files[k].cloud]_vars
    BY NextBound DEF Bound
  <1> QED
    BY <1>1, Invariance, PTL DEF Spec, BindingsLast
=============================================================================
