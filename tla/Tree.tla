------------------------------- MODULE Tree --------------------------------
(***************************************************************************)
(* The names of a mount: programs make, rename, replace and remove files   *)
(* and folders through FUSE; the change is made in the database and a      *)
(* pending operation or a tombstone is queued; workers replay it on the    *)
(* drive in any order, the delta refresh brings back the echoes, another   *)
(* client adds and moves items, requests fail, answers are lost, and the   *)
(* process dies.                                                           *)
(*                                                                         *)
(* One step is one FUSE handler (they run one at a time and take no        *)
(* network), one request to the drive, or one transaction of a worker or   *)
(* of the refresh.  Files hold no bytes here: a file whose bytes were      *)
(* replaced is dirty until it is uploaded (FileSync models the upload).    *)
(***************************************************************************)
EXTENDS InodeTable, FiniteSets

CONSTANTS
  None,
  Names,      \* names an item may have
  MaxDepth,   \* bound: the longest path
  Scenarios   \* [seed: the synchronised items at the start, budget: how often each action may happen]

VARIABLES
  rows,    \* table files: local identity -> [path, dir, cloud, dirty]
  ops,     \* table pending_metadata_operations: local identity -> [kind, path]
  tombs,   \* table pending_deletes: key -> [cloud, path, local]
  table,   \* the inode table of the mount
  cloud,   \* the drive: item -> [parent, name, dir]
  made,    \* identities given out so far
  unseen,  \* items changed since the persisted delta link
  job,     \* requests in progress, by the local identity whose lock they hold
  delta,   \* the delta refresh in progress, None if there is none
  wish,    \* history: where the users want the items of the seed, None once removed
  others,  \* history: has anything been "moved" by others, or "imported"?
  budget   \* what is left of the scenario's

local == <<rows, ops, tombs, table>>
drive == <<cloud, unseen, delta>>
vars == <<rows, ops, tombs, table, cloud, made, unseen, job, delta, wish, others, budget>>

Kinds == {"mkdir", "rename", "unlink", "rmdir", "lookup", "make", "move", "fault", "crash"}
ASSUME TreeAssumption ==
  /\ MaxDepth \in Nat
  /\ \A s \in Scenarios : s.budget \in [Kinds -> Nat]

Spend(b) == budget[b] > 0 /\ budget' = [budget EXCEPT ![b] = @ - 1]

Empty == [x \in {} |-> None]
CloudId(n) == <<"c", n>>
LocalIdentity(n) == <<"l", n>>

-----------------------------------------------------------------------------
(* The drive                                                               *)

PathOf(cl, i) ==
  LET f[j \in DOMAIN cl] ==
        IF cl[j].parent = None THEN Child(Root, cl[j].name) ELSE Child(f[cl[j].parent], cl[j].name)
  IN f[i]

ItemsAt(p) == {i \in DOMAIN cloud : PathOf(cloud, i) = p}
Within(cl, i) == {j \in DOMAIN cl : AtOrUnder(PathOf(cl, j), PathOf(cl, i))}

\* The folders at path p, None standing for the root of the drive.
FoldersAt(p) == IF p = Root THEN {None} ELSE {i \in ItemsAt(p) : cloud[i].dir}

NameFree(parent, name) == \A i \in DOMAIN cloud : ~(cloud[i].parent = parent /\ cloud[i].name = name)

Changed(is) ==
  /\ unseen' = unseen \cup is
  /\ delta' = IF delta = None THEN None ELSE [delta EXCEPT !.since = @ \cup is]

NoRequest == UNCHANGED drive

Init ==
  /\ ops = Empty /\ tombs = Empty /\ unseen = {} /\ job = Empty /\ delta = None
  /\ others = {}
  /\ \E s \in Scenarios :
       /\ budget = s.budget
       /\ cloud = s.seed
       /\ made = Cardinality(DOMAIN s.seed)
       /\ wish = [i \in DOMAIN s.seed |-> PathOf(s.seed, i)]
       /\ rows = [i \in DOMAIN s.seed |-> [path |-> PathOf(s.seed, i), dir |-> s.seed[i].dir,
                                           cloud |-> i, dirty |-> FALSE]]
       /\ table = NewTable(rows)

\* Another client of the drive adds a file or moves an item.
RemoteMake(parent, name) ==
  /\ Spend("make")
  /\ NameFree(parent, name)
  /\ cloud' = With(cloud, CloudId(made + 1), [parent |-> parent, name |-> name, dir |-> FALSE])
  /\ made' = made + 1
  /\ Changed({CloudId(made + 1)})
  /\ UNCHANGED <<local, job, wish, others>>

\* The users want the items of the function paths at these paths.
Wished(paths) ==
  [i \in DOMAIN wish |-> IF i \in DOMAIN paths /\ wish[i] # None THEN paths[i] ELSE wish[i]]

RemoteMove(i, parent, name) ==
  /\ Spend("move")
  /\ NameFree(parent, name)
  /\ parent = None \/ parent \notin Within(cloud, i)
  /\ cloud' = [cloud EXCEPT ![i].parent = parent, ![i].name = name]
  /\ \A j \in Within(cloud, i) : Len(PathOf(cloud', j)) <= MaxDepth
  /\ wish' = Wished([j \in Within(cloud, i) |-> PathOf(cloud', j)])
  /\ Changed({i})
  /\ others' = others \cup {"moved"}
  /\ UNCHANGED <<local, made, job>>

-----------------------------------------------------------------------------
(* Rows and pending operations                                             *)

RowAt(p) == {k \in DOMAIN rows : rows[k].path = p}
BoundTo(i) == {k \in DOMAIN rows : rows[k].cloud = i}
AtOrBelow(p) == {k \in DOMAIN rows : AtOrUnder(rows[k].path, p)}

\* has_pending_metadata_at_or_above
PendingAtOrAbove(p) == \E k \in DOMAIN ops \cap DOMAIN rows : AtOrUnder(p, rows[k].path)

\* move_subtree_and_queue: the row and what is below it get their new paths,
\* and so do the operations queued for them.  A folder whose creation is queued
\* is still created, at its new path.
MoveRows(k, p) ==
  LET old == rows[k].path
      moved == AtOrBelow(old)
      New(j) == Repath(rows[j].path, old, p)
      queued == IF k \in DOMAIN ops THEN [ops[k] EXCEPT !.path = p] ELSE [kind |-> "move", path |-> p]
  IN /\ rows' = [j \in DOMAIN rows |-> IF j \in moved THEN [rows[j] EXCEPT !.path = New(j)] ELSE rows[j]]
     /\ ops' = LET below == [j \in DOMAIN ops |->
                               IF j \in moved THEN [ops[j] EXCEPT !.path = New(j)] ELSE ops[j]]
               IN IF rows[k].cloud # None \/ k \in DOMAIN ops THEN With(below, k, queued) ELSE below
     /\ wish' = Wished([i \in {rows[j].cloud : j \in moved} |->
                          New(CHOOSE j \in moved : rows[j].cloud = i)])

\* queue_pending_delete: a folder takes the rows below it along.
QueueDelete(k) ==
  /\ tombs' = With(tombs, k, [cloud |-> rows[k].cloud, path |-> rows[k].path, local |-> TRUE])
  /\ ops' = Without(ops, k)
  /\ rows' = [j \in DOMAIN rows \ (IF rows[k].dir THEN AtOrBelow(rows[k].path) ELSE {k}) |-> rows[j]]
  /\ wish' = [i \in DOMAIN wish |-> IF i = rows[k].cloud THEN None ELSE wish[i]]

\* Slip: the item of the source is left on the drive.
Slip_ReplaceFile(s, t) ==
  /\ ops' = Without(ops, s)
  /\ rows' = Without([rows EXCEPT ![t].dirty = TRUE], s)
  /\ wish' = [i \in DOMAIN wish |-> IF i = rows[s].cloud THEN None ELSE wish[i]]
  /\ UNCHANGED tombs

\* replace_file_locally: the target keeps its identity, its item and its
\* operation and gets the bytes of the source, which is forgotten.
ReplaceFile(s, t) ==
  /\ ops' = Without(ops, s)
  /\ tombs' = IF rows[s].cloud # None /\ rows[s].cloud # rows[t].cloud
                THEN With(tombs, rows[s].cloud,
                          [cloud |-> rows[s].cloud, path |-> rows[s].path, local |-> FALSE])
                ELSE tombs
  /\ rows' = Without([rows EXCEPT ![t].dirty = TRUE], s)
  /\ wish' = [i \in DOMAIN wish |-> IF i = rows[s].cloud THEN None ELSE wish[i]]

-----------------------------------------------------------------------------
(* FUSE.  The kernel names a directory by its number, and the table says   *)
(* which path that is.                                                     *)

FuseOnly == UNCHANGED <<cloud, unseen, delta, job, others>>

\* record_for_ino: the row of a number, if the identity is still there.
RowOf(n) == {table.id[m] : m \in {n} \cap DOMAIN table.id} \cap DOMAIN rows
IsDirectory(n) == n = ROOT_INO \/ \E k \in RowOf(n) : rows[k].dir

\* The path a handler makes of a directory's number and a name.
Target(parent, name) == Child(table.path[parent], name)

Lookup(parent, name) ==
  /\ Spend("lookup")
  /\ IsDirectory(parent)
  /\ \E k \in RowAt(Target(parent, name)) :
       /\ ~Holds(table, rows[k].path, k)
       /\ table' = Insert(table, k, rows[k].path)
  /\ FuseOnly /\ UNCHANGED <<rows, ops, tombs, made, wish>>

\* opendir
OpenDirectory(n) ==
  /\ Spend("lookup")
  /\ IsDirectory(n)
  /\ table' = RefreshChildren(table, table.path[n], rows)
  /\ table' # table
  /\ FuseOnly /\ UNCHANGED <<rows, ops, tombs, made, wish>>

\* mkdir: create_directory
MakeDirectory(parent, name) ==
  LET p == Target(parent, name)
      k == LocalIdentity(made + 1)
  IN /\ Spend("mkdir")
     /\ IsDirectory(parent) /\ Len(p) <= MaxDepth
     /\ RowAt(p) = {}
     /\ made' = made + 1
     /\ rows' = With(rows, k, [path |-> p, dir |-> TRUE, cloud |-> None, dirty |-> TRUE])
     /\ ops' = With(ops, k, [kind |-> "create_folder", path |-> p])
     /\ table' = Insert(table, k, p)
     /\ FuseOnly /\ UNCHANGED <<tombs, wish>>

\* The number and the row of a name: what unlink, rmdir and rename start from.
Found(p, n, k) == p \in DOMAIN table.at /\ n = table.at[p] /\ n # ROOT_INO /\ k \in RowOf(n)

Unlink(parent, name) ==
  \E n \in DOMAIN table.id, k \in DOMAIN rows :
    /\ Spend("unlink")
    /\ IsDirectory(parent)
    /\ Found(Target(parent, name), n, k)
    /\ ~rows[k].dir
    /\ QueueDelete(k)
    /\ table' = RemoveIno(table, n)
    /\ FuseOnly /\ UNCHANGED made

RemoveDirectory(parent, name) ==
  \E n \in DOMAIN table.id, k \in DOMAIN rows :
    /\ Spend("rmdir")
    /\ IsDirectory(parent)
    /\ Found(Target(parent, name), n, k)
    /\ rows[k].dir
    /\ ChildrenOf(table, n) = {}
    /\ QueueDelete(k)
    /\ table' = RemoveIno(table, n)
    /\ FuseOnly /\ UNCHANGED made
\* What the kernel refuses by itself: a folder moved below itself, or anything
\* moved onto a folder above it.
Renamable(old, new) == Len(new) <= MaxDepth /\ ~AtOrUnder(new, old) /\ ~AtOrUnder(old, new)

\* rename onto the same identity: a delta got there first.
RenameDone(old, new, k) ==
  /\ k \in RowAt(new)
  /\ table' = RefreshChildren(RefreshChildren(table, Front(old), rows), Front(new), rows)
  /\ UNCHANGED <<rows, ops, tombs, wish>>

\* rename onto another file
RenameOver(new, n, k) ==
  \E t \in RowAt(new) \ {k} :
    /\ ~rows[t].dir /\ ~rows[k].dir
    /\ new \in DOMAIN table.at
    /\ ReplaceFile(k, t)
    /\ table' = ReplaceRecord(RemoveIno(table, table.at[new]), n, t, new)

\* The numbers of a subtree follow its rows, the folder first; a row known by
\* several numbers has one of them renamed.
Renumber(moved, pick) ==
  LET order == SetToSortSeq(moved, LAMBDA i, j : Len(rows[i].path) < Len(rows[j].path))
      Follow(t, j) == IF pick[j] = 0 THEN t ELSE ReplaceRecord(t, pick[j], j, rows'[j].path)
  IN FoldLeft(Follow, table, order)

\* rename to a free path; UNIQUE(path) refuses one that meets a row below it.
RenameTo(new, k) ==
  LET moved == AtOrBelow(rows[k].path)
  IN /\ RowAt(new) = {}
     /\ ~AtOrUnder(new, rows[k].path)
     /\ \A j \in moved :
          LET p == Repath(rows[j].path, rows[k].path, new)
          IN Len(p) <= MaxDepth /\ RowAt(p) \subseteq moved
     /\ MoveRows(k, new)
     /\ \E pick \in [moved -> DOMAIN table.id \cup {0}] :
          /\ \A j \in moved : pick[j] \in IF NumbersOf(table, j) = {} THEN {0} ELSE NumbersOf(table, j)
          /\ table' = Renumber(moved, pick)
     /\ UNCHANGED tombs

Rename(parent, name, newparent, newname) ==
  LET old == Target(parent, name)
      new == Target(newparent, newname)
  IN \E n \in DOMAIN table.id, k \in DOMAIN rows :
       /\ Spend("rename")
       /\ IsDirectory(parent) /\ IsDirectory(newparent)
       /\ Renamable(old, new)
       /\ Found(old, n, k)
       /\ RenameDone(old, new, k) \/ RenameOver(new, n, k) \/ RenameTo(new, k)
       /\ FuseOnly /\ UNCHANGED made

-----------------------------------------------------------------------------
(* Workers.  A command holds the lock of its identity from the first look  *)
(* at the database to the end; it may be sent again at any time by the     *)
(* recovery scan.                                                          *)

WorkerOnly == UNCHANGED <<table, made, wish, others, budget>>
At(k, step) == k \in DOMAIN job /\ job[k].step = step
GoOn(k, step) == job' = [job EXCEPT ![k].step = step]
End(k) == job' = Without(job, k)

\* recover_pending_metadata_record: not at an old path, and not before what
\* is queued for a folder above has settled.
BeginOperation(k) ==
  /\ k \in DOMAIN ops \cap DOMAIN rows /\ k \notin DOMAIN job
  /\ rows[k].path = ops[k].path
  /\ ~PendingAtOrAbove(Front(rows[k].path))
  /\ job' = With(job, k, [step |-> IF ops[k].kind = "move" THEN "parent" ELSE "post",
                          path |-> ops[k].path, item |-> rows[k].cloud, parent |-> None])
  /\ NoRequest /\ WorkerOnly /\ UNCHANGED <<rows, ops, tombs>>

\* create_folder: POST below the folder at the parent's path; a name that is
\* taken is refused.
PostFolder(k) ==
  LET p == job[k].path
      i == CloudId(made + 1)
      parents == {f \in FoldersAt(Front(p)) : NameFree(f, Last(p))}
  IN /\ At(k, "post")
     /\ IF parents = {}
          THEN GoOn(k, "adopt") /\ NoRequest /\ UNCHANGED made
          ELSE \E f \in parents :
                 /\ cloud' = With(cloud, i, [parent |-> f, name |-> Last(p), dir |-> TRUE])
                 /\ made' = made + 1
                 /\ Changed({i})
                 /\ job' = [job EXCEPT ![k].step = "ack", ![k].item = i]
     /\ UNCHANGED <<local, wish, others, budget>>

\* Slip: a name that is taken is an error, also when the folder is the one an
\* earlier request made.
Slip_AdoptFolder(k) ==
  /\ At(k, "adopt") /\ End(k)
  /\ NoRequest /\ WorkerOnly /\ UNCHANGED <<rows, ops, tombs>>

\* A folder that is there already is taken for the one to create.
AdoptFolder(k) ==
  /\ At(k, "adopt")
  /\ LET there == {i \in ItemsAt(job[k].path) : cloud[i].dir}
     IN IF there = {} THEN End(k)
        ELSE \E i \in there : job' = [job EXCEPT ![k].step = "ack", ![k].item = i]
  /\ NoRequest /\ WorkerOnly /\ UNCHANGED <<rows, ops, tombs>>

\* rename: a GET for the parent's identity, then a PATCH of name and parent.
FindParent(k) ==
  /\ At(k, "parent")
  /\ LET there == FoldersAt(Front(job[k].path))
     IN IF there = {} THEN End(k)
        ELSE \E f \in there : job' = [job EXCEPT ![k].step = "patch", ![k].parent = f]
  /\ NoRequest /\ WorkerOnly /\ UNCHANGED <<rows, ops, tombs>>

Patchable(i, parent, name) ==
  /\ i \in DOMAIN cloud
  /\ parent = None \/ parent \in DOMAIN cloud \ Within(cloud, i)
  /\ \A j \in DOMAIN cloud \ {i} : ~(cloud[j].parent = parent /\ cloud[j].name = name)

PatchItem(k) ==
  LET i == job[k].item
      name == Last(job[k].path)
  IN /\ At(k, "patch")
     /\ IF Patchable(i, job[k].parent, name)
          THEN /\ cloud' = [cloud EXCEPT ![i].parent = job[k].parent, ![i].name = name]
               /\ Changed({i})
               /\ GoOn(k, "ack")
          ELSE End(k) /\ NoRequest
     /\ WorkerOnly /\ UNCHANGED <<rows, ops, tombs>>

\* Slip: any acknowledgement settles the operation.
Slip_Settles(k) == TRUE

\* The operation is the one that was sent.
Settles(k) == rows[k].path = job[k].path /\ ops[k].path = job[k].path

\* complete_metadata_operation; UNIQUE(cloud_remote_id) fails it when another
\* row has the item.
Acknowledge(k) ==
  /\ At(k, "ack")
  /\ IF k \notin DOMAIN rows \/ BoundTo(job[k].item) \ {k} # {}
       THEN UNCHANGED <<rows, ops>>
       ELSE /\ rows' = [rows EXCEPT ![k].cloud = job[k].item, ![k].dirty = @ /\ ~rows[k].dir]
            /\ ops' = IF k \in DOMAIN ops /\ Settles(k) THEN Without(ops, k) ELSE ops
  /\ End(k)
  /\ NoRequest /\ WorkerOnly /\ UNCHANGED tombs

\* A file with new bytes is uploaded once no operation at or above is pending.
Upload(k) ==
  /\ k \in DOMAIN rows /\ k \notin DOMAIN job
  /\ rows[k].dirty /\ ~rows[k].dir /\ rows[k].cloud \in DOMAIN cloud
  /\ ~PendingAtOrAbove(rows[k].path)
  /\ rows' = [rows EXCEPT ![k].dirty = FALSE]
  /\ Changed({rows[k].cloud})
  /\ WorkerOnly /\ UNCHANGED <<cloud, ops, tombs, job>>

\* recover_pending_delete_id: an item that a live row owns is not deleted; a
\* mere cleanup task is dropped then, as is a tombstone that knows no item.
SkipDelete(d) ==
  /\ d \in DOMAIN tombs /\ d \notin DOMAIN job
  /\ IF tombs[d].cloud = None THEN TRUE ELSE BoundTo(tombs[d].cloud) # {} /\ ~tombs[d].local
  /\ tombs' = Without(tombs, d)
  /\ NoRequest /\ WorkerOnly /\ UNCHANGED <<rows, ops, job>>

BeginDelete(d) ==
  /\ d \in DOMAIN tombs /\ d \notin DOMAIN job
  /\ tombs[d].cloud # None /\ BoundTo(tombs[d].cloud) = {}
  /\ job' = With(job, d, [step |-> "delete", path |-> tombs[d].path, item |-> tombs[d].cloud, parent |-> None])
  /\ NoRequest /\ WorkerOnly /\ UNCHANGED <<rows, ops, tombs>>

\* DELETE: a folder goes with all that is in it; an item that is gone is fine.
DeleteItem(d) ==
  /\ At(d, "delete")
  /\ LET gone == IF job[d].item \in DOMAIN cloud THEN Within(cloud, job[d].item) ELSE {}
     IN /\ cloud' = [i \in DOMAIN cloud \ gone |-> cloud[i]]
        /\ Changed(gone)
  /\ GoOn(d, "forget")
  /\ WorkerOnly /\ UNCHANGED <<rows, ops, tombs>>

Forget(d) ==
  /\ At(d, "forget")
  /\ tombs' = Without(tombs, d)
  /\ End(d)
  /\ NoRequest /\ WorkerOnly /\ UNCHANGED <<rows, ops>>

\* A request fails or its answer is lost.
Fault(k) ==
  /\ Spend("fault")
  /\ k \in DOMAIN job
  /\ End(k)
  /\ NoRequest /\ UNCHANGED <<local, made, wish, others>>
-----------------------------------------------------------------------------
(* The delta refresh: sync_delta_metadata                                  *)

RefreshOnly == UNCHANGED <<ops, tombs, table, cloud, made, job, wish, budget>>

ListDelta ==
  /\ delta = None /\ unseen # {}
  /\ delta' = [step |-> "gone", since |-> {}, gone |-> unseen \ DOMAIN cloud,
               entries |-> {[id |-> i, path |-> PathOf(cloud, i), dir |-> cloud[i].dir] :
                              i \in unseen \cap DOMAIN cloud}]
  /\ RefreshOnly /\ UNCHANGED <<rows, unseen, others>>

\* Rows of deleted items go, unless there are local bytes or a pending
\* operation (FileSync has the check and the removal apart).
RemoveGone ==
  /\ delta # None /\ delta.step = "gone"
  /\ rows' = [k \in {j \in DOMAIN rows : rows[j].cloud \notin delta.gone \/ rows[j].dirty
                                         \/ j \in DOMAIN ops} |-> rows[k]]
  /\ delta' = [delta EXCEPT !.step = "entries"]
  /\ RefreshOnly /\ UNCHANGED <<unseen, others>>

LocalId(rs, e) ==
  LET bound == {k \in DOMAIN rs : rs[k].cloud = e.id} IN IF bound = {} THEN e.id ELSE CHOOSE k \in bound : TRUE

\* A pending operation of the row, or of one above its old or new path.
Guarded(rs, e) ==
  LET k == LocalId(rs, e)
  IN \E o \in DOMAIN ops \cap DOMAIN rs :
       \/ o = k
       \/ AtOrUnder(e.path, rs[o].path)
       \/ k \in DOMAIN rs /\ Under(rs[k].path, rs[o].path)

\* A deletion is pending for the item or the path, or local bytes are at stake.
Barred(rs, e) ==
  LET k == LocalId(rs, e)
  IN \/ \E d \in DOMAIN tombs : e.id \in {d, tombs[d].cloud} \/ tombs[d].path = e.path
     \/ \E j \in DOMAIN rs : rs[j].dirty /\ (j = k \/ rs[j].path = e.path)

\* upsert_metadata_entries, one entry: another row at the path goes, the row
\* is moved or made, and the rows below it move along (their pending
\* operations do not).  None is the failure of UNIQUE(path).
Import(rs, e) ==
  IF rs = None THEN None
  ELSE IF Guarded(rs, e) \/ Barred(rs, e) THEN rs
  ELSE LET k == LocalId(rs, e)
           kept == [j \in {i \in DOMAIN rs : i = k \/ rs[i].path # e.path} |-> rs[j]]
           moved == IF k \in DOMAIN kept
                      THEN [j \in DOMAIN kept |->
                              IF AtOrUnder(kept[j].path, kept[k].path)
                                THEN [kept[j] EXCEPT !.path = Repath(@, kept[k].path, e.path)] ELSE kept[j]]
                      ELSE With(kept, k, [path |-> e.path, dir |-> e.dir, cloud |-> e.id, dirty |-> FALSE])
       IN IF \E i, j \in DOMAIN moved : i # j /\ moved[i].path = moved[j].path THEN None ELSE moved

\* What the entries leave of the rows, in every order a page may list them.
Imports(entries) ==
  LET f[es \in SUBSET entries] ==
        IF es = {} THEN {rows} ELSE UNION {{Import(rs, e) : rs \in f[es \ {e}]} : e \in es}
  IN f[entries]

\* The page is one transaction; one that fails leaves the link where it was.
ImportEntries ==
  /\ delta # None /\ delta.step = "entries"
  /\ \E rs \in Imports(delta.entries) :
       /\ rows' = IF rs = None THEN rows ELSE rs
       /\ delta' = IF rs = None THEN None ELSE [delta EXCEPT !.step = "link"]
  /\ others' = others \cup {"imported"}
  /\ RefreshOnly /\ UNCHANGED unseen

AdvanceLink ==
  /\ delta # None /\ delta.step = "link"
  /\ unseen' = delta.since
  /\ delta' = None
  /\ RefreshOnly /\ UNCHANGED <<rows, others>>

-----------------------------------------------------------------------------
\* The process dies and is mounted again: the table is built from the rows.
Crash ==
  /\ Spend("crash")
  /\ job' = Empty /\ delta' = None
  /\ table' = NewTable(rows)
  /\ UNCHANGED <<rows, ops, tombs, cloud, made, unseen, wish, others>>

Numbers == DOMAIN table.path

FuseNext ==
  \/ \E n \in Numbers : OpenDirectory(n)
  \/ \E n \in Numbers, x \in Names :
       Lookup(n, x) \/ MakeDirectory(n, x) \/ Unlink(n, x) \/ RemoveDirectory(n, x)
  \/ \E n, m \in Numbers, x, y \in Names : Rename(n, x, m, y)

OperationStep(k) ==
  \/ BeginOperation(k) \/ PostFolder(k) \/ AdoptFolder(k) \/ FindParent(k) \/ PatchItem(k)
  \/ Acknowledge(k) \/ Upload(k)

DeleteStep(d) == SkipDelete(d) \/ BeginDelete(d) \/ DeleteItem(d) \/ Forget(d)

DeltaStep == ListDelta \/ RemoveGone \/ ImportEntries \/ AdvanceLink

RemoteFolders == {None} \cup {i \in DOMAIN cloud : cloud[i].dir /\ Len(PathOf(cloud, i)) < MaxDepth}
RemoteStep ==
  \E f \in RemoteFolders, x \in Names :
    RemoteMake(f, x) \/ \E i \in DOMAIN cloud : RemoteMove(i, f, x)

Keys == DOMAIN rows \cup DOMAIN tombs \cup DOMAIN job

Next ==
  \/ FuseNext
  \/ \E k \in Keys : OperationStep(k) \/ DeleteStep(k) \/ Fault(k)
  \/ DeltaStep
  \/ RemoteStep
  \/ Crash

Spec == Init /\ [][Next]_vars

\* The recovery scan sends every operation and every tombstone again once a
\* minute, and a command that is running ends; programs need do nothing.
Fairness(ids) ==
  /\ \A k \in ids : WF_vars(OperationStep(k) \/ DeleteStep(k))
  /\ WF_vars(DeltaStep)

-----------------------------------------------------------------------------
(* Properties                                                              *)

Items == {CloudId(n) : n \in 1..made}
Identities == Items \cup {LocalIdentity(n) : n \in 1..made}
\* An imported folder takes along rows that were renamed to the bound.
Paths == UNION {[1..n -> Names] : n \in 0..2 * MaxDepth}

\* Every table has its type: one row per path and per item, one number per
\* path, numbers below the next, and requests only for what is queued or was.
TypeOK ==
  /\ DOMAIN rows \subseteq Identities
  /\ \A k \in DOMAIN rows :
       rows[k] \in [path : Paths \ {Root}, dir : BOOLEAN, cloud : Items \cup {None}, dirty : BOOLEAN]
  /\ \A j, k \in DOMAIN rows :
       j # k => rows[j].path # rows[k].path /\ (rows[j].cloud # rows[k].cloud \/ rows[j].cloud = None)
  /\ \A k \in DOMAIN ops : ops[k] \in [kind : {"create_folder", "move"}, path : Paths]
  /\ \A d \in DOMAIN tombs : tombs[d] \in [cloud : Items \cup {None}, path : Paths, local : BOOLEAN]
  /\ DOMAIN table.id = DOMAIN table.path \ {ROOT_INO}
  /\ \A n \in DOMAIN table.path : n \in 1..table.next - 1
  /\ \A p \in DOMAIN table.at : table.at[p] \in DOMAIN table.path /\ table.path[table.at[p]] = p
  /\ DOMAIN job \subseteq Identities

\* The mount and the drive agree: every row has its item at its own path, and
\* what the seed held is where the users last put it, gone if they removed it.
Agreeing ==
  /\ \A k \in DOMAIN rows : rows[k].cloud \in DOMAIN cloud /\ PathOf(cloud, rows[k].cloud) = rows[k].path
  /\ \A i \in DOMAIN wish :
       IF wish[i] = None THEN i \notin DOMAIN cloud ELSE \E k \in RowAt(wish[i]) : rows[k].cloud = i

\* As long as only programs move things, they agree whenever the queue is
\* empty: answers to an older rename, folders created twice, requests that
\* fail or whose answer is lost, and crashes are in between.
QueueAgrees == others = {} /\ ops = Empty /\ tombs = Empty /\ job = Empty => Agreeing

\* An item leaves the drive only when a program removed or replaced that item.
NotKilled == \A i \in DOMAIN wish : wish[i] # None => i \in DOMAIN cloud

\* An operation leaves the queue only with its row, or when the item has the
\* name of the row and is in the folder of the row above it: an answer to an
\* older rename, or a duplicate request, settles nothing.  (An item that another
\* client moved is where that client put it.)
InPlace(k) ==
  LET i == rows[k].cloud
      p == rows[k].path
  IN /\ i \in DOMAIN cloud /\ cloud[i].name = Last(p)
     /\ IF Len(p) = 1 THEN cloud[i].parent = None
        ELSE \E f \in RowAt(Front(p)) : rows[f].cloud = cloud[i].parent
QueuedUntilDone ==
  [][\A k \in DOMAIN ops \ DOMAIN ops' :
       k \in DOMAIN rows' /\ "moved" \notin others => InPlace(k)']_vars

\* Every queued operation and every tombstone is replayed in the end.
Replayed == <>[](ops = Empty /\ tombs = Empty /\ job = Empty)
=============================================================================
