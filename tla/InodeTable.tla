----------------------------- MODULE InodeTable -----------------------------
(***************************************************************************)
(* The table that gives the kernel inode numbers (inodes.rs), as operators *)
(* on a record:                                                            *)
(*   next  the number given next                                           *)
(*   path  number -> path (path_by_ino)                                    *)
(*   at    path -> number (ino_by_path)                                    *)
(*   id    number -> local identity of its row (record_by_ino)             *)
(*   kids  number -> numbers listed in that directory                      *)
(* A path is a sequence of names.  Copies of the rows are not kept: every  *)
(* handler reads the row of the identity again (record_for_ino).  The list *)
(* of a directory is a set: its order, and a child listed twice after its  *)
(* directory was renamed, are not seen.                                    *)
(***************************************************************************)
EXTENDS Integers, SequencesExt

ROOT_INO == 1
Root == << >>

Child(p, name) == Append(p, name)
Under(p, q) == IsStrictPrefix(q, p)
AtOrUnder(p, q) == IsPrefix(q, p)
\* The path p below old, once old is called new.
Repath(p, old, new) == new \o SubSeq(p, Len(old) + 1, Len(p))

With(t, k, v) == [x \in DOMAIN t \cup {k} |-> IF x = k THEN v ELSE t[x]]
Without(t, k) == [x \in DOMAIN t \ {k} |-> t[x]]

Kids(t, n) == IF n \in DOMAIN t.kids THEN t.kids[n] ELSE {}

\* parent_ino_for_path: the root stands in for a directory without a number.
ParentIno(at, p) ==
  IF p # Root /\ Front(p) \in DOMAIN at THEN at[Front(p)] ELSE ROOT_INO

\* Does the number at path p stand for the identity k?
Holds(t, p, k) == p \in DOMAIN t.at /\ t.at[p] \in DOMAIN t.id /\ t.id[t.at[p]] = k

\* Does the path of number n lead back to it?
Named(t, n) == t.path[n] \in DOMAIN t.at /\ t.at[t.path[n]] = n

\* InodeTable::new: one number per row.
NewTable(rows) ==
  LET ids == SetToSeq(DOMAIN rows)
      numbers == ROOT_INO + 1 .. ROOT_INO + Len(ids)
      id == [n \in numbers |-> ids[n - ROOT_INO]]
      path == [n \in numbers \cup {ROOT_INO} |->
                 IF n = ROOT_INO THEN Root ELSE rows[id[n]].path]
      at == [p \in {path[n] : n \in DOMAIN path} |->
               CHOOSE n \in DOMAIN path : path[n] = p]
  IN [next |-> ROOT_INO + 1 + Len(ids), path |-> path, at |-> at, id |-> id,
      kids |-> [n \in DOMAIN path |->
                  {m \in numbers : ParentIno(at, path[m]) = n}]]

\* The name of number n becomes p, and its row that of k.
Name(t, n, k, p) ==
  [t EXCEPT !.path = With(@, n, p), !.at = With(@, p, n), !.id = With(@, n, k)]

ListUnderParent(t, n) ==
  LET parent == ParentIno(t.at, t.path[n])
  IN [t EXCEPT !.kids = With(@, parent, Kids(t, parent) \cup {n})]

\* replace_ino_record: the number follows the row to path p.
ReplaceRecord(t, n, k, p) ==
  LET old == t.path[n]
      parent == ParentIno(t.at, old)
      unnamed == [t EXCEPT !.kids = With(@, parent, Kids(t, parent) \ {n}),
                           !.at = IF Named(t, n) THEN Without(@, old) ELSE @]
  IN ListUnderParent(Name(unnamed, n, k, p), n)

\* insert_or_update: the number that holds k at p, or a new one.
Insert(t, k, p) ==
  IF Holds(t, p, k) THEN ReplaceRecord(t, t.at[p], k, p)
  ELSE ListUnderParent(Name([t EXCEPT !.next = @ + 1], t.next, k, p), t.next)

\* Slip: the path of a removed number still leads to it.
Slip_RemoveIno(t, n) ==
  [t EXCEPT !.path = Without(@, n), !.id = Without(@, n),
            !.kids = [m \in DOMAIN @ \ {n} |-> @[m] \ {n}]]

\* remove_ino
RemoveIno(t, n) ==
  [t EXCEPT !.at = IF Named(t, n) THEN Without(@, t.path[n]) ELSE @,
            !.path = Without(@, n),
            !.id = Without(@, n),
            !.kids = [m \in DOMAIN @ \ {n} |-> @[m] \ {n}]]

\* refresh_children: the numbers of a directory become those of its rows.  A
\* row found under another name gets a new number; the old one keeps its path
\* until the directory it was listed in is refreshed.
RefreshChildren(t, parent, rows) ==
  IF parent \notin DOMAIN t.at THEN t ELSE
  LET dir == t.at[parent]
      here == {k \in DOMAIN rows : rows[k].path # Root /\ Front(rows[k].path) = parent}
      Visit(k, u) ==
        IF Holds(u, rows[k].path, k) THEN u
        ELSE Name([u EXCEPT !.next = @ + 1], u.next, k, rows[k].path)
      named == FoldSet(Visit, t, here)
      present == {named.at[rows[k].path] : k \in here}
      gone == {p \in DOMAIN named.at : named.at[p] \in Kids(t, dir) \ present}
  IN [named EXCEPT !.kids = With(@, dir, present),
                   !.at = [p \in DOMAIN @ \ gone |-> @[p]]]

\* children_for_ino: listed numbers that still own their path.
ChildrenOf(t, n) ==
  {m \in Kids(t, n) : m \in DOMAIN t.id /\ Named(t, m)}

\* ino_for_remote_id: the first one a hash map yields.
NumbersOf(t, k) == {n \in DOMAIN t.id : t.id[n] = k}
=============================================================================
