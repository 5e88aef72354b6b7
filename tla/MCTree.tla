------------------------------- MODULE MCTree ------------------------------
(***************************************************************************)
(* Tree for TLC: what the mount holds at the start of a run and what its   *)
(* behaviours may do.                                                      *)
(***************************************************************************)
EXTENDS Tree

Folder(parent, name) == [parent |-> parent, name |-> name, dir |-> TRUE]
File(parent, name) == [parent |-> parent, name |-> name, dir |-> FALSE]
Nothing == [b \in Kinds |-> 0]

\* A folder x with a file y in it, and a file y beside it.
Seed == CloudId(1) :> Folder(None, "x") @@ CloudId(2) :> File(CloudId(1), "y")
        @@ CloudId(3) :> File(None, "y")

\* Programs rename twice and remove a file; a request fails or its answer is lost.
Renaming ==
  [seed |-> Seed, budget |-> [Nothing EXCEPT !["rename"] = 2, !["unlink"] = 1, !["fault"] = 1]]

\* A folder is made and, perhaps, renamed; a request fails or its answer is lost.
Making ==
  [seed |-> Seed, budget |-> [Nothing EXCEPT !["rename"] = 1, !["mkdir"] = 1, !["fault"] = 1]]

\* A file and a folder are removed while twodrive dies.
Removing ==
  [seed |-> Seed,
   budget |-> [Nothing EXCEPT !["unlink"] = 2, !["rmdir"] = 1, !["make"] = 1, !["crash"] = 1]]

\* Another client adds and moves items; a program looks and removes a file.
Moved ==
  [seed |-> Seed,
   budget |-> [Nothing EXCEPT !["make"] = 1, !["move"] = 1, !["lookup"] = 1, !["unlink"] = 1]]

\* A program renames once while the table and the drive fall apart.
Behind ==
  [seed |-> Seed,
   budget |-> [Nothing EXCEPT !["make"] = 1, !["rename"] = 1, !["lookup"] = 2, !["crash"] = 1]]
Echoed ==
  [seed |-> Seed, budget |-> [Nothing EXCEPT !["move"] = 1, !["rename"] = 1, !["lookup"] = 1]]

\* A rename, a new folder, or removals, replayed although requests fail and
\* twodrive dies.
OneRename ==
  [seed |-> Seed,
   budget |-> [Nothing EXCEPT !["rename"] = 1, !["unlink"] = 1, !["fault"] = 1, !["crash"] = 1]]
OneFolder ==
  [seed |-> Seed,
   budget |-> [Nothing EXCEPT !["mkdir"] = 1, !["rmdir"] = 1, !["fault"] = 1, !["crash"] = 1]]
Removals ==
  [seed |-> Seed,
   budget |-> [Nothing EXCEPT !["unlink"] = 2, !["rmdir"] = 1, !["make"] = 1, !["fault"] = 1, !["crash"] = 1]]

\* A file is moved out of a folder and the folder is removed.
Emptied == [seed |-> Seed, budget |-> [Nothing EXCEPT !["rename"] = 1, !["rmdir"] = 1]]

TreeScenarios == {Renaming, Making, Removing, Moved, Behind, Echoed}
ReplayScenarios == {OneRename, OneFolder, Removals}
EmptiedScenarios == {Emptied}

Queueable == {CloudId(n) : n \in 1..4} \cup {LocalIdentity(4)}
FairSpec == Spec /\ Fairness(Queueable)
=============================================================================
