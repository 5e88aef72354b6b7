----------------------------- MODULE MCFileSync -----------------------------
(***************************************************************************)
(* FileSync for TLC: what the behaviours of each run may do.               *)
(***************************************************************************)
EXTENDS FileSync

Nothing == [b \in Kinds |-> 0]

\* A program opens and saves over and over, deletes the file and creates it again.
Save ==
  [seeded |-> TRUE,
   budget |-> [Nothing EXCEPT !["open"] = 3, !["write"] = 3, !["unlink"] = 1, !["create"] = 1]]

\* A program saves once while another client edits, a request fails and twodrive dies.
Conflict ==
  [seeded |-> TRUE,
   budget |-> [Nothing EXCEPT !["open"] = 1, !["write"] = 2, !["edit"] = 2, !["crash"] = 1, !["fault"] = 1]]

\* Files are created, saved and deleted at one path; a request fails and twodrive dies.
Delete ==
  [seeded |-> FALSE,
   budget |-> [Nothing EXCEPT !["create"] = 2, !["unlink"] = 2, !["write"] = 2, !["crash"] = 1, !["fault"] = 1]]

\* A program only opens the file while another client edits, deletes and replaces it.
Reload ==
  [seeded |-> TRUE,
   budget |-> [Nothing EXCEPT !["open"] = 2, !["edit"] = 2, !["remove"] = 1, !["make"] = 1, !["crash"] = 1]]

\* A program opens and truncates the file; a request fails and twodrive dies.
Truncate ==
  [seeded |-> TRUE,
   budget |-> [Nothing EXCEPT !["open"] = 2, !["trunc"] = 1, !["crash"] = 1, !["fault"] = 1]]

\* A program saves once while another client edits and deletes the file.
Missing ==
  [seeded |-> TRUE,
   budget |-> [Nothing EXCEPT !["open"] = 1, !["write"] = 2, !["edit"] = 2, !["remove"] = 1]]

\* A program starts to write while a remote deletion is imported.
DeltaRace ==
  [seeded |-> TRUE,
   budget |-> [Nothing EXCEPT !["open"] = 1, !["write"] = 1, !["remove"] = 1]]

SyncScenarios == {Save, Conflict, Delete, Reload}
SettleScenarios == {Save, Delete, Reload, Truncate, Missing}
DeltaRaceScenarios == {DeltaRace}

\* No run has more items than four.
Identities == {CloudId(n) : n \in 1..4} \cup {LocalIdentity(n) : n \in 1..4}

FairSpec == Spec /\ Fairness(Identities)
=============================================================================
