--------------------------- MODULE MCUploadSession --------------------------
(***************************************************************************)
(* UploadSession for TLC: what its behaviours may do.                      *)
(***************************************************************************)
EXTENDS UploadSession

Nothing == [b \in Kinds |-> 0]

\* The daemon alone: requests fail, it dies, the file is written.
Alone == [Nothing EXCEPT !["write"] = 1, !["fault"] = 2, !["death"] = 1]
Rewritten == [Nothing EXCEPT !["write"] = 2, !["fault"] = 1, !["death"] = 1]
Unstable == [Nothing EXCEPT !["fault"] = 4]

\* A command uploads the same file at the same time.
Beside == [Nothing EXCEPT !["write"] = 1, !["run"] = 1, !["fault"] = 1]
BesideDying == [Nothing EXCEPT !["run"] = 1, !["fault"] = 1, !["death"] = 1]

UploadScenarios == {Alone, Rewritten, Unstable, Beside, BesideDying}
=============================================================================
