---------------------------- MODULE MCHydration ----------------------------
(***************************************************************************)
(* Hydration for TLC: what the behaviours of each run may do.              *)
(***************************************************************************)
EXTENDS Hydration

Nothing == [b \in Kinds |-> 0]

\* Two programs read an online-only file that is released and edited by another
\* client.
Share ==
  [pinned |-> FALSE, cached |-> FALSE,
   budget |-> [Nothing EXCEPT !["mount"] = 1, !["read"] = 2, !["edit"] = 1, !["release"] = 1]]

\* A program saves and another reads while the file is released and edited.
Save ==
  [pinned |-> FALSE, cached |-> FALSE,
   budget |-> [Nothing EXCEPT !["mount"] = 1, !["write"] = 1, !["read"] = 1, !["edit"] = 1,
                              !["release"] = 1]]

\* The daemon downloads a pinned file that a program reads, another client edits
\* and the user unpins; a request fails.
Keep ==
  [pinned |-> TRUE, cached |-> FALSE,
   budget |-> [Nothing EXCEPT !["mount"] = 1, !["read"] = 1, !["edit"] = 1, !["unpin"] = 1,
                              !["fault"] = 1]]

\* A program saves a pinned file that another reads, that is unpinned and expires;
\* twodrive dies.
KeepSave ==
  [pinned |-> TRUE, cached |-> TRUE,
   budget |-> [Nothing EXCEPT !["mount"] = 1, !["write"] = 1, !["read"] = 1, !["unpin"] = 1,
                              !["age"] = 1, !["prune"] = 1, !["crash"] = 1]]

\* A program replaces the content of a cached file, another reads it; twodrive dies.
Replace ==
  [pinned |-> FALSE, cached |-> TRUE,
   budget |-> [Nothing EXCEPT !["mount"] = 1, !["trunc"] = 1, !["read"] = 1, !["crash"] = 1]]

\* The daemon does not run: commands pin, unpin, fetch, release and prune.
Offline ==
  [pinned |-> FALSE, cached |-> FALSE,
   budget |-> [Nothing EXCEPT !["pin"] = 1, !["unpin"] = 1, !["sync"] = 1, !["release"] = 1,
                              !["edit"] = 1, !["fault"] = 1, !["age"] = 1, !["prune"] = 1,
                              !["kill"] = 1]]

CacheScenarios == {Share, Save, Keep, KeepSave, Replace, Offline}
=============================================================================
