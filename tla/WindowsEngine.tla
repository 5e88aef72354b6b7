--------------------------- MODULE WindowsEngine ---------------------------
(***************************************************************************)
(* The Windows engine: one process that a tray program drives by commands, *)
(* and the threads those commands start.  The state lock of the engine is  *)
(* taken by every command and by every thread that publishes a result, so  *)
(* a command is one step, and a thread is a sequence of steps: what it does *)
(* on the network or on disk, and the section in which it holds the lock.  *)
(*                                                                         *)
(* Modelled: signing in and out, the credentials in memory and on disk,    *)
(* the refresh of the read-only cloud index (staged pages, one committing  *)
(* transaction), the download with its resumable partial file, directory   *)
(* browsing with its continuation links, and a restart of the process.     *)
(* Left out: status texts and progress, the pause switch (a command may    *)
(* always be refused, which is a stuttering step), and the mock mode.      *)
(*                                                                         *)
(* The drive of an account holds one folder and one file.  Every change in *)
(* the cloud gets a new version from one clock, and a version is an eTag:  *)
(* two versions are never equal, and all versions of the file have the     *)
(* same size, which is the case in which sizes tell nothing.               *)
(***************************************************************************)
EXTENDS Naturals, Sequences, FiniteSets

CONSTANTS Accounts,     \* accounts a person may sign in with
          Dir, File,    \* the items of a drive
          None,
          Chunks,       \* reads of the network it takes to fetch the file
          Links,        \* continuation links the server may hand out
          MaxWorkers,   \* browse threads at a time (4 in the code)
          MaxAttempts,  \* transfers of one download (3 in the code)
          Commands,     \* bound: which of "index", "cancel" (of a refresh),
                        \* "download", "browse"
                        \* the tray program sends, beside login and logout
          Expiring,     \* bound: threads whose access token may expire
          MaxChanges,   \* bound: changes in the cloud
          MaxLogouts,   \* bound: sign-outs asked for
          MaxQueries,   \* bound: directories and pages asked for
          MaxRestarts   \* bound: restarts of the engine

Items == {Dir, File}
Epochs == 0 .. MaxLogouts
Versions == 1 .. MaxChanges + 1
Root == "root"

\* A row of the index.
Row == [ver : Versions, parent : {Root, Dir}, deleted : BOOLEAN]

ASSUME EngineAssumption ==
    /\ {Chunks, MaxWorkers, MaxAttempts} \subseteq Nat \ {0}
    /\ {MaxChanges, MaxLogouts, MaxQueries, MaxRestarts} \subseteq Nat
    /\ Dir # File /\ None \notin Accounts /\ None \notin Links
    /\ None \notin Row /\ None \notin Epochs /\ "cleared" \notin Accounts
    /\ None \notin {"waiting", "granted", "saved"}

\* The threads: browse threads are numbered, the other two come after them.
Refresher == MaxQueries + 1
Downloader == MaxQueries + 2
Threads == 1 .. Downloader
Queries == 1 .. MaxQueries

VARIABLES
    cloud,      \* account -> item -> its last change: [ver, live, parent]
    clock,      \* the version of the last change
    \* kept on disk
    token,      \* the account whose credentials are stored, or None
    savedIdentity, \* state value "cloud_identity"
    index,      \* account -> item -> its committed row, or None
    stage,      \* account -> item -> its staged row, or None
    link,       \* account -> the cursor of the committed rows, 0 for none
    task,       \* account -> the download task of the file, or None
    partial,    \* account -> version -> the bytes fetched so far
    complete,   \* account -> version -> the finished file, or None
    \* kept in memory
    auth,       \* what auth_status reports
    login,      \* the login thread: [pc, acc, where it was cancelled], or None
    signout,    \* the graph the sign-out thread forgets, and its step
    removalFailed, \* auth_error = "credential_removal_failed"
    epoch,
    graph,      \* where graphs has state.graph
    graphs,     \* epoch of creation -> the credentials a GraphBackend holds
    holder,     \* epoch of creation -> the thread that holds its token lock
    identity,   \* state.cloud_identity
    refresh,    \* the refresh thread, or None
    download,   \* the download thread, or None
    directory,  \* the directory on show, or None
    browses,    \* the browse threads
    browseCancel, \* the thread state.browse_cancel can cancel, or None
    seenLinks,  \* state.browse_links
    queries, restarts   \* counters of the bounds

cloudVars == <<cloud, clock>>
storeVars == <<savedIdentity, index, stage, link>>
fileVars == <<task, partial, complete>>
authVars == <<token, auth, login, signout, removalFailed>>
graphVars == <<epoch, graph, graphs, holder>>
browseVars == <<directory, browses, browseCancel, seenLinks, queries>>
vars == <<cloudVars, storeVars, fileVars, authVars, graphVars, identity,
          refresh, download, browseVars, restarts>>

---------------------------------------------------------------------------
(* The cloud, as its read-only client sees it. *)

Unlisted == [i \in Items |-> None]
LiveItems(a) == {i \in Items : cloud[a][i].live}
ChangedSince(a, since) == {i \in Items : cloud[a][i].ver > since}

\* The file's version when its download started still is the cloud's.
Unchanged(a, ver) == cloud[a][File].live /\ cloud[a][File].ver = ver

CloudChange(a, i, row) ==
    /\ clock < MaxChanges + 1
    /\ cloud' = [cloud EXCEPT ![a][i] = row]
    /\ clock' = clock + 1

\* Another client edits, moves or deletes; a folder goes with what is in it.
CloudEdit(a, i) ==
    /\ cloud[a][i].live
    /\ CloudChange(a, i, [cloud[a][i] EXCEPT !.ver = clock + 1])

CloudMove(a) ==
    /\ cloud[a][File].live /\ cloud[a][Dir].live
    /\ \E parent \in {Root, Dir} \ {cloud[a][File].parent} :
          CloudChange(a, File,
              [ver |-> clock + 1, live |-> TRUE, parent |-> parent])

CloudDelete(a, i) ==
    /\ cloud[a][i].live
    /\ clock < MaxChanges + 1
    /\ clock' = clock + 1
    /\ cloud' = [cloud EXCEPT ![a] = [j \in Items |->
           IF j = i \/ (i = Dir /\ cloud[a][j].live /\ cloud[a][j].parent = Dir)
           THEN [cloud[a][j] EXCEPT !.ver = clock + 1, !.live = FALSE]
           ELSE cloud[a][j]]]

CloudStep ==
    /\ \E a \in Accounts : \/ CloudMove(a)
                           \/ \E i \in Items : CloudEdit(a, i) \/ CloudDelete(a, i)
    /\ UNCHANGED <<storeVars, fileVars, authVars, graphVars, identity,
                   refresh, download, browseVars, restarts>>

---------------------------------------------------------------------------
(* Credentials.  A GraphBackend goes by the epoch from which state.graph is *)
(* its place; a logout that fails early leaves it there.                    *)

\* The graph a command finds or creates for the thread it starts.
GraphLocked ==
    /\ auth = "signed_in"
    /\ graphs' = [graphs EXCEPT ![graph] = IF @ = None THEN token ELSE @]

\* A request by graph e can be answered: its credentials were
\* not forgotten, and no other thread is refreshing them.
MayAsk(e) == graphs[e] \in Accounts /\ holder[e] = None

\* Slip: whoever is signed in now may see the result.
Slip_GuardSession(thread) == auth = "signed_in"

\* guard_session: checked under the state lock before a result is published.
GuardSession(thread) ==
    epoch = thread.epoch /\ auth = "signed_in" /\ ~thread.cancel

Cancelled(thread) == IF thread = None THEN None ELSE [thread EXCEPT !.cancel = TRUE]

\* The process goes away and Engine::open starts it again: threads and what
\* is in memory are gone; a stored token means signed in; tasks under way
\* of the account on show become errors that can be resumed.
Reset(saved) ==
    /\ restarts < MaxRestarts
    /\ restarts' = restarts + 1
    /\ auth' = IF token = None THEN "signed_out" ELSE "signed_in"
    /\ identity' = IF token = None THEN None ELSE saved
    /\ task' = [a \in Accounts |->
           IF a = identity' /\ task[a] # None /\ task[a].state = "downloading"
           THEN [task[a] EXCEPT !.state = "error"] ELSE task[a]]
    /\ login' = None /\ signout' = None /\ removalFailed' = FALSE
    /\ epoch' = 0 /\ graph' = 0
    /\ graphs' = [e \in Epochs |-> None]
    /\ holder' = [e \in Epochs |-> None]
    /\ refresh' = None /\ download' = None
    /\ directory' = None /\ browses' = {} /\ browseCancel' = None
    /\ seenLinks' = {} /\ UNCHANGED queries

\* browse_cancel.take(): only the thread launched last can be cancelled.
AfterCancel ==
    {IF b.id = browseCancel THEN [b EXCEPT !.cancel = TRUE] ELSE b : b \in browses}

CancelLaunched == browses' = AfterCancel /\ browseCancel' = None

Login ==
    /\ auth = "signed_out"
    /\ auth' = "signing_in"
    /\ login' = [pc |-> "waiting", acc |-> None, cancelled |-> None]
    /\ removalFailed' = FALSE
    /\ UNCHANGED <<cloudVars, storeVars, fileVars, token, signout, graphVars,
                   identity, refresh, download, browseVars, restarts>>

CancelLogin ==
    /\ login # None /\ login.cancelled = None
    /\ login' = [login EXCEPT !.cancelled = login.pc]
    /\ UNCHANGED <<cloudVars, storeVars, fileVars, token, auth, signout,
                   removalFailed, graphVars, identity, refresh, download,
                   browseVars, restarts>>

\* Slip: the flag is looked at before the code is exchanged only.
Slip_LoginGrant(a) ==
    /\ login # None /\ login.pc = "waiting"
    /\ login' = [login EXCEPT !.pc = "granted", !.acc = a]
    /\ UNCHANGED <<cloudVars, storeVars, fileVars, token, auth, signout,
                   removalFailed, graphVars, identity, refresh, download,
                   browseVars, restarts>>

\* The browser answered, the code was exchanged, and nobody had cancelled
\* when the thread looked for the last time.
LoginGrant(a) ==
    /\ login # None /\ login.pc = "waiting" /\ login.cancelled = None
    /\ login' = [login EXCEPT !.pc = "granted", !.acc = a]
    /\ UNCHANGED <<cloudVars, storeVars, fileVars, token, auth, signout,
                   removalFailed, graphVars, identity, refresh, download,
                   browseVars, restarts>>

\* Nothing keeps CancelLogin out between that look and the saving.
LoginSave ==
    /\ login # None /\ login.pc = "granted"
    /\ token' = login.acc
    /\ login' = [login EXCEPT !.pc = "saved"]
    /\ UNCHANGED <<cloudVars, storeVars, fileVars, auth, signout,
                   removalFailed, graphVars, identity, refresh, download,
                   browseVars, restarts>>

\* The login thread takes the lock: signed in exactly when it stored a token.
LoginDone ==
    /\ login # None
    /\ auth' = IF login.pc = "saved" THEN "signed_in" ELSE "signed_out"
    /\ login' = None
    /\ UNCHANGED <<cloudVars, storeVars, fileVars, token, signout,
                   removalFailed, graphVars, identity, refresh, download,
                   browseVars, restarts>>

\* Logout first invalidates what runs and forgets the identity, then refuses
\* while a login or another sign-out is under way; or it fails on the way,
\* when the identity on disk cannot be cleared.  What it invalidated stays so.
LogoutInvalidates ==
    /\ epoch < MaxLogouts
    /\ epoch' = epoch + 1
    /\ refresh' = Cancelled(refresh)
    /\ download' = Cancelled(download)
    /\ identity' = None

LogoutAccepted ==
    /\ auth \in {"signed_in", "signed_out"}
    /\ LogoutInvalidates
    /\ savedIdentity' = None
    /\ CancelLaunched
    /\ directory' = None
    /\ auth' = "signing_out"
    /\ signout' = [pc |-> "forget",
                   graph |-> IF graphs[graph] = None THEN None ELSE graph]
    /\ graph' = epoch'
    /\ UNCHANGED <<cloudVars, index, stage, link, fileVars, token, login,
                   removalFailed, graphs, holder, seenLinks, queries, restarts>>

LogoutRefused ==
    /\ LogoutInvalidates
    /\ \/ auth \in {"signing_in", "signing_out"} /\ savedIdentity' = None
       \/ savedIdentity' = savedIdentity
    /\ UNCHANGED <<cloudVars, index, stage, link, fileVars, authVars, graph,
                   graphs, holder, browseVars, restarts>>

\* Slip: the credentials are cleared without the token lock.
Slip_Forget ==
    /\ signout # None /\ signout.pc = "forget"
    /\ graphs' = IF signout.graph = None THEN graphs
                 ELSE [graphs EXCEPT ![signout.graph] = "cleared"]
    /\ \/ token' = None /\ signout' = [signout EXCEPT !.pc = "removed"]
       \/ token # None /\ token' = token /\ signout' = [signout EXCEPT !.pc = "failed"]
    /\ UNCHANGED <<cloudVars, storeVars, fileVars, auth, login, removalFailed,
                   epoch, graph, holder, identity, refresh, download, browseVars,
                   restarts>>

\* forget_credentials waits for a token refresh in flight, clears the
\* credentials in memory and deletes the file, which may fail.
Forget ==
    /\ signout # None /\ signout.pc = "forget"
    /\ signout.graph # None => holder[signout.graph] = None
    /\ graphs' = IF signout.graph = None THEN graphs
                 ELSE [graphs EXCEPT ![signout.graph] = "cleared"]
    /\ \/ token' = None /\ signout' = [signout EXCEPT !.pc = "removed"]
       \/ token # None /\ token' = token /\ signout' = [signout EXCEPT !.pc = "failed"]
    /\ UNCHANGED <<cloudVars, storeVars, fileVars, auth, login, removalFailed,
                   epoch, graph, holder, identity, refresh, download, browseVars,
                   restarts>>

\* Slip: a failed removal leaves the thread before it reports.
Slip_SignedOut ==
    /\ signout # None /\ signout.pc = "removed"
    /\ auth' = "signed_out"
    /\ removalFailed' = FALSE
    /\ signout' = None
    /\ UNCHANGED <<cloudVars, storeVars, fileVars, token, login, graphVars,
                   identity, refresh, download, browseVars, restarts>>

SignedOut ==
    /\ signout # None /\ signout.pc \in {"removed", "failed"}
    /\ auth' = "signed_out"
    /\ removalFailed' = (signout.pc = "failed")
    /\ signout' = None
    /\ UNCHANGED <<cloudVars, storeVars, fileVars, token, login, graphVars,
                   identity, refresh, download, browseVars, restarts>>

\* A thread finds its access token expired or rejected: it takes the token
\* lock of its graph, asks for new credentials, stores them, lets go.
Asking(who) ==
    CASE who = Refresher ->
             refresh # None /\ refresh.pc \in {"identity", "pages"} /\ ~refresh.cancel
      [] who = Downloader ->
             download # None /\ download.pc \in {"meta", "post"} /\ ~download.cancel
      [] OTHER -> \E b \in browses : b.id = who /\ b.pc = "ask" /\ ~b.cancel

GraphOf(who) ==
    CASE who = Refresher -> refresh.graph
      [] who = Downloader -> download.graph
      [] OTHER -> (CHOOSE b \in browses : b.id = who).graph

TokenRefreshStart(who) ==
    /\ who \in Expiring /\ Asking(who) /\ MayAsk(GraphOf(who))
    /\ holder' = [holder EXCEPT ![GraphOf(who)] = who]
    /\ UNCHANGED <<cloudVars, storeVars, fileVars, authVars, epoch, graph, graphs,
                   identity, refresh, download, browseVars, restarts>>

TokenRefreshEnd(e) ==
    /\ holder[e] # None
    /\ \/ token' = graphs[e]      \* granted and saved
       \/ token' = token          \* refused, or not answered
    /\ holder' = [holder EXCEPT ![e] = None]
    /\ UNCHANGED <<cloudVars, storeVars, fileVars, auth, login, signout,
                   removalFailed, epoch, graph, graphs, identity, refresh, download,
                   browseVars, restarts>>

---------------------------------------------------------------------------
(* Refreshing the index. *)

RefreshIndex ==
    /\ "index" \in Commands
    /\ refresh = None
    /\ GraphLocked
    /\ refresh' = [pc |-> "identity", epoch |-> epoch, graph |-> graph,
                   cancel |-> FALSE, acc |-> None, replace |-> FALSE, upto |-> 0, left |-> {}]
    /\ UNCHANGED <<cloudVars, storeVars, fileVars, authVars, epoch, graph, holder,
                   identity, download, browseVars, restarts>>

CancelRefresh ==
    /\ "cancel" \in Commands
    /\ refresh # None /\ ~refresh.cancel
    /\ refresh' = Cancelled(refresh)
    /\ UNCHANGED <<cloudVars, storeVars, fileVars, authVars, graphVars,
                   identity, download, browseVars, restarts>>

\* An enumeration of account a: what has changed since a cursor, or, without
\* one, what there is.  It answers for every change up to its opening.
Enumerate(a, since) ==
    /\ stage' = [stage EXCEPT ![a] = Unlisted]
    /\ refresh' = [refresh EXCEPT
           !.pc = "pages", !.acc = a, !.replace = (since = 0), !.upto = clock,
           !.left = IF since = 0 THEN LiveItems(a) ELSE ChangedSince(a, since)]

\* readonly_identity, then the first request of stage_delta.
RefreshBegin ==
    /\ refresh # None /\ refresh.pc = "identity" /\ ~refresh.cancel
    /\ MayAsk(refresh.graph)
    /\ LET a == graphs[refresh.graph] IN Enumerate(a, link[a])
    /\ UNCHANGED <<cloudVars, savedIdentity, index, link, fileVars, authVars,
                   graphVars, identity, download, browseVars, restarts>>

\* A page names an item as it is when the page is read.  An enumeration that
\* started without a cursor does not name what is gone meanwhile.
RefreshPage ==
    /\ refresh # None /\ refresh.pc = "pages" /\ ~refresh.cancel
    /\ MayAsk(refresh.graph)
    /\ \E i \in refresh.left :
          LET now == cloud[refresh.acc][i]
              row == [ver |-> now.ver, parent |-> now.parent, deleted |-> ~now.live]
          IN  /\ stage' = IF refresh.replace /\ ~now.live THEN stage
                          ELSE [stage EXCEPT ![refresh.acc][i] = row]
              /\ refresh' = [refresh EXCEPT !.left = @ \ {i}]
    /\ UNCHANGED <<cloudVars, savedIdentity, index, link, fileVars, authVars,
                   graphVars, identity, download, browseVars, restarts>>

\* HTTP 410: the cursor is too old, and the enumeration starts over.
RefreshExpired ==
    /\ refresh # None /\ refresh.pc = "pages" /\ ~refresh.cancel
    /\ MayAsk(refresh.graph) /\ ~refresh.replace
    /\ Enumerate(refresh.acc, 0)
    /\ UNCHANGED <<cloudVars, savedIdentity, index, link, fileVars, authVars,
                   graphVars, identity, download, browseVars, restarts>>

\* Any request may fail, a cancelled thread fails at its next check.
RefreshFail ==
    /\ refresh # None /\ refresh.pc # "done"
    /\ holder[refresh.graph] # Refresher
    /\ refresh' = [refresh EXCEPT !.pc = "done"]
    /\ UNCHANGED <<cloudVars, storeVars, fileVars, authVars, graphVars,
                   identity, download, browseVars, restarts>>

\* Slip: a full enumeration does not start from an empty index.
Slip_Merge(a, replace) ==
    LET rows == [i \in Items |->
                    IF stage[a][i] = None THEN index[a][i]
                    ELSE IF ~stage[a][i].deleted THEN stage[a][i]
                    ELSE IF index[a][i] = None THEN None
                    ELSE [index[a][i] EXCEPT !.deleted = TRUE]]
        alive == {i \in Items : rows[i] # None /\ ~rows[i].deleted}
    IN  [i \in Items |-> IF rows[i] # None /\ rows[i].deleted
                            /\ ~\E j \in alive : rows[j].parent = i
                         THEN None ELSE rows[i]]

\* cloud_commit: live rows first, then tombstones; a tombstoned row stays
\* as long as a row that is not tombstoned names it as its parent.
Merge(a, replace) ==
    LET base == IF replace THEN Unlisted ELSE index[a]
        rows == [i \in Items |->
                    IF stage[a][i] = None THEN base[i]
                    ELSE IF ~stage[a][i].deleted THEN stage[a][i]
                    ELSE IF base[i] = None THEN None
                    ELSE [base[i] EXCEPT !.deleted = TRUE]]
        alive == {i \in Items : rows[i] # None /\ ~rows[i].deleted}
    IN  [i \in Items |-> IF rows[i] # None /\ rows[i].deleted
                            /\ ~\E j \in alive : rows[j].parent = i
                         THEN None ELSE rows[i]]


\* The worker publishes under the state lock: the transaction, then the
\* identity on disk and in memory.  The process may die between the two, and
\* the identity may fail to be written.
RefreshCommit ==
    /\ refresh # None /\ refresh.pc = "pages" /\ refresh.left = {}
    /\ GuardSession(refresh)
    /\ index' = [index EXCEPT ![refresh.acc] = Merge(refresh.acc, refresh.replace)]
    /\ link' = [link EXCEPT ![refresh.acc] = refresh.upto]
    /\ stage' = [stage EXCEPT ![refresh.acc] = Unlisted]
    /\ \/ /\ savedIdentity' = refresh.acc
          /\ identity' = refresh.acc
          /\ refresh' = [refresh EXCEPT !.pc = "done"]
          /\ UNCHANGED <<task, auth, login, signout, removalFailed, graphVars,
                         download, browseVars, restarts>>
       \/ /\ UNCHANGED <<savedIdentity, identity>>
          /\ refresh' = [refresh EXCEPT !.pc = "done"]
          /\ UNCHANGED <<task, auth, login, signout, removalFailed, graphVars,
                         download, browseVars, restarts>>
       \/ UNCHANGED savedIdentity /\ Reset(savedIdentity)
    /\ UNCHANGED <<cloudVars, partial, complete, token>>

RefreshDone ==
    /\ refresh # None /\ refresh.pc = "done"
    /\ refresh' = None
    /\ UNCHANGED <<cloudVars, storeVars, fileVars, authVars, graphVars,
                   identity, download, browseVars, restarts>>

---------------------------------------------------------------------------
(* Downloading the file into the private cache. *)

\* valid_cache: what the engine shows as cached and opens.
ValidCache(a) ==
    /\ task[a] # None /\ task[a].state = "cached"
    /\ index[a][File] # None /\ task[a].ver = index[a][File].ver
    /\ complete[a][task[a].ver] # None

DownloadCloud ==
    /\ "download" \in Commands
    /\ download = None
    /\ GraphLocked
    /\ identity # None /\ index[identity][File] # None
    /\ ~ValidCache(identity)
    /\ LET ver == index[identity][File].ver IN
       /\ task' = [task EXCEPT ![identity] = [ver |-> ver, state |-> "downloading"]]
       /\ download' = [pc |-> "meta", epoch |-> epoch, graph |-> graph,
                       cancel |-> FALSE, acc |-> identity, ver |-> ver, attempt |-> 0]
    /\ UNCHANGED <<cloudVars, storeVars, partial, complete, authVars, epoch,
                   graph, holder, identity, refresh, browseVars, restarts>>

CancelDownload ==
    /\ download # None /\ ~download.cancel
    /\ download' = Cancelled(download)
    /\ UNCHANGED <<cloudVars, storeVars, fileVars, authVars, graphVars,
                   identity, refresh, browseVars, restarts>>

DownloadUnchanged == UNCHANGED <<cloudVars, storeVars, complete, authVars,
                                 graphVars, identity, refresh, browseVars, restarts>>

\* download_metadata: the graph is the account's own, and the file still has
\* the version to fetch.  A full partial file needs no bytes; otherwise the
\* server continues where the partial file ends (206) or starts over (200).
DownloadMeta ==
    /\ download # None /\ download.pc = "meta" /\ ~download.cancel
    /\ MayAsk(download.graph) /\ graphs[download.graph] = download.acc
    /\ Unchanged(download.acc, download.ver)
    /\ UNCHANGED task
    /\ IF Len(partial[download.acc][download.ver]) = Chunks
       THEN download' = [download EXCEPT !.pc = "publish"] /\ UNCHANGED partial
       ELSE /\ download' = [download EXCEPT !.pc = "read"]
            /\ \/ UNCHANGED partial
               \/ partial' = [partial EXCEPT ![download.acc][download.ver] = <<>>]
    /\ DownloadUnchanged

\* What is read belongs to the version the response was opened for, or to
\* the one the file has by now.
DownloadRead ==
    /\ download # None /\ download.pc = "read" /\ ~download.cancel
    /\ LET a == download.acc
           have == partial[a][download.ver]
       IN  \E ver \in {download.ver, cloud[a][File].ver} :
             /\ partial' = [partial EXCEPT ![a][download.ver] = Append(have, ver)]
             /\ download' = [download EXCEPT
                    !.pc = IF Len(have) + 1 = Chunks THEN "post" ELSE "read"]
    /\ UNCHANGED task
    /\ DownloadUnchanged

\* The connection broke: the next attempt asks for the metadata again.
DownloadRetry ==
    /\ download # None /\ download.pc = "read" /\ ~download.cancel
    /\ download.attempt + 1 < MaxAttempts
    /\ download' = [download EXCEPT !.pc = "meta", !.attempt = @ + 1]
    /\ UNCHANGED <<task, partial>>
    /\ DownloadUnchanged

\* Slip: the version is looked at before the transfer only.
Slip_DownloadPost ==
    /\ download # None /\ download.pc = "post" /\ ~download.cancel
    /\ download' = [download EXCEPT !.pc = "publish"]
    /\ UNCHANGED <<task, partial>>
    /\ DownloadUnchanged

DownloadPost ==
    /\ download # None /\ download.pc = "post" /\ ~download.cancel
    /\ MayAsk(download.graph)
    /\ Unchanged(download.acc, download.ver)
    /\ download' = [download EXCEPT !.pc = "publish"]
    /\ UNCHANGED <<task, partial>>
    /\ DownloadUnchanged

\* Under the state lock: the session and the row are still the ones the
\* download started for; then the old file goes, the partial file takes its
\* name, and the task says so.  The process may die after each of the three.
DownloadPublish ==
    /\ download # None /\ download.pc = "publish"
    /\ GuardSession(download) /\ identity = download.acc
    /\ LET a == download.acc
           ver == download.ver
           full == partial[a][ver]
       IN  /\ index[a][File] # None /\ index[a][File].ver = ver
           /\ \/ /\ complete' = [complete EXCEPT ![a][ver] = full]
                 /\ partial' = [partial EXCEPT ![a][ver] = <<>>]
                 /\ task' = [task EXCEPT ![a] = [ver |-> ver, state |-> "cached"]]
                 /\ download' = [download EXCEPT !.pc = "done"]
                 /\ UNCHANGED <<auth, login, signout, removalFailed, graphVars,
                                identity, refresh, browseVars, restarts>>
              \/ /\ complete' = [complete EXCEPT ![a][ver] = None]
                 /\ UNCHANGED partial
                 /\ Reset(savedIdentity)
              \/ /\ complete' = [complete EXCEPT ![a][ver] = full]
                 /\ partial' = [partial EXCEPT ![a][ver] = <<>>]
                 /\ Reset(savedIdentity)
    /\ UNCHANGED <<cloudVars, storeVars, token>>

\* A request, the disk, or one of the checks above fails.
DownloadFail ==
    /\ download # None /\ download.pc \in {"meta", "read", "post", "publish"}
    /\ holder[download.graph] # Downloader
    /\ download' = [download EXCEPT !.pc = "failed"]
    /\ UNCHANGED <<task, partial>>
    /\ DownloadUnchanged

DownloadDone ==
    /\ download # None /\ download.pc \in {"failed", "done"}
    /\ download' = None
    /\ task' = IF download.pc = "done" THEN task
               ELSE [task EXCEPT ![download.acc] =
                        [ver |-> download.ver, state |-> "error"]]
    /\ UNCHANGED partial
    /\ DownloadUnchanged

---------------------------------------------------------------------------
(* Browsing: one query on show, its threads may outlive it. *)

LaunchBrowse ==
    /\ "browse" \in Commands
    /\ Cardinality(browses) < MaxWorkers
    /\ queries < MaxQueries
    /\ queries' = queries + 1
    /\ browseCancel' = queries'

Worker(query, next) ==
    [id |-> queries + 1, query |-> query, graph |-> None, cancel |-> FALSE,
     pc |-> "start", next |-> next, page |-> None]

BrowseUnchanged == UNCHANGED <<cloudVars, storeVars, fileVars, authVars,
                               identity, refresh, download, restarts>>

\* Slip: a new query leaves the thread of the old one alone.
Slip_Browse(q) ==
    /\ auth = "signed_in"
    /\ LaunchBrowse
    /\ directory' = [query |-> q, status |-> "loading", page |-> None]
    /\ seenLinks' = {}
    /\ browses' = browses \cup {Worker(q, None)}
    /\ UNCHANGED graphVars
    /\ BrowseUnchanged

Browse(q) ==
    /\ auth = "signed_in"
    /\ LaunchBrowse
    /\ directory' = [query |-> q, status |-> "loading", page |-> None]
    /\ seenLinks' = {}
    /\ browses' = AfterCancel \cup {Worker(q, None)}
    /\ UNCHANGED graphVars
    /\ BrowseUnchanged

BrowseNext ==
    /\ auth = "signed_in"
    /\ directory # None /\ directory.status # "loading"
    /\ directory.page # None /\ directory.page.next # None
    /\ LaunchBrowse
    /\ directory' = [directory EXCEPT !.status = "loading"]
    /\ browses' = browses \cup {Worker(directory.query, directory.page.next)}
    /\ UNCHANGED <<seenLinks, graphVars>>
    /\ BrowseUnchanged

CancelBrowse ==
    /\ directory # None
    /\ CancelLaunched
    /\ directory' = None
    /\ UNCHANGED <<seenLinks, queries, graphVars>>
    /\ BrowseUnchanged

\* The thread takes the lock for the graph, creating it when there is none.
BrowseStart(b) ==
    /\ b.pc = "start" /\ ~b.cancel
    /\ graphs' = [graphs EXCEPT ![graph] = IF @ = None THEN token ELSE @]
    /\ browses' = (browses \ {b}) \cup {[b EXCEPT !.pc = "ask", !.graph = graph]}
    /\ UNCHANGED <<directory, browseCancel, seenLinks, queries, epoch, graph, holder>>
    /\ BrowseUnchanged

\* browse_directory answers a page; a link that leads to itself is refused.
BrowseAnswer(b) ==
    /\ b.pc = "ask" /\ ~b.cancel /\ MayAsk(b.graph)
    /\ \E next \in (Links \cup {None}) \ ({b.next} \ {None}) :
          browses' = (browses \ {b}) \cup
              {[b EXCEPT !.pc = "answered",
                         !.page = [acc |-> graphs[b.graph], next |-> next]]}
    /\ UNCHANGED <<directory, browseCancel, seenLinks, queries, graphVars>>
    /\ BrowseUnchanged

BrowseFail(b) ==
    /\ b.pc \in {"start", "ask"} /\ ~\E e \in Epochs : holder[e] = b.id
    /\ browses' = (browses \ {b}) \cup {[b EXCEPT !.pc = "answered"]}
    /\ UNCHANGED <<directory, browseCancel, seenLinks, queries, graphVars>>
    /\ BrowseUnchanged

\* finish_browse: a result nobody waits for any more is dropped; a repeated
\* continuation fails the query and keeps the page that was on show.
FinishBrowse(b) ==
    /\ b.pc = "answered"
    /\ browses' = browses \ {b}
    /\ LET late == b.cancel \/ auth # "signed_in" \/ directory = None
                       \/ directory.query # b.query
           repeated == b.page # None /\ b.page.next \in seenLinks
       IN  CASE late -> UNCHANGED <<directory, seenLinks>>
             [] ~late /\ (b.page = None \/ repeated) ->
                    directory' = [directory EXCEPT !.status = "failed"]
                    /\ UNCHANGED seenLinks
             [] OTHER ->
                    /\ directory' = [directory EXCEPT
                           !.status = IF b.page.next = None THEN "complete" ELSE "partial",
                           !.page = b.page]
                    /\ seenLinks' = seenLinks \cup ({b.page.next} \ {None})
    /\ UNCHANGED <<browseCancel, queries, graphVars>>
    /\ BrowseUnchanged

---------------------------------------------------------------------------
Restart ==
    /\ Reset(savedIdentity)
    /\ UNCHANGED <<cloudVars, storeVars, partial, complete, token>>

Init ==
    /\ cloud = [a \in Accounts |-> [i \in Items |->
           [ver |-> 1, live |-> TRUE, parent |-> IF i = File THEN Dir ELSE Root]]]
    /\ clock = 1
    /\ token = None /\ savedIdentity = None
    /\ index = [a \in Accounts |-> Unlisted] /\ stage = index
    /\ link = [a \in Accounts |-> 0]
    /\ task = [a \in Accounts |-> None]
    /\ partial = [a \in Accounts |-> [v \in Versions |-> <<>>]]
    /\ complete = [a \in Accounts |-> [v \in Versions |-> None]]
    /\ auth = "signed_out" /\ login = None /\ signout = None
    /\ removalFailed = FALSE
    /\ epoch = 0 /\ graph = 0
    /\ graphs = [e \in Epochs |-> None] /\ holder = graphs
    /\ identity = None /\ refresh = None /\ download = None
    /\ directory = None /\ browses = {} /\ browseCancel = None
    /\ seenLinks = {} /\ queries = 0 /\ restarts = 0

SignIn == \/ Login \/ CancelLogin \/ LoginSave \/ LoginDone
          \/ \E a \in Accounts : LoginGrant(a)

SignOut == LogoutAccepted \/ LogoutRefused \/ Forget \/ SignedOut

TokenRefresh == \/ \E who \in Threads : TokenRefreshStart(who)
                \/ \E e \in Epochs : TokenRefreshEnd(e)

Refreshing == \/ RefreshBegin \/ RefreshPage \/ RefreshExpired \/ RefreshFail
              \/ RefreshCommit \/ RefreshDone

Downloading == \/ DownloadMeta \/ DownloadRead \/ DownloadRetry \/ DownloadPost
               \/ DownloadPublish \/ DownloadFail \/ DownloadDone

Browsing == \E b \in browses :
    BrowseStart(b) \/ BrowseAnswer(b) \/ BrowseFail(b) \/ FinishBrowse(b)

\* The ids of queries are compared only, so the first one may be called 1.
Next == \/ CloudStep \/ SignIn \/ SignOut \/ TokenRefresh
        \/ RefreshIndex \/ CancelRefresh \/ Refreshing
        \/ DownloadCloud \/ CancelDownload \/ Downloading
        \/ (\E q \in Queries : q <= queries + 1 /\ Browse(q)) \/ BrowseNext \/ CancelBrowse \/ Browsing
        \/ Restart

\* Requests end: the HTTP clients have timeouts.  The sign-out thread runs.
Spec ==
    /\ Init /\ [][Next]_vars
    /\ WF_vars(Forget) /\ WF_vars(SignedOut)
    /\ \A e \in Epochs : WF_vars(TokenRefreshEnd(e))

---------------------------------------------------------------------------
(* Properties. *)

CloudItem == [ver : Versions, live : BOOLEAN, parent : {Root, Dir}]
Bytes == UNION {[1 .. n -> Versions] : n \in 0 .. Chunks}
Page == [acc : Accounts, next : Links \cup {None}]
RefreshThread ==
    [pc : {"identity", "pages", "done"}, epoch : Epochs, graph : Epochs, cancel : BOOLEAN,
     acc : Accounts \cup {None}, replace : BOOLEAN, upto : Versions \cup {0},
     left : SUBSET Items]
DownloadThread ==
    [pc : {"meta", "read", "post", "publish", "failed", "done"}, epoch : Epochs, graph : Epochs,
     cancel : BOOLEAN, acc : Accounts, ver : Versions, attempt : 0 .. MaxAttempts - 1]
BrowseThread ==
    [id : Queries, query : Queries, graph : Epochs \cup {None}, cancel : BOOLEAN,
     pc : {"start", "ask", "answered"}, next : Links \cup {None},
     page : Page \cup {None}]

CloudTypes ==
    /\ cloud \in [Accounts -> [Items -> CloudItem]]
    /\ clock \in Versions

StoreTypes ==
    /\ savedIdentity \in Accounts \cup {None}
    /\ index \in [Accounts -> [Items -> Row \cup {None}]]
    /\ stage \in [Accounts -> [Items -> Row \cup {None}]]
    /\ link \in [Accounts -> Versions \cup {0}]

FileTypes ==
    /\ task \in [Accounts -> {None} \cup
           [ver : Versions, state : {"downloading", "error", "cached"}]]
    /\ partial \in [Accounts -> [Versions -> Bytes]]
    /\ complete \in [Accounts -> [Versions -> Bytes \cup {None}]]

SessionTypes ==
    /\ {token, identity} \subseteq Accounts \cup {None}
    /\ auth \in {"signed_out", "signing_in", "signed_in", "signing_out"}
    /\ login = None \/ login \in
           [pc : {"waiting", "granted", "saved"}, acc : Accounts \cup {None},
            cancelled : {None, "waiting", "granted", "saved"}]
    /\ signout = None \/ signout \in [pc : {"forget", "removed", "failed"},
                                      graph : Epochs \cup {None}]
    /\ removalFailed \in BOOLEAN
    /\ {epoch, graph} \subseteq Epochs
    /\ graphs \in [Epochs -> Accounts \cup {None, "cleared"}]
    /\ holder \in [Epochs -> Threads \cup {None}]

ThreadTypes ==
    /\ refresh = None \/ refresh \in RefreshThread
    /\ download = None \/ download \in DownloadThread
    /\ restarts \in 0 .. MaxRestarts

BrowseTypes ==
    /\ directory = None \/ directory \in
           [query : Queries, status : {"loading", "failed", "partial", "complete"},
            page : Page \cup {None}]
    /\ browses \subseteq BrowseThread
    /\ browseCancel \in Queries \cup {None}
    /\ seenLinks \subseteq Links
    /\ queries \in 0 .. MaxQueries

\* Types of the engine's state.
TypeOK == /\ CloudTypes /\ StoreTypes /\ FileTypes /\ SessionTypes
          /\ ThreadTypes /\ BrowseTypes

\* What the engine shows belongs to who is signed in: the identity in memory
\* and the one a restart would load name the account whose credentials are
\* stored, so a result that comes late never shows another account's index.
IdentityIsAccount ==
    /\ identity # None => auth = "signed_in" /\ identity = token
    /\ savedIdentity # None => savedIdentity = token

\* Credentials get on disk by a login that nobody had cancelled before its
\* thread looked for the last time, as those it was granted, or by a refresh
\* of those that are there: a token refresh that is answered late never
\* brings back what signing out has deleted (forget_credentials).  A cancel
\* between the last look and the saving comes too late (login_cancellable).
CredentialsOnlyByLogin ==
    [][token' \in {None, token}
       \/ (/\ login # None /\ login.pc = "granted"
           /\ login.cancelled # "waiting" /\ token' = login.acc)]_vars

\* The page on show was answered for this query, to the account that is
\* signed in; at most one thread can still change it, and while the view says
\* loading there is one.
DirectoryOwn ==
    LET mayShow == {b \in browses : ~b.cancel /\ directory # None
                                    /\ b.query = directory.query}
    IN  directory # None =>
          /\ auth = "signed_in"
          /\ Cardinality(mayShow) = IF directory.status = "loading" THEN 1 ELSE 0
          /\ directory.page # None => directory.page.acc = token

\* Every row the index holds up to its cursor is the cloud's: a live item is
\* listed as it is; one that is gone is not listed, or is a tombstone that a
\* listed child still names (cloud_commit, delta over moves and deletions).
IndexFaithful ==
    \A a \in Accounts : \A i \in Items :
        LET now == cloud[a][i]
            row == index[a][i]
        IN  link[a] > 0 /\ now.ver <= link[a] =>
              IF now.live
              THEN row = [ver |-> now.ver, parent |-> now.parent, deleted |-> FALSE]
              ELSE row = None \/ (row.deleted /\ \E j \in Items :
                                     index[a][j] # None /\ index[a][j].parent = i)

\* What the engine offers to open as cached is whole, and every byte is of
\* the version the index shows, over cuts, resumed downloads, changes of the
\* file under way, and a death of the process at any point of publishing.
CachedBytes ==
    \A a \in Accounts : ValidCache(a) =>
        complete[a][task[a].ver] = [n \in 1 .. Chunks |-> task[a].ver]

\* A sign-out ends, also when the credentials cannot be removed.
SignOutEnds == auth = "signing_out" ~> auth # "signing_out"

===========================================================================
