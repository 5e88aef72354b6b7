------------------------ MODULE WindowsEngineProofs ------------------------
(***************************************************************************)
(* The Windows engine, for any accounts and any number of sign-outs,       *)
(* queries, threads, changes of the drive and restarts.  First its         *)
(* sessions: what is shown and what is stored belongs to the account that  *)
(* is signed in, however late a thread's result comes.  Then what it keeps *)
(* on disk: the committed rows of the cloud index are the cloud's up to    *)
(* their cursor, and a file offered as cached is whole and of one version. *)
(***************************************************************************)
EXTENDS WindowsEngine, FiniteSetTheorems, SequenceTheorems, TLAPS

RefreshFields == {"pc", "epoch", "graph", "cancel", "acc", "replace", "upto", "left"}
LoginFields == {"pc", "acc", "cancelled"}
SignoutFields == {"pc", "graph"}
DirectoryFields == {"query", "status", "page"}
BrowseFields == {"id", "query", "graph", "cancel", "pc", "next", "page"}

\* The shape of the state, as far as the sessions depend on it.
Shapes ==
    /\ DOMAIN graphs = Epochs /\ DOMAIN holder = Epochs /\ {epoch, graph} \subseteq Epochs
    /\ token \in Accounts \cup {None} /\ queries \in Nat
    /\ refresh # None => DOMAIN refresh = RefreshFields
    /\ login # None => DOMAIN login = LoginFields
    /\ signout # None => DOMAIN signout = SignoutFields
    /\ directory # None => DOMAIN directory = DirectoryFields
    /\ \A b \in browses : DOMAIN b = BrowseFields

\* Where a session is: signed in means that credentials are stored.
Sessions ==
    /\ auth = "signed_in" => token \in Accounts
    /\ login # None => /\ auth = "signing_in"
                       /\ login.pc = "saved" => token \in Accounts
                       /\ login.pc = "granted" => /\ login.acc \in Accounts
                                                  /\ login.cancelled # "waiting"
    /\ signout # None => auth = "signing_out"
    /\ savedIdentity # None => auth = "signed_in"

\* A backend that can still ask holds the stored credentials: it is the one
\* of the session, or the one the sign-out under way is about to clear.  Only
\* such a backend has a token refresh under way.
GraphsOwn ==
    \A e \in Epochs :
        /\ graphs[e] \in Accounts =>
              /\ graphs[e] = token
              /\ \/ auth = "signed_in" /\ e = graph
                 \/ auth = "signing_out" /\ signout.pc = "forget" /\ signout.graph = e
        /\ holder[e] # None => graphs[e] \in Accounts

\* A refresh nobody cancelled is this session's, and so is its account.
RefreshOwn ==
    refresh # None /\ ~refresh.cancel =>
        /\ auth = "signed_in" /\ refresh.epoch = epoch /\ refresh.graph \in Epochs
        /\ refresh.pc = "pages" => refresh.acc = token

\* A browse thread nobody cancelled is the one launched last, and the view
\* waits for it.
BrowsesOwn ==
    /\ \A b \in browses :
          /\ b.id \in 1 .. queries
          /\ b.pc = "ask" => b.graph \in Epochs
          /\ ~b.cancel => /\ auth = "signed_in" /\ b.id = browseCancel
                          /\ b.query = directory.query /\ directory.status = "loading"
                          /\ b.page # None => b.page.acc = token
    /\ \A b, c \in browses : b.id = c.id => b = c

\* What is on show is this session's, and loading only while a thread is at it.
DirectoryShown ==
    directory # None =>
        /\ auth = "signed_in"
        /\ directory.page # None => directory.page.acc = token
        /\ directory.status = "loading" => \E b \in browses : ~b.cancel

IInv == /\ Shapes /\ Sessions /\ GraphsOwn /\ RefreshOwn /\ BrowsesOwn
        /\ DirectoryShown /\ IdentityIsAccount

sessionVars == <<token, savedIdentity, auth, login, signout, graphVars, identity,
                 refresh, browseVars>>

\* The cloud, the index and the download have no say in it.
LEMMA Frame ==
  ASSUME IInv, UNCHANGED sessionVars
  PROVE  IInv'
  BY DEF IInv, sessionVars, graphVars, browseVars, Shapes, Sessions, GraphsOwn, RefreshOwn,
         BrowsesOwn, DirectoryShown, IdentityIsAccount

\* A new process holds nothing but what is on disk.
LEMMA ResetKeeps ==
  ASSUME IInv, Reset(savedIdentity), UNCHANGED <<token, savedIdentity>>
  PROVE  IInv'
  <1> USE EngineAssumption
  <1>1. /\ refresh' = None /\ login' = None /\ signout' = None /\ directory' = None
        /\ browses' = {} /\ epoch' = 0 /\ graph' = 0 /\ queries' = queries
        /\ graphs' = [e \in Epochs |-> None] /\ holder' = [e \in Epochs |-> None]
        /\ auth' = IF token = None THEN "signed_out" ELSE "signed_in"
        /\ identity' = IF token = None THEN None ELSE savedIdentity
    BY DEF Reset
  <1>2. Shapes'
    BY <1>1 DEF IInv, Shapes, Epochs
  <1>3. Sessions'
    BY <1>1 DEF IInv, Shapes, Sessions, IdentityIsAccount
  <1>4. GraphsOwn' /\ RefreshOwn' /\ BrowsesOwn' /\ DirectoryShown'
    BY <1>1 DEF GraphsOwn, RefreshOwn, BrowsesOwn, DirectoryShown
  <1>5. IdentityIsAccount'
    BY <1>1 DEF IInv, Shapes, IdentityIsAccount
  <1> QED
    BY <1>2, <1>3, <1>4, <1>5 DEF IInv

\* Signing in starts where nothing of another session is left.
LEMMA SignInKeeps ==
  ASSUME IInv, SignIn
  PROVE  IInv'
  <1> USE EngineAssumption
  <1>0. UNCHANGED <<savedIdentity, signout, graphVars, identity, refresh, browseVars>>
    BY DEF SignIn, Login, CancelLogin, LoginGrant, LoginSave, LoginDone, storeVars
  <1>1. CASE Login
    BY <1>0, <1>1 DEF Login, IInv, graphVars, browseVars, Shapes, LoginFields, Sessions,
       GraphsOwn, RefreshOwn, BrowsesOwn, DirectoryShown, IdentityIsAccount
  <1>2. CASE CancelLogin
    BY <1>0, <1>2 DEF CancelLogin, IInv, graphVars, browseVars, Shapes, LoginFields, Sessions,
       GraphsOwn, RefreshOwn, BrowsesOwn, DirectoryShown, IdentityIsAccount
  <1>5. ASSUME NEW a \in Accounts, LoginGrant(a) PROVE IInv'
    <2>1. /\ login # None /\ auth = "signing_in" /\ UNCHANGED <<auth, token>>
          /\ login' = [login EXCEPT !.pc = "granted", !.acc = a] /\ login.cancelled = None
      BY <1>5 DEF LoginGrant, IInv, Sessions
    <2>2. /\ DOMAIN login' = LoginFields /\ login'.pc = "granted" /\ login'.acc = a
          /\ login'.cancelled = None
      BY <2>1 DEF IInv, Shapes, LoginFields
    <2> QED
      BY <1>0, <2>1, <2>2
         DEF IInv, graphVars, browseVars, Shapes, Sessions,
         GraphsOwn, RefreshOwn, BrowsesOwn, DirectoryShown, IdentityIsAccount
  <1>3. CASE LoginSave
    <2>1. /\ auth = "signing_in" /\ auth' = auth /\ token' = login.acc
          /\ login.acc \in Accounts
          /\ login' = [login EXCEPT !.pc = "saved"]
      BY <1>3 DEF LoginSave, IInv, Sessions
    <2>2. identity = None /\ savedIdentity = None
      BY <2>1 DEF IInv, Sessions, IdentityIsAccount
    <2> QED
      BY <1>0, <1>3, <2>1, <2>2
         DEF LoginSave, IInv, graphVars, browseVars, Shapes, LoginFields, Sessions,
         GraphsOwn, RefreshOwn, BrowsesOwn, DirectoryShown, IdentityIsAccount
  <1>4. CASE LoginDone
    BY <1>0, <1>4 DEF LoginDone, IInv, graphVars, browseVars, Shapes, LoginFields, Sessions,
       GraphsOwn, RefreshOwn, BrowsesOwn, DirectoryShown, IdentityIsAccount
  <1> QED
    BY <1>1, <1>2, <1>3, <1>4, <1>5 DEF SignIn

\* Cancelling the thread launched last leaves none that is not cancelled.
LEMMA AfterCancelKeeps ==
  ASSUME IInv
  PROVE  /\ \A b \in AfterCancel : /\ b.cancel /\ DOMAIN b = BrowseFields
                                   /\ b.id \in 1 .. queries
                                   /\ b.pc = "ask" => b.graph \in Epochs
         /\ \A b, c \in AfterCancel : b.id = c.id => b = c
  <1> DEFINE After(c) == IF c.id = browseCancel THEN [c EXCEPT !.cancel = TRUE] ELSE c
  <1>1. \A c \in browses : /\ After(c).cancel /\ DOMAIN After(c) = BrowseFields
                           /\ After(c).id = c.id /\ After(c).pc = c.pc
                           /\ After(c).graph = c.graph
    <2> SUFFICES ASSUME NEW c \in browses
                 PROVE  /\ After(c).cancel /\ DOMAIN After(c) = BrowseFields
                        /\ After(c).id = c.id /\ After(c).pc = c.pc
                        /\ After(c).graph = c.graph
      OBVIOUS
    <2>1. DOMAIN c = BrowseFields /\ (c.cancel \/ c.id = browseCancel)
      BY DEF IInv, Shapes, BrowsesOwn
    <2> QED
      BY <2>1 DEF BrowseFields
  <1>2. AfterCancel = {After(c) : c \in browses}
    BY DEF AfterCancel
  <1> HIDE DEF After
  <1> QED
    BY <1>1, <1>2 DEF IInv, BrowsesOwn

\* Signing out cancels what runs before it forgets the credentials, and a
\* backend that is cleared has no token refresh under way.
LEMMA SignOutKeeps ==
  ASSUME IInv, SignOut
  PROVE  IInv'
  <1> USE EngineAssumption
  <1>1. CASE LogoutAccepted \/ LogoutRefused
    <2>1. /\ epoch' = epoch + 1 /\ epoch' \in Epochs /\ epoch' # epoch
          /\ refresh' = Cancelled(refresh)
          /\ identity' = None /\ savedIdentity' \in {None, savedIdentity}
          /\ UNCHANGED <<token, login, graphs, holder, queries>>
      <3>1. epoch \in Nat /\ epoch < MaxLogouts /\ epoch' = epoch + 1
        BY <1>1 DEF LogoutAccepted, LogoutRefused, LogoutInvalidates, IInv, Shapes, Epochs
      <3> QED
        BY <1>1, <3>1 DEF LogoutAccepted, LogoutRefused, LogoutInvalidates, Epochs, authVars,
           browseVars
    <2>2. RefreshOwn' /\ (refresh' # None => DOMAIN refresh' = RefreshFields)
      BY <2>1 DEF RefreshOwn, Cancelled, IInv, Shapes, RefreshFields
    <2>3. IdentityIsAccount'
      BY <2>1 DEF IInv, IdentityIsAccount
    <2>4. CASE LogoutAccepted
      <3>1. /\ auth \in {"signed_in", "signed_out"} /\ auth' = "signing_out"
            /\ directory' = None /\ browses' = AfterCancel
            /\ savedIdentity' = None /\ graph' = epoch'
            /\ signout' = [pc |-> "forget",
                           graph |-> IF graphs[graph] = None THEN None ELSE graph]
        BY <2>4 DEF LogoutAccepted, CancelLaunched
      <3>2. /\ \A b \in browses' : b.cancel /\ DOMAIN b = BrowseFields
            /\ BrowsesOwn'
        BY <2>1, <3>1, AfterCancelKeeps DEF BrowsesOwn
      <3>5. Shapes'
        BY <2>1, <2>2, <3>1, <3>2 DEF IInv, Shapes, SignoutFields
      <3>6. Sessions'
        BY <2>1, <3>1 DEF IInv, Sessions
      <3>7. GraphsOwn'
        <4> SUFFICES ASSUME NEW e \in Epochs
                     PROVE  /\ graphs[e] \in Accounts =>
                                  graphs[e] = token /\ signout'.graph = e
                            /\ holder[e] # None => graphs[e] \in Accounts
          BY <2>1, <3>1 DEF GraphsOwn
        <4>1. graphs[e] \in Accounts => graphs[e] = token /\ e = graph
          BY <3>1 DEF IInv, GraphsOwn
        <4>2. holder[e] # None => graphs[e] \in Accounts
          BY DEF IInv, GraphsOwn
        <4> QED
          BY <3>1, <4>1, <4>2
      <3>8. DirectoryShown'
        BY <3>1 DEF DirectoryShown
      <3> QED
        BY <2>2, <2>3, <3>2, <3>5, <3>6, <3>7, <3>8 DEF IInv
    <2>5. CASE LogoutRefused
      <3>1. /\ UNCHANGED <<auth, signout, graph, directory, browses, browseCancel>>
        BY <2>5 DEF LogoutRefused, authVars, browseVars
      <3> QED
        BY <2>1, <2>2, <2>3, <3>1
           DEF IInv, Shapes, Sessions, GraphsOwn, BrowsesOwn, DirectoryShown
    <2> QED
      BY <1>1, <2>4, <2>5
  <1>2. CASE Forget
    <2>1. /\ signout # None /\ signout.pc = "forget" /\ auth = "signing_out" /\ auth' = auth
          /\ UNCHANGED <<savedIdentity, login, epoch, graph, holder, identity, refresh, browseVars>>
          /\ signout.graph # None => holder[signout.graph] = None
          /\ graphs' = IF signout.graph = None THEN graphs
                       ELSE [graphs EXCEPT ![signout.graph] = "cleared"]
          /\ \/ token' = None /\ signout' = [signout EXCEPT !.pc = "removed"]
             \/ token' = token /\ signout' = [signout EXCEPT !.pc = "failed"]
      BY <1>2 DEF Forget, IInv, Sessions, storeVars
    <2>2. \A e \in Epochs : graphs'[e] \notin Accounts /\ holder[e] = None
      <3> SUFFICES ASSUME NEW e \in Epochs
                   PROVE  graphs'[e] \notin Accounts /\ holder[e] = None
        OBVIOUS
      <3>1. CASE graphs[e] \in Accounts
        <4>1. signout.graph = e
          BY <2>1, <3>1 DEF IInv, GraphsOwn
        <4>2. signout.graph # None
          BY <4>1 DEF Epochs
        <4> QED
          BY <2>1, <4>1, <4>2 DEF IInv, Shapes
      <3>2. CASE graphs[e] \notin Accounts
        BY <2>1, <3>2 DEF IInv, Shapes, GraphsOwn
      <3> QED
        BY <3>1, <3>2
    <2>3. /\ DOMAIN graphs' = Epochs /\ DOMAIN signout' = SignoutFields
      BY <2>1 DEF IInv, Shapes, SignoutFields
    <2>4. identity = None /\ savedIdentity = None
      BY <2>1 DEF IInv, Sessions, IdentityIsAccount
    <2> QED
      BY <2>1, <2>2, <2>3, <2>4
         DEF IInv, browseVars, Shapes, Sessions, GraphsOwn, RefreshOwn, BrowsesOwn,
         DirectoryShown, IdentityIsAccount
  <1>3. CASE SignedOut
    <2>1. /\ signout # None /\ signout.pc \in {"removed", "failed"} /\ auth = "signing_out"
          /\ auth' = "signed_out" /\ signout' = None
          /\ UNCHANGED <<token, savedIdentity, login, graphVars, identity, refresh, browseVars>>
      BY <1>3 DEF SignedOut, IInv, Sessions, storeVars
    <2> QED
      BY <2>1 DEF IInv, graphVars, browseVars, Shapes, Sessions, GraphsOwn, RefreshOwn,
         BrowsesOwn, DirectoryShown, IdentityIsAccount
  <1> QED
    BY <1>1, <1>2, <1>3 DEF SignOut

\* A token refresh stores what is stored already.
LEMMA TokenRefreshKeeps ==
  ASSUME IInv, TokenRefresh
  PROVE  IInv' /\ token' = token
  <1>0. /\ UNCHANGED <<savedIdentity, auth, login, signout, epoch, graph, graphs, identity, refresh,
                       browseVars>>
        /\ token' = token
        /\ DOMAIN holder' = Epochs
        /\ \A e \in Epochs : holder'[e] # None => graphs[e] \in Accounts
    <2>1. ASSUME NEW who \in Threads, TokenRefreshStart(who)
          PROVE  /\ holder' = [holder EXCEPT ![GraphOf(who)] = who]
                 /\ graphs[GraphOf(who)] \in Accounts
                 /\ UNCHANGED <<savedIdentity, auth, login, signout, epoch, graph, graphs, identity,
                                refresh, browseVars, token>>
      BY <2>1 DEF TokenRefreshStart, MayAsk, authVars, storeVars
    <2>2. ASSUME NEW e \in Epochs, TokenRefreshEnd(e)
          PROVE  /\ holder' = [holder EXCEPT ![e] = None]
                 /\ UNCHANGED <<savedIdentity, auth, login, signout, epoch, graph, graphs, identity,
                                refresh, browseVars, token>>
      BY <2>2 DEF TokenRefreshEnd, storeVars, IInv, GraphsOwn
    <2> QED
      BY <2>1, <2>2 DEF TokenRefresh, IInv, Shapes, GraphsOwn
  <1> QED
    BY <1>0 DEF IInv, browseVars, Shapes, Sessions, GraphsOwn, RefreshOwn, BrowsesOwn,
       DirectoryShown, IdentityIsAccount

\* The graph a command finds or creates is the session's.
LEMMA GraphLockedKeeps ==
  ASSUME Shapes, Sessions, GraphsOwn, GraphLocked \/ auth = "signed_in",
         graphs' = [graphs EXCEPT ![graph] = IF @ = None THEN token ELSE @],
         UNCHANGED <<token, auth, signout, epoch, graph, holder>>
  PROVE  GraphsOwn' /\ DOMAIN graphs' = Epochs
  <1>1. auth = "signed_in" /\ token \in Accounts
    BY DEF GraphLocked, Sessions
  <1> QED
    BY <1>1, EngineAssumption DEF Shapes, GraphsOwn

\* A refresh publishes under the session it was started in.
LEMMA RefreshKeeps ==
  ASSUME IInv, RefreshIndex \/ CancelRefresh \/ Refreshing
  PROVE  IInv'
  <1> USE EngineAssumption
  <1>1. CASE RefreshIndex
    <2>1. /\ auth = "signed_in" /\ UNCHANGED <<token, auth, signout, epoch, graph, holder>>
          /\ graphs' = [graphs EXCEPT ![graph] = IF @ = None THEN token ELSE @]
          /\ refresh' = [pc |-> "identity", epoch |-> epoch, graph |-> graph, cancel |-> FALSE,
                         acc |-> None, replace |-> FALSE, upto |-> 0, left |-> {}]
          /\ UNCHANGED <<savedIdentity, login, identity, browseVars>>
      BY <1>1 DEF RefreshIndex, GraphLocked, authVars, storeVars
    <2>2. GraphsOwn' /\ DOMAIN graphs' = Epochs
      BY <2>1, GraphLockedKeeps DEF IInv
    <2> QED
      BY <2>1, <2>2 DEF IInv, browseVars, Shapes, RefreshFields, Sessions, RefreshOwn,
         BrowsesOwn, DirectoryShown, IdentityIsAccount
  <1>2. CASE CancelRefresh
    BY <1>2 DEF CancelRefresh, Cancelled, authVars, storeVars, graphVars, IInv, browseVars,
       Shapes, RefreshFields, Sessions, GraphsOwn, RefreshOwn, BrowsesOwn, DirectoryShown,
       IdentityIsAccount
  <1>a. ASSUME UNCHANGED <<token, savedIdentity, auth, login, signout, graphVars, identity,
                           browseVars>>,
               refresh' # None => DOMAIN refresh' = RefreshFields, RefreshOwn'
        PROVE  IInv'
    BY <1>a DEF IInv, graphVars, browseVars, Shapes, Sessions, GraphsOwn, BrowsesOwn,
       DirectoryShown, IdentityIsAccount
  <1>3. CASE RefreshBegin
    <2> DEFINE a == graphs[refresh.graph]
    <2>1. /\ refresh # None /\ ~refresh.cancel /\ a \in Accounts
          /\ UNCHANGED <<token, savedIdentity, auth, login, signout, graphVars, identity,
                         browseVars>>
          /\ DOMAIN refresh = RefreshFields
      BY <1>3 DEF RefreshBegin, MayAsk, authVars, IInv, Shapes
    <2>2. auth = "signed_in" /\ refresh.epoch = epoch /\ refresh.graph \in Epochs
      BY <2>1 DEF IInv, RefreshOwn, Shapes
    <2>3. a = token
      BY <2>1, <2>2 DEF IInv, GraphsOwn
    <2>4. \E r, u, l : refresh' = [refresh EXCEPT !.pc = "pages", !.acc = a, !.replace = r,
                                                  !.upto = u, !.left = l]
      BY <1>3 DEF RefreshBegin, Enumerate
    <2>5. DOMAIN refresh' = RefreshFields /\ refresh'.acc = a /\ refresh'.epoch = refresh.epoch
          /\ refresh'.graph = refresh.graph
      BY <2>1, <2>4 DEF RefreshFields
    <2>6. RefreshOwn'
      BY <2>1, <2>2, <2>3, <2>5 DEF RefreshOwn, graphVars
    <2> QED
      BY <1>a, <2>1, <2>5, <2>6
  <1>4. CASE RefreshPage
    <2>1. /\ refresh # None /\ DOMAIN refresh = RefreshFields
          /\ UNCHANGED <<token, savedIdentity, auth, login, signout, graphVars, identity,
                         browseVars>>
          /\ \E i : refresh' = [refresh EXCEPT !.left = @ \ {i}]
      BY <1>4 DEF RefreshPage, authVars, IInv, Shapes
    <2>2. /\ DOMAIN refresh' = RefreshFields /\ refresh'.pc = refresh.pc
          /\ refresh'.acc = refresh.acc /\ refresh'.epoch = refresh.epoch
          /\ refresh'.graph = refresh.graph
          /\ refresh'.cancel = refresh.cancel
      BY <2>1 DEF RefreshFields
    <2>3. RefreshOwn'
      BY <2>1, <2>2 DEF IInv, RefreshOwn, graphVars
    <2> QED
      BY <1>a, <2>1, <2>2, <2>3
  <1>5. CASE RefreshExpired
    <2>1. /\ refresh # None /\ DOMAIN refresh = RefreshFields /\ refresh.pc = "pages"
          /\ UNCHANGED <<token, savedIdentity, auth, login, signout, graphVars, identity,
                         browseVars>>
          /\ \E r, u, l : refresh' = [refresh EXCEPT !.pc = "pages", !.acc = refresh.acc,
                                          !.replace = r, !.upto = u, !.left = l]
      BY <1>5 DEF RefreshExpired, Enumerate, authVars, IInv, Shapes
    <2>2. /\ DOMAIN refresh' = RefreshFields /\ refresh'.pc = refresh.pc
          /\ refresh'.acc = refresh.acc /\ refresh'.epoch = refresh.epoch
          /\ refresh'.graph = refresh.graph
          /\ refresh'.cancel = refresh.cancel
      BY <2>1 DEF RefreshFields
    <2>3. RefreshOwn'
      BY <2>1, <2>2 DEF IInv, RefreshOwn, graphVars
    <2> QED
      BY <1>a, <2>1, <2>2, <2>3
  <1>6. CASE RefreshFail
    <2>1. /\ refresh # None /\ DOMAIN refresh = RefreshFields
          /\ refresh' = [refresh EXCEPT !.pc = "done"]
          /\ UNCHANGED <<token, savedIdentity, auth, login, signout, graphVars, identity,
                         browseVars>>
      BY <1>6 DEF RefreshFail, authVars, storeVars, IInv, Shapes
    <2>2. RefreshOwn' /\ DOMAIN refresh' = RefreshFields
      BY <2>1 DEF IInv, RefreshOwn, RefreshFields, graphVars
    <2> QED
      BY <1>a, <2>1, <2>2
  <1>7. CASE RefreshCommit
    <2>1. refresh # None /\ refresh.pc = "pages" /\ ~refresh.cancel /\ auth = "signed_in"
      BY <1>7 DEF RefreshCommit, GuardSession
    <2>2. refresh.acc = token /\ DOMAIN refresh = RefreshFields
      BY <2>1 DEF IInv, RefreshOwn, Shapes
    <2>3. CASE Reset(savedIdentity) /\ UNCHANGED savedIdentity
      BY <1>7, <2>3, ResetKeeps DEF RefreshCommit
    <2>4. CASE /\ savedIdentity' = refresh.acc /\ identity' = refresh.acc
               /\ refresh' = [refresh EXCEPT !.pc = "done"]
               /\ UNCHANGED <<task, auth, login, signout, removalFailed, graphVars,
                              download, browseVars, restarts>>
      <3>1. UNCHANGED token
        BY <1>7 DEF RefreshCommit
      <3>2. RefreshOwn' /\ DOMAIN refresh' = RefreshFields
        BY <2>1, <2>2, <2>4, <3>1 DEF IInv, RefreshOwn, RefreshFields, graphVars
      <3>3. IdentityIsAccount'
        BY <2>1, <2>2, <2>4, <3>1 DEF IdentityIsAccount
      <3> QED
        BY <2>1, <2>4, <3>1, <3>2, <3>3 DEF IInv, graphVars, browseVars, Shapes, Sessions,
           GraphsOwn, BrowsesOwn, DirectoryShown
    <2>5. CASE /\ UNCHANGED <<savedIdentity, identity>>
               /\ refresh' = [refresh EXCEPT !.pc = "done"]
               /\ UNCHANGED <<task, auth, login, signout, removalFailed, graphVars,
                              download, browseVars, restarts>>
      <3>1. UNCHANGED token
        BY <1>7 DEF RefreshCommit
      <3>2. RefreshOwn' /\ DOMAIN refresh' = RefreshFields
        BY <2>1, <2>2, <2>5, <3>1 DEF IInv, RefreshOwn, RefreshFields, graphVars
      <3> QED
        BY <1>a, <2>5, <3>1, <3>2
    <2> QED
      BY <1>7, <2>3, <2>4, <2>5 DEF RefreshCommit
  <1>8. CASE RefreshDone
    <2>1. /\ refresh' = None
          /\ UNCHANGED <<token, savedIdentity, auth, login, signout, graphVars, identity,
                         browseVars>>
      BY <1>8 DEF RefreshDone, authVars, storeVars
    <2> QED
      BY <1>a, <2>1 DEF RefreshOwn
  <1> QED
    BY <1>1, <1>2, <1>3, <1>4, <1>5, <1>6, <1>7, <1>8 DEF Refreshing

\* A download is started for the session, and publishes no session.
LEMMA DownloadKeeps ==
  ASSUME IInv, DownloadCloud \/ CancelDownload \/ Downloading
  PROVE  IInv'
  <1>1. CASE DownloadCloud
    <2>1. /\ auth = "signed_in" /\ UNCHANGED <<token, auth, signout, epoch, graph, holder>>
          /\ graphs' = [graphs EXCEPT ![graph] = IF @ = None THEN token ELSE @]
          /\ UNCHANGED <<savedIdentity, login, identity, refresh, browseVars>>
      BY <1>1 DEF DownloadCloud, GraphLocked, authVars, storeVars
    <2>2. GraphsOwn' /\ DOMAIN graphs' = Epochs
      BY <2>1, GraphLockedKeeps DEF IInv
    <2> QED
      BY <2>1, <2>2 DEF IInv, browseVars, Shapes, Sessions, RefreshOwn, BrowsesOwn,
         DirectoryShown, IdentityIsAccount
  <1>2. CASE DownloadPublish
    <2>1. UNCHANGED <<token, savedIdentity>>
      BY <1>2 DEF DownloadPublish, storeVars
    <2>2. \/ Reset(savedIdentity)
          \/ UNCHANGED <<auth, login, signout, removalFailed, graphVars, identity, refresh,
                         browseVars, restarts>>
      BY <1>2 DEF DownloadPublish
    <2> QED
      BY <2>1, <2>2, ResetKeeps, Frame DEF sessionVars
  <1>3. CASE \/ CancelDownload \/ DownloadMeta \/ DownloadRead \/ DownloadRetry
             \/ DownloadPost \/ DownloadFail \/ DownloadDone
    <2>1. UNCHANGED sessionVars
      BY <1>3 DEF CancelDownload, DownloadMeta, DownloadRead, DownloadRetry, DownloadPost,
         DownloadFail, DownloadDone, DownloadUnchanged, sessionVars, authVars, storeVars
    <2> QED
      BY <2>1, Frame
  <1> QED
    BY <1>1, <1>2, <1>3 DEF Downloading

\* A query cancels the thread of the one before; a page asks for the next
\* only when no thread is at work.
LEMMA QueryKeeps ==
  ASSUME IInv, (\E q \in Queries : Browse(q)) \/ BrowseNext \/ CancelBrowse
  PROVE  IInv'
  <1>0. UNCHANGED <<token, savedIdentity, auth, login, signout, graphVars, identity, refresh>>
    BY DEF Browse, BrowseNext, CancelBrowse, BrowseUnchanged, authVars, storeVars
  <1>a. ASSUME queries' \in Nat, BrowsesOwn', DirectoryShown',
               directory' # None => DOMAIN directory' = DirectoryFields,
               \A b \in browses' : DOMAIN b = BrowseFields
        PROVE  IInv'
    BY <1>0, <1>a DEF IInv, graphVars, Shapes, Sessions, GraphsOwn, RefreshOwn,
       IdentityIsAccount
  <1>b. queries \in Nat /\ \A b \in browses : b.id \in 1 .. queries
    BY DEF IInv, Shapes, BrowsesOwn
  <1>c. ASSUME NEW q, NEW n
        PROVE  /\ DOMAIN Worker(q, n) = BrowseFields /\ Worker(q, n).id = queries + 1
               /\ Worker(q, n).query = q /\ Worker(q, n).pc = "start"
               /\ Worker(q, n).page = None /\ ~Worker(q, n).cancel
    BY DEF Worker, BrowseFields
  <1>1. ASSUME NEW q \in Queries, Browse(q) PROVE IInv'
    <2> DEFINE w == Worker(q, None)
    <2>1. /\ auth = "signed_in" /\ queries' = queries + 1 /\ browseCancel' = queries + 1
          /\ directory' = [query |-> q, status |-> "loading", page |-> None]
          /\ browses' = AfterCancel \cup {w}
      BY <1>1 DEF Browse, LaunchBrowse
    <2>2. /\ DOMAIN w = BrowseFields /\ w.id = queries + 1 /\ w.query = q /\ w.pc = "start"
          /\ w.page = None /\ ~w.cancel
      BY <1>c
    <2> HIDE DEF w
    <2>3. BrowsesOwn'
      <3>1. \A b \in browses' :
               /\ b.id \in 1 .. queries'
               /\ b.pc = "ask" => b.graph \in Epochs
               /\ ~b.cancel => b = w
        BY <1>b, <2>1, <2>2, AfterCancelKeeps
      <3>2. \A b, c \in browses' : b.id = c.id => b = c
        <4>1. \A b \in AfterCancel : b.id # w.id
          BY <1>b, <2>2, AfterCancelKeeps
        <4> QED
          BY <2>1, <4>1, AfterCancelKeeps
      <3> QED
        BY <1>0, <2>1, <2>2, <3>1, <3>2 DEF BrowsesOwn
    <2>4. DirectoryShown'
      BY <1>0, <2>1, <2>2 DEF DirectoryShown
    <2> QED
      BY <1>a, <1>b, <2>1, <2>2, <2>3, <2>4, AfterCancelKeeps DEF DirectoryFields
  <1>2. CASE BrowseNext
    <2> DEFINE w == Worker(directory.query, directory.page.next)
    <2>1. /\ auth = "signed_in" /\ queries' = queries + 1 /\ browseCancel' = queries + 1
          /\ directory # None /\ directory.status # "loading"
          /\ directory' = [directory EXCEPT !.status = "loading"]
          /\ browses' = browses \cup {w}
      BY <1>2 DEF BrowseNext, LaunchBrowse
    <2>2. /\ DOMAIN w = BrowseFields /\ w.id = queries + 1 /\ w.query = directory.query
          /\ w.pc = "start" /\ w.page = None /\ ~w.cancel
      BY <1>c
    <2> HIDE DEF w
    <2>3. /\ DOMAIN directory' = DirectoryFields /\ directory'.query = directory.query
          /\ directory'.status = "loading" /\ directory'.page = directory.page
      BY <2>1 DEF IInv, Shapes, DirectoryFields
    <2>4. \A b \in browses : b.cancel
      BY <2>1 DEF IInv, BrowsesOwn
    <2>5. BrowsesOwn'
      <3>1. \A b \in browses' :
               /\ b.id \in 1 .. queries'
               /\ b.pc = "ask" => b.graph \in Epochs
               /\ ~b.cancel => b = w
        BY <1>b, <2>1, <2>2, <2>4 DEF IInv, BrowsesOwn
      <3>2. \A b, c \in browses' : b.id = c.id => b = c
        <4>1. \A b \in browses : b.id # w.id
          BY <1>b, <2>2
        <4> QED
          BY <2>1, <4>1 DEF IInv, BrowsesOwn
      <3> QED
        BY <1>0, <2>1, <2>2, <2>3, <3>1, <3>2 DEF BrowsesOwn
    <2>6. DirectoryShown'
      BY <1>0, <2>1, <2>2, <2>3 DEF IInv, DirectoryShown
    <2> QED
      BY <1>a, <1>b, <2>1, <2>2, <2>3, <2>5, <2>6 DEF IInv, Shapes
  <1>3. CASE CancelBrowse
    <2>1. browses' = AfterCancel /\ directory' = None /\ queries' = queries
      BY <1>3 DEF CancelBrowse, CancelLaunched
    <2>2. BrowsesOwn' /\ DirectoryShown'
      BY <2>1, AfterCancelKeeps DEF BrowsesOwn, DirectoryShown
    <2> QED
      BY <1>a, <1>b, <2>1, <2>2, AfterCancelKeeps
  <1> QED
    BY <1>1, <1>2, <1>3

\* A thread's step keeps its place in the set.
LEMMA BrowsingKeeps ==
  ASSUME IInv, Browsing
  PROVE  IInv'
  <1>0. /\ UNCHANGED <<token, savedIdentity, auth, login, signout, epoch, graph, holder, identity,
                       refresh, browseCancel, queries>>
        /\ GraphsOwn' /\ DOMAIN graphs' = Epochs
    <2>1. PICK b \in browses :
                BrowseStart(b) \/ BrowseAnswer(b) \/ BrowseFail(b) \/ FinishBrowse(b)
      BY DEF Browsing
    <2>2. UNCHANGED <<token, savedIdentity, auth, login, signout, epoch, graph, holder, identity,
                      refresh, browseCancel, queries>>
      BY <2>1 DEF BrowseStart, BrowseAnswer, BrowseFail, FinishBrowse, BrowseUnchanged,
         authVars, storeVars, graphVars
    <2>3. CASE BrowseStart(b)
      <3>1. /\ auth = "signed_in"
            /\ graphs' = [graphs EXCEPT ![graph] = IF @ = None THEN token ELSE @]
        BY <2>3 DEF BrowseStart, IInv, BrowsesOwn
      <3> QED
        BY <2>2, <3>1, GraphLockedKeeps DEF IInv
    <2>4. CASE UNCHANGED graphs
      BY <2>2, <2>4 DEF IInv, GraphsOwn, Shapes
    <2> QED
      BY <2>1, <2>2, <2>3, <2>4 DEF BrowseAnswer, BrowseFail, FinishBrowse, graphVars
  <1>a. ASSUME BrowsesOwn', DirectoryShown',
               directory' # None => DOMAIN directory' = DirectoryFields,
               \A b \in browses' : DOMAIN b = BrowseFields
        PROVE  IInv'
    BY <1>0, <1>a DEF IInv, Shapes, Sessions, RefreshOwn, IdentityIsAccount
  \* A thread is replaced by one with the same id, query and mark.
  <1>b. ASSUME NEW b \in browses, NEW c, UNCHANGED directory,
               browses' = (browses \ {b}) \cup {c},
               DOMAIN c = BrowseFields, c.id = b.id, c.query = b.query, c.cancel = b.cancel,
               c.pc = "ask" => c.graph \in Epochs,
               ~c.cancel /\ c.page # None => c.page.acc = token
        PROVE  IInv'
    <2>1. \A d \in browses \ {b} : d.id # c.id
      BY <1>b DEF IInv, BrowsesOwn
    <2>2. BrowsesOwn'
      BY <1>0, <1>b, <2>1 DEF IInv, BrowsesOwn
    <2>3. DirectoryShown'
      BY <1>0, <1>b DEF IInv, DirectoryShown
    <2> QED
      BY <1>a, <1>b, <2>2, <2>3 DEF IInv, Shapes
  <1>1. ASSUME NEW b \in browses, BrowseStart(b) PROVE IInv'
    <2> DEFINE c == [b EXCEPT !.pc = "ask", !.graph = graph]
    <2>1. UNCHANGED directory /\ browses' = (browses \ {b}) \cup {c} /\ ~b.cancel
      BY <1>1 DEF BrowseStart
    <2>2. /\ DOMAIN c = BrowseFields /\ c.id = b.id /\ c.query = b.query
          /\ c.cancel = b.cancel /\ c.graph = graph /\ c.page = b.page
      BY DEF IInv, Shapes, BrowseFields
    <2>3. graph \in Epochs /\ (~b.cancel /\ b.page # None => b.page.acc = token)
      BY DEF IInv, Shapes, BrowsesOwn
    <2> HIDE DEF c
    <2> QED
      BY <1>b, <2>1, <2>2, <2>3
  <1>2. ASSUME NEW b \in browses, BrowseAnswer(b) PROVE IInv'
    <2>1. PICK next \in (Links \cup {None}) \ ({b.next} \ {None}) :
             browses' = (browses \ {b}) \cup
                {[b EXCEPT !.pc = "answered",
                           !.page = [acc |-> graphs[b.graph], next |-> next]]}
      BY <1>2 DEF BrowseAnswer
    <2> DEFINE c == [b EXCEPT !.pc = "answered",
                              !.page = [acc |-> graphs[b.graph], next |-> next]]
    <2>2. UNCHANGED directory /\ b.pc = "ask" /\ graphs[b.graph] \in Accounts
      BY <1>2 DEF BrowseAnswer, MayAsk
    <2>3. /\ DOMAIN c = BrowseFields /\ c.id = b.id /\ c.query = b.query
          /\ c.cancel = b.cancel /\ c.pc = "answered" /\ c.page.acc = graphs[b.graph]
      BY DEF IInv, Shapes, BrowseFields
    <2>4. graphs[b.graph] = token
      BY <2>2 DEF IInv, GraphsOwn, BrowsesOwn
    <2>5. browses' = (browses \ {b}) \cup {c}
      BY <2>1
    <2> HIDE DEF c
    <2> QED
      BY <1>b, <2>2, <2>3, <2>4, <2>5
  <1>3. ASSUME NEW b \in browses, BrowseFail(b) PROVE IInv'
    <2> DEFINE c == [b EXCEPT !.pc = "answered"]
    <2>1. UNCHANGED directory /\ browses' = (browses \ {b}) \cup {c}
      BY <1>3 DEF BrowseFail
    <2>2. /\ DOMAIN c = BrowseFields /\ c.id = b.id /\ c.query = b.query
          /\ c.cancel = b.cancel /\ c.pc = "answered" /\ c.page = b.page
      BY DEF IInv, Shapes, BrowseFields
    <2>3. ~b.cancel /\ b.page # None => b.page.acc = token
      BY DEF IInv, BrowsesOwn
    <2> HIDE DEF c
    <2> QED
      BY <1>b, <2>1, <2>2, <2>3
  <1>4. ASSUME NEW b \in browses, FinishBrowse(b) PROVE IInv'
    <2>1. browses' = browses \ {b}
      BY <1>4 DEF FinishBrowse
    <2>2. CASE b.cancel
      <3>1. UNCHANGED directory
        BY <1>4, <2>2 DEF FinishBrowse
      <3>2. BrowsesOwn'
        BY <1>0, <2>1, <3>1 DEF IInv, BrowsesOwn
      <3>3. DirectoryShown'
        BY <1>0, <2>1, <2>2, <3>1 DEF IInv, DirectoryShown
      <3> QED
        BY <1>a, <2>1, <3>1, <3>2, <3>3 DEF IInv, Shapes
    <2>3. CASE ~b.cancel
      \* No other thread is at work for this view.
      <3>1. \A c \in browses' : c.cancel
        BY <2>1, <2>3 DEF IInv, BrowsesOwn
      <3>2. BrowsesOwn'
        BY <1>0, <2>1, <3>1 DEF IInv, BrowsesOwn
      <3>3. CASE directory = None
        <4>1. UNCHANGED directory
          BY <1>4, <3>3 DEF FinishBrowse
        <4> QED
          BY <1>a, <2>1, <3>2, <3>3, <4>1 DEF IInv, Shapes, DirectoryShown
      <3>4. CASE directory # None
        <4>1. /\ DOMAIN directory = DirectoryFields /\ auth = "signed_in"
              /\ directory.query = b.query
              /\ directory.page # None => directory.page.acc = token
              /\ b.page # None => b.page.acc = token
          BY <2>3, <3>4 DEF IInv, Shapes, DirectoryShown, BrowsesOwn
        <4>2. CASE directory' = [directory EXCEPT !.status = "failed"]
          <5>1. /\ DOMAIN directory' = DirectoryFields /\ directory'.status = "failed"
                /\ directory'.page = directory.page
            BY <4>1, <4>2 DEF DirectoryFields
          <5> QED
            BY <1>0, <1>a, <2>1, <3>2, <4>1, <5>1 DEF IInv, Shapes, DirectoryShown
        <4>3. ASSUME NEW status \in {"complete", "partial"},
                     directory' = [directory EXCEPT !.status = status, !.page = b.page]
              PROVE  IInv'
          <5>1. /\ DOMAIN directory' = DirectoryFields /\ directory'.status = status
                /\ directory'.page = b.page
            BY <4>1, <4>3 DEF DirectoryFields
          <5> QED
            BY <1>0, <1>a, <2>1, <3>2, <4>1, <5>1 DEF IInv, Shapes, DirectoryShown
        <4> QED
          BY <1>4, <2>3, <3>4, <4>1, <4>2, <4>3 DEF FinishBrowse
      <3> QED
        BY <3>3, <3>4
    <2> QED
      BY <2>2, <2>3
  <1> QED
    BY <1>1, <1>2, <1>3, <1>4 DEF Browsing

---------------------------------------------------------------------------

\* Every step keeps the invariant: one lemma for each kind of step.
LEMMA Inductive ==
  ASSUME IInv, [Next]_vars
  PROVE  IInv'
  <1>1. CASE UNCHANGED vars
    BY <1>1, Frame DEF vars, sessionVars, storeVars, authVars
  <1>2. CASE CloudStep
    BY <1>2, Frame DEF CloudStep, sessionVars, storeVars, authVars
  <1>3. CASE Restart
    BY <1>3, ResetKeeps DEF Restart, storeVars
  <1> QED
    BY <1>1, <1>2, <1>3, SignInKeeps, SignOutKeeps, TokenRefreshKeeps, RefreshKeeps,
       DownloadKeeps, QueryKeeps, BrowsingKeeps DEF Next

\* The sessions are in order at every moment.
LEMMA Invariance == Spec => []IInv
  <1>1. Init => IInv
    BY EngineAssumption DEF Init, IInv, Shapes, Epochs, Sessions, GraphsOwn, RefreshOwn,
       BrowsesOwn, DirectoryShown, IdentityIsAccount
  <1>2. IInv /\ [Next]_vars => IInv'
    BY Inductive
  <1> QED
    BY <1>1, <1>2, PTL DEF Spec

\* However many sign-outs, restarts and late threads there are, the identity
\* shown, and the one kept for the next start, is the account's whose
\* credentials are stored.
THEOREM IdentityOwn == Spec => []IdentityIsAccount
  <1>1. IInv => IdentityIsAccount
    BY DEF IInv
  <1> QED
    BY <1>1, Invariance, PTL

\* A page is shown to the account it was answered for, and one thread at most
\* can change what is on show: exactly one while it says loading.
THEOREM DirectoryOwned == Spec => []DirectoryOwn
  <1>1. IInv => DirectoryOwn
    <2> SUFFICES ASSUME IInv, directory # None
                 PROVE  DirectoryOwn
      BY DEF DirectoryOwn
    <2> DEFINE mayShow == {b \in browses : ~b.cancel /\ directory # None
                                           /\ b.query = directory.query}
    <2>1. Cardinality(mayShow) = IF directory.status = "loading" THEN 1 ELSE 0
      <3>1. CASE directory.status = "loading"
        <4>1. PICK b \in browses : ~b.cancel
          BY <3>1 DEF IInv, DirectoryShown
        <4>2. mayShow = {b}
          BY <4>1 DEF IInv, BrowsesOwn
        <4> QED
          BY <3>1, <4>2, FS_Singleton
      <3>2. CASE directory.status # "loading"
        <4>1. mayShow = {}
          BY <3>2 DEF IInv, BrowsesOwn
        <4> QED
          BY <3>2, <4>1, FS_EmptySet
      <3> QED
        BY <3>1, <3>2
    <2> QED
      BY <2>1 DEF IInv, DirectoryShown, DirectoryOwn
  <1> QED
    BY <1>1, Invariance, PTL

\* A token refresh answered after a sign-out was asked for, or after its
\* deletion of the credentials failed, stores nothing that is not stored.
THEOREM CredentialsKept == Spec => CredentialsOnlyByLogin
  <1> DEFINE Allowed == \/ token' \in {None, token}
                        \/ /\ login # None /\ login.pc = "granted"
                           /\ login.cancelled # "waiting" /\ token' = login.acc
  <1>1. IInv /\ [Next]_vars => [Allowed]_vars
    <2> SUFFICES ASSUME IInv, Next PROVE Allowed
      OBVIOUS
    <2>1. CASE SignIn
      BY <2>1 DEF SignIn, Login, CancelLogin, LoginDone, LoginGrant, LoginSave, IInv, Sessions
    <2>2. CASE SignOut
      BY <2>2 DEF SignOut, LogoutAccepted, LogoutRefused, Forget, SignedOut, authVars
    <2>3. CASE TokenRefresh
      BY <2>3, TokenRefreshKeeps
    <2>4. CASE RefreshIndex \/ CancelRefresh \/ Refreshing
      BY <2>4 DEF RefreshIndex, CancelRefresh, Refreshing, RefreshBegin, RefreshPage,
         RefreshExpired, RefreshFail, RefreshCommit, RefreshDone, authVars
    <2>5. CASE DownloadCloud \/ CancelDownload \/ Downloading
      BY <2>5 DEF DownloadCloud, CancelDownload, Downloading, DownloadMeta, DownloadRead,
         DownloadRetry, DownloadPost, DownloadPublish, DownloadFail, DownloadDone,
         DownloadUnchanged, authVars
    <2>6. CASE (\E q \in Queries : Browse(q)) \/ BrowseNext \/ CancelBrowse \/ Browsing
      BY <2>6 DEF Browse, BrowseNext, CancelBrowse, Browsing, BrowseStart, BrowseAnswer,
         BrowseFail, FinishBrowse, BrowseUnchanged, authVars
    <2>7. CASE CloudStep \/ Restart
      BY <2>7 DEF CloudStep, Restart, authVars
    <2> QED
      BY <2>1, <2>2, <2>3, <2>4, <2>5, <2>6, <2>7 DEF Next
  <1> QED
    BY <1>1, Invariance, PTL DEF Spec, CredentialsOnlyByLogin

-----------------------------------------------------------------------------
(* The index and the downloads                                             *)

\* A row that lists an item as it is.
AsIs(now) == [ver |-> now.ver, parent |-> now.parent, deleted |-> ~now.live]

\* Neither the cloud nor a cursor runs ahead of the clock.
Clocked ==
    /\ \A a \in Accounts : link[a] <= clock
    /\ \A a \in Accounts, i \in Items : cloud[a][i].ver <= clock

\* An enumeration under way, opened at upto: what it has not named yet is not
\* staged, and an item that has not changed since is still to be named, is
\* staged as it is, or needs no row: the index has it, or it is gone.
StageFaithful ==
    refresh # None /\ refresh.pc = "pages" =>
        LET a == refresh.acc IN
        /\ a \in Accounts
        /\ refresh.upto \in 1 .. clock /\ link[a] <= refresh.upto
        /\ refresh.replace \/ link[a] > 0
        /\ \A i \in refresh.left : stage[a][i] = None
        /\ \A i \in Items \ refresh.left : cloud[a][i].ver <= refresh.upto =>
              IF stage[a][i] # None THEN stage[a][i] = AsIs(cloud[a][i])
              ELSE IF refresh.replace THEN ~cloud[a][i].live
              ELSE cloud[a][i].ver <= link[a]

\* A file with every byte, and each of one version.
Whole(v) == [n \in 1 .. Chunks |-> v]

\* A finished file is of its version; the bytes of a partial file are, unless
\* the cloud has moved on, and then it is never published.
FilesFaithful ==
    \A a \in Accounts, v \in Versions :
        /\ complete[a][v] # None => complete[a][v] = Whole(v)
        /\ cloud[a][File].ver <= v =>
              \A n \in 1 .. Len(partial[a][v]) : partial[a][v][n] = v

\* How far the download under way has come.
DownloadStep ==
    download # None =>
        LET got == partial[download.acc][download.ver] IN
        /\ download.pc = "read" => Len(got) < Chunks
        /\ download.pc = "post" => Len(got) = Chunks
        /\ download.pc \in {"read", "post"} =>
              download.ver <= cloud[download.acc][File].ver
        /\ download.pc = "publish" => got = Whole(download.ver)

StoreInv == /\ TypeOK /\ Clocked /\ StageFaithful /\ IndexFaithful
            /\ FilesFaithful /\ DownloadStep

---------------------------------------------------------------------------
(* Which steps change what. *)

\* Only CloudStep changes the cloud, and it changes nothing else.
LEMMA CloudFrame ==
  ASSUME [Next]_vars, ~CloudStep
  PROVE  UNCHANGED cloudVars
  BY DEF Next, vars, SignIn, Login, CancelLogin, LoginDone, LoginGrant,
     LoginSave, SignOut,
     LogoutAccepted, LogoutRefused, Forget, SignedOut, TokenRefresh, TokenRefreshStart,
     TokenRefreshEnd, RefreshIndex, CancelRefresh, Refreshing, RefreshBegin, RefreshPage,
     RefreshExpired, RefreshFail, RefreshCommit, RefreshDone, DownloadCloud, CancelDownload,
     Downloading, DownloadMeta, DownloadRead, DownloadRetry, DownloadPost, DownloadPublish,
     DownloadFail, DownloadDone, DownloadUnchanged, Browse, BrowseNext, CancelBrowse,
     Browsing, BrowseStart, BrowseAnswer, BrowseFail, FinishBrowse, BrowseUnchanged, Restart

\* The refresh thread alone stages and commits rows.
LEMMA IndexFrame ==
  ASSUME [Next]_vars, ~(RefreshBegin \/ RefreshPage \/ RefreshExpired \/ RefreshCommit)
  PROVE  UNCHANGED <<index, stage, link>>
  BY DEF Next, vars, storeVars, CloudStep, SignIn, Login, CancelLogin, LoginDone, LoginGrant,
     LoginSave,
     SignOut, LogoutAccepted, LogoutRefused, Forget, SignedOut, TokenRefresh,
     TokenRefreshStart, TokenRefreshEnd, RefreshIndex, CancelRefresh, Refreshing,
     RefreshFail, RefreshDone, DownloadCloud, CancelDownload, Downloading, DownloadMeta,
     DownloadRead, DownloadRetry, DownloadPost, DownloadPublish, DownloadFail, DownloadDone,
     DownloadUnchanged, Browse, BrowseNext, CancelBrowse, Browsing, BrowseStart,
     BrowseAnswer, BrowseFail, FinishBrowse, BrowseUnchanged, Restart

\* The steps that are neither the refresh thread's nor a command to it leave
\* it alone, cancel it, or end it with the process.
LEMMA RefreshFrame ==
  ASSUME [Next]_vars, ~(RefreshIndex \/ Refreshing)
  PROVE  refresh' \in {refresh, Cancelled(refresh), None}
  BY DEF Next, vars, CloudStep, SignIn, Login, CancelLogin, LoginDone, LoginGrant,
     LoginSave,
     SignOut, LogoutAccepted, LogoutRefused, LogoutInvalidates, Forget, SignedOut,
     TokenRefresh, TokenRefreshStart, TokenRefreshEnd, CancelRefresh, DownloadCloud,
     CancelDownload, Downloading, DownloadMeta, DownloadRead, DownloadRetry, DownloadPost,
     DownloadPublish, DownloadFail, DownloadDone, DownloadUnchanged, Browse, BrowseNext,
     CancelBrowse, Browsing, BrowseStart, BrowseAnswer, BrowseFail, FinishBrowse,
     BrowseUnchanged, Restart, Reset

\* The same for the download thread.
LEMMA DownloadFrame ==
  ASSUME [Next]_vars, ~(DownloadCloud \/ Downloading)
  PROVE  download' \in {download, Cancelled(download), None}
  BY DEF Next, vars, CloudStep, SignIn, Login, CancelLogin, LoginDone, LoginGrant,
     LoginSave,
     SignOut, LogoutAccepted, LogoutRefused, LogoutInvalidates, Forget, SignedOut,
     TokenRefresh, TokenRefreshStart, TokenRefreshEnd, RefreshIndex, CancelRefresh,
     Refreshing, RefreshBegin, RefreshPage, RefreshExpired, RefreshFail, RefreshCommit,
     RefreshDone, CancelDownload, Browse, BrowseNext, CancelBrowse, Browsing, BrowseStart,
     BrowseAnswer, BrowseFail, FinishBrowse, BrowseUnchanged, Restart, Reset

\* The download thread alone writes files.
LEMMA FilesFrame ==
  ASSUME [Next]_vars, ~(DownloadMeta \/ DownloadRead \/ DownloadPublish)
  PROVE  UNCHANGED <<partial, complete>>
  BY DEF Next, vars, fileVars, CloudStep, SignIn, Login, CancelLogin, LoginDone, LoginGrant,
     LoginSave,
     SignOut, LogoutAccepted, LogoutRefused, Forget, SignedOut, TokenRefresh,
     TokenRefreshStart, TokenRefreshEnd, RefreshIndex, CancelRefresh, Refreshing,
     RefreshBegin, RefreshPage, RefreshExpired, RefreshFail, RefreshCommit, RefreshDone,
     DownloadCloud, CancelDownload, Downloading, DownloadRetry, DownloadPost, DownloadFail,
     DownloadDone, DownloadUnchanged, Browse, BrowseNext, CancelBrowse, Browsing,
     BrowseStart, BrowseAnswer, BrowseFail, FinishBrowse, BrowseUnchanged, Restart

---------------------------------------------------------------------------
(* Types. *)

\* Time passes by one.
LEMMA CloudTypesKept ==
  ASSUME CloudTypes, [Next]_vars
  PROVE  CloudTypes'
  <1> USE EngineAssumption
  <1>1. CASE ~CloudStep
    BY <1>1, CloudFrame DEF CloudTypes, cloudVars
  <1>2. ASSUME NEW a \in Accounts, NEW i \in Items, NEW row \in CloudItem,
               CloudChange(a, i, row)
        PROVE  CloudTypes'
    BY <1>2 DEF CloudChange, CloudTypes, Versions
  <1>3. clock < MaxChanges + 1 => clock + 1 \in Versions
    BY DEF CloudTypes, Versions
  <1>4. ASSUME NEW a \in Accounts, CloudMove(a) PROVE CloudTypes'
    <2>1. PICK parent \in {Root, Dir} :
             CloudChange(a, File, [ver |-> clock + 1, live |-> TRUE, parent |-> parent])
      BY <1>4 DEF CloudMove
    <2> QED
      BY <1>2, <1>3, <2>1 DEF Items, CloudChange, CloudItem
  <1>5. ASSUME NEW a \in Accounts, NEW i \in Items, CloudEdit(a, i) PROVE CloudTypes'
    <2>1. /\ clock < MaxChanges + 1
          /\ CloudChange(a, i, [cloud[a][i] EXCEPT !.ver = clock + 1])
      BY <1>5 DEF CloudEdit, CloudChange
    <2>2. \A r \in CloudItem, v \in Versions : [r EXCEPT !.ver = v] \in CloudItem
      BY DEF CloudItem
    <2>3. [cloud[a][i] EXCEPT !.ver = clock + 1] \in CloudItem
      BY <1>3, <2>1, <2>2 DEF CloudTypes
    <2> QED
      BY <1>2, <2>1, <2>3
  <1>6. ASSUME NEW a \in Accounts, NEW i \in Items, CloudDelete(a, i) PROVE CloudTypes'
    <2> DEFINE gone(j) == j = i \/ (i = Dir /\ cloud[a][j].live /\ cloud[a][j].parent = Dir)
               dead(j) == [cloud[a][j] EXCEPT !.ver = clock + 1, !.live = FALSE]
    <2>1. /\ clock < MaxChanges + 1 /\ clock' = clock + 1
          /\ cloud' = [cloud EXCEPT ![a] =
                [j \in Items |-> IF gone(j) THEN dead(j) ELSE cloud[a][j]]]
      BY <1>6 DEF CloudDelete
    <2>2. \A r \in CloudItem, v \in Versions :
             [r EXCEPT !.ver = v, !.live = FALSE] \in CloudItem
      BY DEF CloudItem
    <2>3. ASSUME NEW j \in Items PROVE cloud[a][j] \in CloudItem /\ dead(j) \in CloudItem
      BY <1>3, <2>1, <2>2 DEF CloudTypes
    <2> HIDE DEF gone, dead
    <2> QED
      BY <1>3, <2>1, <2>3 DEF CloudTypes
  <1> QED
    BY <1>1, <1>4, <1>5, <1>6 DEF CloudStep

\* Merging rows gives rows.
LEMMA MergeTypes ==
  ASSUME NEW a \in Accounts, NEW replace,
         stage[a] \in [Items -> Row \cup {None}], index[a] \in [Items -> Row \cup {None}]
  PROVE  Merge(a, replace) \in [Items -> Row \cup {None}]
  <1> DEFINE base == IF replace THEN Unlisted ELSE index[a]
             rows == [i \in Items |->
                        IF stage[a][i] = None THEN base[i]
                        ELSE IF ~stage[a][i].deleted THEN stage[a][i]
                        ELSE IF base[i] = None THEN None
                        ELSE [base[i] EXCEPT !.deleted = TRUE]]
  <1>1. base \in [Items -> Row \cup {None}]
    BY DEF Unlisted
  <1>2. \A r \in Row : [r EXCEPT !.deleted = TRUE] \in Row
    BY DEF Row
  <1> HIDE DEF base
  <1>3. \A i \in Items : rows[i] \in Row \cup {None}
    <2> SUFFICES ASSUME NEW i \in Items PROVE rows[i] \in Row \cup {None}
      OBVIOUS
    <2>1. base[i] # None => base[i] \in Row
      BY <1>1
    <2> QED
      BY <1>2, <2>1
  <1> HIDE DEF rows
  <1> DEFINE keep(i) == rows[i] # None /\ rows[i].deleted
                        /\ ~\E j \in {j \in Items : rows[j] # None /\ ~rows[j].deleted} :
                               rows[j].parent = i
  <1>4. Merge(a, replace) = [i \in Items |-> IF keep(i) THEN None ELSE rows[i]]
    BY DEF Merge, rows, base
  <1> HIDE DEF keep
  <1> QED
    BY <1>3, <1>4

\* A row is staged as the cloud has it, and merging keeps rows rows.
LEMMA StoreTypesKept ==
  ASSUME CloudTypes, StoreTypes, ThreadTypes, StageFaithful, [Next]_vars
  PROVE  StoreTypes'
  <1> USE EngineAssumption
  <1>1. savedIdentity' \in {savedIdentity, None} \cup (IF RefreshCommit THEN {refresh.acc} ELSE {})
    BY DEF Next, vars, storeVars, CloudStep, SignIn, Login, CancelLogin, LoginDone, LoginGrant,
     LoginSave,
     SignOut, LogoutAccepted, LogoutRefused, LogoutInvalidates, Forget, SignedOut, TokenRefresh,
     TokenRefreshStart, TokenRefreshEnd, RefreshIndex, CancelRefresh, Refreshing,
     RefreshBegin, RefreshPage, RefreshExpired, RefreshCommit,
     RefreshFail, RefreshDone, DownloadCloud, CancelDownload, Downloading, DownloadMeta,
     DownloadRead, DownloadRetry, DownloadPost, DownloadPublish, DownloadFail, DownloadDone,
     DownloadUnchanged, Browse, BrowseNext, CancelBrowse, Browsing, BrowseStart,
     BrowseAnswer, BrowseFail, FinishBrowse, BrowseUnchanged, Restart
  <1>2. RefreshCommit => refresh.acc \in Accounts
    BY DEF RefreshCommit, StageFaithful
  <1>3. savedIdentity' \in Accounts \cup {None}
    BY <1>1, <1>2 DEF StoreTypes
  <1>4. Unlisted \in [Items -> Row \cup {None}]
    BY DEF Unlisted
  <1>5. CASE ~(RefreshBegin \/ RefreshPage \/ RefreshExpired \/ RefreshCommit)
    BY <1>3, <1>5, IndexFrame DEF StoreTypes
  <1>6. CASE RefreshBegin \/ RefreshExpired
    <2>1. UNCHANGED <<index, link>> /\ \E a : stage' = [stage EXCEPT ![a] = Unlisted]
      BY <1>6 DEF RefreshBegin, RefreshExpired, Enumerate
    <2>2. stage' \in [Accounts -> [Items -> Row \cup {None}]]
      BY <1>4, <2>1 DEF StoreTypes
    <2> QED
      BY <1>3, <2>1, <2>2 DEF StoreTypes
  <1>7. CASE RefreshPage
    <2>1. PICK i \in refresh.left :
             LET now == cloud[refresh.acc][i]
                 row == [ver |-> now.ver, parent |-> now.parent, deleted |-> ~now.live]
             IN  stage' = IF refresh.replace /\ ~now.live THEN stage
                          ELSE [stage EXCEPT ![refresh.acc][i] = row]
      BY <1>7 DEF RefreshPage
    <2>2. refresh.acc \in Accounts /\ i \in Items /\ UNCHANGED <<index, link>>
      <3>1. refresh \in RefreshThread
        BY <1>7 DEF RefreshPage, ThreadTypes
      <3> QED
        BY <1>7, <3>1 DEF RefreshPage, StageFaithful, RefreshThread
    <2>3. [ver |-> cloud[refresh.acc][i].ver, parent |-> cloud[refresh.acc][i].parent,
           deleted |-> ~cloud[refresh.acc][i].live] \in Row
      BY <2>2 DEF CloudTypes, CloudItem, Row
    <2> QED
      BY <1>3, <2>1, <2>2, <2>3 DEF StoreTypes
  <1>8. CASE RefreshCommit
    <2>1. refresh.acc \in Accounts /\ refresh.upto \in Versions \cup {0}
      <3>1. refresh \in RefreshThread
        BY <1>8 DEF RefreshCommit, ThreadTypes
      <3> QED
        BY <1>2, <1>8, <3>1 DEF RefreshThread
    <2>2. Merge(refresh.acc, refresh.replace) \in [Items -> Row \cup {None}]
      BY <2>1, MergeTypes DEF StoreTypes
    <2> QED
      BY <1>3, <1>4, <1>8, <2>1, <2>2 DEF RefreshCommit, StoreTypes
  <1> QED
    BY <1>5, <1>6, <1>7, <1>8

\* Changing a value of a table of tables.
LEMMA SetInside ==
  ASSUME NEW S, NEW T, NEW V, NEW f \in [S -> [T -> V]], NEW x \in S, NEW y \in T,
         NEW v \in V
  PROVE  [f EXCEPT ![x][y] = v] \in [S -> [T -> V]]
  OBVIOUS

\* The bytes of a file: a sequence no longer than the file.
LEMMA BytesFacts ==
  /\ <<>> \in Bytes
  /\ \A s \in Bytes : s \in Seq(Versions) /\ Len(s) \in 0 .. Chunks
  /\ \A s \in Bytes, v \in Versions : Len(s) < Chunks => Append(s, v) \in Bytes
  <1> USE EngineAssumption
  <1>1. \A s \in Bytes : s \in Seq(Versions) /\ Len(s) \in 0 .. Chunks
    <2> SUFFICES ASSUME NEW n \in 0 .. Chunks, NEW s \in [1 .. n -> Versions]
                 PROVE  s \in Seq(Versions) /\ Len(s) \in 0 .. Chunks
      BY DEF Bytes
    <2>1. s \in Seq(Versions)
      BY SeqDef
    <2>2. DOMAIN s = 1 .. n /\ n \in Nat
      OBVIOUS
    <2>3. Len(s) = n
      BY <2>1, <2>2, LenProperties
    <2> QED
      BY <2>1, <2>3
  <1>2. ASSUME NEW s \in Seq(Versions), Len(s) \in 0 .. Chunks
        PROVE  s \in Bytes
    <2>1. s \in [1 .. Len(s) -> Versions]
      BY LenProperties
    <2> QED
      BY <1>2, <2>1 DEF Bytes
  <1>3. <<>> \in Bytes
    <2>1. <<>> \in Seq(Versions) /\ Len(<<>>) = 0
      BY EmptySeq
    <2> DEFINE empty == <<>>
    <2>2. empty \in Seq(Versions) /\ Len(empty) \in 0 .. Chunks
      BY <2>1
    <2> HIDE DEF empty
    <2>3. empty \in Bytes
      BY <1>2, <2>2
    <2> QED
      BY <2>3 DEF empty
  <1>4. ASSUME NEW s \in Bytes, NEW v \in Versions, Len(s) < Chunks
        PROVE  Append(s, v) \in Bytes
    <2>1. Append(s, v) \in Seq(Versions) /\ Len(Append(s, v)) = Len(s) + 1
      BY <1>1, AppendProperties
    <2>2. Len(s) + 1 \in 0 .. Chunks
      BY <1>1, <1>4
    <2> QED
      BY <1>2, <2>1, <2>2
  <1> QED
    BY <1>1, <1>3, <1>4

\* What a download writes is a file's bytes, however it ends.
LEMMA FileTypesKept ==
  ASSUME CloudTypes, StoreTypes, FileTypes, SessionTypes, ThreadTypes, DownloadStep,
         [Next]_vars
  PROVE  FileTypes'
  <1> USE EngineAssumption
  <1> DEFINE Task == [ver : Versions, state : {"downloading", "error", "cached"}]
  <1>0. task \in [Accounts -> {None} \cup Task]
    BY DEF FileTypes
  <1>1. ASSUME Reset(savedIdentity) \/ Reset(refresh.acc)
        PROVE  task' \in [Accounts -> {None} \cup Task]
    <2>1. task' = [a \in Accounts |->
              IF a = identity' /\ task[a] # None /\ task[a].state = "downloading"
              THEN [task[a] EXCEPT !.state = "error"] ELSE task[a]]
      BY <1>1 DEF Reset
    <2>2. \A t \in Task : [t EXCEPT !.state = "error"] \in Task
      OBVIOUS
    <2>3. \A a \in Accounts : task[a] # None => task[a] \in Task
      BY <1>0
    <2> HIDE DEF Task
    <2> QED
      BY <1>0, <2>1, <2>2, <2>3
  <1>2. task' \in [Accounts -> {None} \cup Task]
    <2>1. CASE ~(Restart \/ RefreshCommit \/ DownloadPublish \/ DownloadCloud \/ DownloadDone)
      <3>1. UNCHANGED task
        BY <2>1 DEF Next, vars, fileVars, CloudStep, SignIn, Login, CancelLogin, LoginDone,
           LoginGrant, LoginSave, SignOut, LogoutAccepted, LogoutRefused, Forget, SignedOut,
           TokenRefresh, TokenRefreshStart, TokenRefreshEnd, RefreshIndex, CancelRefresh,
           Refreshing, RefreshBegin, RefreshPage, RefreshExpired, RefreshFail, RefreshDone,
           CancelDownload, Downloading, DownloadMeta, DownloadRead, DownloadRetry,
           DownloadPost, DownloadFail, DownloadUnchanged, Browse, BrowseNext, CancelBrowse,
           Browsing, BrowseStart, BrowseAnswer, BrowseFail, FinishBrowse, BrowseUnchanged
      <3> QED
        BY <1>0, <3>1
    <2>2. CASE Restart
      BY <1>1, <2>2 DEF Restart
    <2>3. CASE RefreshCommit
      BY <1>0, <1>1, <2>3 DEF RefreshCommit
    <2>4. CASE DownloadPublish
      <3>1. download \in DownloadThread
        BY <2>4 DEF DownloadPublish, ThreadTypes
      <3>2. \/ task' = [task EXCEPT ![download.acc] = [ver |-> download.ver, state |-> "cached"]]
            \/ Reset(savedIdentity)
        BY <2>4 DEF DownloadPublish
      <3>3. [ver |-> download.ver, state |-> "cached"] \in Task
        BY <3>1 DEF DownloadThread
      <3> HIDE DEF Task
      <3> QED
        BY <1>0, <1>1, <3>2, <3>3
    <2>5. CASE DownloadCloud
      <3> DEFINE ver == index[identity][File].ver
      <3>1. /\ identity # None /\ index[identity][File] # None
            /\ task' = [task EXCEPT ![identity] = [ver |-> ver, state |-> "downloading"]]
        BY <2>5 DEF DownloadCloud
      <3>2. index[identity][File] \in Row
        BY <3>1 DEF StoreTypes, SessionTypes, Items
      <3>3. [ver |-> ver, state |-> "downloading"] \in Task
        BY <3>2 DEF Row
      <3> HIDE DEF Task, ver
      <3> QED
        BY <1>0, <3>1, <3>3
    <2>6. CASE DownloadDone
      <3>1. download \in DownloadThread
        BY <2>6 DEF DownloadDone, ThreadTypes
      <3>2. \/ task' = task
            \/ task' = [task EXCEPT ![download.acc] = [ver |-> download.ver, state |-> "error"]]
        BY <2>6 DEF DownloadDone
      <3>3. [ver |-> download.ver, state |-> "error"] \in Task
        BY <3>1 DEF DownloadThread
      <3> HIDE DEF Task
      <3> QED
        BY <1>0, <3>2, <3>3
    <2> QED
      BY <2>1, <2>2, <2>3, <2>4, <2>5, <2>6
  <1>3. /\ partial' \in [Accounts -> [Versions -> Bytes]]
        /\ complete' \in [Accounts -> [Versions -> Bytes \cup {None}]]
    <2>1. CASE ~(DownloadMeta \/ DownloadRead \/ DownloadPublish)
      BY <2>1, FilesFrame DEF FileTypes
    <2>2. CASE DownloadMeta
      <3> DEFINE empty == <<>>
      <3>1. /\ complete' = complete
            /\ \/ partial' = partial
               \/ partial' = [partial EXCEPT ![download.acc][download.ver] = empty]
        BY <2>2 DEF DownloadMeta, DownloadUnchanged
      <3>2. empty \in Bytes
        BY BytesFacts
      <3> HIDE DEF empty
      <3>3. download \in DownloadThread
        BY <2>2 DEF DownloadMeta, ThreadTypes
      <3>4. download.acc \in Accounts /\ download.ver \in Versions
        BY <3>3 DEF DownloadThread
      <3>5. CASE partial' = [partial EXCEPT ![download.acc][download.ver] = empty]
        BY <3>1, <3>2, <3>4, <3>5, SetInside DEF FileTypes
      <3> QED
        BY <3>1, <3>5 DEF FileTypes
    <2>3. CASE DownloadRead
      <3> DEFINE a == download.acc
                 have == partial[a][download.ver]
      <3>1. download \in DownloadThread /\ download.pc = "read"
        BY <2>3 DEF DownloadRead, ThreadTypes
      <3>2. a \in Accounts /\ download.ver \in Versions
        BY <3>1 DEF DownloadThread
      <3>3. PICK ver \in {download.ver, cloud[a][File].ver} :
               partial' = [partial EXCEPT ![a][download.ver] = Append(have, ver)]
        BY <2>3 DEF DownloadRead
      <3>4. ver \in Versions
        BY <3>2 DEF CloudTypes, CloudItem, Items
      <3>5. have \in Bytes /\ Len(have) < Chunks
        BY <2>3, <3>1, <3>2 DEF DownloadRead, DownloadStep, FileTypes
      <3>6. Append(have, ver) \in Bytes
        BY <3>4, <3>5, BytesFacts
      <3>7. complete' = complete
        BY <2>3 DEF DownloadRead, DownloadUnchanged
      <3> HIDE DEF have
      <3> QED
        BY <3>3, <3>6, <3>7 DEF FileTypes
    <2>4. CASE DownloadPublish
      <3> DEFINE a == download.acc
                 full == partial[a][download.ver]
                 empty == <<>>
      <3>1. download \in DownloadThread
        BY <2>4 DEF DownloadPublish, ThreadTypes
      <3>2. a \in Accounts /\ download.ver \in Versions
        BY <3>1 DEF DownloadThread
      <3>3. full \in Bytes
        BY <3>2 DEF FileTypes
      <3>4. /\ \/ partial' = partial
               \/ partial' = [partial EXCEPT ![a][download.ver] = empty]
            /\ \/ complete' = [complete EXCEPT ![a][download.ver] = full]
               \/ complete' = [complete EXCEPT ![a][download.ver] = None]
        BY <2>4 DEF DownloadPublish
      <3>5. empty \in Bytes
        BY BytesFacts
      <3> HIDE DEF full, empty
      <3>6. partial' \in [Accounts -> [Versions -> Bytes]]
        <4>1. CASE partial' = [partial EXCEPT ![a][download.ver] = empty]
          BY <3>2, <3>5, <4>1, SetInside DEF FileTypes
        <4>2. CASE partial' = partial
          BY <4>2 DEF FileTypes
        <4> QED
          BY <3>4, <4>1, <4>2
      <3>7. complete' \in [Accounts -> [Versions -> Bytes \cup {None}]]
        <4>1. ASSUME NEW x \in Bytes \cup {None},
                     complete' = [complete EXCEPT ![a][download.ver] = x]
              PROVE  complete' \in [Accounts -> [Versions -> Bytes \cup {None}]]
          BY <3>2, <4>1, SetInside DEF FileTypes
        <4> QED
          BY <3>3, <3>4, <4>1
      <3> QED
        BY <3>6, <3>7
    <2> QED
      BY <2>1, <2>2, <2>3, <2>4
  <1> QED
    BY <1>2, <1>3 DEF FileTypes

\* Sessions: a token is stored by a login or by a backend that holds one.
LEMMA SessionTypesKept ==
  ASSUME IInv, StoreTypes, SessionTypes, ThreadTypes, StageFaithful, [Next]_vars
  PROVE  SessionTypes'
  <1> USE EngineAssumption
  <1> DEFINE Logins == [pc : {"waiting", "granted", "saved"}, acc : Accounts \cup {None},
                        cancelled : {None, "waiting", "granted", "saved"}]
             Signouts == [pc : {"forget", "removed", "failed"}, graph : Epochs \cup {None}]
             Graph == Accounts \cup {None, "cleared"}
             Own == [graphs EXCEPT ![graph] = IF @ = None THEN token ELSE @]
  <1>1. {epoch, graph} \subseteq Epochs /\ 0 \in Epochs /\ Own \in [Epochs -> Graph]
    BY DEF SessionTypes, Epochs
  <1>2. ASSUME NEW saved \in Accounts \cup {None}, Reset(saved), UNCHANGED token
        PROVE  SessionTypes'
    <2>1. /\ token' = token /\ login' = None /\ signout' = None /\ removalFailed' = FALSE
          /\ epoch' = 0 /\ graph' = 0 /\ identity' \in {None, saved}
          /\ auth' \in {"signed_out", "signed_in"}
          /\ graphs' = [e \in Epochs |-> None] /\ holder' = [e \in Epochs |-> None]
      BY <1>2 DEF Reset
    <2>2. token \in Accounts \cup {None}
      BY DEF SessionTypes
    <2>3. {token', identity'} \subseteq Accounts \cup {None} /\ {epoch', graph'} \subseteq Epochs
      BY <1>1, <1>2, <2>1, <2>2
    <2>4. /\ graphs' \in [Epochs -> Accounts \cup {None, "cleared"}]
          /\ holder' \in [Epochs -> Threads \cup {None}]
      BY <2>1
    <2> QED
      BY <2>1, <2>3, <2>4 DEF SessionTypes
  <1>a. ASSUME UNCHANGED <<token, auth, login, signout, removalFailed, epoch, graph, holder, identity>>,
               graphs' = Own
        PROVE  SessionTypes'
    BY <1>1, <1>a DEF SessionTypes
  <1>b. ASSUME UNCHANGED <<token, auth, login, signout, removalFailed, epoch, graph, holder, identity,
                           graphs>>
        PROVE  SessionTypes'
    BY <1>b DEF SessionTypes
  <1>3. ASSUME SignIn PROVE SessionTypes'
    <2>1. UNCHANGED <<signout, graphs, holder, epoch, graph, identity>>
      BY <1>3 DEF SignIn, Login, CancelLogin, LoginDone, LoginGrant, LoginSave, graphVars
    <2>2. /\ token' \in Accounts \cup {None} /\ removalFailed' \in BOOLEAN
          /\ auth' \in {"signed_out", "signing_in", "signed_in", "signing_out"}
      <3>1. /\ token \in Accounts \cup {None} /\ removalFailed \in BOOLEAN
            /\ auth \in {"signed_out", "signing_in", "signed_in", "signing_out"}
            /\ login # None => login.acc \in Accounts \cup {None}
        BY DEF SessionTypes
      <3> QED
        BY <1>3, <3>1 DEF SignIn, Login, CancelLogin, LoginDone, LoginGrant, LoginSave
    <2>3. login' = None \/ login' \in Logins
      <3>1. /\ \A l \in Logins : /\ [l EXCEPT !.cancelled = l.pc] \in Logins
                                  /\ [l EXCEPT !.pc = "saved"] \in Logins
            /\ \A l \in Logins, a \in Accounts :
                  [l EXCEPT !.pc = "granted", !.acc = a] \in Logins
        OBVIOUS
      <3>2. [pc |-> "waiting", acc |-> None, cancelled |-> None] \in Logins
        OBVIOUS
      <3>3. login # None => login \in Logins
        BY DEF SessionTypes
      <3> HIDE DEF Logins
      <3>4. Login \/ LoginDone => login' = None \/ login' \in Logins
        BY <3>2 DEF Login, LoginDone
      <3>5. CancelLogin \/ LoginSave => login' \in Logins
        BY <3>1, <3>3 DEF CancelLogin, LoginSave
      <3>6. ASSUME NEW a \in Accounts, LoginGrant(a) PROVE login' \in Logins
        <4>1. login # None /\ login' = [login EXCEPT !.pc = "granted", !.acc = a]
          BY <3>6 DEF LoginGrant
        <4> QED
          BY <3>1, <3>3, <4>1, Zenon
      <3> QED
        BY <1>3, <3>4, <3>5, <3>6 DEF SignIn
    <2> QED
      BY <2>1, <2>2, <2>3 DEF SessionTypes
  <1>4. ASSUME SignOut PROVE SessionTypes'
    <2>1. CASE LogoutAccepted \/ LogoutRefused
      <3>1. epoch' \in Epochs
        BY <1>1, <2>1 DEF LogoutAccepted, LogoutRefused, LogoutInvalidates, Epochs
      <3>2. /\ UNCHANGED <<token, login, removalFailed, graphs, holder>> /\ identity' = None
            /\ auth' \in {auth, "signing_out"} /\ graph' \in {graph, epoch'}
            /\ \/ signout' = signout
               \/ signout' = [pc |-> "forget",
                              graph |-> IF graphs[graph] = None THEN None ELSE graph]
        BY <2>1 DEF LogoutAccepted, LogoutRefused, LogoutInvalidates, authVars
      <3> QED
        BY <1>1, <3>1, <3>2 DEF SessionTypes
    <2>2. CASE Forget
      <3>1. /\ UNCHANGED <<auth, login, removalFailed, epoch, graph, holder, identity>>
            /\ graphs' = IF signout.graph = None THEN graphs
                         ELSE [graphs EXCEPT ![signout.graph] = "cleared"]
            /\ token' \in {None, token} /\ signout # None
            /\ \/ signout' = [signout EXCEPT !.pc = "removed"]
               \/ signout' = [signout EXCEPT !.pc = "failed"]
        BY <2>2 DEF Forget
      <3>2. graphs' \in [Epochs -> Graph]
        BY <3>1 DEF SessionTypes
      <3>3. \A s \in Signouts, p \in {"removed", "failed"} : [s EXCEPT !.pc = p] \in Signouts
        OBVIOUS
      <3>4. signout \in Signouts
        BY <3>1 DEF SessionTypes
      <3>5. signout' \in Signouts
        BY <3>1, <3>3, <3>4
      <3> QED
        BY <3>1, <3>2, <3>5 DEF SessionTypes
    <2>3. CASE SignedOut
      <3>1. /\ UNCHANGED <<token, login, epoch, graph, graphs, holder, identity>>
            /\ auth' = "signed_out" /\ removalFailed' \in BOOLEAN /\ signout' = None
        BY <2>3 DEF SignedOut, graphVars
      <3> QED
        BY <3>1 DEF SessionTypes
    <2> QED
      BY <1>4, <2>1, <2>2, <2>3 DEF SignOut
  <1>5. ASSUME TokenRefresh PROVE SessionTypes'
    <2>1. UNCHANGED <<token, auth, login, signout, removalFailed, epoch, graph, graphs, identity>>
      <3>1. UNCHANGED <<auth, login, signout, removalFailed, epoch, graph, graphs, identity>>
        BY <1>5 DEF TokenRefresh, TokenRefreshStart, TokenRefreshEnd, authVars
      <3> QED
        BY <1>5, <3>1, TokenRefreshKeeps
    <2>2. holder' \in [Epochs -> Threads \cup {None}]
      <3>1. ASSUME NEW who \in Threads, TokenRefreshStart(who)
            PROVE  holder' = [holder EXCEPT ![GraphOf(who)] = who]
        BY <3>1 DEF TokenRefreshStart
      <3>2. ASSUME NEW e \in Epochs, TokenRefreshEnd(e)
            PROVE  holder' = [holder EXCEPT ![e] = None]
        BY <3>2 DEF TokenRefreshEnd
      <3> QED
        BY <1>5, <3>1, <3>2 DEF TokenRefresh, SessionTypes
    <2> QED
      BY <2>1, <2>2 DEF SessionTypes
  <1>6. ASSUME RefreshIndex \/ DownloadCloud PROVE SessionTypes'
    <2>1. /\ UNCHANGED <<token, auth, login, signout, removalFailed, epoch, graph, holder, identity>>
          /\ graphs' = Own
      BY <1>6 DEF RefreshIndex, DownloadCloud, GraphLocked, authVars
    <2> QED
      BY <1>a, <2>1
  <1>7. ASSUME RefreshCommit PROVE SessionTypes'
    <2>1. refresh.acc \in Accounts /\ savedIdentity \in Accounts \cup {None}
      BY <1>7 DEF RefreshCommit, StageFaithful, StoreTypes
    <2>2. CASE Reset(savedIdentity)
      BY <1>2, <1>7, <2>1, <2>2 DEF RefreshCommit
    <2>3. CASE ~Reset(savedIdentity)
      <3>1. /\ UNCHANGED <<token, auth, login, signout, removalFailed, graphs, epoch, graph, holder>>
            /\ identity' \in {identity, refresh.acc}
        BY <1>7, <2>3 DEF RefreshCommit, graphVars
      <3> QED
        BY <2>1, <3>1 DEF SessionTypes
    <2> QED
      BY <2>2, <2>3
  <1>8. ASSUME Restart \/ DownloadPublish PROVE SessionTypes'
    <2>1. savedIdentity \in Accounts \cup {None}
      BY DEF StoreTypes
    <2>2. CASE Reset(savedIdentity)
      BY <1>2, <1>8, <2>1, <2>2 DEF Restart, DownloadPublish
    <2>3. CASE ~Reset(savedIdentity)
      <3>1. UNCHANGED <<token, auth, login, signout, removalFailed, graphs, epoch, graph, holder, identity>>
        BY <1>8, <2>3 DEF Restart, DownloadPublish, graphVars
      <3> QED
        BY <1>b, <3>1
    <2> QED
      BY <2>2, <2>3
  <1>9. ASSUME Browsing PROVE SessionTypes'
    <2>1. PICK b \in browses :
                BrowseStart(b) \/ BrowseAnswer(b) \/ BrowseFail(b) \/ FinishBrowse(b)
      BY <1>9 DEF Browsing
    <2>2. /\ UNCHANGED <<token, auth, login, signout, removalFailed, epoch, graph, holder, identity>>
          /\ graphs' = graphs \/ graphs' = Own
      BY <2>1 DEF BrowseStart, BrowseAnswer, BrowseFail, FinishBrowse, BrowseUnchanged,
         authVars, graphVars
    <2> QED
      BY <1>a, <1>b, <2>2
  <1>10. ASSUME ~(\/ SignIn \/ SignOut \/ TokenRefresh \/ RefreshIndex \/ DownloadCloud
                  \/ RefreshCommit \/ Restart \/ DownloadPublish \/ Browsing)
         PROVE SessionTypes'
    <2>1. UNCHANGED <<token, auth, login, signout, removalFailed, graphs, epoch, graph, holder, identity>>
      BY <1>10 DEF Next, vars, authVars, graphVars, CloudStep, CancelRefresh, Refreshing,
         RefreshBegin, RefreshPage, RefreshExpired, RefreshFail, RefreshDone, CancelDownload,
         Downloading, DownloadMeta, DownloadRead, DownloadRetry, DownloadPost, DownloadFail,
         DownloadDone, DownloadUnchanged, Browse, BrowseNext, CancelBrowse, BrowseUnchanged
    <2> QED
      BY <1>b, <2>1
  <1> QED
    BY <1>3, <1>4, <1>5, <1>6, <1>7, <1>8, <1>9, <1>10

\* A refresh thread is a refresh thread until it ends.
LEMMA RefreshThreadKept ==
  ASSUME CloudTypes, StoreTypes, SessionTypes, refresh = None \/ refresh \in RefreshThread,
         StageFaithful, [Next]_vars
  PROVE  refresh' = None \/ refresh' \in RefreshThread
  <1> USE EngineAssumption
  <1>1. \A r \in RefreshThread :
           /\ r.left \subseteq Items
           /\ [r EXCEPT !.cancel = TRUE] \in RefreshThread
           /\ [r EXCEPT !.pc = "done"] \in RefreshThread
           /\ \A i : [r EXCEPT !.left = @ \ {i}] \in RefreshThread
    BY DEF RefreshThread
  <1>2. ASSUME NEW r \in RefreshThread, NEW a \in Accounts, NEW b \in BOOLEAN,
               NEW v \in Versions, NEW l \in SUBSET Items
        PROVE  [r EXCEPT !.pc = "pages", !.acc = a, !.replace = b, !.upto = v, !.left = l]
                  \in RefreshThread
    BY DEF RefreshThread
  <1>3. CASE ~(RefreshIndex \/ Refreshing)
    BY <1>1, <1>3, RefreshFrame DEF Cancelled
  <1>4. CASE RefreshIndex
    BY <1>4 DEF RefreshIndex, RefreshThread, SessionTypes
  <1>5. ASSUME NEW a \in Accounts, NEW since, Enumerate(a, since), refresh # None
        PROVE  refresh' \in RefreshThread
    <2>1. /\ clock \in Versions /\ (since = 0) \in BOOLEAN
          /\ (IF since = 0 THEN LiveItems(a) ELSE ChangedSince(a, since)) \in SUBSET Items
      BY DEF CloudTypes, LiveItems, ChangedSince
    <2> QED
      BY <1>2, <1>5, <2>1 DEF Enumerate
  <1>6. CASE RefreshBegin
    BY <1>5, <1>6 DEF RefreshBegin, MayAsk
  <1>7. CASE RefreshExpired
    BY <1>5, <1>7 DEF RefreshExpired, StageFaithful
  <1>8. CASE RefreshPage
    <2>1. PICK i : refresh' = [refresh EXCEPT !.left = @ \ {i}]
      BY <1>8 DEF RefreshPage
    <2> QED
      BY <1>1, <1>8, <2>1 DEF RefreshPage
  <1>9. CASE RefreshFail \/ RefreshDone
    BY <1>1, <1>9 DEF RefreshFail, RefreshDone
  <1>10. CASE RefreshCommit
    <2>1. refresh' = None \/ refresh' = [refresh EXCEPT !.pc = "done"]
      BY <1>10 DEF RefreshCommit, Reset
    <2> QED
      BY <1>1, <1>10, <2>1 DEF RefreshCommit
  <1> QED
    BY <1>3, <1>4, <1>6, <1>7, <1>8, <1>9, <1>10 DEF Refreshing

\* A download thread is a download thread until it ends.
LEMMA DownloadThreadKept ==
  ASSUME StoreTypes, SessionTypes, download = None \/ download \in DownloadThread,
         [Next]_vars
  PROVE  download' = None \/ download' \in DownloadThread
  <1> USE EngineAssumption
  <1>1. \A d \in DownloadThread :
           /\ [d EXCEPT !.cancel = TRUE] \in DownloadThread
           /\ \A pc \in {"read", "post", "publish", "failed", "done"} :
                 [d EXCEPT !.pc = pc] \in DownloadThread
           /\ d.attempt + 1 < MaxAttempts =>
                 [d EXCEPT !.pc = "meta", !.attempt = @ + 1] \in DownloadThread
    <2> SUFFICES ASSUME NEW d \in DownloadThread
                 PROVE  /\ [d EXCEPT !.cancel = TRUE] \in DownloadThread
                        /\ \A pc \in {"read", "post", "publish", "failed", "done"} :
                              [d EXCEPT !.pc = pc] \in DownloadThread
                        /\ d.attempt + 1 < MaxAttempts =>
                              [d EXCEPT !.pc = "meta", !.attempt = @ + 1] \in DownloadThread
      OBVIOUS
    <2>1. [d EXCEPT !.cancel = TRUE] \in DownloadThread
      BY DEF DownloadThread
    <2>2. \A pc \in {"read", "post", "publish", "failed", "done"} :
             [d EXCEPT !.pc = pc] \in DownloadThread
      BY DEF DownloadThread
    <2>3. ASSUME d.attempt + 1 < MaxAttempts
          PROVE  [d EXCEPT !.pc = "meta", !.attempt = @ + 1] \in DownloadThread
      <3>1. d.attempt + 1 \in 0 .. MaxAttempts - 1
        BY <2>3 DEF DownloadThread
      <3> QED
        BY <3>1 DEF DownloadThread
    <2> QED
      BY <2>1, <2>2, <2>3
  <1>2. CASE ~(DownloadCloud \/ Downloading)
    BY <1>1, <1>2, DownloadFrame DEF Cancelled
  <1>3. CASE DownloadCloud
    <2>1. /\ identity \in Accounts /\ index[identity][File] \in Row
          /\ download' = [pc |-> "meta", epoch |-> epoch, graph |-> graph, cancel |-> FALSE, acc |-> identity,
                          ver |-> index[identity][File].ver, attempt |-> 0]
      BY <1>3 DEF DownloadCloud, SessionTypes, StoreTypes, Items
    <2>2. index[identity][File].ver \in Versions /\ {epoch, graph} \subseteq Epochs
      BY <2>1 DEF Row, SessionTypes
    <2> QED
      BY <2>1, <2>2 DEF DownloadThread
  <1>4. CASE DownloadRetry
    <2>1. /\ download # None /\ download.attempt + 1 < MaxAttempts
          /\ download' = [download EXCEPT !.pc = "meta", !.attempt = @ + 1]
      BY <1>4 DEF DownloadRetry
    <2> QED
      BY <1>1, <2>1
  <1>5. CASE DownloadMeta \/ DownloadRead \/ DownloadPost \/ DownloadFail \/ DownloadPublish
             \/ DownloadDone
    <2>1. /\ download # None
          /\ \/ download' = None
             \/ \E pc \in {"read", "post", "publish", "failed", "done"} :
                   download' = [download EXCEPT !.pc = pc]
      <3>1. CASE DownloadMeta
        BY <3>1 DEF DownloadMeta
      <3>2. CASE DownloadRead
        BY <3>2 DEF DownloadRead
      <3>3. CASE DownloadPost \/ DownloadFail
        BY <3>3 DEF DownloadPost, DownloadFail
      <3>4. CASE DownloadPublish \/ DownloadDone
        BY <3>4 DEF DownloadPublish, DownloadDone, Reset
      <3> QED
        BY <1>5, <3>1, <3>2, <3>3, <3>4
    <2>2. ASSUME NEW pc \in {"read", "post", "publish", "failed", "done"},
                 download' = [download EXCEPT !.pc = pc]
          PROVE  download' \in DownloadThread
      <3>1. [download EXCEPT !.pc = pc] \in DownloadThread
        BY <1>1, <2>1
      <3> QED
        BY <2>2, <3>1
    <2> QED
      BY <2>1, <2>2
  <1> QED
    BY <1>2, <1>3, <1>4, <1>5 DEF Downloading

\* The process restarts within its bound.
LEMMA ThreadTypesKept ==
  ASSUME CloudTypes, StoreTypes, SessionTypes, ThreadTypes, StageFaithful, [Next]_vars
  PROVE  ThreadTypes'
  <1> USE EngineAssumption
  <1>1. restarts' = restarts \/ (restarts < MaxRestarts /\ restarts' = restarts + 1)
    BY DEF Next, vars, CloudStep, SignIn, Login, CancelLogin, LoginDone, LoginGrant,
     LoginSave, SignOut,
     LogoutAccepted, LogoutRefused, Forget, SignedOut, TokenRefresh, TokenRefreshStart,
     TokenRefreshEnd, RefreshIndex, CancelRefresh, Refreshing, RefreshBegin, RefreshPage,
     RefreshExpired, RefreshFail, RefreshCommit, RefreshDone, DownloadCloud, CancelDownload,
     Downloading, DownloadMeta, DownloadRead, DownloadRetry, DownloadPost, DownloadPublish,
     DownloadFail, DownloadDone, DownloadUnchanged, Browse, BrowseNext, CancelBrowse,
     Browsing, BrowseStart, BrowseAnswer, BrowseFail, FinishBrowse, BrowseUnchanged, Restart,
     Reset
  <1>2. restarts' \in 0 .. MaxRestarts
    BY <1>1 DEF ThreadTypes
  <1> QED
    BY <1>2, RefreshThreadKept, DownloadThreadKept DEF ThreadTypes

\* Browse threads and what is on show keep their types.
LEMMA BrowseTypesKept ==
  ASSUME SessionTypes, BrowseTypes, [Next]_vars
  PROVE  BrowseTypes'
  <1> USE EngineAssumption
  <1> DEFINE View == [query : Queries, status : {"loading", "failed", "partial", "complete"},
                      page : Page \cup {None}]
  <1>a. ASSUME NEW d \in View \cup {None}, directory' = d, browses' \subseteq BrowseThread,
               browseCancel' \in Queries \cup {None}, seenLinks' \subseteq Links,
               queries' \in 0 .. MaxQueries
        PROVE  BrowseTypes'
    BY <1>a DEF BrowseTypes
  <1>b. /\ directory \in View \cup {None} /\ browses \subseteq BrowseThread
        /\ browseCancel \in Queries \cup {None} /\ seenLinks \subseteq Links
        /\ queries \in 0 .. MaxQueries
    BY DEF BrowseTypes
  <1>c. ASSUME UNCHANGED browseVars PROVE BrowseTypes'
    BY <1>c DEF browseVars, BrowseTypes
  <1>d. /\ \A v \in View : v.query \in Queries /\ v.page \in Page \cup {None}
        /\ \A v \in View, s \in {"loading", "failed"} : [v EXCEPT !.status = s] \in View
        /\ \A v \in View, s \in {"complete", "partial"}, p \in Page :
              [v EXCEPT !.status = s, !.page = p] \in View
        /\ \A q \in Queries : [query |-> q, status |-> "loading", page |-> None] \in View
        /\ \A p \in Page : p.next \in Links \cup {None}
    BY DEF Page
  <1>e. ASSUME NEW b \in BrowseThread
        PROVE  /\ [b EXCEPT !.cancel = TRUE] \in BrowseThread
               /\ [b EXCEPT !.pc = "answered"] \in BrowseThread
               /\ b.page \in Page \cup {None}
               /\ \A e \in Epochs : [b EXCEPT !.pc = "ask", !.graph = e] \in BrowseThread
               /\ \A p \in Page : [b EXCEPT !.pc = "answered", !.page = p] \in BrowseThread
    <2>1. b.page \in Page \cup {None}
      BY DEF BrowseThread
    <2>2. [b EXCEPT !.cancel = TRUE] \in BrowseThread
      BY DEF BrowseThread
    <2>3. [b EXCEPT !.pc = "answered"] \in BrowseThread
      BY DEF BrowseThread
    <2>4. \A e \in Epochs : [b EXCEPT !.pc = "ask", !.graph = e] \in BrowseThread
      BY DEF BrowseThread
    <2>5. \A p \in Page : [b EXCEPT !.pc = "answered", !.page = p] \in BrowseThread
      BY DEF BrowseThread
    <2> QED
      BY <2>1, <2>2, <2>3, <2>4, <2>5
  <1>f. AfterCancel \subseteq BrowseThread
    BY <1>b, <1>e DEF AfterCancel
  <1>g. ASSUME NEW q \in Queries, NEW n \in Links \cup {None}, queries < MaxQueries
        PROVE  Worker(q, n) \in BrowseThread
    BY <1>b, <1>g DEF Worker, BrowseThread, Queries
  <1>h. queries < MaxQueries =>
           queries + 1 \in 0 .. MaxQueries /\ queries + 1 \in Queries
    BY <1>b DEF Queries
  <1> HIDE DEF View
  <1>1. ASSUME NEW q \in Queries, Browse(q) PROVE BrowseTypes'
    <2>1. /\ queries < MaxQueries /\ queries' = queries + 1 /\ browseCancel' = queries + 1
          /\ directory' = [query |-> q, status |-> "loading", page |-> None]
          /\ seenLinks' = {} /\ browses' = AfterCancel \cup {Worker(q, None)}
      BY <1>1 DEF Browse, LaunchBrowse
    <2>2. directory' \in View /\ Worker(q, None) \in BrowseThread
      BY <1>d, <1>g, <2>1
    <2> QED
      BY <1>a, <1>f, <1>h, <2>1, <2>2
  <1>2. ASSUME BrowseNext PROVE BrowseTypes'
    <2>1. /\ queries < MaxQueries /\ queries' = queries + 1 /\ browseCancel' = queries + 1
          /\ directory # None /\ directory.page # None
          /\ directory' = [directory EXCEPT !.status = "loading"]
          /\ seenLinks' = seenLinks
          /\ browses' = browses \cup {Worker(directory.query, directory.page.next)}
      BY <1>2 DEF BrowseNext, LaunchBrowse
    <2>2. directory \in View /\ directory.page \in Page
      BY <1>b, <1>d, <2>1
    <2>3. directory' \in View /\ Worker(directory.query, directory.page.next) \in BrowseThread
      BY <1>d, <1>g, <2>1, <2>2
    <2> QED
      BY <1>a, <1>b, <1>h, <2>1, <2>3
  <1>3. ASSUME CancelBrowse \/ LogoutAccepted PROVE BrowseTypes'
    <2>1. /\ directory' = None /\ browses' = AfterCancel /\ browseCancel' = None
          /\ UNCHANGED <<seenLinks, queries>>
      BY <1>3 DEF CancelBrowse, LogoutAccepted, CancelLaunched
    <2> QED
      BY <1>a, <1>b, <1>f, <2>1
  <1>4. ASSUME NEW s, Reset(s) PROVE BrowseTypes'
    BY <1>a, <1>b, <1>4 DEF Reset
  <1>5. ASSUME NEW b \in browses, BrowseStart(b) \/ BrowseAnswer(b) \/ BrowseFail(b)
        PROVE  BrowseTypes'
    <2>1. UNCHANGED <<directory, browseCancel, seenLinks, queries>> /\ b \in BrowseThread
      BY <1>b, <1>5 DEF BrowseStart, BrowseAnswer, BrowseFail
    <2>2. ASSUME NEW c \in BrowseThread, browses' = (browses \ {b}) \cup {c}
          PROVE  BrowseTypes'
      BY <1>a, <1>b, <2>1, <2>2
    <2>3. CASE BrowseStart(b)
      <3>1. browses' = (browses \ {b}) \cup {[b EXCEPT !.pc = "ask", !.graph = graph]}
        BY <2>3 DEF BrowseStart
      <3>2. graph \in Epochs
        BY DEF SessionTypes
      <3> QED
        BY <1>e, <2>1, <2>2, <3>1, <3>2
    <2>4. CASE BrowseAnswer(b)
      <3>1. PICK next \in Links \cup {None} : browses' = (browses \ {b}) \cup
               {[b EXCEPT !.pc = "answered", !.page = [acc |-> graphs[b.graph], next |-> next]]}
        BY <2>4 DEF BrowseAnswer
      <3>2. [acc |-> graphs[b.graph], next |-> next] \in Page
        BY <2>4 DEF BrowseAnswer, MayAsk, Page
      <3> QED
        BY <1>e, <2>1, <2>2, <3>1, <3>2
    <2>5. CASE BrowseFail(b)
      <3>1. browses' = (browses \ {b}) \cup {[b EXCEPT !.pc = "answered"]}
        BY <2>5 DEF BrowseFail
      <3> QED
        BY <1>e, <2>1, <2>2, <3>1
    <2> QED
      BY <1>5, <2>3, <2>4, <2>5
  <1>6. ASSUME NEW b \in browses, FinishBrowse(b) PROVE BrowseTypes'
    <2>1. browses' = browses \ {b} /\ UNCHANGED <<browseCancel, queries>>
      BY <1>6 DEF FinishBrowse
    <2>2. b.page \in Page \cup {None}
      BY <1>b, <1>e
    <2>3. CASE UNCHANGED <<directory, seenLinks>>
      BY <1>a, <1>b, <2>1, <2>3
    <2>4. CASE /\ directory # None /\ UNCHANGED seenLinks
               /\ directory' = [directory EXCEPT !.status = "failed"]
      BY <1>a, <1>b, <1>d, <2>1, <2>4
    <2>5. CASE /\ directory # None /\ b.page # None
               /\ seenLinks' = seenLinks \cup ({b.page.next} \ {None})
               /\ \E s \in {"complete", "partial"} :
                     directory' = [directory EXCEPT !.status = s, !.page = b.page]
      <3>1. b.page \in Page /\ directory \in View
        BY <1>b, <2>2, <2>5
      <3>2. PICK s \in {"complete", "partial"} :
               directory' = [directory EXCEPT !.status = s, !.page = b.page]
        BY <2>5
      <3>3. directory' \in View
        BY <1>d, <3>1, <3>2, Zenon
      <3>4. b.page.next \in Links \cup {None}
        BY <1>d, <3>1
      <3>5. seenLinks' \subseteq Links
        BY <1>b, <2>5, <3>4
      <3> QED
        BY <1>a, <1>b, <2>1, <3>3, <3>5
    <2> QED
      BY <1>6, <2>3, <2>4, <2>5 DEF FinishBrowse
  <1>7. ASSUME ~(BrowseNext \/ CancelBrowse \/ LogoutAccepted \/ Browsing),
               ~\E q \in Queries : Browse(q)
        PROVE  UNCHANGED browseVars \/ \E s : Reset(s)
    BY <1>7 DEF Next, vars, CloudStep, SignIn, Login, CancelLogin, LoginDone, LoginGrant,
     LoginSave,
     SignOut, LogoutRefused, Forget, SignedOut, TokenRefresh, TokenRefreshStart,
     TokenRefreshEnd, RefreshIndex, CancelRefresh, Refreshing, RefreshBegin, RefreshPage,
     RefreshExpired, RefreshFail, RefreshCommit, RefreshDone, DownloadCloud, CancelDownload,
     Downloading, DownloadMeta, DownloadRead, DownloadRetry, DownloadPost, DownloadPublish,
     DownloadFail, DownloadDone, DownloadUnchanged, Restart
  <1> QED
    BY <1>c, <1>1, <1>2, <1>3, <1>4, <1>5, <1>6, <1>7 DEF Browsing

---------------------------------------------------------------------------
(* The index. *)

\* What changes in the cloud gets a version of its own.
LEMMA CloudMoves ==
  ASSUME CloudTypes, CloudStep
  PROVE  /\ clock' = clock + 1
         /\ \A a \in Accounts, i \in Items :
               cloud'[a][i] = cloud[a][i] \/ cloud'[a][i].ver = clock + 1
  <1> USE EngineAssumption
  <1>1. ASSUME NEW a \in Accounts, NEW i \in Items, NEW row, row.ver = clock + 1,
               CloudChange(a, i, row)
        PROVE  /\ clock' = clock + 1
               /\ \A b \in Accounts, j \in Items :
                     cloud'[b][j] = cloud[b][j] \/ cloud'[b][j].ver = clock + 1
    BY <1>1 DEF CloudChange, CloudTypes
  <1>2. ASSUME NEW a \in Accounts, CloudMove(a)
        PROVE  /\ clock' = clock + 1
               /\ \A b \in Accounts, j \in Items :
                     cloud'[b][j] = cloud[b][j] \/ cloud'[b][j].ver = clock + 1
    <2>1. PICK parent \in {Root, Dir} :
             CloudChange(a, File, [ver |-> clock + 1, live |-> TRUE, parent |-> parent])
      BY <1>2 DEF CloudMove
    <2> QED
      BY <1>1, <2>1 DEF Items
  <1>3. ASSUME NEW a \in Accounts, NEW i \in Items, CloudEdit(a, i)
        PROVE  /\ clock' = clock + 1
               /\ \A b \in Accounts, j \in Items :
                     cloud'[b][j] = cloud[b][j] \/ cloud'[b][j].ver = clock + 1
    <2>1. CloudChange(a, i, [cloud[a][i] EXCEPT !.ver = clock + 1])
      BY <1>3 DEF CloudEdit
    <2>2. [cloud[a][i] EXCEPT !.ver = clock + 1].ver = clock + 1
      BY DEF CloudTypes, CloudItem
    <2> QED
      BY <1>1, <2>1, <2>2
  <1>4. ASSUME NEW a \in Accounts, NEW i \in Items, CloudDelete(a, i)
        PROVE  /\ clock' = clock + 1
               /\ \A b \in Accounts, j \in Items :
                     cloud'[b][j] = cloud[b][j] \/ cloud'[b][j].ver = clock + 1
    <2> DEFINE gone(j) == j = i \/ (i = Dir /\ cloud[a][j].live /\ cloud[a][j].parent = Dir)
               dead(j) == [cloud[a][j] EXCEPT !.ver = clock + 1, !.live = FALSE]
    <2>1. /\ clock' = clock + 1
          /\ cloud' = [cloud EXCEPT ![a] =
                [j \in Items |-> IF gone(j) THEN dead(j) ELSE cloud[a][j]]]
      BY <1>4 DEF CloudDelete
    <2>2. \A r \in CloudItem : [r EXCEPT !.ver = clock + 1, !.live = FALSE].ver = clock + 1
      BY DEF CloudItem
    <2>3. ASSUME NEW j \in Items PROVE dead(j).ver = clock + 1
      BY <2>2 DEF CloudTypes
    <2> HIDE DEF gone, dead
    <2> QED
      BY <2>1, <2>3 DEF CloudTypes
  <1> QED
    BY <1>2, <1>3, <1>4 DEF CloudStep

\* Time passes, and a cursor is put where an enumeration was opened.
LEMMA ClockedKept ==
  ASSUME CloudTypes, StoreTypes, ThreadTypes, Clocked, StageFaithful, [Next]_vars
  PROVE  Clocked'
  <1> USE EngineAssumption
  <1>1. /\ clock \in Nat
        /\ \A a \in Accounts : link[a] \in Nat /\ link[a] <= clock
        /\ \A a \in Accounts, i \in Items :
              cloud[a][i].ver \in Nat /\ cloud[a][i].ver <= clock
    BY DEF CloudTypes, CloudItem, StoreTypes, Versions, Clocked
  <1>2. CASE CloudStep
    <2>1. link' = link
      BY <1>2 DEF CloudStep, storeVars
    <2>2. \A a \in Accounts : link'[a] <= clock'
      BY <1>1, <1>2, <2>1, CloudMoves
    <2>3. \A a \in Accounts, i \in Items : cloud'[a][i].ver <= clock'
      BY <1>1, <1>2, CloudMoves
    <2> QED
      BY <2>2, <2>3 DEF Clocked
  <1>3. CASE ~CloudStep
    <2>1. UNCHANGED <<cloud, clock>>
      BY <1>3, CloudFrame DEF cloudVars
    <2>2. ASSUME RefreshCommit PROVE \A a \in Accounts : link'[a] <= clock
      <3>1. link' = [link EXCEPT ![refresh.acc] = refresh.upto]
        BY <2>2 DEF RefreshCommit
      <3>2. refresh.acc \in Accounts /\ refresh.upto <= clock
        BY <1>1, <2>2 DEF RefreshCommit, StageFaithful
      <3> QED
        BY <1>1, <3>1, <3>2 DEF StoreTypes
    <2>3. CASE ~RefreshCommit
      <3>1. link' = link
        BY <2>3, IndexFrame DEF RefreshBegin, RefreshPage, RefreshExpired
      <3> QED
        BY <2>1, <3>1 DEF Clocked
    <2> QED
      BY <1>1, <2>1, <2>2, <2>3 DEF Clocked
  <1> QED
    BY <1>2, <1>3

\* An enumeration opened now stages what it names, and what it leaves out
\* the index has already, or is gone.
LEMMA EnumerateFaithful ==
  ASSUME CloudTypes, StoreTypes, Clocked, NEW a \in Accounts, NEW since \in {0, link[a]},
         refresh \in RefreshThread, Enumerate(a, since), UNCHANGED <<cloudVars, link>>
  PROVE  StageFaithful'
  <1> USE EngineAssumption
  <1> DEFINE left == IF since = 0 THEN LiveItems(a) ELSE ChangedSince(a, since)
  <1>1. /\ refresh'.pc = "pages" /\ refresh'.acc = a /\ refresh'.replace = (since = 0)
        /\ refresh'.upto = clock /\ refresh'.left = left
    BY DEF Enumerate, RefreshThread
  <1>2. \A i \in Items : stage'[a][i] = None
    BY DEF Enumerate, Unlisted, StoreTypes
  <1>3. /\ link' = link /\ cloud' = cloud /\ clock' = clock /\ clock \in 1 .. clock
        /\ link[a] <= clock /\ link[a] \in Nat
    BY DEF cloudVars, Clocked, CloudTypes, StoreTypes, Versions
  <1>4. ASSUME NEW i \in Items \ left
        PROVE  IF since = 0 THEN ~cloud[a][i].live ELSE cloud[a][i].ver <= link[a]
    BY <1>3 DEF LiveItems, ChangedSince, CloudTypes, CloudItem, Versions
  <1>5. left \subseteq Items
    BY DEF LiveItems, ChangedSince
  <1> HIDE DEF left
  <1>6. (since = 0) \/ link[a] > 0
    BY <1>3
  <1> QED
    BY <1>1, <1>2, <1>3, <1>4, <1>5, <1>6 DEF StageFaithful

\* What lists an item is a row.
LEMMA AsIsRow ==
  ASSUME NEW now \in CloudItem
  PROVE  /\ AsIs(now) \in Row /\ AsIs(now) # None
         /\ now.live => AsIs(now) = [ver |-> now.ver, parent |-> now.parent, deleted |-> FALSE]
         /\ ~now.live => AsIs(now).deleted
  <1>1. AsIs(now) \in Row
    BY DEF AsIs, CloudItem, Row
  <1>2. now.live \in BOOLEAN
    BY DEF CloudItem
  <1>3. now.live => (~now.live) = FALSE
    BY <1>2
  <1>4. ~now.live => (~now.live) = TRUE
    BY <1>2
  <1>5. now.live => AsIs(now) = [ver |-> now.ver, parent |-> now.parent, deleted |-> FALSE]
    BY <1>3, Zenon DEF AsIs
  <1>6. ~now.live => AsIs(now) = [ver |-> now.ver, parent |-> now.parent, deleted |-> TRUE]
    BY <1>4, Zenon DEF AsIs
  <1> QED
    BY <1>1, <1>5, <1>6, EngineAssumption

\* An enumeration names an item as it is, and what changes while it is under
\* way has a version after its opening.
LEMMA StageFaithfulKept ==
  ASSUME CloudTypes, StoreTypes, ThreadTypes, Clocked, StageFaithful, [Next]_vars
  PROVE  StageFaithful'
  <1> USE EngineAssumption
  <1>1. /\ clock \in Nat
        /\ \A a \in Accounts : link[a] \in Nat /\ link[a] <= clock
        /\ \A a \in Accounts, i \in Items :
              cloud[a][i].ver \in Nat /\ cloud[a][i].ver <= clock
    BY DEF CloudTypes, CloudItem, StoreTypes, Versions, Clocked
  <1>2. CASE CloudStep
    <2>1. UNCHANGED <<refresh, stage, link>>
      BY <1>2 DEF CloudStep, storeVars
    <2>2. SUFFICES ASSUME refresh # None, refresh.pc = "pages"
                   PROVE  StageFaithful'
      BY <2>1 DEF StageFaithful
    <2>3. refresh.acc \in Accounts /\ refresh.upto \in 1 .. clock
      BY <2>2 DEF StageFaithful
    <2>4. refresh.upto \in 1 .. clock'
      BY <1>1, <1>2, <2>3, CloudMoves
    <2>5. ASSUME NEW i \in Items, cloud'[refresh.acc][i].ver <= refresh.upto
          PROVE  cloud'[refresh.acc][i] = cloud[refresh.acc][i]
      BY <1>1, <1>2, <2>3, <2>5, CloudMoves
    <2> QED
      BY <2>1, <2>2, <2>4, <2>5 DEF StageFaithful
  <1>3. CASE RefreshBegin \/ RefreshExpired
    <2>1. refresh \in RefreshThread /\ UNCHANGED <<cloudVars, link>>
      BY <1>3 DEF RefreshBegin, RefreshExpired, ThreadTypes
    <2>2. PICK a \in Accounts : \E since \in {0, link[a]} : Enumerate(a, since)
      BY <1>3 DEF RefreshBegin, RefreshExpired, MayAsk, StageFaithful
    <2> QED
      BY <2>1, <2>2, EnumerateFaithful
  <1>4. CASE RefreshPage
    <2> DEFINE a == refresh.acc
    <2>1. /\ refresh \in RefreshThread /\ refresh # None /\ refresh.pc = "pages"
          /\ a \in Accounts /\ UNCHANGED <<cloud, clock, link>>
      BY <1>4 DEF RefreshPage, ThreadTypes, StageFaithful, cloudVars
    <2>2. PICK i \in refresh.left :
             /\ stage' = IF refresh.replace /\ ~cloud[a][i].live THEN stage
                         ELSE [stage EXCEPT ![a][i] = AsIs(cloud[a][i])]
             /\ refresh' = [refresh EXCEPT !.left = @ \ {i}]
      BY <1>4 DEF RefreshPage, AsIs
    <2>3. /\ refresh'.pc = "pages" /\ refresh'.acc = a /\ refresh'.upto = refresh.upto
          /\ refresh'.replace = refresh.replace /\ refresh'.left = refresh.left \ {i}
          /\ i \in Items
      BY <2>1, <2>2 DEF RefreshThread
    <2>4. ASSUME NEW j \in Items, j # i PROVE stage'[a][j] = stage[a][j]
      BY <2>1, <2>2, <2>3, <2>4 DEF StoreTypes
    <2>5. IF stage'[a][i] # None THEN stage'[a][i] = AsIs(cloud[a][i])
          ELSE refresh.replace /\ ~cloud[a][i].live
      <3>1. AsIs(cloud[a][i]) # None
        <4>1. cloud[a][i] \in CloudItem
          BY <2>1, <2>3 DEF CloudTypes
        <4> QED
          BY <4>1, AsIsRow
      <3>2. stage[a][i] = None
        BY <2>1, <2>2 DEF StageFaithful
      <3>3. CASE refresh.replace /\ ~cloud[a][i].live
        BY <2>2, <3>2, <3>3
      <3>4. CASE stage' = [stage EXCEPT ![a][i] = AsIs(cloud[a][i])]
        BY <2>1, <2>3, <3>1, <3>4 DEF StoreTypes
      <3> QED
        BY <2>2, <3>3, <3>4
    <2>6. /\ refresh.upto \in 1 .. clock /\ link[a] <= refresh.upto
          /\ refresh.replace \/ link[a] > 0
          /\ \A j \in refresh.left : stage[a][j] = None
          /\ \A j \in Items \ refresh.left : cloud[a][j].ver <= refresh.upto =>
                IF stage[a][j] # None THEN stage[a][j] = AsIs(cloud[a][j])
                ELSE IF refresh.replace THEN ~cloud[a][j].live
                ELSE cloud[a][j].ver <= link[a]
      BY <2>1 DEF StageFaithful
    <2>7. refresh.left \subseteq Items
      BY <2>1 DEF RefreshThread
    <2> HIDE DEF a
    <2>8. \A j \in refresh'.left : stage'[a][j] = None
      BY <2>3, <2>4, <2>6, <2>7
    <2>9. ASSUME NEW j \in Items \ refresh'.left, cloud[a][j].ver <= refresh.upto
          PROVE  IF stage'[a][j] # None THEN stage'[a][j] = AsIs(cloud[a][j])
                 ELSE IF refresh.replace THEN ~cloud[a][j].live
                 ELSE cloud[a][j].ver <= link[a]
      <3>1. CASE j = i
        BY <2>5, <3>1
      <3>2. CASE j # i
        BY <2>3, <2>4, <2>6, <2>9, <3>2
      <3> QED
        BY <3>1, <3>2
    <2> QED
      BY <2>1, <2>3, <2>6, <2>8, <2>9 DEF StageFaithful
  <1>5. CASE RefreshIndex \/ RefreshFail \/ RefreshDone \/ RefreshCommit
    <2>1. refresh' = None \/ refresh'.pc # "pages"
      <3>1. CASE RefreshIndex
        BY <3>1 DEF RefreshIndex
      <3>2. CASE RefreshFail \/ RefreshDone \/ RefreshCommit
        <4>1. refresh' = None \/ (refresh \in RefreshThread /\ refresh' = [refresh EXCEPT !.pc = "done"])
          BY <3>2 DEF RefreshFail, RefreshDone, RefreshCommit, Reset, ThreadTypes
        <4> QED
          BY <4>1 DEF RefreshThread
      <3> QED
        BY <1>5, <3>1, <3>2
    <2> QED
      BY <2>1 DEF StageFaithful
  <1>6. CASE ~(CloudStep \/ RefreshIndex \/ Refreshing)
    <2>1. UNCHANGED <<cloud, clock, stage, link>>
      BY <1>6, CloudFrame, IndexFrame DEF cloudVars, Refreshing
    <2>2. refresh' \in {refresh, Cancelled(refresh), None}
      BY <1>6, RefreshFrame
    <2>3. SUFFICES ASSUME refresh' # None, refresh'.pc = "pages"
                   PROVE  StageFaithful'
      BY DEF StageFaithful
    <2>4. refresh # None /\ refresh \in RefreshThread
      BY <2>2, <2>3 DEF Cancelled, ThreadTypes
    <2>5. /\ refresh'.pc = refresh.pc /\ refresh'.acc = refresh.acc
          /\ refresh'.upto = refresh.upto /\ refresh'.replace = refresh.replace
          /\ refresh'.left = refresh.left
      BY <2>2, <2>3, <2>4 DEF Cancelled, RefreshThread
    <2> QED
      BY <2>1, <2>3, <2>4, <2>5 DEF StageFaithful
  <1> QED
    BY <1>2, <1>3, <1>4, <1>5, <1>6 DEF Refreshing

\* What an item's row is for a listing that is faithful: the item as it is, or,
\* when it is gone, none or a tombstone some listed row names as its parent.
Faithful(now, rows, i) ==
    IF now.live THEN rows[i] = [ver |-> now.ver, parent |-> now.parent, deleted |-> FALSE]
    ELSE rows[i] = None \/ (rows[i].deleted /\ \E j \in Items :
                               rows[j] # None /\ rows[j].parent = i)

\* Merging: an item staged as it is is listed so; one that is not staged, is
\* unchanged and was listed so stays, or is gone and not listed.
LEMMA MergeFaithful ==
  ASSUME NEW a \in Accounts, NEW replace \in BOOLEAN, NEW i \in Items,
         NEW now \in CloudItem,
         index[a] \in [Items -> Row \cup {None}], stage[a] \in [Items -> Row \cup {None}],
         IF stage[a][i] # None THEN stage[a][i] = AsIs(now)
         ELSE IF replace THEN ~now.live
         ELSE Faithful(now, index[a], i)
  PROVE  Faithful(now, Merge(a, replace), i)
  <1> USE EngineAssumption
  <1> DEFINE base == IF replace THEN Unlisted ELSE index[a]
             rows == [k \in Items |->
                        IF stage[a][k] = None THEN base[k]
                        ELSE IF ~stage[a][k].deleted THEN stage[a][k]
                        ELSE IF base[k] = None THEN None
                        ELSE [base[k] EXCEPT !.deleted = TRUE]]
             alive == {k \in Items : rows[k] # None /\ ~rows[k].deleted}
             kept == [k \in Items |-> IF rows[k] # None /\ rows[k].deleted
                                         /\ ~\E j \in alive : rows[j].parent = k
                                      THEN None ELSE rows[k]]
  <1>1. Merge(a, replace) = kept
    BY DEF Merge
  <1>2. rows[i] = IF stage[a][i] = None THEN base[i]
                  ELSE IF ~stage[a][i].deleted THEN stage[a][i]
                  ELSE IF base[i] = None THEN None
                  ELSE [base[i] EXCEPT !.deleted = TRUE]
    OBVIOUS
  <1>3. base[i] = IF replace THEN None ELSE index[a][i]
    BY DEF Unlisted
  <1>4. \A j \in alive : j \in Items /\ kept[j] = rows[j] /\ rows[j] # None
    OBVIOUS
  <1>5. kept[i] = IF rows[i] # None /\ rows[i].deleted /\ ~\E j \in alive : rows[j].parent = i
                  THEN None ELSE rows[i]
    OBVIOUS
  <1> HIDE DEF base, rows, alive, kept
  \* The row before tombstones are dropped.
  <1>6. IF now.live
        THEN rows[i] = [ver |-> now.ver, parent |-> now.parent, deleted |-> FALSE]
        ELSE rows[i] = None \/ rows[i].deleted
    <2>1. CASE stage[a][i] # None
      <3>1. stage[a][i] = AsIs(now)
        BY <2>1
      <3>2. CASE now.live
        <4>1. stage[a][i] = [ver |-> now.ver, parent |-> now.parent, deleted |-> FALSE]
          BY <3>1, <3>2, AsIsRow
        <4>2. ~stage[a][i].deleted
          BY <4>1
        <4> QED
          BY <1>2, <2>1, <3>2, <4>1, <4>2
      <3>3. CASE ~now.live
        <4>1. stage[a][i].deleted
          BY <3>1, <3>3, AsIsRow
        <4>2. rows[i] = None \/ (base[i] # None /\ rows[i] = [base[i] EXCEPT !.deleted = TRUE])
          BY <1>2, <2>1, <4>1
        <4>3. base[i] # None => base[i] \in Row
          BY <1>3
        <4>4. \A r \in Row : [r EXCEPT !.deleted = TRUE].deleted
          BY DEF Row
        <4> QED
          BY <3>3, <4>2, <4>3, <4>4
      <3> QED
        BY <3>2, <3>3
    <2>2. CASE stage[a][i] = None
      BY <1>2, <1>3, <2>2 DEF Faithful
    <2> QED
      BY <2>1, <2>2
  <1>7. CASE now.live
    <2>1. rows[i] = [ver |-> now.ver, parent |-> now.parent, deleted |-> FALSE]
      BY <1>6, <1>7
    <2>2. ~rows[i].deleted
      BY <2>1
    <2> QED
      BY <1>1, <1>5, <1>7, <2>1, <2>2 DEF Faithful
  <1>8. CASE ~now.live
    <2>1. kept[i] = None \/ \E j \in alive : rows[j].parent = i
      BY <1>5, <1>6, <1>8
    <2>2. kept[i] = None \/ (kept[i] = rows[i] /\ rows[i].deleted)
      BY <1>5, <1>6, <1>8
    <2> QED
      BY <1>1, <1>4, <1>8, <2>1, <2>2 DEF Faithful
  <1> QED
    BY <1>7, <1>8

\* The index is the cloud's up to its cursor, whatever changes while a refresh
\* is under way and whenever it is cut.
LEMMA IndexFaithfulKept ==
  ASSUME CloudTypes, StoreTypes, ThreadTypes, Clocked, StageFaithful, IndexFaithful,
         [Next]_vars
  PROVE  IndexFaithful'
  <1> USE EngineAssumption
  <1>0. IndexFaithful <=> \A a \in Accounts : \A i \in Items :
           link[a] > 0 /\ cloud[a][i].ver <= link[a] => Faithful(cloud[a][i], index[a], i)
    BY DEF IndexFaithful, Faithful
  <1>0a. IndexFaithful' <=> \A a \in Accounts : \A i \in Items :
           link'[a] > 0 /\ cloud'[a][i].ver <= link'[a] => Faithful(cloud'[a][i], index'[a], i)
    BY DEF IndexFaithful, Faithful
  <1>1. /\ clock \in Nat
        /\ \A a \in Accounts : link[a] \in Nat /\ link[a] <= clock
        /\ \A a \in Accounts, i \in Items :
              cloud[a][i].ver \in Nat /\ cloud[a][i].ver <= clock
    BY DEF CloudTypes, CloudItem, StoreTypes, Versions, Clocked
  <1>2. CASE ~RefreshCommit
    <2>1. UNCHANGED <<index, link>>
      BY <1>2, IndexFrame DEF RefreshBegin, RefreshPage, RefreshExpired
    <2>2. ASSUME NEW a \in Accounts, NEW i \in Items, cloud'[a][i].ver <= link[a]
          PROVE  cloud'[a][i] = cloud[a][i]
      <3>1. CASE CloudStep
        BY <1>1, <2>2, <3>1, CloudMoves
      <3>2. CASE ~CloudStep
        BY <3>2, CloudFrame DEF cloudVars
      <3> QED
        BY <3>1, <3>2
    <2> QED
      BY <1>0, <1>0a, <2>1, <2>2
  <1>3. CASE RefreshCommit
    <2> DEFINE a == refresh.acc
    <2>1. /\ refresh # None /\ refresh.pc = "pages" /\ refresh.left = {}
          /\ index' = [index EXCEPT ![a] = Merge(a, refresh.replace)]
          /\ link' = [link EXCEPT ![a] = refresh.upto]
          /\ UNCHANGED cloud
      BY <1>3 DEF RefreshCommit, cloudVars
    <2>2. a \in Accounts /\ refresh.replace \in BOOLEAN
      BY <2>1 DEF StageFaithful, ThreadTypes, RefreshThread
    <2>3. ASSUME NEW i \in Items, cloud[a][i].ver <= refresh.upto
          PROVE  Faithful(cloud[a][i], Merge(a, refresh.replace), i)
      <3>1. IF stage[a][i] # None THEN stage[a][i] = AsIs(cloud[a][i])
            ELSE IF refresh.replace THEN ~cloud[a][i].live
            ELSE cloud[a][i].ver <= link[a] /\ link[a] > 0
        BY <2>1, <2>3 DEF StageFaithful
      <3>2. IF stage[a][i] # None THEN stage[a][i] = AsIs(cloud[a][i])
            ELSE IF refresh.replace THEN ~cloud[a][i].live
            ELSE Faithful(cloud[a][i], index[a], i)
        BY <1>0, <2>2, <3>1
      <3>3. /\ index[a] \in [Items -> Row \cup {None}]
            /\ stage[a] \in [Items -> Row \cup {None}]
            /\ cloud[a][i] \in CloudItem
        BY <2>2 DEF StoreTypes, CloudTypes
      <3> QED
        BY <2>2, <3>2, <3>3, MergeFaithful
    <2>4. /\ index'[a] = Merge(a, refresh.replace) /\ link'[a] = refresh.upto
          /\ \A b \in Accounts \ {a} : index'[b] = index[b] /\ link'[b] = link[b]
      BY <2>1, <2>2 DEF StoreTypes
    <2> HIDE DEF a
    <2>5. ASSUME NEW b \in Accounts, NEW i \in Items,
                 link'[b] > 0 /\ cloud'[b][i].ver <= link'[b]
          PROVE  Faithful(cloud'[b][i], index'[b], i)
      <3>1. CASE b = a
        BY <2>1, <2>3, <2>4, <2>5, <3>1
      <3>2. CASE b # a
        BY <1>0, <2>1, <2>4, <2>5, <3>2
      <3> QED
        BY <3>1, <3>2
    <2> QED
      BY <1>0a, <2>5
  <1> QED
    BY <1>2, <1>3

---------------------------------------------------------------------------
(* Files. *)

\* A partial file that is full and whose version is the cloud's is whole.
LEMMA FullIsWhole ==
  ASSUME FileTypes, FilesFaithful, NEW a \in Accounts, NEW v \in Versions,
         cloud[a][File].ver <= v, Len(partial[a][v]) = Chunks
  PROVE  partial[a][v] = Whole(v)
  <1>1. partial[a][v] \in Seq(Versions)
    BY BytesFacts DEF FileTypes
  <1>2. partial[a][v] \in [1 .. Chunks -> Versions]
    BY <1>1, LenProperties
  <1>3. \A n \in 1 .. Chunks : partial[a][v][n] = v
    BY DEF FilesFaithful
  <1> QED
    BY <1>2, <1>3 DEF Whole

\* What is appended while the version is the cloud's is of that version; a
\* file is finished only when it is whole.
LEMMA FilesFaithfulKept ==
  ASSUME CloudTypes, FileTypes, ThreadTypes, Clocked, FilesFaithful, DownloadStep, [Next]_vars
  PROVE  FilesFaithful'
  <1> USE EngineAssumption
  <1> DEFINE Done(f, v) == f # None => f = Whole(v)
             Own(p, v) == \A n \in 1 .. Len(p) : p[n] = v
             empty == <<>>
  <1>1. /\ clock \in Nat
        /\ \A a \in Accounts, i \in Items :
              cloud[a][i].ver \in Nat /\ cloud[a][i].ver <= clock
        /\ File \in Items
    BY DEF CloudTypes, CloudItem, Versions, Clocked, Items
  <1>2. \A a \in Accounts, v \in Versions :
           Done(complete[a][v], v) /\ (cloud[a][File].ver <= v => Own(partial[a][v], v))
    BY DEF FilesFaithful
  <1>3. FilesFaithful' <=> \A a \in Accounts, v \in Versions :
           Done(complete'[a][v], v) /\ (cloud'[a][File].ver <= v => Own(partial'[a][v], v))
    BY DEF FilesFaithful
  <1>4. \A v : Own(empty, v)
    <2>1. Len(empty) = 0
      BY EmptySeq
    <2> QED
      BY <2>1
  <1> HIDE DEF Done, Own, empty
  <1>5. CASE ~(DownloadMeta \/ DownloadRead \/ DownloadPublish)
    <2>1. UNCHANGED <<partial, complete>>
      BY <1>5, FilesFrame
    <2>2. ASSUME NEW a \in Accounts, NEW v \in Versions, cloud'[a][File].ver <= v
          PROVE  cloud[a][File].ver <= v
      <3>1. CASE CloudStep
        <4>1. cloud'[a][File] = cloud[a][File] \/ cloud'[a][File].ver = clock + 1
          BY <1>1, <3>1, CloudMoves
        <4> QED
          BY <1>1, <2>2, <4>1 DEF Versions
      <3>2. CASE ~CloudStep
        BY <2>2, <3>2, CloudFrame DEF cloudVars
      <3> QED
        BY <3>1, <3>2
    <2> QED
      BY <1>2, <1>3, <2>1, <2>2
  <1>6. ASSUME DownloadMeta \/ DownloadRead \/ DownloadPublish
        PROVE  /\ cloud' = cloud /\ download \in DownloadThread
               /\ download.acc \in Accounts /\ download.ver \in Versions
    <2>1. cloud' = cloud /\ download \in DownloadThread
      BY <1>6 DEF DownloadMeta, DownloadRead, DownloadPublish, DownloadUnchanged, cloudVars,
         ThreadTypes
    <2> QED
      BY <2>1 DEF DownloadThread
  \* A step that changes one partial file, and one finished file.
  <1>7. ASSUME NEW a \in Accounts, NEW v \in Versions, NEW p, NEW f, cloud' = cloud,
               partial' = partial \/ partial' = [partial EXCEPT ![a][v] = p],
               complete' = complete \/ complete' = [complete EXCEPT ![a][v] = f],
               cloud[a][File].ver <= v => Own(p, v), Done(f, v)
        PROVE  FilesFaithful'
    <2>1. ASSUME NEW b \in Accounts, NEW w \in Versions
          PROVE  complete'[b][w] = complete[b][w] \/ (b = a /\ w = v /\ complete'[b][w] = f)
      BY <1>7 DEF FileTypes
    <2>2. ASSUME NEW b \in Accounts, NEW w \in Versions
          PROVE  partial'[b][w] = partial[b][w] \/ (b = a /\ w = v /\ partial'[b][w] = p)
      BY <1>7 DEF FileTypes
    <2>3. ASSUME NEW b \in Accounts, NEW w \in Versions PROVE Done(complete'[b][w], w)
      BY <1>2, <1>7, <2>1
    <2>4. ASSUME NEW b \in Accounts, NEW w \in Versions, cloud[b][File].ver <= w
          PROVE  Own(partial'[b][w], w)
      BY <1>2, <1>7, <2>2, <2>4
    <2> QED
      BY <1>3, <1>7, <2>3, <2>4
  <1>8. Done(None, download.ver)
    BY DEF Done
  <1>9. CASE DownloadMeta
    <2>1. /\ complete' = complete
          /\ \/ partial' = partial
             \/ partial' = [partial EXCEPT ![download.acc][download.ver] = empty]
      BY <1>9 DEF DownloadMeta, DownloadUnchanged, empty
    <2> QED
      BY <1>4, <1>6, <1>7, <1>8, <1>9, <2>1
  <1>10. CASE DownloadRead
    <2> DEFINE a == download.acc
               have == partial[a][download.ver]
    <2>1. PICK ver \in {download.ver, cloud[a][File].ver} :
             partial' = [partial EXCEPT ![a][download.ver] = Append(have, ver)]
      BY <1>10 DEF DownloadRead
    <2>2. complete' = complete /\ download # None /\ download.pc = "read"
      BY <1>10 DEF DownloadRead, DownloadUnchanged
    <2>3. a \in Accounts /\ download.ver \in Versions
      BY <1>6, <1>10
    <2>4. ASSUME cloud[a][File].ver <= download.ver
          PROVE  Own(Append(have, ver), download.ver)
      <3>1. download.ver <= cloud[a][File].ver
        BY <2>2 DEF DownloadStep
      <3>2. ver = download.ver
        BY <1>1, <2>1, <2>3, <2>4, <3>1 DEF Versions
      <3>3. have \in Seq(Versions) /\ Own(have, download.ver)
        BY <1>2, <2>3, <2>4, BytesFacts DEF FileTypes
      <3> HIDE DEF have, a
      <3>4. /\ Len(Append(have, ver)) = Len(have) + 1 /\ Len(have) \in Nat
            /\ \A n \in 1 .. Len(have) : Append(have, ver)[n] = have[n]
            /\ Append(have, ver)[Len(have) + 1] = ver
        BY <2>3, <3>2, <3>3, AppendProperties, LenProperties
      <3> QED
        BY <3>2, <3>3, <3>4 DEF Own
    <2> HIDE DEF a, have
    <2>5. a = download.acc
      BY DEF a
    <2> QED
      BY <1>6, <1>7, <1>8, <1>10, <2>1, <2>2, <2>3, <2>4
  <1>11. CASE DownloadPublish
    <2> DEFINE a == download.acc
               full == partial[a][download.ver]
    <2>1. /\ \/ partial' = partial
             \/ partial' = [partial EXCEPT ![a][download.ver] = empty]
          /\ \/ complete' = [complete EXCEPT ![a][download.ver] = full]
             \/ complete' = [complete EXCEPT ![a][download.ver] = None]
          /\ download # None /\ download.pc = "publish"
      BY <1>11 DEF DownloadPublish, empty
    <2>2. Done(full, download.ver)
      BY <2>1 DEF DownloadStep, Done
    <2> HIDE DEF full
    <2> QED
      BY <1>4, <1>6, <1>7, <1>8, <1>11, <2>1, <2>2
  <1> QED
    BY <1>5, <1>9, <1>10, <1>11

\* A download publishes only what it saw whole while the cloud had its version.
LEMMA DownloadStepKept ==
  ASSUME CloudTypes, FileTypes, ThreadTypes, Clocked, FilesFaithful, DownloadStep, [Next]_vars
  PROVE  DownloadStep'
  <1> USE EngineAssumption
  <1> DEFINE got == partial[download.acc][download.ver]
  <1>1. /\ clock \in Nat
        /\ \A a \in Accounts, i \in Items :
              cloud[a][i].ver \in Nat /\ cloud[a][i].ver <= clock
        /\ File \in Items
    BY DEF CloudTypes, CloudItem, Versions, Clocked, Items
  <1>2. \A d \in DownloadThread : d.acc \in Accounts /\ d.ver \in Versions /\ d.ver \in Nat
    BY DEF DownloadThread, Versions
  <1>3. \A d \in DownloadThread, pc \in {"read", "post", "publish", "failed", "done"} :
           /\ [d EXCEPT !.pc = pc].pc = pc /\ [d EXCEPT !.pc = pc].acc = d.acc
           /\ [d EXCEPT !.pc = pc].ver = d.ver
    BY DEF DownloadThread
  <1>4. ASSUME download' # None => download'.pc \in {"meta", "failed", "done"}
        PROVE  DownloadStep'
    BY <1>4 DEF DownloadStep
  <1>5. CASE ~(DownloadCloud \/ Downloading)
    <2>1. partial' = partial /\ download' \in {download, Cancelled(download), None}
      BY <1>5, FilesFrame, DownloadFrame DEF Downloading
    <2>2. SUFFICES ASSUME download' # None
                   PROVE  DownloadStep'
      BY DEF DownloadStep
    <2>3. download # None /\ download \in DownloadThread
      BY <2>1, <2>2 DEF Cancelled, ThreadTypes
    <2>4. download'.pc = download.pc /\ download'.acc = download.acc /\ download'.ver = download.ver
      BY <2>1, <2>2, <2>3 DEF Cancelled, DownloadThread
    <2>5. cloud[download.acc][File].ver <= cloud'[download.acc][File].ver
          /\ cloud'[download.acc][File].ver \in Nat
      <3>1. download.acc \in Accounts
        BY <1>2, <2>3
      <3>2. CASE CloudStep
        <4>1. \/ cloud'[download.acc][File] = cloud[download.acc][File]
              \/ cloud'[download.acc][File].ver = clock + 1
          BY <1>1, <3>1, <3>2, CloudMoves
        <4> QED
          BY <1>1, <3>1, <4>1
      <3>3. CASE ~CloudStep
        <4>1. cloud' = cloud
          BY <3>3, CloudFrame DEF cloudVars
        <4> QED
          BY <1>1, <3>1, <4>1
      <3> QED
        BY <3>2, <3>3
    <2>6. download.pc \in {"read", "post"} => download.ver <= cloud'[download.acc][File].ver
      BY <1>1, <1>2, <2>3, <2>5 DEF DownloadStep
    <2> QED
      BY <2>1, <2>2, <2>3, <2>4, <2>6 DEF DownloadStep
  <1>6. CASE DownloadCloud \/ DownloadRetry \/ DownloadFail \/ DownloadDone \/ DownloadPublish
    <2>1. CASE DownloadCloud
      BY <1>4, <2>1 DEF DownloadCloud
    <2>2. CASE DownloadRetry
      <3>1. download \in DownloadThread
        BY <2>2 DEF DownloadRetry, ThreadTypes
      <3>2. download'.pc = "meta"
        BY <2>2, <3>1 DEF DownloadRetry, DownloadThread
      <3> QED
        BY <1>4, <3>2
    <2>3. CASE DownloadFail \/ DownloadDone \/ DownloadPublish
      <3>1. download \in DownloadThread
        BY <2>3 DEF DownloadFail, DownloadDone, DownloadPublish, ThreadTypes
      <3>2. \/ download' = None \/ download' = [download EXCEPT !.pc = "failed"]
            \/ download' = [download EXCEPT !.pc = "done"]
        BY <2>3 DEF DownloadFail, DownloadDone, DownloadPublish, Reset
      <3> QED
        BY <1>3, <1>4, <3>1, <3>2
    <2> QED
      BY <1>6, <2>1, <2>2, <2>3
  <1>7. ASSUME DownloadMeta \/ DownloadRead \/ DownloadPost
        PROVE  /\ cloud' = cloud /\ download # None /\ download \in DownloadThread
               /\ download.acc \in Accounts /\ download.ver \in Versions
               /\ got \in Seq(Versions) /\ Len(got) \in 0 .. Chunks
    <2>1. cloud' = cloud /\ download # None /\ download \in DownloadThread
      BY <1>7 DEF DownloadMeta, DownloadRead, DownloadPost, DownloadUnchanged, cloudVars,
         ThreadTypes
    <2> QED
      BY <1>2, <2>1, BytesFacts DEF FileTypes
  <1>8. CASE DownloadMeta
    <2>1. cloud[download.acc][File].ver = download.ver
      BY <1>8 DEF DownloadMeta, Unchanged
    <2>2. CASE Len(got) = Chunks
      <3>1. partial' = partial /\ download' = [download EXCEPT !.pc = "publish"]
        BY <1>8, <2>2 DEF DownloadMeta
      <3>2. got = Whole(download.ver)
        BY <1>2, <1>7, <1>8, <2>1, <2>2, FullIsWhole
      <3>3. /\ download'.pc = "publish" /\ download'.acc = download.acc
            /\ download'.ver = download.ver
        BY <1>3, <1>7, <1>8, <3>1
      <3>4. partial'[download'.acc][download'.ver] = Whole(download'.ver)
        BY <3>1, <3>2, <3>3
      <3> QED
        BY <3>3, <3>4 DEF DownloadStep
    <2>3. CASE Len(got) # Chunks
      <3> DEFINE empty == <<>>
      <3>1. /\ download' = [download EXCEPT !.pc = "read"]
            /\ \/ partial' = partial
               \/ partial' = [partial EXCEPT ![download.acc][download.ver] = empty]
        BY <1>8, <2>3 DEF DownloadMeta
      <3>2. Len(empty) = 0
        BY EmptySeq
      <3> HIDE DEF empty
      <3>3. Len(got) < Chunks /\ Len(empty) < Chunks
        BY <1>7, <1>8, <2>3, <3>2
      <3>4. /\ download'.pc = "read" /\ download'.acc = download.acc
            /\ download'.ver = download.ver
        BY <1>3, <1>7, <1>8, <3>1
      <3>5. Len(partial'[download.acc][download.ver]) < Chunks
        BY <1>7, <1>8, <3>1, <3>3 DEF FileTypes
      <3>6. download.ver <= cloud[download.acc][File].ver
        BY <1>2, <1>7, <1>8, <2>1
      <3> QED
        BY <1>7, <1>8, <3>4, <3>5, <3>6 DEF DownloadStep
    <2> QED
      BY <2>2, <2>3
  <1>9. CASE DownloadRead
    <2>1. PICK ver \in {download.ver, cloud[download.acc][File].ver} :
             /\ partial' = [partial EXCEPT ![download.acc][download.ver] = Append(got, ver)]
             /\ download' = [download EXCEPT
                    !.pc = IF Len(got) + 1 = Chunks THEN "post" ELSE "read"]
      BY <1>9 DEF DownloadRead
    <2>2. download.pc = "read" /\ Len(got) < Chunks
          /\ download.ver <= cloud[download.acc][File].ver
      BY <1>7, <1>9 DEF DownloadRead, DownloadStep
    <2>3. ver \in Versions
      BY <1>1, <1>7, <1>9, <2>1 DEF CloudTypes, CloudItem
    <2>4. Len(Append(got, ver)) = Len(got) + 1
      BY <1>7, <1>9, <2>3, AppendProperties
    <2>5. partial'[download.acc][download.ver] = Append(got, ver)
      BY <1>7, <1>9, <2>1 DEF FileTypes
    <2>6. /\ download'.acc = download.acc /\ download'.ver = download.ver
          /\ download'.pc = IF Len(got) + 1 = Chunks THEN "post" ELSE "read"
      BY <1>3, <1>7, <1>9, <2>1
    <2> HIDE DEF got
    <2>7. /\ download'.pc = "read" => Len(got) + 1 < Chunks
          /\ download'.pc = "post" => Len(got) + 1 = Chunks
          /\ download'.pc # "publish"
      BY <1>7, <1>9, <2>2, <2>6
    <2> QED
      BY <1>7, <1>9, <2>2, <2>4, <2>5, <2>6, <2>7 DEF DownloadStep
  <1>10. CASE DownloadPost
    <2>1. /\ partial' = partial /\ download' = [download EXCEPT !.pc = "publish"]
          /\ cloud[download.acc][File].ver = download.ver /\ Len(got) = Chunks
      BY <1>7, <1>10 DEF DownloadPost, DownloadStep, Unchanged
    <2>2. got = Whole(download.ver)
      BY <1>2, <1>7, <1>10, <2>1, FullIsWhole
    <2>3. /\ download'.pc = "publish" /\ download'.acc = download.acc
          /\ download'.ver = download.ver
      BY <1>3, <1>7, <1>10, <2>1
    <2>4. partial'[download'.acc][download'.ver] = Whole(download'.ver)
      BY <2>1, <2>2, <2>3
    <2> QED
      BY <2>3, <2>4 DEF DownloadStep
  <1> QED
    BY <1>5, <1>6, <1>8, <1>9, <1>10 DEF Downloading

---------------------------------------------------------------------------

\* What the index, its stage, the files and the threads say of the cloud holds
\* together at every moment (cloud_commit, download_onedrive, restart).
THEOREM StoreInvariance == Spec => []StoreInv
  <1> USE EngineAssumption
  <1>1. Init => StoreInv
    <2> SUFFICES ASSUME Init PROVE StoreInv
      OBVIOUS
    <2>1. CloudTypes
      BY DEF Init, CloudTypes, CloudItem, Versions, Items
    <2>2. StoreTypes
      BY DEF Init, StoreTypes, Unlisted
    <2>3. FileTypes
      <3> DEFINE empty == <<>>
      <3>1. partial = [a \in Accounts |-> [v \in Versions |-> empty]] /\ empty \in Bytes
        BY BytesFacts DEF Init
      <3> HIDE DEF empty
      <3>2. partial \in [Accounts -> [Versions -> Bytes]]
        BY <3>1
      <3> QED
        BY <3>2 DEF Init, FileTypes
    <2>4. SessionTypes
      <3>1. /\ graphs \in [Epochs -> Accounts \cup {None, "cleared"}]
            /\ holder \in [Epochs -> Threads \cup {None}]
        BY DEF Init
      <3>2. epoch \in Epochs
        BY DEF Init, Epochs
      <3> QED
        BY <3>1, <3>2 DEF Init, SessionTypes
    <2>5. ThreadTypes /\ BrowseTypes
      BY DEF Init, ThreadTypes, BrowseTypes
    <2>6. Clocked
      BY DEF Init, Clocked
    <2>7. StageFaithful /\ IndexFaithful /\ DownloadStep
      BY DEF Init, StageFaithful, IndexFaithful, DownloadStep
    <2>8. FilesFaithful
      <3>1. ASSUME NEW a \in Accounts, NEW v \in Versions
            PROVE  complete[a][v] = None /\ partial[a][v] = <<>>
        BY DEF Init
      <3>2. ASSUME NEW a \in Accounts, NEW v \in Versions PROVE Len(partial[a][v]) = 0
        BY <3>1, EmptySeq
      <3> QED
        BY <3>1, <3>2 DEF FilesFaithful
    <2> QED
      BY <2>1, <2>2, <2>3, <2>4, <2>5, <2>6, <2>7, <2>8 DEF StoreInv, TypeOK
  <1>2. IInv /\ StoreInv /\ [Next]_vars => StoreInv'
    <2> SUFFICES ASSUME IInv, StoreInv, [Next]_vars PROVE StoreInv'
      OBVIOUS
    <2>1. /\ CloudTypes /\ StoreTypes /\ FileTypes /\ SessionTypes /\ ThreadTypes
          /\ BrowseTypes /\ Clocked /\ StageFaithful /\ IndexFaithful /\ FilesFaithful
          /\ DownloadStep
      BY DEF StoreInv, TypeOK
    <2>2. TypeOK'
      BY <2>1, CloudTypesKept, StoreTypesKept, FileTypesKept, SessionTypesKept,
         ThreadTypesKept, BrowseTypesKept DEF TypeOK
    <2> QED
      BY <2>1, <2>2, ClockedKept, StageFaithfulKept, IndexFaithfulKept, FilesFaithfulKept,
         DownloadStepKept DEF StoreInv
  <1> QED
    BY <1>1, <1>2, Invariance, PTL DEF Spec

\* The engine's state keeps its types, for any accounts, any size of the file
\* and any bounds.
THEOREM TypeCorrect == Spec => []TypeOK
  <1>1. StoreInv => TypeOK
    BY DEF StoreInv
  <1> QED
    BY <1>1, StoreInvariance, PTL

\* Whatever changes in the cloud while pages are read, and whenever a refresh
\* is cancelled, starts over or is cut by a restart, the rows the index holds
\* are the cloud's for every change up to the cursor (cloud_commit).
THEOREM IndexIsFaithful == Spec => []IndexFaithful
  <1>1. StoreInv => IndexFaithful
    BY DEF StoreInv
  <1> QED
    BY <1>1, StoreInvariance, PTL

\* A file the engine offers as cached has every byte, and each is of the
\* version the index shows: resuming a partial file, a change of the file under
\* way and a death of the process while publishing never mix two versions.
THEOREM CachedIsWhole == Spec => []CachedBytes
  <1>1. StoreInv => CachedBytes
    <2> SUFFICES ASSUME StoreInv, NEW a \in Accounts, ValidCache(a)
                 PROVE  complete[a][task[a].ver] = Whole(task[a].ver)
      BY DEF CachedBytes, Whole
    <2>1. /\ index[a][File] # None /\ task[a].ver = index[a][File].ver
          /\ complete[a][task[a].ver] # None
      BY DEF ValidCache
    <2>2. index[a][File] \in Row
      BY <2>1 DEF StoreInv, TypeOK, StoreTypes, Items
    <2>3. task[a].ver \in Versions
      BY <2>1, <2>2 DEF Row
    <2> QED
      BY <2>1, <2>3 DEF StoreInv, FilesFaithful
  <1> QED
    BY <1>1, StoreInvariance, PTL
=============================================================================
