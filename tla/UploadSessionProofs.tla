----------------------- MODULE UploadSessionProofs -----------------------
(***************************************************************************)
(* For any number of fragments, any processes and any budgets: what is     *)
(* recorded as uploaded is on the drive, and a session is given up only    *)
(* when the drive has given it up.                                         *)
(***************************************************************************)
EXTENDS UploadSession, SequenceTheorems, TLAPS

Session == [etag : Nat, stamp : Nat, got : Seq(Nat), open : BOOLEAN]
Entry == [url : Nat, stamp : Nat, etag : Nat]
Timed == {"ask", "forget", "create", "save", "send", "query", "range", "done", "commit"}
Upload == [pc : {"idle", "stat"} \cup Timed, made : [Parts -> Nat], etag : Nat, stamp : Nat, url : Nat,
           offset : Nat, chunk : Nat, attempt : Nat, stalled : Nat, rev : Nat]

Types ==
    /\ source \in [Parts -> Nat] /\ clock \in Nat /\ stamp \in Nat /\ tied \in BOOLEAN
    /\ row \in [etag : Nat, settled : BOOLEAN]
    /\ drive.rev \in Nat /\ drive.stamp \in Nat
    /\ sessions \in Seq(Session)
    /\ disk \in Entry \cup {None} /\ memory \in [Procs -> Entry \cup {None}]
    /\ run \in [Procs -> Upload]

\* The same bytes, unless two versions have the same second.
Same(time) == ~tied /\ time = stamp

\* The number of a write is not used again.
Numbered ==
    /\ \A i \in Parts : source[i] <= clock
    /\ \A p \in Procs, i \in Parts : run[p].made[i] <= clock

\* A session holds a beginning of the source it was made for, and replaces a
\* version that is not newer than that source.
SessionOK(s) ==
    /\ Len(s.got) < Fragments /\ s.stamp <= stamp /\ s.etag <= drive.rev
    /\ s.etag = drive.rev => drive.stamp <= s.stamp
    /\ Same(s.stamp) => \A i \in 1 .. Len(s.got) : s.got[i] = source[i]
SessionsOK == \A u \in 1 .. Len(sessions) : SessionOK(sessions[u])

\* An entry names a session and says what it was made for.
EntryOK(e) ==
    e # None => e.url \in 1 .. Len(sessions) /\ sessions[e.url].stamp = e.stamp
EntriesOK == EntryOK(disk) /\ \A p \in Procs : EntryOK(memory[p])

\* A run knows the second of the source it began with, and works on a session
\* for it; the fragment it sends comes from the place where it says it does.
Sending == {"send", "query", "range"}
RunOK(p) ==
    LET r == run[p]
    IN  /\ r.etag <= drive.rev
        /\ r.pc \in Timed => /\ r.stamp <= stamp
                             /\ r.etag = drive.rev => drive.stamp <= r.stamp
                             /\ r.made = source => r.stamp = stamp
        /\ r.pc \in {"ask", "save"} \cup Sending =>
              r.url \in 1 .. Len(sessions) /\ sessions[r.url].stamp = r.stamp
        /\ r.pc \in Sending => r.offset < Fragments
        /\ r.pc \in Sending /\ Same(r.stamp) => r.chunk = source[r.offset + 1]
        /\ r.pc \in {"done", "commit"} => r.stamp <= drive.stamp /\ r.rev <= drive.rev
RunsOK == \A p \in Procs : RunOK(p)

\* The item was made of the source as it was in some second.
DriveOK ==
    /\ row.etag <= drive.rev /\ drive.stamp <= stamp
    /\ Same(drive.stamp) => drive.content = source
    /\ row.settled => drive.stamp = stamp

IInv == Types /\ Numbered /\ SessionsOK /\ EntriesOK /\ RunsOK /\ DriveOK

\* A run that asks for its session's state found it in memory; one that forgets
\* a session for these bytes knows that it is closed.
Remembered ==
    /\ \A p \in Procs : At(p, "ask") => memory[p] # None /\ memory[p].url = run[p].url
    /\ \A p \in Procs : At(p, "forget") /\ Matches(memory[p], run[p].stamp, run[p].etag)
          => ~sessions[memory[p].url].open

---------------------------------------------------------------------------
(* What every step of a run keeps.                                         *)

\* The numbers of a run.
LEMMA UploadFields ==
  ASSUME NEW r \in Upload
  PROVE  /\ r.etag \in Nat /\ r.stamp \in Nat /\ r.url \in Nat /\ r.offset \in Nat
         /\ r.chunk \in Nat /\ r.attempt \in Nat /\ r.stalled \in Nat /\ r.rev \in Nat
         /\ r.made \in [Parts -> Nat] /\ r.pc \in {"idle", "stat"} \cup Timed
  BY DEF Upload

LEMMA IdleOK == Idle \in Upload /\ \A i \in Parts : Idle.made[i] = 0
  <1> DEFINE none == [i \in Parts |-> 0]
  <1>1. none \in [Parts -> Nat] /\ \A i \in Parts : none[i] = 0
    OBVIOUS
  <1>2. Idle = [pc |-> "idle", made |-> none, etag |-> 0, stamp |-> 0, url |-> 0,
                offset |-> 0, chunk |-> 0, attempt |-> 0, stalled |-> 0, rev |-> 0]
    BY DEF Idle
  <1> HIDE DEF none
  <1>3. Idle \in Upload /\ Idle.made = none
    BY <1>1, <1>2 DEF Upload
  <1> QED
    BY <1>1, <1>3

Untouched == UNCHANGED <<source, clock, stamp, tied>>

\* The item stays, or is replaced by a later one.
LaterDrive == \/ drive' = drive
              \/ drive'.rev = drive.rev + 1 /\ drive'.stamp \in Nat /\ drive.stamp <= drive'.stamp

\* Sessions stay in their places and keep what they were made for.
KeptSessions ==
    /\ sessions' \in Seq(Session) /\ Len(sessions) <= Len(sessions')
    /\ \A u \in 1 .. Len(sessions) : sessions'[u].stamp = sessions[u].stamp

\* A step of one run leaves the others as they should be.
LEMMA OthersKept ==
  ASSUME IInv, NEW p \in Procs, NEW r \in Upload, run' = [run EXCEPT ![p] = r],
         Untouched, LaterDrive, KeptSessions, \A i \in Parts : r.made[i] <= clock, RunOK(p)'
  PROVE  run' \in [Procs -> Upload] /\ Numbered' /\ RunsOK'
  <1>1. /\ run' \in [Procs -> Upload] /\ run'[p] = r
        /\ \A q \in Procs \ {p} : run'[q] = run[q]
    BY DEF IInv, Types
  <1>2. Numbered'
    BY <1>1 DEF IInv, Numbered, Untouched
  <1>3. ASSUME NEW q \in Procs \ {p}
        PROVE  RunOK(q)'
    <2>1. RunOK(q) /\ run'[q] = run[q] /\ run[q] \in Upload
      BY <1>1 DEF IInv, RunsOK, Types
    <2>2. /\ drive.rev <= drive'.rev /\ drive.stamp <= drive'.stamp
          /\ drive' # drive => drive.rev < drive'.rev
      BY DEF IInv, Types, LaterDrive
    <2>3. Len(sessions) \in Nat /\ Len(sessions') \in Nat
      BY LenProperties DEF IInv, Types, KeptSessions
    <2>4. drive.rev \in Nat /\ drive'.rev \in Nat /\ drive.stamp \in Nat /\ drive'.stamp \in Nat
      BY DEF IInv, Types, LaterDrive
    <2>0. PICK x \in Upload : x = run[q]
      BY <2>1
    <2>x. /\ x.etag \in Nat /\ x.stamp \in Nat /\ x.url \in Nat /\ x.offset \in Nat
          /\ x.rev \in Nat
      BY UploadFields
    <2>5. /\ x.etag <= drive'.rev
          /\ x.pc \in Timed => /\ x.stamp <= stamp
                               /\ x.etag = drive'.rev => drive'.stamp <= x.stamp
                               /\ x.made = source => x.stamp = stamp
      BY <2>0, <2>x, <2>1, <2>2, <2>4 DEF RunOK
    <2>6. /\ x.pc \in {"ask", "save"} \cup Sending =>
                x.url \in 1 .. Len(sessions') /\ sessions'[x.url].stamp = x.stamp
      BY <2>0, <2>x, <2>1, <2>3 DEF RunOK, KeptSessions
    <2>7. /\ x.pc \in Sending => x.offset < Fragments
          /\ x.pc \in Sending /\ Same(x.stamp) => x.chunk = source[x.offset + 1]
          /\ x.pc \in {"done", "commit"} => x.stamp <= drive'.stamp /\ x.rev <= drive'.rev
      BY <2>0, <2>x, <2>1, <2>2, <2>4 DEF RunOK
    <2>8. Same(x.stamp)' <=> Same(x.stamp)
      BY <2>1 DEF Same, Untouched
    <2> QED
      BY <2>0, <2>1, <2>5, <2>6, <2>7, <2>8 DEF RunOK, Untouched
  <1> QED
    BY <1>1, <1>2, <1>3 DEF RunsOK

\* The entries still name their sessions.
LEMMA EntriesKept ==
  ASSUME IInv, KeptSessions, NEW e \in Entry \cup {None}, EntryOK(e)
  PROVE  EntryOK(e)'
  <1>1. Len(sessions) \in Nat /\ Len(sessions') \in Nat
    BY LenProperties DEF IInv, Types, KeptSessions
  <1> QED
    BY <1>1 DEF EntryOK, KeptSessions, Entry

\* A session is still what it should be once the item is replaced.
LEMMA SessionKept ==
  ASSUME IInv, Untouched, LaterDrive, NEW s \in Session, SessionOK(s)
  PROVE  SessionOK(s)'
  <1>1. /\ drive.rev <= drive'.rev /\ (drive' # drive => drive.rev < drive'.rev)
        /\ drive.rev \in Nat /\ drive'.rev \in Nat
    BY DEF IInv, Types, LaterDrive
  <1> QED
    BY <1>1 DEF SessionOK, Untouched, Same, Session

\* A step of a run that leaves the drive alone.
LEMMA LocalStep ==
  ASSUME IInv, NEW p \in Procs, NEW r \in Upload, run' = [run EXCEPT ![p] = r],
         UNCHANGED <<local, row, drive, sessions>>,
         disk' \in Entry \cup {None}, memory' \in [Procs -> Entry \cup {None}],
         EntriesOK', \A i \in Parts : r.made[i] <= clock, RunOK(p)'
  PROVE  IInv'
  <1>1. Untouched /\ LaterDrive /\ KeptSessions
    BY DEF Untouched, local, LaterDrive, KeptSessions, IInv, Types
  <1>2. run' \in [Procs -> Upload] /\ Numbered' /\ RunsOK'
    BY <1>1, OthersKept
  <1>3. Types'
    BY <1>2 DEF IInv, Types, local
  <1>4. SessionsOK'
    BY DEF IInv, SessionsOK, SessionOK, Same, local
  <1>5. DriveOK'
    BY DEF IInv, DriveOK, Same, local
  <1> QED
    BY <1>2, <1>3, <1>4, <1>5 DEF IInv

\* A step of the run of p ends as it should.
RunStep(p) == \E r \in Upload : /\ run' = [run EXCEPT ![p] = r]
                                /\ \A i \in Parts : r.made[i] <= clock
                                /\ RunOK(p)'

\* A failed run is idle.
LEMMA FailOK ==
  ASSUME IInv, NEW p \in Procs, Fail(p), LaterDrive
  PROVE  RunStep(p)
  <1>1. run' = [run EXCEPT ![p] = Idle]
    BY DEF Fail, Goto
  <1>2. run'[p] = Idle
    BY <1>1 DEF IInv, Types
  <1>3. drive'.rev \in Nat
    BY DEF LaterDrive, IInv, Types
  <1>4. RunOK(p)'
    BY <1>2, <1>3 DEF RunOK, Idle, Timed, Sending
  <1>5. \A i \in Parts : Idle.made[i] <= clock
    BY IdleOK DEF IInv, Types
  <1> QED
    BY <1>1, <1>4, <1>5, IdleOK DEF RunStep

---------------------------------------------------------------------------
(* The steps of a run.                                                     *)

\* A run that knows its session reads a fragment.
LEMMA FragmentOK ==
  ASSUME IInv, NEW p \in Procs, NEW offset \in Nat, NEW stalled \in Nat,
         offset < Fragments, Fragment(p, offset, stalled), Untouched, LaterDrive,
         run[p].pc \in {"ask", "save"} \cup Sending,
         run[p].url \in 1 .. Len(sessions), KeptSessions
  PROVE  RunStep(p)
  <1> DEFINE r == [run[p] EXCEPT !.pc = "send", !.offset = offset, !.stalled = stalled,
                                 !.chunk = source[offset + 1], !.attempt = 1]
  <1> USE UploadSessionAssumption
  <1>1. PICK x \in Upload : x = run[p]
    BY DEF IInv, Types
  <1>2. source[offset + 1] \in Nat
    BY DEF IInv, Types, Parts
  <1>3. r \in Upload
    BY <1>1, <1>2 DEF Upload, Timed
  <1>4. /\ r.pc = "send" /\ r.offset = offset /\ r.chunk = source[offset + 1]
        /\ r.etag = x.etag /\ r.stamp = x.stamp /\ r.url = x.url /\ r.made = x.made
    BY <1>1 DEF Upload
  <1>5. run' = [run EXCEPT ![p] = r] /\ run'[p] = r
    BY DEF Fragment, Goto, IInv, Types
  <1> HIDE DEF r
  <1>6. RunOK(p) /\ x.pc \in Timed /\ x.pc \in {"ask", "save"} \cup Sending
    BY <1>1 DEF IInv, RunsOK, Timed, Sending
  <1>7. /\ drive.rev <= drive'.rev /\ drive.stamp <= drive'.stamp
        /\ drive' # drive => drive.rev < drive'.rev
        /\ drive.rev \in Nat /\ drive'.rev \in Nat /\ drive.stamp \in Nat /\ drive'.stamp \in Nat
    BY DEF IInv, Types, LaterDrive
  <1>8. Len(sessions) \in Nat /\ Len(sessions') \in Nat /\ x.etag \in Nat /\ x.url \in Nat
    BY LenProperties, UploadFields DEF IInv, Types, KeptSessions
  <1>9. /\ r.etag <= drive'.rev /\ r.stamp <= stamp'
        /\ r.etag = drive'.rev => drive'.stamp <= r.stamp
        /\ r.made = source' => r.stamp = stamp'
    <2>1. /\ x.etag <= drive.rev /\ x.stamp <= stamp
          /\ x.etag = drive.rev => drive.stamp <= x.stamp
          /\ x.made = source => x.stamp = stamp
      BY <1>1, <1>6 DEF RunOK
    <2>2. x.etag <= drive'.rev /\ (x.etag = drive'.rev => drive'.stamp <= x.stamp)
      BY <1>7, <1>8, <2>1
    <2> QED
      BY <1>4, <2>1, <2>2 DEF Untouched
  <1>10. r.url \in 1 .. Len(sessions') /\ sessions'[r.url].stamp = r.stamp
    BY <1>1, <1>4, <1>6, <1>8 DEF RunOK, KeptSessions
  <1>11. RunOK(p)'
    BY <1>4, <1>5, <1>9, <1>10 DEF RunOK, Untouched, Timed, Sending
  <1>12. \A i \in Parts : r.made[i] <= clock
    BY <1>1, <1>4 DEF IInv, Numbered
  <1> QED
    BY <1>3, <1>5, <1>11, <1>12 DEF RunStep

\* The entries when nothing but the run changes.
LEMMA StoreKept ==
  ASSUME IInv, UNCHANGED <<sessions, store>>
  PROVE  disk' \in Entry \cup {None} /\ memory' \in [Procs -> Entry \cup {None}] /\ EntriesOK'
  BY DEF IInv, Types, store, EntriesOK, EntryOK

\* A run goes on elsewhere, with the fields it has.
LEMMA GoOK ==
  ASSUME IInv, NEW p \in Procs, NEW pc \in Timed, Go(p, pc), Untouched, drive' = drive,
         KeptSessions, run[p].pc \in Timed,
         pc \in {"ask", "save"} \cup Sending => run[p].pc \in {"ask", "save"} \cup Sending,
         pc \in Sending => run[p].pc \in Sending,
         pc \in {"done", "commit"} => run[p].pc \in {"done", "commit"}
  PROVE  RunStep(p)
  <1> DEFINE r == [run[p] EXCEPT !.pc = pc]
  <1>1. PICK x \in Upload : x = run[p]
    BY DEF IInv, Types
  <1>2. r \in Upload
    BY <1>1 DEF Upload
  <1>3. /\ r.pc = pc /\ r.etag = x.etag /\ r.stamp = x.stamp /\ r.url = x.url
        /\ r.made = x.made /\ r.offset = x.offset /\ r.chunk = x.chunk /\ r.rev = x.rev
    BY <1>1 DEF Upload
  <1>4. run' = [run EXCEPT ![p] = r] /\ run'[p] = r
    BY DEF Go, IInv, Types
  <1> HIDE DEF r
  <1>5. RunOK(p) /\ x.url \in Nat /\ Len(sessions) \in Nat /\ Len(sessions') \in Nat
    BY UploadFields, LenProperties DEF IInv, Types, RunsOK, KeptSessions
  <1>6. pc \in {"ask", "save"} \cup Sending =>
           r.url \in 1 .. Len(sessions') /\ sessions'[r.url].stamp = r.stamp
    BY <1>1, <1>3, <1>5 DEF RunOK, KeptSessions
  <1>7. RunOK(p)'
    BY <1>1, <1>3, <1>4, <1>5, <1>6 DEF RunOK, Untouched, Same
  <1>8. \A i \in Parts : r.made[i] <= clock
    BY <1>1, <1>3 DEF IInv, Numbered
  <1> QED
    BY <1>2, <1>4, <1>7, <1>8 DEF RunStep

\* A run advances, or fails.
LEMMA AdvanceOK ==
  ASSUME IInv, NEW p \in Procs, NEW next \in Nat, next < Fragments, Advance(p, next),
         Untouched, drive' = drive, KeptSessions, run[p].pc \in Sending
  PROVE  RunStep(p)
  <1>1. LaterDrive
    BY DEF LaterDrive
  <1>2. run[p].url \in 1 .. Len(sessions) /\ run[p].offset < Fragments
    BY DEF IInv, RunsOK, RunOK
  <1>3. run[p].offset \in Nat /\ run[p].stalled \in Nat /\ run[p].stalled + 1 \in Nat
    BY UploadFields DEF IInv, Types
  <1>4. CASE Fail(p)
    BY <1>1, <1>4, FailOK
  <1>5. CASE Fragment(p, run[p].offset, run[p].stalled + 1)
    BY <1>1, <1>2, <1>3, <1>5, FragmentOK
  <1>6. CASE Fragment(p, next, 0)
    BY <1>1, <1>2, <1>6, FragmentOK
  <1> QED
    BY <1>4, <1>5, <1>6 DEF Advance

\* A fragment is sent again, or its run fails.
LEMMA AgainOK ==
  ASSUME IInv, NEW p \in Procs, Again(p), Untouched, drive' = drive, KeptSessions,
         run[p].pc \in Sending
  PROVE  RunStep(p)
  <1>1. CASE Fail(p)
    BY <1>1, FailOK DEF LaterDrive
  <1>2. CASE run' = [run EXCEPT ![p] = [run[p] EXCEPT !.pc = "send", !.attempt = @ + 1]]
    <2>1. PICK x \in Upload : x = run[p]
      BY DEF IInv, Types
    <2> DEFINE r == [x EXCEPT !.pc = "send", !.attempt = x.attempt + 1]
    <2>0. run' = [run EXCEPT ![p] = r]
      BY <1>2, <2>1
    <2>9. x.attempt + 1 \in Nat
      BY UploadFields
    <2>2. r \in Upload
      BY <2>1, <2>9 DEF Upload, Timed
    <2>3. /\ r.pc = "send" /\ r.etag = x.etag /\ r.stamp = x.stamp /\ r.url = x.url
          /\ r.made = x.made /\ r.offset = x.offset /\ r.chunk = x.chunk
      BY <2>1 DEF Upload
    <2>4. run'[p] = r
      BY <2>0 DEF IInv, Types
    <2> HIDE DEF r
    <2>5. RunOK(p) /\ x.url \in Nat /\ Len(sessions) \in Nat /\ Len(sessions') \in Nat
      BY <2>1, UploadFields, LenProperties DEF IInv, Types, RunsOK, KeptSessions
    <2>6. r.url \in 1 .. Len(sessions') /\ sessions'[r.url].stamp = r.stamp
      BY <2>1, <2>3, <2>5 DEF RunOK, KeptSessions
    <2>7. RunOK(p)'
      BY <2>1, <2>3, <2>4, <2>5, <2>6 DEF RunOK, Untouched, Same, Sending, Timed
    <2>8. \A i \in Parts : r.made[i] <= clock
      BY <2>1, <2>3 DEF IInv, Numbered
    <2> QED
      BY <2>0, <2>2, <2>7, <2>8 DEF RunStep
  <1> QED
    BY <1>1, <1>2 DEF Again, Goto

---------------------------------------------------------------------------
(* The actions of a run.                                                   *)

\* A step of a run that changes neither sessions nor the drive.
LEMMA QuietStep ==
  ASSUME IInv, NEW p \in Procs, RunStep(p), UNCHANGED <<local, row, drive, sessions>>,
         disk' \in Entry \cup {None}, memory' \in [Procs -> Entry \cup {None}], EntriesOK'
  PROVE  IInv'
  BY LocalStep DEF RunStep

Quiet == UNCHANGED <<local, row, drive, sessions>>

LEMMA QuietFrame ==
  ASSUME IInv, Quiet
  PROVE  Untouched /\ LaterDrive /\ KeptSessions /\ drive' = drive
  BY DEF Quiet, Untouched, local, LaterDrive, KeptSessions, IInv, Types

LEMMA ClaimKeeps ==
  ASSUME IInv, NEW p \in Procs, Claim(p)
  PROVE  IInv'
  <1> DEFINE r == [Idle EXCEPT !.pc = "stat", !.made = source, !.etag = row.etag]
  <1>1. r \in Upload /\ r.pc = "stat" /\ r.made = source /\ r.etag = row.etag
    BY IdleOK DEF Upload, IInv, Types
  <1>2. run' = [run EXCEPT ![p] = r] /\ run'[p] = r
    BY DEF Claim, Goto, IInv, Types
  <1> HIDE DEF r
  <1>3. RunOK(p)'
    BY <1>1, <1>2 DEF Claim, RunOK, Timed, Sending, IInv, DriveOK
  <1>4. \A i \in Parts : r.made[i] <= clock
    BY <1>1 DEF IInv, Numbered
  <1> QED
    BY <1>1, <1>2, <1>3, <1>4, StoreKept, LocalStep DEF Claim

LEMMA StatKeeps ==
  ASSUME IInv, NEW p \in Procs, Stat(p)
  PROVE  IInv'
  <1>1. PICK x \in Upload : x = run[p]
    BY DEF IInv, Types
  <1>2. /\ RunOK(p) /\ EntryOK(memory[p]) /\ memory[p] \in Entry \cup {None}
        /\ DriveOK /\ stamp \in Nat /\ drive.stamp \in Nat
    BY DEF IInv, RunsOK, EntriesOK, Types
  <1>3. UNCHANGED <<local, row, drive, sessions>> /\ UNCHANGED store
    BY DEF Stat
  <1>4. \A i \in Parts : x.made[i] <= clock
    BY <1>1 DEF IInv, Numbered
  <1>5. CASE Matches(memory[p], stamp, x.etag)
    <2> DEFINE r == [[x EXCEPT !.stamp = stamp] EXCEPT !.pc = "ask", !.url = memory[p].url]
    <2>1. memory[p] \in Entry /\ memory[p].stamp = stamp /\ memory[p].url \in Nat
      BY <1>2, <1>5 DEF Matches, Entry
    <2>2. r \in Upload /\ r.pc = "ask" /\ r.stamp = stamp /\ r.url = memory[p].url
          /\ r.made = x.made /\ r.etag = x.etag
      BY <1>1, <1>2, <2>1 DEF Upload, Timed
    <2>3. run' = [run EXCEPT ![p] = r] /\ run'[p] = r
      BY <1>1, <1>2, <1>5 DEF Stat, Goto, IInv, Types
    <2> HIDE DEF r
    <2>4. RunOK(p)'
      BY <1>1, <1>2, <1>3, <1>5, <2>1, <2>2, <2>3 DEF RunOK, Timed, Sending, DriveOK, local,
         EntryOK, Matches
    <2> QED
      BY <1>3, <1>4, <2>2, <2>3, <2>4, StoreKept, LocalStep
  <1>6. CASE ~Matches(memory[p], stamp, x.etag)
    <2> DEFINE r == [[x EXCEPT !.stamp = stamp] EXCEPT !.pc = "forget"]
    <2>2. r \in Upload /\ r.pc = "forget" /\ r.stamp = stamp
          /\ r.made = x.made /\ r.etag = x.etag
      BY <1>1, <1>2 DEF Upload, Timed
    <2>3. run' = [run EXCEPT ![p] = r] /\ run'[p] = r
      BY <1>1, <1>2, <1>6 DEF Stat, Goto, IInv, Types
    <2> HIDE DEF r
    <2>4. RunOK(p)'
      BY <1>1, <1>2, <1>3, <2>2, <2>3 DEF RunOK, Timed, Sending, DriveOK, local
    <2> QED
      BY <1>3, <1>4, <2>2, <2>3, <2>4, StoreKept, LocalStep
  <1> QED
    BY <1>5, <1>6

LEMMA AskKeeps ==
  ASSUME IInv, NEW p \in Procs, Ask(p)
  PROVE  IInv'
  <1> DEFINE s == sessions[run[p].url]
  <1>1. At(p, "ask") /\ Quiet /\ UNCHANGED store
    BY DEF Ask, Quiet
  <1>2. Untouched /\ LaterDrive /\ KeptSessions /\ drive' = drive
    BY <1>1, QuietFrame
  <1>3. run[p].pc = "ask" /\ run[p].url \in 1 .. Len(sessions)
    BY <1>1 DEF At, IInv, RunsOK, RunOK
  <1>4. Len(s.got) \in Nat /\ Len(s.got) < Fragments
    <2>1. s \in Session
      BY <1>3, ElementOfSeq DEF IInv, Types
    <2>2. SessionOK(s)
      BY <1>3 DEF IInv, SessionsOK
    <2> QED
      BY <2>1, <2>2, LenProperties DEF Session, SessionOK
  <1>5. RunStep(p)
    <2>1. CASE Fragment(p, Len(s.got), 0)
      BY <1>2, <1>3, <1>4, <2>1, FragmentOK
    <2>2. CASE Go(p, "forget")
      BY <1>2, <1>3, <2>2, GoOK DEF Timed, Sending
    <2>3. CASE Fail(p)
      BY <1>2, <2>3, FailOK
    <2> QED
      BY <2>1, <2>2, <2>3 DEF Ask
  <1> QED
    BY <1>1, <1>5, StoreKept, QuietStep DEF Quiet

\* Removing an entry leaves the others as they should be.
LEMMA RemoveOK ==
  ASSUME IInv, NEW p \in Procs, Remove(p), UNCHANGED sessions
  PROVE  disk' \in Entry \cup {None} /\ memory' \in [Procs -> Entry \cup {None}] /\ EntriesOK'
  BY DEF IInv, Types, Remove, EntriesOK, EntryOK

LEMMA ForgetKeeps ==
  ASSUME IInv, NEW p \in Procs, Forget(p)
  PROVE  IInv'
  <1>1. Quiet /\ run[p].pc = "forget" /\ Go(p, "create") /\ Remove(p)
    BY DEF Forget, Quiet, At
  <1>2. RunStep(p)
    BY <1>1, QuietFrame, GoOK DEF Timed, Sending
  <1> QED
    BY <1>1, <1>2, RemoveOK, QuietStep DEF Quiet

LEMMA DoneKeeps ==
  ASSUME IInv, NEW p \in Procs, Done(p)
  PROVE  IInv'
  <1>1. Quiet /\ run[p].pc = "done" /\ Go(p, "commit") /\ Remove(p)
    BY DEF Done, Quiet, At
  <1>2. RunStep(p)
    BY <1>1, QuietFrame, GoOK DEF Timed, Sending
  <1> QED
    BY <1>1, <1>2, RemoveOK, QuietStep DEF Quiet

LEMMA SaveKeeps ==
  ASSUME IInv, NEW p \in Procs, Save(p)
  PROVE  IInv'
  <1> USE UploadSessionAssumption
  <1>0. PICK e \in Entry :
           e = [url |-> run[p].url, stamp |-> run[p].stamp, etag |-> run[p].etag]
    BY UploadFields DEF Entry, IInv, Types
  <1>1. /\ Quiet /\ run[p].pc = "save" /\ memory' = [memory EXCEPT ![p] = e]
        /\ \/ disk' = memory'[p] /\ Fragment(p, 0, 0)
           \/ UNCHANGED disk /\ Fail(p)
    BY <1>0 DEF Save, Quiet, At
  <1>2. Untouched /\ LaterDrive /\ KeptSessions
    BY <1>1, QuietFrame
  <1>3. /\ run[p].url \in 1 .. Len(sessions) /\ sessions[run[p].url].stamp = run[p].stamp
        /\ e.url = run[p].url /\ e.stamp = run[p].stamp
    BY <1>0, <1>1 DEF IInv, RunsOK, RunOK
  <1>5. e.url \in 1 .. Len(sessions') /\ sessions'[e.url].stamp = e.stamp
    BY <1>1, <1>3 DEF Quiet
  <1>6. /\ memory' \in [Procs -> Entry \cup {None}] /\ disk' \in Entry \cup {None}
        /\ memory'[p] = e /\ \A q \in Procs \ {p} : memory'[q] = memory[q]
    BY <1>1 DEF IInv, Types
  <1>7. EntriesOK'
    <2>1. \A q \in Procs : EntryOK(memory[q])'
      BY <1>1, <1>5, <1>6 DEF IInv, Types, EntriesOK, EntryOK, Quiet
    <2>2. EntryOK(disk)'
      BY <1>1, <1>5, <1>6 DEF IInv, EntriesOK, EntryOK, Quiet
    <2> QED
      BY <2>1, <2>2 DEF EntriesOK
  <1>8. RunStep(p)
    <2>1. CASE Fail(p)
      BY <1>2, <2>1, FailOK
    <2>2. CASE Fragment(p, 0, 0)
      <3>1. 0 \in Nat /\ 0 < Fragments
        OBVIOUS
      <3>2. run[p].pc \in {"ask", "save"} \cup Sending
        BY <1>1
      <3> QED
        BY <1>2, <1>3, <2>2, <3>1, <3>2, FragmentOK
    <2> QED
      BY <1>1, <2>1, <2>2
  <1> QED
    BY <1>1, <1>6, <1>7, <1>8, QuietStep DEF Quiet

\* The drive wants another fragment, or the request fails.
LEMMA QueryKeeps ==
  ASSUME IInv, NEW p \in Procs, Unwanted(p) \/ Realign(p) \/ Query(p)
  PROVE  IInv'
  <1> DEFINE s == sessions[run[p].url]
  <1>1. run[p].pc \in Sending /\ Quiet /\ UNCHANGED store
    BY DEF Unwanted, Realign, Query, Quiet, At, Sending
  <1>2. Untouched /\ LaterDrive /\ KeptSessions /\ drive' = drive
    BY <1>1, QuietFrame
  <1>3. run[p].url \in 1 .. Len(sessions)
    BY <1>1 DEF IInv, RunsOK, RunOK
  <1>4. Len(s.got) \in Nat /\ Len(s.got) < Fragments
    <2>1. s \in Session
      BY <1>3, ElementOfSeq DEF IInv, Types
    <2>2. SessionOK(s)
      BY <1>3 DEF IInv, SessionsOK
    <2> QED
      BY <2>1, <2>2, LenProperties DEF Session, SessionOK
  <1>5. RunStep(p)
    <2>1. CASE Advance(p, Len(s.got))
      BY <1>1, <1>2, <1>4, <2>1, AdvanceOK
    <2>2. CASE Again(p)
      BY <1>1, <1>2, <2>2, AgainOK
    <2>3. CASE Fail(p)
      BY <1>2, <2>3, FailOK
    <2>4. CASE Go(p, "range") \/ Go(p, "query")
      BY <1>1, <1>2, <2>4, GoOK DEF Timed, Sending
    <2> QED
      BY <2>1, <2>2, <2>3, <2>4 DEF Unwanted, Realign, Query
  <1> QED
    BY <1>1, <1>5, StoreKept, QuietStep DEF Quiet

LEMMA CommitKeeps ==
  ASSUME IInv, NEW p \in Procs, Commit(p)
  PROVE  IInv'
  <1>1. /\ run[p].pc = "commit" /\ UNCHANGED <<local, drive, sessions, store>> /\ Fail(p)
        /\ row' = IF source = run[p].made THEN [etag |-> run[p].rev, settled |-> TRUE] ELSE row
    BY DEF Commit, At, Fail
  <1>2. Untouched /\ LaterDrive /\ KeptSessions
    BY <1>1 DEF Untouched, local, LaterDrive, KeptSessions, IInv, Types
  <1>3. PICK r \in Upload : /\ run' = [run EXCEPT ![p] = r]
                            /\ \A i \in Parts : r.made[i] <= clock
                            /\ RunOK(p)'
    BY <1>1, <1>2, FailOK DEF RunStep
  <1>4. run' \in [Procs -> Upload] /\ Numbered' /\ RunsOK'
    BY <1>2, <1>3, OthersKept
  <1>5. PICK x \in Upload : x = run[p]
    BY DEF IInv, Types
  <1>6. /\ RunOK(p) /\ x.stamp \in Nat /\ x.rev \in Nat /\ stamp \in Nat
        /\ drive.stamp \in Nat /\ drive.rev \in Nat
    BY UploadFields DEF IInv, RunsOK, Types
  <1>7. /\ x.stamp <= drive.stamp /\ x.rev <= drive.rev
        /\ x.made = source => x.stamp = stamp
    BY <1>1, <1>5, <1>6 DEF RunOK, Timed
  <1>8. DriveOK' /\ row' \in [etag : Nat, settled : BOOLEAN]
    <2>1. DriveOK /\ row \in [etag : Nat, settled : BOOLEAN]
      BY DEF IInv, Types
    <2>2. CASE source = x.made
      <3>1. row' = [etag |-> x.rev, settled |-> TRUE]
        BY <1>1, <1>5, <2>2
      <3>2. row'.etag = x.rev /\ row' \in [etag : Nat, settled : BOOLEAN]
        BY <3>1, <1>6
      <3> QED
        BY <1>1, <1>6, <1>7, <2>1, <2>2, <3>2 DEF DriveOK, Same, local
    <2>3. CASE source # x.made
      BY <1>1, <1>5, <2>1, <2>3 DEF DriveOK, Same, local
    <2> QED
      BY <2>2, <2>3
  <1>9. Types'
    BY <1>1, <1>4, <1>8 DEF IInv, Types, local, store
  <1>10. SessionsOK'
    BY <1>1 DEF IInv, SessionsOK, SessionOK, Same, local
  <1> QED
    BY <1>1, <1>4, <1>8, <1>9, <1>10, StoreKept DEF IInv

---------------------------------------------------------------------------
(* The actions that change sessions or the item.                           *)

LEMMA DriveStep ==
  ASSUME IInv, NEW p \in Procs, RunStep(p), Untouched, row' = row, LaterDrive, KeptSessions,
         UNCHANGED store, SessionsOK', DriveOK'
  PROVE  IInv'
  <1>1. PICK r \in Upload : /\ run' = [run EXCEPT ![p] = r]
                            /\ \A i \in Parts : r.made[i] <= clock
                            /\ RunOK(p)'
    BY DEF RunStep
  <1>2. run' \in [Procs -> Upload] /\ Numbered' /\ RunsOK'
    BY <1>1, OthersKept
  <1>3. Types'
    BY <1>2 DEF IInv, Types, Untouched, LaterDrive, KeptSessions, store
  <1>4. EntriesOK'
    BY EntriesKept DEF IInv, Types, EntriesOK, EntryOK, store
  <1> QED
    BY <1>2, <1>3, <1>4 DEF IInv

LEMMA CreateKeeps ==
  ASSUME IInv, NEW p \in Procs, Create(p)
  PROVE  IInv'
  <1>1. PICK x \in Upload : x = run[p]
    BY DEF IInv, Types
  <1>2. /\ RunOK(p) /\ x.pc = "create" /\ x.etag \in Nat /\ x.stamp \in Nat
        /\ drive.rev \in Nat /\ drive.stamp \in Nat /\ stamp \in Nat
    BY <1>1, UploadFields DEF Create, At, IInv, RunsOK, Types
  <1>3. UNCHANGED <<local, row, drive, store>> /\ Untouched /\ LaterDrive
    BY DEF Create, Untouched, local, LaterDrive
  <1>4. DriveOK'
    BY <1>3 DEF IInv, DriveOK, Same, local
  <1>5. CASE Fail(p) /\ UNCHANGED sessions
    <2>1. Quiet
      BY <1>3, <1>5 DEF Quiet
    <2> QED
      BY <1>3, <1>5, <2>1, FailOK, StoreKept, QuietStep DEF Quiet
  <1>6. CASE /\ run[p].etag = drive.rev
             /\ sessions' = Append(sessions, [etag |-> run[p].etag, stamp |-> run[p].stamp,
                                              got |-> <<>>, open |-> TRUE])
             /\ Goto(p, [run[p] EXCEPT !.pc = "save", !.url = Len(sessions) + 1])
    <2>1. PICK new \in Session :
             new = [etag |-> x.etag, stamp |-> x.stamp, got |-> <<>>, open |-> TRUE]
      <3>1. <<>> \in Seq(Nat)
        OBVIOUS
      <3> QED
        BY <1>2, <3>1 DEF Session
    <2>2. /\ sessions \in Seq(Session) /\ Len(sessions) \in Nat
      BY LenProperties DEF IInv, Types
    <2>3. PICK r \in Upload : r = [x EXCEPT !.pc = "save", !.url = Len(sessions) + 1]
      <3>1. Len(sessions) + 1 \in Nat
        BY <2>2
      <3> QED
        BY <3>1 DEF Upload, Timed
    <2>4. /\ x.etag = drive.rev /\ sessions' = Append(sessions, new)
          /\ run' = [run EXCEPT ![p] = r] /\ run'[p] = r
      BY <1>1, <1>6, <2>1, <2>3 DEF Goto, IInv, Types
    <2>5. /\ r.pc = "save" /\ r.url = Len(sessions) + 1 /\ r.etag = x.etag
          /\ r.stamp = x.stamp /\ r.made = x.made
      BY <2>3 DEF Upload
    <2>6. new.stamp = x.stamp /\ new.etag = x.etag /\ new.got = <<>>
      BY <2>1
    <2>7. /\ sessions' \in Seq(Session) /\ Len(sessions') = Len(sessions) + 1
          /\ \A u \in 1 .. Len(sessions) : sessions'[u] = sessions[u]
          /\ sessions'[Len(sessions) + 1] = new
      BY <2>2, <2>4, AppendProperties
    <2>8. KeptSessions
      BY <2>2, <2>7 DEF KeptSessions
    <2>9. SessionOK(new)'
      <3>1. Len(<<>>) = 0 /\ Fragments \in Nat \ {0}
        BY UploadSessionAssumption
      <3> QED
        BY <1>1, <1>2, <1>3, <2>4, <2>6, <3>1 DEF SessionOK, RunOK, Timed, Untouched
    <2>10. SessionsOK'
      <3>1. ASSUME NEW u \in 1 .. Len(sessions), NEW s \in Session, s = sessions[u]
            PROVE  SessionOK(s)'
        BY <1>3, <3>1 DEF IInv, SessionsOK, SessionOK, Same, Untouched
      <3>2. \A u \in 1 .. Len(sessions) : sessions[u] \in Session
        BY <2>2, ElementOfSeq
      <3>3. ASSUME NEW u \in 1 .. Len(sessions')
            PROVE  SessionOK(sessions[u])'
        <4>1. PICK s \in Session : s = sessions'[u]
          BY <2>2, <2>7, <3>2
        <4>2. SessionOK(s)'
          BY <2>2, <2>7, <2>9, <3>1, <4>1
        <4> QED
          BY <4>1, <4>2 DEF SessionOK
      <3> QED
        BY <3>3 DEF SessionsOK
    <2>11. RunOK(p)'
      BY <1>1, <1>2, <1>3, <2>2, <2>4, <2>5, <2>6, <2>7 DEF RunOK, Untouched, Timed, Sending
    <2>12. RunStep(p)
      BY <1>1, <2>4, <2>5, <2>11 DEF RunStep, IInv, Numbered
    <2> QED
      BY <1>3, <1>4, <2>8, <2>10, <2>12, DriveStep
  <1> QED
    BY <1>5, <1>6 DEF Create

\* The last place of a sequence, or one before it.
LEMMA LastPlace ==
  ASSUME NEW n \in Nat
  PROVE  \A i \in 1 .. n + 1 : i \in 1 .. n \/ i = n + 1
  OBVIOUS

\* A sequence without its last element.
LEMMA Front ==
  ASSUME NEW got \in Seq(Nat), got # <<>>
  PROVE  /\ SubSeq(got, 1, Len(got) - 1) \in Seq(Nat)
         /\ Len(SubSeq(got, 1, Len(got) - 1)) = Len(got) - 1
         /\ \A i \in 1 .. Len(got) - 1 : SubSeq(got, 1, Len(got) - 1)[i] = got[i]
  <1>1. PICK n \in Nat : Len(got) = n + 1
    <2>1. Len(got) \in Nat \ {0}
      BY EmptySeq
    <2>2. Len(got) - 1 \in Nat /\ Len(got) = (Len(got) - 1) + 1
      BY <2>1
    <2> QED
      BY <2>2
  <1>2. \A i \in 1 .. n : got[i] \in Nat
    BY <1>1, ElementOfSeq
  <1>3. /\ SubSeq(got, 1, n) \in Seq(Nat)
        /\ Len(SubSeq(got, 1, n)) = IF 1 <= n THEN n - 1 + 1 ELSE 0
        /\ \A i \in 1 .. n - 1 + 1 : SubSeq(got, 1, n)[i] = got[1 + i - 1]
    BY <1>2, SubSeqProperties
  <1>4. Len(SubSeq(got, 1, n)) = n /\ \A i \in 1 .. n : SubSeq(got, 1, n)[i] = got[i]
    BY <1>3
  <1>5. Len(got) - 1 = n
    BY <1>1
  <1> QED
    BY <1>3, <1>4, <1>5

\* One session changes.
LEMMA SessionStep ==
  ASSUME IInv, Untouched, LaterDrive, NEW u \in 1 .. Len(sessions), NEW s \in Session,
         sessions' = [sessions EXCEPT ![u] = s], s.stamp = sessions[u].stamp, SessionOK(s)'
  PROVE  KeptSessions /\ SessionsOK'
  <1>1. sessions \in Seq(Session) /\ Len(sessions) \in Nat
    BY LenProperties DEF IInv, Types
  <1>2. /\ sessions' \in Seq(Session) /\ Len(sessions') = Len(sessions)
        /\ sessions'[u] = s
        /\ \A v \in 1 .. Len(sessions) \ {u} : sessions'[v] = sessions[v]
    BY <1>1
  <1>3. KeptSessions
    BY <1>1, <1>2 DEF KeptSessions
  <1>4. ASSUME NEW v \in 1 .. Len(sessions')
        PROVE  SessionOK(sessions[v])'
    <2>1. CASE v = u
      BY <1>2, <2>1 DEF SessionOK
    <2>2. CASE v # u
      <3>1. PICK t \in Session : t = sessions[v] /\ t = sessions'[v]
        BY <1>1, <1>2, <2>2, ElementOfSeq
      <3>2. SessionOK(t)
        BY <1>2, <3>1 DEF IInv, SessionsOK
      <3>3. SessionOK(t)'
        BY <3>2, SessionKept
      <3> QED
        BY <3>1, <3>3 DEF SessionOK
    <2> QED
      BY <2>1, <2>2
  <1> QED
    BY <1>3, <1>4 DEF SessionsOK

\* The session of a run that sends a fragment.
LEMMA SessionOfRun ==
  ASSUME IInv, NEW p \in Procs, run[p].pc \in Sending
  PROVE  \E s \in Session :
            /\ run[p].url \in 1 .. Len(sessions) /\ s = sessions[run[p].url]
            /\ SessionOK(s) /\ s.stamp = run[p].stamp
            /\ s.got \in Seq(Nat) /\ Len(s.got) \in Nat
            /\ s.etag \in Nat /\ s.stamp \in Nat
  <1>1. /\ run[p].url \in 1 .. Len(sessions) /\ sessions[run[p].url].stamp = run[p].stamp
        /\ SessionOK(sessions[run[p].url])
    BY DEF IInv, RunsOK, RunOK, SessionsOK
  <1>2. PICK s \in Session : s = sessions[run[p].url]
    BY <1>1, ElementOfSeq DEF IInv, Types
  <1>3. s.got \in Seq(Nat) /\ Len(s.got) \in Nat /\ s.etag \in Nat /\ s.stamp \in Nat
    BY LenProperties DEF Session
  <1> QED
    BY <1>1, <1>2, <1>3

\* A list of fragments and one more.
LEMMA OneMore ==
  ASSUME NEW got \in Seq(Nat), NEW n \in Nat
  PROVE  \E whole \in Seq(Nat) :
            /\ whole = Append(got, n) /\ Len(whole) = Len(got) + 1
            /\ whole[Len(got) + 1] = n
            /\ \A i \in 1 .. Len(got) : whole[i] = got[i]
  <1>1. Append(got, n) \in Seq(Nat)
    OBVIOUS
  <1>2. Len(Append(got, n)) = Len(got) + 1
    OBVIOUS
  <1>3. Append(got, n)[Len(got) + 1] = n
    OBVIOUS
  <1>4. \A i \in 1 .. Len(got) : Append(got, n)[i] = got[i]
    OBVIOUS
  <1> QED
    BY <1>1, <1>2, <1>3, <1>4, Zenon

LEMMA ReceivedKeeps ==
  ASSUME IInv, NEW p \in Procs, Received(p)
  PROVE  IInv'
  <1>1. /\ run[p].pc = "send" /\ UNCHANGED <<local, row, drive, store>>
        /\ Untouched /\ LaterDrive
    BY DEF Received, At, Untouched, local, LaterDrive
  <1>2. run[p].pc \in Sending /\ run[p].pc \in Timed
    BY <1>1 DEF Sending, Timed
  <1>3. PICK s \in Session :
            /\ run[p].url \in 1 .. Len(sessions) /\ s = sessions[run[p].url]
            /\ SessionOK(s) /\ s.stamp = run[p].stamp
            /\ s.got \in Seq(Nat) /\ Len(s.got) \in Nat
            /\ s.etag \in Nat /\ s.stamp \in Nat
    BY <1>2, SessionOfRun
  <1>4. PICK x \in Upload : x = run[p]
    BY DEF IInv, Types
  <1>5. x.chunk \in Nat /\ x.offset = Len(s.got) /\ Len(s.got) + 1 < Fragments
    BY <1>3, <1>4, UploadFields DEF Received
  <1>0. s.got \in Seq(Nat) /\ x.chunk \in Nat
    BY <1>3, <1>5
  <1>6. PICK got \in Seq(Nat) :
           /\ got = Append(s.got, x.chunk) /\ Len(got) = Len(s.got) + 1
           /\ got[Len(s.got) + 1] = x.chunk
           /\ \A i \in 1 .. Len(s.got) : got[i] = s.got[i]
    BY <1>0, OneMore
  <1>7. /\ Len(got) = Len(s.got) + 1 /\ got[Len(s.got) + 1] = x.chunk
        /\ \A i \in 1 .. Len(s.got) : got[i] = s.got[i]
    BY <1>6
  <1>8. PICK t \in Session : t = [s EXCEPT !.got = got]
    BY <1>6 DEF Session
  <1>9. t.got = got /\ t.stamp = s.stamp /\ t.etag = s.etag
    BY <1>8 DEF Session
  <1>10. sessions' = [sessions EXCEPT ![run[p].url] = t]
    BY <1>3, <1>4, <1>6, <1>8 DEF Received
  <1>11. SessionOK(t)'
    <2>1. Same(t.stamp) => x.chunk = source[Len(s.got) + 1]
      BY <1>2, <1>3, <1>4, <1>5, <1>9 DEF IInv, RunsOK, RunOK
    <2>2. Same(t.stamp) => \A i \in 1 .. Len(got) : got[i] = source[i]
      <3>1. Same(t.stamp) => \A i \in 1 .. Len(s.got) : s.got[i] = source[i]
        BY <1>3, <1>9 DEF SessionOK
      <3>2. \A i \in 1 .. Len(got) : i \in 1 .. Len(s.got) \/ i = Len(s.got) + 1
        BY <1>3, <1>7, LastPlace
      <3> QED
        BY <1>7, <2>1, <3>1, <3>2
    <2> QED
      BY <1>1, <1>3, <1>5, <1>7, <1>9, <2>2 DEF SessionOK, Untouched, Same
  <1>12. KeptSessions /\ SessionsOK'
    BY <1>1, <1>3, <1>9, <1>10, <1>11, SessionStep
  <1>13. RunStep(p)
    <2>1. CASE Advance(p, Len(s.got) + 1)
      BY <1>1, <1>2, <1>3, <1>5, <1>12, <2>1, AdvanceOK
    <2>2. CASE Go(p, "query")
      BY <1>1, <1>2, <1>12, <2>2, GoOK DEF Timed, Sending
    <2> QED
      BY <1>3, <2>1, <2>2 DEF Received
  <1>14. DriveOK'
    BY <1>1 DEF IInv, DriveOK, Same, local
  <1> QED
    BY <1>1, <1>12, <1>13, <1>14, DriveStep

LEMMA FinishedKeeps ==
  ASSUME IInv, NEW p \in Procs, Finished(p)
  PROVE  IInv'
  <1>1. /\ run[p].pc = "send" /\ UNCHANGED <<local, row, store>> /\ Untouched
    BY DEF Finished, At, Untouched, local
  <1>2. run[p].pc \in Sending /\ run[p].pc \in Timed
    BY <1>1 DEF Sending, Timed
  <1>3. PICK s \in Session :
            /\ run[p].url \in 1 .. Len(sessions) /\ s = sessions[run[p].url]
            /\ SessionOK(s) /\ s.stamp = run[p].stamp
            /\ s.got \in Seq(Nat) /\ Len(s.got) \in Nat
            /\ s.etag \in Nat /\ s.stamp \in Nat
    BY <1>2, SessionOfRun
  <1>4. PICK x \in Upload : x = run[p]
    BY DEF IInv, Types
  <1>5. /\ x.chunk \in Nat /\ x.offset = Len(s.got) /\ Len(s.got) + 1 = Fragments
        /\ x.etag \in Nat /\ x.stamp \in Nat /\ x.url \in Nat
        /\ drive.rev \in Nat /\ drive.stamp \in Nat /\ stamp \in Nat
    BY <1>3, <1>4, UploadFields DEF Finished, IInv, Types
  <1>6. PICK t \in Session : t = [s EXCEPT !.open = FALSE]
    BY DEF Session
  <1>7. t.got = s.got /\ t.stamp = s.stamp /\ t.etag = s.etag
    BY <1>6 DEF Session
  <1>8. sessions' = [sessions EXCEPT ![run[p].url] = t]
    BY <1>3, <1>6 DEF Finished
  <1>9. ASSUME LaterDrive
        PROVE  KeptSessions /\ SessionsOK'
    <2>1. SessionOK(s)'
      BY <1>1, <1>3, <1>9, SessionKept
    <2>2. SessionOK(t)'
      BY <1>7, <2>1 DEF SessionOK, Same
    <2> QED
      BY <1>1, <1>3, <1>7, <1>8, <1>9, <2>2, SessionStep
  <1>10. CASE s.etag # drive.rev
    <2>1. Fail(p) /\ drive' = drive
      BY <1>3, <1>10 DEF Finished
    <2>2. LaterDrive
      BY <2>1 DEF LaterDrive
    <2>3. RunStep(p)
      BY <2>1, <2>2, FailOK
    <2>4. DriveOK'
      BY <1>1, <2>1 DEF IInv, DriveOK, Same, local
    <2> QED
      BY <1>1, <1>9, <2>2, <2>3, <2>4, DriveStep
  <1>11. CASE s.etag = drive.rev
    <2>1. /\ drive' = [rev |-> drive.rev + 1, content |-> Append(s.got, x.chunk),
                       stamp |-> s.stamp]
          /\ \/ run' = [run EXCEPT ![p] = [x EXCEPT !.pc = "done", !.rev = drive.rev + 1]]
             \/ run' = [run EXCEPT ![p] = [x EXCEPT !.pc = "query"]]
      BY <1>3, <1>4, <1>11 DEF Finished, Goto, Go
    <2>2. /\ drive'.rev = drive.rev + 1 /\ drive'.stamp = s.stamp
          /\ drive'.content = Append(s.got, x.chunk)
      BY <2>1
    <2>3. drive.stamp <= s.stamp /\ s.stamp <= stamp
      BY <1>3, <1>11 DEF SessionOK
    <2>4. LaterDrive
      BY <1>3, <2>2, <2>3 DEF LaterDrive
    <2>5. Same(s.stamp) => Append(s.got, x.chunk) = source
      <3> SUFFICES ASSUME Same(s.stamp)
                   PROVE  Append(s.got, x.chunk) = source
        OBVIOUS
      <3>1. x.chunk = source[Len(s.got) + 1]
        BY <1>2, <1>3, <1>4, <1>5 DEF IInv, RunsOK, RunOK
      <3>2. \A i \in 1 .. Len(s.got) : s.got[i] = source[i]
        BY <1>3 DEF SessionOK
      <3>0. PICK whole \in Seq(Nat) :
                /\ whole = Append(s.got, x.chunk) /\ Len(whole) = Len(s.got) + 1
                /\ whole[Len(s.got) + 1] = x.chunk
                /\ \A i \in 1 .. Len(s.got) : whole[i] = s.got[i]
        <4>1. s.got \in Seq(Nat) /\ x.chunk \in Nat
          BY <1>3, <1>5
        <4> QED
          BY <4>1, OneMore
      <3>3. whole \in Seq(Nat) /\ whole = Append(s.got, x.chunk)
        BY <3>0
      <3>4. /\ Len(whole) = Fragments /\ whole[Len(s.got) + 1] = x.chunk
            /\ \A i \in 1 .. Len(s.got) : whole[i] = s.got[i]
        BY <1>5, <3>0
      <3>5. whole \in [Parts -> Nat]
        BY <3>3, <3>4, LenProperties DEF Parts
      <3>6. \A i \in Parts : whole[i] = source[i]
        <4>1. \A i \in Parts : i \in 1 .. Len(s.got) \/ i = Len(s.got) + 1
          BY <1>3, <1>5, LastPlace DEF Parts
        <4> QED
          BY <3>1, <3>2, <3>4, <4>1
      <3> QED
        BY <3>3, <3>5, <3>6 DEF IInv, Types
    <2>6. DriveOK'
      <3>1. row.settled => drive.stamp = stamp
        BY DEF IInv, DriveOK
      <3>2. row.etag <= drive'.rev /\ row.etag \in Nat
        BY <1>5, <2>2 DEF IInv, DriveOK, Types
      <3> QED
        BY <1>1, <1>3, <1>5, <2>2, <2>3, <2>5, <3>1, <3>2 DEF DriveOK, Same, local
    <2>7. KeptSessions /\ SessionsOK'
      BY <1>9, <2>4
    <2>8. ASSUME NEW pc \in {"done", "query"}, NEW r \in Upload,
                 run' = [run EXCEPT ![p] = r], r.pc = pc, r.etag = x.etag, r.stamp = x.stamp,
                 r.url = x.url, r.made = x.made, r.offset = x.offset, r.chunk = x.chunk,
                 pc = "done" => r.rev = drive.rev + 1
          PROVE  RunStep(p)
      <3>1. run'[p] = r
        BY <2>8 DEF IInv, Types
      <3>2. RunOK(p) /\ Len(sessions) \in Nat /\ Len(sessions') \in Nat
        BY <2>7, LenProperties DEF IInv, Types, RunsOK, KeptSessions
      <3>3. /\ x.etag <= drive.rev /\ x.stamp <= stamp /\ (x.made = source => x.stamp = stamp)
            /\ x.offset < Fragments /\ (Same(x.stamp) => x.chunk = source[x.offset + 1])
            /\ x.url \in 1 .. Len(sessions) /\ sessions[x.url].stamp = x.stamp
        BY <1>2, <1>4, <3>2 DEF RunOK
      <3>4. r.etag <= drive'.rev /\ r.etag # drive'.rev
        BY <1>5, <2>2, <2>8, <3>3
      <3>8. x.url \in 1 .. Len(sessions') /\ sessions'[x.url].stamp = x.stamp
        BY <1>5, <2>7, <3>2, <3>3 DEF KeptSessions
      <3>9. r.url \in 1 .. Len(sessions') /\ sessions'[r.url].stamp = r.stamp
        BY <2>8, <3>8
      <3>5. r.pc = "done" => r.stamp <= drive'.stamp /\ r.rev <= drive'.rev
        BY <1>3, <1>4, <1>5, <2>2, <2>8
      <3>6. RunOK(p)'
        <4>1. /\ r.stamp <= stamp /\ (r.made = source => r.stamp = stamp)
              /\ r.offset < Fragments
              /\ Same(r.stamp) => r.chunk = source[r.offset + 1]
              /\ r.pc \in {"done", "query"}
          BY <2>8, <3>3
        <4> QED
          BY <1>1, <3>1, <3>4, <3>5, <3>9, <4>1 DEF RunOK, Untouched, Same, Timed, Sending
      <3>7. \A i \in Parts : r.made[i] <= clock
        BY <1>4, <2>8 DEF IInv, Numbered
      <3> QED
        BY <2>8, <3>6, <3>7 DEF RunStep
    <2>9. RunStep(p)
      <3>1. drive.rev + 1 \in Nat
        BY <1>5
      <3>2. PICK r \in Upload : r = [x EXCEPT !.pc = "done", !.rev = drive.rev + 1]
        BY <3>1 DEF Upload, Timed
      <3>3. /\ r.pc = "done" /\ r.etag = x.etag /\ r.stamp = x.stamp /\ r.url = x.url
            /\ r.made = x.made /\ r.offset = x.offset /\ r.chunk = x.chunk
            /\ r.rev = drive.rev + 1
        BY <3>2 DEF Upload
      <3>4. PICK y \in Upload : y = [x EXCEPT !.pc = "query"]
        BY DEF Upload, Timed
      <3>5. /\ y.pc = "query" /\ y.etag = x.etag /\ y.stamp = x.stamp /\ y.url = x.url
            /\ y.made = x.made /\ y.offset = x.offset /\ y.chunk = x.chunk
        BY <3>4 DEF Upload
      <3>6. CASE run' = [run EXCEPT ![p] = r]
        BY <2>8, <3>3, <3>6
      <3>7. CASE run' = [run EXCEPT ![p] = y]
        BY <2>8, <3>5, <3>7
      <3> QED
        BY <2>1, <3>2, <3>4, <3>6, <3>7
    <2> QED
      BY <1>1, <2>4, <2>6, <2>7, <2>9, DriveStep
  <1> QED
    BY <1>10, <1>11

---------------------------------------------------------------------------
(* Programs, the drive, and the caller.                                    *)

\* A new version is like none before: no run was begun for it, and what has its
\* second is not taken for it unless the seconds are tied.
LEMMA WriteKeeps ==
  ASSUME IInv, NEW j \in Parts, Write(j)
  PROVE  IInv'
  <1>1. /\ clock' = clock + 1 /\ source' = [source EXCEPT ![j] = clock + 1]
        /\ \/ stamp' = stamp + 1 /\ UNCHANGED tied
           \/ stamp' = stamp /\ tied' = TRUE
        /\ row' = [row EXCEPT !.settled = FALSE]
        /\ UNCHANGED <<drive, sessions, store, run>>
    BY DEF Write
  <1>2. /\ clock \in Nat /\ stamp \in Nat /\ drive.stamp \in Nat /\ source \in [Parts -> Nat]
        /\ clock' \in Nat /\ stamp' \in Nat /\ stamp <= stamp'
    BY <1>1 DEF IInv, Types
  <1>3. Types'
    BY <1>1, <1>2 DEF IInv, Types, store
  <1>4. \A time \in Nat : time <= stamp => time <= stamp' /\ ~Same(time)'
    BY <1>1, <1>2 DEF Same
  <1>5. \A p \in Procs : run[p] \in Upload /\ run[p].stamp \in Nat /\ run[p].made # source'
    <2>1. ASSUME NEW p \in Procs
          PROVE  run[p] \in Upload /\ run[p].stamp \in Nat /\ run[p].made # source'
      <3>1. run[p] \in Upload /\ run[p].stamp \in Nat /\ run[p].made \in [Parts -> Nat]
        BY UploadFields DEF IInv, Types
      <3>2. run[p].made[j] <= clock /\ source'[j] = clock + 1 /\ run[p].made[j] \in Nat
        BY <1>1, <1>2, <3>1 DEF IInv, Numbered
      <3> QED
        BY <1>2, <3>1, <3>2
    <2> QED
      BY <2>1
  <1>6. Numbered'
    <2>1. \A i \in Parts : source'[i] <= clock + 1
      BY <1>1, <1>2 DEF IInv, Numbered
    <2>2. ASSUME NEW p \in Procs, NEW i \in Parts
          PROVE  run[p].made[i] <= clock + 1
      <3>1. run[p].made[i] \in Nat /\ run[p].made[i] <= clock
        BY UploadFields DEF IInv, Types, Numbered
      <3> QED
        BY <1>2, <3>1
    <2> QED
      BY <1>1, <2>1, <2>2 DEF Numbered
  <1>7. SessionsOK'
    <2>1. ASSUME NEW u \in 1 .. Len(sessions)
          PROVE  SessionOK(sessions[u])'
      <3>1. SessionOK(sessions[u]) /\ sessions[u] \in Session
        BY ElementOfSeq DEF IInv, SessionsOK, Types
      <3>2. sessions[u].stamp \in Nat /\ sessions[u].stamp <= stamp
        BY <3>1 DEF SessionOK, Session
      <3> QED
        BY <1>1, <1>4, <3>1, <3>2 DEF SessionOK
    <2> QED
      BY <1>1, <2>1 DEF SessionsOK
  <1>8. RunsOK'
    <2>1. ASSUME NEW p \in Procs
          PROVE  RunOK(p)'
      BY <1>1, <1>4, <1>5 DEF IInv, RunsOK, RunOK, Timed, Sending
    <2> QED
      BY <2>1 DEF RunsOK
  <1>9. DriveOK'
    <2>1. row'.etag = row.etag /\ row'.settled = FALSE
      BY <1>1 DEF IInv, Types
    <2> QED
      BY <1>1, <1>2, <1>4, <2>1 DEF IInv, DriveOK
  <1>10. EntriesOK'
    BY <1>1 DEF IInv, EntriesOK, EntryOK, store
  <1> QED
    BY <1>3, <1>6, <1>7, <1>8, <1>9, <1>10 DEF IInv

LEMMA ClosedSession ==
  ASSUME NEW t \in Session, NEW r \in Session, r = [t EXCEPT !.open = FALSE]
  PROVE  ~r.open
  BY DEF Session

\* What the drive does to a session by itself.
Changed(u, t) == /\ sessions' = [sessions EXCEPT ![u] = t]
                 /\ t.stamp = sessions[u].stamp /\ SessionOK(t)
                 /\ t.open => sessions[u].open

LEMMA DriveChanges ==
  ASSUME IInv, NEW u \in Urls, Expire(u) \/ FallBehind(u)
  PROVE  /\ u \in 1 .. Len(sessions)
         /\ \E t \in Session : Changed(u, t)
  <1>1. u \in 1 .. Len(sessions)
    BY LenProperties DEF IInv, Types, Urls
  <1>2. PICK s \in Session : s = sessions[u]
    BY <1>1, ElementOfSeq DEF IInv, Types
  <1>3. SessionOK(s) /\ s.got \in Seq(Nat) /\ Len(s.got) \in Nat
    BY <1>1, <1>2, LenProperties DEF IInv, SessionsOK, Session
  <1>4. CASE Expire(u)
    <2>1. PICK t \in Session : t = [s EXCEPT !.open = FALSE]
      BY DEF Session
    <2>2. t.got = s.got /\ t.stamp = s.stamp /\ t.etag = s.etag
      BY <2>1 DEF Session
    <2>3. sessions' = [sessions EXCEPT ![u] = t]
      BY <1>2, <1>4, <2>1 DEF Expire
    <2>4. ~t.open
      BY <2>1, ClosedSession
    <2> QED
      BY <1>1, <1>2, <1>3, <2>2, <2>3, <2>4 DEF SessionOK, Changed
  <1>5. CASE FallBehind(u)
    <2>1. s.got # <<>> /\ s.open
      BY <1>2, <1>5 DEF FallBehind
    <2>2. PICK got \in Seq(Nat) : got = SubSeq(s.got, 1, Len(s.got) - 1)
      BY <1>3, <2>1, Front
    <2>3. /\ Len(got) = Len(s.got) - 1
          /\ \A i \in 1 .. Len(got) : got[i] = s.got[i]
      BY <1>3, <2>1, <2>2, Front
    <2>4. /\ \A i \in 1 .. Len(got) : i \in 1 .. Len(s.got)
          /\ Len(got) < Len(s.got)
      BY <1>3, <2>3
    <2>5. PICK t \in Session : t = [s EXCEPT !.got = got]
      BY DEF Session
    <2>6. t.got = got /\ t.stamp = s.stamp /\ t.etag = s.etag
      BY <2>5 DEF Session
    <2>7. sessions' = [sessions EXCEPT ![u] = t]
      BY <1>2, <1>5, <2>2, <2>5 DEF FallBehind
    <2>8. SessionOK(t)
      <3>1. Len(t.got) < Fragments
        BY <1>3, <2>3, <2>4, <2>6, UploadSessionAssumption DEF SessionOK
      <3>2. Same(s.stamp) => \A i \in 1 .. Len(t.got) : t.got[i] = source[i]
        BY <1>3, <2>3, <2>4, <2>6 DEF SessionOK
      <3> QED
        BY <1>3, <2>6, <3>1, <3>2 DEF SessionOK
    <2> QED
      BY <1>1, <1>2, <2>1, <2>6, <2>7, <2>8 DEF Changed
  <1> QED
    BY <1>4, <1>5

LEMMA DriveKeeps ==
  ASSUME IInv, NEW u \in Urls, Expire(u) \/ FallBehind(u)
  PROVE  IInv'
  <1>1. UNCHANGED <<local, row, drive, store, run>> /\ Untouched /\ LaterDrive
    BY DEF Expire, FallBehind, Untouched, local, LaterDrive
  <1>2. PICK t \in Session : u \in 1 .. Len(sessions) /\ Changed(u, t)
    BY DriveChanges
  <1>3. KeptSessions /\ SessionsOK'
    <2>1. SessionOK(t)'
      BY <1>1, <1>2, SessionKept DEF Changed
    <2> QED
      BY <1>1, <1>2, <2>1, SessionStep DEF Changed
  <1>4. EntriesOK'
    BY <1>1, <1>3, EntriesKept DEF IInv, Types, EntriesOK, EntryOK, store
  <1>5. RunsOK'
    <2>1. Len(sessions) \in Nat /\ Len(sessions') \in Nat
      BY <1>3, LenProperties DEF IInv, Types, KeptSessions
    <2>2. ASSUME NEW p \in Procs
          PROVE  RunOK(p)'
      <3>1. run[p].url \in 1 .. Len(sessions) /\ sessions[run[p].url].stamp = run[p].stamp
            => run[p].url \in 1 .. Len(sessions') /\ sessions'[run[p].url].stamp = run[p].stamp
        BY <1>3, <2>1 DEF KeptSessions
      <3> QED
        BY <1>1, <3>1 DEF IInv, RunsOK, RunOK, Same, local
    <2> QED
      BY <2>2 DEF RunsOK
  <1>6. Types' /\ Numbered' /\ DriveOK'
    BY <1>1, <1>3 DEF IInv, Types, Numbered, DriveOK, Same, KeptSessions, local, store
  <1> QED
    BY <1>3, <1>4, <1>5, <1>6 DEF IInv

LEMMA RefreshKeeps ==
  ASSUME IInv, Refresh
  PROVE  IInv'
  <1>1. /\ row' = [row EXCEPT !.etag = drive.rev]
        /\ UNCHANGED <<local, drive, sessions, store, run, budget>>
    BY DEF Refresh
  <1>2. /\ row'.etag = drive.rev /\ row'.settled = row.settled
        /\ row' \in [etag : Nat, settled : BOOLEAN] /\ drive.rev \in Nat
    BY <1>1 DEF IInv, Types
  <1>3. Types' /\ DriveOK'
    BY <1>1, <1>2 DEF IInv, Types, DriveOK, Same, local, store
  <1>4. Numbered' /\ SessionsOK' /\ EntriesOK' /\ RunsOK'
    BY <1>1 DEF IInv, Numbered, SessionsOK, SessionOK, EntriesOK, EntryOK, RunsOK, RunOK,
       Same, local, store
  <1> QED
    BY <1>3, <1>4 DEF IInv

LEMMA RestartKeeps ==
  ASSUME IInv, NEW p \in Procs, Restart(p)
  PROVE  IInv'
  <1>1. Quiet /\ Fail(p) /\ disk' = disk /\ memory' = [memory EXCEPT ![p] = disk]
    BY DEF Restart, Quiet, Fail
  <1>2. RunStep(p)
    BY <1>1, QuietFrame, FailOK
  <1>3. disk' \in Entry \cup {None} /\ memory' \in [Procs -> Entry \cup {None}] /\ EntriesOK'
    BY <1>1 DEF IInv, Types, EntriesOK, EntryOK, Quiet
  <1> QED
    BY <1>1, <1>2, <1>3, QuietStep DEF Quiet

---------------------------------------------------------------------------
LEMMA InitOK == Init => IInv
  <1> SUFFICES ASSUME Init
               PROVE  IInv
    OBVIOUS
  <1>1. sessions = <<>> /\ sessions \in Seq(Session) /\ Len(sessions) = 0
    BY DEF Init
  <1>2. /\ source = [i \in Parts |-> 1] /\ source \in [Parts -> Nat] /\ clock = 1
        /\ \A i \in Parts : source[i] = 1
    BY DEF Init
  <1>3. /\ row.etag = 0 /\ row.settled = FALSE /\ row \in [etag : Nat, settled : BOOLEAN]
        /\ drive.rev = 0 /\ drive.stamp = 0 /\ stamp = 1 /\ tied = FALSE
    BY DEF Init
  <1>4. \A p \in Procs : run[p] = Idle /\ memory[p] = None
    BY DEF Init
  <1>5. run \in [Procs -> Upload] /\ memory \in [Procs -> Entry \cup {None}] /\ disk = None
    BY IdleOK DEF Init
  <1>6. Types
    BY <1>1, <1>2, <1>3, <1>5 DEF Types
  <1>7. Numbered
    BY <1>2, <1>4, IdleOK DEF Numbered
  <1>8. SessionsOK /\ EntriesOK
    BY <1>1, <1>4, <1>5 DEF SessionsOK, EntriesOK, EntryOK
  <1>9. RunsOK
    BY <1>3, <1>4 DEF RunsOK, RunOK, Idle, Timed, Sending
  <1>10. DriveOK
    BY <1>3 DEF DriveOK, Same
  <1> QED
    BY <1>6, <1>7, <1>8, <1>9, <1>10 DEF IInv

LEMMA Inductive == IInv /\ [Next]_vars => IInv'
  <1> SUFFICES ASSUME IInv, [Next]_vars
               PROVE  IInv'
    OBVIOUS
  <1>1. CASE \E i \in Parts : Write(i)
    BY <1>1, WriteKeeps
  <1>2. CASE \E u \in Urls : Expire(u) \/ FallBehind(u)
    BY <1>2, DriveKeeps
  <1>3. CASE Refresh
    BY <1>3, RefreshKeeps
  <1>4. CASE \E p \in Procs : Step(p) \/ Restart(p)
    <2>1. ASSUME NEW p \in Procs, Step(p)
          PROVE  IInv'
      BY <2>1, ClaimKeeps, StatKeeps, AskKeeps, ForgetKeeps, CreateKeeps, SaveKeeps,
         ReceivedKeeps, FinishedKeeps, QueryKeeps, DoneKeeps, CommitKeeps DEF Step
    <2> QED
      BY <1>4, <2>1, RestartKeeps
  <1>5. CASE UNCHANGED vars
    BY <1>5 DEF vars, IInv, Types, Numbered, SessionsOK, SessionOK, EntriesOK, EntryOK, RunsOK,
       RunOK, DriveOK, Same, local, store
  <1> QED
    BY <1>1, <1>2, <1>3, <1>4, <1>5 DEF Next

\* Every state is as a run and the drive leave it (upload_session_file and its
\* callers).
THEOREM Invariance == Spec => []IInv
  <1>1. Init => IInv
    BY InitOK
  <1>2. IInv /\ [Next]_vars => IInv'
    BY Inductive
  <1> QED
    BY <1>1, <1>2, PTL DEF Spec

\* What is recorded as uploaded is what the drive has, made of one version of the
\* source, for any number of fragments, processes and faults (upload_session_file,
\* matching_upload_session).
THEOREM Uploaded == Spec => []Whole
  <1>1. IInv => Whole
    BY DEF IInv, DriveOK, Whole, Same
  <1> QED
    BY <1>1, Invariance, PTL

---------------------------------------------------------------------------
(* A session is given up only when the drive has given it up.              *)

\* No session is opened again.
StayClosed == \A u \in 1 .. Len(sessions) : ~sessions[u].open => ~sessions'[u].open

Elsewhere(p) == \A q \in Procs \ {p} : run'[q] = run[q] /\ memory'[q] = memory[q]

\* A step of a run that neither asks for the state of a session nor forgets one.
LEMMA RememberedKept ==
  ASSUME IInv, Remembered, NEW p \in Procs, Elsewhere(p), StayClosed,
         run'[p].pc \notin {"ask", "forget"}
  PROVE  Remembered'
  <1>1. ASSUME NEW q \in Procs \ {p}
        PROVE  /\ At(q, "ask")' => memory'[q] # None /\ memory'[q].url = run'[q].url
               /\ At(q, "forget")' /\ Matches(memory[q], run[q].stamp, run[q].etag)'
                     => ~sessions'[memory'[q].url].open
    <2>1. memory[q] # None => memory[q].url \in 1 .. Len(sessions)
      BY DEF IInv, EntriesOK, EntryOK
    <2> QED
      BY <2>1 DEF Remembered, Elsewhere, At, Matches, StayClosed
  <1>2. ~At(p, "ask")' /\ ~At(p, "forget")'
    BY DEF At
  <1> QED
    BY <1>1, <1>2 DEF Remembered

\* Where a run goes.
LEMMA RunGoes ==
  ASSUME IInv, NEW p \in Procs
  PROVE  /\ \A r : Goto(p, r) => run'[p] = r /\ \A q \in Procs \ {p} : run'[q] = run[q]
         /\ \A pc : Go(p, pc) => run'[p].pc = pc /\ run'[p].url = run[p].url
                                 /\ run'[p].stamp = run[p].stamp /\ run'[p].etag = run[p].etag
                                 /\ \A q \in Procs \ {p} : run'[q] = run[q]
  <1>1. ASSUME NEW r, Goto(p, r)
        PROVE  run'[p] = r /\ \A q \in Procs \ {p} : run'[q] = run[q]
    BY <1>1 DEF IInv, Types, Goto
  <1>2. ASSUME NEW pc, Go(p, pc)
        PROVE  /\ run'[p].pc = pc /\ run'[p].url = run[p].url
               /\ run'[p].stamp = run[p].stamp /\ run'[p].etag = run[p].etag
               /\ \A q \in Procs \ {p} : run'[q] = run[q]
    <2>1. PICK x \in Upload : x = run[p]
      BY DEF IInv, Types
    <2>2. /\ run'[p] = [x EXCEPT !.pc = pc]
          /\ \A q \in Procs \ {p} : run'[q] = run[q]
      BY <1>2, <2>1 DEF IInv, Types, Go
    <2>3. LET y == [x EXCEPT !.pc = pc]
          IN  y.pc = pc /\ y.url = x.url /\ y.stamp = x.stamp /\ y.etag = x.etag
      BY DEF Upload
    <2> QED
      BY <2>1, <2>2, <2>3
  <1> QED
    BY <1>1, <1>2

LEMMA FragmentGoes ==
  ASSUME IInv, NEW p \in Procs, NEW offset, NEW stalled, Fragment(p, offset, stalled)
  PROVE  run'[p].pc = "send" /\ \A q \in Procs \ {p} : run'[q] = run[q]
  BY DEF IInv, Types, Goto, Fragment, Upload

LEMMA FailGoes ==
  ASSUME IInv, NEW p \in Procs, Fail(p)
  PROVE  run'[p].pc = "idle" /\ \A q \in Procs \ {p} : run'[q] = run[q]
  BY DEF IInv, Types, Goto, Fail, Idle

LEMMA AdvanceGoes ==
  ASSUME IInv, NEW p \in Procs, NEW next, Advance(p, next) \/ Again(p)
  PROVE  run'[p].pc \in {"idle", "send"} /\ \A q \in Procs \ {p} : run'[q] = run[q]
  <1>1. CASE Advance(p, next)
    BY <1>1, FragmentGoes, FailGoes DEF Advance
  <1>2. CASE Again(p) /\ ~Fail(p)
    <2>1. PICK x \in Upload : x = run[p]
      BY DEF IInv, Types
    <2>2. Goto(p, [x EXCEPT !.pc = "send", !.attempt = x.attempt + 1])
      BY <1>2, <2>1 DEF Again
    <2>3. /\ run'[p] = [x EXCEPT !.pc = "send", !.attempt = x.attempt + 1]
          /\ \A q \in Procs \ {p} : run'[q] = run[q]
      BY <2>2, RunGoes
    <2> QED
      BY <2>3 DEF Upload
  <1>3. CASE Fail(p)
    BY <1>3, FailGoes
  <1> QED
    BY <1>1, <1>2, <1>3

\* Sessions that stay, and memories that stay but for one.
LEMMA StayClosedFacts ==
  ASSUME IInv
  PROVE  /\ UNCHANGED sessions => StayClosed
         /\ \A p \in Procs : Remove(p) => /\ memory'[p] = None
                                         /\ \A q \in Procs \ {p} : memory'[q] = memory[q]
         /\ \A p \in Procs : memory' = memory => \A q \in Procs \ {p} : memory'[q] = memory[q]
  BY DEF StayClosed, Remove, IInv, Types

\* A run looks its session up in memory, or finds none there for these bytes.
LEMMA StatRemembers ==
  ASSUME IInv, Remembered, NEW p \in Procs, Stat(p)
  PROVE  Remembered'
  <1>1. UNCHANGED <<sessions, store>> /\ memory' = memory /\ StayClosed
    BY StayClosedFacts DEF Stat, store
  <1>2. PICK x \in Upload : x = run[p]
    BY DEF IInv, Types
  <1>3. \A q \in Procs \ {p} : run'[q] = run[q]
    BY RunGoes DEF Stat
  <1>4. \/ run'[p].pc = "ask" /\ memory[p] # None /\ run'[p].url = memory[p].url
        \/ run'[p].pc = "forget" /\ ~Matches(memory[p], run'[p].stamp, run'[p].etag)
    <2>1. CASE Matches(memory[p], stamp, x.etag)
      <3>1. run'[p] = [[x EXCEPT !.stamp = stamp] EXCEPT !.pc = "ask", !.url = memory[p].url]
        BY <1>2, <2>1, RunGoes DEF Stat
      <3> QED
        BY <1>2, <2>1, <3>1 DEF Upload, Matches
    <2>2. CASE ~Matches(memory[p], stamp, x.etag)
      <3>1. run'[p] = [[x EXCEPT !.stamp = stamp] EXCEPT !.pc = "forget"]
        BY <1>2, <2>2, RunGoes DEF Stat
      <3>2. run'[p].pc = "forget" /\ run'[p].stamp = stamp /\ run'[p].etag = x.etag
        BY <1>2, <3>1 DEF Upload
      <3> QED
        BY <2>2, <3>2
    <2> QED
      BY <2>1, <2>2
  <1> QED
    BY <1>1, <1>3, <1>4 DEF Remembered, At, Matches

\* Only an answer that the session is gone leads to its being forgotten.
LEMMA AskRemembers ==
  ASSUME IInv, Remembered, NEW p \in Procs, Ask(p)
  PROVE  Remembered'
  <1>1. /\ UNCHANGED <<sessions, store>> /\ memory' = memory /\ StayClosed
        /\ At(p, "ask") /\ memory[p] # None /\ memory[p].url = run[p].url
    BY StayClosedFacts DEF Ask, store, Remembered
  <1>2. CASE ~sessions[run[p].url].open /\ Go(p, "forget")
    <2>1. run'[p].pc = "forget" /\ \A q \in Procs \ {p} : run'[q] = run[q]
      BY <1>2, RunGoes
    <2> QED
      BY <1>1, <1>2, <2>1 DEF Remembered, At, Matches
  <1>3. CASE Fragment(p, Len(sessions[run[p].url].got), 0) \/ Fail(p)
    <2>1. run'[p].pc \in {"send", "idle"} /\ \A q \in Procs \ {p} : run'[q] = run[q]
      BY <1>3, FragmentGoes, FailGoes
    <2> QED
      BY <1>1, <2>1, RememberedKept DEF Elsewhere
  <1> QED
    BY <1>2, <1>3 DEF Ask

\* The other steps of a run go neither to "ask" nor to "forget".
LEMMA StepRemembers ==
  ASSUME IInv, Remembered, NEW p \in Procs, Step(p)
  PROVE  Remembered'
  <1> DEFINE Elsewhither == /\ run'[p].pc \notin {"ask", "forget"}
                            /\ \A q \in Procs \ {p} : run'[q] = run[q]
             Others == \A q \in Procs \ {p} : memory'[q] = memory[q]
  <1>1. CASE Claim(p)
    <2>1. run'[p] = [Idle EXCEPT !.pc = "stat", !.made = source, !.etag = row.etag]
      BY <1>1, RunGoes DEF Claim
    <2>2. run'[p].pc = "stat"
      BY <2>1 DEF Idle
    <2>3. Elsewhither /\ Others /\ StayClosed
      BY <1>1, <2>2, RunGoes, StayClosedFacts DEF Claim, store
    <2> QED
      BY <2>3, RememberedKept DEF Elsewhere
  <1>2. CASE Stat(p)
    BY <1>2, StatRemembers
  <1>3. CASE Ask(p)
    BY <1>3, AskRemembers
  <1>4. CASE Forget(p) \/ Done(p)
    <2>1. Elsewhither /\ Others /\ StayClosed
      BY <1>4, RunGoes, StayClosedFacts DEF Forget, Done
    <2> QED
      BY <2>1, RememberedKept DEF Elsewhere
  <1>5. CASE Create(p)
    <2>1. Others
      BY <1>5, StayClosedFacts DEF Create, store
    <2>2. StayClosed
      <3>1. CASE UNCHANGED sessions
        BY <3>1, StayClosedFacts
      <3>2. CASE sessions' = Append(sessions, [etag |-> run[p].etag, stamp |-> run[p].stamp,
                                              got |-> <<>>, open |-> TRUE])
        BY <3>2 DEF StayClosed, IInv, Types
      <3> QED
        BY <1>5, <3>1, <3>2 DEF Create
    <2>3. Elsewhither
      <3>1. CASE Fail(p)
        BY <3>1, FailGoes
      <3>2. CASE Goto(p, [run[p] EXCEPT !.pc = "save", !.url = Len(sessions) + 1])
        <4>1. /\ run'[p] = [run[p] EXCEPT !.pc = "save", !.url = Len(sessions) + 1]
              /\ \A q \in Procs \ {p} : run'[q] = run[q]
          BY <3>2, RunGoes
        <4>2. run'[p].pc = "save"
          BY <4>1 DEF IInv, Types, Upload
        <4> QED
          BY <4>1, <4>2
      <3> QED
        BY <1>5, <3>1, <3>2 DEF Create
    <2> QED
      BY <2>1, <2>2, <2>3, RememberedKept DEF Elsewhere
  <1>6. CASE Save(p)
    <2>1. Elsewhither
      BY <1>6, FragmentGoes, FailGoes DEF Save
    <2>2. Others /\ StayClosed
      BY <1>6, StayClosedFacts DEF Save, IInv, Types
    <2> QED
      BY <2>1, <2>2, RememberedKept DEF Elsewhere
  <1>7. CASE Received(p)
    <2>1. Others
      BY <1>7, StayClosedFacts DEF Received, store
    <2>2. Elsewhither
      BY <1>7, AdvanceGoes, RunGoes DEF Received
    <2>3. StayClosed
      BY <1>7 DEF Received, StayClosed, IInv, Types
    <2> QED
      BY <2>1, <2>2, <2>3, RememberedKept DEF Elsewhere
  <1>8. CASE Finished(p)
    <2>1. Others
      BY <1>8, StayClosedFacts DEF Finished, store
    <2>2. Elsewhither
      <3>1. CASE Goto(p, [run[p] EXCEPT !.pc = "done", !.rev = drive.rev + 1])
        <4>1. /\ run'[p] = [run[p] EXCEPT !.pc = "done", !.rev = drive.rev + 1]
              /\ \A q \in Procs \ {p} : run'[q] = run[q]
          BY <3>1, RunGoes
        <4>2. run'[p].pc = "done"
          BY <4>1 DEF IInv, Types, Upload
        <4> QED
          BY <4>1, <4>2
      <3>2. CASE Go(p, "query") \/ Fail(p)
        BY <3>2, RunGoes, FailGoes
      <3> QED
        BY <1>8, <3>1, <3>2 DEF Finished
    <2>3. StayClosed
      BY <1>8 DEF Finished, StayClosed, IInv, Types
    <2> QED
      BY <2>1, <2>2, <2>3, RememberedKept DEF Elsewhere
  <1>9. CASE Unwanted(p) \/ Realign(p) \/ Query(p)
    <2>1. Others /\ StayClosed
      BY <1>9, StayClosedFacts DEF Unwanted, Realign, Query, store
    <2>2. Elsewhither
      BY <1>9, AdvanceGoes, RunGoes, FailGoes DEF Unwanted, Realign, Query
    <2> QED
      BY <2>1, <2>2, RememberedKept DEF Elsewhere
  <1>10. CASE Commit(p)
    <2>1. Fail(p) /\ Others /\ StayClosed
      BY <1>10, StayClosedFacts DEF Commit, Fail, store
    <2>2. Elsewhither
      BY <2>1, FailGoes
    <2> QED
      BY <2>1, <2>2, RememberedKept DEF Elsewhere
  <1> QED
    BY <1>1, <1>2, <1>3, <1>4, <1>5, <1>6, <1>7, <1>8, <1>9, <1>10 DEF Step

LEMMA RememberedInductive == IInv /\ Remembered /\ [Next]_vars => Remembered'
  <1> SUFFICES ASSUME IInv, Remembered, [Next]_vars
               PROVE  Remembered'
    OBVIOUS
  <1>1. CASE UNCHANGED <<sessions, memory, run>>
    BY <1>1 DEF Remembered, At, Matches
  <1>2. CASE \E u \in Urls : Expire(u) \/ FallBehind(u)
    <2>1. UNCHANGED <<memory, run>>
      BY <1>2 DEF Expire, FallBehind, store
    <2>2. StayClosed
      <3>1. PICK u \in Urls : Expire(u) \/ FallBehind(u)
        BY <1>2
      <3>2. PICK t \in Session : u \in 1 .. Len(sessions) /\ Changed(u, t)
        BY <3>1, DriveChanges
      <3> QED
        BY <3>2 DEF Changed, StayClosed, IInv, Types
    <2>3. \A p \in Procs : memory[p] # None => memory[p].url \in 1 .. Len(sessions)
      BY DEF IInv, EntriesOK, EntryOK
    <2> QED
      BY <2>1, <2>2, <2>3 DEF Remembered, At, Matches, StayClosed
  <1>3. ASSUME NEW p \in Procs, Restart(p)
        PROVE  Remembered'
    <2>1. /\ Fail(p) /\ StayClosed
          /\ \A q \in Procs \ {p} : memory'[q] = memory[q]
      BY <1>3, StayClosedFacts DEF Restart, Fail, IInv, Types
    <2> QED
      BY <2>1, FailGoes, RememberedKept DEF Elsewhere
  <1>4. ASSUME NEW p \in Procs, Step(p)
        PROVE  Remembered'
    BY <1>4, StepRemembers
  <1>5. (\E i \in Parts : Write(i)) \/ Refresh \/ UNCHANGED vars => UNCHANGED <<sessions, memory, run>>
    BY DEF Write, Refresh, vars, store
  <1> QED
    BY <1>1, <1>2, <1>3, <1>4, <1>5 DEF Next

\* A session for these bytes is forgotten only when the drive has closed it, never
\* because a request for its state failed (query_upload_offset).
THEOREM ProgressKept == Spec => KeepsProgress
  <1>1. Init => IInv /\ Remembered
    BY InitOK DEF Init, Remembered, At, Idle
  <1>2. IInv /\ Remembered /\ [Next]_vars => (IInv /\ Remembered)'
    BY Inductive, RememberedInductive
  <1>3. IInv /\ Remembered /\ [Next]_vars
        => [\A p \in Procs : At(p, "forget") /\ Matches(memory[p], run[p].stamp, run[p].etag)
              /\ memory'[p] = None => ~sessions[memory[p].url].open]_vars
    BY DEF Remembered
  <1> QED
    BY <1>1, <1>2, <1>3, PTL DEF Spec, KeepsProgress
=============================================================================
