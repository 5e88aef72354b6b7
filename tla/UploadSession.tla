---------------------------- MODULE UploadSession ----------------------------
(***************************************************************************)
(* The upload of one large file in fragments, through an upload session of *)
(* the drive that outlives a failed run and the process.  The URL of the   *)
(* session is kept in upload-sessions.json, of which every process has a   *)
(* copy in memory that it loads at its start and writes as a whole; a      *)
(* later run goes on where the drive says the session is, if the source    *)
(* looks the same: size, time of change in seconds, and the version that   *)
(* is to be replaced.                                                      *)
(*                                                                         *)
(* The source is written at any time, between the reads of a run too.  All *)
(* its versions have one size, which is the case in which sizes tell       *)
(* nothing.  It is a sequence of fragments; each write gives a fragment a  *)
(* number that was never used.  Left out: files of one request (FileSync), *)
(* new files (they have no version to replace), and the caller's item lock *)
(* and claim: it asks for one run at a time in a process, and takes the    *)
(* result only if the source was not written since (commit_uploaded).      *)
(***************************************************************************)
EXTENDS Naturals, Sequences

CONSTANTS Daemon, Commands, \* processes that upload
          Fragments,    \* of the file (10 MiB each)
          MaxAttempts,  \* requests of one fragment (3 in the code)
          MaxStalls,    \* answers in a row that do not advance (3 in the code)
          None,
          Scenarios     \* bounds: how often each of Kinds may happen

Kinds == {"write", "run", "fault", "death"}
ASSUME UploadSessionAssumption ==
    /\ {Fragments, MaxAttempts, MaxStalls} \subseteq Nat \ {0}
    /\ Scenarios \subseteq [Kinds -> Nat]

Procs == {Daemon} \cup Commands

VARIABLES
    source,   \* fragment -> the write its bytes come from
    clock,    \* the number of the last write
    stamp,    \* its time of change, in seconds
    tied,     \* history: two versions have the same time of change
    row,      \* the caller's record: [etag, settled]
    drive,    \* the item: [rev, content], and the stamp of its session (history)
    sessions, \* the sessions handed out: [etag, stamp, got, open]
    disk,     \* the entry of the file in upload-sessions.json, or None
    memory,   \* process -> its copy of that entry
    run,      \* process -> its upload of the file
    budget    \* what is left of the scenario's

local == <<source, clock, stamp, tied>>
store == <<disk, memory>>
vars == <<local, row, drive, sessions, store, run, budget>>

Parts == 1 .. Fragments
Urls == DOMAIN sessions
Idle == [pc |-> "idle", made |-> [i \in Parts |-> 0], etag |-> 0, stamp |-> 0, url |-> 0,
         offset |-> 0, chunk |-> 0, attempt |-> 0, stalled |-> 0, rev |-> 0]

At(p, pc) == run[p].pc = pc
Goto(p, r) == run' = [run EXCEPT ![p] = r]
Go(p, pc) == run' = [run EXCEPT ![p].pc = pc]

\* The fragment at the offset is read, and is to be sent.
Fragment(p, offset, stalled) ==
    Goto(p, [run[p] EXCEPT !.pc = "send", !.offset = offset, !.stalled = stalled,
                           !.chunk = source[offset + 1], !.attempt = 1])

Spend(b) == budget[b] > 0 /\ budget' = [budget EXCEPT ![b] = @ - 1]
\* A request fails, an answer is lost, a file cannot be written.
Fault == Spend("fault")
\* The run fails; its caller asks for another one (the recovery scan).
Fail(p) == Goto(p, Idle)

---------------------------------------------------------------------------
(* Programs, the drive, and the caller. *)

\* A program writes a fragment, in the same second as the last write or later.
Write(i) ==
    /\ Spend("write")
    /\ clock' = clock + 1
    /\ source' = [source EXCEPT ![i] = clock']
    /\ \/ stamp' = stamp + 1 /\ UNCHANGED tied
       \/ stamp' = stamp /\ tied' = TRUE
    /\ row' = [row EXCEPT !.settled = FALSE]
    /\ UNCHANGED <<drive, sessions, store, run>>

\* The drive gives a session up, or forgets the last fragment it received.
Expire(u) ==
    /\ sessions[u].open /\ Fault
    /\ sessions' = [sessions EXCEPT ![u].open = FALSE]
    /\ UNCHANGED <<local, row, drive, store, run>>

FallBehind(u) ==
    /\ sessions[u].open /\ sessions[u].got # <<>> /\ Fault
    /\ sessions' = [sessions EXCEPT ![u].got = SubSeq(@, 1, Len(@) - 1)]
    /\ UNCHANGED <<local, row, drive, store, run>>

\* The row learns the version of the item (the delta refresh).
Refresh ==
    /\ row.etag # drive.rev
    /\ row' = [row EXCEPT !.etag = drive.rev]
    /\ UNCHANGED <<local, drive, sessions, store, run, budget>>

\* A process dies and starts again with what is on disk.
Restart(p) ==
    /\ Spend("death")
    /\ memory' = [memory EXCEPT ![p] = disk]
    /\ Goto(p, Idle)
    /\ UNCHANGED <<local, row, drive, sessions, disk>>

---------------------------------------------------------------------------
(* A run: upload_file_with_version. *)

\* The caller claims the row: the version it will take the result for.
Claim(p) ==
    /\ At(p, "idle") /\ ~row.settled
    /\ IF p = Daemon THEN UNCHANGED budget ELSE Spend("run")
    /\ Goto(p, [Idle EXCEPT !.pc = "stat", !.made = source, !.etag = row.etag])
    /\ UNCHANGED <<local, row, drive, sessions, store>>

\* Slip: a session for other bytes is continued.
Slip_Matches(e, time, etag) == e # None /\ e.etag = etag

\* matching_upload_session
Matches(e, time, etag) == e # None /\ e.stamp = time /\ e.etag = etag

Stat(p) ==
    /\ At(p, "stat")
    /\ LET r == [run[p] EXCEPT !.stamp = stamp]
       IN  IF Matches(memory[p], stamp, r.etag)
           THEN Goto(p, [r EXCEPT !.pc = "ask", !.url = memory[p].url])
           ELSE Goto(p, [r EXCEPT !.pc = "forget"])
    /\ UNCHANGED <<local, row, drive, sessions, store, budget>>

\* Slip: a failed request is taken for a session that is gone.
Slip_Ask(p) ==
    /\ At(p, "ask")
    /\ LET s == sessions[run[p].url]
       IN  \/ /\ s.open /\ UNCHANGED budget
              /\ Fragment(p, Len(s.got), 0)
           \/ ~s.open /\ UNCHANGED budget /\ Go(p, "forget")
           \/ Fault /\ Go(p, "forget")
    /\ UNCHANGED <<local, row, drive, sessions, store>>

\* query_upload_offset: only an answer that the session is gone permits starting
\* over; a failure ends the run.
Ask(p) ==
    /\ At(p, "ask")
    /\ LET s == sessions[run[p].url]
       IN  \/ /\ s.open /\ UNCHANGED budget
              /\ Fragment(p, Len(s.got), 0)
           \/ ~s.open /\ UNCHANGED budget /\ Go(p, "forget")
           \/ Fault /\ Fail(p)
    /\ UNCHANGED <<local, row, drive, sessions, store>>

\* remove_upload_session: the file is written if there was an entry, and a
\* failure of that is passed over.
Remove(p) ==
    /\ memory' = [memory EXCEPT ![p] = None]
    /\ \/ memory[p] # None /\ disk' = None /\ UNCHANGED budget
       \/ memory[p] # None /\ disk' = disk /\ Fault
       \/ memory[p] = None /\ UNCHANGED <<disk, budget>>

Forget(p) ==
    /\ At(p, "forget") /\ Remove(p) /\ Go(p, "create")
    /\ UNCHANGED <<local, row, drive, sessions>>

\* A new session; the drive refuses one for a version that is not the item's.
Create(p) ==
    /\ At(p, "create")
    /\ \/ /\ run[p].etag = drive.rev
          /\ sessions' = Append(sessions, [etag |-> run[p].etag, stamp |-> run[p].stamp,
                                           got |-> <<>>, open |-> TRUE])
          /\ Goto(p, [run[p] EXCEPT !.pc = "save", !.url = Len(sessions) + 1])
          /\ UNCHANGED budget
       \/ run[p].etag # drive.rev /\ Fail(p) /\ UNCHANGED <<sessions, budget>>
       \/ Fault /\ Fail(p) /\ UNCHANGED sessions
    /\ UNCHANGED <<local, row, drive, store>>

\* save_upload_session: in memory first; the run fails if the file cannot be
\* written.
Save(p) ==
    /\ At(p, "save")
    /\ memory' = [memory EXCEPT ![p] = [url |-> run[p].url, stamp |-> run[p].stamp,
                                        etag |-> run[p].etag]]
    /\ \/ disk' = memory'[p] /\ Fragment(p, 0, 0) /\ UNCHANGED budget
       \/ UNCHANGED disk /\ Fail(p) /\ Fault
    /\ UNCHANGED <<local, row, drive, sessions>>

---------------------------------------------------------------------------
(* upload_session_file.  Every fragment is read again from the source, and   *)
(* what was read is sent in all its attempts.                              *)

\* Slip: an answer that does not advance is tried again for ever.
Slip_Advance(p, next) ==
    IF next <= run[p].offset
    THEN Fragment(p, run[p].offset, run[p].stalled)
    ELSE Fragment(p, next, 0)

\* Where the drive wants the next fragment: a run never goes back, and gives up
\* when it does not get on.
Advance(p, next) ==
    IF next <= run[p].offset
    THEN IF run[p].stalled + 1 >= MaxStalls THEN Fail(p)
         ELSE Fragment(p, run[p].offset, run[p].stalled + 1)
    ELSE Fragment(p, next, 0)

\* The drive receives the fragment; the answer may be lost.
Received(p) ==
    LET s == sessions[run[p].url]
    IN  /\ At(p, "send") /\ s.open /\ Len(s.got) = run[p].offset
        /\ Len(s.got) + 1 < Fragments
        /\ sessions' = [sessions EXCEPT ![run[p].url].got = Append(@, run[p].chunk)]
        /\ \/ Advance(p, Len(s.got) + 1) /\ UNCHANGED budget
           \/ Go(p, "query") /\ Fault
        /\ UNCHANGED <<local, row, drive, store>>

\* With the last fragment the item gets its new content, if it still has the
\* version that was to be replaced.
Finished(p) ==
    LET s == sessions[run[p].url]
    IN  /\ At(p, "send") /\ s.open /\ Len(s.got) = run[p].offset
        /\ Len(s.got) + 1 = Fragments
        /\ sessions' = [sessions EXCEPT ![run[p].url].open = FALSE]
        /\ IF s.etag = drive.rev
           THEN /\ drive' = [rev |-> drive.rev + 1, content |-> Append(s.got, run[p].chunk),
                             stamp |-> s.stamp]
                /\ \/ Goto(p, [run[p] EXCEPT !.pc = "done", !.rev = drive.rev + 1])
                      /\ UNCHANGED budget
                   \/ Go(p, "query") /\ Fault
           ELSE Fail(p) /\ UNCHANGED <<drive, budget>>
        /\ UNCHANGED <<local, row, store>>

\* The drive wants another fragment (416), the session is gone (404), or the
\* request does not arrive.
Unwanted(p) ==
    LET s == sessions[run[p].url]
    IN  /\ At(p, "send")
        /\ \/ s.open /\ Len(s.got) # run[p].offset /\ Go(p, "range") /\ UNCHANGED budget
           \/ ~s.open /\ Fail(p) /\ UNCHANGED budget
           \/ Go(p, "query") /\ Fault
        /\ UNCHANGED <<local, row, drive, sessions, store>>

\* After a 416 the run goes on where the drive says, or fails.
Realign(p) ==
    LET s == sessions[run[p].url]
    IN  /\ At(p, "range")
        /\ \/ s.open /\ Advance(p, Len(s.got)) /\ UNCHANGED budget
           \/ ~s.open /\ Fail(p) /\ UNCHANGED budget
           \/ Fail(p) /\ Fault
        /\ UNCHANGED <<local, row, drive, sessions, store>>

\* After a failure the same fragment is sent again, unless the drive says that it
\* has it; an answer that it has not, or none, makes no difference.
Again(p) == IF run[p].attempt >= MaxAttempts THEN Fail(p)
            ELSE Goto(p, [run[p] EXCEPT !.pc = "send", !.attempt = @ + 1])

Query(p) ==
    LET s == sessions[run[p].url]
    IN  /\ At(p, "query")
        /\ \/ s.open /\ Len(s.got) > run[p].offset /\ Advance(p, Len(s.got)) /\ UNCHANGED budget
           \/ ~(s.open /\ Len(s.got) > run[p].offset) /\ Again(p) /\ UNCHANGED budget
           \/ Again(p) /\ Fault
        /\ UNCHANGED <<local, row, drive, sessions, store>>

Done(p) ==
    /\ At(p, "done") /\ Remove(p) /\ Go(p, "commit")
    /\ UNCHANGED <<local, row, drive, sessions>>

\* The caller takes the result, if the source was not written since its claim.
Commit(p) ==
    /\ At(p, "commit")
    /\ row' = IF source = run[p].made THEN [etag |-> run[p].rev, settled |-> TRUE] ELSE row
    /\ Goto(p, Idle)
    /\ UNCHANGED <<local, drive, sessions, store, budget>>

---------------------------------------------------------------------------
Step(p) == \/ Claim(p) \/ Stat(p) \/ Ask(p) \/ Forget(p) \/ Create(p) \/ Save(p)
           \/ Received(p) \/ Finished(p) \/ Unwanted(p) \/ Realign(p) \/ Query(p)
           \/ Done(p) \/ Commit(p)

Init ==
    /\ source = [i \in Parts |-> 1] /\ clock = 1 /\ stamp = 1 /\ tied = FALSE
    /\ row = [etag |-> 0, settled |-> FALSE]
    /\ drive = [rev |-> 0, content |-> [i \in Parts |-> 0], stamp |-> 0]
    /\ sessions = <<>> /\ disk = None /\ memory = [p \in Procs |-> None]
    /\ run = [p \in Procs |-> Idle]
    /\ budget \in Scenarios

Next == \/ \E i \in Parts : Write(i)
        \/ \E u \in Urls : Expire(u) \/ FallBehind(u)
        \/ Refresh
        \/ \E p \in Procs : Step(p) \/ Restart(p)

Spec == Init /\ [][Next]_vars

\* Requests end (the HTTP client has a timeout), the recovery scan of the daemon
\* asks for the upload again once a minute, and the delta is refreshed.
FairSpec == Spec /\ WF_vars(Step(Daemon)) /\ WF_vars(Refresh)

---------------------------------------------------------------------------
(* Properties. *)

\* What is recorded as uploaded is on the drive, whole: whatever fails, whichever
\* process goes on with a session, and whenever the source is written, no item is
\* made of the fragments of two versions and taken for the last one
\* (matching_upload_session, upload_session_file), as long as no two versions have
\* the same second.
Whole == row.settled /\ ~tied => drive.content = source

\* What was sent is not sent again: a session for these very bytes is forgotten
\* only once the drive has given it up or has the item, never because a request
\* for its state failed (query_upload_offset).
KeepsProgress ==
    [][\A p \in Procs : At(p, "forget") /\ Matches(memory[p], run[p].stamp, run[p].etag)
          /\ memory'[p] = None => ~sessions[memory[p].url].open]_vars

\* A source that is left alone is uploaded in the end, although the drive falls
\* behind, answers are lost, sessions expire and processes die.
Delivered == <>[]row.settled
=============================================================================
