---------------------------- MODULE UploadQueue ----------------------------
(***************************************************************************)
(* The command queue between the FUSE dispatcher, the recovery thread and  *)
(* the upload workers of twodrive-fs (upload_queue.rs).  A request for a   *)
(* key that is already queued or running only raises a rerun flag in the   *)
(* pending map; the run that ends with the flag raised sends the command   *)
(* again, outside the map's lock.  Dropping the pool sends one Shutdown    *)
(* per worker and joins them.                                              *)
(*                                                                         *)
(* A definition under "Slip:" is a wrong version of the one that follows   *)
(* it.  The specification never uses it; it shows what the properties can  *)
(* detect.                                                                 *)
(***************************************************************************)
EXTENDS Naturals, Sequences, FiniteSets

CONSTANTS
  Items,     \* local identities
  Workers,   \* upload worker threads
  Shutdown   \* the command that ends a worker

Keys == {"upload", "delete"} \X Items

ASSUME WorkersAssumption == IsFiniteSet(Workers) /\ Workers # {}
ASSUME ShutdownAssumption == Shutdown \notin Keys

VARIABLES
  queue,    \* the mpsc channel
  pending,  \* HashMap<String, bool>: "absent", "queued" (false), "rerun" (true)
  pc,       \* where each worker is in its loop
  cmd,      \* the command each worker took from the channel
  stops,    \* Shutdown commands sent by UploadPool::drop
  wanted    \* history: requests accepted and not yet seen by a database read

vars == <<queue, pending, pc, cmd, stops, wanted>>

Busy(w, k) == pc[w] \in {"popped", "started", "working"} /\ cmd[w] = k

\* The workers share the receiver: it is gone when the last of them returned.
ReceiverAlive == \E w \in Workers : pc[w] # "gone"

InQueue(k) == \E i \in 1..Len(queue) : queue[i] = k

TypeOK ==
  /\ queue \in Seq(Keys \cup {Shutdown})
  /\ pending \in [Keys -> {"absent", "queued", "rerun"}]
  /\ pc \in [Workers -> {"recv", "popped", "started", "working", "resend", "gone"}]
  /\ cmd \in [Workers -> Keys \cup {Shutdown}]
  /\ stops \in 0..Cardinality(Workers)
  /\ wanted \subseteq Keys

Init ==
  /\ queue = <<>>
  /\ pending = [k \in Keys |-> "absent"]
  /\ pc = [w \in Workers |-> "recv"]
  /\ cmd = [w \in Workers |-> Shutdown]
  /\ stops = 0
  /\ wanted = {}

-----------------------------------------------------------------------------
(* Sending                                                                 *)

\* Slip: a command that is pending is sent all the same.
SendAgain(k) ==
  /\ ReceiverAlive
  /\ pending' = [pending EXCEPT ![k] = IF @ = "absent" THEN "queued" ELSE "rerun"]
  /\ queue' = Append(queue, k)

\* UploadQueue::send of an upload or a delete, one critical section.
Send(k) ==
  \/ /\ pending[k] # "absent"
     /\ pending' = [pending EXCEPT ![k] = "rerun"]
     /\ UNCHANGED queue
  \/ /\ pending[k] = "absent"
     /\ ReceiverAlive
     /\ pending' = [pending EXCEPT ![k] = "queued"]
     /\ queue' = Append(queue, k)

\* The dispatcher or the recovery scan asks for work; an error ("upload queue
\* closed") leaves the map as it was and is no accepted request.
Request(k) ==
  /\ Send(k)
  /\ wanted' = wanted \cup {k}
  /\ UNCHANGED <<pc, cmd, stops>>

\* Slip: one Shutdown for all the workers.
SendOneShutdown ==
  /\ stops < 1
  /\ ReceiverAlive
  /\ stops' = stops + 1
  /\ queue' = Append(queue, Shutdown)
  /\ UNCHANGED <<pending, pc, cmd, wanted>>

\* Slip: one Shutdown too many.
SendSpareShutdown ==
  /\ stops <= Cardinality(Workers)
  /\ ReceiverAlive
  /\ stops' = stops + 1
  /\ queue' = Append(queue, Shutdown)
  /\ UNCHANGED <<pending, pc, cmd, wanted>>

\* UploadPool::drop sends one Shutdown per worker.
SendShutdown ==
  /\ stops < Cardinality(Workers)
  /\ ReceiverAlive
  /\ stops' = stops + 1
  /\ queue' = Append(queue, Shutdown)
  /\ UNCHANGED <<pending, pc, cmd, wanted>>

-----------------------------------------------------------------------------
(* A worker                                                                *)

Receive(w) ==
  /\ pc[w] = "recv"
  /\ queue # <<>>
  /\ queue' = Tail(queue)
  /\ cmd' = [cmd EXCEPT ![w] = Head(queue)]
  /\ pc' = [pc EXCEPT ![w] = IF Head(queue) = Shutdown THEN "gone" ELSE "popped"]
  /\ UNCHANGED <<pending, stops, wanted>>

\* UploadRun::start: requests made before the run looks need no rerun.
Start(w) ==
  /\ pc[w] = "popped"
  /\ pending' = [pending EXCEPT ![cmd[w]] = "queued"]
  /\ pc' = [pc EXCEPT ![w] = "started"]
  /\ UNCHANGED <<queue, cmd, stops, wanted>>

\* The run reads the record, the operation or the tombstone it works on.
Look(w) ==
  /\ pc[w] = "started"
  /\ pc' = [pc EXCEPT ![w] = "working"]
  /\ wanted' = wanted \ {cmd[w]}
  /\ UNCHANGED <<queue, pending, cmd, stops>>

\* After an upload whose record was deleted meanwhile, the worker asks for the
\* deletion while its own run is still registered.
ChainDelete(w) ==
  /\ pc[w] = "working"
  /\ cmd[w][1] = "upload"
  /\ Send(<<"delete", cmd[w][2]>>)
  /\ wanted' = wanted \cup {<<"delete", cmd[w][2]>>}
  /\ UNCHANGED <<pc, cmd, stops>>

\* Slip: the flag is dropped with the entry.
FinishForgetting(w) ==
  /\ pc[w] = "working"
  /\ pending' = [pending EXCEPT ![cmd[w]] = "absent"]
  /\ pc' = [pc EXCEPT ![w] = "recv"]
  /\ UNCHANGED <<queue, cmd, stops, wanted>>

\* UploadRun::drop, first half: leave the map, remembering the flag.
Finish(w) ==
  /\ pc[w] = "working"
  /\ pending' = [pending EXCEPT ![cmd[w]] = "absent"]
  /\ pc' = [pc EXCEPT ![w] = IF pending[cmd[w]] = "rerun" THEN "resend" ELSE "recv"]
  /\ UNCHANGED <<queue, cmd, stops, wanted>>

\* UploadRun::drop, second half: send again without holding the map's lock.
Resend(w) ==
  /\ pc[w] = "resend"
  /\ Send(cmd[w])
  /\ pc' = [pc EXCEPT ![w] = "recv"]
  /\ UNCHANGED <<cmd, stops, wanted>>

\* ChainDelete is a step the run may take or leave (only if a tombstone exists).
WorkerMust(w) == Receive(w) \/ Start(w) \/ Look(w) \/ Finish(w) \/ Resend(w)

Next ==
  \/ \E k \in Keys : Request(k)
  \/ SendShutdown
  \/ \E w \in Workers : WorkerMust(w) \/ ChainDelete(w)

Spec == Init /\ [][Next]_vars

\* Every run ends (network calls time out), no thread is starved by the OS, and
\* a pool drop that began sends all its commands.
FairSpec ==
  /\ Spec
  /\ \A w \in Workers : WF_vars(WorkerMust(w))
  /\ WF_vars(stops > 0 /\ SendShutdown)

-----------------------------------------------------------------------------
(* Properties                                                              *)

\* No two workers hold the same command: the uploads, and the deletions, of
\* one item never overlap although any number of senders ask for them.
OneRunPerKey ==
  \A v, w \in Workers, k \in Keys : Busy(v, k) /\ Busy(w, k) => v = w

\* A request that no run has looked at yet is always going to be looked at: it
\* is in the channel, in the hands of a worker that has not looked, marked for
\* a rerun, or about to be sent again.  Coalescing never swallows it.
NoLostRequest ==
  \A k \in wanted :
    \/ InQueue(k)
    \/ pending[k] = "rerun"
    \/ \E w \in Workers :
         /\ pc[w] \in {"popped", "started", "resend"}
         /\ cmd[w] = k

\* Every accepted request is looked at, as long as the pool is not dropped.
RequestsServed ==
  \A k \in Keys : (k \in wanted) ~> (k \notin wanted \/ stops > 0)

\* Dropping the pool ends: every worker gets its Shutdown behind the work that
\* was queued, so the join in UploadPool::drop returns.
DropReturns == (stops > 0) ~> (\A w \in Workers : pc[w] = "gone")

-----------------------------------------------------------------------------
(* The inductive invariant                                                 *)

\* A key is at most once in the channel.
QueuedOnce ==
  \A i, j \in 1..Len(queue) :
    queue[i] = queue[j] /\ queue[i] # Shutdown => i = j

QueuedIsIdle ==
  \A i \in 1..Len(queue), w \in Workers : ~ Busy(w, queue[i])

\* The pending map knows every key that is queued or held.
MapCovers ==
  \A k \in Keys :
    pending[k] = "absent" => ~ InQueue(k) /\ \A w \in Workers : ~ Busy(w, k)

\* A worker past Receive holds a key, never a Shutdown.
HoldsKey ==
  \A w \in Workers :
    pc[w] \in {"popped", "started", "working", "resend"} => cmd[w] \in Keys

IInv ==
  /\ TypeOK
  /\ HoldsKey
  /\ QueuedOnce
  /\ QueuedIsIdle
  /\ MapCovers
  /\ OneRunPerKey
  /\ NoLostRequest

-----------------------------------------------------------------------------
(* Refinement of the promise                                               *)

\* The runs in progress: a worker that has left recv() with a key and started.
active == {<<w, cmd[w]>> : w \in {v \in Workers : pc[v] \in {"started", "working"}}}

Runs == INSTANCE CoalescedRuns WITH Runners <- Workers

\* The queue implements the promise of CoalescedRuns: whatever the senders and
\* the workers do, its steps are requests, runs that never overlap on a key,
\* looks that answer what was asked before, and ends that answer nothing.
CoalescedSpec == Runs!AbsSpec
=============================================================================
