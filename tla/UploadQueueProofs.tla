------------------------- MODULE UploadQueueProofs -------------------------
(***************************************************************************)
(* Proofs about UploadQueue, for any sets of items and workers.            *)
(***************************************************************************)
EXTENDS UploadQueue, FiniteSetTheorems, TLAPS

LEMMA WorkersNat == Cardinality(Workers) \in Nat
  BY WorkersAssumption, FS_CardinalityType

\* What appending a command does to the channel.
LEMMA AppendFacts ==
  ASSUME NEW S, NEW q \in Seq(S), NEW x \in S
  PROVE  /\ Append(q, x) \in Seq(S)
         /\ Len(Append(q, x)) = Len(q) + 1
         /\ \A i \in 1..Len(q) : Append(q, x)[i] = q[i]
         /\ Append(q, x)[Len(q) + 1] = x
  OBVIOUS

\* What receiving a command does to the channel.
LEMMA TailFacts ==
  ASSUME NEW S, NEW q \in Seq(S), q # <<>>
  PROVE  /\ Head(q) \in S
         /\ Head(q) = q[1]
         /\ Len(q) >= 1
         /\ Tail(q) \in Seq(S)
         /\ Len(Tail(q)) = Len(q) - 1
         /\ \A i \in 1..Len(Tail(q)) : Tail(q)[i] = q[i + 1]
  OBVIOUS

LEMMA InitIInv == Init => IInv
  <1> SUFFICES ASSUME Init PROVE IInv
    OBVIOUS
  <1>1. TypeOK
    BY WorkersNat DEF Init, TypeOK
  <1>2. HoldsKey /\ QueuedOnce /\ QueuedIsIdle /\ MapCovers /\ OneRunPerKey /\ NoLostRequest
    BY DEF Init, HoldsKey, QueuedOnce, QueuedIsIdle, MapCovers, OneRunPerKey,
           NoLostRequest, InQueue, Busy
  <1> QED
    BY <1>1, <1>2 DEF IInv

-----------------------------------------------------------------------------
(* One lemma per action                                                    *)

\* A critical section of UploadQueue::send, by a sender or by the end of a run.
LEMMA SendIInv ==
  ASSUME IInv, NEW k \in Keys, Send(k), UNCHANGED <<cmd, stops>>,
         wanted' \subseteq wanted \cup {k},
         NEW w \in Workers,
         \/ UNCHANGED pc
         \/ pc[w] = "resend" /\ cmd[w] = k /\ pc' = [pc EXCEPT ![w] = "recv"]
  PROVE  IInv'
  <1> USE DEF IInv
  <1>a. /\ pc' \in [Workers -> {"recv", "popped", "started", "working", "resend", "gone"}]
        /\ \A v \in Workers : pc'[v] # pc[v] => pc'[v] = "recv" /\ pc[v] = "resend" /\ cmd[v] = k
    BY DEF TypeOK
  <1>b. \A v \in Workers, j \in Keys : Busy(v, j)' <=> Busy(v, j)
    BY <1>a DEF Busy
  <1>c. HoldsKey' /\ OneRunPerKey'
    BY <1>a, <1>b DEF HoldsKey, OneRunPerKey
  <1>1. CASE pending[k] # "absent"
    <2>1. pending' = [pending EXCEPT ![k] = "rerun"] /\ UNCHANGED queue
      BY <1>1 DEF Send
    <2>2. TypeOK'
      BY <2>1, <1>a DEF TypeOK
    <2>3. QueuedOnce' /\ QueuedIsIdle'
      BY <2>1, <1>a DEF QueuedOnce, QueuedIsIdle, Busy
    <2>4. MapCovers'
      BY <2>1, <1>b DEF TypeOK, MapCovers, InQueue
    <2>5. NoLostRequest'
      BY <2>1, <1>a DEF TypeOK, NoLostRequest, InQueue
    <2> QED
      BY <1>c, <2>2, <2>3, <2>4, <2>5
  <1>2. CASE pending[k] = "absent"
    <2>1. /\ pending' = [pending EXCEPT ![k] = "queued"]
          /\ queue' = Append(queue, k)
      BY <1>2 DEF Send
    <2>2. /\ queue' \in Seq(Keys \cup {Shutdown})
          /\ Len(queue') = Len(queue) + 1
          /\ \A i \in 1..Len(queue) : queue'[i] = queue[i]
          /\ queue'[Len(queue) + 1] = k
          /\ Len(queue) \in Nat
      BY <2>1, AppendFacts DEF TypeOK
    <2>3. \A j \in Keys : InQueue(j)' <=> InQueue(j) \/ j = k
      BY <2>2 DEF InQueue
    <2>4. ~ InQueue(k) /\ \A v \in Workers : ~ Busy(v, k)
      BY <1>2 DEF MapCovers
    <2>5. TypeOK'
      BY <2>1, <2>2, <1>a DEF TypeOK
    <2>6. QueuedOnce'
      BY <2>2, <2>4 DEF QueuedOnce, InQueue
    <2>7. QueuedIsIdle'
      BY <2>2, <2>4, <1>a DEF QueuedIsIdle, Busy
    <2>8. MapCovers'
      BY <2>1, <2>3, <1>b DEF TypeOK, MapCovers
    <2>9. NoLostRequest'
      BY <2>1, <2>3, <1>2, <1>a DEF TypeOK, NoLostRequest
    <2> QED
      BY <1>c, <2>5, <2>6, <2>7, <2>8, <2>9
  <1> QED
    BY <1>1, <1>2

LEMMA SendShutdownIInv ==
  ASSUME IInv, SendShutdown
  PROVE  IInv'
  <1> USE DEF IInv
  <1>1. /\ queue' \in Seq(Keys \cup {Shutdown})
        /\ Len(queue') = Len(queue) + 1
        /\ \A i \in 1..Len(queue) : queue'[i] = queue[i]
        /\ queue'[Len(queue) + 1] = Shutdown
        /\ Len(queue) \in Nat
    BY AppendFacts DEF SendShutdown, TypeOK
  <1>2. \A k \in Keys : InQueue(k)' <=> InQueue(k)
    BY <1>1, ShutdownAssumption DEF InQueue
  <1>3. TypeOK'
    BY <1>1, WorkersNat DEF SendShutdown, TypeOK
  <1>4. HoldsKey' /\ OneRunPerKey'
    BY DEF SendShutdown, HoldsKey, OneRunPerKey, Busy
  <1>5. QueuedOnce'
    BY <1>1 DEF QueuedOnce
  <1>6. QueuedIsIdle'
    BY <1>1, ShutdownAssumption DEF SendShutdown, QueuedIsIdle, HoldsKey, Busy
  <1>7. MapCovers' /\ NoLostRequest'
    BY <1>2 DEF SendShutdown, TypeOK, MapCovers, NoLostRequest, Busy
  <1> QED
    BY <1>3, <1>4, <1>5, <1>6, <1>7

LEMMA ReceiveIInv ==
  ASSUME IInv, NEW w \in Workers, Receive(w)
  PROVE  IInv'
  <1> USE DEF IInv
  <1> DEFINE c == Head(queue)
  <1>1. /\ c \in Keys \cup {Shutdown}
        /\ c = queue[1]
        /\ queue' \in Seq(Keys \cup {Shutdown})
        /\ Len(queue) \in Nat /\ Len(queue) >= 1
        /\ Len(queue') = Len(queue) - 1
        /\ \A i \in 1..Len(queue') : queue'[i] = queue[i + 1]
    BY TailFacts DEF Receive, TypeOK
  <1>2. \A k \in Keys : InQueue(k) <=> InQueue(k)' \/ k = c
    <2> SUFFICES ASSUME NEW k \in Keys PROVE InQueue(k) <=> InQueue(k)' \/ k = c
      OBVIOUS
    <2>1. ASSUME NEW i \in 1..Len(queue), queue[i] = k, i # 1 PROVE InQueue(k)'
      <3>1. i - 1 \in 1..Len(queue') /\ queue'[i - 1] = k
        BY <1>1, <2>1
      <3> QED
        BY <3>1 DEF InQueue
    <2>2. ASSUME NEW i \in 1..Len(queue'), queue'[i] = k PROVE InQueue(k)
      <3>1. i + 1 \in 1..Len(queue) /\ queue[i + 1] = k
        BY <1>1, <2>2
      <3> QED
        BY <3>1 DEF InQueue
    <2>3. k = c => InQueue(k)
      BY <1>1 DEF InQueue
    <2> QED
      BY <1>1, <2>1, <2>2, <2>3 DEF InQueue
  <1>3. ASSUME NEW k \in Keys, k = c PROVE ~ InQueue(k)' /\ \A v \in Workers : ~ Busy(v, k)
    <2>1. ASSUME NEW i \in 1..Len(queue'), queue'[i] = k PROVE FALSE
      <3>1. i + 1 \in 1..Len(queue) /\ queue[i + 1] = k /\ 1 \in 1..Len(queue)
        BY <1>1, <2>1
      <3>2. i + 1 = 1
        BY <3>1, <1>1, <1>3, ShutdownAssumption DEF QueuedOnce
      <3> QED
        BY <1>1, <3>2
    <2>2. ~ InQueue(k)'
      BY <2>1 DEF InQueue
    <2>3. 1 \in 1..Len(queue)
      BY <1>1
    <2> QED
      BY <2>2, <2>3, <1>1, <1>3 DEF QueuedIsIdle
  <1>4. /\ pc'[w] = IF c = Shutdown THEN "gone" ELSE "popped"
        /\ cmd'[w] = c
        /\ \A v \in Workers \ {w} : pc'[v] = pc[v] /\ cmd'[v] = cmd[v]
        /\ pc[w] = "recv"
        /\ UNCHANGED <<pending, stops, wanted>>
    BY DEF Receive, TypeOK
  <1>5. TypeOK'
    BY <1>1 DEF Receive, TypeOK
  <1>6. HoldsKey'
    BY <1>1, <1>4 DEF HoldsKey
  <1>7. \A v \in Workers, k \in Keys :
          Busy(v, k)' <=> Busy(v, k) \/ (v = w /\ k = c)
    BY <1>1, <1>4, ShutdownAssumption DEF Busy
  <1>8. QueuedOnce'
    <2> SUFFICES ASSUME NEW i \in 1..Len(queue'), NEW j \in 1..Len(queue'),
                        queue'[i] = queue'[j], queue'[i] # Shutdown
                 PROVE  i = j
      BY DEF QueuedOnce
    <2>1. i + 1 \in 1..Len(queue) /\ j + 1 \in 1..Len(queue)
      BY <1>1
    <2>2. i + 1 = j + 1
      BY <1>1, <2>1 DEF QueuedOnce
    <2> QED
      BY <2>2
  <1>9. QueuedIsIdle'
    <2> SUFFICES ASSUME NEW i \in 1..Len(queue'), NEW v \in Workers, NEW k,
                        k = queue'[i], Busy(v, k)'
                 PROVE  FALSE
      BY DEF QueuedIsIdle, Busy
    <2>1. k \in Keys
      BY <1>6 DEF HoldsKey, Busy
    <2>2. Busy(v, k) \/ (v = w /\ k = c)
      BY <2>1, <1>7
    <2>3. i + 1 \in 1..Len(queue) /\ queue[i + 1] = k
      BY <1>1
    <2>4. ~ Busy(v, k)
      BY <2>3 DEF QueuedIsIdle
    <2>5. k = c /\ InQueue(k)'
      BY <2>2, <2>4 DEF InQueue
    <2> QED
      BY <2>1, <2>5, <1>3
  <1>10. MapCovers'
    BY <1>2, <1>4, <1>7 DEF MapCovers
  <1>11. OneRunPerKey'
    BY <1>3, <1>7, ShutdownAssumption DEF OneRunPerKey
  <1>12. NoLostRequest'
    <2> SUFFICES ASSUME NEW k \in wanted, ~ InQueue(k)', pending[k] # "rerun"
                 PROVE  \E v \in Workers : /\ pc'[v] \in {"popped", "started", "resend"}
                                           /\ cmd'[v] = k
      BY <1>4 DEF NoLostRequest
    <2>0. k \in Keys /\ k # Shutdown
      BY ShutdownAssumption DEF TypeOK
    <2>1. CASE k = c
      BY <2>0, <2>1, <1>4
    <2>2. CASE k # c
      <3>1. ~ InQueue(k)
        BY <1>2, <2>0, <2>2
      <3>2. PICK v \in Workers : pc[v] \in {"popped", "started", "resend"} /\ cmd[v] = k
        BY <3>1 DEF NoLostRequest
      <3> QED
        BY <3>2, <1>4
    <2> QED
      BY <2>1, <2>2
  <1> QED
    BY <1>5, <1>6, <1>8, <1>9, <1>10, <1>11, <1>12

LEMMA StartIInv ==
  ASSUME IInv, NEW w \in Workers, Start(w)
  PROVE  IInv'
  <1> USE DEF IInv
  <1>1. cmd[w] \in Keys /\ Busy(w, cmd[w])
    BY DEF Start, HoldsKey, Busy
  <1>2. \A v \in Workers, k \in Keys : Busy(v, k)' <=> Busy(v, k)
    BY DEF Start, TypeOK, Busy
  <1>3. \A k \in Keys : InQueue(k)' <=> InQueue(k)
    BY DEF Start, InQueue
  <1>4. TypeOK' /\ HoldsKey' /\ QueuedOnce'
    BY <1>1 DEF Start, TypeOK, HoldsKey, QueuedOnce
  <1>5. QueuedIsIdle'
    BY DEF Start, TypeOK, QueuedIsIdle, Busy
  <1>6. MapCovers' /\ OneRunPerKey'
    BY <1>1, <1>2, <1>3 DEF Start, TypeOK, MapCovers, OneRunPerKey
  <1>7. NoLostRequest'
    BY <1>3 DEF Start, TypeOK, NoLostRequest
  <1> QED
    BY <1>4, <1>5, <1>6, <1>7

LEMMA LookIInv ==
  ASSUME IInv, NEW w \in Workers, Look(w)
  PROVE  IInv'
  <1> USE DEF IInv
  <1>1. TypeOK' /\ HoldsKey' /\ QueuedOnce'
    BY DEF Look, TypeOK, HoldsKey, QueuedOnce
  <1>2. QueuedIsIdle' /\ MapCovers' /\ OneRunPerKey'
    BY DEF Look, TypeOK, QueuedIsIdle, MapCovers, OneRunPerKey, InQueue, Busy
  <1>3. NoLostRequest'
    BY DEF Look, TypeOK, NoLostRequest, InQueue
  <1> QED
    BY <1>1, <1>2, <1>3

LEMMA ChainDeleteIInv ==
  ASSUME IInv, NEW w \in Workers, ChainDelete(w)
  PROVE  IInv'
  <1>1. <<"delete", cmd[w][2]>> \in Keys
    BY DEF ChainDelete, IInv, HoldsKey, Keys
  <1> QED
    BY <1>1, SendIInv DEF ChainDelete

LEMMA RequestIInv ==
  ASSUME IInv, NEW k \in Keys, Request(k)
  PROVE  IInv'
  <1>1. PICK w \in Workers : TRUE
    BY WorkersAssumption
  <1> QED
    BY <1>1, SendIInv DEF Request

LEMMA ResendIInv ==
  ASSUME IInv, NEW w \in Workers, Resend(w)
  PROVE  IInv'
  <1>1. cmd[w] \in Keys
    BY DEF Resend, IInv, HoldsKey
  <1> QED
    BY <1>1, SendIInv DEF Resend

LEMMA FinishIInv ==
  ASSUME IInv, NEW w \in Workers, Finish(w)
  PROVE  IInv'
  <1> USE DEF IInv
  <1>1. cmd[w] \in Keys /\ Busy(w, cmd[w])
    BY DEF Finish, HoldsKey, Busy
  <1>2. \A v \in Workers, k \in Keys : Busy(v, k)' <=> Busy(v, k) /\ v # w
    BY DEF Finish, TypeOK, Busy
  <1>3. \A k \in Keys : InQueue(k)' <=> InQueue(k)
    BY DEF Finish, InQueue
  <1>4. TypeOK' /\ HoldsKey' /\ QueuedOnce'
    BY <1>1 DEF Finish, TypeOK, HoldsKey, QueuedOnce
  <1>5. QueuedIsIdle'
    BY DEF Finish, TypeOK, QueuedIsIdle, Busy
  <1>6. OneRunPerKey'
    BY <1>2 DEF OneRunPerKey
  <1>7. MapCovers'
    BY <1>1, <1>2, <1>3 DEF Finish, TypeOK, MapCovers, OneRunPerKey, QueuedIsIdle, InQueue
  <1>8. NoLostRequest'
    BY <1>1, <1>3 DEF Finish, TypeOK, NoLostRequest
  <1> QED
    BY <1>4, <1>5, <1>6, <1>7, <1>8

LEMMA NextIInv == IInv /\ [Next]_vars => IInv'
  <1> SUFFICES ASSUME IInv, [Next]_vars PROVE IInv'
    OBVIOUS
  <1>1. ASSUME NEW k \in Keys, Request(k) PROVE IInv'
    BY <1>1, RequestIInv
  <1>2. CASE SendShutdown
    BY <1>2, SendShutdownIInv
  <1>3. ASSUME NEW w \in Workers, WorkerMust(w) \/ ChainDelete(w) PROVE IInv'
    BY <1>3, ReceiveIInv, StartIInv, LookIInv, FinishIInv, ResendIInv, ChainDeleteIInv
       DEF WorkerMust
  <1>4. CASE UNCHANGED vars
    BY <1>4 DEF vars, IInv, TypeOK, HoldsKey, QueuedOnce, QueuedIsIdle, MapCovers,
                OneRunPerKey, NoLostRequest, InQueue, Busy
  <1> QED
    BY <1>1, <1>2, <1>3, <1>4 DEF Next

-----------------------------------------------------------------------------
(* The theorems                                                            *)

\* The inductive invariant holds in every reachable state.
THEOREM Invariance == Spec => []IInv
  BY InitIInv, NextIInv, PTL DEF Spec

\* The state of the queue keeps its types: in particular the map holds only
\* items, never the Shutdown command, and a drop sends one Shutdown per worker.
THEOREM TypeCorrect == Spec => []TypeOK
  <1>1. IInv => TypeOK
    BY DEF IInv
  <1> QED
    BY Invariance, <1>1, PTL

\* However many senders and workers there are, no key is worked on twice at a
\* time (UploadQueue::send and UploadRun in upload_queue.rs).
THEOREM NoOverlap == Spec => []OneRunPerKey
  <1>1. IInv => OneRunPerKey
    BY DEF IInv
  <1> QED
    BY Invariance, <1>1, PTL

\* However requests are coalesced and reruns sent late, a request not yet looked
\* at is in the channel, flagged, or in the hands of a worker that will look.
THEOREM NothingSwallowed == Spec => []NoLostRequest
  <1>1. IInv => NoLostRequest
    BY DEF IInv
  <1> QED
    BY Invariance, <1>1, PTL

-----------------------------------------------------------------------------
(* The queue implements the promise of CoalescedRuns                       *)

LEMMA ActiveIff ==
  \A r \in Workers, k \in Keys :
    <<r, k>> \in active <=> pc[r] \in {"started", "working"} /\ cmd[r] = k
  BY DEF active

\* Steps that do not move a worker between "idle" and "running" leave the set of
\* runs as it is.
LEMMA ActiveSame ==
  ASSUME \A v \in Workers : /\ pc'[v] \in {"started", "working"} <=> pc[v] \in {"started", "working"}
                            /\ pc[v] \in {"started", "working"} => cmd'[v] = cmd[v]
  PROVE  UNCHANGED active
  BY DEF active

LEMMA StepRefines == IInv /\ [Next]_vars => [Runs!AbsNext]_(Runs!absVars)
  <1> SUFFICES ASSUME IInv, [Next]_vars PROVE [Runs!AbsNext]_(Runs!absVars)
    OBVIOUS
  <1> USE DEF Runs!absVars
  <1>0. /\ pc \in [Workers -> {"recv", "popped", "started", "working", "resend", "gone"}]
        /\ cmd \in [Workers -> Keys \cup {Shutdown}]
        /\ HoldsKey /\ OneRunPerKey
    BY DEF IInv, TypeOK
  <1>1. ASSUME NEW k \in Keys, Request(k) PROVE Runs!AbsNext
    <2>1. Runs!Ask(k)
      BY <1>1 DEF Request, Runs!Ask, active
    <2> QED
      BY <2>1 DEF Runs!AbsNext
  <1>2. CASE SendShutdown
    BY <1>2 DEF SendShutdown, active
  <1>3. ASSUME NEW w \in Workers, ChainDelete(w) PROVE Runs!AbsNext
    <2>1. <<"delete", cmd[w][2]>> \in Keys
      BY <1>0, <1>3 DEF ChainDelete, HoldsKey, Keys
    <2>2. Runs!Ask(<<"delete", cmd[w][2]>>)
      BY <1>3 DEF ChainDelete, Runs!Ask, active
    <2> QED
      BY <2>1, <2>2 DEF Runs!AbsNext
  <1>4. ASSUME NEW w \in Workers, Receive(w) PROVE UNCHANGED <<wanted, active>>
    BY <1>0, <1>4, ActiveSame DEF Receive
  <1>5. ASSUME NEW w \in Workers, Start(w) PROVE Runs!AbsNext
    <2>1. cmd[w] \in Keys
      BY <1>0, <1>5 DEF Start, HoldsKey
    <2>2. \A q \in Workers : <<q, cmd[w]>> \notin active
      BY <1>0, <1>5, <2>1, ActiveIff DEF Start, OneRunPerKey, Busy
    <2>3. active' = active \cup {<<w, cmd[w]>>}
      BY <1>0, <1>5 DEF Start, active
    <2>4. Runs!Begin(w, cmd[w])
      BY <1>5, <2>2, <2>3 DEF Start, Runs!Begin
    <2> QED
      BY <2>1, <2>4 DEF Runs!AbsNext
  <1>6. ASSUME NEW w \in Workers, Look(w) PROVE Runs!AbsNext
    <2>1. cmd[w] \in Keys
      BY <1>0, <1>6 DEF Look, HoldsKey
    <2>2. <<w, cmd[w]>> \in active
      BY <1>6, <2>1, ActiveIff DEF Look
    <2>3. UNCHANGED active
      BY <1>0, <1>6, ActiveSame DEF Look
    <2>4. Runs!Observe(w, cmd[w])
      BY <1>6, <2>2, <2>3 DEF Look, Runs!Observe
    <2> QED
      BY <2>1, <2>4 DEF Runs!AbsNext
  <1>7. ASSUME NEW w \in Workers, Finish(w) PROVE Runs!AbsNext
    <2>1. cmd[w] \in Keys
      BY <1>0, <1>7 DEF Finish, HoldsKey
    <2>2. <<w, cmd[w]>> \in active
      BY <1>7, <2>1, ActiveIff DEF Finish
    <2>3. active' = active \ {<<w, cmd[w]>>}
      BY <1>0, <1>7 DEF Finish, active
    <2>4. Runs!End(w, cmd[w])
      BY <1>7, <2>2, <2>3 DEF Finish, Runs!End
    <2> QED
      BY <2>1, <2>4 DEF Runs!AbsNext
  <1>8. ASSUME NEW w \in Workers, Resend(w) PROVE UNCHANGED <<wanted, active>>
    BY <1>0, <1>8, ActiveSame DEF Resend
  <1>9. CASE UNCHANGED vars
    BY <1>9 DEF vars, active
  <1> QED
    BY <1>1, <1>2, <1>3, <1>4, <1>5, <1>6, <1>7, <1>8, <1>9 DEF Next, WorkerMust

\* The queue, its rerun flags and its late second send are an implementation of
\* CoalescedRuns, for any number of items and workers.
THEOREM Refinement == Spec => CoalescedSpec
  <1>1. Init => Runs!AbsInit
    BY DEF Init, Runs!AbsInit, active
  <1> QED
    BY <1>1, Invariance, StepRefines, PTL DEF Spec, CoalescedSpec, Runs!AbsSpec
=============================================================================
