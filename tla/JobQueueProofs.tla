--------------------------- MODULE JobQueueProofs ---------------------------
(***************************************************************************)
(* What holds of the queue for every capacity and any number of            *)
(* goroutines: types, the discipline of mu, no send on a closed channel,   *)
(* the exact value of the counter, and the refinement of FifoQueue; that   *)
(* main closes it when the requests are over, or have had their time; and  *)
(* that the jam is for ever and the only way to block it.                  *)
(***************************************************************************)
EXTENDS Shutdown, TLAPS, FiniteSetTheorems, SequenceTheorems

\* The type invariant needs to know that whoever is about to send carries a job.
Typed == TypeOK /\ Handover

LEMMA TypedInit == Init => Typed
<1> SUFFICES ASSUME Init PROVE Typed
  OBVIOUS
<1> USE DEF Init
<1>1. ch \in Seq(Jobs) /\ Len(ch) <= Capacity
  BY CapacityAssumption
<1>2. mu \in Producers \union {None} /\ length \in Int /\ closing \in {"idle", "lock", "done"}
  OBVIOUS
<1>3. closed \in BOOLEAN /\ ctxDone \in BOOLEAN /\ reading \in [Readers -> BOOLEAN]
  BY Zenon
<1>4. /\ enq \in [Producers -> {"idle", "lock", "send", "count"}]
      /\ sent \in [Producers -> Jobs \union {None}]
      /\ deq \in [Consumers -> {"select", "settle", "work", "exited"}]
      /\ got \in [Consumers -> Jobs \union {None}]
  OBVIOUS
<1>5. Handover
  BY DEF Handover
<1> QED
  BY <1>1, <1>2, <1>3, <1>4, <1>5 DEF Typed, TypeOK

\* Every step of the queue preserves it.
LEMMA TypedNext == Typed /\ [Next]_vars => Typed'
<1> SUFFICES ASSUME Typed, [Next]_vars PROVE Typed'
  OBVIOUS
<1> USE DEF Typed, TypeOK, Handover, queueVars, enqVars, deqVars
<1>1. ASSUME NEW p \in Producers, NEW j \in Jobs, CallEnqueue(p, j) PROVE Typed'
  BY <1>1, NoneAssumption DEF CallEnqueue
<1>2. ASSUME NEW p \in Producers, LockEnqueue(p) PROVE Typed'
  BY <1>2, NoneAssumption DEF LockEnqueue
<1>3. ASSUME NEW p \in Producers, Send(p) PROVE Typed'
  BY <1>3, CapacityAssumption, NoneAssumption DEF Send
<1>4. ASSUME NEW p \in Producers, CountSent(p) PROVE Typed'
  BY <1>4 DEF CountSent
<1>5. ASSUME NEW c \in Consumers, Receive(c) PROVE Typed'
  BY <1>5, CapacityAssumption, NoneAssumption DEF Receive
<1>6. ASSUME NEW c \in Consumers, CountReceived(c) PROVE Typed'
  BY <1>6 DEF CountReceived
<1>7. ASSUME NEW c \in Consumers, FinishWork(c) PROVE Typed'
  BY <1>7 DEF FinishWork
<1>8. ASSUME NEW c \in Consumers, ExitWorker(c) PROVE Typed'
  BY <1>8 DEF ExitWorker
<1>9. ASSUME NEW r \in Readers, QueueLen(r) PROVE Typed'
  BY <1>9 DEF QueueLen, CallLen, ReturnLen
<1>10. CASE Cancel \/ CallClose \/ Close
  BY <1>10 DEF Cancel, CallClose, Close
<1>11. CASE UNCHANGED vars
  BY <1>11 DEF vars
<1> QED
  BY <1>1, <1>2, <1>3, <1>4, <1>5, <1>6, <1>7, <1>8, <1>9, <1>10, <1>11
  DEF Next, Enqueue, Dequeue


\* The queue's variables are well typed in every reachable state.
THEOREM TypeCorrect == Spec => []TypeOK
<1>1. Spec => []Typed
  BY TypedInit, TypedNext, PTL DEF Spec
<1> QED
  BY <1>1, PTL DEF Typed

-----------------------------------------------------------------------------
(* The mutex and the closed flag *)

Locked == MutexHeld /\ NeverSendOnClosed

\* Only the goroutine that holds mu can be past the Lock of Enqueue, so a step of
\* anyone else that needs mu (Close above all) finds nobody about to send.
LEMMA LockedNext == Typed /\ Locked /\ [Next]_vars => Locked'
<1> SUFFICES ASSUME Typed, Locked, [Next]_vars PROVE Locked'
  OBVIOUS
<1> USE NoneAssumption DEF Typed, TypeOK, Locked, MutexHeld, NeverSendOnClosed,
                           queueVars, enqVars, deqVars
<1>1. ASSUME NEW p \in Producers, NEW j \in Jobs, CallEnqueue(p, j) PROVE Locked'
  BY <1>1 DEF CallEnqueue
<1>2. ASSUME NEW p \in Producers, LockEnqueue(p) PROVE Locked'
  <2>1. CASE closed
    BY <1>2, <2>1 DEF LockEnqueue
  <2>2. CASE ~closed
    BY <1>2, <2>2 DEF LockEnqueue
  <2> QED
    BY <2>1, <2>2
<1>3. ASSUME NEW p \in Producers, Send(p) PROVE Locked'
  BY <1>3 DEF Send
<1>4. ASSUME NEW p \in Producers, CountSent(p) PROVE Locked'
  BY <1>4 DEF CountSent
<1>5. ASSUME NEW c \in Consumers, Dequeue(c) PROVE Locked'
  BY <1>5 DEF Dequeue, Receive, CountReceived, FinishWork, ExitWorker
<1>6. ASSUME NEW r \in Readers, QueueLen(r) PROVE Locked'
  BY <1>6 DEF QueueLen, CallLen, ReturnLen
<1>7. CASE Cancel \/ CallClose
  BY <1>7 DEF Cancel, CallClose
<1>8. CASE Close
  BY <1>8 DEF Close
<1>9. CASE UNCHANGED vars
  BY <1>9 DEF vars
<1> QED
  BY <1>1, <1>2, <1>3, <1>4, <1>5, <1>6, <1>7, <1>8, <1>9 DEF Next, Enqueue

LEMMA LockedInvariant == Spec => [](Typed /\ Locked)
<1>1. Init => Locked
  BY NoneAssumption DEF Init, Locked, MutexHeld, NeverSendOnClosed
<1> QED
  BY <1>1, TypedInit, TypedNext, LockedNext, PTL DEF Spec

\* No Enqueue ever sends on the closed channel: the shutdown cannot panic a request,
\* a retry timer or the scheduler.
THEOREM SendsOnlyOnOpenChannel == Spec => []NeverSendOnClosed
  BY LockedInvariant, PTL DEF Locked

-----------------------------------------------------------------------------
(* The counter *)

\* Receiving adds one worker to those that still have to count down.
LEMMA SettlingGrows ==
  ASSUME Typed, NEW c \in Consumers, deq[c] = "select",
         deq' = [deq EXCEPT ![c] = "settle"]
  PROVE  Cardinality(Settling') = Cardinality(Settling) + 1
<1>1. IsFiniteSet(Settling)
  BY ConsumersAssumption, FS_Subset DEF Settling
<1>2. Settling' = Settling \union {c} /\ c \notin Settling
  BY DEF Typed, TypeOK, Settling
<1> QED
  BY <1>1, <1>2, FS_AddElement

\* Counting down removes one.
LEMMA SettlingShrinks ==
  ASSUME Typed, NEW c \in Consumers, deq[c] = "settle",
         deq' = [deq EXCEPT ![c] = "work"]
  PROVE  Cardinality(Settling') = Cardinality(Settling) - 1
<1>1. IsFiniteSet(Settling)
  BY ConsumersAssumption, FS_Subset DEF Settling
<1>2. Settling' = Settling \ {c} /\ c \in Settling
  BY DEF Typed, TypeOK, Settling
<1> QED
  BY <1>1, <1>2, FS_RemoveElement

LEMMA SettlingFinite == Cardinality(Settling) \in Nat /\ Cardinality(Settling) <= Cardinality(Consumers)
<1>1. Settling \subseteq Consumers
  BY DEF Settling
<1> QED
  BY <1>1, ConsumersAssumption, FS_Subset, FS_CardinalityType

\* A step that leaves the workers and the channel alone, and counts no send, keeps
\* both sides of the equation as they are.
LEMMA AccountingNext == Typed /\ Locked /\ LengthAccounting /\ [Next]_vars => LengthAccounting'
<1> SUFFICES ASSUME Typed, Locked, LengthAccounting, [Next]_vars PROVE LengthAccounting'
  OBVIOUS
<1> USE DEF LengthAccounting
<1>0. ch \in Seq(Jobs) /\ length \in Int /\ Len(ch) \in Nat /\ Cardinality(Settling) \in Nat
  BY SettlingFinite DEF Typed, TypeOK
<1>1. ASSUME NEW p \in Producers, NEW j \in Jobs, CallEnqueue(p, j) PROVE LengthAccounting'
  <2>1. Settling' = Settling /\ Counting' = Counting /\ UNCHANGED <<ch, length>>
    BY <1>1 DEF CallEnqueue, queueVars, deqVars, Settling, Counting, Typed, TypeOK
  <2> QED
    BY <2>1
<1>2. ASSUME NEW p \in Producers, LockEnqueue(p) PROVE LengthAccounting'
  <2>1. Settling' = Settling /\ Counting' = Counting /\ UNCHANGED <<ch, length>>
    BY <1>2 DEF LockEnqueue, deqVars, Settling, Counting, Typed, TypeOK
  <2> QED
    BY <2>1
<1>3. ASSUME NEW p \in Producers, Send(p) PROVE LengthAccounting'
  <2>1. Settling' = Settling /\ length' = length
    BY <1>3 DEF Send, deqVars, Settling
  <2>2. \A q \in Producers : enq[q] # "count"
    BY <1>3 DEF Send, Locked, MutexHeld, Typed, TypeOK
  <2>3. Counting = 0 /\ Counting' = 1
    BY <1>3, <2>2 DEF Send, Counting, Typed, TypeOK
  <2>4. Len(ch') = Len(ch) + 1
    BY <1>3 DEF Send, Typed, TypeOK, Handover
  <2> QED
    BY <2>1, <2>3, <2>4, <1>0
<1>4. ASSUME NEW p \in Producers, CountSent(p) PROVE LengthAccounting'
  <2>1. Settling' = Settling /\ ch' = ch /\ length' = length + 1
    BY <1>4 DEF CountSent, deqVars, Settling
  <2>2. \A q \in Producers : enq[q] = "count" => q = p
    BY <1>4 DEF CountSent, Locked, MutexHeld, Typed, TypeOK
  <2>3. Counting = 1 /\ Counting' = 0
    BY <1>4, <2>2 DEF CountSent, Counting, Typed, TypeOK
  <2> QED
    BY <2>1, <2>3, <1>0
<1>5. ASSUME NEW c \in Consumers, Receive(c) PROVE LengthAccounting'
  <2>1. Cardinality(Settling') = Cardinality(Settling) + 1
    BY <1>5, SettlingGrows DEF Receive
  <2>2. Counting' = Counting /\ length' = length
    BY <1>5 DEF Receive, enqVars, Counting
  <2>3. Len(ch') = Len(ch) - 1
    BY <1>5, <1>0 DEF Receive
  <2>4. Counting \in {0, 1}
    BY DEF Counting
  <2> QED
    BY <2>1, <2>2, <2>3, <2>4, <1>0
<1>6. ASSUME NEW c \in Consumers, CountReceived(c) PROVE LengthAccounting'
  <2>1. Cardinality(Settling') = Cardinality(Settling) - 1
    BY <1>6, SettlingShrinks DEF CountReceived
  <2>2. Counting' = Counting /\ length' = length - 1 /\ ch' = ch
    BY <1>6 DEF CountReceived, enqVars, Counting
  <2>3. Counting \in {0, 1}
    BY DEF Counting
  <2> QED
    BY <2>1, <2>2, <2>3, <1>0
<1>7. ASSUME NEW c \in Consumers, FinishWork(c) \/ ExitWorker(c) PROVE LengthAccounting'
  <2>1. Settling' = Settling /\ Counting' = Counting /\ UNCHANGED <<ch, length>>
    BY <1>7 DEF FinishWork, ExitWorker, queueVars, enqVars, Settling, Counting, Typed, TypeOK
  <2> QED
    BY <2>1
<1>8. ASSUME NEW r \in Readers, QueueLen(r) PROVE LengthAccounting'
  BY <1>8 DEF QueueLen, CallLen, ReturnLen, queueVars, enqVars, deqVars, Settling, Counting
<1>9. CASE Cancel \/ CallClose \/ Close
  BY <1>9 DEF Cancel, CallClose, Close, queueVars, enqVars, deqVars, Settling, Counting
<1>10. CASE UNCHANGED vars
  BY <1>10 DEF vars, Settling, Counting
<1> QED
  BY <1>1, <1>2, <1>3, <1>4, <1>5, <1>6, <1>7, <1>8, <1>9, <1>10 DEF Next, Enqueue, Dequeue

LEMMA AccountingInit == Init => LengthAccounting
<1> SUFFICES ASSUME Init PROVE LengthAccounting
  OBVIOUS
<1>1. Settling = {} /\ Counting = 0 /\ Len(ch) = 0 /\ length = 0
  BY DEF Init, Settling, Counting
<1> QED
  BY <1>1, FS_EmptySet DEF LengthAccounting

\* The counter that Len reports is, in every reachable state, the channel's length
\* corrected by the operations that are half done.
THEOREM CounterIsExact == Spec => []LengthAccounting
<1>1. Spec => [](Typed /\ Locked)
  BY LockedInvariant
<1> QED
  BY <1>1, AccountingInit, AccountingNext, PTL DEF Spec

\* While a send is not yet counted, mu keeps everyone from counting a receive: the job
\* is still in the channel, or its receiver is still waiting to count down.
SentNotCounted ==
    (\E p \in Producers : enq[p] = "count") => (ch # <<>> \/ \E c \in Consumers : deq[c] = "settle")

LEMMA SentNotCountedNext ==
  Typed /\ Locked /\ SentNotCounted /\ [Next]_vars => SentNotCounted'
<1> SUFFICES ASSUME Typed, Locked, SentNotCounted, [Next]_vars PROVE SentNotCounted'
  OBVIOUS
<1> USE NoneAssumption DEF Typed, TypeOK, Locked, MutexHeld, SentNotCounted,
                           queueVars, enqVars, deqVars
<1>1. ASSUME NEW p \in Producers, NEW j \in Jobs, CallEnqueue(p, j) PROVE SentNotCounted'
  BY <1>1 DEF CallEnqueue
<1>2. ASSUME NEW p \in Producers, LockEnqueue(p) PROVE SentNotCounted'
  BY <1>2 DEF LockEnqueue
<1>3. ASSUME NEW p \in Producers, Send(p) PROVE SentNotCounted'
  BY <1>3 DEF Send, Handover
<1>4. ASSUME NEW p \in Producers, CountSent(p) PROVE SentNotCounted'
  BY <1>4 DEF CountSent
<1>5. ASSUME NEW c \in Consumers, Receive(c) PROVE SentNotCounted'
  BY <1>5 DEF Receive
<1>6. ASSUME NEW c \in Consumers, CountReceived(c) PROVE SentNotCounted'
  BY <1>6 DEF CountReceived
<1>7. ASSUME NEW c \in Consumers, FinishWork(c) \/ ExitWorker(c) PROVE SentNotCounted'
  BY <1>7 DEF FinishWork, ExitWorker
<1>8. ASSUME NEW r \in Readers, QueueLen(r) PROVE SentNotCounted'
  BY <1>8 DEF QueueLen, CallLen, ReturnLen
<1>9. CASE Cancel \/ CallClose \/ Close
  BY <1>9 DEF Cancel, CallClose, Close
<1>10. CASE UNCHANGED vars
  BY <1>10 DEF vars
<1> QED
  BY <1>1, <1>2, <1>3, <1>4, <1>5, <1>6, <1>7, <1>8, <1>9, <1>10 DEF Next, Enqueue, Dequeue

\* The reported depth never goes below zero and never exceeds the capacity by more
\* than the number of workers.
THEOREM DepthIsBounded == Spec => []DepthBounded
<1>1. Typed /\ LengthAccounting /\ SentNotCounted => DepthBounded
  <2> SUFFICES ASSUME Typed, LengthAccounting, SentNotCounted PROVE DepthBounded
    OBVIOUS
  <2>1. Len(ch) \in Nat /\ Len(ch) <= Capacity /\ Capacity \in Nat /\ length \in Int
    BY CapacityAssumption DEF Typed, TypeOK
  <2>2. Counting \in {0, 1} /\ Cardinality(Consumers) \in Nat
    BY ConsumersAssumption, FS_CardinalityType DEF Counting
  <2>3. Counting = 1 => Len(ch) + Cardinality(Settling) >= 1
    <3> SUFFICES ASSUME Counting = 1 PROVE Len(ch) + Cardinality(Settling) >= 1
      OBVIOUS
    <3>1. ch # <<>> \/ Settling # {}
      BY DEF SentNotCounted, Counting, Settling
    <3>2. ch # <<>> => Len(ch) >= 1
      BY <2>1 DEF Typed, TypeOK
    <3>3. Settling # {} => Cardinality(Settling) >= 1
      <4>1. IsFiniteSet(Settling)
        BY ConsumersAssumption, FS_Subset DEF Settling
      <4> QED
        BY <4>1, FS_EmptySet, SettlingFinite
    <3> QED
      BY <3>1, <3>2, <3>3, <2>1, SettlingFinite
  <2> QED
    BY <2>1, <2>2, <2>3, SettlingFinite DEF LengthAccounting, DepthBounded
<1>2. Init => SentNotCounted
  BY DEF Init, SentNotCounted
<1> QED
  BY <1>1, <1>2, SentNotCountedNext, LockedInvariant, CounterIsExact, PTL DEF Spec

-----------------------------------------------------------------------------
(* The refinement *)

\* Nothing is offered or taken at the start.
LEMMA FifoInit == Init => Fifo!Init
  BY DEF Init, Fifo!Init

\* A step of the code is an offer, an acceptance, a drop, a take, a release or a
\* shutting of the abstract queue, or invisible to it.
LEMMA FifoNext == Typed /\ Locked /\ [Next]_vars => [Fifo!Next]_Fifo!fifoVars
<1> SUFFICES ASSUME Typed, Locked, [Next]_vars PROVE [Fifo!Next]_Fifo!fifoVars
  OBVIOUS
<1> USE NoneAssumption DEF Typed, TypeOK, Handover, Locked, NeverSendOnClosed
<1>1. ASSUME NEW p \in Producers, NEW j \in Jobs, CallEnqueue(p, j)
      PROVE  Fifo!Offer(p, j)
  BY <1>1 DEF CallEnqueue, queueVars, deqVars, Fifo!Offer
<1>2. ASSUME NEW p \in Producers, LockEnqueue(p), closed
      PROVE  Fifo!Drop(p)
  BY <1>2 DEF LockEnqueue, deqVars, Fifo!Drop
<1>3. ASSUME NEW p \in Producers, LockEnqueue(p), ~closed
      PROVE  UNCHANGED Fifo!fifoVars
  BY <1>3 DEF LockEnqueue, deqVars, Fifo!fifoVars
<1>4. ASSUME NEW p \in Producers, Send(p) PROVE Fifo!Accept(p)
  BY <1>4 DEF Send, deqVars, Fifo!Accept
<1>5. ASSUME NEW p \in Producers, CountSent(p) PROVE UNCHANGED Fifo!fifoVars
  BY <1>5 DEF CountSent, deqVars, Fifo!fifoVars
<1>6. ASSUME NEW c \in Consumers, Receive(c) PROVE Fifo!Take(c)
  BY <1>6 DEF Receive, enqVars, Fifo!Take
<1>7. ASSUME NEW c \in Consumers, CountReceived(c) \/ ExitWorker(c) PROVE UNCHANGED Fifo!fifoVars
  BY <1>7 DEF CountReceived, ExitWorker, queueVars, enqVars, Fifo!fifoVars
<1>8. ASSUME NEW c \in Consumers, FinishWork(c) PROVE Fifo!Release(c)
  BY <1>8 DEF FinishWork, queueVars, enqVars, Fifo!Release
<1>9. ASSUME NEW r \in Readers, QueueLen(r) PROVE UNCHANGED Fifo!fifoVars
  BY <1>9 DEF QueueLen, CallLen, ReturnLen, queueVars, enqVars, deqVars, Fifo!fifoVars
<1>10. ASSUME Cancel \/ CallClose PROVE UNCHANGED Fifo!fifoVars
  BY <1>10 DEF Cancel, CallClose, queueVars, enqVars, deqVars, Fifo!fifoVars
<1>11. ASSUME Close PROVE Fifo!Shut
  BY <1>11 DEF Close, enqVars, deqVars, Fifo!Shut
<1>12. ASSUME UNCHANGED vars PROVE UNCHANGED Fifo!fifoVars
  BY <1>12 DEF vars, Fifo!fifoVars
<1> QED
  BY <1>1, <1>2, <1>3, <1>4, <1>5, <1>6, <1>7, <1>8, <1>9, <1>10, <1>11, <1>12
  DEF Next, Enqueue, Dequeue, Fifo!Next

\* The mutex and channel implementation refines the bounded FIFO, for every
\* capacity, every number of goroutines and every set of jobs.
THEOREM QueueIsFifo == Spec => ImplementsFifo
<1>1. Spec => [](Typed /\ Locked)
  BY LockedInvariant
<1> QED
  BY <1>1, FifoInit, FifoNext, PTL DEF Spec, Fifo!Spec, ImplementsFifo

-----------------------------------------------------------------------------
(* The shutdown *)

\* To the queue, a step of the process is one of its own steps, or none of its business.
LEMMA ShutdownStep == ShutdownNext => [Next]_vars
<1> SUFFICES ASSUME ShutdownNext PROVE [Next]_vars
  OBVIOUS
<1>1. ASSUME NEW p \in Handlers, BeginRequest(p) \/ EndRequest(p) PROVE UNCHANGED vars
  BY <1>1 DEF BeginRequest, EndRequest
<1>2. ASSUME NEW p \in Producers, StartEnqueue(p) \/ ContinueEnqueue(p) PROVE Next
  BY <1>2, JobsOfAssumption DEF StartEnqueue, ContinueEnqueue, Next, Enqueue
<1>3. ASSUME NEW r \in Readers, StartLen(r) \/ FinishLen(r) PROVE Next
  BY <1>3 DEF StartLen, FinishLen, Next, QueueLen
<1>4. ASSUME NEW c \in Consumers, Worker(c) PROVE Next
  BY <1>4 DEF Worker, Next
<1>5. CASE Signal \/ ShutdownServer \/ CloseQueue
  BY <1>5 DEF Signal, ShutdownServer, CloseQueue, Next
<1>6. CASE CloseListeners \/ Exit
  BY <1>6 DEF CloseListeners, Exit
<1> QED
  BY <1>1, <1>2, <1>3, <1>4, <1>5, <1>6 DEF ShutdownNext, Request

\* The queue inside the process behaves as the queue alone: every theorem above holds of
\* the process too, with its requests, its signal and its end.
THEOREM ShutdownRunsQueue == ShutdownSpec => Spec
<1>1. ShutdownInit => Init
  BY DEF ShutdownInit
<1>2. [ShutdownNext]_allVars => [Next]_vars
  BY ShutdownStep DEF allVars
<1> QED
  BY <1>1, <1>2, PTL DEF ShutdownSpec, Spec

\* Once main is on its way to q.Close the server takes no request, and unless it gave up
\* waiting there was none left.
Drained ==
    /\ closed => closing # "idle"
    /\ closing # "idle" => ~listening
    /\ closing # "idle" /\ ~timedOut => NoRequests

LEMMA DrainedNext == TypeOK /\ Drained /\ [ShutdownNext]_allVars => Drained'
<1> SUFFICES ASSUME TypeOK, Drained, [ShutdownNext]_allVars PROVE Drained'
  OBVIOUS
<1> USE DEF Drained, NoRequests, queueVars, enqVars, deqVars, mainVars
<1>1. ASSUME NEW p \in Handlers, BeginRequest(p) PROVE Drained'
  BY <1>1 DEF BeginRequest, vars
<1>2. ASSUME NEW p \in Handlers, EndRequest(p) PROVE Drained'
  BY <1>2 DEF EndRequest, vars
<1>3. ASSUME NEW p \in Producers, StartEnqueue(p) PROVE Drained'
  BY <1>3 DEF StartEnqueue, Running, CallEnqueue
<1>4. ASSUME NEW p \in Producers, ContinueEnqueue(p) PROVE Drained'
  BY <1>4 DEF ContinueEnqueue, Running, LockEnqueue, Send, CountSent
<1>5. ASSUME NEW r \in Readers, StartLen(r) PROVE Drained'
  BY <1>5 DEF StartLen, Running, CallLen
<1>6. ASSUME NEW r \in Readers, FinishLen(r) PROVE Drained'
  BY <1>6 DEF FinishLen, Running, ReturnLen, TypeOK
<1>7. ASSUME NEW c \in Consumers, Worker(c) PROVE Drained'
  BY <1>7 DEF Worker, Running, Dequeue, Receive, CountReceived, FinishWork, ExitWorker
<1>8. CASE Signal \/ CloseListeners
  BY <1>8 DEF Signal, Running, Cancel, CloseListeners, vars
<1>9. CASE ShutdownServer
  BY <1>9 DEF ShutdownServer, CallClose, TypeOK
<1>10. CASE CloseQueue
  BY <1>10 DEF CloseQueue, Running, Close
<1>11. CASE Exit \/ UNCHANGED allVars
  BY <1>11 DEF Exit, allVars, vars
<1> QED
  BY <1>1, <1>2, <1>3, <1>4, <1>5, <1>6, <1>7, <1>8, <1>9, <1>10, <1>11 DEF ShutdownNext, Request

\* Unless the 10 seconds ran out, no request is under way when the queue closes: one that
\* was answered has its job in the queue.
THEOREM QueueOutlivesRequests == ShutdownSpec => []RequestsEndBeforeClose
<1>1. ShutdownInit => Drained
  BY DEF ShutdownInit, Init, Drained, NoRequests
<1>2. ShutdownSpec => []TypeOK
  BY ShutdownRunsQueue, TypeCorrect, PTL
<1>3. Drained => RequestsEndBeforeClose
  BY DEF Drained, RequestsEndBeforeClose
<1> QED
  BY <1>1, <1>2, <1>3, DrainedNext, PTL DEF ShutdownSpec

-----------------------------------------------------------------------------
(* The jam *)

\* What a step can still do once the queue is jammed: calls begin, and none goes on.  The
\* channel, the counter and the workers stay as they are, and so do the calls of Enqueue,
\* of Len and of Close that are under way.
JamHolds ==
    /\ UNCHANGED <<queueVars, deqVars>>
    /\ \A p \in Producers : enq[p] # "idle" => enq'[p] = enq[p]
    /\ \A r \in Readers : reading[r] => reading'[r]
    /\ closing # "idle" => closing' = closing

\* A parked Enqueue keeps mu, so none of the steps that wait for mu can be taken, and none of
\* the others makes room.
LEMMA JamHoldsNext == Typed /\ Locked /\ Jammed /\ [Next]_vars => JamHolds
<1> SUFFICES ASSUME Typed, Locked, Jammed, [Next]_vars PROVE JamHolds
  OBVIOUS
<1> USE NoneAssumption, CapacityAssumption DEF JamHolds
<1>1. mu # None
  BY DEF Jammed, Typed, Locked, MutexHeld
<1>2. \A p \in Producers : enq[p] # "count"
  BY DEF Jammed, Typed, Locked, MutexHeld
<1>3. ASSUME NEW p \in Producers, NEW j \in Jobs, CallEnqueue(p, j) PROVE JamHolds
  BY <1>3 DEF CallEnqueue, Typed, TypeOK
<1>4. ASSUME NEW p \in Producers, LockEnqueue(p) \/ CountSent(p) PROVE FALSE
  BY <1>1, <1>2, <1>4 DEF LockEnqueue, CountSent
<1>5. ASSUME NEW p \in Producers, Send(p) PROVE FALSE
  BY <1>5 DEF Send, Jammed
<1>6. ASSUME NEW c \in Consumers, Dequeue(c) PROVE FALSE
  BY <1>1, <1>6 DEF Dequeue, Receive, CountReceived, FinishWork, ExitWorker, Jammed
<1>7. ASSUME NEW r \in Readers, CallLen(r) PROVE JamHolds
  BY <1>7 DEF CallLen, enqVars, Typed, TypeOK
<1>8. ASSUME NEW r \in Readers, ReturnLen(r) PROVE FALSE
  BY <1>1, <1>8 DEF ReturnLen
<1>9. CASE Cancel \/ CallClose
  BY <1>9 DEF Cancel, CallClose, enqVars
<1>10. CASE Close
  BY <1>1, <1>10 DEF Close
<1>11. CASE UNCHANGED vars
  BY <1>11 DEF vars, queueVars, deqVars
<1> QED
  BY <1>3, <1>4, <1>5, <1>6, <1>7, <1>8, <1>9, <1>10, <1>11 DEF Next, Enqueue, QueueLen

LEMMA JamStays == Typed /\ Locked /\ Jammed /\ [Next]_vars => Jammed'
  BY JamHoldsNext DEF JamHolds, Jammed, queueVars, deqVars

\* The jam is for ever: once every worker has just received a job and an Enqueue is parked on
\* the full channel, no later step, a signal included, resolves it.
THEOREM JamIsForever == Spec => [](Jammed => []Jammed)
  BY LockedInvariant, JamStays, PTL DEF Spec

\* While the queue is jammed no call of Enqueue, Len or Close returns, and no worker gets
\* to the job it has received.
THEOREM NothingReturnsFromTheJam == Spec => [][Jammed => JamHolds]_vars
  BY LockedInvariant, JamHoldsNext, PTL DEF Spec

\* The steps that an Enqueue past its Lock waits for: room in the channel, or nothing.
MayLeave(p) == enq[p] = "count" \/ (enq[p] = "send" /\ Len(ch) < Capacity)

\* Those that make room: a worker receives, or finishes its job to receive the next.
MayDrain(c) == deq[c] = "work" \/ (deq[c] = "select" /\ ch # <<>>)

\* There is no other way to get stuck: as long as mu is held, its holder can go on, or a
\* worker can, which brings room nearer, unless the queue is jammed.
FlowsUnlessJammed ==
    mu # None => \/ \E p \in Producers : mu = p /\ MayLeave(p)
                 \/ \E c \in Consumers : MayDrain(c)
                 \/ Jammed

\* So what everyone waits for, that mu is released, is kept off by the jam alone: the part of
\* CallsReturnUnlessJammed that is no matter of fairness.
THEOREM OnlyTheJamBlocks == Spec => []FlowsUnlessJammed
<1>1. ASSUME Typed, Locked, mu # None, \A c \in Consumers : ~MayDrain(c),
             \A p \in Producers : mu = p => ~MayLeave(p)
      PROVE  Jammed
  <2>1. PICK p \in Producers : mu = p /\ enq[p] = "send"
    BY <1>1 DEF Typed, TypeOK, Locked, MutexHeld, MayLeave
  <2>2. Len(ch) = Capacity /\ ch # <<>>
    BY <1>1, <2>1, CapacityAssumption DEF Typed, TypeOK, MayLeave
  <2> QED
    BY <1>1, <2>1, <2>2 DEF Jammed, MayDrain, Typed, TypeOK
<1>2. Typed /\ Locked => FlowsUnlessJammed
  BY <1>1 DEF FlowsUnlessJammed
<1> QED
  BY <1>2, LockedInvariant, PTL

-----------------------------------------------------------------------------

\* main returns from q.Close before it ends the process.
ClosedAtExit ==
    /\ closing = "done" <=> closed
    /\ exited => closed

LEMMA ClosedAtExitNext == ClosedAtExit /\ [ShutdownNext]_allVars => ClosedAtExit'
<1> SUFFICES ASSUME ClosedAtExit, [ShutdownNext]_allVars PROVE ClosedAtExit'
  OBVIOUS
<1> USE DEF ClosedAtExit, queueVars, enqVars, deqVars, mainVars
<1>1. ASSUME NEW p \in Handlers, BeginRequest(p) \/ EndRequest(p) PROVE ClosedAtExit'
  BY <1>1 DEF BeginRequest, EndRequest, vars
<1>2. ASSUME NEW p \in Producers, StartEnqueue(p) PROVE ClosedAtExit'
  BY <1>2 DEF StartEnqueue, Running, CallEnqueue
<1>3. ASSUME NEW p \in Producers, ContinueEnqueue(p) PROVE ClosedAtExit'
  BY <1>3 DEF ContinueEnqueue, Running, LockEnqueue, Send, CountSent
<1>4. ASSUME NEW r \in Readers, StartLen(r) \/ FinishLen(r) PROVE ClosedAtExit'
  BY <1>4 DEF StartLen, FinishLen, Running, CallLen, ReturnLen
<1>5. ASSUME NEW c \in Consumers, Worker(c) PROVE ClosedAtExit'
  BY <1>5 DEF Worker, Running, Dequeue, Receive, CountReceived, FinishWork, ExitWorker
<1>6. CASE Signal \/ CloseListeners
  BY <1>6 DEF Signal, Running, Cancel, CloseListeners, vars
<1>7. CASE ShutdownServer
  BY <1>7 DEF ShutdownServer, CallClose
<1>8. CASE CloseQueue
  BY <1>8 DEF CloseQueue, Running, Close
<1>9. CASE Exit \/ UNCHANGED allVars
  BY <1>9 DEF Exit, allVars, vars
<1> QED
  BY <1>1, <1>2, <1>3, <1>4, <1>5, <1>6, <1>7, <1>8, <1>9 DEF ShutdownNext, Request

\* A server whose queue is jammed does not end on a signal, however long one waits: main
\* stands in q.Close for ever.
THEOREM JammedServerNeverExits == ShutdownSpec => [](Jammed => []~exited)
<1>1. ShutdownInit => ClosedAtExit
  BY DEF ShutdownInit, Init, ClosedAtExit
<1>2. ShutdownSpec => []ClosedAtExit
  BY <1>1, ClosedAtExitNext, PTL DEF ShutdownSpec
<1>3. ClosedAtExit /\ Locked /\ Jammed => ~exited
  BY DEF ClosedAtExit, Locked, NeverSendOnClosed, Jammed
<1> QED
  BY <1>2, <1>3, ShutdownRunsQueue, LockedInvariant, JamIsForever, PTL
=============================================================================
