------------------------------ MODULE JobQueue ------------------------------
(***************************************************************************)
(* internal/queue/queue.go: InMemoryQueue, at the level of its mutex and   *)
(* its buffered channel.  One step is one operation another goroutine can  *)
(* observe: taking mu, a channel send or receive, releasing mu.            *)
(*                                                                         *)
(*  - Enqueue holds mu from its first line to its return, also while it is *)
(*    parked on a full channel.                                            *)
(*  - Dequeue receives without mu and takes mu afterwards to count down.   *)
(*  - Len and Close take mu for a section that cannot block.               *)
(*                                                                         *)
(* Consumers are the loop of workers.Pool.runWorker around Dequeue;        *)
(* ctxDone is the context main cancels on a signal, and Close is called    *)
(* only after that (cmd/server/main.go).                                   *)
(***************************************************************************)
EXTENDS Integers, Sequences, FiniteSets

CONSTANTS Producers,  \* goroutines that call Enqueue
          Consumers,  \* the workers
          Readers,    \* goroutines that call Len (GetStats, Health)
          Jobs,       \* the jobs that travel through the queue
          Capacity,   \* capacity of the channel
          None        \* stands for "no job" and for "mu is free"

ASSUME CapacityAssumption == Capacity \in Nat \ {0}
ASSUME ConsumersAssumption == IsFiniteSet(Consumers)
ASSUME NoneAssumption == None \notin Jobs /\ None \notin Producers

VARIABLES ch,       \* contents of the channel, oldest first
          mu,       \* the Enqueue call that holds mu across steps, or None
          length,   \* the counter Len reports
          closed,   \* the flag Close sets; the channel is closed with it
          ctxDone,  \* the workers' context is cancelled
          enq,      \* enq[p]: where producer p is in Enqueue
          sent,     \* sent[p]: the job of p's call
          deq,      \* deq[c]: where consumer c is in its loop
          got,      \* got[c]: the job c received
          reading,  \* reading[r]: r is inside Len
          closing   \* where main is in Close

queueVars == <<ch, mu, length, closed>>
enqVars == <<enq, sent>>
deqVars == <<deq, got>>
vars == <<ch, mu, length, closed, ctxDone, enq, sent, deq, got, reading, closing>>

TypeOK ==
    /\ ch \in Seq(Jobs) /\ Len(ch) <= Capacity
    /\ mu \in Producers \union {None}
    /\ length \in Int
    /\ closed \in BOOLEAN /\ ctxDone \in BOOLEAN
    /\ enq \in [Producers -> {"idle", "lock", "send", "count"}]
    /\ sent \in [Producers -> Jobs \union {None}]
    /\ deq \in [Consumers -> {"select", "settle", "work", "exited"}]
    /\ got \in [Consumers -> Jobs \union {None}]
    /\ reading \in [Readers -> BOOLEAN]
    /\ closing \in {"idle", "lock", "done"}

Init ==
    /\ ch = <<>>
    /\ mu = None
    /\ length = 0
    /\ closed = FALSE
    /\ ctxDone = FALSE
    /\ enq = [p \in Producers |-> "idle"]
    /\ sent = [p \in Producers |-> None]
    /\ deq = [c \in Consumers |-> "select"]
    /\ got = [c \in Consumers |-> None]
    /\ reading = [r \in Readers |-> FALSE]
    /\ closing = "idle"

-----------------------------------------------------------------------------
(* Enqueue *)

\* A goroutine calls Enqueue and waits for mu.
CallEnqueue(p, j) ==
    /\ enq[p] = "idle"
    /\ enq' = [enq EXCEPT ![p] = "lock"]
    /\ sent' = [sent EXCEPT ![p] = j]
    /\ UNCHANGED <<queueVars, ctxDone, deqVars, reading, closing>>

\* Fault: the closed check is made under mu, but mu is not kept for the send.
LockEnqueueUnheld(p) ==
    /\ enq[p] = "lock"
    /\ mu = None
    /\ enq' = [enq EXCEPT ![p] = IF closed THEN "idle" ELSE "send"]
    /\ sent' = [sent EXCEPT ![p] = IF closed THEN None ELSE @]
    /\ UNCHANGED <<queueVars, ctxDone, deqVars, reading, closing>>

\* It gets mu.  On a closed queue it returns at once, and the job is gone.
LockEnqueue(p) ==
    /\ enq[p] = "lock"
    /\ mu = None
    /\ \/ /\ closed
          /\ enq' = [enq EXCEPT ![p] = "idle"]
          /\ sent' = [sent EXCEPT ![p] = None]
          /\ mu' = mu
       \/ /\ ~closed
          /\ enq' = [enq EXCEPT ![p] = "send"]
          /\ mu' = p
          /\ sent' = sent
    /\ UNCHANGED <<ch, length, closed, ctxDone, deqVars, reading, closing>>

\* Fault: the buffer is not bounded.
SendUnbounded(p) ==
    /\ enq[p] = "send"
    /\ Len(ch) <= Capacity
    /\ ch' = Append(ch, sent[p])
    /\ enq' = [enq EXCEPT ![p] = "count"]
    /\ sent' = [sent EXCEPT ![p] = None]
    /\ UNCHANGED <<mu, length, closed, ctxDone, deqVars, reading, closing>>

\* q.ch <- job: parks, with mu held, while the channel is full.
Send(p) ==
    /\ enq[p] = "send"
    /\ Len(ch) < Capacity
    /\ ch' = Append(ch, sent[p])
    /\ enq' = [enq EXCEPT ![p] = "count"]
    /\ sent' = [sent EXCEPT ![p] = None]
    /\ UNCHANGED <<mu, length, closed, ctxDone, deqVars, reading, closing>>

\* Fault: no Unlock.
CountSentKept(p) ==
    /\ enq[p] = "count"
    /\ length' = length + 1
    /\ enq' = [enq EXCEPT ![p] = "idle"]
    /\ UNCHANGED <<ch, mu, closed, ctxDone, sent, deqVars, reading, closing>>

\* q.length++ and the deferred Unlock.
CountSent(p) ==
    /\ enq[p] = "count"
    /\ length' = length + 1
    /\ mu' = None
    /\ enq' = [enq EXCEPT ![p] = "idle"]
    /\ UNCHANGED <<ch, closed, ctxDone, sent, deqVars, reading, closing>>

-----------------------------------------------------------------------------
(* Dequeue, in the worker's loop *)

\* The select takes a job from the channel.  mu is not needed for it.
Receive(c) ==
    /\ deq[c] = "select"
    /\ ch # <<>>
    /\ got' = [got EXCEPT ![c] = Head(ch)]
    /\ ch' = Tail(ch)
    /\ deq' = [deq EXCEPT ![c] = "settle"]
    /\ UNCHANGED <<mu, length, closed, ctxDone, enqVars, reading, closing>>

\* Fault: the counter is not decremented once the context is cancelled.
CountReceivedUnlessDone(c) ==
    /\ deq[c] = "settle"
    /\ mu = None
    /\ length' = IF ctxDone THEN length ELSE length - 1
    /\ deq' = [deq EXCEPT ![c] = "work"]
    /\ UNCHANGED <<ch, mu, closed, ctxDone, enqVars, got, reading, closing>>

\* q.length-- under mu.
CountReceived(c) ==
    /\ deq[c] = "settle"
    /\ mu = None
    /\ length' = length - 1
    /\ deq' = [deq EXCEPT ![c] = "work"]
    /\ UNCHANGED <<ch, mu, closed, ctxDone, enqVars, got, reading, closing>>

\* The worker is done with the job and selects again.
FinishWork(c) ==
    /\ deq[c] = "work"
    /\ deq' = [deq EXCEPT ![c] = "select"]
    /\ got' = [got EXCEPT ![c] = None]
    /\ UNCHANGED <<queueVars, ctxDone, enqVars, reading, closing>>

\* The worker leaves: its context is cancelled, or the channel is closed and
\* drained.  With a job in the channel as well, select may pick either case.
ExitWorker(c) ==
    /\ deq[c] = "select"
    /\ ctxDone \/ (closed /\ ch = <<>>)
    /\ deq' = [deq EXCEPT ![c] = "exited"]
    /\ UNCHANGED <<queueVars, ctxDone, enqVars, got, reading, closing>>

-----------------------------------------------------------------------------
(* Len, the context, Close *)

CallLen(r) ==
    /\ ~reading[r]
    /\ reading' = [reading EXCEPT ![r] = TRUE]
    /\ UNCHANGED <<queueVars, ctxDone, enqVars, deqVars, closing>>

ReturnLen(r) ==
    /\ reading[r]
    /\ mu = None
    /\ reading' = [reading EXCEPT ![r] = FALSE]
    /\ UNCHANGED <<queueVars, ctxDone, enqVars, deqVars, closing>>

\* SIGINT or SIGTERM.
Cancel ==
    /\ ~ctxDone
    /\ ctxDone' = TRUE
    /\ UNCHANGED <<queueVars, enqVars, deqVars, reading, closing>>

CallClose ==
    /\ ctxDone
    /\ closing = "idle"
    /\ closing' = "lock"
    /\ UNCHANGED <<queueVars, ctxDone, enqVars, deqVars, reading>>

\* Fault: closing throws away what is still buffered.
CloseDiscarding ==
    /\ closing = "lock"
    /\ mu = None
    /\ closed' = TRUE
    /\ closing' = "done"
    /\ ch' = <<>>
    /\ length' = 0
    /\ UNCHANGED <<mu, ctxDone, enqVars, deqVars, reading>>

Close ==
    /\ closing = "lock"
    /\ mu = None
    /\ closed' = TRUE
    /\ closing' = "done"
    /\ UNCHANGED <<ch, mu, length, ctxDone, enqVars, deqVars, reading>>

-----------------------------------------------------------------------------
Enqueue(p) ==
    (\E j \in Jobs : CallEnqueue(p, j)) \/ LockEnqueue(p) \/ Send(p) \/ CountSent(p)

Dequeue(c) ==
    Receive(c) \/ CountReceived(c) \/ FinishWork(c) \/ ExitWorker(c)

QueueLen(r) == CallLen(r) \/ ReturnLen(r)

Next ==
    \/ \E p \in Producers : Enqueue(p)
    \/ \E c \in Consumers : Dequeue(c)
    \/ \E r \in Readers : QueueLen(r)
    \/ Cancel
    \/ CallClose
    \/ Close

Spec == Init /\ [][Next]_vars

\* Strong fairness for taking mu: a sync.Mutex in starvation mode is handed
\* over in FIFO order, so nobody waits for ever while others take and release
\* it.  Weak fairness for steps that stay enabled; a worker's job ends, at
\* the latest when its 2-minute context expires.
Fairness ==
    /\ \A p \in Producers : SF_vars(LockEnqueue(p)) /\ WF_vars(Send(p)) /\ WF_vars(CountSent(p))
    /\ \A c \in Consumers : /\ WF_vars(Receive(c) \/ ExitWorker(c))
                            /\ SF_vars(CountReceived(c))
                            /\ WF_vars(FinishWork(c))
    /\ \A r \in Readers : SF_vars(ReturnLen(r))
    /\ WF_vars(CallClose)
    /\ SF_vars(Close)

LiveSpec == Spec /\ Fairness

-----------------------------------------------------------------------------
(* Properties *)

\* An Enqueue that is past its closed check sends on an open channel: a send
\* on a closed channel would panic and take the process down.  Close and the
\* check exclude each other only because Enqueue keeps mu while it is parked.
NeverSendOnClosed == \A p \in Producers : enq[p] = "send" => ~closed

\* mu is held across steps by exactly the Enqueue call past its Lock.
MutexHeld == \A p \in Producers : mu = p <=> enq[p] \in {"send", "count"}

\* A goroutine inside Enqueue carries its job until the send, a worker the job it
\* received until it is done with it, and nobody else carries one.
Handover ==
    /\ \A p \in Producers : IF enq[p] \in {"lock", "send"} THEN sent[p] \in Jobs ELSE sent[p] = None
    /\ \A c \in Consumers : IF deq[c] \in {"settle", "work"} THEN got[c] \in Jobs ELSE got[c] = None

Settling == {c \in Consumers : deq[c] = "settle"}
Counting == IF \E p \in Producers : enq[p] = "count" THEN 1 ELSE 0

\* The counter differs from the channel's contents by exactly the receives not
\* yet counted down and the send not yet counted up.
LengthAccounting == length = Len(ch) + Cardinality(Settling) - Counting

\* The depth that /api/stats and /api/health report is never negative, although
\* a receive may overtake the increment of the send it received from; it may
\* exceed the capacity by one per worker at most.
DepthBounded == 0 <= length /\ length <= Capacity + Cardinality(Consumers)

\* No job is lost, duplicated or reordered between Enqueue and the worker,
\* and none is dropped before the queue is closed.
Fifo == INSTANCE FifoQueue WITH
    buffer <- ch,
    outbox <- [p \in Producers |-> IF enq[p] \in {"lock", "send"} THEN sent[p] ELSE None],
    inbox <- got,
    shut <- closed

ImplementsFifo == Fifo!Spec

\* The jam: an Enqueue parked on the full channel keeps mu, and every worker that
\* has not exited waits for mu to count down the job it has just received.
\* Nobody is left to make room.
Jammed ==
    /\ \E p \in Producers : enq[p] = "send"
    /\ Len(ch) = Capacity
    /\ \A c \in Consumers : deq[c] \in {"settle", "exited"}

\* What the comment on Dequeue says (queue.go:43): it blocks until a job is available
\* or the context is cancelled.  A call that has its job in hand returns.
DequeueBlocksOnlyForAJob ==
    \A c \in Consumers : deq[c] = "settle" ~> (deq[c] = "work" \/ ctxDone)
=============================================================================
