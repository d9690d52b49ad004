----------------------------- MODULE FifoQueue -----------------------------
(***************************************************************************)
(* What internal/queue.JobQueue promises its callers: a bounded FIFO of    *)
(* jobs.  A producer hands a job over and is held up until the queue takes *)
(* it; a consumer takes the oldest job.  A job may be dropped for one      *)
(* reason only: the queue was shut when the producer's turn came.          *)
(*                                                                         *)
(* JobQueue refines this specification.                                    *)
(***************************************************************************)
EXTENDS Naturals, Sequences

CONSTANTS Producers,  \* goroutines that call Enqueue
          Consumers,  \* workers that call Dequeue
          Jobs,       \* the jobs that travel through the queue
          Capacity,   \* capacity of the queue
          None        \* stands for "no job"

VARIABLES buffer,  \* the jobs accepted and not yet taken, oldest first
          outbox,  \* outbox[p]: the job producer p is trying to hand over
          inbox,   \* inbox[c]: the job consumer c has taken
          shut     \* the queue accepts nothing any more

fifoVars == <<buffer, outbox, inbox, shut>>

Init ==
    /\ buffer = <<>>
    /\ outbox = [p \in Producers |-> None]
    /\ inbox = [c \in Consumers |-> None]
    /\ shut = FALSE

\* A producer offers a job.
Offer(p, j) ==
    /\ outbox[p] = None
    /\ outbox' = [outbox EXCEPT ![p] = j]
    /\ UNCHANGED <<buffer, inbox, shut>>

\* The queue takes the job a producer offers.
Accept(p) ==
    /\ ~shut
    /\ outbox[p] # None
    /\ Len(buffer) < Capacity
    /\ buffer' = Append(buffer, outbox[p])
    /\ outbox' = [outbox EXCEPT ![p] = None]
    /\ UNCHANGED <<inbox, shut>>

\* The queue is shut: the offered job is dropped.
Drop(p) ==
    /\ shut
    /\ outbox[p] # None
    /\ outbox' = [outbox EXCEPT ![p] = None]
    /\ UNCHANGED <<buffer, inbox, shut>>

\* A consumer takes the oldest job.
Take(c) ==
    /\ inbox[c] = None
    /\ buffer # <<>>
    /\ inbox' = [inbox EXCEPT ![c] = Head(buffer)]
    /\ buffer' = Tail(buffer)
    /\ UNCHANGED <<outbox, shut>>

\* A consumer is done with the job it took.
Release(c) ==
    /\ inbox[c] # None
    /\ inbox' = [inbox EXCEPT ![c] = None]
    /\ UNCHANGED <<buffer, outbox, shut>>

Shut ==
    /\ shut' = TRUE
    /\ UNCHANGED <<buffer, outbox, inbox>>

Next ==
    \/ \E p \in Producers : (\E j \in Jobs : Offer(p, j)) \/ Accept(p) \/ Drop(p)
    \/ \E c \in Consumers : Take(c) \/ Release(c)
    \/ Shut

Spec == Init /\ [][Next]_fifoVars
=============================================================================
