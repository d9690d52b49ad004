---------------------------- MODULE JobContract ----------------------------
(***************************************************************************)
(* What the service makes of one job, seen through the job's row in the    *)
(* database and the copy some goroutine has in hand: the scheduler, a      *)
(* retry request, the queue, a worker or a retry timer.  The copy is       *)
(* written over the row at each step of the job's life, and it says what   *)
(* the row says, unless the row was deleted meanwhile.                     *)
(*                                                                         *)
(* JobLifecycle keeps this contract for each of its jobs as long as no     *)
(* write fails and retry requests do not overlap; JobRecords keeps it too, *)
(* so both tell the same story of a job.                                   *)
(***************************************************************************)
EXTENDS Integers

CONSTANT Limits  \* the values of max_retries a job may have

VARIABLES known,  \* the job was created
          row,    \* its row: no record or one
          hand    \* the copy in hand: none or one

contractVars == <<known, row, hand>>

New(status, limit) == [status |-> status, retries |-> 0, limit |-> limit]

Init == known = FALSE /\ row = {} /\ hand = {}

-----------------------------------------------------------------------------
\* The job is created, to be run now or at its time.
Create(status, limit) ==
    /\ ~known
    /\ known' = TRUE
    /\ row' = {New(status, limit)}
    /\ hand' = IF status = "queued" THEN row' ELSE {}

\* The scheduler reads a scheduled row.
Poll ==
    /\ hand = {}
    /\ \E job \in row : job.status = "scheduled" /\ hand' = {job}
    /\ UNCHANGED <<known, row>>

\* A retry request reads a failed row and starts a new count.
Retry ==
    /\ hand = {}
    /\ \E job \in row : job.status = "failed" /\ hand' = {[job EXCEPT !.retries = 0]}
    /\ UNCHANGED <<known, row>>

\* Either of them writes the job back as queued and hands it to the queue.
Queue ==
    \E job \in hand :
        /\ job.status \in {"scheduled", "failed"}
        /\ row' = {[job EXCEPT !.status = "queued"]}
        /\ hand' = row'
        /\ known' = known

\* A worker takes the copy.
Start ==
    \E job \in hand :
        /\ job.status = "queued"
        /\ row' = {[job EXCEPT !.status = "running"]}
        /\ hand' = row'
        /\ known' = known

Complete ==
    \E job \in hand :
        /\ job.status = "running"
        /\ row' = {[job EXCEPT !.status = "completed"]}
        /\ hand' = {}
        /\ known' = known

\* The attempt failed, and another one is left.
Requeue ==
    \E job \in hand :
        /\ job.status = "running" /\ job.retries < job.limit
        /\ row' = {[job EXCEPT !.status = "queued", !.retries = @ + 1]}
        /\ hand' = row'
        /\ known' = known

\* The attempt failed, and it was the last one.
Fail ==
    \E job \in hand :
        /\ job.status = "running" /\ job.retries >= job.limit
        /\ row' = {[job EXCEPT !.status = "failed"]}
        /\ hand' = {}
        /\ known' = known

\* The row is deleted, and the copy does not know.
Delete ==
    /\ row # {}
    /\ row' = {}
    /\ UNCHANGED <<known, hand>>

\* The copy is dropped, because the process stops.
Lose ==
    /\ hand # {}
    /\ hand' = {}
    /\ UNCHANGED <<known, row>>

Next ==
    \/ \E s \in {"queued", "scheduled"}, l \in Limits : Create(s, l)
    \/ Poll \/ Retry
    \/ Queue \/ Start \/ Complete \/ Requeue \/ Fail
    \/ Delete \/ Lose

Spec == Init /\ [][Next]_contractVars
=============================================================================
