---------------------------- MODULE JobLifecycle ----------------------------
(***************************************************************************)
(* The life of a job between the database, the queue, the worker pool, the *)
(* retry timers, the scheduler and the API: internal/workers/pool.go,      *)
(* internal/scheduler/scheduler.go, the job handlers of                    *)
(* internal/api/handlers.go and the run of cmd/server/main.go.             *)
(*                                                                         *)
(* The database keeps one row per job.  Everything else works on copies:   *)
(* a *storage.Job that a handler or the scheduler fills, hands to the      *)
(* queue, and that a worker then owns, and after it a retry timer.  Nobody *)
(* reads the row back: a copy is written over the row with Save, whatever  *)
(* the row says by then.  A task is such a copy together with the          *)
(* goroutine that owns it; its stage is where that goroutine stands:       *)
(*                                                                         *)
(*   retrying   RetryJob has read a failed row and not written it yet      *)
(*   sending    inside queue.Enqueue                                       *)
(*   waiting    in the queue                                               *)
(*   taken      dequeued by a worker, its row not written yet              *)
(*   executing  the row says running, the executor is at work              *)
(*   backoff    a retry timer sleeps on it                                 *)
(*                                                                         *)
(* The queue is the bounded FIFO of FifoQueue, which JobQueue refines.     *)
(* Logs, retry history and diagnostics are in JobRecords.                  *)
(***************************************************************************)
EXTENDS Integers, Sequences, FiniteSets

CONSTANTS Ids,             \* job identifiers; never used twice (UUIDs)
          Tasks,           \* identities for the copies; bounds their number
          Workers,         \* the pool (5 in main.go)
          Capacity,        \* of the queue (512 in main.go)
          Requested,       \* values of max_retries a client may send
          DefaultLimit,    \* max_retries used for a request's 0 (3)
          SeededLimit,     \* max_retries of the scheduler's own job (2)
          SeedSize,        \* jobs one POST /api/seed creates (18)
          RetryRequests,   \* RetryJob requests that may be under way at once
          MaxFaults,       \* database writes that may fail
          MaxBoots,        \* restarts after a shutdown or a crash
          None             \* no job, no worker, no task

ASSUME CapacityAssumption == Capacity \in Nat \ {0}
ASSUME LimitAssumption ==
    Requested \subseteq Int /\ DefaultLimit \in Nat \ {0} /\ SeededLimit \in Int
ASSUME BoundAssumption ==
    SeedSize \in Nat /\ RetryRequests \in Nat /\ MaxFaults \in Nat /\ MaxBoots \in Nat
ASSUME NoneAssumption == None \notin Ids \union Tasks \union Workers

VARIABLES
    rows,       \* rows[i]: the row of job i in the database, or None
    used,       \* the identifiers handed out so far
    due,        \* the jobs whose scheduled_at has passed
    stage,      \* stage[t]: where the owner of copy t stands, or "free"
    of,         \* of[t]: the job t is a copy of
    copy,       \* copy[t]: the fields of the copy
    by,         \* by[t]: the worker that owns t
    queue,      \* the tasks in the channel
    active,     \* the keys of Pool.activeJobs
    leaving,    \* leaving[w]: the job w has written last and not yet taken off activeJobs
    gone,       \* the workers that have left runWorker
    sched,      \* the scheduler: "seed", "loop" or "stopped"
    snapshot,   \* snapshot[i]: the row poll has read and not dispatched yet
    dispatched, \* the copy the scheduler is inside Enqueue with
    seeds,      \* jobs POST /api/seed has still to create
    seeded,     \* the copy it is inside Enqueue with
    main,       \* "up", "stopping", "closed" or "down"
    faults,     \* database writes that have failed
    boots,      \* restarts so far
    stranded    \* history: jobs whose copy was dropped before a final state

rowVars == <<rows, used, due>>
taskVars == <<stage, of, copy, by>>
poolVars == <<queue, active, leaving, gone>>
schedVars == <<sched, snapshot, dispatched>>
seedVars == <<seeds, seeded>>
mainVars == <<main, boots>>
vars == <<rowVars, taskVars, poolVars, schedVars, seedVars, mainVars, faults, stranded>>

-----------------------------------------------------------------------------
(* Jobs *)

Status == {"scheduled", "queued", "running", "completed", "failed"}

\* storage.Job, reduced to what decides anything here.  error: ErrorMessage is set;
\* ended: CompletedAt is set.
Job == [status : Status, retries : Nat, limit : Int, worker : Workers \union {None},
        error : BOOLEAN, ended : BOOLEAN]

\* No row is not a row.
ASSUME NoJobAssumption == None \notin Job

NewJob(status, limit) ==
    [status |-> status, retries |-> 0, limit |-> limit, worker |-> None,
     error |-> FALSE, ended |-> FALSE]

\* CreateJob: a max_retries of 0, or none, means the default.
LimitOf(requested) == IF requested = 0 THEN DefaultLimit ELSE requested

Stages == {"free", "retrying", "sending", "waiting", "taken", "executing", "backoff"}

Exists(i) == rows[i] # None
Is(i, status) == Exists(i) /\ rows[i].status = status
Executing(t) == stage[t] \in {"taken", "executing"}

\* The jobs a stop of the process leaves behind for good: nothing reads queued or
\* running rows back at the start.
Unfinished == {i \in Ids : Is(i, "queued") \/ Is(i, "running")}

TypeOK ==
    /\ rows \in [Ids -> Job \union {None}]
    /\ used \subseteq Ids /\ due \subseteq used
    /\ stage \in [Tasks -> Stages]
    /\ of \in [Tasks -> Ids \union {None}]
    /\ copy \in [Tasks -> Job \union {None}]
    /\ by \in [Tasks -> Workers \union {None}]
    /\ queue \in Seq(Tasks)
    /\ active \subseteq Ids
    /\ leaving \in [Workers -> Ids \union {None}]
    /\ gone \subseteq Workers
    /\ sched \in {"seed", "loop", "stopped"}
    /\ snapshot \in [Ids -> Job \union {None}]
    /\ dispatched \in Tasks \union {None}
    /\ seeds \in 0..SeedSize
    /\ seeded \in Tasks \union {None}
    /\ main \in {"up", "stopping", "closed", "down"}
    /\ faults \in 0..MaxFaults /\ boots \in 0..MaxBoots
    /\ stranded \subseteq Ids

\* The process starts with an empty queue, idle workers and the scheduler about to seed.
FreshProcess ==
    /\ stage = [t \in Tasks |-> "free"]
    /\ of = [t \in Tasks |-> None]
    /\ copy = [t \in Tasks |-> None]
    /\ by = [t \in Tasks |-> None]
    /\ queue = <<>>
    /\ active = {}
    /\ leaving = [w \in Workers |-> None]
    /\ gone = {}
    /\ sched = "seed"
    /\ snapshot = [i \in Ids |-> None]
    /\ dispatched = None
    /\ seeds = 0
    /\ seeded = None
    /\ main = "up"

Init ==
    /\ FreshProcess
    /\ rows = [i \in Ids |-> None]
    /\ used = {}
    /\ due = {}
    /\ faults = 0
    /\ boots = 0
    /\ stranded = {}

-----------------------------------------------------------------------------
(* Steps the actions are made of *)

\* gorm's Save(job): updates the row with every field of the copy and, if there is no
\* row to update, inserts one.  Nobody looks at its error, so a write that fails leaves
\* the row as it was and the caller goes on.
Save(i, job) ==
    \/ /\ rows' = [rows EXCEPT ![i] = job]
       /\ faults' = faults
    \/ /\ faults < MaxFaults
       /\ faults' = faults + 1
       /\ rows' = rows

\* A goroutine makes a copy of job i and enters the stage.
Begin(t, i, job, where) ==
    /\ stage[t] = "free"
    /\ stage' = [stage EXCEPT ![t] = where]
    /\ of' = [of EXCEPT ![t] = i]
    /\ copy' = [copy EXCEPT ![t] = job]
    /\ by' = by

\* The owner changes the copy and moves on.
Move(t, job, where, worker) ==
    /\ stage' = [stage EXCEPT ![t] = where]
    /\ copy' = [copy EXCEPT ![t] = job]
    /\ by' = [by EXCEPT ![t] = worker]
    /\ of' = of

\* Nobody refers to the copy any more.
Forget(t) ==
    /\ stage' = [stage EXCEPT ![t] = "free"]
    /\ of' = [of EXCEPT ![t] = None]
    /\ copy' = [copy EXCEPT ![t] = None]
    /\ by' = [by EXCEPT ![t] = None]

\* Enqueue has returned to the scheduler and to the seeding request, if it was theirs.
ReturnFromEnqueue(t) ==
    /\ dispatched' = IF dispatched = t THEN None ELSE dispatched
    /\ seeded' = IF seeded = t THEN None ELSE seeded

-----------------------------------------------------------------------------
(* The API *)

\* A request is begun or under way.  The server accepts requests until srv.Shutdown has
\* closed its listeners, some time after the signal; those under way go on until they
\* end or, if the 10 seconds of srv.Shutdown run out, until main returns.
Serving == main # "down"

\* POST /api/jobs.  If the row cannot be created the request fails and leaves nothing.
CreateJob(t, i, requested, status) ==
    /\ Serving
    /\ i \notin used
    /\ used' = used \union {i}
    /\ rows' = [rows EXCEPT ![i] = NewJob(status, LimitOf(requested))]
    /\ IF status = "queued"
          THEN Begin(t, i, NewJob(status, LimitOf(requested)), "sending")
          ELSE UNCHANGED taskVars
    /\ UNCHANGED <<due, poolVars, schedVars, seedVars, mainVars, faults, stranded>>

\* POST /api/seed: one request creates SeedSize jobs, one after the other.
StartSeeding ==
    /\ Serving
    /\ seeds = 0 /\ seeded = None
    /\ seeds' = SeedSize
    /\ UNCHANGED <<rowVars, taskVars, poolVars, schedVars, seeded, mainVars, faults, stranded>>

\* Fault: one seed too many.
SeedJobOnceMore(t, i, requested, status) ==
    /\ seeds >= 0 /\ seeded = None
    /\ seeds' = seeds - 1
    /\ i \notin used
    /\ used' = used \union {i}
    /\ Save(i, NewJob(status, LimitOf(requested)))
    /\ UNCHANGED <<due, taskVars, seeded, poolVars, schedVars, mainVars, stranded>>

\* One seed: the result of Create is not looked at, so a queued job is handed to the
\* queue even if it has no row.
SeedJob(t, i, requested, status) ==
    /\ seeds > 0 /\ seeded = None
    /\ seeds' = seeds - 1
    /\ i \notin used
    /\ used' = used \union {i}
    /\ Save(i, NewJob(status, LimitOf(requested)))
    /\ IF status = "queued"
          THEN Begin(t, i, NewJob(status, LimitOf(requested)), "sending") /\ seeded' = t
          ELSE UNCHANGED <<taskVars, seeded>>
    /\ UNCHANGED <<due, poolVars, schedVars, mainVars, stranded>>

\* Fault: what the last attempt left in the job is not cleared.
RetryLoadUncleared(t, i) ==
    /\ Serving
    /\ Is(i, "failed")
    /\ Cardinality({u \in Tasks : stage[u] = "retrying"}) < RetryRequests
    /\ Begin(t, i, [rows[i] EXCEPT !.status = "queued", !.retries = 0], "retrying")
    /\ UNCHANGED <<rowVars, poolVars, schedVars, seedVars, mainVars, faults, stranded>>

\* POST /api/jobs/:id/retry, up to the check that the job failed.
RetryLoad(t, i) ==
    /\ Serving
    /\ Is(i, "failed")
    /\ Cardinality({u \in Tasks : stage[u] = "retrying"}) < RetryRequests
    /\ Begin(t, i, NewJob("queued", rows[i].limit), "retrying")
    /\ UNCHANGED <<rowVars, poolVars, schedVars, seedVars, mainVars, faults, stranded>>

\* The rest of it: the row is overwritten with the reset copy, which goes to the queue.
RetrySave(t) ==
    /\ stage[t] = "retrying"
    /\ Save(of[t], copy[t])
    /\ Move(t, copy[t], "sending", None)
    /\ UNCHANGED <<used, due, poolVars, schedVars, seedVars, mainVars, stranded>>

\* DELETE /api/jobs/:id takes no notice of who holds a copy.
DeleteJob(i) ==
    /\ Serving
    /\ Exists(i)
    /\ rows' = [rows EXCEPT ![i] = None]
    /\ UNCHANGED <<used, due, taskVars, poolVars, schedVars, seedVars, mainVars, faults, stranded>>

-----------------------------------------------------------------------------
(* The queue, as FifoQueue promises it *)

\* Enqueue takes the copy.
Accept(t) ==
    /\ stage[t] = "sending"
    /\ main # "closed"
    /\ Len(queue) < Capacity
    /\ queue' = Append(queue, t)
    /\ Move(t, copy[t], "waiting", None)
    /\ ReturnFromEnqueue(t)
    /\ UNCHANGED <<rowVars, active, leaving, gone, sched, snapshot, seeds, mainVars,
                   faults, stranded>>

\* Fault: a full queue refuses the copy instead of making the caller wait.
DropWhenFull(t) ==
    /\ stage[t] = "sending"
    /\ main = "closed" \/ Len(queue) = Capacity
    /\ Forget(t)
    /\ ReturnFromEnqueue(t)
    /\ stranded' = IF main = "closed" THEN stranded \union {of[t]} ELSE stranded
    /\ UNCHANGED <<rowVars, poolVars, sched, snapshot, seeds, mainVars, faults>>

\* Enqueue on the closed queue returns without a word.
Drop(t) ==
    /\ stage[t] = "sending"
    /\ main = "closed"
    /\ Forget(t)
    /\ ReturnFromEnqueue(t)
    /\ stranded' = stranded \union {of[t]}
    /\ UNCHANGED <<rowVars, poolVars, sched, snapshot, seeds, mainVars, faults>>

-----------------------------------------------------------------------------
(* The workers *)

Busy(w) == leaving[w] # None \/ \E t \in Tasks : by[t] = w

\* Dequeue returns the oldest copy to an idle worker, which enters it in activeJobs.
Dequeue(w) ==
    /\ w \notin gone /\ ~Busy(w)
    /\ queue # <<>>
    /\ queue' = Tail(queue)
    /\ Move(Head(queue), copy[Head(queue)], "taken", w)
    /\ active' = active \union {of[Head(queue)]}
    /\ UNCHANGED <<rowVars, leaving, gone, schedVars, seedVars, mainVars, faults, stranded>>

\* Fault: the row is not written before the executor starts.
StartJobUnsaved(t) ==
    /\ stage[t] = "taken"
    /\ Move(t, [copy[t] EXCEPT !.status = "running", !.worker = by[t]], "executing", by[t])
    /\ UNCHANGED <<rowVars, faults, poolVars, schedVars, seedVars, mainVars, stranded>>

\* processJob writes the row and starts the executor.
StartJob(t) ==
    /\ stage[t] = "taken"
    /\ LET job == [copy[t] EXCEPT !.status = "running", !.worker = by[t]] IN
         /\ Save(of[t], job)
         /\ Move(t, job, "executing", by[t])
    /\ UNCHANGED <<used, due, poolVars, schedVars, seedVars, mainVars, stranded>>

\* The executor succeeded.
CompleteJob(t) ==
    /\ stage[t] = "executing"
    /\ Save(of[t], [copy[t] EXCEPT !.status = "completed", !.ended = TRUE])
    /\ Forget(t)
    /\ leaving' = [leaving EXCEPT ![by[t]] = of[t]]
    /\ stranded' = IF faults' = faults THEN stranded ELSE stranded \union {of[t]}
    /\ UNCHANGED <<used, due, queue, active, gone, schedVars, seedVars, mainVars>>

\* Fault: one retry more than the job was given.
RequeueJobOnceMore(t) ==
    /\ stage[t] = "executing"
    /\ copy[t].retries <= copy[t].limit
    /\ LET job == [copy[t] EXCEPT !.status = "queued", !.retries = @ + 1, !.worker = None,
                                  !.error = TRUE, !.ended = TRUE] IN
         /\ Save(of[t], job)
         /\ Move(t, job, "backoff", None)
    /\ leaving' = [leaving EXCEPT ![by[t]] = of[t]]
    /\ UNCHANGED <<used, due, queue, active, gone, schedVars, seedVars, mainVars, stranded>>

\* Fault: the failure path leaves the job in activeJobs.
RequeueJobStillActive(t) ==
    /\ stage[t] = "executing"
    /\ copy[t].retries < copy[t].limit
    /\ LET job == [copy[t] EXCEPT !.status = "queued", !.retries = @ + 1, !.worker = None,
                                  !.error = TRUE, !.ended = TRUE] IN
         /\ Save(of[t], job)
         /\ Move(t, job, "backoff", None)
    /\ UNCHANGED <<used, due, poolVars, schedVars, seedVars, mainVars, stranded>>

\* handleFailure with retries left: back to queued in the database, while the copy
\* waits in a timer's goroutine.
RequeueJob(t) ==
    /\ stage[t] = "executing"
    /\ copy[t].retries < copy[t].limit
    /\ LET job == [copy[t] EXCEPT !.status = "queued", !.retries = @ + 1, !.worker = None,
                                  !.error = TRUE, !.ended = TRUE] IN
         /\ Save(of[t], job)
         /\ Move(t, job, "backoff", None)
    /\ leaving' = [leaving EXCEPT ![by[t]] = of[t]]
    /\ UNCHANGED <<used, due, queue, active, gone, schedVars, seedVars, mainVars, stranded>>

\* handleFailure with none left.
FailJob(t) ==
    /\ stage[t] = "executing"
    /\ copy[t].retries >= copy[t].limit
    /\ Save(of[t], [copy[t] EXCEPT !.status = "failed", !.error = TRUE, !.ended = TRUE])
    /\ Forget(t)
    /\ leaving' = [leaving EXCEPT ![by[t]] = of[t]]
    /\ stranded' = IF faults' = faults THEN stranded ELSE stranded \union {of[t]}
    /\ UNCHANGED <<used, due, queue, active, gone, schedVars, seedVars, mainVars>>

\* The deferred delete at the end of processJob.  By then the copy may be somewhere else.
LeaveJob(w) ==
    /\ leaving[w] # None
    /\ active' = active \ {leaving[w]}
    /\ leaving' = [leaving EXCEPT ![w] = None]
    /\ UNCHANGED <<rowVars, taskVars, queue, gone, schedVars, seedVars, mainVars, faults, stranded>>

\* Fault: an idle worker leaves when it finds the queue empty.
ExitWorkerWhenIdle(w) ==
    /\ w \notin gone /\ ~Busy(w)
    /\ main \in {"stopping", "closed"} \/ queue = <<>>
    /\ gone' = gone \union {w}
    /\ UNCHANGED <<rowVars, taskVars, queue, active, leaving, schedVars, seedVars, mainVars,
                   faults, stranded>>

\* The worker finds its context cancelled, or the channel closed and empty.
ExitWorker(w) ==
    /\ w \notin gone /\ ~Busy(w)
    /\ main \in {"stopping", "closed"}
    /\ gone' = gone \union {w}
    /\ UNCHANGED <<rowVars, taskVars, queue, active, leaving, schedVars, seedVars, mainVars,
                   faults, stranded>>

-----------------------------------------------------------------------------
(* The retry timers *)

\* The backoff is over: the timer's goroutine calls Enqueue.
FireTimer(t) ==
    /\ stage[t] = "backoff"
    /\ Move(t, copy[t], "sending", None)
    /\ UNCHANGED <<rowVars, poolVars, schedVars, seedVars, mainVars, faults, stranded>>

\* The context is cancelled first: the goroutine ends and the row stays queued.
CancelTimer(t) ==
    /\ stage[t] = "backoff"
    /\ main # "up"
    /\ Forget(t)
    /\ stranded' = stranded \union {of[t]}
    /\ UNCHANGED <<rowVars, poolVars, schedVars, seedVars, mainVars, faults>>

-----------------------------------------------------------------------------
(* The scheduler *)

\* seedMonitoringJob, once per start of the process; its error is not looked at.
SeedMonitoringJob(i) ==
    /\ sched = "seed" /\ main # "down"
    /\ i \notin used
    /\ used' = used \union {i}
    /\ Save(i, NewJob("scheduled", SeededLimit))
    /\ sched' = "loop"
    /\ UNCHANGED <<due, taskVars, poolVars, snapshot, dispatched, seedVars, mainVars, stranded>>

\* The clock passes a job's scheduled_at.
ComeDue(i) ==
    /\ Is(i, "scheduled")
    /\ i \notin due
    /\ due' = due \union {i}
    /\ UNCHANGED <<rows, used, taskVars, poolVars, schedVars, seedVars, mainVars, faults, stranded>>

\* The bounded set of identifiers is used up: the scheduler goes on without its job.
SkipMonitoringJob ==
    /\ sched = "seed" /\ main # "down"
    /\ used = Ids
    /\ sched' = "loop"
    /\ UNCHANGED <<rowVars, taskVars, poolVars, snapshot, dispatched, seedVars, mainVars, faults, stranded>>

\* Fault: poll selects by scheduled_at alone.
DueWhateverStatus(i) == Exists(i) /\ i \in due

Polled == \E i \in Ids : snapshot[i] # None
Due(i) == Is(i, "scheduled") /\ i \in due

\* The ticker fires, and poll reads the rows that are due into memory.
Poll ==
    /\ sched = "loop" /\ main # "down"
    /\ ~Polled /\ dispatched = None
    /\ \E i \in Ids : Due(i)
    /\ snapshot' = [i \in Ids |-> IF Due(i) THEN rows[i] ELSE None]
    /\ UNCHANGED <<rowVars, taskVars, poolVars, sched, dispatched, seedVars, mainVars, faults, stranded>>

\* Fault: the row is not written when the copy is queued.
DispatchUnsaved(t, i) ==
    /\ snapshot[i] # None /\ dispatched = None
    /\ snapshot' = [snapshot EXCEPT ![i] = None]
    /\ Begin(t, i, [snapshot[i] EXCEPT !.status = "queued"], "sending")
    /\ dispatched' = t
    /\ UNCHANGED <<rowVars, faults, poolVars, sched, seedVars, mainVars, stranded>>

\* One turn of its loop: the row is overwritten with the copy read before, now queued,
\* and the copy goes to the queue.  The context is not looked at in between.
Dispatch(t, i) ==
    /\ snapshot[i] # None /\ dispatched = None
    /\ snapshot' = [snapshot EXCEPT ![i] = None]
    /\ LET job == [snapshot[i] EXCEPT !.status = "queued"] IN
         /\ Save(i, job)
         /\ Begin(t, i, job, "sending")
    /\ dispatched' = t
    /\ UNCHANGED <<used, due, poolVars, sched, seedVars, mainVars, stranded>>

\* Fault: the scheduler ends with its first idle tick.
StopSchedulerWhenIdle ==
    /\ sched = "loop" /\ main # "down"
    /\ ~Polled /\ dispatched = None
    /\ sched' = "stopped"
    /\ UNCHANGED <<rowVars, taskVars, poolVars, snapshot, dispatched, seedVars, mainVars, faults, stranded>>

\* The loop sees the cancelled context.
StopScheduler ==
    /\ sched = "loop" /\ main \in {"stopping", "closed"}
    /\ ~Polled /\ dispatched = None
    /\ sched' = "stopped"
    /\ UNCHANGED <<rowVars, taskVars, poolVars, snapshot, dispatched, seedVars, mainVars, faults, stranded>>

-----------------------------------------------------------------------------
(* The process *)

\* SIGINT or SIGTERM: the context is cancelled, and main calls srv.Shutdown.
Signal ==
    /\ main = "up"
    /\ main' = "stopping"
    /\ UNCHANGED <<rowVars, taskVars, poolVars, schedVars, seedVars, boots, faults, stranded>>

\* q.Close(), after srv.Shutdown has returned: the requests under way are over, or 10
\* seconds have passed.
CloseQueue ==
    /\ main = "stopping"
    /\ main' = "closed"
    /\ UNCHANGED <<rowVars, taskVars, poolVars, schedVars, seedVars, boots, faults, stranded>>

\* The memory of the process is gone.
LoseMemory ==
    /\ stage' = [t \in Tasks |-> "free"]
    /\ of' = [t \in Tasks |-> None]
    /\ copy' = [t \in Tasks |-> None]
    /\ by' = [t \in Tasks |-> None]
    /\ queue' = <<>>
    /\ active' = {}
    /\ leaving' = [w \in Workers |-> None]
    /\ gone' = {}
    /\ sched' = "seed"
    /\ snapshot' = [i \in Ids |-> None]
    /\ dispatched' = None
    /\ seeds' = 0
    /\ seeded' = None
    /\ stranded' = Unfinished
    /\ UNCHANGED <<rowVars, faults>>

\* main returns: it does not wait for the pool.
Exit ==
    /\ main = "closed"
    /\ main' = "down"
    /\ LoseMemory
    /\ UNCHANGED boots

Crash ==
    /\ main \in {"up", "stopping"}
    /\ boots < MaxBoots
    /\ main' = "down"
    /\ LoseMemory
    /\ UNCHANGED boots

Restart ==
    /\ main = "down"
    /\ boots < MaxBoots
    /\ boots' = boots + 1
    /\ main' = "up"
    /\ UNCHANGED <<rowVars, taskVars, poolVars, schedVars, seedVars, faults, stranded>>

-----------------------------------------------------------------------------
Api ==
    \/ \E t \in Tasks, i \in Ids, r \in Requested, s \in {"queued", "scheduled"} :
          CreateJob(t, i, r, s) \/ SeedJob(t, i, r, s)
    \/ StartSeeding
    \/ \E t \in Tasks, i \in Ids : RetryLoad(t, i)
    \/ \E t \in Tasks : RetrySave(t)
    \/ \E i \in Ids : DeleteJob(i)

Pool ==
    \/ \E t \in Tasks : Accept(t) \/ Drop(t)
    \/ \E w \in Workers : Dequeue(w) \/ LeaveJob(w) \/ ExitWorker(w)
    \/ \E t \in Tasks : StartJob(t) \/ CompleteJob(t) \/ RequeueJob(t) \/ FailJob(t)
    \/ \E t \in Tasks : FireTimer(t) \/ CancelTimer(t)

Scheduler ==
    \/ \E i \in Ids : SeedMonitoringJob(i) \/ ComeDue(i)
    \/ SkipMonitoringJob
    \/ Poll
    \/ \E t \in Tasks, i \in Ids : Dispatch(t, i)
    \/ StopScheduler

Process == Signal \/ CloseQueue \/ Exit \/ Crash \/ Restart

Next == Api \/ Pool \/ Scheduler \/ Process

Spec == Init /\ [][Next]_vars

\* Goroutines that can go on do so: an Enqueue waits for room and for mu, which a
\* sync.Mutex hands over in order (strong fairness); idle workers share the queue; an
\* execution ends within its 2 minutes; timers and the ticker fire.  Nothing makes
\* clients call, signals arrive or processes crash or restart.  The jam that JobQueue
\* finds is excluded here: see the README.
Fairness ==
    /\ \A t \in Tasks :
          /\ WF_vars(RetrySave(t))
          /\ SF_vars(Accept(t))
          /\ WF_vars(Drop(t))
          /\ WF_vars(StartJob(t))
          /\ WF_vars(CompleteJob(t) \/ RequeueJob(t) \/ FailJob(t))
          /\ WF_vars(FireTimer(t) \/ CancelTimer(t))
    /\ WF_vars(\E w \in Workers : Dequeue(w))
    /\ \A w \in Workers : WF_vars(LeaveJob(w))
    /\ WF_vars(SkipMonitoringJob \/ \E i \in Ids : SeedMonitoringJob(i))
    /\ \A i \in Ids : WF_vars(ComeDue(i))
    /\ WF_vars(Poll)
    /\ WF_vars(\E t \in Tasks, i \in Ids : Dispatch(t, i))
    /\ WF_vars(CloseQueue) /\ WF_vars(Exit)

LiveSpec == Spec /\ Fairness

-----------------------------------------------------------------------------
(* Properties *)

Live(t) == stage[t] \notin {"free", "retrying"}

\* A job the database calls queued or running has a copy on its way through the
\* process, whatever clients do at the same time and whichever writes fail; the only
\* exceptions are the jobs a stop or a failed last write left behind.
NoSilentLoss ==
    \A i \in Unfinished : i \in stranded \/ \E t \in Tasks : Live(t) /\ of[t] = i

\* As long as no write has failed the row of such a job says what one of its copies
\* says: a row is running exactly while a worker executes the job.
RowTracksCopy ==
    faults = 0 =>
        \A i \in Unfinished \ stranded :
            \E t \in Tasks : Live(t) /\ of[t] = i /\ copy[t].status = rows[i].status

\* No retry requests overlap, and no write has failed.
Undisturbed == RetryRequests <= 1 /\ faults = 0

\* Then a job is never in the process twice: not by the scheduler polling again, not by a
\* retry, not by a deletion in between.
OneCopyPerJob ==
    Undisturbed =>
        \A t, u \in Tasks : stage[t] # "free" /\ stage[u] # "free" /\ of[t] = of[u] => t = u

\* The jobs some worker has in hand.
InHand == {of[t] : t \in {u \in Tasks : Executing(u)}}
             \union {leaving[w] : w \in {v \in Workers : leaving[v] # None}}

\* No job stays in activeJobs once the workers are done with it, whatever happens to it
\* on the way: the dashboard's active count goes back to zero when the pool is idle.
ActiveJobsInHand == active \subseteq InHand

\* A failed job has used up its retries, and no job ever has more than it was given.
RetryBudget ==
    \A i \in Ids : Exists(i) =>
        /\ rows[i].retries = 0 \/ rows[i].retries <= rows[i].limit
        /\ rows[i].status = "failed" => rows[i].retries >= rows[i].limit

\* An error or an end time in a row is of an attempt of the present round: the job has
\* ended, or has been retried since.  A manual retry starts without them, whichever copy
\* is saved last.
ReportsPresentRound ==
    \A i \in Ids : Exists(i) =>
        /\ rows[i].error => rows[i].status = "failed" \/ rows[i].retries > 0
        /\ rows[i].ended => rows[i].status \in {"completed", "failed"} \/ rows[i].retries > 0

\* The edges of the README's job lifecycle (README.md:211-220), with the way back a
\* retry request opens.
Edges == {<<"scheduled", "queued">>, <<"queued", "running">>, <<"running", "completed">>,
          <<"running", "failed">>, <<"running", "queued">>, <<"failed", "queued">>}

\* Then too, and as long as a row exists, its status changes along the edges only: no
\* stale copy overwrites what another goroutine wrote.
LifecycleEdges ==
    [][\A i \in Ids : Undisturbed' /\ Exists(i) /\ Exists(i)' /\ rows[i].status # rows'[i].status
          => <<rows[i].status, rows'[i].status>> \in Edges]_vars

\* Every job that is queued or running comes to an end, or is deleted, or its copy is
\* dropped because the process stops.
EveryJobFinishes ==
    \A i \in Ids : i \in Unfinished ~> (i \notin Unfinished \/ i \in stranded)

\* A scheduled job is dispatched (or deleted) if the process stays up, also when it was
\* restarted in the meantime.
ScheduledIsDispatched ==
    <>[](main = "up") => \A i \in Ids : Is(i, "scheduled") ~> ~Is(i, "scheduled")

\* "Delete job and all associated data" (README.md:189).
DeletedStaysDeleted ==
    [][\A i \in used : ~Exists(i) => ~Exists(i)']_vars
=============================================================================
