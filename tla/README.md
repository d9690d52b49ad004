# FlowForge Go: a TLA+ model of the job service

FlowForge Go is one Go process with a React dashboard. It takes jobs over HTTP, keeps
them in a database, runs them on a pool of workers fed by an in-memory queue, retries
those that fail, runs jobs at a given time, and pushes changes to browsers. This directory
holds TLA+ modules translated from its source, the TLC runs that check them on small
instances, and proofs that TLAPS checks for every size.

Paths below are relative to the repository.

## 1. The system

| Part | Code | State it keeps | Operations | Used by |
|---|---|---|---|---|
| queue | `internal/queue/queue.go` | a buffered channel (512), a mutex, a counter, a closed flag | Enqueue, Dequeue, Len, Close | handlers, retry timers, scheduler, workers, main |
| workers | `internal/workers/pool.go` | `activeJobs` (a sync.Map), the job each goroutine owns, the retry timers | processJob, handleFailure, generateDiagnostic, ActiveCount | queue, database, executor, hub |
| scheduler | `internal/scheduler/scheduler.go` | the snapshot a poll walks over | seedMonitoringJob at start, poll every 10 s | database, queue |
| API | `internal/api/handlers.go`, `routes.go` | none | create, list, get, retry, delete, diagnose, stats, health, seed | database, queue, hub |
| process | `cmd/server/main.go` | the context, the HTTP server | start, signal, `srv.Shutdown` (10 s), `q.Close`, return | everything |
| storage | `internal/storage` | jobs, job_logs, retry_histories, job_diagnostics (unique per job) | GORM's Create, Save, First, Find, Delete | handlers, workers, scheduler, executor |
| event hub | `internal/ws/hub.go`, `internal/middleware` | the map of clients, a buffer (32) for each | Broadcast, ServeSSE | handlers, workers |
| executor | `internal/jobs/executor.go` | none | the three kinds of jobs | workers |
| diagnostics | `internal/ai/diagnostics.go` | none | Diagnose (Groq or a mock) | workers, handlers |
| event stream | `web/src/contexts/SSEContext.jsx` | an EventSource, a timer, the listeners | connect, reconnect after 3 s, dispatch | pages |
| dashboard | `web/src/pages/Dashboard.jsx` | counts and list fetched last, filters, alert | fetch at mount, after events, after a filter; load demo | API |
| job page | `web/src/pages/JobDetails.jsx` | the job fetched last, busy flags, alert | fetch at mount and after events; diagnose, retry, delete | API |
| wizard | `web/src/pages/SubmitJob.jsx` | step, form, payload as object and as text | fill in, go on and back, enqueue | API |
| routes | `web/src/App.jsx`, `api/client.js` | the address | links, history, `navigate` after answers and events | pages |

How they interact, and where it is hard:

* **Copies.** A `*storage.Job` is filled by a handler or by the scheduler, handed through
  the queue, owned by a worker and after it by a retry timer. Nobody reads the row back;
  everyone writes the whole copy over it with `Save`, which inserts the row if there is
  none. Whatever was done to the row in the meantime (a deletion, another retry) is lost.
* **The queue's mutex.** Enqueue keeps it while it is parked on a full channel; Dequeue
  takes it after it has received.
* **Memory only.** The queue and the timers do not survive the process, and nothing reads
  queued or running rows back at the start.
* **Shutdown.** Workers leave when the context is cancelled, without draining; main waits
  for requests, not for workers.
* **No transactions.** Every write is a statement of its own and its error is ignored:
  deletions, diagnoses and failed attempts are sequences of statements that interleave.
* **Push.** The hub drops an event for a browser whose buffer is full; broadcasts overlap
  under a read lock; a page learns of a change only by an event.
* **Answers.** A page's fetches overlap and each sets the state when its answer comes.
  Handlers go on when their answer comes, also on a page that was left or has been given
  another address meanwhile. An answer may be lost after its request was carried out.

What makes each part correct:

* queue: a bounded FIFO; no send on the closed channel; a counter that means something;
  calls return.
* workers, scheduler, API together: a job the database calls queued or running is really on
  its way; it is there once; its status moves along the documented edges; its retries are
  those it was given; it reaches an end; ActiveCount counts the jobs at work.
* records: the attempts of a run are recorded in order with their backoff; a reader never
  sees fewer of them than the job accounts for; deletions and retries take the records along.
* hub and stream: an event reaches each browser once and in order, or is dropped; nobody
  waits for a browser; a page comes to show what was announced to it.
* pages: at rest they show what the server holds, for the filters or the address set; what is
  enqueued is what was previewed, once; the user is moved only for a cause; no button
  stays busy.
* CSV job: the verdict does not depend on the goroutines' order; nothing panics or leaks.

`PROJECT.json` lists the hazards at their lines with the properties that cover them.

## 2. The modules

| Module | Models | Extends |
|---|---|---|
| `FifoQueue` | what the queue promises: a bounded FIFO with jobs in hand and closed state | |
| `JobQueue` | `queue.go` at the level of mutex and channel, the loop of `runWorker` around it | |
| `JobQueueProofs` | theorems about `JobQueue` and `Shutdown` | `Shutdown` |
| `Shutdown` | the end of `main` around `JobQueue` | `JobQueue` |
| `JobContract` | what the service makes of one job: its row and the copy in hand | |
| `JobLifecycle` | API, queue, workers, timers, scheduler, process and the jobs table | |
| `JobLifecycleProofs` | theorems about `JobLifecycle`: types, no silent loss | `JobLifecycle` |
| `JobCopiesProofs` | theorems about the fields, the status and the end of its copies, its active jobs, its queue, and that it keeps `JobContract` | `JobLifecycleProofs` |
| `JobRecords` | one job's logs, retry history and diagnostic, statement by statement | |
| `JobRecordsProofs` | theorems about `JobRecords`, and that it keeps `JobContract` | `JobRecords` |
| `SseHub` | `hub.go` | |
| `LiveView` | `SSEContext.jsx` and a page on top of the hub | `SseHub` |
| `SseHubProofs` | theorems about `SseHub`, what its broadcasts and handlers wait for, and that `LiveView` implements it | `LiveView` |
| `CsvFanout` | `runCSVProcessing` and its goroutines | |
| `CsvFanoutProofs` | theorems about `CsvFanout`: its verdict, no deadlock, its end | `CsvFanout` |
| `Dashboard` | `Dashboard.jsx` with its filters, chart, list and animated numbers; ListJobs and GetStats | |
| `DashboardProofs` | theorems about `Dashboard` | `Dashboard` |
| `SubmitWizard` | `SubmitJob.jsx` up to its request, and what CreateJob makes of the body | |
| `JobPage` | `JobDetails.jsx`, `JobActionsBar.jsx`, `JobLifecycleTimeline.jsx` up to their requests | |
| `WebApp` | the routes, the requests and answers of one tab, the server's side of them, the events | `SubmitWizard`, `JobPage` |
| `WebAppProofs` | theorems about `WebApp` | `WebApp` |
| `MC*` | model values, symmetry and input sets for the runs | |

In each module an action is one step another goroutine can see the outcome of; its comment
names the code. Operators that start with "Fault:" in their comment are plausible mistakes
in the same place. No next-state relation uses them; they show that the property they are
paired with in `PROJECT.json` would notice.

**JobQueue.** `enq[p]` is where producer p stands in Enqueue: waiting for `mu` (`lock`),
holding it before the send (`send`) and after it (`count`). `deq[c]` is where a worker
stands: in the select of Dequeue, waiting for `mu` to count down (`settle`), with the job
(`work`). A sender that parks on a full channel is `send` with `Len(ch) = Capacity`; that it
keeps `mu` meanwhile is the value of `mu`. `ImplementsFifo` is `FifoQueue` under a
refinement mapping in which a job enters with the channel send and leaves with the receive.

**Shutdown.** Adds which requests are under way, the 10 seconds of `srv.Shutdown`, and the
return of main, after which no goroutine takes a step. `listening` says that the server still
accepts requests, which it does after the signal until `srv.Shutdown` has closed its listeners
(`CloseListeners`). `JobsOf` says which jobs a producer may enqueue: a timer has one of its own.
The queue's own properties are checked here too, in the process that uses it.

**JobLifecycle.** `rows` is the jobs table. A task is a copy with the goroutine that owns it,
and `stage` is where that goroutine stands: `retrying`, `sending`, `waiting`, `taken`,
`executing`, `backoff`. Save is the upsert with its ignored failure. The scheduler's
`snapshot` is the slice `poll` read; `Dispatch` is a turn of its loop. `LeaveJob` is the
deferred delete of `processJob`, which runs after the row has been written. Requests are served
also after the signal, until main goes away (`Serving`). The executor
succeeds, fails, or is cut off by a stop. The queue is the FIFO that `JobQueue` implements.
History: `stranded` collects the jobs whose copy was dropped on purpose (a stop, a cancelled
timer, an Enqueue on the closed queue) or whose last write failed.

**JobContract.** What the service promises of one job, with neither goroutines nor queue: its
row, the copy somebody has in hand (the scheduler, a retry, the queue, a worker, a timer) and
the ten things that may happen to them. It is not run by itself; `JobLifecycle` and
`JobRecords`, which model the same job at two levels of detail, are both proved to keep it
(section 5), so what one says of a job is compatible with what the other says.

**JobRecords.** One job, every statement on its four tables an action. Numbers of attempts
and backoffs are exact. `round` counts manual retries, so that a diagnostic can be told from
one of an earlier round. Overlapping retry requests and crashes are left to `JobLifecycle`.

**SseHub, LiveView.** A Broadcast visits the clients one by one, others at the same time;
Register and Unregister need the write lock. `flushing` says whether the ResponseWriter can
flush: FALSE for the service as built, because of the logging middleware; `Writers` is what
a run allows it to be. `SseHub` has no browser of its own and is run as part of `LiveView`.
The page's state is the version of the database it fetched last; a fetch is one step.

**CsvFanout.** A goroutine per row, the semaphore, the results channel, the WaitGroup, and a
context that may be cancelled. `encoding/csv` refuses a file in which a row has another
number of columns than the header, so the column test of `validateRow` never fails.

**Dashboard.** `fetches` are the calls of fetchAll under way, in the order they were sent, with
the answers of their two requests as far as there are any; the server answers each request
at a moment of its own. `late` marks a fetch that a later one has overtaken. One of the
numbers is followed to the screen: `tweens` are the animations under way, which all take
300 ms and so end in order. `missed` says that a change went by and no event will tell: the
hub dropped it, the stream was down, or it was the scheduler's, which announces nothing. Rows change along
`Announced` and `Unannounced`, which have the deleted job that a worker or the scheduler writes
back.

**SubmitWizard, JobPage, WebApp.** The two pages have their state and their steps; the module
that composes them has the address, the requests under way and the events. A page that is
left is reset, as React forgets its state; its requests go on with `own` false. From one
job's address to another's the job page stays mounted (`Reroute`). A payload is told apart by
where it came from (a type's default, a field of the form, typing) and its `_label`;
`ShownIn` compares the row CreateJob makes of the body, line by line, with what the preview
shows (`SubmitJob.jsx:225-237`); it leaves out the two lines the code does not keep, a limit of 0
and a text that is JSON and no object (section 6). The server
is the rows of the jobs and whatever may happen to them, deletion and the return of a deleted
job (`JobLifecycleDelete`) included. A save and its event are one step here; `LiveView` has
the time in between.

## 3. The runs

All with deadlock checking off: each of these systems may stop (a closed queue, an exited
process, an exhausted bound on jobs or events).

| Run | Instance | Shows |
|---|---|---|
| `Shutdown` | a request, a timer, 2 workers, a stats request, 2 jobs, 1 slot | no send on the closed channel, the counter exact, refinement of the FIFO; the queue closes after the requests; calls return, received jobs are worked on and the process ends unless the queue jams |
| `JobQueueJam` | 2 producers, 2 workers, 1 reader, 1 job, 1 slot, no shutdown needed | **finding**: it jams |
| `JobLifecycle` | 2 jobs, 2 copies, 2 workers, 1 slot, limits -1 and 1, a write that fails anywhere | no loss, no double, status edges, budgets, active jobs, no leftovers of an earlier round |
| `JobLifecycleLive` | 2 jobs, 2 copies, 1 worker, a stop or crash and a restart | every job ends; every scheduled job is dispatched |
| `JobLifecycleDelete` | 2 jobs, 2 copies, 2 workers | **finding**: a deleted job comes back |
| `JobRecords` | 2 diagnoses, limit 2, 1 manual retry | history, doubling backoffs, views, deletion, diagnostics |
| `JobRecordsBackoff` | the same | **finding**: the backoffs are not those documented |
| `LiveView` | 2 broadcasters, an old and a new connection of a page that breaks twice, buffers of 1, 2 events, with and without a writer that flushes | delivered once in order, or dropped; broadcasts return; gone browsers are forgotten; streamed changes are shown |
| `LiveViewNoStream` | the service as built | **finding**: no page catches up |
| `CsvFanout` | 4 rows of 3 kinds, 2 at a time | verdict, no send after close, function and goroutines end |
| `Dashboard` | 1 job, 2 filters, 2 fetches at once, 2 changes, 1 event on its way | the list is for its filters; at rest the page is current; numbers end on what was fetched |
| `WebApp` | 2 jobs (one to be created), 2 types, 2 edits, 2 requests or changes, 2 fetches at once, 1 event on its way | sent as previewed, once; the job of the address, current at rest; moved only for a cause; nothing stays busy if requests are answered |

`MCJobRecords` also has TLC evaluate the backoff of the first eight attempts: 1, 2, 4, 8, 16,
32, 60, 60 seconds.

Bounds. Two of everything that competes (jobs, workers, producers, diagnoses, browsers) is
enough for each pair of steps to interleave; a queue of one slot is full and empty
in turn, with two senders and two workers at it (the order of longer queues is in the proofs); two copies of two jobs let a job be in the process twice, which is what the
properties forbid. One or two retries separate the first attempt, a retried one and the last;
one restart has a process start on the rows another left. A limit of -1 (a client may send a
negative max_retries) is the boundary below 0; a request's 0 becomes the default. A failing
write and a restart are in different runs, because together they exceed what TLC can go
through; the proofs have both. Liveness is checked without failing writes: after one
the scheduler may dispatch a job again whose copy is still about, and then a job waits for a
third copy that the bound of two does not have.
`MaxBoots`, `MaxFaults`, `RetryRequests`, `SeedSize`, `MaxRounds`, `MaxEvents`, `MaxLosses`,
`MaxFetches`, `MaxGets`, `MaxChanges`, `MaxEdits` and `MaxDeeds` bound what could go on for
ever. Two fetches under way are enough for one to overtake the other; two edits reach each
pair of ways to change a payload (a field, the text, the label, the type); two deeds are a
request of the tab and one of somebody else, or two of the tab. With two jobs the address
can change under a mounted job page. The proofs need none of these bounds. Ids are never used again, as UUIDs are not, and
when they run out the scheduler's job is skipped (`SkipMonitoringJob`). The CSV job's four
rows with two slots have goroutines waiting for the semaphore, working and done at once.

## 4. Fairness

* A goroutine that can take a step takes one (weak fairness); `sync.Mutex` and the waiting
  `Lock` of an `RWMutex` are granted in the end (strong fairness on taking them). Go's
  scheduler is preemptive, its mutexes have a starvation mode, and a waiting `Lock` keeps new
  readers out.
* An execution ends: processJob gives it a context of 2 minutes, and the HTTP client and
  the CSV loop watch it. Timers and tickers fire.
* An Enqueue on a full queue gets its slot if slots become free again and again: senders of
  a channel queue up first in, first out.
* srv.Shutdown returns: its context has 10 seconds.
* The browser goes on with the answers and events that have come: in `WebApp` weak fairness
  for each answered request, for some answered fetch and for the delivery of events;
  `Dashboard` is checked for safety only and has no fairness.
* Not assumed: that a request of a page is answered. A handler that stands in Enqueue or Len
  when the queue jams never answers; the server's `WriteTimeout` (`main.go:59`) sets a deadline
  for writing and does not end the handler, and `fetch` (`client.js:4`) has no timeout. In the jam a
  button is busy until the page is left. So `BusyEnds` has the answers as its premise
  (`[]<>AllAnswered`): it says that the pages add no waiting of their own, when an answer is an error
  or lost, comes late or finds its page left.
* Not assumed either: that clients call, that signals or crashes come, that a process is started
  again, that a browser reads a stream it has given up (a handler may write to it for ever), that
  writes succeed.

In `JobLifecycle` the queue is a FIFO that does not jam: the jam (run `JobQueueJam`) is
separated from everything else, and `EveryJobFinishes` holds as far as it does not happen.

## 5. What is proved

For every value of the constants that satisfies the named assumptions:

* `JobQueueProofs`: `TypeCorrect`, `SendsOnlyOnOpenChannel`, `CounterIsExact`,
  `DepthIsBounded`, `QueueIsFifo`, `ShutdownRunsQueue`, `QueueOutlivesRequests`,
  `JamIsForever`, `NothingReturnsFromTheJam`, `OnlyTheJamBlocks`, `JammedServerNeverExits`. The
  inductive invariant says who holds `mu` (exactly the
  producer in `send` or `count`), that the closed flag is set only by a Close that got `mu`,
  and that the counter is the channel's length plus the receives not counted yet minus the
  send not counted yet. Closed and `send` then exclude each other, since both need `mu`. The
  refinement maps each step to a step of `FifoQueue` or a stutter. `ShutdownRunsQueue` says that
  `Shutdown` is a behaviour of `JobQueue`, so the others hold there too; the rest of `main` needs
  that once the way to q.Close is taken the context is done, the listeners are closed, and no
  request was left unless the 10 seconds ran out (`Drained`). In the jam the parked Enqueue holds `mu`, every
  worker waits for it, and nobody makes room: each step keeps that (`JamHolds`), so a jammed
  server never returns from main. As long as `mu` is held and there is no jam, the holder or
  a worker can go on (`FlowsUnlessJammed`): nothing else blocks the queue.
* `JobLifecycleProofs`: `TypeCorrect` and `NothingIsLostSilently`, with overlapping retries,
  failing writes and restarts included. A type is not enough: the invariant has to know that
  a copy in use is a copy of a job that was handed out (`CopiesInUse`), that only such jobs
  have rows (`RowsInUse`), and that what is in the queue is exactly in stage `waiting`, once
  (`QueueShape`); otherwise a Dequeue could take a copy out of another owner's hands. On top
  of it, a job that is queued or running in the database, and not stranded, has a live copy:
  every step that drops a copy either has written a final status, or has put the job among
  the stranded.
* `JobCopiesProofs`: `RetriesStayInBudget`, `RoundsStartClean`, `ActiveIsInHand`,
  `RowsFollowCopies`, `CopiesAreSingle`, `StatusAlongEdges`, `NoLossWhileUp`,
  `UndisturbedLeftBehindStays`, `CopiesWearOut`, `LifecycleUsesFifo` and `JobsKeepContract`. Since a
  stale copy may be saved over a row at any time, what is to hold of the rows has to hold of
  every copy in use and of the scheduler's snapshot too, and none of those may have ended
  (`SaneJobs`); each action then keeps it. For the active jobs the invariant is that a copy
  under way has a worker of its own whose deferred delete is not pending (`Owners`); so the
  step that hands a job from "executing" to "leaving" overwrites no other job.
  `RowTracksCopy` is inductive: the copy that was saved last is the witness. `CopiesAreSingle`
  and `StatusAlongEdges` are conditional, and so is their invariant (`Coherent`): as long as no write has failed and retry
  requests do not overlap, a job has one copy, its row says what the copy says or is the failed
  row a retry has read, and a job the scheduler is about to dispatch has no copy at all. So a
  poll cannot duplicate a job; nor can a retry, which needs a failed row where every copy
  but one loaded by another retry says queued or running.
  * *What is lost.* Before the first stop and without failing writes nothing is stranded, so
    `NoSilentLoss` has no exceptions then (`HasCopyWhileUp`). As long as no write has failed and
    no retry requests overlap, what a stop leaves behind without a copy stays in the database as it
    is, queued or running, through any number of restarts, until somebody deletes it
    (`UndisturbedLeftBehindStays`). Otherwise a row may be taken up once more: a dispatch whose
    Save failed leaves it to a second poll.
  * *How a job ends.* `Wear` of a copy is five times the attempts it has left plus the number of
    stages still ahead in this one: each step of its owner makes it less, whatever writes fail,
    also the step that sends the copy round again (`WearsOut`).
    What `EveryJobFinishes` has beyond it are the fairness and the queue, which must not jam;
    that the jam is the only thing that can block the queue is `OnlyTheJamBlocks` of `JobQueueProofs`.
  * *The queue.* The copies in stage `sending`, the sequence and the copy each worker has are
    a `FifoQueue`; a stop begins a new one (`QueueIsFifo`). `JobQueue` implements the same
    module, so the queue `JobLifecycle` assumes is the one proved of the mutex and the channel.
  * *The contract.* With `Coherent` the row and whatever is in hand of a job, a copy or the
    scheduler's snapshot, take a step of `JobContract` or none (`ContractStep`).
* `JobRecordsProofs`: `HistoryInOrder`, `BackoffsRunOneBehind`, `ViewsAreCovered`,
  `DeletesCleanly`, `DiagnosticIsFresh`, `RecordsKeepContract`. The copy has one owner at a time (`Handing`); where the
  owner stands tells the number of the attempt recorded last (`LastNumber`) and how many the
  history has at least, which covers the row and the view of a reader too (`Counted`).
  `Cleaning` says which tables a deletion has wiped so far while nobody holds the job, `Fresh`
  that diagnostics and diagnoses are of the present round unless one was under way at the retry.
  Backoffs are compared as values of the same function (`BackoffOneBehind`: the n-th attempt has
  the documented value of the one before): powers of two are beyond the prover, and
  TLC evaluates them (`BackoffDoubles`). Under the mapping to `JobContract` (`RowSeen`, `HandSeen`) the statements on
  the other three tables, the reads and the diagnoses are steps that leave the job alone.
* `SseHubProofs`: `HubTypes`, `EveryEventIsAccounted`, `OrderIsKept`, `BroadcastsNeverWait`,
  `GoneOnlyLeave`, `LiveViewImplementsHub`.
  What a browser was owed was sent, was dropped, or is in the hand of a broadcast that has
  still to visit it, exactly one of the three (`Account`); a broadcast visits registered
  browsers only, since Unregister needs the lock that broadcasts read under (`Casts`). Each step of
  the page is a step of the hub or leaves it alone, so both hold of the composition. A walk
  under way never gets longer, and its next client's buffer has room or is full, so a broadcast
  waits for nobody; a browser that went away goes only forward, off the map (`HandlerStep`).
* `CsvFanoutProofs`: `FanoutTypes`, `ReportsBeforeClose`, `VerdictOfReference`,
  `FanoutNeverStuck`, `FanoutEnds`. Counters are
  compared with cardinalities: the WaitGroup with the goroutines it counts (`WaitGroupCounts`),
  the two counts plus the results not read yet with the rows reported (`Tally`). The channel is
  closed when the WaitGroup is at zero, with every goroutine done and every row reported, and the
  verdict is given when every result has been read. Whoever waits for the semaphore waits for a
  goroutine that can go on, and every step counts in one sum over rows, loop and results read
  (`StepsDone`), which is at most six times the rows and five.
* `DashboardProofs`: `ListForFilters`, `ShownAtRest`, `NumberAtRest`, `DashboardTypes`. The
  fetches that were overtaken are always the oldest ones (`LateFirst`); the last that was not
  is for the filters set (`LastIsForFilter`) and, unless an event is on its way or was missed, its
  answers are what the server holds now (`LastIsCurrent`). So the answer that empties the
  list of fetches leaves the page current, or late. For the numbers: with no animation under
  way the screen shows `prevRef`, and the last animation leads to the value fetched last.
* `WebAppProofs`: `EnqueuedAsShown` (on the last step the preview recorded is the form and
  the text as they are; each line of it is then traced through `buildBody` and CreateJob), `OneSubmission` and `PageIsOfItsJob`
  (requests of the page on show have numbers of their own and are about its address; only
  fetches that are not late are for it), `PageAtRest` (the last fetch that is not late reads the row
  as it is now, unless an event about it is on its way; `job_created` events do not count, because
  a job that is being created has no page that shows it), `MovedForCause` (an event of a
  deletion names a job that was deleted), `NeverBusyForNothing` (whatever is shown as busy waits
  for a request of the page on show or for a fetch, also when answers are lost, come late or
  find their page left), `WebTypes`. The composition matters here: each page's
  lemma says what a step of the other leaves alone.

Assumptions: a capacity of at least one, limits that are integers, a finite set of workers
where they are counted, and a `None` different from everything else (from rows too, for
`JobContract`). All of them hold of the code's constants.

Only model-checked: everything under fairness, which is out of this prover's reach, the
backoffs' values (`BackoffDoubles`), and the violations of section 6. Every other safety
property that a passing run checks is proved. Of the liveness properties the parts that are no matter of fairness are proved
too: of the queue that it goes on unless it is jammed; of a job's copies that they have only so
many steps to take; of the CSV job (`EverythingEnds`) both; of the hub that a broadcast waits for no
browser and that a browser that went away can only leave; of the web application that nothing is
busy without cause (`NeverBusyForNothing`). The guards in `FlowsUnlessJammed` are written
out, because ENABLED is beyond the prover.

## 6. What the runs found

Each of these is a run that TLC finds violated:

1. The queue jams when it is full and every worker has just received a job (`JobQueueJam`). It
   never recovers, whatever the capacity, and then main does not return either (section 5).
2. A job deleted while a copy exists comes back (`JobLifecycleDelete`).
3. The event stream ends at once, because the logging middleware's ResponseWriter cannot
   flush, and nothing polls (`LiveViewNoStream`).
4. The backoffs are 1, 2, 4 s, 2^n with n the retries before the attempt, where the form
   (`SubmitJob.jsx:190`), the architecture page (`Architecture.jsx:86-87`) and README.md:23 say
   2, 4, 8 s, 2^n with n the attempt (`JobRecordsBackoff`). They do double up to 60 s, and each is
   recorded with the attempt it followed (`BackoffDoubles`).

The same models show these in the conditions their properties need:

* main returns while workers are in the middle of a job (`Exit` of `Shutdown` waits for no
  worker), although README.md:25 speaks of "worker draining".
* A job that is retried right after its failure runs uncounted by ActiveCount: the first
  worker's `LeaveJob` removes the second one's entry. `ActiveJobsInHand` is an inclusion, and
  the equality does not hold.
* After a signal the process hangs in `q.Close` if the queue is jammed: `ExitsUnlessJammed`
  does not hold without its second disjunct.
* A job that fails and then succeeds on an automatic retry is completed with the error of
  the failed attempt, and waits for its retry with an end time: `ReportsPresentRound` holds
  because of its `retries > 0`.
* `CleanDelete` holds only for a deletion that nothing overlaps: logs, attempts and
  diagnostics written during or after one stay behind.
* Two diagnoses of one job that overlap both delete and then both insert; the unique index
  refuses the second, whose error is ignored (`StoreDiagnostic`).
* A job page whose address changes to another job's while it is mounted shows the old job
  until an event comes, and its buttons act on the new one: `PageShowsItsJob` holds because
  of its `rerouted`. It takes a late answer of the wizard, or the browser's history.
* An answer that later ones have overtaken replaces newer data (`stale` in `PageIsCurrent`,
  `ShownIsCurrent` and `ListIsForItsFilters`).
* The success of a request moves the user from whatever page he is on by then
  (`LeavesForCause` names the request, not the page).
* The preview is not kept in two cases, which `ShownIn` therefore leaves out. "Max retries: 0" is
  offered (`min="0"`, `SubmitJob.jsx:183`) and previewed (line 230), and CreateJob makes it 3
  (`handlers.go:87`). A payload that is JSON and no object, like `5`, is previewed as it is
  (lines 235-237) and sent as `{}` (line 58).
* A `_label` written by a field stays in the payload after the label is emptied; the preview does
  show it, in the text.
* A number that comes back to where an animation began, before that has ended, stays on the
  value in between (`returned` in `NumberSettles`).
* An error on the dashboard is wiped out by the next success, also by that of an older fetch.

## 7. Not modelled

* Data races on the fields of a job that a handler reads after it has enqueued it: a race
  over the answer's content, and the models give answers no content.
* What `runLogAnalysis` counts and what `runMonitoring` makes of an answer: sequential code of
  which the rest of the system learns only that the job succeeded, failed or was cut off, and
  `JobLifecycle` lets each of these happen.
* Times: CompletedAt and durations (a queued job of a retry keeps them), the length of
  timeouts.
* The prompt, the HTTP exchange with Groq and the mock's texts; opening and migrating the
  database; static files; logging.
* What only draws: themes, badges, panels, tooltips, the pages About and Architecture, the log
  and retry tabs, and three widgets of the dashboard (the worker strip, the queue bar and the
  series of throughput samples); toasts and the copy-id button. Build and deployment scripts.
* Paging of ListJobs: the pages ask for the first 50 jobs and no others, and instances are
  smaller than that. GetStats' six counts are one read in `Dashboard`.
* Priority: it is stored and shown, and neither the queue nor the scheduler looks at it.

## 8. Plan

Done: the queue, the life of a job, the shutdown; the records, the push path and the CSV job;
the pages and their composition in one tab; proofs of every safety property checked; that the
jam is for ever and the only one; the termination arguments of the copies and of the CSV job;
that broadcasts wait for no browser and pages are busy for a cause; one contract for both models
of a job. Next:
the line scan of `runLogAnalysis` and the outcomes of `runMonitoring`, against reference
definitions over bounded inputs, next to `CsvFanout` in one model of the executor.
