-------------------------- MODULE JobCopiesProofs --------------------------
(***************************************************************************)
(* What holds of the fields of a job wherever it is written down - its     *)
(* row, its copies, the scheduler's snapshot - for any number of jobs,     *)
(* copies and workers; of Pool.activeJobs; and how the status of a row     *)
(* goes with those of its copies.  Stale copies are saved over rows at any *)
(* time, so what is to hold of rows has to hold of all of them.            *)
(*                                                                         *)
(* On top of it: what a stop leaves behind, that copies wear out, that the *)
(* queue is FifoQueue, and that each job is treated as JobContract says.   *)
(***************************************************************************)
EXTENDS JobLifecycleProofs, FiniteSetTheorems

-----------------------------------------------------------------------------
(* The fields *)

\* RetryBudget and ReportsPresentRound, of one record.
Sane(job) ==
    /\ job.retries = 0 \/ job.retries <= job.limit
    /\ job.status = "failed" => job.retries >= job.limit
    /\ job.error => job.status = "failed" \/ job.retries > 0
    /\ job.ended => job.status \in {"completed", "failed"} \/ job.retries > 0

\* Nobody works on a copy that has ended.
Open(job) == job.status \notin {"completed", "failed"}

SaneRows == \A i \in Ids : rows[i] # None => Sane(rows[i])
SaneSnapshot == \A i \in Ids : snapshot[i] # None => Sane(snapshot[i]) /\ Open(snapshot[i])
SaneCopies == \A t \in Tasks : stage[t] # "free" => Sane(copy[t]) /\ Open(copy[t])
SaneJobs == SaneRows /\ SaneSnapshot /\ SaneCopies

LEMMA SaneNew ==
  ASSUME NEW s \in {"queued", "scheduled"}, NEW l
  PROVE  Sane(NewJob(s, l)) /\ Open(NewJob(s, l))
  BY DEF Sane, Open, NewJob

\* StartJob.
LEMMA SaneStart ==
  ASSUME NEW j \in Job, NEW w, Sane(j), Open(j)
  PROVE  /\ Sane([j EXCEPT !.status = "running", !.worker = w])
         /\ Open([j EXCEPT !.status = "running", !.worker = w])
  BY DEF Sane, Open, Job

\* CompleteJob.
LEMMA SaneComplete ==
  ASSUME NEW j \in Job, Sane(j), Open(j)
  PROVE  Sane([j EXCEPT !.status = "completed", !.ended = TRUE])
  BY DEF Sane, Open, Job

\* RequeueJob.
LEMMA SaneRequeue ==
  ASSUME NEW j \in Job, j.retries < j.limit
  PROVE  LET r == [j EXCEPT !.status = "queued", !.retries = @ + 1, !.worker = None,
                            !.error = TRUE, !.ended = TRUE]
         IN  Sane(r) /\ Open(r)
  BY DEF Sane, Open, Job

\* FailJob.
LEMMA SaneFail ==
  ASSUME NEW j \in Job, Sane(j), j.retries >= j.limit
  PROVE  Sane([j EXCEPT !.status = "failed", !.error = TRUE, !.ended = TRUE])
  BY DEF Sane, Job

\* Dispatch.
LEMMA SaneDispatch ==
  ASSUME NEW j \in Job, Sane(j), Open(j)
  PROVE  Sane([j EXCEPT !.status = "queued"]) /\ Open([j EXCEPT !.status = "queued"])
  BY DEF Sane, Open, Job

-----------------------------------------------------------------------------
(* The steps the actions are made of *)

LEMMA SaneSave ==
  ASSUME TypeOK, SaneRows, NEW i \in Ids, NEW job, Sane(job), Save(i, job)
  PROVE  SaneRows'
  BY DEF TypeOK, SaneRows, Save

LEMMA SaneBegin ==
  ASSUME TypeOK, SaneCopies, NEW t \in Tasks, NEW i, NEW job, NEW where,
         Sane(job), Open(job), Begin(t, i, job, where)
  PROVE  SaneCopies'
  BY DEF TypeOK, SaneCopies, Begin

LEMMA SaneMove ==
  ASSUME TypeOK, SaneCopies, NEW t \in Tasks, NEW job, NEW where, NEW w,
         Sane(job), Open(job), Move(t, job, where, w)
  PROVE  SaneCopies'
  BY DEF TypeOK, SaneCopies, Move

LEMMA SaneForget ==
  ASSUME TypeOK, SaneCopies, NEW t \in Tasks, Forget(t)
  PROVE  SaneCopies'
  BY DEF TypeOK, SaneCopies, Forget

\* What is left alone stays as it is.
LEMMA SaneSame ==
  ASSUME SaneJobs
  PROVE  /\ rows' = rows => SaneRows'
         /\ snapshot' = snapshot => SaneSnapshot'
         /\ UNCHANGED taskVars => SaneCopies'
  BY DEF SaneJobs, SaneRows, SaneSnapshot, SaneCopies, taskVars

-----------------------------------------------------------------------------
LEMMA SaneApi == TypedState /\ SaneJobs /\ Api => SaneJobs'
<1> SUFFICES ASSUME TypedState, SaneJobs, Api PROVE SaneJobs'
  OBVIOUS
<1>0. TypeOK /\ CopiesInUse /\ SaneRows /\ SaneSnapshot /\ SaneCopies
  BY DEF TypedState, SaneJobs
<1> USE DEF SaneJobs
<1>1. ASSUME NEW t \in Tasks, NEW i \in Ids, NEW r \in Requested,
             NEW s \in {"queued", "scheduled"}, CreateJob(t, i, r, s)
      PROVE  SaneJobs'
  <2>1. Sane(NewJob(s, LimitOf(r))) /\ Open(NewJob(s, LimitOf(r)))
    BY SaneNew
  <2>2. SaneRows'
    BY <1>0, <1>1, <2>1 DEF CreateJob, TypeOK, SaneRows
  <2>3. SaneCopies'
    BY <1>0, <1>1, <2>1, SaneBegin, SaneSame DEF CreateJob
  <2>4. SaneSnapshot'
    BY <1>1, SaneSame DEF CreateJob, schedVars
  <2> QED
    BY <2>2, <2>3, <2>4
<1>2. ASSUME NEW t \in Tasks, NEW i \in Ids, NEW r \in Requested,
             NEW s \in {"queued", "scheduled"}, SeedJob(t, i, r, s)
      PROVE  SaneJobs'
  <2>1. Sane(NewJob(s, LimitOf(r))) /\ Open(NewJob(s, LimitOf(r)))
    BY SaneNew
  <2>2. SaneRows'
    BY <1>0, <1>2, <2>1, SaneSave DEF SeedJob
  <2>3. SaneCopies'
    BY <1>0, <1>2, <2>1, SaneBegin, SaneSame DEF SeedJob
  <2>4. SaneSnapshot'
    BY <1>2, SaneSame DEF SeedJob, schedVars
  <2> QED
    BY <2>2, <2>3, <2>4
<1>3. CASE StartSeeding
  BY <1>3, SaneSame DEF StartSeeding, rowVars, schedVars
<1>4. ASSUME NEW t \in Tasks, NEW i \in Ids, RetryLoad(t, i) PROVE SaneJobs'
  <2>1. SaneCopies'
    BY <1>0, <1>4, SaneNew, SaneBegin DEF RetryLoad
  <2> QED
    BY <1>4, <2>1, SaneSame DEF RetryLoad, rowVars, schedVars
<1>5. ASSUME NEW t \in Tasks, RetrySave(t) PROVE SaneJobs'
  <2>1. Sane(copy[t]) /\ Open(copy[t]) /\ of[t] \in Ids
    BY <1>0, <1>5 DEF RetrySave, SaneCopies, CopiesInUse, TypeOK
  <2>2. SaneRows'
    BY <1>0, <1>5, <2>1, SaneSave DEF RetrySave
  <2>3. SaneCopies'
    BY <1>0, <1>5, <2>1, SaneMove DEF RetrySave
  <2> QED
    BY <1>5, <2>2, <2>3, SaneSame DEF RetrySave, schedVars
<1>6. ASSUME NEW i \in Ids, DeleteJob(i) PROVE SaneJobs'
  <2>1. SaneRows'
    BY <1>0, <1>6 DEF DeleteJob, TypeOK, SaneRows
  <2> QED
    BY <1>6, <2>1, SaneSame DEF DeleteJob, schedVars
<1> QED
  BY <1>1, <1>2, <1>3, <1>4, <1>5, <1>6 DEF Api

LEMMA SanePool == TypedState /\ SaneJobs /\ Pool => SaneJobs'
<1> SUFFICES ASSUME TypedState, SaneJobs, Pool PROVE SaneJobs'
  OBVIOUS
<1>0. TypeOK /\ CopiesInUse /\ QueueShape /\ SaneRows /\ SaneSnapshot /\ SaneCopies
  BY DEF TypedState, SaneJobs
<1> USE DEF SaneJobs
\* A copy in use is one whose fields are known.
<1>a. \A t \in Tasks : stage[t] # "free" =>
          copy[t] \in Job /\ Sane(copy[t]) /\ Open(copy[t]) /\ of[t] \in Ids
  BY <1>0 DEF SaneCopies, CopiesInUse, TypeOK
<1>1. ASSUME NEW t \in Tasks, Accept(t) \/ FireTimer(t) PROVE SaneJobs'
  <2>1. SaneCopies'
    BY <1>0, <1>1, <1>a, SaneMove DEF Accept, FireTimer
  <2> QED
    BY <1>1, <2>1, SaneSame DEF Accept, FireTimer, rowVars, schedVars
<1>2. ASSUME NEW t \in Tasks, Drop(t) \/ CancelTimer(t) PROVE SaneJobs'
  <2>1. SaneCopies'
    BY <1>0, <1>2, SaneForget DEF Drop, CancelTimer
  <2> QED
    BY <1>2, <2>1, SaneSame DEF Drop, CancelTimer, rowVars, schedVars
<1>3. ASSUME NEW w \in Workers, Dequeue(w) PROVE SaneJobs'
  <2> DEFINE t == Head(queue)
  <2>1. t \in Tasks /\ t = queue[1] /\ 1 \in 1..Len(queue)
    BY <1>0, <1>3 DEF Dequeue, TypeOK
  <2>2. stage[t] = "waiting"
    BY <1>0, <2>1 DEF QueueShape
  <2>3. Move(t, copy[t], "taken", w)
    BY <1>3 DEF Dequeue
  <2>4. SaneCopies'
    <3> HIDE DEF t
    <3> QED
      BY <1>0, <1>a, <2>1, <2>2, <2>3, SaneMove
  <2> QED
    BY <1>3, <2>4, SaneSame DEF Dequeue, rowVars, schedVars
<1>4. ASSUME NEW w \in Workers, ExitWorker(w) \/ LeaveJob(w) PROVE SaneJobs'
  BY <1>4, SaneSame DEF ExitWorker, LeaveJob, rowVars, schedVars
<1>5. ASSUME NEW t \in Tasks, StartJob(t) PROVE SaneJobs'
  <2> DEFINE job == [copy[t] EXCEPT !.status = "running", !.worker = by[t]]
  <2>1. Save(of[t], job) /\ Move(t, job, "executing", by[t]) /\ stage[t] = "taken"
    BY <1>5 DEF StartJob
  <2>2. Sane(job) /\ Open(job) /\ of[t] \in Ids
    BY <1>a, <2>1, SaneStart
  <2> HIDE DEF job
  <2>3. SaneRows' /\ SaneCopies'
    BY <1>0, <2>1, <2>2, SaneSave, SaneMove
  <2> QED
    BY <1>5, <2>3, SaneSame DEF StartJob, schedVars
<1>6. ASSUME NEW t \in Tasks, CompleteJob(t) PROVE SaneJobs'
  <2> DEFINE job == [copy[t] EXCEPT !.status = "completed", !.ended = TRUE]
  <2>1. Save(of[t], job) /\ Forget(t) /\ stage[t] = "executing"
    BY <1>6 DEF CompleteJob
  <2>2. Sane(job) /\ of[t] \in Ids
    BY <1>a, <2>1, SaneComplete
  <2> HIDE DEF job
  <2>3. SaneRows' /\ SaneCopies'
    BY <1>0, <2>1, <2>2, SaneSave, SaneForget
  <2> QED
    BY <1>6, <2>3, SaneSame DEF CompleteJob, schedVars
<1>7. ASSUME NEW t \in Tasks, RequeueJob(t) PROVE SaneJobs'
  <2> DEFINE job == [copy[t] EXCEPT !.status = "queued", !.retries = @ + 1, !.worker = None,
                                    !.error = TRUE, !.ended = TRUE]
  <2>1. /\ Save(of[t], job) /\ Move(t, job, "backoff", None)
        /\ stage[t] = "executing" /\ copy[t].retries < copy[t].limit
    BY <1>7 DEF RequeueJob
  <2>2. Sane(job) /\ Open(job) /\ of[t] \in Ids
    BY <1>a, <2>1, SaneRequeue
  <2> HIDE DEF job
  <2>3. SaneRows' /\ SaneCopies'
    BY <1>0, <2>1, <2>2, SaneSave, SaneMove
  <2> QED
    BY <1>7, <2>3, SaneSame DEF RequeueJob, schedVars
<1>8. ASSUME NEW t \in Tasks, FailJob(t) PROVE SaneJobs'
  <2> DEFINE job == [copy[t] EXCEPT !.status = "failed", !.error = TRUE, !.ended = TRUE]
  <2>1. /\ Save(of[t], job) /\ Forget(t)
        /\ stage[t] = "executing" /\ copy[t].retries >= copy[t].limit
    BY <1>8 DEF FailJob
  <2>2. Sane(job) /\ of[t] \in Ids
    BY <1>a, <2>1, SaneFail
  <2> HIDE DEF job
  <2>3. SaneRows' /\ SaneCopies'
    BY <1>0, <2>1, <2>2, SaneSave, SaneForget
  <2> QED
    BY <1>8, <2>3, SaneSame DEF FailJob, schedVars
<1> QED
  BY <1>1, <1>2, <1>3, <1>4, <1>5, <1>6, <1>7, <1>8 DEF Pool

LEMMA SaneScheduler == TypedState /\ SaneJobs /\ Scheduler => SaneJobs'
<1> SUFFICES ASSUME TypedState, SaneJobs, Scheduler PROVE SaneJobs'
  OBVIOUS
<1>0. TypeOK /\ SaneRows /\ SaneSnapshot /\ SaneCopies
  BY DEF TypedState, SaneJobs
<1> USE DEF SaneJobs
<1>1. ASSUME NEW i \in Ids, SeedMonitoringJob(i) PROVE SaneJobs'
  <2>1. SaneRows'
    BY <1>0, <1>1, SaneNew, SaneSave DEF SeedMonitoringJob
  <2> QED
    BY <1>1, <2>1, SaneSame DEF SeedMonitoringJob
<1>2. ASSUME NEW i \in Ids, ComeDue(i) PROVE SaneJobs'
  BY <1>2, SaneSame DEF ComeDue, schedVars
<1>3. CASE SkipMonitoringJob \/ StopScheduler
  BY <1>3, SaneSame DEF SkipMonitoringJob, StopScheduler, rowVars
<1>4. CASE Poll
  <2>1. snapshot' = [i \in Ids |-> IF Due(i) THEN rows[i] ELSE None]
    BY <1>4 DEF Poll
  <2>2. \A i \in Ids : Due(i) => rows[i] # None /\ Open(rows[i])
    BY DEF Due, Is, Exists, Open
  <2>3. SaneSnapshot'
    BY <1>0, <2>1, <2>2 DEF SaneSnapshot, SaneRows
  <2> QED
    BY <1>4, <2>3, SaneSame DEF Poll, rowVars
<1>5. ASSUME NEW t \in Tasks, NEW i \in Ids, Dispatch(t, i) PROVE SaneJobs'
  <2> DEFINE job == [snapshot[i] EXCEPT !.status = "queued"]
  <2>1. Save(i, job) /\ Begin(t, i, job, "sending") /\ snapshot' = [snapshot EXCEPT ![i] = None]
    BY <1>5 DEF Dispatch
  <2>2. snapshot[i] \in Job /\ Sane(snapshot[i]) /\ Open(snapshot[i])
    BY <1>0, <1>5 DEF Dispatch, TypeOK, SaneSnapshot
  <2>3. Sane(job) /\ Open(job)
    BY <2>2, SaneDispatch
  <2> HIDE DEF job
  <2>4. SaneRows' /\ SaneCopies'
    BY <1>0, <2>1, <2>3, SaneSave, SaneBegin
  <2>5. SaneSnapshot'
    BY <1>0, <2>1 DEF SaneSnapshot, TypeOK
  <2> QED
    BY <2>4, <2>5
<1> QED
  BY <1>1, <1>2, <1>3, <1>4, <1>5 DEF Scheduler

LEMMA SaneProcess == SaneJobs /\ Process => SaneJobs'
<1> SUFFICES ASSUME SaneJobs, Process PROVE SaneJobs'
  OBVIOUS
<1> USE DEF SaneJobs
<1>1. CASE Signal \/ CloseQueue \/ Restart
  BY <1>1, SaneSame DEF Signal, CloseQueue, Restart, rowVars, schedVars
<1>2. CASE Exit \/ Crash
  <2>1. LoseMemory
    BY <1>2 DEF Exit, Crash
  <2>2. SaneSnapshot' /\ SaneCopies'
    BY <2>1 DEF LoseMemory, SaneSnapshot, SaneCopies
  <2> QED
    BY <2>1, <2>2, SaneSame DEF LoseMemory, rowVars
<1> QED
  BY <1>1, <1>2 DEF Process

LEMMA SaneInvariant == Spec => []SaneJobs
<1>1. Init => SaneJobs
  BY DEF Init, FreshProcess, SaneJobs, SaneRows, SaneSnapshot, SaneCopies
<1>2. SaneJobs /\ UNCHANGED vars => SaneJobs'
  BY SaneSame DEF SaneJobs, vars, rowVars, schedVars
<1>3. TypedState /\ SaneJobs /\ [Next]_vars => SaneJobs'
  BY <1>2, SaneApi, SanePool, SaneScheduler, SaneProcess DEF Next
<1> QED
  BY <1>1, <1>3, TypedInvariant, PTL DEF Spec

\* A failed job has used up its retries, and none has more than it was given, whatever
\* copies of it are about.
THEOREM RetriesStayInBudget == Spec => []RetryBudget
<1>1. SaneJobs => RetryBudget
  BY DEF SaneJobs, SaneRows, Sane, RetryBudget, Exists
<1> QED
  BY <1>1, SaneInvariant, PTL

\* An error or an end time in a row is of the present round of attempts.
THEOREM RoundsStartClean == Spec => []ReportsPresentRound
<1>1. SaneJobs => ReportsPresentRound
  BY DEF SaneJobs, SaneRows, Sane, ReportsPresentRound, Exists
<1> QED
  BY <1>1, SaneInvariant, PTL

-----------------------------------------------------------------------------
(* The active jobs *)

\* A copy under way has a worker of its own, which is not done with another job.
Owners ==
    /\ \A t \in Tasks : Executing(t) => by[t] \in Workers /\ leaving[by[t]] = None
    /\ \A t, u \in Tasks : Executing(t) /\ Executing(u) /\ by[t] = by[u] => t = u

\* Every active job is one a worker executes or is about to leave.
Accounted ==
    \A i \in active : \/ \E t \in Tasks : Executing(t) /\ of[t] = i
                      \/ \E w \in Workers : leaving[w] = i

ActiveState == Owners /\ Accounted

LEMMA AccountedIsInHand == TypeOK => (Accounted <=> ActiveJobsInHand)
  BY NoneAssumption DEF TypeOK, Accounted, ActiveJobsInHand, InHand

\* A step that leaves the workers' copies, activeJobs and the deferred deletes alone.
LEMMA AwayFromWorkers ==
  ASSUME ActiveState, UNCHANGED <<active, leaving>>,
         \A t \in Tasks : Executing(t)' <=> Executing(t),
         \A t \in Tasks : Executing(t) => by'[t] = by[t] /\ of'[t] = of[t]
  PROVE  ActiveState'
  BY DEF ActiveState, Owners, Accounted

\* Making a copy, and moving or forgetting one that no worker owns, are such steps.
LEMMA BeginAway ==
  ASSUME TypeOK, NEW t \in Tasks, NEW i, NEW job, NEW where,
         where \notin {"taken", "executing"}, Begin(t, i, job, where)
  PROVE  \A u \in Tasks : /\ Executing(u)' <=> Executing(u)
                          /\ Executing(u) => by'[u] = by[u] /\ of'[u] = of[u]
  BY DEF TypeOK, Begin, Executing

LEMMA MoveAway ==
  ASSUME TypeOK, NEW t \in Tasks, NEW job, NEW where, NEW w, ~Executing(t),
         where \notin {"taken", "executing"}, Move(t, job, where, w)
  PROVE  \A u \in Tasks : /\ Executing(u)' <=> Executing(u)
                          /\ Executing(u) => by'[u] = by[u] /\ of'[u] = of[u]
  BY DEF TypeOK, Move, Executing

LEMMA ForgetAway ==
  ASSUME TypeOK, NEW t \in Tasks, ~Executing(t), Forget(t)
  PROVE  \A u \in Tasks : /\ Executing(u)' <=> Executing(u)
                          /\ Executing(u) => by'[u] = by[u] /\ of'[u] = of[u]
  BY DEF TypeOK, Forget, Executing

LEMMA SameAway ==
  ASSUME UNCHANGED taskVars
  PROVE  \A u \in Tasks : /\ Executing(u)' <=> Executing(u)
                          /\ Executing(u) => by'[u] = by[u] /\ of'[u] = of[u]
  BY DEF taskVars, Executing

\* A worker that has written its last row gives the copy up and is about to leave the job.
LEMMA GiveUp ==
  ASSUME TypeOK, ActiveState, NEW t \in Tasks, Executing(t),
         ~Executing(t)', \A u \in Tasks : u # t => stage'[u] = stage[u] /\ by'[u] = by[u] /\ of'[u] = of[u],
         leaving' = [leaving EXCEPT ![by[t]] = of[t]], active' = active
  PROVE  ActiveState'
<1>1. by[t] \in Workers /\ leaving[by[t]] = None
  BY DEF ActiveState, Owners
<1>2. \A u \in Tasks : u # t => (Executing(u)' <=> Executing(u))
  BY DEF Executing
<1>3. leaving'[by[t]] = of[t] /\ \A w \in Workers : w # by[t] => leaving'[w] = leaving[w]
  BY <1>1 DEF TypeOK
<1>4. Owners'
  BY <1>2, <1>3 DEF ActiveState, Owners
<1>5. ASSUME NEW i \in active'
      PROVE  \/ \E u \in Tasks : Executing(u)' /\ of'[u] = i
             \/ \E w \in Workers : leaving'[w] = i
  <2>1. CASE of[t] = i
    BY <1>1, <1>3, <2>1
  <2>2. CASE of[t] # i /\ \E u \in Tasks : Executing(u) /\ of[u] = i
    BY <1>2, <2>2
  <2>3. CASE \E w \in Workers : leaving[w] = i
    <3>1. i # None
      BY <1>5, NoneAssumption DEF TypeOK
    <3> QED
      BY <1>1, <1>3, <2>3, <3>1
  <2> QED
    BY <1>5, <2>1, <2>2, <2>3 DEF ActiveState, Accounted
<1>6. Accounted'
  BY <1>5 DEF Accounted
<1> QED
  BY <1>4, <1>6 DEF ActiveState

LEMMA ActiveApi == TypedState /\ ActiveState /\ Api => ActiveState'
<1> SUFFICES ASSUME TypedState, ActiveState, Api PROVE ActiveState'
  OBVIOUS
<1>0. TypeOK
  BY DEF TypedState
<1>1. ASSUME NEW t \in Tasks, NEW i \in Ids, NEW r \in Requested,
             NEW s \in {"queued", "scheduled"}, CreateJob(t, i, r, s) \/ SeedJob(t, i, r, s)
      PROVE  ActiveState'
  <2>1. UNCHANGED taskVars \/ Begin(t, i, NewJob(s, LimitOf(r)), "sending")
    BY <1>1 DEF CreateJob, SeedJob
  <2> QED
    BY <1>0, <1>1, <2>1, BeginAway, SameAway, AwayFromWorkers DEF CreateJob, SeedJob, poolVars
<1>2. ASSUME NEW t \in Tasks, NEW i \in Ids, RetryLoad(t, i) PROVE ActiveState'
  BY <1>0, <1>2, BeginAway, AwayFromWorkers DEF RetryLoad, poolVars
<1>3. ASSUME NEW t \in Tasks, RetrySave(t) PROVE ActiveState'
  <2>1. ~Executing(t)
    BY <1>3 DEF RetrySave, Executing
  <2> QED
    BY <1>0, <1>3, <2>1, MoveAway, AwayFromWorkers DEF RetrySave, poolVars
<1>4. ASSUME NEW i \in Ids, DeleteJob(i) PROVE ActiveState'
  BY <1>4, SameAway, AwayFromWorkers DEF DeleteJob, poolVars
<1>5. CASE StartSeeding
  BY <1>5, SameAway, AwayFromWorkers DEF StartSeeding, poolVars
<1> QED
  BY <1>1, <1>2, <1>3, <1>4, <1>5 DEF Api

LEMMA ActivePool == TypedState /\ ActiveState /\ Pool => ActiveState'
<1> SUFFICES ASSUME TypedState, ActiveState, Pool PROVE ActiveState'
  OBVIOUS
<1>0. TypeOK /\ CopiesInUse /\ QueueShape
  BY DEF TypedState
<1>1. ASSUME NEW t \in Tasks, Accept(t) \/ FireTimer(t) PROVE ActiveState'
  <2>1. ~Executing(t)
    BY <1>1 DEF Accept, FireTimer, Executing
  <2>2. Move(t, copy[t], "waiting", None) \/ Move(t, copy[t], "sending", None)
    BY <1>1 DEF Accept, FireTimer
  <2> QED
    BY <1>0, <1>1, <2>1, <2>2, MoveAway, AwayFromWorkers DEF Accept, FireTimer, poolVars
<1>2. ASSUME NEW t \in Tasks, Drop(t) \/ CancelTimer(t) PROVE ActiveState'
  <2>1. ~Executing(t)
    BY <1>2 DEF Drop, CancelTimer, Executing
  <2> QED
    BY <1>0, <1>2, <2>1, ForgetAway, AwayFromWorkers DEF Drop, CancelTimer, poolVars
<1>3. ASSUME NEW w \in Workers, Dequeue(w) PROVE ActiveState'
  <2>0. Head(queue) \in Tasks /\ Head(queue) = queue[1] /\ 1 \in 1..Len(queue)
    BY <1>0, <1>3 DEF Dequeue, TypeOK
  <2>1. PICK t \in Tasks : t = Head(queue)
    BY <2>0
  <2>2. ~Executing(t)
    BY <1>0, <2>0, <2>1 DEF QueueShape, Executing
  <2>3. /\ Move(t, copy[t], "taken", w) /\ active' = active \union {of[t]} /\ leaving' = leaving
        /\ leaving[w] = None /\ \A u \in Tasks : by[u] # w
    BY <1>3, <2>1 DEF Dequeue, Busy
  <2>4. /\ Executing(t)' /\ by'[t] = w /\ of' = of
        /\ \A u \in Tasks : u # t => (Executing(u)' <=> Executing(u)) /\ by'[u] = by[u]
    BY <1>0, <2>1, <2>3 DEF Move, TypeOK, Executing
  <2>5. Owners'
    BY <2>1, <2>2, <2>3, <2>4 DEF ActiveState, Owners
  <2>6. Accounted'
    BY <2>1, <2>2, <2>3, <2>4 DEF ActiveState, Accounted
  <2> QED
    BY <2>5, <2>6 DEF ActiveState
<1>4. ASSUME NEW w \in Workers, LeaveJob(w) PROVE ActiveState'
  <2>1. /\ active' = active \ {leaving[w]} /\ UNCHANGED taskVars
        /\ leaving' = [leaving EXCEPT ![w] = None]
    BY <1>4 DEF LeaveJob
  <2>2. leaving'[w] = None /\ \A v \in Workers : v # w => leaving'[v] = leaving[v]
    BY <1>0, <2>1 DEF TypeOK
  <2>3. Owners'
    BY <2>1, <2>2 DEF ActiveState, Owners, Executing, taskVars
  <2>4. Accounted'
    BY <2>1, <2>2 DEF ActiveState, Accounted, Executing, taskVars
  <2> QED
    BY <2>3, <2>4 DEF ActiveState
<1>5. ASSUME NEW w \in Workers, ExitWorker(w) PROVE ActiveState'
  BY <1>5, SameAway, AwayFromWorkers DEF ExitWorker
<1>6. ASSUME NEW t \in Tasks, StartJob(t) PROVE ActiveState'
  <2>1. \A u \in Tasks : (Executing(u)' <=> Executing(u)) /\ by'[u] = by[u] /\ of'[u] = of[u]
    BY <1>0, <1>6 DEF StartJob, Move, TypeOK, Executing
  <2> QED
    BY <1>6, <2>1, AwayFromWorkers DEF StartJob, poolVars
<1>7. ASSUME NEW t \in Tasks, CompleteJob(t) \/ FailJob(t) PROVE ActiveState'
  <2>1. Executing(t) /\ Forget(t) /\ leaving' = [leaving EXCEPT ![by[t]] = of[t]] /\ active' = active
    BY <1>7 DEF CompleteJob, FailJob, Executing
  <2>2. /\ ~Executing(t)'
        /\ \A u \in Tasks : u # t => stage'[u] = stage[u] /\ by'[u] = by[u] /\ of'[u] = of[u]
    BY <1>0, <2>1 DEF Forget, TypeOK, Executing
  <2> QED
    BY <1>0, <2>1, <2>2, GiveUp
<1>8. ASSUME NEW t \in Tasks, RequeueJob(t) PROVE ActiveState'
  <2>1. Executing(t) /\ leaving' = [leaving EXCEPT ![by[t]] = of[t]] /\ active' = active
    BY <1>8 DEF RequeueJob, Executing
  <2>2. PICK job : Move(t, job, "backoff", None)
    BY <1>8 DEF RequeueJob
  <2>3. /\ ~Executing(t)'
        /\ \A u \in Tasks : u # t => stage'[u] = stage[u] /\ by'[u] = by[u] /\ of'[u] = of[u]
    BY <1>0, <2>2 DEF Move, TypeOK, Executing
  <2> QED
    BY <1>0, <2>1, <2>3, GiveUp
<1> QED
  BY <1>1, <1>2, <1>3, <1>4, <1>5, <1>6, <1>7, <1>8 DEF Pool

LEMMA ActiveScheduler == TypedState /\ ActiveState /\ Scheduler => ActiveState'
<1> SUFFICES ASSUME TypedState, ActiveState, Scheduler PROVE ActiveState'
  OBVIOUS
<1>0. TypeOK
  BY DEF TypedState
<1>1. ASSUME NEW i \in Ids, SeedMonitoringJob(i) \/ ComeDue(i) PROVE ActiveState'
  BY <1>1, SameAway, AwayFromWorkers DEF SeedMonitoringJob, ComeDue, poolVars
<1>2. CASE SkipMonitoringJob \/ Poll \/ StopScheduler
  BY <1>2, SameAway, AwayFromWorkers DEF SkipMonitoringJob, Poll, StopScheduler, poolVars
<1>3. ASSUME NEW t \in Tasks, NEW i \in Ids, Dispatch(t, i) PROVE ActiveState'
  <2>1. PICK job : Begin(t, i, job, "sending")
    BY <1>3 DEF Dispatch
  <2> QED
    BY <1>0, <1>3, <2>1, BeginAway, AwayFromWorkers DEF Dispatch, poolVars
<1> QED
  BY <1>1, <1>2, <1>3 DEF Scheduler

LEMMA ActiveProcess == ActiveState /\ Process => ActiveState'
<1> SUFFICES ASSUME ActiveState, Process PROVE ActiveState'
  OBVIOUS
<1>1. CASE Signal \/ CloseQueue \/ Restart
  BY <1>1, SameAway, AwayFromWorkers DEF Signal, CloseQueue, Restart, poolVars
<1>2. CASE Exit \/ Crash
  BY <1>2 DEF Exit, Crash, LoseMemory, ActiveState, Owners, Accounted, Executing
<1> QED
  BY <1>1, <1>2 DEF Process

\* No job stays in activeJobs once no worker has it in hand, also when retries overlap and
\* a job is executed twice.
THEOREM ActiveIsInHand == Spec => []ActiveJobsInHand
<1>1. Init => ActiveState
  BY DEF Init, FreshProcess, ActiveState, Owners, Accounted, Executing
<1>2. ActiveState /\ UNCHANGED vars => ActiveState'
  BY SameAway, AwayFromWorkers DEF vars, poolVars
<1>3. TypedState /\ ActiveState /\ [Next]_vars => ActiveState'
  BY <1>2, ActiveApi, ActivePool, ActiveScheduler, ActiveProcess DEF Next
<1>4. TypedState /\ ActiveState => ActiveJobsInHand
  BY AccountedIsInHand DEF TypedState, ActiveState
<1> QED
  BY <1>1, <1>3, <1>4, TypedInvariant, PTL DEF Spec

-----------------------------------------------------------------------------
(* The status of a row and of its copies *)

\* What the copy of a job says, by where its owner stands.
Says(t) == IF stage[t] = "executing" THEN "running" ELSE "queued"

NoCopy(i) == \A t \in Tasks : stage[t] # "free" => of[t] # i

\* Without overlapping retry requests and failed writes: a job has one copy, ...
Apart == \A t, u \in Tasks : stage[t] # "free" /\ stage[u] # "free" /\ of[t] = of[u] => t = u
OneRetry == \A t, u \in Tasks : stage[t] = "retrying" /\ stage[u] = "retrying" => t = u
\* ... its row, if there is one, says what the copy says, or is still the failed row that a
\* retry has read, ...
Agree ==
    \A t \in Tasks : stage[t] # "free" =>
        /\ copy[t].status = Says(t)
        /\ \/ rows[of[t]] = None
           \/ rows[of[t]].status = IF stage[t] = "retrying" THEN "failed" ELSE Says(t)
\* ... and a job the scheduler is about to dispatch has no copy yet.
Pending ==
    \A i \in Ids : snapshot[i] # None =>
        NoCopy(i) /\ (rows[i] = None \/ rows[i].status = "scheduled")

Coherent == Apart /\ OneRetry /\ Agree /\ Pending

StatusState == RowTracksCopy /\ (Undisturbed => Coherent)

\* A write that is known not to have failed has been made.
LEMMA SaveWorks ==
  ASSUME TypeOK, NEW i, NEW job, Save(i, job), faults' = 0
  PROVE  faults = 0 /\ rows' = [rows EXCEPT ![i] = job]
  BY BoundAssumption DEF TypeOK, Save

\* Failed writes are only ever added.
LEMMA FaultsStay ==
  ASSUME TypeOK, Next, faults' = 0
  PROVE  faults = 0
<1>0. faults \in Nat /\ \A i, job : Save(i, job) => faults' = faults \/ faults' = faults + 1
  BY BoundAssumption DEF TypeOK, Save
<1>1. CASE faults' = faults
  BY <1>1
<1>2. CASE faults' # faults
  <2>1. \E i, job : Save(i, job)
    <3>1. CASE Api
      <4>1. ASSUME NEW t \in Tasks, NEW i \in Ids, NEW r \in Requested,
                   NEW s \in {"queued", "scheduled"}, CreateJob(t, i, r, s) \/ SeedJob(t, i, r, s)
            PROVE  \E j, job : Save(j, job)
        BY <1>2, <4>1 DEF CreateJob, SeedJob
      <4>2. CASE StartSeeding
        BY <1>2, <4>2 DEF StartSeeding
      <4> QED
        BY <1>2, <3>1, <4>1, <4>2 DEF Api, RetryLoad, RetrySave, DeleteJob
    <3>2. CASE Pool
      <4>1. ASSUME NEW t \in Tasks, StartJob(t) \/ CompleteJob(t) \/ RequeueJob(t) \/ FailJob(t)
            PROVE  \E i, job : Save(i, job)
        BY <4>1 DEF StartJob, CompleteJob, RequeueJob, FailJob
      <4> QED
        BY <1>2, <3>2, <4>1
           DEF Pool, Accept, Drop, Dequeue, LeaveJob, ExitWorker, FireTimer, CancelTimer
    <3>3. CASE Scheduler
      BY <1>2, <3>3 DEF Scheduler, SeedMonitoringJob, ComeDue, SkipMonitoringJob, Poll, Dispatch,
                        StopScheduler
    <3>4. CASE Process
      BY <1>2, <3>4 DEF Process, Signal, CloseQueue, Exit, Crash, Restart, LoseMemory
    <3> QED
      BY <3>1, <3>2, <3>3, <3>4 DEF Next
  <2> QED
    BY <1>0, <2>1
<1> QED
  BY <1>1, <1>2

-----------------------------------------------------------------------------
(* What the steps the actions are made of do to it *)

LEMMA MoveCoherent ==
  ASSUME TypedState, Coherent, NEW t \in Tasks, NEW job, NEW where, NEW w, Move(t, job, where, w),
         stage[t] # "free", where \notin {"free", "retrying"},
         job.status = IF where = "executing" THEN "running" ELSE "queued",
         rows'[of[t]] = None \/ rows'[of[t]].status = job.status,
         \A k \in Ids : k # of[t] => rows'[k] = rows[k],
         snapshot' = snapshot
  PROVE  Coherent'
<1>1. /\ of' = of /\ stage'[t] = where /\ copy'[t] = job
      /\ \A u \in Tasks : u # t => stage'[u] = stage[u] /\ copy'[u] = copy[u]
  BY DEF TypedState, TypeOK, Move
<1>2. \A u \in Tasks : stage[u] # "free" => of[u] \in Ids
  BY DEF TypedState, TypeOK, CopiesInUse
<1>3. \A u \in Tasks : stage'[u] # "free" <=> stage[u] # "free"
  BY <1>1
<1>4. Apart' /\ OneRetry'
  BY <1>1, <1>3 DEF Coherent, Apart, OneRetry
<1>5. Agree'
  BY <1>1, <1>2, <1>3 DEF Coherent, Apart, Agree, Says
<1>6. Pending'
  BY <1>1, <1>3 DEF Coherent, Pending, NoCopy
<1> QED
  BY <1>4, <1>5, <1>6 DEF Coherent

LEMMA ForgetCoherent ==
  ASSUME TypedState, Coherent, NEW t \in Tasks, Forget(t), stage[t] # "free",
         \A k \in Ids : k # of[t] => rows'[k] = rows[k],
         snapshot' = snapshot
  PROVE  Coherent'
<1>1. /\ stage'[t] = "free"
      /\ \A u \in Tasks : u # t => stage'[u] = stage[u] /\ copy'[u] = copy[u] /\ of'[u] = of[u]
  BY DEF TypedState, TypeOK, Forget
<1>2. \A u \in Tasks : stage[u] # "free" => of[u] \in Ids
  BY DEF TypedState, TypeOK, CopiesInUse
<1>3. Apart' /\ OneRetry'
  BY <1>1 DEF Coherent, Apart, OneRetry
<1>4. Agree'
  BY <1>1, <1>2 DEF Coherent, Apart, Agree, Says
<1>5. Pending'
  BY <1>1 DEF Coherent, Pending, NoCopy
<1> QED
  BY <1>3, <1>4, <1>5 DEF Coherent

LEMMA BeginCoherent ==
  ASSUME TypedState, Coherent, NEW t \in Tasks, NEW i \in Ids, NEW job, NEW where,
         Begin(t, i, job, where), where \in {"sending", "retrying"}, NoCopy(i),
         job.status = "queued",
         rows'[i] = None \/ rows'[i].status = IF where = "retrying" THEN "failed" ELSE "queued",
         where = "retrying" => \A u \in Tasks : stage[u] # "retrying",
         \A k \in Ids : k # i => rows'[k] = rows[k] /\ snapshot'[k] = snapshot[k],
         snapshot'[i] = None
  PROVE  Coherent'
<1>1. /\ stage[t] = "free" /\ stage'[t] = where /\ copy'[t] = job /\ of'[t] = i
      /\ \A u \in Tasks : u # t => stage'[u] = stage[u] /\ copy'[u] = copy[u] /\ of'[u] = of[u]
  BY DEF TypedState, TypeOK, Begin
<1>2. \A u \in Tasks : stage[u] # "free" => of[u] \in Ids /\ of[u] # i
  BY DEF TypedState, TypeOK, CopiesInUse, NoCopy
<1>3. Apart' /\ OneRetry'
  BY <1>1, <1>2 DEF Coherent, Apart, OneRetry
<1>4. Agree'
  BY <1>1, <1>2 DEF Coherent, Agree, Says
<1>5. Pending'
  BY <1>1, <1>2 DEF Coherent, Pending, NoCopy
<1> QED
  BY <1>3, <1>4, <1>5 DEF Coherent

\* Rows that are written without a copy, and rows that are deleted.
LEMMA RowsCoherent ==
  ASSUME Coherent, UNCHANGED taskVars, snapshot' = snapshot, CopiesInUse, TypeOK,
         \A k \in Ids : \/ rows'[k] = rows[k] \/ rows'[k] = None
                        \/ NoCopy(k) /\ snapshot[k] = None
  PROVE  Coherent'
<1>1. \A u \in Tasks : stage[u] # "free" => of[u] \in Ids
  BY DEF TypeOK, CopiesInUse
<1>2. Apart' /\ OneRetry'
  BY DEF Coherent, Apart, OneRetry, taskVars
<1>3. Agree'
  BY <1>1 DEF Coherent, Agree, Says, NoCopy, taskVars
<1>4. Pending'
  BY DEF Coherent, Pending, NoCopy, taskVars
<1> QED
  BY <1>2, <1>3, <1>4 DEF Coherent

\* A job that has not been handed out has no copy, and the scheduler has not read it.
LEMMA UnusedIsFree ==
  ASSUME TypedState, NEW i \in Ids \ used
  PROVE  NoCopy(i) /\ snapshot[i] = None /\ rows[i] = None
  BY DEF TypedState, CopiesInUse, RowsInUse, NoCopy

\* RowTracksCopy without its condition.
Tracked ==
    \A i \in Unfinished \ stranded :
        \E t \in Tasks : Live(t) /\ of[t] = i /\ copy[t].status = rows[i].status

LEMMA MoveTracked ==
  ASSUME TypedState, Tracked, NEW t \in Tasks, NEW job, NEW where, NEW w, Move(t, job, where, w),
         stage[t] # "free", where \notin {"free", "retrying"},
         \/ rows'[of[t]] = job
         \/ rows'[of[t]] = rows[of[t]] /\ job.status = copy[t].status /\ Live(t),
         \A k \in Ids : k # of[t] => rows'[k] = rows[k],
         stranded \subseteq stranded'
  PROVE  Tracked'
<1>1. /\ of' = of /\ stage'[t] = where /\ copy'[t] = job
      /\ \A u \in Tasks : u # t => stage'[u] = stage[u] /\ copy'[u] = copy[u]
  BY DEF TypedState, TypeOK, Move
<1>2. SUFFICES ASSUME NEW i \in Ids, i \in Unfinished', i \notin stranded'
               PROVE  \E u \in Tasks : Live(u)' /\ of'[u] = i /\ copy'[u].status = rows'[i].status
  BY DEF Tracked, Unfinished
<1>3. CASE rows'[i] # rows[i]
  BY <1>1, <1>3 DEF Live
<1>4. CASE rows'[i] = rows[i]
  <2>1. PICK u \in Tasks : Live(u) /\ of[u] = i /\ copy[u].status = rows[i].status
    BY <1>2, <1>4 DEF Tracked, Unfinished, Is, Exists
  <2> QED
    BY <1>1, <1>4, <2>1 DEF Live
<1> QED
  BY <1>3, <1>4

LEMMA ForgetTracked ==
  ASSUME TypedState, Tracked, NEW t \in Tasks, Forget(t), stage[t] # "free",
         \/ of[t] \in stranded'
         \/ rows'[of[t]].status \in {"completed", "failed"},
         \A k \in Ids : k # of[t] => rows'[k] = rows[k],
         stranded \subseteq stranded'
  PROVE  Tracked'
<1>1. /\ stage'[t] = "free"
      /\ \A u \in Tasks : u # t => stage'[u] = stage[u] /\ copy'[u] = copy[u] /\ of'[u] = of[u]
  BY DEF TypedState, TypeOK, Forget
<1>2. SUFFICES ASSUME NEW i \in Ids, i \in Unfinished', i \notin stranded'
               PROVE  \E u \in Tasks : Live(u)' /\ of'[u] = i /\ copy'[u].status = rows'[i].status
  BY DEF Tracked, Unfinished
<1>3. i # of[t] /\ rows'[i] = rows[i]
  BY <1>2 DEF Unfinished, Is, Exists
<1>4. PICK u \in Tasks : Live(u) /\ of[u] = i /\ copy[u].status = rows[i].status
  BY <1>2, <1>3 DEF Tracked, Unfinished, Is, Exists
<1> QED
  BY <1>1, <1>3, <1>4 DEF Live

LEMMA BeginTracked ==
  ASSUME TypedState, Tracked, NEW t \in Tasks, NEW i \in Ids, NEW job, NEW where,
         Begin(t, i, job, where), where # "free",
         rows'[i] = rows[i] \/ (rows'[i] = job /\ where # "retrying"),
         \A k \in Ids : k # i => rows'[k] = rows[k],
         stranded' = stranded
  PROVE  Tracked'
<1>1. /\ stage[t] = "free" /\ stage'[t] = where /\ copy'[t] = job /\ of'[t] = i
      /\ \A u \in Tasks : u # t => stage'[u] = stage[u] /\ copy'[u] = copy[u] /\ of'[u] = of[u]
  BY DEF TypedState, TypeOK, Begin
<1>2. SUFFICES ASSUME NEW k \in Ids, k \in Unfinished', k \notin stranded'
               PROVE  \E u \in Tasks : Live(u)' /\ of'[u] = k /\ copy'[u].status = rows'[k].status
  BY DEF Tracked, Unfinished
<1>3. CASE rows'[k] = rows[k]
  <2>1. PICK u \in Tasks : Live(u) /\ of[u] = k /\ copy[u].status = rows[k].status
    BY <1>2, <1>3 DEF Tracked, Unfinished, Is, Exists
  <2> QED
    BY <1>1, <1>3, <2>1 DEF Live
<1>4. CASE rows'[k] # rows[k]
  BY <1>1, <1>4 DEF Live
<1> QED
  BY <1>3, <1>4

LEMMA RowsTracked ==
  ASSUME Tracked, UNCHANGED <<stage, of, copy>>, stranded' = stranded,
         \A k \in Ids : \/ rows'[k] = rows[k] \/ rows'[k] = None
                        \/ rows'[k].status = "scheduled"
  PROVE  Tracked'
  BY DEF Tracked, Unfinished, Is, Exists, Live

\* A step that leaves rows, copies and the snapshot alone.
LEMMA StatusSame ==
  ASSUME StatusState, UNCHANGED <<rows, taskVars, snapshot, faults, stranded>>
  PROVE  StatusState'
  BY DEF StatusState, RowTracksCopy, Undisturbed, Unfinished, Is, Exists, Live, Coherent, Apart,
         OneRetry, Agree, Says, Pending, NoCopy, taskVars

-----------------------------------------------------------------------------
(* Each action keeps it *)

LEMMA StatusApi == TypedState /\ StatusState /\ Api => StatusState'
<1> SUFFICES ASSUME TypedState, StatusState, Api, faults' = 0
             PROVE  Tracked' /\ (Undisturbed => Coherent')
  BY FaultsStay DEF Next, TypedState, StatusState, RowTracksCopy, Tracked, Undisturbed
<1>0. /\ TypeOK /\ CopiesInUse
      /\ faults = 0 => Tracked
      /\ Undisturbed => Coherent
  BY DEF TypedState, StatusState, RowTracksCopy, Tracked
<1>1. ASSUME NEW t \in Tasks, NEW i \in Ids, NEW r \in Requested,
             NEW s \in {"queued", "scheduled"}, CreateJob(t, i, r, s) \/ SeedJob(t, i, r, s)
      PROVE  Tracked' /\ (Undisturbed => Coherent')
  <2> DEFINE job == NewJob(s, LimitOf(r))
  <2>1. /\ faults = 0 /\ i \notin used
        /\ rows' = [rows EXCEPT ![i] = job]
        /\ snapshot' = snapshot /\ stranded' = stranded
        /\ IF s = "queued" THEN Begin(t, i, job, "sending") ELSE UNCHANGED taskVars
    BY <1>0, <1>1, SaveWorks DEF CreateJob, SeedJob, schedVars
  <2>2. NoCopy(i) /\ snapshot[i] = None
    BY <2>1, UnusedIsFree
  <2>3. job.status = s
    BY DEF NewJob
  <2> HIDE DEF job
  <2>4. rows'[i] = job /\ \A k \in Ids : k # i => rows'[k] = rows[k]
    BY <1>0, <2>1 DEF TypeOK
  <2>5. CASE s = "queued"
    <3>1. Tracked'
      BY <1>0, <2>1, <2>4, <2>5, BeginTracked
    <3>2. ASSUME Undisturbed PROVE Coherent'
      BY <1>0, <2>1, <2>2, <2>3, <2>4, <2>5, <3>2, BeginCoherent
    <3> QED
      BY <3>1, <3>2
  <2>6. CASE s = "scheduled"
    <3>1. Tracked'
      BY <1>0, <2>1, <2>3, <2>4, <2>6, RowsTracked DEF taskVars
    <3>2. ASSUME Undisturbed PROVE Coherent'
      BY <1>0, <2>1, <2>2, <2>4, <2>6, <3>2, RowsCoherent
    <3> QED
      BY <3>1, <3>2
  <2> QED
    BY <2>5, <2>6
<1>2. ASSUME NEW t \in Tasks, NEW i \in Ids, RetryLoad(t, i)
      PROVE  Tracked' /\ (Undisturbed => Coherent')
  <2>1. /\ Begin(t, i, NewJob("queued", rows[i].limit), "retrying") /\ Is(i, "failed")
        /\ rows' = rows /\ snapshot' = snapshot /\ faults = 0 /\ stranded' = stranded
        /\ Cardinality({u \in Tasks : stage[u] = "retrying"}) < RetryRequests
    BY <1>2 DEF RetryLoad, rowVars, schedVars
  <2>2. Tracked'
    BY <1>0, <2>1, BeginTracked
  <2>3. ASSUME Undisturbed PROVE Coherent'
    <3>1. \A u \in Tasks : stage[u] # "retrying"
      <4>1. SUFFICES ASSUME NEW u \in Tasks, stage[u] = "retrying" PROVE FALSE
        OBVIOUS
      <4>2. {v \in Tasks : stage[v] = "retrying"} = {u}
        BY <1>0, <2>3, <4>1 DEF Coherent, OneRetry
      <4>3. Cardinality({u}) = 1
        BY FS_Singleton
      <4> QED
        BY <2>1, <2>3, <4>2, <4>3, BoundAssumption DEF Undisturbed
    <3>2. NoCopy(i)
      BY <1>0, <2>1, <2>3, <3>1 DEF Coherent, Agree, Says, NoCopy, Is, Exists
    <3>3. snapshot[i] = None
      BY <1>0, <2>1, <2>3 DEF Coherent, Pending, Is, Exists
    <3>4. NewJob("queued", rows[i].limit).status = "queued"
      BY DEF NewJob
    <3> QED
      BY <1>0, <2>1, <2>3, <3>1, <3>2, <3>3, <3>4, BeginCoherent DEF Is
  <2> QED
    BY <2>2, <2>3
<1>3. ASSUME NEW t \in Tasks, RetrySave(t)
      PROVE  Tracked' /\ (Undisturbed => Coherent')
  <2>1. /\ stage[t] = "retrying" /\ Move(t, copy[t], "sending", None) /\ faults = 0
        /\ rows' = [rows EXCEPT ![of[t]] = copy[t]]
        /\ snapshot' = snapshot /\ stranded' = stranded
    BY <1>0, <1>3, SaveWorks DEF RetrySave, schedVars
  <2>2. rows'[of[t]] = copy[t] /\ \A k \in Ids : k # of[t] => rows'[k] = rows[k]
    BY <1>0, <2>1 DEF TypeOK, CopiesInUse
  <2>3. Tracked'
    BY <1>0, <2>1, <2>2, MoveTracked
  <2>4. ASSUME Undisturbed PROVE Coherent'
    <3>1. copy[t].status = "queued"
      BY <1>0, <2>1, <2>4 DEF Coherent, Agree, Says
    <3> QED
      BY <1>0, <2>1, <2>2, <2>4, <3>1, MoveCoherent
  <2> QED
    BY <2>3, <2>4
<1>4. ASSUME NEW i \in Ids, DeleteJob(i)
      PROVE  Tracked' /\ (Undisturbed => Coherent')
  <2>1. /\ faults = 0 /\ UNCHANGED taskVars /\ snapshot' = snapshot /\ stranded' = stranded
        /\ \A k \in Ids : rows'[k] = rows[k] \/ rows'[k] = None
    BY <1>0, <1>4 DEF DeleteJob, TypeOK, schedVars
  <2>2. Tracked'
    BY <1>0, <2>1, RowsTracked DEF taskVars
  <2>3. ASSUME Undisturbed PROVE Coherent'
    BY <1>0, <2>1, <2>3, RowsCoherent
  <2> QED
    BY <2>2, <2>3
<1>5. CASE StartSeeding
  BY <1>5, StatusSame DEF StartSeeding, rowVars, schedVars, StatusState, RowTracksCopy, Tracked, Undisturbed
<1> QED
  BY <1>1, <1>2, <1>3, <1>4, <1>5 DEF Api

LEMMA StatusPool == TypedState /\ StatusState /\ Pool => StatusState'
<1> SUFFICES ASSUME TypedState, StatusState, Pool, faults' = 0
             PROVE  Tracked' /\ (Undisturbed => Coherent')
  BY FaultsStay DEF Next, TypedState, StatusState, RowTracksCopy, Tracked, Undisturbed
<1>0. /\ TypeOK /\ CopiesInUse /\ QueueShape
      /\ faults = 0 => Tracked
      /\ Undisturbed => Coherent
  BY DEF TypedState, StatusState, RowTracksCopy, Tracked
\* The copy moves on as it is.
<1>a. ASSUME NEW t \in Tasks, NEW where, NEW w, Move(t, copy[t], where, w), faults = 0,
             stage[t] \notin {"free", "retrying", "executing"},
             where \notin {"free", "retrying", "executing"},
             rows' = rows, snapshot' = snapshot, stranded' = stranded
      PROVE  Tracked' /\ (Undisturbed => Coherent')
  <2>1. Tracked'
    BY <1>0, <1>a, MoveTracked DEF Live
  <2>2. ASSUME Undisturbed PROVE Coherent'
    <3>1. copy[t].status = "queued" /\ (rows[of[t]] = None \/ rows[of[t]].status = "queued")
      BY <1>0, <1>a, <2>2 DEF Coherent, Agree, Says
    <3> QED
      BY <1>0, <1>a, <2>2, <3>1, MoveCoherent
  <2> QED
    BY <2>1, <2>2
\* The copy is changed, written, and moves on.
<1>b. ASSUME NEW t \in Tasks, NEW job, NEW where, NEW w, Move(t, job, where, w),
             Save(of[t], job), stage[t] # "free", where \notin {"free", "retrying"},
             job.status = IF where = "executing" THEN "running" ELSE "queued",
             snapshot' = snapshot, stranded' = stranded
      PROVE  Tracked' /\ (Undisturbed => Coherent')
  <2>1. faults = 0 /\ rows' = [rows EXCEPT ![of[t]] = job]
    BY <1>0, <1>b, SaveWorks
  <2>2. rows'[of[t]] = job /\ \A k \in Ids : k # of[t] => rows'[k] = rows[k]
    BY <1>0, <1>b, <2>1 DEF TypeOK, CopiesInUse
  <2>3. Tracked'
    BY <1>0, <1>b, <2>1, <2>2, MoveTracked
  <2>4. ASSUME Undisturbed PROVE Coherent'
    BY <1>0, <1>b, <2>2, <2>4, MoveCoherent
  <2> QED
    BY <2>3, <2>4
\* The copy is written a last time.
<1>c. ASSUME NEW t \in Tasks, NEW job, Save(of[t], job), Forget(t), stage[t] # "free",
             job.status \in {"completed", "failed"},
             snapshot' = snapshot, stranded \subseteq stranded'
      PROVE  Tracked' /\ (Undisturbed => Coherent')
  <2>1. faults = 0 /\ rows' = [rows EXCEPT ![of[t]] = job]
    BY <1>0, <1>c, SaveWorks
  <2>2. rows'[of[t]] = job /\ \A k \in Ids : k # of[t] => rows'[k] = rows[k]
    BY <1>0, <1>c, <2>1 DEF TypeOK, CopiesInUse
  <2>3. Tracked'
    BY <1>0, <1>c, <2>1, <2>2, ForgetTracked
  <2>4. ASSUME Undisturbed PROVE Coherent'
    BY <1>0, <1>c, <2>2, <2>4, ForgetCoherent
  <2> QED
    BY <2>3, <2>4
<1>1. ASSUME NEW t \in Tasks, Accept(t) \/ FireTimer(t)
      PROVE  Tracked' /\ (Undisturbed => Coherent')
  <2>1. /\ stage[t] \in {"sending", "backoff"} /\ faults = 0
        /\ Move(t, copy[t], "waiting", None) \/ Move(t, copy[t], "sending", None)
        /\ rows' = rows /\ snapshot' = snapshot /\ stranded' = stranded
    BY <1>1 DEF Accept, FireTimer, rowVars, schedVars
  <2> QED
    BY <1>a, <2>1
<1>2. ASSUME NEW t \in Tasks, Drop(t) \/ CancelTimer(t)
      PROVE  Tracked' /\ (Undisturbed => Coherent')
  <2>1. /\ stage[t] # "free" /\ Forget(t) /\ faults = 0
        /\ rows' = rows /\ snapshot' = snapshot /\ stranded' = stranded \union {of[t]}
    BY <1>2 DEF Drop, CancelTimer, rowVars, schedVars
  <2>2. Tracked'
    BY <1>0, <2>1, ForgetTracked
  <2>3. ASSUME Undisturbed PROVE Coherent'
    BY <1>0, <2>1, <2>3, ForgetCoherent
  <2> QED
    BY <2>2, <2>3
<1>3. ASSUME NEW w \in Workers, Dequeue(w)
      PROVE  Tracked' /\ (Undisturbed => Coherent')
  <2>0. Head(queue) \in Tasks /\ Head(queue) = queue[1] /\ 1 \in 1..Len(queue)
    BY <1>0, <1>3 DEF Dequeue, TypeOK
  <2>1. PICK t \in Tasks : t = Head(queue)
    BY <2>0
  <2>2. stage[t] = "waiting"
    BY <1>0, <2>0, <2>1 DEF QueueShape
  <2>3. /\ Move(t, copy[t], "taken", w) /\ faults = 0
        /\ rows' = rows /\ snapshot' = snapshot /\ stranded' = stranded
    BY <1>3, <2>1 DEF Dequeue, rowVars, schedVars
  <2> QED
    BY <1>a, <2>2, <2>3
<1>4. ASSUME NEW w \in Workers, ExitWorker(w) \/ LeaveJob(w)
      PROVE  Tracked' /\ (Undisturbed => Coherent')
  BY <1>4, StatusSame
     DEF ExitWorker, LeaveJob, rowVars, schedVars, StatusState, RowTracksCopy, Tracked, Undisturbed
<1>5. ASSUME NEW t \in Tasks, StartJob(t)
      PROVE  Tracked' /\ (Undisturbed => Coherent')
  <2> DEFINE job == [copy[t] EXCEPT !.status = "running", !.worker = by[t]]
  <2>1. /\ stage[t] = "taken" /\ Save(of[t], job) /\ Move(t, job, "executing", by[t])
        /\ snapshot' = snapshot /\ stranded' = stranded
    BY <1>5 DEF StartJob, schedVars
  <2>2. job.status = "running"
    BY <1>0, <2>1 DEF CopiesInUse, Job
  <2> HIDE DEF job
  <2> QED
    BY <1>b, <2>1, <2>2
<1>6. ASSUME NEW t \in Tasks, CompleteJob(t)
      PROVE  Tracked' /\ (Undisturbed => Coherent')
  <2> DEFINE job == [copy[t] EXCEPT !.status = "completed", !.ended = TRUE]
  <2>1. /\ stage[t] = "executing" /\ Save(of[t], job) /\ Forget(t)
        /\ snapshot' = snapshot /\ stranded \subseteq stranded'
    BY <1>6 DEF CompleteJob, schedVars
  <2>2. job.status = "completed"
    BY <1>0, <2>1 DEF CopiesInUse, Job
  <2> HIDE DEF job
  <2> QED
    BY <1>c, <2>1, <2>2
<1>7. ASSUME NEW t \in Tasks, RequeueJob(t)
      PROVE  Tracked' /\ (Undisturbed => Coherent')
  <2> DEFINE job == [copy[t] EXCEPT !.status = "queued", !.retries = @ + 1, !.worker = None,
                                    !.error = TRUE, !.ended = TRUE]
  <2>1. /\ stage[t] = "executing" /\ Save(of[t], job) /\ Move(t, job, "backoff", None)
        /\ snapshot' = snapshot /\ stranded' = stranded
    BY <1>7 DEF RequeueJob, schedVars
  <2>2. job.status = "queued"
    BY <1>0, <2>1 DEF CopiesInUse, Job
  <2> HIDE DEF job
  <2> QED
    BY <1>b, <2>1, <2>2
<1>8. ASSUME NEW t \in Tasks, FailJob(t)
      PROVE  Tracked' /\ (Undisturbed => Coherent')
  <2> DEFINE job == [copy[t] EXCEPT !.status = "failed", !.error = TRUE, !.ended = TRUE]
  <2>1. /\ stage[t] = "executing" /\ Save(of[t], job) /\ Forget(t)
        /\ snapshot' = snapshot /\ stranded \subseteq stranded'
    BY <1>8 DEF FailJob, schedVars
  <2>2. job.status = "failed"
    BY <1>0, <2>1 DEF CopiesInUse, Job
  <2> HIDE DEF job
  <2> QED
    BY <1>c, <2>1, <2>2
<1> QED
  BY <1>1, <1>2, <1>3, <1>4, <1>5, <1>6, <1>7, <1>8 DEF Pool

LEMMA StatusScheduler == TypedState /\ StatusState /\ Scheduler => StatusState'
<1> SUFFICES ASSUME TypedState, StatusState, Scheduler, faults' = 0
             PROVE  Tracked' /\ (Undisturbed => Coherent')
  BY FaultsStay DEF Next, TypedState, StatusState, RowTracksCopy, Tracked, Undisturbed
<1>0. /\ TypeOK /\ CopiesInUse
      /\ faults = 0 => Tracked
      /\ Undisturbed => Coherent
  BY DEF TypedState, StatusState, RowTracksCopy, Tracked
<1>1. ASSUME NEW i \in Ids, SeedMonitoringJob(i)
      PROVE  Tracked' /\ (Undisturbed => Coherent')
  <2>1. /\ faults = 0 /\ i \notin used
        /\ rows' = [rows EXCEPT ![i] = NewJob("scheduled", SeededLimit)]
        /\ snapshot' = snapshot /\ stranded' = stranded /\ UNCHANGED taskVars
    BY <1>0, <1>1, SaveWorks DEF SeedMonitoringJob
  <2>2. NoCopy(i) /\ snapshot[i] = None
    BY <2>1, UnusedIsFree
  <2>3. /\ \A k \in Ids : k # i => rows'[k] = rows[k]
        /\ rows'[i].status = "scheduled"
    BY <1>0, <2>1 DEF TypeOK, NewJob
  <2>4. Tracked'
    BY <1>0, <2>1, <2>3, RowsTracked DEF taskVars
  <2>5. ASSUME Undisturbed PROVE Coherent'
    BY <1>0, <2>1, <2>2, <2>3, <2>5, RowsCoherent
  <2> QED
    BY <2>4, <2>5
<1>2. ASSUME NEW i \in Ids, ComeDue(i)
      PROVE  Tracked' /\ (Undisturbed => Coherent')
  BY <1>2, StatusSame DEF ComeDue, schedVars, StatusState, RowTracksCopy, Tracked, Undisturbed
<1>3. CASE SkipMonitoringJob \/ StopScheduler
  BY <1>3, StatusSame
     DEF SkipMonitoringJob, StopScheduler, rowVars, StatusState, RowTracksCopy, Tracked, Undisturbed
<1>4. CASE Poll
  <2>1. /\ snapshot' = [i \in Ids |-> IF Due(i) THEN rows[i] ELSE None]
        /\ rows' = rows /\ UNCHANGED taskVars /\ faults = 0 /\ stranded' = stranded
    BY <1>4 DEF Poll, rowVars
  <2>2. Tracked'
    BY <1>0, <2>1, RowsTracked DEF taskVars
  <2>3. ASSUME Undisturbed PROVE Coherent'
    <3>1. \A i \in Ids : Due(i) => rows[i].status = "scheduled" /\ NoCopy(i)
      BY <1>0, <2>3 DEF Due, Is, Exists, Coherent, Agree, Says, NoCopy
    <3>2. Pending'
      BY <2>1, <3>1 DEF Pending, NoCopy, taskVars
    <3>3. Apart' /\ OneRetry' /\ Agree'
      BY <1>0, <2>1, <2>3 DEF Coherent, Apart, OneRetry, Agree, Says, taskVars
    <3> QED
      BY <3>2, <3>3 DEF Coherent
  <2> QED
    BY <2>2, <2>3
<1>5. ASSUME NEW t \in Tasks, NEW i \in Ids, Dispatch(t, i)
      PROVE  Tracked' /\ (Undisturbed => Coherent')
  <2> DEFINE job == [snapshot[i] EXCEPT !.status = "queued"]
  <2>1. /\ Begin(t, i, job, "sending") /\ snapshot' = [snapshot EXCEPT ![i] = None]
        /\ snapshot[i] # None /\ stranded' = stranded
        /\ faults = 0 /\ rows' = [rows EXCEPT ![i] = job]
    BY <1>0, <1>5, SaveWorks DEF Dispatch
  <2>2. job.status = "queued"
    BY <1>0, <2>1 DEF TypeOK, Job
  <2> HIDE DEF job
  <2>3. /\ rows'[i] = job /\ snapshot'[i] = None
        /\ \A k \in Ids : k # i => rows'[k] = rows[k] /\ snapshot'[k] = snapshot[k]
    BY <1>0, <2>1 DEF TypeOK
  <2>4. Tracked'
    BY <1>0, <2>1, <2>3, BeginTracked
  <2>5. ASSUME Undisturbed PROVE Coherent'
    <3>1. NoCopy(i)
      BY <1>0, <2>1, <2>5 DEF Coherent, Pending
    <3> QED
      BY <1>0, <2>1, <2>2, <2>3, <2>5, <3>1, BeginCoherent
  <2> QED
    BY <2>4, <2>5
<1> QED
  BY <1>1, <1>2, <1>3, <1>4, <1>5 DEF Scheduler

LEMMA StatusProcess == StatusState /\ Process => StatusState'
<1> SUFFICES ASSUME StatusState, Process PROVE StatusState'
  OBVIOUS
<1>1. CASE Signal \/ CloseQueue \/ Restart
  BY <1>1, StatusSame DEF Signal, CloseQueue, Restart, rowVars, schedVars
<1>2. CASE Exit \/ Crash
  <2>1. LoseMemory
    BY <1>2 DEF Exit, Crash
  <2>2. RowTracksCopy'
    BY <2>1 DEF LoseMemory, rowVars, RowTracksCopy, Unfinished, Is, Exists
  <2>3. Coherent'
    BY <2>1 DEF LoseMemory, Coherent, Apart, OneRetry, Agree, Pending
  <2> QED
    BY <2>2, <2>3 DEF StatusState
<1> QED
  BY <1>1, <1>2 DEF Process

LEMMA StatusInvariant == Spec => []StatusState
<1>1. Init => StatusState
  BY DEF Init, FreshProcess, StatusState, RowTracksCopy, Unfinished, Is, Exists, Coherent, Apart,
         OneRetry, Agree, Pending
<1>2. StatusState /\ UNCHANGED vars => StatusState'
  BY StatusSame DEF vars, rowVars, schedVars
<1>3. TypedState /\ StatusState /\ [Next]_vars => StatusState'
  BY <1>2, StatusApi, StatusPool, StatusScheduler, StatusProcess DEF Next
<1> QED
  BY <1>1, <1>3, TypedInvariant, PTL DEF Spec

\* As long as no write has failed, a queued or running row that is not stranded says what
\* a live copy of it says, with any number of overlapping retries.
THEOREM RowsFollowCopies == Spec => []RowTracksCopy
  BY StatusInvariant, PTL DEF StatusState

\* Without overlapping retry requests and failed writes a job is in the process once.
THEOREM CopiesAreSingle == Spec => []OneCopyPerJob
<1>1. StatusState => OneCopyPerJob
  BY DEF StatusState, OneCopyPerJob, Coherent, Apart
<1> QED
  BY <1>1, StatusInvariant, PTL

\* What a step of an action may do to the status of a row that stays.
Edge(i) ==
    Exists(i) /\ Exists(i)' /\ rows[i].status # rows'[i].status
        => <<rows[i].status, rows'[i].status>> \in Edges

LEMMA EdgesApi ==
  ASSUME TypedState, Coherent, Api, faults' = 0, NEW k \in Ids
  PROVE  Edge(k)
<1>0. TypeOK /\ CopiesInUse
  BY DEF TypedState
<1>1. ASSUME NEW t \in Tasks, NEW i \in Ids, NEW r \in Requested,
             NEW s \in {"queued", "scheduled"}, CreateJob(t, i, r, s) \/ SeedJob(t, i, r, s)
      PROVE  Edge(k)
  <2>1. i \notin used /\ rows' = [rows EXCEPT ![i] = NewJob(s, LimitOf(r))]
    BY <1>0, <1>1, SaveWorks DEF CreateJob, SeedJob
  <2>2. rows[i] = None
    BY <2>1, UnusedIsFree
  <2> QED
    BY <1>0, <2>1, <2>2 DEF Edge, Exists, TypeOK
<1>2. CASE StartSeeding \/ \E t \in Tasks, i \in Ids : RetryLoad(t, i)
  BY <1>2 DEF StartSeeding, RetryLoad, rowVars, Edge, Exists
<1>3. ASSUME NEW t \in Tasks, RetrySave(t) PROVE Edge(k)
  <2>1. stage[t] = "retrying" /\ rows' = [rows EXCEPT ![of[t]] = copy[t]]
    BY <1>0, <1>3, SaveWorks DEF RetrySave
  <2>2. copy[t].status = "queued" /\ (rows[of[t]] = None \/ rows[of[t]].status = "failed")
    BY <2>1 DEF Coherent, Agree, Says
  <2> QED
    BY <1>0, <2>1, <2>2 DEF Edge, Exists, TypeOK, Edges
<1>4. ASSUME NEW i \in Ids, DeleteJob(i) PROVE Edge(k)
  BY <1>0, <1>4 DEF DeleteJob, Edge, Exists, TypeOK
<1> QED
  BY <1>1, <1>2, <1>3, <1>4 DEF Api

LEMMA EdgesPool ==
  ASSUME TypedState, Coherent, Pool, faults' = 0, NEW k \in Ids
  PROVE  Edge(k)
<1>0. TypeOK /\ CopiesInUse
  BY DEF TypedState
<1>1. CASE \/ \E t \in Tasks : Accept(t) \/ Drop(t) \/ FireTimer(t) \/ CancelTimer(t)
           \/ \E w \in Workers : Dequeue(w) \/ LeaveJob(w) \/ ExitWorker(w)
  <2>1. rows' = rows
    BY <1>1 DEF Accept, Drop, FireTimer, CancelTimer, Dequeue, LeaveJob, ExitWorker, rowVars
  <2> QED
    BY <2>1 DEF Edge, Exists
<1>2. ASSUME NEW t \in Tasks, NEW job, Save(of[t], job), stage[t] \in {"taken", "executing"},
             <<IF stage[t] = "executing" THEN "running" ELSE "queued", job.status>> \in Edges
      PROVE  Edge(k)
  <2>1. rows' = [rows EXCEPT ![of[t]] = job]
    BY <1>0, <1>2, SaveWorks
  <2>2. \/ rows[of[t]] = None
        \/ rows[of[t]].status = IF stage[t] = "executing" THEN "running" ELSE "queued"
    BY <1>2 DEF Coherent, Agree, Says
  <2> QED
    BY <1>0, <1>2, <2>1, <2>2 DEF Edge, Exists, TypeOK
<1>3. ASSUME NEW t \in Tasks, StartJob(t) \/ CompleteJob(t) \/ RequeueJob(t) \/ FailJob(t)
      PROVE  Edge(k)
  <2>1. stage[t] \in {"taken", "executing"} /\ copy[t] \in Job
    BY <1>0, <1>3 DEF StartJob, CompleteJob, RequeueJob, FailJob, CopiesInUse
  <2>2. CASE StartJob(t)
    <3> DEFINE job == [copy[t] EXCEPT !.status = "running", !.worker = by[t]]
    <3>1. stage[t] = "taken" /\ Save(of[t], job) /\ job.status = "running"
      BY <2>1, <2>2 DEF StartJob, Job
    <3> HIDE DEF job
    <3> QED
      BY <1>2, <3>1 DEF Edges
  <2>3. CASE CompleteJob(t)
    <3> DEFINE job == [copy[t] EXCEPT !.status = "completed", !.ended = TRUE]
    <3>1. stage[t] = "executing" /\ Save(of[t], job) /\ job.status = "completed"
      BY <2>1, <2>3 DEF CompleteJob, Job
    <3> HIDE DEF job
    <3> QED
      BY <1>2, <3>1 DEF Edges
  <2>4. CASE RequeueJob(t)
    <3> DEFINE job == [copy[t] EXCEPT !.status = "queued", !.retries = @ + 1, !.worker = None,
                                      !.error = TRUE, !.ended = TRUE]
    <3>1. stage[t] = "executing" /\ Save(of[t], job) /\ job.status = "queued"
      BY <2>1, <2>4 DEF RequeueJob, Job
    <3> HIDE DEF job
    <3> QED
      BY <1>2, <3>1 DEF Edges
  <2>5. CASE FailJob(t)
    <3> DEFINE job == [copy[t] EXCEPT !.status = "failed", !.error = TRUE, !.ended = TRUE]
    <3>1. stage[t] = "executing" /\ Save(of[t], job) /\ job.status = "failed"
      BY <2>1, <2>5 DEF FailJob, Job
    <3> HIDE DEF job
    <3> QED
      BY <1>2, <3>1 DEF Edges
  <2> QED
    BY <1>3, <2>2, <2>3, <2>4, <2>5
<1> QED
  BY <1>1, <1>3 DEF Pool

LEMMA EdgesScheduler ==
  ASSUME TypedState, Coherent, Scheduler, faults' = 0, NEW k \in Ids
  PROVE  Edge(k)
<1>0. TypeOK
  BY DEF TypedState
<1>1. ASSUME NEW i \in Ids, SeedMonitoringJob(i) PROVE Edge(k)
  <2>1. i \notin used /\ rows' = [rows EXCEPT ![i] = NewJob("scheduled", SeededLimit)]
    BY <1>0, <1>1, SaveWorks DEF SeedMonitoringJob
  <2>2. rows[i] = None
    BY <2>1, UnusedIsFree
  <2> QED
    BY <1>0, <2>1, <2>2 DEF Edge, Exists, TypeOK
<1>2. CASE SkipMonitoringJob \/ Poll \/ StopScheduler \/ \E i \in Ids : ComeDue(i)
  <2>1. rows' = rows
    BY <1>2 DEF SkipMonitoringJob, Poll, StopScheduler, ComeDue, rowVars
  <2> QED
    BY <2>1 DEF Edge, Exists
<1>3. ASSUME NEW t \in Tasks, NEW i \in Ids, Dispatch(t, i) PROVE Edge(k)
  <2> DEFINE job == [snapshot[i] EXCEPT !.status = "queued"]
  <2>1. snapshot[i] # None /\ rows' = [rows EXCEPT ![i] = job]
    BY <1>0, <1>3, SaveWorks DEF Dispatch
  <2>2. job.status = "queued" /\ (rows[i] = None \/ rows[i].status = "scheduled")
    BY <1>0, <2>1 DEF Coherent, Pending, TypeOK, Job
  <2> HIDE DEF job
  <2> QED
    BY <1>0, <2>1, <2>2 DEF Edge, Exists, TypeOK, Edges
<1> QED
  BY <1>1, <1>2, <1>3 DEF Scheduler

\* Then too, the status of a row that stays changes along the documented edges only.
THEOREM StatusAlongEdges == Spec => LifecycleEdges
<1>1. TypedState /\ StatusState /\ [Next]_vars =>
          \A i \in Ids : Undisturbed' => Edge(i)
  <2> SUFFICES ASSUME TypedState, StatusState, [Next]_vars, NEW i \in Ids, Undisturbed'
               PROVE  Edge(i)
    OBVIOUS
  <2>1. CASE UNCHANGED vars
    BY <2>1 DEF vars, rowVars, Edge, Exists
  <2>2. CASE Next
    <3>1. faults' = 0 /\ Coherent
      BY <2>2, FaultsStay DEF TypedState, StatusState, Undisturbed
    <3>2. CASE Process
      <4>1. rows' = rows
        BY <3>2 DEF Process, Signal, CloseQueue, Exit, Crash, Restart, LoseMemory, rowVars
      <4> QED
        BY <4>1 DEF Edge, Exists
    <3> QED
      BY <2>2, <3>1, <3>2, EdgesApi, EdgesPool, EdgesScheduler DEF Next
  <2> QED
    BY <2>1, <2>2
<1>2. TypedState /\ StatusState /\ [Next]_vars =>
          [\A i \in Ids : Undisturbed' /\ Exists(i) /\ Exists(i)' /\ rows[i].status # rows'[i].status
              => <<rows[i].status, rows'[i].status>> \in Edges]_vars
  BY <1>1 DEF Edge
<1> QED
  BY <1>2, StatusInvariant, TypedInvariant, PTL DEF Spec, LifecycleEdges

-----------------------------------------------------------------------------
(* What a stop leaves behind *)

\* Nothing is stranded before the process stops for the first time or a write fails.
NothingStranded == boots = 0 /\ main = "up" /\ faults = 0 => stranded = {}

LEMMA NothingStrandedNext == TypedState /\ NothingStranded /\ [Next]_vars => NothingStranded'
<1> SUFFICES ASSUME TypedState, NothingStranded, [Next]_vars,
                    boots' = 0, main' = "up", faults' = 0
             PROVE  stranded' = {}
  BY DEF NothingStranded
<1>0. boots \in Nat /\ faults \in Nat
  BY BoundAssumption DEF TypedState, TypeOK
<1>1. CASE UNCHANGED vars
  BY <1>1 DEF vars, mainVars, NothingStranded
<1>2. CASE Next
  <2>1. faults = 0
    BY <1>2, FaultsStay DEF TypedState
  <2>2. CASE Api
    <3>1. UNCHANGED <<mainVars, stranded>>
      BY <2>2 DEF Api, CreateJob, SeedJob, StartSeeding, RetryLoad, RetrySave, DeleteJob
    <3> QED
      BY <2>1, <3>1 DEF mainVars, NothingStranded
  <2>3. CASE Pool
    BY <2>1, <2>3 DEF Pool, Accept, Drop, Dequeue, LeaveJob, ExitWorker, StartJob, CompleteJob,
                      RequeueJob, FailJob, FireTimer, CancelTimer, mainVars, NothingStranded
  <2>4. CASE Scheduler
    BY <2>1, <2>4 DEF Scheduler, SeedMonitoringJob, ComeDue, SkipMonitoringJob, Poll, Dispatch,
                      StopScheduler, mainVars, NothingStranded
  <2>5. CASE Process
    BY <1>0, <2>1, <2>5 DEF Process, Signal, CloseQueue, Exit, Crash, Restart
  <2> QED
    BY <1>2, <2>2, <2>3, <2>4, <2>5 DEF Next
<1> QED
  BY <1>1, <1>2

\* While the process is up for the first time and no write has failed, a job the database
\* calls queued or running has a copy on its way: NoSilentLoss without an exception.
HasCopyWhileUp ==
    boots = 0 /\ main = "up" /\ faults = 0 =>
        \A i \in Unfinished : \E t \in Tasks : Live(t) /\ of[t] = i

\* No job is lost as long as the process stays up.
THEOREM NoLossWhileUp == Spec => []HasCopyWhileUp
<1>1. Init => NothingStranded
  BY DEF Init, NothingStranded
<1>2. Spec => []NothingStranded
  BY <1>1, NothingStrandedNext, TypedInvariant, PTL DEF Spec
<1>3. NothingStranded /\ NoSilentLoss => HasCopyWhileUp
  BY DEF NothingStranded, NoSilentLoss, HasCopyWhileUp
<1> QED
  BY <1>2, <1>3, NothingIsLostSilently, PTL

\* A job that is queued or running in the database and has no copy: what a stop of the
\* process leaves behind.
LeftBehind(i) == i \in Unfinished /\ NoCopy(i)

\* The row stays as it is and without a copy, or is deleted.
StaysLeftBehind(i) == rows'[i] = None \/ (rows'[i] = rows[i] /\ LeftBehind(i)')

\* A row changes, or gets a copy, by a step of one of its copies, of the scheduler that
\* has read it as scheduled, or of a retry that has read it as failed.
LEMMA LeftBehindStays ==
  ASSUME TypedState, Coherent, Next, faults' = 0, NEW i \in Ids, LeftBehind(i)
  PROVE  StaysLeftBehind(i)
<1> SUFFICES rows'[i] = None \/ (rows'[i] = rows[i] /\ LeftBehind(i)')
  BY DEF StaysLeftBehind
<1>0. /\ TypeOK /\ CopiesInUse /\ rows[i] # None /\ i \in used
      /\ rows[i].status \in {"queued", "running"} /\ NoCopy(i) /\ snapshot[i] = None
  BY DEF TypedState, RowsInUse, LeftBehind, Unfinished, Is, Exists, Coherent, Pending
\* What the steps the actions are made of leave of it.
<1>a. ASSUME rows'[i] = rows[i], NoCopy(i)' PROVE rows'[i] = rows[i] /\ LeftBehind(i)'
  BY <1>0, <1>a DEF LeftBehind, Unfinished, Is, Exists
<1>b. ASSUME NEW t \in Tasks, stage[t] # "free" PROVE of[t] \in Ids \ {i}
  BY <1>0, <1>b DEF TypeOK, CopiesInUse, NoCopy
<1>c. ASSUME UNCHANGED taskVars PROVE NoCopy(i)'
  BY <1>0, <1>c DEF NoCopy, taskVars
<1>d. ASSUME NEW t \in Tasks, NEW job, NEW where, NEW w, stage[t] # "free", Move(t, job, where, w)
      PROVE  NoCopy(i)'
  BY <1>0, <1>b, <1>d DEF TypeOK, NoCopy, Move
<1>e. ASSUME NEW t \in Tasks, Forget(t) PROVE NoCopy(i)'
  BY <1>0, <1>e DEF TypeOK, NoCopy, Forget
<1>f. ASSUME NEW t \in Tasks, NEW k \in Ids, k # i, NEW job, NEW where, Begin(t, k, job, where)
      PROVE  NoCopy(i)'
  BY <1>0, <1>f DEF TypeOK, NoCopy, Begin
<1>g. ASSUME NEW k, k # i, NEW job, Save(k, job) PROVE rows'[i] = rows[i]
  BY <1>0, <1>g DEF TypeOK, Save
<1>1. CASE Api
  <2>1. ASSUME NEW t \in Tasks, NEW k \in Ids, NEW r \in Requested, NEW s \in {"queued", "scheduled"},
               CreateJob(t, k, r, s) \/ SeedJob(t, k, r, s)
        PROVE  rows'[i] = rows[i] /\ NoCopy(i)'
    <3>1. k # i /\ rows'[i] = rows[i]
      BY <1>0, <1>g, <2>1 DEF CreateJob, SeedJob, TypeOK
    <3>2. UNCHANGED taskVars \/ Begin(t, k, NewJob(s, LimitOf(r)), "sending")
      BY <2>1 DEF CreateJob, SeedJob
    <3> QED
      BY <1>c, <1>f, <3>1, <3>2
  <2>2. CASE StartSeeding
    BY <1>a, <1>c, <2>2 DEF StartSeeding, rowVars
  <2>3. ASSUME NEW t \in Tasks, NEW k \in Ids, RetryLoad(t, k)
        PROVE  rows'[i] = rows[i] /\ NoCopy(i)'
    <3>1. k # i
      BY <1>0, <2>3 DEF RetryLoad, Is
    <3> QED
      BY <1>f, <2>3, <3>1 DEF RetryLoad, rowVars
  <2>4. ASSUME NEW t \in Tasks, RetrySave(t) PROVE rows'[i] = rows[i] /\ NoCopy(i)'
    BY <1>b, <1>d, <1>g, <2>4 DEF RetrySave
  <2>5. ASSUME NEW k \in Ids, DeleteJob(k)
        PROVE  rows'[i] = None \/ (rows'[i] = rows[i] /\ NoCopy(i)')
    BY <1>0, <1>c, <2>5 DEF DeleteJob, TypeOK
  <2> QED
    BY <1>1, <1>a, <2>1, <2>2, <2>3, <2>4, <2>5 DEF Api
<1>2. CASE Pool
  <2>1. ASSUME NEW t \in Tasks, Accept(t) \/ FireTimer(t) PROVE rows'[i] = rows[i] /\ NoCopy(i)'
    BY <1>d, <2>1 DEF Accept, FireTimer, rowVars
  <2>2. ASSUME NEW t \in Tasks, Drop(t) \/ CancelTimer(t) PROVE rows'[i] = rows[i] /\ NoCopy(i)'
    BY <1>e, <2>2 DEF Drop, CancelTimer, rowVars
  <2>3. ASSUME NEW w \in Workers, Dequeue(w) PROVE rows'[i] = rows[i] /\ NoCopy(i)'
    <3>0. Head(queue) \in Tasks /\ Head(queue) = queue[1] /\ 1 \in 1..Len(queue)
      BY <1>0, <2>3 DEF Dequeue, TypeOK
    <3>1. PICK t \in Tasks : t = Head(queue)
      BY <3>0
    <3>2. stage[t] = "waiting"
      BY <3>0, <3>1 DEF TypedState, QueueShape
    <3>3. Move(t, copy[t], "taken", w) /\ rows' = rows
      BY <2>3, <3>1 DEF Dequeue, rowVars
    <3> QED
      BY <1>d, <3>2, <3>3
  <2>4. ASSUME NEW w \in Workers, LeaveJob(w) \/ ExitWorker(w) PROVE rows'[i] = rows[i] /\ NoCopy(i)'
    BY <1>c, <2>4 DEF LeaveJob, ExitWorker, rowVars
  <2>5. ASSUME NEW t \in Tasks, StartJob(t) PROVE rows'[i] = rows[i] /\ NoCopy(i)'
    BY <1>b, <1>d, <1>g, <2>5 DEF StartJob
  <2>6. ASSUME NEW t \in Tasks, RequeueJob(t) PROVE rows'[i] = rows[i] /\ NoCopy(i)'
    BY <1>b, <1>d, <1>g, <2>6 DEF RequeueJob
  <2>7. ASSUME NEW t \in Tasks, CompleteJob(t) \/ FailJob(t) PROVE rows'[i] = rows[i] /\ NoCopy(i)'
    BY <1>b, <1>e, <1>g, <2>7 DEF CompleteJob, FailJob
  <2> QED
    BY <1>2, <1>a, <2>1, <2>2, <2>3, <2>4, <2>5, <2>6, <2>7 DEF Pool
<1>3. CASE Scheduler
  <2>1. ASSUME NEW k \in Ids, SeedMonitoringJob(k) PROVE rows'[i] = rows[i] /\ NoCopy(i)'
    BY <1>0, <1>c, <1>g, <2>1 DEF SeedMonitoringJob
  <2>2. CASE SkipMonitoringJob \/ Poll \/ StopScheduler \/ \E k \in Ids : ComeDue(k)
    <3>1. rows' = rows /\ UNCHANGED taskVars
      BY <2>2 DEF SkipMonitoringJob, Poll, StopScheduler, ComeDue, rowVars
    <3> QED
      BY <1>a, <1>c, <3>1
  <2>3. ASSUME NEW t \in Tasks, NEW k \in Ids, Dispatch(t, k) PROVE rows'[i] = rows[i] /\ NoCopy(i)'
    <3>1. k # i
      BY <1>0, <2>3 DEF Dispatch
    <3> QED
      BY <1>f, <1>g, <2>3, <3>1 DEF Dispatch
  <2> QED
    BY <1>3, <1>a, <2>1, <2>2, <2>3 DEF Scheduler
<1>4. CASE Process
  <2>1. rows' = rows
    BY <1>4 DEF Process, Signal, CloseQueue, Exit, Crash, Restart, LoseMemory, rowVars
  <2>2. NoCopy(i)'
    BY <1>0, <1>4, <1>c
       DEF Process, Signal, CloseQueue, Exit, Crash, Restart, LoseMemory, taskVars, NoCopy
  <2> QED
    BY <1>a, <2>1, <2>2
<1> QED
  BY <1>1, <1>2, <1>3, <1>4 DEF Next

\* As long as no write has failed and retry requests do not overlap, nothing takes up what a
\* stop has left behind: neither the scheduler (internal/scheduler/scheduler.go, poll) nor the
\* start of the process reads queued or running rows, and RetryJob refuses them.  After any
\* number of restarts such a job is as it was, until a client deletes it.  The conditions
\* matter: a dispatch whose Save failed leaves the row to the next poll as well, whose Save
\* comes when the copy of the first may have been dropped.
THEOREM UndisturbedLeftBehindStays ==
    Spec => [][Undisturbed' => \A i \in Ids : LeftBehind(i) => StaysLeftBehind(i)]_vars
<1>1. TypedState /\ StatusState /\ [Next]_vars =>
          (Undisturbed' => \A i \in Ids : LeftBehind(i) => StaysLeftBehind(i))
  <2> SUFFICES ASSUME TypedState, StatusState, [Next]_vars, NEW i \in Ids, Undisturbed', LeftBehind(i)
               PROVE  StaysLeftBehind(i)
    OBVIOUS
  <2>1. CASE UNCHANGED vars
    BY <2>1 DEF vars, rowVars, taskVars, StaysLeftBehind, LeftBehind, Unfinished, Is, Exists, NoCopy
  <2>2. CASE Next
    <3>1. faults' = 0 /\ Coherent
      BY <2>2, FaultsStay DEF TypedState, StatusState, Undisturbed
    <3> QED
      BY <2>2, <3>1, LeftBehindStays
  <2> QED
    BY <2>1, <2>2
<1>2. TypedState /\ StatusState /\ [Next]_vars =>
          [Undisturbed' => \A i \in Ids : LeftBehind(i) => StaysLeftBehind(i)]_vars
  BY <1>1
<1> QED
  BY <1>2, StatusInvariant, TypedInvariant, PTL DEF Spec

-----------------------------------------------------------------------------
(* A copy wears out *)

\* The attempts a copy has left after the present one.
Left(job) == IF job.retries < job.limit THEN job.limit - job.retries ELSE 0

\* How many steps away the end of an attempt is.
Distance ==
    [s \in Stages |-> CASE s = "free" -> 0
                        [] s = "executing" -> 1
                        [] s = "taken" -> 2
                        [] s = "waiting" -> 3
                        [] s = "sending" -> 4
                        [] s \in {"backoff", "retrying"} -> 5]

\* The steps a copy can take at most before it is gone.
Wear(t) == IF stage[t] = "free" THEN 0 ELSE 5 * Left(copy[t]) + Distance[stage[t]]

LEMMA LeftType == ASSUME NEW j \in Job PROVE Left(j) \in Nat
  BY DEF Left, Job

LEMMA WearType == TypedState => \A t \in Tasks : Wear(t) \in Nat /\ (stage[t] # "free" => Wear(t) > 0)
<1> SUFFICES ASSUME TypedState, NEW t \in Tasks
             PROVE  Wear(t) \in Nat /\ (stage[t] # "free" => Wear(t) > 0)
  OBVIOUS
<1>1. CASE stage[t] = "free"
  BY <1>1 DEF Wear
<1>2. CASE stage[t] # "free"
  <2>1. Left(copy[t]) \in Nat
    BY <1>2, LeftType DEF TypedState, CopiesInUse
  <2>2. Distance[stage[t]] \in 1..5
    BY <1>2 DEF TypedState, TypeOK, Stages, Distance
  <2> QED
    BY <1>2, <2>1, <2>2 DEF Wear
<1> QED
  BY <1>1, <1>2

\* A new copy has at most this much ahead of it.
Budget(limit) == 5 * (IF limit > 0 THEN limit ELSE 0) + 5

WearStep(t) ==
    IF stage[t] = "free"
       THEN stage[t]' # "free" => Wear(t)' <= Budget(copy[t]'.limit)
       ELSE Wear(t)' < Wear(t) \/ UNCHANGED <<stage[t], of[t], copy[t], by[t]>>

\* Every step of a copy's owner brings it nearer to its end, also the one that sends it round
\* again; only a new copy begins anew.  So a copy takes no more steps than its limit allows.
WearsOut == [][\A t \in Tasks : WearStep(t)]_vars

LEMMA LeftBound ==
  ASSUME NEW j \in Job PROVE Left(j) <= IF j.limit > 0 THEN j.limit ELSE 0
  BY DEF Left, Job

\* The steps the actions are made of.
LEMMA WearMove ==
  ASSUME TypedState, NEW t \in Tasks, NEW job, NEW where, NEW w, Move(t, job, where, w),
         stage[t] # "free", where \in Stages \ {"free"},
         Distance[where] + 5 * Left(job) < Distance[stage[t]] + 5 * Left(copy[t]),
         Left(job) \in Nat
  PROVE  \A u \in Tasks : WearStep(u)
<1> SUFFICES ASSUME NEW u \in Tasks PROVE WearStep(u)
  OBVIOUS
<1>1. CASE u # t
  <2>1. UNCHANGED <<stage[u], of[u], copy[u], by[u]>>
    BY <1>1 DEF Move, TypedState, TypeOK
  <2> QED
    BY <2>1 DEF WearStep
<1>2. CASE u = t
  <2>1. stage[t]' = where /\ copy[t]' = job
    BY DEF Move, TypedState, TypeOK
  <2>2. Wear(t)' = 5 * Left(job) + Distance[where] /\ Wear(t) = 5 * Left(copy[t]) + Distance[stage[t]]
    BY <2>1 DEF Wear, Left
  <2>3. Distance[where] \in Nat /\ Distance[stage[t]] \in Nat /\ Left(copy[t]) \in Nat
    BY LeftType DEF Distance, TypedState, TypeOK, Stages, CopiesInUse
  <2>4. Wear(t)' < Wear(t)
    BY <2>2, <2>3
  <2> QED
    BY <1>2, <2>4 DEF WearStep
<1> QED
  BY <1>1, <1>2

LEMMA WearForget ==
  ASSUME TypedState, NEW t \in Tasks, Forget(t), stage[t] # "free"
  PROVE  \A u \in Tasks : WearStep(u)
<1> SUFFICES ASSUME NEW u \in Tasks PROVE WearStep(u)
  OBVIOUS
<1>1. CASE u # t
  <2>1. UNCHANGED <<stage[u], of[u], copy[u], by[u]>>
    BY <1>1 DEF Forget, TypedState, TypeOK
  <2> QED
    BY <2>1 DEF WearStep
<1>2. CASE u = t
  <2>1. stage[t]' = "free"
    BY DEF Forget, TypedState, TypeOK
  <2>2. Wear(t)' = 0 /\ Wear(t) \in Nat /\ Wear(t) > 0
    BY <2>1, WearType DEF Wear
  <2> QED
    BY <1>2, <2>2 DEF WearStep
<1> QED
  BY <1>1, <1>2

LEMMA WearBegin ==
  ASSUME TypedState, NEW t \in Tasks, NEW i, NEW job \in Job, NEW where,
         Begin(t, i, job, where), where \in {"sending", "retrying"}
  PROVE  \A u \in Tasks : WearStep(u)
<1> SUFFICES ASSUME NEW u \in Tasks PROVE WearStep(u)
  OBVIOUS
<1>1. CASE u # t
  <2>1. UNCHANGED <<stage[u], of[u], copy[u], by[u]>>
    BY <1>1 DEF Begin, TypedState, TypeOK
  <2> QED
    BY <2>1 DEF WearStep
<1>2. CASE u = t
  <2>1. stage[t] = "free" /\ stage[t]' = where /\ copy[t]' = job
    BY DEF Begin, TypedState, TypeOK
  <2>2. Wear(t)' = 5 * Left(job) + Distance[where]
    BY <2>1 DEF Wear, Left
  <2>3. Distance[where] <= 5 /\ Distance[where] \in Nat /\ job.limit \in Int
    BY DEF Distance, Stages, Job
  <2>4. Wear(t)' <= Budget(copy[t]'.limit)
    BY <2>1, <2>2, <2>3, LeftType, LeftBound DEF Budget
  <2> QED
    BY <1>2, <2>1, <2>4 DEF WearStep
<1> QED
  BY <1>1, <1>2

LEMMA WearSame == ASSUME UNCHANGED taskVars PROVE \A u \in Tasks : WearStep(u)
  BY DEF taskVars, WearStep, Wear, Left

LEMMA WearApi == TypedState /\ Api => \A u \in Tasks : WearStep(u)
<1> SUFFICES ASSUME TypedState, Api PROVE \A u \in Tasks : WearStep(u)
  OBVIOUS
<1>0. TypeOK /\ CopiesInUse
  BY DEF TypedState
<1>1. ASSUME NEW t \in Tasks, NEW i \in Ids, NEW r \in Requested, NEW s \in {"queued", "scheduled"},
             CreateJob(t, i, r, s) \/ SeedJob(t, i, r, s)
      PROVE  \A u \in Tasks : WearStep(u)
  <2>1. NewJob(s, LimitOf(r)) \in Job
    BY NewJobType, LimitType DEF Status
  <2>2. UNCHANGED taskVars \/ Begin(t, i, NewJob(s, LimitOf(r)), "sending")
    BY <1>1 DEF CreateJob, SeedJob
  <2> QED
    BY <2>1, <2>2, WearSame, WearBegin
<1>2. CASE StartSeeding \/ \E i \in Ids : DeleteJob(i)
  <2>1. UNCHANGED taskVars
    BY <1>2 DEF StartSeeding, DeleteJob
  <2> QED
    BY <2>1, WearSame
<1>3. ASSUME NEW t \in Tasks, NEW i \in Ids, RetryLoad(t, i)
      PROVE  \A u \in Tasks : WearStep(u)
  <2>1. rows[i].limit \in Int
    BY <1>0, <1>3 DEF RetryLoad, Is, Exists, TypeOK, Job
  <2>2. NewJob("queued", rows[i].limit) \in Job
    BY <2>1, NewJobType DEF Status
  <2> QED
    BY <1>3, <2>2, WearBegin DEF RetryLoad
<1>4. ASSUME NEW t \in Tasks, RetrySave(t) PROVE \A u \in Tasks : WearStep(u)
  <2>1. Left(copy[t]) \in Nat
    BY <1>0, <1>4, LeftType DEF RetrySave, CopiesInUse
  <2>2. Distance["sending"] = 4 /\ Distance["retrying"] = 5
    BY DEF Distance, Stages
  <2> QED
    BY <1>4, <2>1, <2>2, WearMove DEF RetrySave, Stages
<1> QED
  BY <1>1, <1>2, <1>3, <1>4 DEF Api

LEMMA WearPool == TypedState /\ Pool => \A u \in Tasks : WearStep(u)
<1> SUFFICES ASSUME TypedState, Pool PROVE \A u \in Tasks : WearStep(u)
  OBVIOUS
<1>0. TypeOK /\ CopiesInUse
  BY DEF TypedState
<1>a. \A t \in Tasks : stage[t] # "free" => copy[t] \in Job /\ Left(copy[t]) \in Nat
  BY <1>0, LeftType DEF CopiesInUse
<1>b. /\ Distance["executing"] = 1 /\ Distance["taken"] = 2 /\ Distance["waiting"] = 3
      /\ Distance["sending"] = 4 /\ Distance["backoff"] = 5
  BY DEF Distance, Stages
<1>1. ASSUME NEW t \in Tasks, Accept(t) PROVE \A u \in Tasks : WearStep(u)
  BY <1>a, <1>b, <1>1, WearMove DEF Accept, Stages
<1>2. ASSUME NEW t \in Tasks, FireTimer(t) PROVE \A u \in Tasks : WearStep(u)
  BY <1>a, <1>b, <1>2, WearMove DEF FireTimer, Stages
<1>3. ASSUME NEW t \in Tasks, Drop(t) \/ CancelTimer(t) PROVE \A u \in Tasks : WearStep(u)
  BY <1>3, WearForget DEF Drop, CancelTimer
<1>4. ASSUME NEW w \in Workers, Dequeue(w) PROVE \A u \in Tasks : WearStep(u)
  <2>0. Head(queue) \in Tasks /\ Head(queue) = queue[1] /\ 1 \in 1..Len(queue)
    BY <1>0, <1>4 DEF Dequeue, TypeOK
  <2>1. PICK t \in Tasks : t = Head(queue)
    BY <2>0
  <2>2. stage[t] = "waiting"
    BY <2>0, <2>1 DEF TypedState, QueueShape
  <2>3. Move(t, copy[t], "taken", w)
    BY <1>4, <2>1 DEF Dequeue
  <2> QED
    BY <1>a, <1>b, <2>2, <2>3, WearMove DEF Stages
<1>5. ASSUME NEW w \in Workers, LeaveJob(w) \/ ExitWorker(w) PROVE \A u \in Tasks : WearStep(u)
  <2>1. UNCHANGED taskVars
    BY <1>5 DEF LeaveJob, ExitWorker
  <2> QED
    BY <2>1, WearSame
<1>6. ASSUME NEW t \in Tasks, StartJob(t) PROVE \A u \in Tasks : WearStep(u)
  <2> DEFINE job == [copy[t] EXCEPT !.status = "running", !.worker = by[t]]
  <2>1. stage[t] = "taken" /\ Move(t, job, "executing", by[t])
    BY <1>6 DEF StartJob
  <2>2. Left(job) = Left(copy[t])
    BY <1>a, <2>1 DEF Left, Job
  <2> HIDE DEF job
  <2> QED
    BY <1>a, <1>b, <2>1, <2>2, WearMove DEF Stages
<1>7. ASSUME NEW t \in Tasks, RequeueJob(t) PROVE \A u \in Tasks : WearStep(u)
  <2> DEFINE job == [copy[t] EXCEPT !.status = "queued", !.retries = @ + 1, !.worker = None,
                                    !.error = TRUE, !.ended = TRUE]
  <2>1. stage[t] = "executing" /\ copy[t].retries < copy[t].limit /\ Move(t, job, "backoff", None)
    BY <1>7 DEF RequeueJob
  <2>2. job.retries = copy[t].retries + 1 /\ job.limit = copy[t].limit
    BY <1>a, <2>1 DEF Job
  <2>3. Left(job) = Left(copy[t]) - 1 /\ Left(copy[t]) > 0
    BY <1>a, <2>1, <2>2 DEF Left, Job
  <2> HIDE DEF job
  <2> QED
    BY <1>a, <1>b, <2>1, <2>3, WearMove DEF Stages
<1>8. ASSUME NEW t \in Tasks, CompleteJob(t) \/ FailJob(t) PROVE \A u \in Tasks : WearStep(u)
  BY <1>8, WearForget DEF CompleteJob, FailJob
<1> QED
  BY <1>1, <1>2, <1>3, <1>4, <1>5, <1>6, <1>7, <1>8 DEF Pool

LEMMA WearRest == TypedState /\ (Scheduler \/ Process) => \A u \in Tasks : WearStep(u)
<1> SUFFICES ASSUME TypedState, Scheduler \/ Process PROVE \A u \in Tasks : WearStep(u)
  OBVIOUS
<1>1. ASSUME NEW t \in Tasks, NEW i \in Ids, Dispatch(t, i) PROVE \A u \in Tasks : WearStep(u)
  <2> DEFINE job == [snapshot[i] EXCEPT !.status = "queued"]
  <2>1. job \in Job /\ Begin(t, i, job, "sending")
    BY <1>1 DEF Dispatch, TypedState, TypeOK, Job, Status
  <2> HIDE DEF job
  <2> QED
    BY <2>1, WearBegin
<1>2. CASE \/ SkipMonitoringJob \/ Poll \/ StopScheduler \/ Signal \/ CloseQueue \/ Restart
           \/ \E i \in Ids : SeedMonitoringJob(i) \/ ComeDue(i)
  <2>1. UNCHANGED taskVars
    BY <1>2 DEF SkipMonitoringJob, Poll, StopScheduler, Signal, CloseQueue, Restart,
                SeedMonitoringJob, ComeDue
  <2> QED
    BY <2>1, WearSame
<1>3. CASE Exit \/ Crash
  <2> SUFFICES ASSUME NEW u \in Tasks PROVE WearStep(u)
    OBVIOUS
  <2>1. stage[u]' = "free"
    BY <1>3 DEF Exit, Crash, LoseMemory
  <2>2. Wear(u)' = 0
    BY <2>1 DEF Wear
  <2> QED
    BY <2>1, <2>2, WearType DEF WearStep
<1> QED
  BY <1>1, <1>2, <1>3 DEF Scheduler, Process

\* A copy wears out, whatever writes fail: the termination argument behind EveryJobFinishes,
\* for every limit.
THEOREM CopiesWearOut == Spec => WearsOut
<1>1. TypedState /\ [Next]_vars => [\A t \in Tasks : WearStep(t)]_vars
  BY WearApi, WearPool, WearRest DEF Next
<1> QED
  BY <1>1, TypedInvariant, PTL DEF Spec, WearsOut

-----------------------------------------------------------------------------
(* The queue of the process *)

\* A copy has a worker exactly while it is under way.
Owned == \A t \in Tasks : by[t] # None <=> Executing(t)

LEMMA OwnedMove ==
  ASSUME TypeOK, Owned, NEW t \in Tasks, NEW job, NEW where, NEW w, Move(t, job, where, w),
         w # None <=> where \in {"taken", "executing"}
  PROVE  Owned'
  BY DEF TypeOK, Owned, Move, Executing

LEMMA OwnedForget == ASSUME TypeOK, Owned, NEW t \in Tasks, Forget(t) PROVE Owned'
  BY DEF TypeOK, Owned, Forget, Executing

LEMMA OwnedBegin ==
  ASSUME TypeOK, Owned, NEW t \in Tasks, NEW i, NEW job, NEW where,
         where \notin {"taken", "executing"}, Begin(t, i, job, where)
  PROVE  Owned'
  BY DEF TypeOK, Owned, Begin, Executing

LEMMA OwnedSame == ASSUME Owned, UNCHANGED taskVars PROVE Owned'
  BY DEF Owned, Executing, taskVars

LEMMA OwnedNext == TypedState /\ Owned /\ [Next]_vars => Owned'
<1> SUFFICES ASSUME TypedState, Owned, [Next]_vars PROVE Owned'
  OBVIOUS
<1>0. TypeOK
  BY DEF TypedState
<1>1. CASE UNCHANGED vars
  BY <1>1, OwnedSame DEF vars
<1>2. CASE Api
  <2>1. ASSUME NEW t \in Tasks, NEW i \in Ids, NEW r \in Requested, NEW s \in {"queued", "scheduled"},
               CreateJob(t, i, r, s) \/ SeedJob(t, i, r, s)
        PROVE  Owned'
    <3>1. UNCHANGED taskVars \/ Begin(t, i, NewJob(s, LimitOf(r)), "sending")
      BY <2>1 DEF CreateJob, SeedJob
    <3> QED
      BY <1>0, <3>1, OwnedSame, OwnedBegin
  <2>2. CASE StartSeeding \/ \E i \in Ids : DeleteJob(i)
    BY <2>2, OwnedSame DEF StartSeeding, DeleteJob
  <2>3. ASSUME NEW t \in Tasks, NEW i \in Ids, RetryLoad(t, i) PROVE Owned'
    BY <1>0, <2>3, OwnedBegin DEF RetryLoad
  <2>4. ASSUME NEW t \in Tasks, RetrySave(t) PROVE Owned'
    BY <1>0, <2>4, OwnedMove DEF RetrySave
  <2> QED
    BY <1>2, <2>1, <2>2, <2>3, <2>4 DEF Api
<1>3. CASE Pool
  <2>1. ASSUME NEW t \in Tasks, Accept(t) \/ FireTimer(t) PROVE Owned'
    BY <1>0, <2>1, OwnedMove DEF Accept, FireTimer
  <2>2. ASSUME NEW t \in Tasks, Drop(t) \/ CancelTimer(t) \/ CompleteJob(t) \/ FailJob(t) PROVE Owned'
    BY <1>0, <2>2, OwnedForget DEF Drop, CancelTimer, CompleteJob, FailJob
  <2>3. ASSUME NEW w \in Workers, Dequeue(w) PROVE Owned'
    <3>1. PICK t \in Tasks : t = Head(queue)
      BY <1>0, <2>3 DEF Dequeue, TypeOK
    <3>2. Move(t, copy[t], "taken", w) /\ w # None
      BY <2>3, <3>1, NoneAssumption DEF Dequeue
    <3> QED
      BY <1>0, <3>2, OwnedMove
  <2>4. ASSUME NEW w \in Workers, LeaveJob(w) \/ ExitWorker(w) PROVE Owned'
    BY <2>4, OwnedSame DEF LeaveJob, ExitWorker
  <2>5. ASSUME NEW t \in Tasks, StartJob(t) PROVE Owned'
    <3>1. by[t] # None
      BY <2>5 DEF StartJob, Owned, Executing
    <3> QED
      BY <1>0, <2>5, <3>1, OwnedMove DEF StartJob
  <2>6. ASSUME NEW t \in Tasks, RequeueJob(t) PROVE Owned'
    BY <1>0, <2>6, OwnedMove DEF RequeueJob
  <2> QED
    BY <1>3, <2>1, <2>2, <2>3, <2>4, <2>5, <2>6 DEF Pool
<1>4. CASE Scheduler
  <2>1. ASSUME NEW t \in Tasks, NEW i \in Ids, Dispatch(t, i) PROVE Owned'
    BY <1>0, <2>1, OwnedBegin DEF Dispatch
  <2>2. CASE \/ SkipMonitoringJob \/ Poll \/ StopScheduler
             \/ \E i \in Ids : SeedMonitoringJob(i) \/ ComeDue(i)
    BY <2>2, OwnedSame DEF SkipMonitoringJob, Poll, StopScheduler, SeedMonitoringJob, ComeDue
  <2> QED
    BY <1>4, <2>1, <2>2 DEF Scheduler
<1>5. CASE Process
  <2>1. CASE Signal \/ CloseQueue \/ Restart
    BY <2>1, OwnedSame DEF Signal, CloseQueue, Restart
  <2>2. CASE Exit \/ Crash
    BY <2>2 DEF Exit, Crash, LoseMemory, Owned, Executing
  <2> QED
    BY <1>5, <2>1, <2>2 DEF Process
<1> QED
  BY <1>1, <1>2, <1>3, <1>4, <1>5 DEF Next

LEMMA OwnedInvariant == Spec => [](TypedState /\ Owned /\ ActiveState)
<1>1. Init => Owned
  BY DEF Init, FreshProcess, Owned, Executing
<1>2. Init => ActiveState
  BY DEF Init, FreshProcess, ActiveState, Owners, Accounted, Executing
<1>3. TypedState /\ ActiveState /\ [Next]_vars => ActiveState'
  <2>1. ActiveState /\ UNCHANGED vars => ActiveState'
    BY DEF vars, taskVars, poolVars, ActiveState, Owners, Accounted, Executing
  <2> QED
    BY <2>1, ActiveApi, ActivePool, ActiveScheduler, ActiveProcess DEF Next
<1> QED
  BY <1>1, <1>2, <1>3, OwnedNext, TypedInvariant, PTL DEF Spec

\* The copy worker w has in hand.
InHandOf(w) == IF \E t \in Tasks : by[t] = w THEN CHOOSE t \in Tasks : by[t] = w ELSE None

\* The copies in Enqueue, and those in the hands of the workers.
Outbox == [t \in Tasks |-> IF stage[t] = "sending" THEN t ELSE None]
Inbox == [w \in Workers |-> InHandOf(w)]

\* The queue of the process, seen as FifoQueue: every copy is a job of its own and its
\* producer.
Fifo == INSTANCE FifoQueue WITH
    Producers <- Tasks,
    Consumers <- Workers,
    Jobs <- Tasks,
    buffer <- queue,
    outbox <- Outbox,
    inbox <- Inbox,
    shut <- main = "closed"

\* The process stops, and the queue goes with its memory.
Stops == main # "down" /\ main' = "down"

\* In each of its lives the process treats the queue as FifoQueue allows.
FifoStep == Fifo!Next \/ UNCHANGED Fifo!fifoVars \/ (Stops /\ Fifo!Init')
QueueIsFifo == Fifo!Init /\ [][FifoStep]_vars

LEMMA OutboxBegin ==
  ASSUME TypeOK, NEW t \in Tasks, NEW i, NEW job, NEW where, Begin(t, i, job, where)
  PROVE  /\ Outbox[t] = None
         /\ Outbox' = IF where = "sending" THEN [Outbox EXCEPT ![t] = t] ELSE Outbox
  BY DEF TypeOK, Outbox, Begin

LEMMA OutboxMove ==
  ASSUME TypeOK, NEW t \in Tasks, NEW job, NEW where, NEW w, Move(t, job, where, w)
  PROVE  Outbox' = [Outbox EXCEPT ![t] = IF where = "sending" THEN t ELSE None]
  BY DEF TypeOK, Outbox, Move

LEMMA OutboxForget ==
  ASSUME TypeOK, NEW t \in Tasks, Forget(t)
  PROVE  Outbox' = [Outbox EXCEPT ![t] = None]
  BY DEF TypeOK, Outbox, Forget

LEMMA OutboxOf ==
  ASSUME NEW t \in Tasks
  PROVE  /\ Outbox[t] = IF stage[t] = "sending" THEN t ELSE None
         /\ stage[t] # "sending" => [Outbox EXCEPT ![t] = None] = Outbox
  BY DEF Outbox

\* No copy comes to a worker or leaves it.
LEMMA InboxSame ==
  ASSUME \A t \in Tasks, w \in Workers : by'[t] = w <=> by[t] = w
  PROVE  Inbox' = Inbox
<1>1. \A w \in Workers : (CHOOSE t \in Tasks : by'[t] = w) = (CHOOSE t \in Tasks : by[t] = w)
  OBVIOUS
<1>2. \A w \in Workers : InHandOf(w)' = InHandOf(w)
  BY <1>1 DEF InHandOf
<1> QED
  BY <1>2 DEF Inbox

\* The worker of a copy has it in hand, and no other.
LEMMA InboxOf ==
  ASSUME TypeOK, Owned, ActiveState, NEW t \in Tasks, NEW w \in Workers, by[t] = w
  PROVE  Inbox[w] = t
<1>1. PICK u \in Tasks : u = InHandOf(w) /\ by[u] = w
  BY DEF InHandOf
<1>2. u = t
  BY <1>1, NoneAssumption DEF Owned, ActiveState, Owners
<1> QED
  BY <1>1, <1>2 DEF Inbox

\* A worker that had nothing in hand is given a copy.
LEMMA InboxTake ==
  ASSUME TypeOK, NEW t \in Tasks, NEW w \in Workers, by[t] = None, \A u \in Tasks : by[u] # w,
         by' = [by EXCEPT ![t] = w]
  PROVE  Inbox[w] = None /\ Inbox' = [Inbox EXCEPT ![w] = t]
<1>1. Inbox[w] = None
  BY DEF Inbox, InHandOf
<1>2. \A u \in Tasks : by'[u] = w <=> u = t
  BY DEF TypeOK
<1>3. InHandOf(w)' = t
  BY <1>2 DEF InHandOf
<1>4. ASSUME NEW v \in Workers \ {w} PROVE InHandOf(v)' = InHandOf(v)
  <2>1. \A u \in Tasks : by'[u] = v <=> by[u] = v
    BY <1>4, NoneAssumption DEF TypeOK
  <2>2. (CHOOSE u \in Tasks : by'[u] = v) = (CHOOSE u \in Tasks : by[u] = v)
    BY <2>1
  <2> QED
    BY <2>1, <2>2 DEF InHandOf
<1> QED
  BY <1>1, <1>3, <1>4 DEF Inbox

\* A worker gives up the copy it had.
LEMMA InboxRelease ==
  ASSUME TypeOK, Owned, ActiveState, NEW t \in Tasks, Executing(t), by' = [by EXCEPT ![t] = None]
  PROVE  /\ by[t] \in Workers /\ Inbox[by[t]] # None
         /\ Inbox' = [Inbox EXCEPT ![by[t]] = None]
<1>1. PICK w \in Workers : w = by[t]
  BY DEF ActiveState, Owners
<1>2. Inbox[w] # None
  BY <1>1, InboxOf, NoneAssumption
<1>3. \A u \in Tasks : by'[u] # w
  BY <1>1, NoneAssumption DEF TypeOK, Owned, ActiveState, Owners
<1>4. InHandOf(w)' = None
  BY <1>3 DEF InHandOf
<1>5. ASSUME NEW v \in Workers \ {w} PROVE InHandOf(v)' = InHandOf(v)
  <2>1. \A u \in Tasks : by'[u] = v <=> by[u] = v
    BY <1>1, <1>5, NoneAssumption DEF TypeOK
  <2>2. (CHOOSE u \in Tasks : by'[u] = v) = (CHOOSE u \in Tasks : by[u] = v)
    BY <2>1
  <2> QED
    BY <2>1, <2>2 DEF InHandOf
<1>6. Inbox' = [Inbox EXCEPT ![w] = None]
  BY <1>4, <1>5 DEF Inbox
<1> QED
  BY <1>1, <1>2, <1>6

\* A step that leaves the workers' copies alone.
LEMMA InboxIdle ==
  ASSUME TypeOK, NEW t \in Tasks, by[t] = None, by' = [by EXCEPT ![t] = None]
  PROVE  Inbox' = Inbox
<1>1. \A u \in Tasks, w \in Workers : by'[u] = w <=> by[u] = w
  BY NoneAssumption DEF TypeOK
<1> QED
  BY <1>1, InboxSame

\* The steps of the queue the actions of the process are made of.
LEMMA FifoOffer ==
  ASSUME TypeOK, NEW t \in Tasks, Outbox[t] = None, Outbox' = [Outbox EXCEPT ![t] = t],
         Inbox' = Inbox, queue' = queue, main' = main
  PROVE  FifoStep
  BY DEF FifoStep, Fifo!Next, Fifo!Offer

LEMMA FifoSame ==
  ASSUME Outbox' = Outbox, Inbox' = Inbox, queue' = queue,
         main' = "closed" <=> main = "closed"
  PROVE  FifoStep
  BY DEF FifoStep, Fifo!fifoVars

LEMMA FifoUntouched ==
  ASSUME UNCHANGED taskVars, queue' = queue, main' = "closed" <=> main = "closed"
  PROVE  FifoStep
<1>1. Outbox' = Outbox /\ Inbox' = Inbox
  BY DEF taskVars, Outbox, Inbox, InHandOf
<1> QED
  BY <1>1, FifoSame

LEMMA FifoBegin ==
  ASSUME TypeOK, NEW t \in Tasks, NEW i, NEW job, NEW where, Begin(t, i, job, where),
         queue' = queue, main' = main
  PROVE  FifoStep
<1>1. Inbox' = Inbox
  BY InboxSame DEF Begin
<1> QED
  BY <1>1, OutboxBegin, FifoOffer, FifoSame

LEMMA FifoRelease ==
  ASSUME TypeOK, Owned, ActiveState, NEW t \in Tasks, Executing(t), by' = [by EXCEPT ![t] = None],
         Outbox' = [Outbox EXCEPT ![t] = None], queue' = queue, main' = main
  PROVE  FifoStep
<1>1. Outbox' = Outbox
  BY OutboxOf DEF Executing
<1>2. /\ by[t] \in Workers /\ Inbox[by[t]] # None
      /\ Inbox' = [Inbox EXCEPT ![by[t]] = None]
  BY InboxRelease
<1>3. Fifo!Release(by[t])
  BY <1>1, <1>2 DEF Fifo!Release
<1> QED
  BY <1>2, <1>3 DEF FifoStep, Fifo!Next

LEMMA FifoApi == TypedState /\ Owned /\ Api => FifoStep
<1> SUFFICES ASSUME TypedState, Owned, Api PROVE FifoStep
  OBVIOUS
<1>0. TypeOK
  BY DEF TypedState
<1>1. ASSUME NEW t \in Tasks, NEW i \in Ids, NEW r \in Requested, NEW s \in {"queued", "scheduled"},
             CreateJob(t, i, r, s) \/ SeedJob(t, i, r, s)
      PROVE  FifoStep
  <2>1. queue' = queue /\ main' = main
    BY <1>1 DEF CreateJob, SeedJob, poolVars, mainVars
  <2>2. UNCHANGED taskVars \/ Begin(t, i, NewJob(s, LimitOf(r)), "sending")
    BY <1>1 DEF CreateJob, SeedJob
  <2> QED
    BY <1>0, <2>1, <2>2, FifoUntouched, FifoBegin
<1>2. CASE StartSeeding \/ \E i \in Ids : DeleteJob(i)
  BY <1>2, FifoUntouched DEF StartSeeding, DeleteJob, poolVars, mainVars
<1>3. ASSUME NEW t \in Tasks, NEW i \in Ids, RetryLoad(t, i) PROVE FifoStep
  BY <1>0, <1>3, FifoBegin DEF RetryLoad, poolVars, mainVars
<1>4. ASSUME NEW t \in Tasks, RetrySave(t) PROVE FifoStep
  <2>1. /\ stage[t] = "retrying" /\ Move(t, copy[t], "sending", None)
        /\ queue' = queue /\ main' = main
    BY <1>4 DEF RetrySave, poolVars, mainVars
  <2>2. Inbox' = Inbox
    BY <1>0, <2>1, InboxIdle DEF Move, Owned, Executing
  <2> QED
    BY <1>0, <2>1, <2>2, OutboxOf, OutboxMove, FifoOffer
<1> QED
  BY <1>1, <1>2, <1>3, <1>4 DEF Api

LEMMA FifoPool == TypedState /\ Owned /\ ActiveState /\ Pool => FifoStep
<1> SUFFICES ASSUME TypedState, Owned, ActiveState, Pool PROVE FifoStep
  OBVIOUS
<1>0. TypeOK /\ CopiesInUse
  BY DEF TypedState
<1>1. ASSUME NEW t \in Tasks, Accept(t) PROVE FifoStep
  <2>1. /\ stage[t] = "sending" /\ main # "closed" /\ Len(queue) < Capacity
        /\ queue' = Append(queue, t) /\ Move(t, copy[t], "waiting", None) /\ main' = main
    BY <1>1 DEF Accept, mainVars
  <2>2. Inbox' = Inbox
    BY <1>0, <2>1, InboxIdle DEF Move, Owned, Executing
  <2>3. Outbox[t] = t /\ t # None /\ Outbox' = [Outbox EXCEPT ![t] = None]
    BY <1>0, <2>1, OutboxOf, OutboxMove, NoneAssumption
  <2>4. Fifo!Accept(t)
    BY <2>1, <2>2, <2>3 DEF Fifo!Accept
  <2> QED
    BY <2>4 DEF FifoStep, Fifo!Next
<1>2. ASSUME NEW t \in Tasks, Drop(t) PROVE FifoStep
  <2>1. stage[t] = "sending" /\ main = "closed" /\ Forget(t) /\ queue' = queue /\ main' = main
    BY <1>2 DEF Drop, poolVars, mainVars
  <2>2. Inbox' = Inbox
    BY <1>0, <2>1, InboxIdle DEF Forget, Owned, Executing
  <2>3. Outbox[t] = t /\ t # None /\ Outbox' = [Outbox EXCEPT ![t] = None]
    BY <1>0, <2>1, OutboxOf, OutboxForget, NoneAssumption
  <2>4. Fifo!Drop(t)
    BY <2>1, <2>2, <2>3 DEF Fifo!Drop
  <2> QED
    BY <2>4 DEF FifoStep, Fifo!Next
<1>3. ASSUME NEW t \in Tasks, FireTimer(t) PROVE FifoStep
  <2>1. /\ stage[t] = "backoff" /\ Move(t, copy[t], "sending", None)
        /\ queue' = queue /\ main' = main
    BY <1>3 DEF FireTimer, poolVars, mainVars
  <2>2. Inbox' = Inbox
    BY <1>0, <2>1, InboxIdle DEF Move, Owned, Executing
  <2> QED
    BY <1>0, <2>1, <2>2, OutboxOf, OutboxMove, FifoOffer
<1>4. ASSUME NEW t \in Tasks, CancelTimer(t) PROVE FifoStep
  <2>1. stage[t] = "backoff" /\ Forget(t) /\ queue' = queue /\ main' = main
    BY <1>4 DEF CancelTimer, poolVars, mainVars
  <2>2. Inbox' = Inbox
    BY <1>0, <2>1, InboxIdle DEF Forget, Owned, Executing
  <2>3. Outbox' = Outbox
    BY <1>0, <2>1, OutboxOf, OutboxForget
  <2> QED
    BY <2>1, <2>2, <2>3, FifoSame
<1>5. ASSUME NEW w \in Workers, Dequeue(w) PROVE FifoStep
  <2>0. Head(queue) \in Tasks /\ Head(queue) = queue[1] /\ 1 \in 1..Len(queue)
    BY <1>0, <1>5 DEF Dequeue, TypeOK
  <2>1. PICK t \in Tasks : t = Head(queue)
    BY <2>0
  <2>2. stage[t] = "waiting"
    BY <2>0, <2>1 DEF TypedState, QueueShape
  <2>3. /\ Move(t, copy[t], "taken", w) /\ queue # <<>> /\ queue' = Tail(queue) /\ main' = main
        /\ \A u \in Tasks : by[u] # w
    BY <1>5, <2>1 DEF Dequeue, Busy, mainVars
  <2>4. Inbox[w] = None /\ Inbox' = [Inbox EXCEPT ![w] = t]
    BY <1>0, <2>2, <2>3, InboxTake DEF Move, Owned, Executing
  <2>5. Outbox' = Outbox
    BY <1>0, <2>2, <2>3, OutboxOf, OutboxMove
  <2>6. Fifo!Take(w)
    BY <2>1, <2>3, <2>4, <2>5 DEF Fifo!Take
  <2> QED
    BY <2>6 DEF FifoStep, Fifo!Next
<1>6. ASSUME NEW w \in Workers, LeaveJob(w) \/ ExitWorker(w) PROVE FifoStep
  BY <1>6, FifoUntouched DEF LeaveJob, ExitWorker, poolVars, mainVars
<1>7. ASSUME NEW t \in Tasks, StartJob(t) PROVE FifoStep
  <2> DEFINE job == [copy[t] EXCEPT !.status = "running", !.worker = by[t]]
  <2>1. /\ stage[t] = "taken" /\ Move(t, job, "executing", by[t])
        /\ queue' = queue /\ main' = main
    BY <1>7 DEF StartJob, poolVars, mainVars
  <2> HIDE DEF job
  <2>2. by' = by
    BY <1>0, <2>1 DEF Move, TypeOK
  <2>3. Outbox' = Outbox
    BY <1>0, <2>1, OutboxOf, OutboxMove
  <2> QED
    BY <2>1, <2>2, <2>3, InboxSame, FifoSame
<1>8. ASSUME NEW t \in Tasks, CompleteJob(t) \/ FailJob(t) PROVE FifoStep
  <2>1. Executing(t) /\ Forget(t) /\ queue' = queue /\ main' = main
    BY <1>8 DEF CompleteJob, FailJob, mainVars, Executing
  <2> QED
    BY <1>0, <2>1, OutboxForget, FifoRelease DEF Forget
<1>9. ASSUME NEW t \in Tasks, RequeueJob(t) PROVE FifoStep
  <2> DEFINE job == [copy[t] EXCEPT !.status = "queued", !.retries = @ + 1, !.worker = None,
                                    !.error = TRUE, !.ended = TRUE]
  <2>1. Executing(t) /\ Move(t, job, "backoff", None) /\ queue' = queue /\ main' = main
    BY <1>9 DEF RequeueJob, mainVars, Executing
  <2> HIDE DEF job
  <2>2. Outbox' = [Outbox EXCEPT ![t] = None]
    BY <1>0, <2>1, OutboxMove
  <2> QED
    BY <1>0, <2>1, <2>2, FifoRelease DEF Move
<1> QED
  BY <1>1, <1>2, <1>3, <1>4, <1>5, <1>6, <1>7, <1>8, <1>9 DEF Pool

LEMMA FifoRest == TypedState /\ (Scheduler \/ Process) => FifoStep
<1> SUFFICES ASSUME TypedState, Scheduler \/ Process PROVE FifoStep
  OBVIOUS
<1>1. ASSUME NEW t \in Tasks, NEW i \in Ids, Dispatch(t, i) PROVE FifoStep
  BY <1>1, FifoBegin DEF Dispatch, poolVars, mainVars, TypedState
<1>2. CASE \/ SkipMonitoringJob \/ Poll \/ StopScheduler
           \/ \E i \in Ids : SeedMonitoringJob(i) \/ ComeDue(i)
  BY <1>2, FifoUntouched DEF SkipMonitoringJob, Poll, StopScheduler, SeedMonitoringJob, ComeDue,
                             poolVars, mainVars
<1>3. CASE Signal \/ Restart
  BY <1>3, FifoUntouched DEF Signal, Restart, poolVars
<1>4. CASE CloseQueue
  <2>1. Outbox' = Outbox /\ Inbox' = Inbox
    BY <1>4 DEF CloseQueue, taskVars, Outbox, Inbox, InHandOf
  <2>2. Fifo!Shut
    BY <1>4, <2>1 DEF CloseQueue, poolVars, Fifo!Shut
  <2> QED
    BY <2>2 DEF FifoStep, Fifo!Next
<1>5. CASE Exit \/ Crash
  <2>1. \A w \in Workers : InHandOf(w)' = None
    BY <1>5, NoneAssumption DEF Exit, Crash, LoseMemory, InHandOf
  <2>2. Fifo!Init'
    BY <1>5, <2>1 DEF Exit, Crash, LoseMemory, Outbox, Inbox, Fifo!Init
  <2>3. Stops
    BY <1>5 DEF Exit, Crash, Stops
  <2> QED
    BY <2>2, <2>3 DEF FifoStep
<1> QED
  BY <1>1, <1>2, <1>3, <1>4, <1>5 DEF Scheduler, Process

\* Between two stops the process uses its queue as FifoQueue, which JobQueue implements:
\* the queue of this model is the one that has been proved of the mutex and the channel.
THEOREM LifecycleUsesFifo == Spec => QueueIsFifo
<1>1. Init => Fifo!Init
  <2> SUFFICES ASSUME Init PROVE Fifo!Init
    OBVIOUS
  <2>1. \A w \in Workers : InHandOf(w) = None
    BY NoneAssumption DEF Init, FreshProcess, InHandOf
  <2> QED
    BY <2>1 DEF Init, FreshProcess, Outbox, Inbox, Fifo!Init
<1>2. TypedState /\ Owned /\ ActiveState /\ [Next]_vars => FifoStep
  <2>1. UNCHANGED vars => FifoStep
    BY FifoUntouched DEF vars, poolVars, mainVars
  <2> QED
    BY <2>1, FifoApi, FifoPool, FifoRest DEF Next
<1>3. TypedState /\ Owned /\ ActiveState /\ [Next]_vars => [FifoStep]_vars
  BY <1>2
<1> QED
  BY <1>1, <1>3, OwnedInvariant, PTL DEF Spec, QueueIsFifo

-----------------------------------------------------------------------------
(* The contract of one job *)

\* What JobContract sees of a job, wherever it is written down.
Fields(job) == [status |-> job.status, retries |-> job.retries, limit |-> job.limit]

\* A retry that has read a failed row has the job in hand as it read it, with a new count.
CopyOf(t) ==
    IF stage[t] = "retrying" THEN [Fields(copy[t]) EXCEPT !.status = "failed"] ELSE Fields(copy[t])

RowOf(i) == IF rows[i] = None THEN {} ELSE {Fields(rows[i])}

CopiesOf(i) == {t \in Tasks : stage[t] # "free" /\ of[t] = i}
HandOf(i) == (IF snapshot[i] = None THEN {} ELSE {Fields(snapshot[i])})
                 \union {CopyOf(t) : t \in CopiesOf(i)}

Contract(i) == INSTANCE JobContract WITH
    Limits <- {LimitOf(r) : r \in Requested} \union {SeededLimit},
    known <- i \in used,
    row <- RowOf(i),
    hand <- HandOf(i)

ContractStep(i) == Contract(i)!Next \/ UNCHANGED Contract(i)!contractVars

\* While no write has failed and no retry requests overlap, every step of the process is, for
\* each job, a step the contract allows, or nothing to it.
KeepsContract ==
    /\ \A i \in Ids : Contract(i)!Init
    /\ [][\A i \in Ids : Undisturbed' => ContractStep(i)]_vars

\* The scheduler reads scheduled rows only.
ReadAsScheduled == \A i \in Ids : snapshot[i] # None => snapshot[i].status = "scheduled"

LEMMA FieldsExcept ==
  ASSUME NEW j \in Job, NEW s, NEW w
  PROVE  /\ Fields([j EXCEPT !.status = s]) = [Fields(j) EXCEPT !.status = s]
         /\ Fields([j EXCEPT !.status = s, !.worker = w]) = [Fields(j) EXCEPT !.status = s]
         /\ Fields([j EXCEPT !.status = s, !.ended = TRUE]) = [Fields(j) EXCEPT !.status = s]
         /\ Fields([j EXCEPT !.status = s, !.error = TRUE, !.ended = TRUE]) = [Fields(j) EXCEPT !.status = s]
  BY DEF Fields, Job

-----------------------------------------------------------------------------
(* What the steps the actions are made of do to a job in hand *)

LEMMA HandSame ==
  ASSUME NEW i \in Ids, snapshot'[i] = snapshot[i], CopiesOf(i)' = CopiesOf(i),
         \A u \in CopiesOf(i) : CopyOf(u)' = CopyOf(u)
  PROVE  HandOf(i)' = HandOf(i)
  BY DEF HandOf

LEMMA HandUntouched ==
  ASSUME NEW i \in Ids, snapshot'[i] = snapshot[i], UNCHANGED taskVars
  PROVE  HandOf(i)' = HandOf(i)
<1>1. CopiesOf(i)' = CopiesOf(i) /\ \A u \in CopiesOf(i) : CopyOf(u)' = CopyOf(u)
  BY DEF CopiesOf, CopyOf, taskVars
<1> QED
  BY <1>1, HandSame

\* The only copy of a job that has one is all there is in hand of it.
LEMMA HandOfCopy ==
  ASSUME TypedState, Coherent, NEW t \in Tasks, NEW i \in Ids, stage[t] # "free", of[t] = i
  PROVE  /\ snapshot[i] = None /\ CopiesOf(i) = {t} /\ HandOf(i) = {CopyOf(t)}
<1>1. snapshot[i] = None
  BY DEF Coherent, Pending, NoCopy
<1>2. CopiesOf(i) = {t}
  BY DEF CopiesOf, Coherent, Apart
<1> QED
  BY <1>1, <1>2 DEF HandOf

LEMMA HandMove ==
  ASSUME TypedState, Coherent, NEW t \in Tasks, NEW job, NEW where, NEW w, Move(t, job, where, w),
         stage[t] # "free", where \notin {"free", "retrying"}, snapshot' = snapshot,
         NEW i \in Ids, of[t] = i
  PROVE  /\ HandOf(i) = {CopyOf(t)}
         /\ HandOf(i)' = {Fields(job)}
         /\ \A k \in Ids : k # i => HandOf(k)' = HandOf(k)
<1>1. /\ of' = of /\ stage'[t] = where /\ copy'[t] = job
      /\ \A u \in Tasks : u # t => stage'[u] = stage[u] /\ copy'[u] = copy[u]
  BY DEF TypedState, TypeOK, Move
<1>2. snapshot[i] = None /\ CopiesOf(i) = {t} /\ HandOf(i) = {CopyOf(t)}
  BY HandOfCopy
<1>3. \A k \in Ids : CopiesOf(k)' = CopiesOf(k)
  BY <1>1 DEF CopiesOf
<1>4. CopyOf(t)' = Fields(job)
  BY <1>1 DEF CopyOf, Fields
<1>5. HandOf(i)' = {Fields(job)}
  BY <1>2, <1>3, <1>4 DEF HandOf
<1>6. ASSUME NEW k \in Ids, k # i PROVE HandOf(k)' = HandOf(k)
  <2>1. \A u \in CopiesOf(k) : CopyOf(u)' = CopyOf(u)
    BY <1>1, <1>6 DEF CopiesOf, CopyOf, Fields
  <2> QED
    BY <1>3, <2>1, HandSame
<1> QED
  BY <1>2, <1>5, <1>6

LEMMA HandForget ==
  ASSUME TypedState, Coherent, NEW t \in Tasks, Forget(t), stage[t] # "free", snapshot' = snapshot,
         NEW i \in Ids, of[t] = i
  PROVE  /\ HandOf(i) = {CopyOf(t)}
         /\ HandOf(i)' = {}
         /\ \A k \in Ids : k # i => HandOf(k)' = HandOf(k)
<1>1. /\ stage'[t] = "free"
      /\ \A u \in Tasks : u # t => stage'[u] = stage[u] /\ copy'[u] = copy[u] /\ of'[u] = of[u]
  BY DEF TypedState, TypeOK, Forget
<1>2. snapshot[i] = None /\ CopiesOf(i) = {t} /\ HandOf(i) = {CopyOf(t)}
  BY HandOfCopy
<1>3. CopiesOf(i)' = {}
  BY <1>1, <1>2 DEF CopiesOf
<1>4. HandOf(i)' = {}
  BY <1>2, <1>3 DEF HandOf
<1>5. ASSUME NEW k \in Ids, k # i PROVE HandOf(k)' = HandOf(k)
  <2>1. CopiesOf(k)' = CopiesOf(k) /\ \A u \in CopiesOf(k) : CopyOf(u)' = CopyOf(u)
    BY <1>1, <1>5 DEF CopiesOf, CopyOf, Fields
  <2> QED
    BY <2>1, HandSame
<1> QED
  BY <1>2, <1>4, <1>5

LEMMA HandBegin ==
  ASSUME TypedState, NEW t \in Tasks, NEW i \in Ids, NEW job, NEW where, Begin(t, i, job, where),
         where # "free", NoCopy(i), snapshot'[i] = None,
         \A k \in Ids : k # i => snapshot'[k] = snapshot[k]
  PROVE  /\ HandOf(i) = IF snapshot[i] = None THEN {} ELSE {Fields(snapshot[i])}
         /\ HandOf(i)' = {IF where = "retrying" THEN [Fields(job) EXCEPT !.status = "failed"] ELSE Fields(job)}
         /\ \A k \in Ids : k # i => HandOf(k)' = HandOf(k)
<1>1. /\ stage[t] = "free" /\ stage'[t] = where /\ copy'[t] = job /\ of'[t] = i
      /\ \A u \in Tasks : u # t => stage'[u] = stage[u] /\ copy'[u] = copy[u] /\ of'[u] = of[u]
  BY DEF TypedState, TypeOK, Begin
<1>2. CopiesOf(i) = {} /\ CopiesOf(i)' = {t}
  BY <1>1 DEF CopiesOf, NoCopy
<1>3. HandOf(i) = IF snapshot[i] = None THEN {} ELSE {Fields(snapshot[i])}
  BY <1>2 DEF HandOf
<1>4. CopyOf(t)' = IF where = "retrying" THEN [Fields(job) EXCEPT !.status = "failed"] ELSE Fields(job)
  BY <1>1 DEF CopyOf, Fields
<1>5. HandOf(i)' = {CopyOf(t)'}
  BY <1>2 DEF HandOf
<1>6. ASSUME NEW k \in Ids, k # i PROVE HandOf(k)' = HandOf(k)
  <2>1. CopiesOf(k)' = CopiesOf(k) /\ \A u \in CopiesOf(k) : CopyOf(u)' = CopyOf(u)
    BY <1>1, <1>6 DEF CopiesOf, CopyOf, Fields
  <2> QED
    BY <1>6, <2>1, HandSame
<1> QED
  BY <1>3, <1>4, <1>5, <1>6

LEMMA HandEmpty ==
  ASSUME NEW i \in Ids, NoCopy(i), snapshot[i] = None
  PROVE  HandOf(i) = {}
<1>1. CopiesOf(i) = {}
  BY DEF CopiesOf, NoCopy
<1> QED
  BY <1>1 DEF HandOf

\* What is written is what the row says.
LEMMA RowWritten ==
  ASSUME TypedState, NEW i \in Ids, NEW job \in Job, rows' = [rows EXCEPT ![i] = job]
  PROVE  RowOf(i)' = {Fields(job)} /\ \A k \in Ids : k # i => RowOf(k)' = RowOf(k)
  BY NoJobAssumption DEF TypedState, TypeOK, RowOf

-----------------------------------------------------------------------------
(* Steps of the contract *)

\* A step that is about another job.
LEMMA OtherStep ==
  ASSUME NEW i \in Ids, RowOf(i)' = RowOf(i), HandOf(i)' = HandOf(i), (i \in used') <=> (i \in used)
  PROVE  ContractStep(i)
  BY DEF ContractStep, Contract!contractVars

LEMMA QuietContract ==
  ASSUME rows' = rows, snapshot' = snapshot, used' = used, UNCHANGED taskVars
  PROVE  \A i \in Ids : ContractStep(i)
<1> TAKE i \in Ids
<1>1. HandOf(i)' = HandOf(i)
  BY HandUntouched
<1> QED
  BY <1>1, OtherStep DEF RowOf

\* The copy moves on as it is, and the row stays.
LEMMA MoveOn ==
  ASSUME TypedState, Coherent, NEW t \in Tasks, NEW job, NEW where, NEW w,
         Move(t, job, where, w), job = copy[t],
         stage[t] \notin {"free", "retrying"}, where \notin {"free", "retrying"},
         rows' = rows, snapshot' = snapshot, used' = used
  PROVE  \A i \in Ids : ContractStep(i)
<1> TAKE i \in Ids
<1>1. PICK k \in Ids : of[t] = k
  BY DEF TypedState, TypeOK, CopiesInUse
<1>2. /\ HandOf(k) = {CopyOf(t)} /\ HandOf(k)' = {Fields(job)}
      /\ \A j \in Ids : j # k => HandOf(j)' = HandOf(j)
  BY <1>1, HandMove
<1>3. HandOf(i)' = HandOf(i)
  BY <1>2 DEF CopyOf
<1> QED
  BY <1>3, OtherStep DEF RowOf

\* The copy is changed, written, and moves on.
LEMMA WriteStep ==
  ASSUME TypedState, Coherent, NEW t \in Tasks, NEW job \in Job, NEW where, NEW w,
         Move(t, job, where, w), Save(of[t], job), faults' = 0,
         stage[t] # "free", where \notin {"free", "retrying"},
         snapshot' = snapshot, used' = used,
         \/ /\ CopyOf(t).status = "failed" /\ Fields(job) = [CopyOf(t) EXCEPT !.status = "queued"]
         \/ /\ CopyOf(t).status = "queued" /\ Fields(job) = [CopyOf(t) EXCEPT !.status = "running"]
         \/ /\ CopyOf(t).status = "running" /\ CopyOf(t).retries < CopyOf(t).limit
            /\ Fields(job) = [CopyOf(t) EXCEPT !.status = "queued", !.retries = @ + 1]
  PROVE  \A i \in Ids : ContractStep(i)
<1> TAKE i \in Ids
<1>0. PICK k \in Ids : of[t] = k
  BY DEF TypedState, TypeOK, CopiesInUse
<1>1. /\ HandOf(k) = {CopyOf(t)}
      /\ HandOf(k)' = {Fields(job)}
      /\ \A j \in Ids : j # k => HandOf(j)' = HandOf(j)
  BY <1>0, HandMove
<1>2. RowOf(k)' = {Fields(job)} /\ \A j \in Ids : j # k => RowOf(j)' = RowOf(j)
  <2>1. rows' = [rows EXCEPT ![k] = job]
    BY <1>0, SaveWorks DEF TypedState
  <2> QED
    BY <2>1, RowWritten
<1>3. CASE i # k
  BY <1>1, <1>2, <1>3, OtherStep
<1>4. CASE i = k
  <2> DEFINE c == CopyOf(t)
  <2>1. HandOf(i) = {c} /\ RowOf(i)' = {Fields(job)} /\ HandOf(i)' = RowOf(i)' /\ used' = used
    BY <1>1, <1>2, <1>4
  <2>2. CASE c.status = "failed" /\ Fields(job) = [c EXCEPT !.status = "queued"]
    BY <2>1, <2>2 DEF Contract!Queue, ContractStep, Contract!Next
  <2>3. CASE c.status = "queued" /\ Fields(job) = [c EXCEPT !.status = "running"]
    BY <2>1, <2>3 DEF Contract!Start, ContractStep, Contract!Next
  <2>4. CASE /\ c.status = "running" /\ c.retries < c.limit
             /\ Fields(job) = [c EXCEPT !.status = "queued", !.retries = @ + 1]
    BY <2>1, <2>4 DEF Contract!Requeue, ContractStep, Contract!Next
  <2> QED
    BY <2>2, <2>3, <2>4
<1> QED
  BY <1>3, <1>4

\* The copy has ended, is written, and nobody has it any more.
LEMMA EndStep ==
  ASSUME TypedState, Coherent, NEW t \in Tasks, NEW job \in Job,
         Forget(t), Save(of[t], job), faults' = 0, stage[t] = "executing",
         snapshot' = snapshot, used' = used,
         \/ Fields(job) = [Fields(copy[t]) EXCEPT !.status = "completed"]
         \/ /\ copy[t].retries >= copy[t].limit
            /\ Fields(job) = [Fields(copy[t]) EXCEPT !.status = "failed"]
  PROVE  \A i \in Ids : ContractStep(i)
<1> TAKE i \in Ids
<1>0. PICK k \in Ids : of[t] = k
  BY DEF TypedState, TypeOK, CopiesInUse
<1>1. /\ HandOf(k) = {CopyOf(t)}
      /\ HandOf(k)' = {}
      /\ \A j \in Ids : j # k => HandOf(j)' = HandOf(j)
  BY <1>0, HandForget
<1>2. RowOf(k)' = {Fields(job)} /\ \A j \in Ids : j # k => RowOf(j)' = RowOf(j)
  <2>1. rows' = [rows EXCEPT ![k] = job]
    BY <1>0, SaveWorks DEF TypedState
  <2> QED
    BY <2>1, RowWritten
<1>3. CASE i # k
  BY <1>1, <1>2, <1>3, OtherStep
<1>4. CASE i = k
  <2> DEFINE c == Fields(copy[t])
  <2>1. /\ HandOf(i) = {c} /\ RowOf(i)' = {Fields(job)} /\ HandOf(i)' = {} /\ used' = used
        /\ c.status = "running" /\ c.retries = copy[t].retries /\ c.limit = copy[t].limit
    BY <1>1, <1>2, <1>4 DEF CopyOf, Fields, Coherent, Agree, Says
  <2>2. CASE Fields(job) = [c EXCEPT !.status = "completed"]
    BY <2>1, <2>2 DEF Contract!Complete, ContractStep, Contract!Next
  <2>3. CASE copy[t].retries >= copy[t].limit /\ Fields(job) = [c EXCEPT !.status = "failed"]
    <3> HIDE DEF c
    <3> QED
      BY <2>1, <2>3 DEF Contract!Fail, ContractStep, Contract!Next
  <2> QED
    BY <2>2, <2>3
<1> QED
  BY <1>3, <1>4

\* The copy is dropped without a word.
LEMMA LoseStep ==
  ASSUME TypedState, Coherent, NEW t \in Tasks, Forget(t), stage[t] # "free",
         rows' = rows, snapshot' = snapshot, used' = used
  PROVE  \A i \in Ids : ContractStep(i)
<1> TAKE i \in Ids
<1>0. PICK k \in Ids : of[t] = k
  BY DEF TypedState, TypeOK, CopiesInUse
<1>1. /\ HandOf(k) = {CopyOf(t)}
      /\ HandOf(k)' = {}
      /\ \A j \in Ids : j # k => HandOf(j)' = HandOf(j)
  BY <1>0, HandForget
<1>2. RowOf(i)' = RowOf(i)
  BY DEF RowOf
<1>3. CASE i # k
  BY <1>1, <1>2, <1>3, OtherStep
<1>4. CASE i = k
  BY <1>1, <1>2, <1>4 DEF Contract!Lose, ContractStep, Contract!Next
<1> QED
  BY <1>3, <1>4

-----------------------------------------------------------------------------
LEMMA ContractApi ==
  ASSUME TypedState, Coherent, RetryRequests <= 1, Api, faults' = 0
  PROVE  \A i \in Ids : ContractStep(i)
<1>0. TypeOK /\ CopiesInUse
  BY DEF TypedState
<1>1. ASSUME NEW t \in Tasks, NEW k \in Ids, NEW r \in Requested,
             NEW s \in {"queued", "scheduled"}, CreateJob(t, k, r, s) \/ SeedJob(t, k, r, s)
      PROVE  \A i \in Ids : ContractStep(i)
  <2> DEFINE job == NewJob(s, LimitOf(r))
  <2>1. /\ faults = 0 /\ k \notin used /\ used' = used \union {k}
        /\ rows' = [rows EXCEPT ![k] = job] /\ snapshot' = snapshot
        /\ IF s = "queued" THEN Begin(t, k, job, "sending") ELSE UNCHANGED taskVars
    BY <1>0, <1>1, SaveWorks DEF CreateJob, SeedJob, schedVars
  <2>2. NoCopy(k) /\ snapshot[k] = None
    BY <2>1, UnusedIsFree
  <2>3. job \in Job /\ Fields(job) = Contract(k)!New(s, LimitOf(r))
    BY LimitType, NewJobType DEF Status, Fields, NewJob, Contract!New
  <2> HIDE DEF job
  <2>4. RowOf(k)' = {Fields(job)} /\ \A j \in Ids : j # k => RowOf(j)' = RowOf(j)
    BY <2>1, <2>3, RowWritten
  <2>5. /\ HandOf(k)' = IF s = "queued" THEN {Fields(job)} ELSE {}
        /\ \A j \in Ids : j # k => HandOf(j)' = HandOf(j)
    <3>1. CASE s = "queued"
      BY <2>1, <2>2, <3>1, HandBegin
    <3>2. CASE s # "queued"
      BY <2>1, <2>2, <3>2, HandUntouched, HandEmpty
    <3> QED
      BY <3>1, <3>2
  <2>6. Contract(k)!Create(s, LimitOf(r))
    BY <2>1, <2>3, <2>4, <2>5 DEF Contract!Create
  <2> TAKE i \in Ids
  <2>7. CASE i # k
    BY <2>1, <2>4, <2>5, <2>7, OtherStep
  <2>8. CASE i = k
    BY <2>6, <2>8 DEF ContractStep, Contract!Next
  <2> QED
    BY <2>7, <2>8
<1>2. ASSUME NEW t \in Tasks, NEW k \in Ids, RetryLoad(t, k)
      PROVE  \A i \in Ids : ContractStep(i)
  <2> DEFINE job == NewJob("queued", rows[k].limit)
  <2>1. /\ Begin(t, k, job, "retrying") /\ Is(k, "failed")
        /\ rows' = rows /\ used' = used /\ snapshot' = snapshot
        /\ Cardinality({u \in Tasks : stage[u] = "retrying"}) < RetryRequests
    BY <1>2 DEF RetryLoad, rowVars, schedVars
  <2>2. NoCopy(k) /\ snapshot[k] = None
    <3>1. \A u \in Tasks : stage[u] # "retrying"
      <4>1. SUFFICES ASSUME NEW u \in Tasks, stage[u] = "retrying" PROVE FALSE
        OBVIOUS
      <4>2. {v \in Tasks : stage[v] = "retrying"} = {u}
        BY <4>1 DEF Coherent, OneRetry
      <4>3. Cardinality({u}) = 1
        BY FS_Singleton
      <4> QED
        BY <2>1, <4>2, <4>3, BoundAssumption
    <3>2. NoCopy(k)
      BY <2>1, <3>1 DEF Coherent, Agree, Says, NoCopy, Is, Exists
    <3>3. snapshot[k] = None
      BY <2>1 DEF Coherent, Pending, Is, Exists
    <3> QED
      BY <3>2, <3>3
  <2>3. rows[k] \in Job /\ rows[k].status = "failed" /\ rows[k] # None
    BY <1>0, <2>1 DEF TypeOK, Is, Exists
  <2>4. [Fields(job) EXCEPT !.status = "failed"] = [Fields(rows[k]) EXCEPT !.retries = 0]
    BY <2>3 DEF Fields, NewJob
  <2>5. Fields(rows[k]).status = "failed"
    BY <2>3 DEF Fields
  <2> HIDE DEF job
  <2>6. /\ HandOf(k) = {} /\ HandOf(k)' = {[Fields(rows[k]) EXCEPT !.retries = 0]}
        /\ \A j \in Ids : j # k => HandOf(j)' = HandOf(j)
    BY <2>1, <2>2, <2>4, HandBegin
  <2>7. RowOf(k) = {Fields(rows[k])} /\ \A j \in Ids : RowOf(j)' = RowOf(j)
    BY <2>1, <2>3 DEF RowOf
  <2>8. Contract(k)!Retry
    BY <2>1, <2>5, <2>6, <2>7 DEF Contract!Retry
  <2> TAKE i \in Ids
  <2>9. CASE i # k
    BY <2>1, <2>6, <2>7, <2>9, OtherStep
  <2>10. CASE i = k
    BY <2>8, <2>10 DEF ContractStep, Contract!Next
  <2> QED
    BY <2>9, <2>10
<1>3. ASSUME NEW t \in Tasks, RetrySave(t)
      PROVE  \A i \in Ids : ContractStep(i)
  <2>1. PICK job : /\ job = copy[t] /\ Move(t, job, "sending", None) /\ Save(of[t], job)
    BY <1>3 DEF RetrySave
  <2>2. /\ stage[t] = "retrying" /\ copy[t] \in Job /\ copy[t].status = "queued"
        /\ snapshot' = snapshot /\ used' = used
    BY <1>0, <1>3 DEF RetrySave, schedVars, CopiesInUse, Coherent, Agree, Says
  <2>3. CopyOf(t) = [Fields(job) EXCEPT !.status = "failed"]
    BY <2>1, <2>2 DEF CopyOf
  <2>4. CopyOf(t).status = "failed" /\ Fields(job) = [CopyOf(t) EXCEPT !.status = "queued"]
    <3>1. CopyOf(t) = [status |-> "failed", retries |-> job.retries, limit |-> job.limit]
      BY <2>3 DEF Fields
    <3>2. Fields(job) = [status |-> "queued", retries |-> job.retries, limit |-> job.limit]
      BY <2>1, <2>2 DEF Fields
    <3>3. [[status |-> "failed", retries |-> job.retries, limit |-> job.limit] EXCEPT !.status = "queued"]
            = [status |-> "queued", retries |-> job.retries, limit |-> job.limit]
      OBVIOUS
    <3> QED
      BY <3>1, <3>2, <3>3
  <2>5. stage[t] # "free" /\ "sending" \notin {"free", "retrying"} /\ job \in Job
    BY <2>1, <2>2
  <2>6. snapshot' = snapshot /\ used' = used
    BY <2>2
  <2> QED
    BY <2>1, <2>4, <2>5, <2>6, WriteStep
<1>4. ASSUME NEW k \in Ids, DeleteJob(k)
      PROVE  \A i \in Ids : ContractStep(i)
  <2>1. /\ rows[k] # None /\ rows' = [rows EXCEPT ![k] = None] /\ used' = used
        /\ snapshot' = snapshot /\ UNCHANGED taskVars
    BY <1>4 DEF DeleteJob, Exists, schedVars
  <2>2. /\ RowOf(k) # {} /\ RowOf(k)' = {}
        /\ \A j \in Ids : j # k => RowOf(j)' = RowOf(j)
    BY <1>0, <2>1 DEF RowOf, TypeOK
  <2>3. \A j \in Ids : HandOf(j)' = HandOf(j)
    BY <2>1, HandUntouched
  <2> TAKE i \in Ids
  <2>4. CASE i # k
    BY <2>1, <2>2, <2>3, <2>4, OtherStep
  <2>5. CASE i = k
    BY <2>1, <2>2, <2>3, <2>5 DEF Contract!Delete, ContractStep, Contract!Next
  <2> QED
    BY <2>4, <2>5
<1>5. CASE StartSeeding
  BY <1>5, QuietContract DEF StartSeeding, rowVars, schedVars
<1> QED
  BY <1>1, <1>2, <1>3, <1>4, <1>5 DEF Api

LEMMA ContractPool ==
  ASSUME TypedState, Coherent, Pool, faults' = 0
  PROVE  \A i \in Ids : ContractStep(i)
<1>0. TypeOK /\ CopiesInUse /\ QueueShape
  BY DEF TypedState
<1>1. ASSUME NEW t \in Tasks, Accept(t) \/ FireTimer(t) PROVE \A i \in Ids : ContractStep(i)
  <2>1. PICK job, where : /\ job = copy[t] /\ where \in {"waiting", "sending"}
                          /\ Move(t, job, where, None)
    BY <1>1 DEF Accept, FireTimer
  <2>2. /\ stage[t] \notin {"free", "retrying"}
        /\ rows' = rows /\ snapshot' = snapshot /\ used' = used
    BY <1>1 DEF Accept, FireTimer, rowVars, schedVars
  <2> QED
    BY <2>1, <2>2, MoveOn
<1>3. ASSUME NEW w \in Workers, Dequeue(w) PROVE \A i \in Ids : ContractStep(i)
  <2>1. PICK t \in Tasks : t = Head(queue) /\ stage[t] = "waiting"
    BY <1>0, <1>3 DEF Dequeue, TypeOK, QueueShape
  <2>2. PICK job : job = copy[t] /\ Move(t, job, "taken", w)
    BY <1>3, <2>1 DEF Dequeue
  <2>3. rows' = rows /\ snapshot' = snapshot /\ used' = used
    BY <1>3 DEF Dequeue, rowVars, schedVars
  <2>4. stage[t] \notin {"free", "retrying"} /\ "taken" \notin {"free", "retrying"}
    BY <2>1
  <2> QED
    BY <2>2, <2>3, <2>4, MoveOn
<1>4. ASSUME NEW t \in Tasks, Drop(t) \/ CancelTimer(t) PROVE \A i \in Ids : ContractStep(i)
  BY <1>4, LoseStep DEF Drop, CancelTimer, rowVars, schedVars
<1>5. ASSUME NEW t \in Tasks, StartJob(t) PROVE \A i \in Ids : ContractStep(i)
  <2>1. stage[t] = "taken" /\ copy[t] \in Job /\ copy[t].status = "queued"
    BY <1>0, <1>5 DEF StartJob, CopiesInUse, Coherent, Agree, Says
  <2>2. PICK job, w : /\ w = by[t] /\ job = [copy[t] EXCEPT !.status = "running", !.worker = w]
                      /\ Save(of[t], job) /\ Move(t, job, "executing", w)
    BY <1>5 DEF StartJob
  <2>3. job \in Job
    BY <1>0, <2>1, <2>2 DEF Job, Status, TypeOK
  <2>4. CopyOf(t).status = "queued" /\ Fields(job) = [CopyOf(t) EXCEPT !.status = "running"]
    BY <2>1, <2>2, FieldsExcept DEF CopyOf, Fields
  <2>5. snapshot' = snapshot /\ used' = used
    BY <1>5 DEF StartJob, schedVars
  <2>6. stage[t] # "free" /\ "executing" \notin {"free", "retrying"}
    BY <2>1
  <2> QED
    BY <2>2, <2>3, <2>4, <2>5, <2>6, WriteStep
<1>6. ASSUME NEW t \in Tasks, RequeueJob(t) PROVE \A i \in Ids : ContractStep(i)
  <2>1. /\ stage[t] = "executing" /\ copy[t] \in Job /\ copy[t].status = "running"
        /\ copy[t].retries < copy[t].limit /\ copy[t].retries \in Nat
    BY <1>0, <1>6 DEF RequeueJob, CopiesInUse, Coherent, Agree, Says, Job
  <2>2. PICK n \in Nat : n = copy[t].retries + 1
    BY <2>1
  <2>3. PICK job : /\ job = [copy[t] EXCEPT !.status = "queued", !.retries = n, !.worker = None,
                                            !.error = TRUE, !.ended = TRUE]
                   /\ Save(of[t], job) /\ Move(t, job, "backoff", None)
    BY <1>6, <2>2 DEF RequeueJob
  <2>4. job \in Job
    BY <2>1, <2>3, RequeuedType
  <2>5. job.status = "queued" /\ job.retries = n /\ job.limit = copy[t].limit
    BY <2>1, <2>3 DEF Job
  <2>6. CopyOf(t) = Fields(copy[t])
    BY <2>1 DEF CopyOf
  <2>7. /\ CopyOf(t).status = "running" /\ CopyOf(t).retries < CopyOf(t).limit
        /\ CopyOf(t).retries + 1 = n
    BY <2>1, <2>2, <2>6 DEF Fields
  <2>8. Fields(job) = [CopyOf(t) EXCEPT !.status = "queued", !.retries = n]
    <3>1. [Fields(copy[t]) EXCEPT !.status = "queued"]
            = [status |-> "queued", retries |-> copy[t].retries, limit |-> copy[t].limit]
      BY DEF Fields
    <3>2. [[status |-> "queued", retries |-> copy[t].retries, limit |-> copy[t].limit]
              EXCEPT !.retries = n] = Fields(job)
      BY <2>5 DEF Fields
    <3> QED
      BY <2>6, <3>1, <3>2, Zenon
  <2>9. Fields(job) = [CopyOf(t) EXCEPT !.status = "queued", !.retries = @ + 1]
    BY <2>7, <2>8
  <2>10. snapshot' = snapshot /\ used' = used
    BY <1>6 DEF RequeueJob, schedVars
  <2> QED
    BY <2>1, <2>3, <2>4, <2>7, <2>9, <2>10, WriteStep
<1>7. ASSUME NEW t \in Tasks, CompleteJob(t) PROVE \A i \in Ids : ContractStep(i)
  <2>1. stage[t] = "executing" /\ copy[t] \in Job
    BY <1>0, <1>7 DEF CompleteJob, CopiesInUse
  <2>2. PICK job : /\ job = [copy[t] EXCEPT !.status = "completed", !.ended = TRUE]
                   /\ Save(of[t], job)
    BY <1>7 DEF CompleteJob
  <2>3. job \in Job /\ Fields(job) = [Fields(copy[t]) EXCEPT !.status = "completed"]
    BY <2>1, <2>2, FieldsExcept DEF Job, Status
  <2>4. Forget(t) /\ snapshot' = snapshot /\ used' = used
    BY <1>7 DEF CompleteJob, schedVars
  <2> QED
    BY <2>1, <2>2, <2>3, <2>4, EndStep
<1>8. ASSUME NEW t \in Tasks, FailJob(t) PROVE \A i \in Ids : ContractStep(i)
  <2>1. stage[t] = "executing" /\ copy[t] \in Job /\ copy[t].retries >= copy[t].limit
    BY <1>0, <1>8 DEF FailJob, CopiesInUse
  <2>2. PICK job : /\ job = [copy[t] EXCEPT !.status = "failed", !.error = TRUE, !.ended = TRUE]
                   /\ Save(of[t], job)
    BY <1>8 DEF FailJob
  <2>3. job \in Job /\ Fields(job) = [Fields(copy[t]) EXCEPT !.status = "failed"]
    BY <2>1, <2>2, FieldsExcept DEF Job, Status
  <2>4. Forget(t) /\ snapshot' = snapshot /\ used' = used
    BY <1>8 DEF FailJob, schedVars
  <2> QED
    BY <2>1, <2>2, <2>3, <2>4, EndStep
<1>9. ASSUME NEW w \in Workers, LeaveJob(w) \/ ExitWorker(w) PROVE \A i \in Ids : ContractStep(i)
  BY <1>9, QuietContract DEF LeaveJob, ExitWorker, rowVars, schedVars
<1> QED
  BY <1>1, <1>3, <1>4, <1>5, <1>6, <1>7, <1>8, <1>9 DEF Pool

LEMMA ContractScheduler ==
  ASSUME TypedState, Coherent, ReadAsScheduled, Scheduler, faults' = 0
  PROVE  \A i \in Ids : ContractStep(i)
<1>0. TypeOK /\ CopiesInUse
  BY DEF TypedState
<1>1. ASSUME NEW k \in Ids, SeedMonitoringJob(k) PROVE \A i \in Ids : ContractStep(i)
  <2> DEFINE job == NewJob("scheduled", SeededLimit)
  <2>1. /\ k \notin used /\ used' = used \union {k}
        /\ rows' = [rows EXCEPT ![k] = job] /\ snapshot' = snapshot /\ UNCHANGED taskVars
    BY <1>0, <1>1, SaveWorks DEF SeedMonitoringJob
  <2>2. NoCopy(k) /\ snapshot[k] = None
    BY <2>1, UnusedIsFree
  <2>3. job \in Job /\ Fields(job) = Contract(k)!New("scheduled", SeededLimit)
    BY LimitAssumption, NewJobType DEF Status, Fields, NewJob, Contract!New
  <2> HIDE DEF job
  <2>4. RowOf(k)' = {Fields(job)} /\ \A j \in Ids : j # k => RowOf(j)' = RowOf(j)
    BY <2>1, <2>3, RowWritten
  <2>5. HandOf(k)' = {} /\ \A j \in Ids : j # k => HandOf(j)' = HandOf(j)
    BY <2>1, <2>2, HandUntouched, HandEmpty
  <2>6. Contract(k)!Create("scheduled", SeededLimit)
    BY <2>1, <2>3, <2>4, <2>5 DEF Contract!Create
  <2> TAKE i \in Ids
  <2>7. CASE i # k
    BY <2>1, <2>4, <2>5, <2>7, OtherStep
  <2>8. CASE i = k
    BY <2>6, <2>8 DEF ContractStep, Contract!Next
  <2> QED
    BY <2>7, <2>8
<1>2. CASE SkipMonitoringJob \/ StopScheduler \/ \E k \in Ids : ComeDue(k)
  BY <1>2, QuietContract DEF SkipMonitoringJob, StopScheduler, ComeDue, rowVars, schedVars
<1>3. CASE Poll
  <2>1. /\ snapshot' = [i \in Ids |-> IF Due(i) THEN rows[i] ELSE None]
        /\ rows' = rows /\ used' = used /\ UNCHANGED taskVars
        /\ \A i \in Ids : snapshot[i] = None
    BY <1>3 DEF Poll, rowVars, Polled
  <2> TAKE i \in Ids
  <2>2. CASE ~Due(i)
    <3>1. snapshot'[i] = snapshot[i]
      BY <2>1, <2>2
    <3>2. HandOf(i)' = HandOf(i)
      BY <2>1, <3>1, HandUntouched
    <3> QED
      BY <2>1, <3>2, OtherStep DEF RowOf
  <2>3. CASE Due(i)
    <3>1. rows[i] # None /\ rows[i].status = "scheduled" /\ snapshot'[i] = rows[i]
      BY <2>1, <2>3 DEF Due, Is, Exists
    <3>2. NoCopy(i)
      BY <3>1 DEF Coherent, Agree, Says, NoCopy
    <3>3. HandOf(i) = {}
      BY <2>1, <3>2, HandEmpty
    <3>4. CopiesOf(i)' = {}
      BY <2>1, <3>2 DEF CopiesOf, NoCopy, taskVars
    <3>5. HandOf(i)' = {Fields(rows[i])}
      BY <3>1, <3>4 DEF HandOf, Fields
    <3>6. RowOf(i) = {Fields(rows[i])} /\ RowOf(i)' = RowOf(i) /\ Fields(rows[i]).status = "scheduled"
      BY <2>1, <3>1 DEF RowOf, Fields
    <3>7. Contract(i)!Poll
      BY <2>1, <3>3, <3>5, <3>6 DEF Contract!Poll
    <3> QED
      BY <3>7 DEF ContractStep, Contract!Next
  <2> QED
    BY <2>2, <2>3
<1>4. ASSUME NEW t \in Tasks, NEW k \in Ids, Dispatch(t, k) PROVE \A i \in Ids : ContractStep(i)
  <2>1. PICK job : /\ job = [snapshot[k] EXCEPT !.status = "queued"]
                   /\ Begin(t, k, job, "sending") /\ Save(k, job)
    BY <1>4 DEF Dispatch
  <2>2. /\ snapshot' = [snapshot EXCEPT ![k] = None] /\ used' = used
        /\ snapshot[k] # None /\ snapshot[k] \in Job /\ snapshot[k].status = "scheduled"
    BY <1>0, <1>4 DEF Dispatch, ReadAsScheduled, TypeOK
  <2>3. job \in Job /\ Fields(job) = [Fields(snapshot[k]) EXCEPT !.status = "queued"]
    BY <2>1, <2>2, FieldsExcept DEF Job, Status
  <2>4. NoCopy(k) /\ snapshot'[k] = None /\ \A j \in Ids : j # k => snapshot'[j] = snapshot[j]
    BY <1>0, <2>2 DEF Coherent, Pending, TypeOK
  <2>5. /\ HandOf(k) = {Fields(snapshot[k])} /\ HandOf(k)' = {Fields(job)}
        /\ \A j \in Ids : j # k => HandOf(j)' = HandOf(j)
    BY <2>1, <2>2, <2>4, HandBegin
  <2>6. RowOf(k)' = {Fields(job)} /\ \A j \in Ids : j # k => RowOf(j)' = RowOf(j)
    <3>1. rows' = [rows EXCEPT ![k] = job]
      BY <1>0, <2>1, SaveWorks
    <3> QED
      BY <2>3, <3>1, RowWritten
  <2>7. Fields(snapshot[k]).status = "scheduled"
    BY <2>2 DEF Fields
  <2>8. Contract(k)!Queue
    BY <2>2, <2>3, <2>5, <2>6, <2>7 DEF Contract!Queue
  <2> TAKE i \in Ids
  <2>9. CASE i # k
    BY <2>2, <2>5, <2>6, <2>9, OtherStep
  <2>10. CASE i = k
    BY <2>8, <2>10 DEF ContractStep, Contract!Next
  <2> QED
    BY <2>9, <2>10
<1> QED
  BY <1>1, <1>2, <1>3, <1>4 DEF Scheduler

LEMMA ContractProcess ==
  ASSUME TypedState, Process
  PROVE  \A i \in Ids : ContractStep(i)
<1>1. CASE Signal \/ CloseQueue \/ Restart
  BY <1>1, QuietContract DEF Signal, CloseQueue, Restart, rowVars, schedVars
<1>2. CASE Exit \/ Crash
  <2>1. LoseMemory
    BY <1>2 DEF Exit, Crash
  <2> TAKE i \in Ids
  <2>2. rows' = rows /\ used' = used /\ snapshot'[i] = None /\ \A t \in Tasks : stage'[t] = "free"
    BY <2>1 DEF LoseMemory, rowVars
  <2>3. CopiesOf(i)' = {}
    BY <2>2 DEF CopiesOf
  <2>4. HandOf(i)' = {} /\ RowOf(i)' = RowOf(i)
    BY <2>2, <2>3 DEF HandOf, RowOf
  <2>5. CASE HandOf(i) = {}
    BY <2>2, <2>4, <2>5, OtherStep
  <2>6. CASE HandOf(i) # {}
    BY <2>2, <2>4, <2>6 DEF Contract!Lose, ContractStep, Contract!Next
  <2> QED
    BY <2>5, <2>6
<1> QED
  BY <1>1, <1>2 DEF Process

LEMMA ReadAsScheduledNext == ReadAsScheduled /\ [Next]_vars => ReadAsScheduled'
<1> SUFFICES ASSUME ReadAsScheduled, [Next]_vars PROVE ReadAsScheduled'
  OBVIOUS
<1>1. ASSUME \A i \in Ids : snapshot'[i] = snapshot[i] \/ snapshot'[i] = None PROVE ReadAsScheduled'
  BY <1>1 DEF ReadAsScheduled
<1>2. CASE snapshot' = snapshot
  BY <1>1, <1>2
<1>3. CASE Poll
  BY <1>3 DEF Poll, ReadAsScheduled, Due, Is
<1>4. ASSUME NEW t \in Tasks, NEW i \in Ids, Dispatch(t, i) PROVE ReadAsScheduled'
  BY <1>1, <1>4 DEF Dispatch
<1>5. CASE LoseMemory
  BY <1>1, <1>5 DEF LoseMemory
<1>6. CASE Api \/ Pool \/ UNCHANGED vars
  BY <1>2, <1>6
     DEF Api, CreateJob, SeedJob, StartSeeding, RetryLoad, RetrySave, DeleteJob, Pool, Accept, Drop,
         Dequeue, LeaveJob, ExitWorker, StartJob, CompleteJob, RequeueJob, FailJob, FireTimer,
         CancelTimer, schedVars, vars
<1>7. CASE Scheduler
  BY <1>2, <1>3, <1>4, <1>7
     DEF Scheduler, SeedMonitoringJob, ComeDue, SkipMonitoringJob, StopScheduler, schedVars
<1>8. CASE Process
  BY <1>2, <1>5, <1>8 DEF Process, Signal, CloseQueue, Exit, Crash, Restart, schedVars
<1> QED
  BY <1>6, <1>7, <1>8 DEF Next

\* The scheduler, retry requests, the queue, the workers, the timers and the shutdown, any
\* number of each, make of every job what JobContract says, as long as no write has failed and
\* retry requests do not overlap; JobRecords makes the same of its job (RecordsKeepContract).
THEOREM JobsKeepContract == Spec => KeepsContract
<1>1. Init => ReadAsScheduled /\ \A i \in Ids : Contract(i)!Init
  BY DEF Init, FreshProcess, ReadAsScheduled, Contract!Init, RowOf, HandOf, CopiesOf
<1>2. TypedState /\ StatusState /\ ReadAsScheduled /\ [Next]_vars
        => [\A i \in Ids : Undisturbed' => ContractStep(i)]_vars
  <2> SUFFICES ASSUME TypedState, StatusState, ReadAsScheduled, Next, RetryRequests <= 1, faults' = 0
               PROVE  \A i \in Ids : ContractStep(i)
    BY DEF Undisturbed
  <2>1. Coherent
    BY FaultsStay DEF TypedState, StatusState, Undisturbed
  <2> QED
    BY <2>1, ContractApi, ContractPool, ContractScheduler, ContractProcess DEF Next
<1> QED
  BY <1>1, <1>2, ReadAsScheduledNext, TypedInvariant, StatusInvariant, PTL DEF Spec, KeepsContract
=============================================================================
