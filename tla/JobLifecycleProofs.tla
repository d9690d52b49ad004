------------------------- MODULE JobLifecycleProofs -------------------------
(***************************************************************************)
(* What holds of a job's life for any number of jobs, copies and workers,  *)
(* whatever writes fail and however often the process is restarted: types, *)
(* and that no job is lost without a trace.                                *)
(***************************************************************************)
EXTENDS JobLifecycle, TLAPS, SequenceTheorems

-----------------------------------------------------------------------------
(* The inductive invariant *)

\* A copy in use is a copy of a job that was handed out, with all its fields.
CopiesInUse ==
    \A t \in Tasks : IF stage[t] = "free" THEN of[t] = None ELSE of[t] \in used /\ copy[t] \in Job

\* Only identifiers that were handed out have rows, also in the scheduler's memory.
RowsInUse == \A i \in Ids : (rows[i] # None => i \in used) /\ (snapshot[i] # None => i \in used)

\* The queue holds waiting copies, each of them once.
QueueShape ==
    /\ \A k \in 1..Len(queue) : stage[queue[k]] = "waiting"
    /\ \A j, k \in 1..Len(queue) : queue[j] = queue[k] => j = k

TypedState == TypeOK /\ CopiesInUse /\ RowsInUse /\ QueueShape

TaskTypes ==
    /\ stage \in [Tasks -> Stages]
    /\ of \in [Tasks -> Ids \union {None}]
    /\ copy \in [Tasks -> Job \union {None}]
    /\ by \in [Tasks -> Workers \union {None}]

-----------------------------------------------------------------------------
(* Lemmas about the steps the actions are made of *)

\* A new job has all its fields.
LEMMA NewJobType ==
  ASSUME NEW s \in Status, NEW l \in Int
  PROVE  NewJob(s, l) \in Job /\ NewJob(s, l).status = s
  BY DEF NewJob, Job

\* handleFailure makes a job of a job.
LEMMA RequeuedType ==
  ASSUME NEW j \in Job, NEW n \in Nat
  PROVE  [j EXCEPT !.status = "queued", !.retries = n, !.worker = None,
                   !.error = TRUE, !.ended = TRUE] \in Job
<1> DEFINE failed == [j EXCEPT !.status = "queued", !.retries = n, !.worker = None, !.error = TRUE]
<1>1. failed \in Job
  BY DEF Job, Status
<1>2. [failed EXCEPT !.ended = TRUE] \in Job
  <2> HIDE DEF failed
  <2> QED
    BY <1>1 DEF Job
<1>3. [failed EXCEPT !.ended = TRUE]
      = [j EXCEPT !.status = "queued", !.retries = n, !.worker = None, !.error = TRUE, !.ended = TRUE]
  BY Zenon
<1> QED
  BY <1>2, <1>3, Zenon

LEMMA LimitType == \A r \in Requested : LimitOf(r) \in Int
  BY LimitAssumption DEF LimitOf

\* Whether a write succeeds or fails, the rows keep their type, and no other row changes.
LEMMA SaveType ==
  ASSUME TypeOK, NEW i \in Ids, NEW job \in Job, Save(i, job)
  PROVE  /\ rows' \in [Ids -> Job \union {None}]
         /\ faults' \in 0..MaxFaults
         /\ \A k \in Ids : k # i => rows'[k] = rows[k]
         /\ rows'[i] = job \/ (rows'[i] = rows[i] /\ faults' # faults)
  BY BoundAssumption DEF TypeOK, Save

\* Making a copy touches a free task only, so the queue keeps its shape.
LEMMA BeginShape ==
  ASSUME TypedState, NEW t \in Tasks, NEW i \in Ids, NEW job \in Job, NEW where \in Stages \ {"free"},
         Begin(t, i, job, where), i \in used', used \subseteq used', queue' = queue
  PROVE  TaskTypes' /\ CopiesInUse' /\ QueueShape'
  BY DEF TypedState, TypeOK, CopiesInUse, QueueShape, Begin, TaskTypes

\* Moving a copy that is not in the queue keeps the queue's shape.
LEMMA MoveShape ==
  ASSUME TypedState, NEW t \in Tasks, NEW job \in Job, NEW where \in Stages \ {"free"},
         NEW w \in Workers \union {None},
         stage[t] \notin {"free", "waiting"},
         Move(t, job, where, w), used' = used, queue' = queue
  PROVE  TaskTypes' /\ CopiesInUse' /\ QueueShape'
  BY DEF TypedState, TypeOK, CopiesInUse, QueueShape, Move, TaskTypes

\* So does forgetting one.
LEMMA ForgetShape ==
  ASSUME TypedState, NEW t \in Tasks, stage[t] # "waiting", Forget(t), used' = used, queue' = queue
  PROVE  TaskTypes' /\ CopiesInUse' /\ QueueShape'
  BY DEF TypedState, TypeOK, CopiesInUse, QueueShape, Forget, TaskTypes, Stages

\* Nothing about the copies changes.
LEMMA SameShape ==
  ASSUME TypedState, UNCHANGED taskVars, used \subseteq used', queue' = queue
  PROVE  TaskTypes' /\ CopiesInUse' /\ QueueShape'
  BY DEF TypedState, TypeOK, CopiesInUse, QueueShape, taskVars, TaskTypes

-----------------------------------------------------------------------------
(* Types *)

\* The rest of the type invariant: everything but the copies.
OtherTypes ==
    /\ rows \in [Ids -> Job \union {None}]
    /\ used \subseteq Ids /\ due \subseteq used
    /\ queue \in Seq(Tasks)
    /\ active \subseteq Ids
    /\ leaving \in [Workers -> Ids \union {None}]
    /\ gone \subseteq Workers
    /\ sched \in {"seed", "loop", "stopped"}
    /\ snapshot \in [Ids -> Job \union {None}]
    /\ dispatched \in Tasks \union {None}
    /\ seeds \in 0..SeedSize
    /\ seeded \in Tasks \union {None}
    /\ main \in {"up", "stopping", "closed", "down"}
    /\ faults \in 0..MaxFaults /\ boots \in 0..MaxBoots
    /\ stranded \subseteq Ids
    /\ RowsInUse

\* The invariant in the two parts the proofs deal with one after the other.
LEMMA TypedParts == TypedState <=> (TaskTypes /\ CopiesInUse /\ QueueShape) /\ OtherTypes
  BY DEF TypedState, TypeOK, TaskTypes, OtherTypes

LEMMA TypedInit == Init => TypedState
<1> SUFFICES ASSUME Init PROVE TypedState
  OBVIOUS
<1> USE DEF Init, FreshProcess
<1>1. TaskTypes /\ CopiesInUse
  BY DEF TaskTypes, CopiesInUse, Stages
<1>2. QueueShape /\ queue \in Seq(Tasks)
  BY DEF QueueShape
<1>3. OtherTypes
  BY <1>2, BoundAssumption DEF OtherTypes, RowsInUse
<1> QED
  BY <1>1, <1>2, <1>3, TypedParts

\* The requests.
LEMMA TypedApi == TypedState /\ Api => TypedState'
<1> SUFFICES ASSUME TypedState, Api PROVE TypedState'
  OBVIOUS
<1>0. TaskTypes /\ CopiesInUse /\ QueueShape /\ OtherTypes /\ TypeOK
  BY TypedParts DEF TypedState
<1> USE DEF poolVars, schedVars, seedVars, mainVars, rowVars
<1>1. ASSUME NEW t \in Tasks, NEW i \in Ids, NEW r \in Requested,
             NEW s \in {"queued", "scheduled"}, CreateJob(t, i, r, s)
      PROVE  TypedState'
  <2>1. NewJob(s, LimitOf(r)) \in Job
    BY NewJobType, LimitType DEF Status
  <2>2. i \in used' /\ used \subseteq used' /\ queue' = queue
    BY <1>1 DEF CreateJob
  <2>3. (TaskTypes /\ CopiesInUse /\ QueueShape)'
    <3>1. CASE s = "queued"
      BY <1>1, <2>1, <2>2, <3>1, BeginShape DEF CreateJob, Stages
    <3>2. CASE s # "queued"
      BY <1>1, <2>2, <3>2, SameShape DEF CreateJob
    <3> QED
      BY <3>1, <3>2
  <2>4. OtherTypes'
    BY <1>0, <1>1, <2>1 DEF OtherTypes, RowsInUse, CreateJob
  <2> QED
    BY <2>3, <2>4, TypedParts, PTL
<1>2. ASSUME NEW t \in Tasks, NEW i \in Ids, NEW r \in Requested,
             NEW s \in {"queued", "scheduled"}, SeedJob(t, i, r, s)
      PROVE  TypedState'
  <2>1. NewJob(s, LimitOf(r)) \in Job
    BY NewJobType, LimitType DEF Status
  <2>2. i \in used' /\ used' = used \union {i} /\ queue' = queue
    BY <1>2 DEF SeedJob
  <2>3. (TaskTypes /\ CopiesInUse /\ QueueShape)'
    <3>1. CASE s = "queued"
      BY <1>2, <2>1, <2>2, <3>1, BeginShape DEF SeedJob, Stages
    <3>2. CASE s # "queued"
      BY <1>2, <2>2, <3>2, SameShape DEF SeedJob
    <3> QED
      BY <3>1, <3>2
  <2>4. Save(i, NewJob(s, LimitOf(r)))
    BY <1>2 DEF SeedJob
  <2>5. /\ rows' \in [Ids -> Job \union {None}] /\ faults' \in 0..MaxFaults
        /\ \A k \in Ids : k # i => rows'[k] = rows[k]
    BY <1>0, <2>1, <2>4, SaveType
  <2>6. seeds' \in 0..SeedSize /\ seeded' \in Tasks \union {None}
    BY <1>0, <1>2, BoundAssumption DEF OtherTypes, SeedJob
  <2>7. due' \subseteq used' /\ snapshot' = snapshot
    BY <1>0, <1>2, <2>2 DEF OtherTypes, SeedJob
  <2>8. RowsInUse'
    BY <1>0, <2>2, <2>5, <2>7 DEF OtherTypes, RowsInUse
  <2>9. OtherTypes'
    BY <1>0, <1>2, <2>2, <2>5, <2>6, <2>7, <2>8 DEF OtherTypes, SeedJob
  <2> QED
    BY <2>3, <2>9, TypedParts, PTL
<1>3. CASE StartSeeding
  <2>1. (TaskTypes /\ CopiesInUse /\ QueueShape)'
    BY <1>3, SameShape DEF StartSeeding
  <2>2. OtherTypes'
    BY <1>0, <1>3, BoundAssumption DEF OtherTypes, RowsInUse, StartSeeding
  <2> QED
    BY <2>1, <2>2, TypedParts, PTL
<1>4. ASSUME NEW t \in Tasks, NEW i \in Ids, RetryLoad(t, i) PROVE TypedState'
  <2>1. NewJob("queued", rows[i].limit) \in Job /\ i \in used
    BY <1>0, <1>4 DEF RetryLoad, Is, Exists, OtherTypes, RowsInUse, NewJob, Job, Status
  <2>2. (TaskTypes /\ CopiesInUse /\ QueueShape)'
    BY <1>4, <2>1, BeginShape DEF RetryLoad, Stages
  <2>3. OtherTypes'
    BY <1>0, <1>4 DEF OtherTypes, RowsInUse, RetryLoad
  <2> QED
    BY <2>2, <2>3, TypedParts, PTL
<1>5. ASSUME NEW t \in Tasks, RetrySave(t) PROVE TypedState'
  <2>1. of[t] \in used /\ of[t] \in Ids /\ copy[t] \in Job
    BY <1>0, <1>5 DEF RetrySave, CopiesInUse, OtherTypes
  <2>2. (TaskTypes /\ CopiesInUse /\ QueueShape)'
    BY <1>5, <2>1, MoveShape DEF RetrySave, Stages
  <2>3. OtherTypes'
    BY <1>0, <1>5, <2>1, SaveType DEF OtherTypes, RowsInUse, RetrySave
  <2> QED
    BY <2>2, <2>3, TypedParts, PTL
<1>6. ASSUME NEW i \in Ids, DeleteJob(i) PROVE TypedState'
  <2>1. (TaskTypes /\ CopiesInUse /\ QueueShape)'
    BY <1>6, SameShape DEF DeleteJob
  <2>2. OtherTypes'
    BY <1>0, <1>6 DEF OtherTypes, RowsInUse, DeleteJob
  <2> QED
    BY <2>1, <2>2, TypedParts, PTL
<1> QED
  BY <1>1, <1>2, <1>3, <1>4, <1>5, <1>6 DEF Api

\* The queue, the workers and the timers.
LEMMA TypedPool == TypedState /\ Pool => TypedState'
<1> SUFFICES ASSUME TypedState, Pool PROVE TypedState'
  OBVIOUS
<1>0. TaskTypes /\ CopiesInUse /\ QueueShape /\ OtherTypes /\ TypeOK
  BY TypedParts DEF TypedState
<1> USE DEF schedVars, seedVars, mainVars, rowVars
<1>1. ASSUME NEW t \in Tasks, Accept(t) PROVE TypedState'
  <2>1. of[t] \in used /\ copy[t] \in Job /\ stage[t] = "sending" /\ used' = used
    BY <1>0, <1>1 DEF Accept, CopiesInUse
  <2>2. queue \in Seq(Tasks) /\ queue' = Append(queue, t)
    BY <1>0, <1>1 DEF Accept, OtherTypes
  <2>3. /\ stage' = [stage EXCEPT ![t] = "waiting"] /\ copy' = [copy EXCEPT ![t] = copy[t]]
        /\ by' = [by EXCEPT ![t] = None] /\ of' = of
    BY <1>1 DEF Accept, Move
  <2>4. TaskTypes' /\ CopiesInUse'
    BY <1>0, <2>1, <2>3 DEF TaskTypes, CopiesInUse, Stages
  <2>5. QueueShape'
    <3>1. \A k \in 1..Len(queue) : queue[k] # t /\ queue[k] \in Tasks
      BY <1>0, <2>1, <2>2 DEF QueueShape
    <3>2. Len(queue') = Len(queue) + 1 /\ Len(queue) \in Nat
      BY <2>2
    <3>3. \A k \in 1..Len(queue') : queue'[k] = IF k = Len(queue) + 1 THEN t ELSE queue[k]
      BY <2>2, <3>2
    <3>4. \A k \in 1..Len(queue') : stage'[queue'[k]] = "waiting"
      BY <1>0, <2>3, <3>1, <3>2, <3>3 DEF QueueShape, TaskTypes
    <3>5. \A j, k \in 1..Len(queue') : queue'[j] = queue'[k] => j = k
      BY <1>0, <3>1, <3>2, <3>3 DEF QueueShape
    <3> QED
      BY <3>4, <3>5 DEF QueueShape
  <2>6. OtherTypes'
    BY <1>0, <1>1, <2>2 DEF OtherTypes, RowsInUse, Accept, ReturnFromEnqueue
  <2> QED
    BY <2>4, <2>5, <2>6, TypedParts, PTL
<1>2. ASSUME NEW t \in Tasks, Drop(t) \/ CancelTimer(t) PROVE TypedState'
  <2>1. of[t] \in Ids
    BY <1>0, <1>2 DEF Drop, CancelTimer, CopiesInUse, OtherTypes
  <2>2. (TaskTypes /\ CopiesInUse /\ QueueShape)'
    BY <1>2, ForgetShape DEF Drop, CancelTimer, poolVars
  <2>3. OtherTypes'
    BY <1>0, <1>2, <2>1 DEF OtherTypes, RowsInUse, Drop, CancelTimer, ReturnFromEnqueue, poolVars
  <2> QED
    BY <2>2, <2>3, TypedParts, PTL
<1>3. ASSUME NEW w \in Workers, Dequeue(w) PROVE TypedState'
  <2> DEFINE t == Head(queue)
  <2>1. queue \in Seq(Tasks) /\ queue # <<>> /\ queue' = Tail(queue) /\ used' = used
    BY <1>0, <1>3 DEF Dequeue, OtherTypes
  <2>2. t \in Tasks /\ t = queue[1] /\ 1 \in 1..Len(queue)
    BY <2>1
  <2>3. stage[t] = "waiting"
    BY <1>0, <2>2 DEF QueueShape
  <2>4. of[t] \in used /\ of[t] \in Ids /\ copy[t] \in Job
    BY <1>0, <2>2, <2>3 DEF CopiesInUse, OtherTypes
  <2>5. /\ stage' = [stage EXCEPT ![t] = "taken"] /\ copy' = [copy EXCEPT ![t] = copy[t]]
        /\ by' = [by EXCEPT ![t] = w] /\ of' = of
    BY <1>3 DEF Dequeue, Move
  <2>6. TaskTypes' /\ CopiesInUse'
    BY <1>0, <2>1, <2>2, <2>4, <2>5 DEF TaskTypes, CopiesInUse, Stages
  <2>7. QueueShape'
    <3>1. Len(queue') = Len(queue) - 1 /\ Len(queue) \in Nat
      BY <2>1
    <3>2. \A k \in 1..Len(queue') : queue'[k] = queue[k + 1] /\ k + 1 \in 1..Len(queue)
      BY <2>1, <3>1
    <3>3. \A k \in 1..Len(queue') : queue'[k] # t
      BY <1>0, <2>2, <3>1, <3>2 DEF QueueShape
    <3>4. \A k \in 1..Len(queue') : queue'[k] \in Tasks
      BY <2>1, <3>2
    <3>5. \A k \in 1..Len(queue') : stage'[queue'[k]] = "waiting"
      BY <1>0, <2>5, <3>2, <3>3, <3>4 DEF QueueShape, TaskTypes
    <3>6. \A j, k \in 1..Len(queue') : queue'[j] = queue'[k] => j = k
      BY <1>0, <3>1, <3>2 DEF QueueShape
    <3> QED
      BY <3>5, <3>6 DEF QueueShape
  <2>8. active' \subseteq Ids
    BY <1>0, <1>3, <2>4 DEF OtherTypes, Dequeue
  <2>9. OtherTypes'
    BY <1>0, <1>3, <2>1, <2>8 DEF OtherTypes, RowsInUse, Dequeue
  <2> QED
    BY <2>6, <2>7, <2>9, TypedParts, PTL
<1>4. ASSUME NEW w \in Workers, ExitWorker(w) PROVE TypedState'
  <2>1. (TaskTypes /\ CopiesInUse /\ QueueShape)'
    BY <1>4, SameShape DEF ExitWorker
  <2>2. OtherTypes'
    BY <1>0, <1>4 DEF OtherTypes, RowsInUse, ExitWorker
  <2> QED
    BY <2>1, <2>2, TypedParts, PTL
<1>5. ASSUME NEW t \in Tasks, StartJob(t) PROVE TypedState'
  <2> DEFINE job == [copy[t] EXCEPT !.status = "running", !.worker = by[t]]
  <2>1. of[t] \in used /\ of[t] \in Ids /\ job \in Job /\ by[t] \in Workers \union {None}
    BY <1>0, <1>5 DEF StartJob, CopiesInUse, OtherTypes, TaskTypes, Job, Status
  <2>2. Save(of[t], job) /\ Move(t, job, "executing", by[t]) /\ stage[t] = "taken"
    BY <1>5 DEF StartJob
  <2> HIDE DEF job
  <2>3. (TaskTypes /\ CopiesInUse /\ QueueShape)'
    BY <1>5, <2>1, <2>2, MoveShape DEF StartJob, Stages, poolVars
  <2>4. OtherTypes'
    BY <1>0, <1>5, <2>1, <2>2, SaveType DEF OtherTypes, RowsInUse, StartJob, poolVars
  <2> QED
    BY <2>3, <2>4, TypedParts, PTL
<1>6. ASSUME NEW t \in Tasks, NEW status \in {"completed", "failed"},
             NEW job \in Job, job.status = status, stage[t] = "executing",
             Save(of[t], job), Forget(t), leaving' = [leaving EXCEPT ![by[t]] = of[t]],
             stranded' \in {stranded, stranded \union {of[t]}},
             UNCHANGED <<used, due, queue, active, gone, schedVars, seedVars, mainVars>>
      PROVE  TypedState'
  <2>1. of[t] \in used /\ of[t] \in Ids
    BY <1>0, <1>6 DEF CopiesInUse, OtherTypes
  <2>2. (TaskTypes /\ CopiesInUse /\ QueueShape)'
    BY <1>6, ForgetShape
  <2>3. OtherTypes'
    BY <1>0, <1>6, <2>1, SaveType DEF OtherTypes, RowsInUse
  <2> QED
    BY <2>2, <2>3, TypedParts, PTL
<1>7. ASSUME NEW t \in Tasks, CompleteJob(t) PROVE TypedState'
  <2> DEFINE job == [copy[t] EXCEPT !.status = "completed", !.ended = TRUE]
  <2>1. job \in Job /\ job.status = "completed"
    BY <1>0, <1>7 DEF CompleteJob, CopiesInUse, Job, Status
  <2>2. /\ stage[t] = "executing" /\ Save(of[t], job) /\ Forget(t)
        /\ leaving' = [leaving EXCEPT ![by[t]] = of[t]] /\ stranded' \in {stranded, stranded \union {of[t]}}
        /\ UNCHANGED <<used, due, queue, active, gone, schedVars, seedVars, mainVars>>
    BY <1>7 DEF CompleteJob
  <2> HIDE DEF job
  <2> QED
    BY <1>6, <2>1, <2>2
<1>8. ASSUME NEW t \in Tasks, FailJob(t) PROVE TypedState'
  <2> DEFINE job == [copy[t] EXCEPT !.status = "failed", !.error = TRUE, !.ended = TRUE]
  <2>1. job \in Job /\ job.status = "failed"
    BY <1>0, <1>8 DEF FailJob, CopiesInUse, Job, Status
  <2>2. /\ stage[t] = "executing" /\ Save(of[t], job) /\ Forget(t)
        /\ leaving' = [leaving EXCEPT ![by[t]] = of[t]] /\ stranded' \in {stranded, stranded \union {of[t]}}
        /\ UNCHANGED <<used, due, queue, active, gone, schedVars, seedVars, mainVars>>
    BY <1>8 DEF FailJob
  <2> HIDE DEF job
  <2> QED
    BY <1>6, <2>1, <2>2
<1>9. ASSUME NEW t \in Tasks, RequeueJob(t) PROVE TypedState'
  <2> DEFINE job == [copy[t] EXCEPT !.status = "queued", !.retries = @ + 1, !.worker = None,
                                    !.error = TRUE, !.ended = TRUE]
  <2>1. of[t] \in used /\ of[t] \in Ids /\ job \in Job
    <3>1. of[t] \in used /\ of[t] \in Ids /\ copy[t] \in Job
      BY <1>0, <1>9 DEF RequeueJob, CopiesInUse, OtherTypes
    <3>2. copy[t].retries + 1 \in Nat
      BY <3>1 DEF Job
    <3>3. job \in Job
      BY <3>1, <3>2, RequeuedType
    <3> QED
      BY <3>1, <3>3
  <2>2. Save(of[t], job) /\ Move(t, job, "backoff", None) /\ stage[t] = "executing"
    BY <1>9 DEF RequeueJob
  <2> HIDE DEF job
  <2>3. (TaskTypes /\ CopiesInUse /\ QueueShape)'
    BY <1>9, <2>1, <2>2, MoveShape DEF RequeueJob, Stages
  <2>4. OtherTypes'
    BY <1>0, <1>9, <2>1, <2>2, SaveType DEF OtherTypes, RowsInUse, RequeueJob
  <2> QED
    BY <2>3, <2>4, TypedParts, PTL
<1>10. ASSUME NEW t \in Tasks, FireTimer(t) PROVE TypedState'
  <2>1. copy[t] \in Job
    BY <1>0, <1>10 DEF FireTimer, CopiesInUse
  <2>2. (TaskTypes /\ CopiesInUse /\ QueueShape)'
    BY <1>10, <2>1, MoveShape DEF FireTimer, Stages, poolVars
  <2>3. OtherTypes'
    BY <1>0, <1>10 DEF OtherTypes, RowsInUse, FireTimer, poolVars
  <2> QED
    BY <2>2, <2>3, TypedParts, PTL
<1>11. ASSUME NEW w \in Workers, LeaveJob(w) PROVE TypedState'
  <2>1. (TaskTypes /\ CopiesInUse /\ QueueShape)'
    BY <1>11, SameShape DEF LeaveJob
  <2>2. OtherTypes'
    BY <1>0, <1>11 DEF OtherTypes, RowsInUse, LeaveJob
  <2> QED
    BY <2>1, <2>2, TypedParts, PTL
<1> QED
  BY <1>1, <1>2, <1>3, <1>4, <1>5, <1>7, <1>8, <1>9, <1>10, <1>11 DEF Pool

\* The scheduler.
LEMMA TypedScheduler == TypedState /\ Scheduler => TypedState'
<1> SUFFICES ASSUME TypedState, Scheduler PROVE TypedState'
  OBVIOUS
<1>0. TaskTypes /\ CopiesInUse /\ QueueShape /\ OtherTypes /\ TypeOK
  BY TypedParts DEF TypedState
<1> USE DEF poolVars, schedVars, seedVars, mainVars, rowVars
<1>1. ASSUME NEW i \in Ids, SeedMonitoringJob(i) PROVE TypedState'
  <2>1. NewJob("scheduled", SeededLimit) \in Job
    BY NewJobType, LimitAssumption DEF Status
  <2>2. (TaskTypes /\ CopiesInUse /\ QueueShape)'
    BY <1>1, SameShape DEF SeedMonitoringJob
  <2>3. Save(i, NewJob("scheduled", SeededLimit))
    BY <1>1 DEF SeedMonitoringJob
  <2>4. OtherTypes'
    BY <1>0, <1>1, <2>1, <2>3, SaveType DEF OtherTypes, RowsInUse, SeedMonitoringJob
  <2> QED
    BY <2>2, <2>4, TypedParts, PTL
<1>2. ASSUME NEW i \in Ids, ComeDue(i) PROVE TypedState'
  <2>1. (TaskTypes /\ CopiesInUse /\ QueueShape)'
    BY <1>2, SameShape DEF ComeDue
  <2>2. OtherTypes'
    BY <1>0, <1>2 DEF OtherTypes, RowsInUse, ComeDue, Is, Exists
  <2> QED
    BY <2>1, <2>2, TypedParts, PTL
<1>3. CASE SkipMonitoringJob \/ StopScheduler
  <2>1. (TaskTypes /\ CopiesInUse /\ QueueShape)'
    BY <1>3, SameShape DEF SkipMonitoringJob, StopScheduler
  <2>2. OtherTypes'
    BY <1>0, <1>3 DEF OtherTypes, RowsInUse, SkipMonitoringJob, StopScheduler
  <2> QED
    BY <2>1, <2>2, TypedParts, PTL
<1>4. CASE Poll
  <2>1. (TaskTypes /\ CopiesInUse /\ QueueShape)'
    BY <1>4, SameShape DEF Poll
  <2>2. OtherTypes'
    BY <1>0, <1>4 DEF OtherTypes, RowsInUse, Poll
  <2> QED
    BY <2>1, <2>2, TypedParts, PTL
<1>5. ASSUME NEW t \in Tasks, NEW i \in Ids, Dispatch(t, i) PROVE TypedState'
  <2> DEFINE job == [snapshot[i] EXCEPT !.status = "queued"]
  <2>1. i \in used /\ job \in Job
    BY <1>0, <1>5 DEF Dispatch, OtherTypes, RowsInUse, Job, Status
  <2>2. Save(i, job) /\ Begin(t, i, job, "sending")
    BY <1>5 DEF Dispatch
  <2> HIDE DEF job
  <2>3. (TaskTypes /\ CopiesInUse /\ QueueShape)'
    BY <1>5, <2>1, <2>2, BeginShape DEF Dispatch, Stages
  <2>4. OtherTypes'
    BY <1>0, <1>5, <2>1, <2>2, SaveType DEF OtherTypes, RowsInUse, Dispatch
  <2> QED
    BY <2>3, <2>4, TypedParts, PTL
<1> QED
  BY <1>1, <1>2, <1>3, <1>4, <1>5 DEF Scheduler

\* Shutdown, crash and restart.
LEMMA TypedProcess == TypedState /\ Process => TypedState'
<1> SUFFICES ASSUME TypedState, Process PROVE TypedState'
  OBVIOUS
<1>0. TaskTypes /\ CopiesInUse /\ QueueShape /\ OtherTypes /\ TypeOK
  BY TypedParts DEF TypedState
<1> USE DEF poolVars, schedVars, seedVars, mainVars, rowVars
<1>1. CASE Signal \/ CloseQueue \/ Restart
  <2>1. (TaskTypes /\ CopiesInUse /\ QueueShape)'
    BY <1>1, SameShape DEF Signal, CloseQueue, Restart
  <2>2. OtherTypes'
    BY <1>0, <1>1, BoundAssumption DEF OtherTypes, RowsInUse, Signal, CloseQueue, Restart
  <2> QED
    BY <2>1, <2>2, TypedParts, PTL
<1>2. CASE Exit \/ Crash
  <2>1. LoseMemory /\ main' = "down" /\ boots' = boots
    BY <1>2 DEF Exit, Crash
  <2>2. (TaskTypes /\ CopiesInUse /\ QueueShape)'
    BY <2>1 DEF LoseMemory, TaskTypes, CopiesInUse, QueueShape, Stages
  <2>3. OtherTypes'
    BY <1>0, <2>1, BoundAssumption DEF OtherTypes, RowsInUse, LoseMemory, Unfinished
  <2> QED
    BY <2>2, <2>3, TypedParts, PTL
<1> QED
  BY <1>1, <1>2 DEF Process

LEMMA TypedInvariant == Spec => []TypedState
<1>1. TypedState /\ UNCHANGED vars => TypedState'
  BY DEF vars, rowVars, taskVars, poolVars, schedVars, seedVars, mainVars,
         TypedState, TypeOK, CopiesInUse, RowsInUse, QueueShape
<1>2. TypedState /\ [Next]_vars => TypedState'
  BY <1>1, TypedApi, TypedPool, TypedScheduler, TypedProcess DEF Next
<1> QED
  BY <1>2, TypedInit, PTL DEF Spec

\* Every variable keeps its type.
THEOREM TypeCorrect == Spec => []TypeOK
  BY TypedInvariant, PTL DEF TypedState

-----------------------------------------------------------------------------
(* No job is lost silently *)

\* A step that frees no copy keeps every witness of NoSilentLoss: it is enough that
\* the jobs it newly makes unfinished have a copy.
LEMMA WitnessesStay ==
  ASSUME NoSilentLoss, stranded \subseteq stranded',
         \A t \in Tasks : Live(t) => (Live(t)' /\ of'[t] = of[t]) \/ of[t] \in stranded',
         \A i \in Unfinished' : i \in Unfinished \/ \E t \in Tasks : Live(t)' /\ of'[t] = i
  PROVE  NoSilentLoss'
  BY DEF NoSilentLoss

\* What a write can make unfinished is the job it writes.
LEMMA SaveUnfinished ==
  ASSUME NEW i \in Ids, NEW job \in Job, TypeOK, Save(i, job)
  PROVE  /\ \A k \in Unfinished' : k \in Unfinished \/ k = i
         /\ job.status \notin {"queued", "running"} /\ faults' = faults => i \notin Unfinished'
  BY SaveType DEF Unfinished, Is, Exists, TypeOK, Save

\* A step that touches neither copies nor rows loses nothing.
LEMMA QuietStep ==
  ASSUME NoSilentLoss, UNCHANGED <<stage, of, rows>>, stranded \subseteq stranded'
  PROVE  NoSilentLoss'
  BY DEF NoSilentLoss, Unfinished, Is, Exists, Live

LEMMA LossApi == TypedState /\ NoSilentLoss /\ Api => NoSilentLoss'
<1> SUFFICES ASSUME TypedState, NoSilentLoss, Api PROVE NoSilentLoss'
  OBVIOUS
<1>0. TaskTypes /\ CopiesInUse /\ OtherTypes /\ TypeOK
  BY TypedParts DEF TypedState
<1>1. ASSUME NEW t \in Tasks, NEW i \in Ids, NEW r \in Requested,
             NEW s \in {"queued", "scheduled"}, CreateJob(t, i, r, s)
      PROVE  NoSilentLoss'
  <2>1. NewJob(s, LimitOf(r)).status = s
    BY DEF NewJob
  <2>2. \A u \in Tasks : Live(u) => Live(u)' /\ of'[u] = of[u]
    BY <1>0, <1>1 DEF CreateJob, Begin, Live, taskVars, TaskTypes
  <2>3. \A k \in Unfinished' : k \in Unfinished \/ (k = i /\ s = "queued")
    BY <1>0, <1>1, <2>1 DEF CreateJob, Unfinished, Is, Exists, OtherTypes
  <2>4. s = "queued" => Live(t)' /\ of'[t] = i
    BY <1>0, <1>1 DEF CreateJob, Begin, Live, TaskTypes
  <2>5. stranded' = stranded
    BY <1>1 DEF CreateJob
  <2> QED
    BY <2>2, <2>3, <2>4, <2>5, WitnessesStay
<1>2. ASSUME NEW t \in Tasks, NEW i \in Ids, NEW r \in Requested,
             NEW s \in {"queued", "scheduled"}, SeedJob(t, i, r, s)
      PROVE  NoSilentLoss'
  <2>1. NewJob(s, LimitOf(r)) \in Job /\ NewJob(s, LimitOf(r)).status = s
    BY NewJobType, LimitType DEF Status
  <2>2. \A u \in Tasks : Live(u) => Live(u)' /\ of'[u] = of[u]
    BY <1>0, <1>2 DEF SeedJob, Begin, Live, taskVars, TaskTypes
  <2>3. i \notin Unfinished
    BY <1>0, <1>2 DEF SeedJob, Unfinished, Is, Exists, OtherTypes, RowsInUse
  <2>4. \A k \in Unfinished' : k \in Unfinished \/ (k = i /\ s = "queued")
    BY <1>0, <1>2, <2>1, <2>3 DEF SeedJob, Save, Unfinished, Is, Exists, OtherTypes
  <2>5. s = "queued" => Live(t)' /\ of'[t] = i
    BY <1>0, <1>2 DEF SeedJob, Begin, Live, TaskTypes
  <2>6. stranded' = stranded
    BY <1>2 DEF SeedJob
  <2> QED
    BY <2>2, <2>4, <2>5, <2>6, WitnessesStay
<1>3. CASE StartSeeding
  BY <1>3, QuietStep DEF StartSeeding, rowVars, taskVars
<1>4. ASSUME NEW t \in Tasks, NEW i \in Ids, RetryLoad(t, i) PROVE NoSilentLoss'
  <2>1. \A u \in Tasks : Live(u) => Live(u)' /\ of'[u] = of[u]
    BY <1>0, <1>4 DEF RetryLoad, Begin, Live, TaskTypes
  <2>2. Unfinished' = Unfinished /\ stranded' = stranded
    BY <1>4 DEF RetryLoad, rowVars, Unfinished, Is, Exists
  <2> QED
    BY <2>1, <2>2, WitnessesStay
<1>5. ASSUME NEW t \in Tasks, RetrySave(t) PROVE NoSilentLoss'
  <2>1. of[t] \in Ids /\ copy[t] \in Job /\ Save(of[t], copy[t])
    BY <1>0, <1>5 DEF RetrySave, CopiesInUse, OtherTypes
  <2>2. \A u \in Tasks : Live(u) => Live(u)' /\ of'[u] = of[u]
    BY <1>0, <1>5 DEF RetrySave, Move, Live, TaskTypes
  <2>3. Live(t)' /\ of'[t] = of[t] /\ stranded' = stranded
    BY <1>0, <1>5 DEF RetrySave, Move, Live, TaskTypes
  <2>4. \A k \in Unfinished' : k \in Unfinished \/ k = of[t]
    BY <1>0, <2>1, SaveUnfinished
  <2> QED
    BY <2>2, <2>3, <2>4, WitnessesStay
<1>6. ASSUME NEW i \in Ids, DeleteJob(i) PROVE NoSilentLoss'
  <2>1. \A u \in Tasks : Live(u) => Live(u)' /\ of'[u] = of[u]
    BY <1>6 DEF DeleteJob, taskVars, Live
  <2>2. \A k \in Unfinished' : k \in Unfinished
    BY <1>0, <1>6 DEF DeleteJob, Unfinished, Is, Exists, OtherTypes
  <2>3. stranded' = stranded
    BY <1>6 DEF DeleteJob
  <2> QED
    BY <2>1, <2>2, <2>3, WitnessesStay
<1> QED
  BY <1>1, <1>2, <1>3, <1>4, <1>5, <1>6 DEF Api

LEMMA LossPool == TypedState /\ NoSilentLoss /\ Pool => NoSilentLoss'
<1> SUFFICES ASSUME TypedState, NoSilentLoss, Pool PROVE NoSilentLoss'
  OBVIOUS
<1>0. TaskTypes /\ CopiesInUse /\ QueueShape /\ OtherTypes /\ TypeOK
  BY TypedParts DEF TypedState
\* The owner of a live copy moves on and keeps it live; the rows stay.
<1>1. ASSUME NEW t \in Tasks, NEW job, NEW where \in Stages \ {"free", "retrying"}, NEW w,
             Move(t, job, where, w), UNCHANGED <<rows, stranded>>
      PROVE  NoSilentLoss'
  <2>1. \A u \in Tasks : Live(u) => Live(u)' /\ of'[u] = of[u]
    BY <1>0, <1>1 DEF Move, Live, TaskTypes
  <2>2. Unfinished' = Unfinished
    BY <1>1 DEF Unfinished, Is, Exists
  <2> QED
    BY <1>1, <2>1, <2>2, WitnessesStay
\* The same with a write of the job it owns.
<1>2. ASSUME NEW t \in Tasks, NEW job \in Job, NEW where \in Stages \ {"free", "retrying"}, NEW w,
             Move(t, job, where, w), Save(of[t], job), of[t] \in Ids, stranded' = stranded
      PROVE  NoSilentLoss'
  <2>1. \A u \in Tasks : Live(u) => Live(u)' /\ of'[u] = of[u]
    BY <1>0, <1>2 DEF Move, Live, TaskTypes
  <2>2. Live(t)' /\ of'[t] = of[t]
    BY <1>0, <1>2 DEF Move, Live, TaskTypes
  <2>3. \A k \in Unfinished' : k \in Unfinished \/ k = of[t]
    BY <1>0, <1>2, SaveUnfinished
  <2> QED
    BY <1>2, <2>1, <2>2, <2>3, WitnessesStay
\* The last write of a copy: it reaches a final state, or is recorded as stranded.
<1>3. ASSUME NEW t \in Tasks, NEW job \in Job, job.status \in {"completed", "failed"},
             Save(of[t], job), of[t] \in Ids, Forget(t),
             stranded' = IF faults' = faults THEN stranded ELSE stranded \union {of[t]}
      PROVE  NoSilentLoss'
  <2>1. \A u \in Tasks : u # t /\ Live(u) => Live(u)' /\ of'[u] = of[u]
    BY <1>0, <1>3 DEF Forget, Live, TaskTypes
  <2>2. \A k \in Unfinished' : k \in Unfinished \/ k = of[t]
    BY <1>0, <1>3, SaveUnfinished
  <2>3. of[t] \in Unfinished' => of[t] \in stranded'
    BY <1>0, <1>3, SaveUnfinished
  <2>4. stranded \subseteq stranded'
    BY <1>3
  <2> QED
    BY <2>1, <2>2, <2>3, <2>4 DEF NoSilentLoss
<1>4. ASSUME NEW t \in Tasks, Accept(t) \/ FireTimer(t) PROVE NoSilentLoss'
  BY <1>1, <1>4 DEF Accept, FireTimer, rowVars, Stages
<1>5. ASSUME NEW t \in Tasks, Drop(t) \/ CancelTimer(t) PROVE NoSilentLoss'
  <2>1. \A u \in Tasks : Live(u) => (Live(u)' /\ of'[u] = of[u]) \/ of[u] \in stranded'
    BY <1>0, <1>5 DEF Drop, CancelTimer, Forget, Live, TaskTypes
  <2>2. Unfinished' = Unfinished /\ stranded \subseteq stranded'
    BY <1>5 DEF Drop, CancelTimer, rowVars, Unfinished, Is, Exists
  <2> QED
    BY <2>1, <2>2, WitnessesStay
<1>6. ASSUME NEW w \in Workers, Dequeue(w) PROVE NoSilentLoss'
  <2>1. Head(queue) \in Tasks
    BY <1>0, <1>6 DEF Dequeue, OtherTypes
  <2> QED
    BY <1>1, <1>6, <2>1 DEF Dequeue, rowVars, Stages
<1>7. ASSUME NEW w \in Workers, ExitWorker(w) \/ LeaveJob(w) PROVE NoSilentLoss'
  BY <1>7, QuietStep DEF ExitWorker, LeaveJob, rowVars, taskVars
<1>8. ASSUME NEW t \in Tasks, StartJob(t) PROVE NoSilentLoss'
  <2> DEFINE job == [copy[t] EXCEPT !.status = "running", !.worker = by[t]]
  <2>1. of[t] \in Ids /\ job \in Job
    BY <1>0, <1>8 DEF StartJob, CopiesInUse, OtherTypes, TaskTypes, Job, Status
  <2>2. Save(of[t], job) /\ Move(t, job, "executing", by[t]) /\ stranded' = stranded
    BY <1>8 DEF StartJob
  <2> HIDE DEF job
  <2> QED
    BY <1>2, <2>1, <2>2 DEF Stages
<1>9. ASSUME NEW t \in Tasks, CompleteJob(t) PROVE NoSilentLoss'
  <2> DEFINE job == [copy[t] EXCEPT !.status = "completed", !.ended = TRUE]
  <2>1. of[t] \in Ids /\ job \in Job /\ job.status = "completed"
    BY <1>0, <1>9 DEF CompleteJob, CopiesInUse, OtherTypes, Job, Status
  <2>2. /\ Save(of[t], job) /\ Forget(t)
        /\ stranded' = IF faults' = faults THEN stranded ELSE stranded \union {of[t]}
    BY <1>9 DEF CompleteJob
  <2> HIDE DEF job
  <2> QED
    BY <1>3, <2>1, <2>2
<1>10. ASSUME NEW t \in Tasks, FailJob(t) PROVE NoSilentLoss'
  <2> DEFINE job == [copy[t] EXCEPT !.status = "failed", !.error = TRUE, !.ended = TRUE]
  <2>1. of[t] \in Ids /\ job \in Job /\ job.status = "failed"
    BY <1>0, <1>10 DEF FailJob, CopiesInUse, OtherTypes, Job, Status
  <2>2. /\ Save(of[t], job) /\ Forget(t)
        /\ stranded' = IF faults' = faults THEN stranded ELSE stranded \union {of[t]}
    BY <1>10 DEF FailJob
  <2> HIDE DEF job
  <2> QED
    BY <1>3, <2>1, <2>2
<1>11. ASSUME NEW t \in Tasks, RequeueJob(t) PROVE NoSilentLoss'
  <2> DEFINE job == [copy[t] EXCEPT !.status = "queued", !.retries = @ + 1, !.worker = None,
                                    !.error = TRUE, !.ended = TRUE]
  <2>1. of[t] \in Ids /\ copy[t] \in Job
    BY <1>0, <1>11 DEF RequeueJob, CopiesInUse, OtherTypes
  <2>2. copy[t].retries + 1 \in Nat
    BY <2>1 DEF Job
  <2>3. job \in Job
    BY <2>1, <2>2, RequeuedType
  <2>4. Save(of[t], job) /\ Move(t, job, "backoff", None) /\ stranded' = stranded
    BY <1>11 DEF RequeueJob
  <2> HIDE DEF job
  <2> QED
    BY <1>2, <2>1, <2>3, <2>4 DEF Stages
<1> QED
  BY <1>4, <1>5, <1>6, <1>7, <1>8, <1>9, <1>10, <1>11 DEF Pool

LEMMA LossScheduler == TypedState /\ NoSilentLoss /\ Scheduler => NoSilentLoss'
<1> SUFFICES ASSUME TypedState, NoSilentLoss, Scheduler PROVE NoSilentLoss'
  OBVIOUS
<1>0. TaskTypes /\ CopiesInUse /\ OtherTypes /\ TypeOK
  BY TypedParts DEF TypedState
<1>1. ASSUME NEW i \in Ids, SeedMonitoringJob(i) PROVE NoSilentLoss'
  <2>1. \A u \in Tasks : Live(u) => Live(u)' /\ of'[u] = of[u]
    BY <1>1 DEF SeedMonitoringJob, taskVars, Live
  <2>2. NewJob("scheduled", SeededLimit).status = "scheduled"
    BY DEF NewJob
  <2>3. \A k \in Unfinished' : k \in Unfinished
    BY <1>0, <1>1, <2>2 DEF SeedMonitoringJob, Save, Unfinished, Is, Exists, OtherTypes
  <2>4. stranded' = stranded
    BY <1>1 DEF SeedMonitoringJob
  <2> QED
    BY <2>1, <2>3, <2>4, WitnessesStay
<1>2. ASSUME NEW i \in Ids, ComeDue(i) PROVE NoSilentLoss'
  BY <1>2, QuietStep DEF ComeDue, taskVars
<1>3. CASE SkipMonitoringJob \/ StopScheduler \/ Poll
  BY <1>3, QuietStep DEF SkipMonitoringJob, StopScheduler, Poll, taskVars, rowVars
<1>4. ASSUME NEW t \in Tasks, NEW i \in Ids, Dispatch(t, i) PROVE NoSilentLoss'
  <2> DEFINE job == [snapshot[i] EXCEPT !.status = "queued"]
  <2>1. job \in Job
    BY <1>0, <1>4 DEF Dispatch, OtherTypes, Job, Status
  <2>2. Save(i, job) /\ Begin(t, i, job, "sending") /\ stranded' = stranded
    BY <1>4 DEF Dispatch
  <2> HIDE DEF job
  <2>3. \A u \in Tasks : Live(u) => Live(u)' /\ of'[u] = of[u]
    BY <1>0, <2>2 DEF Begin, Live, TaskTypes
  <2>4. Live(t)' /\ of'[t] = i
    BY <1>0, <2>2 DEF Begin, Live, TaskTypes
  <2>5. \A k \in Unfinished' : k \in Unfinished \/ k = i
    BY <1>0, <2>1, <2>2, SaveUnfinished
  <2> QED
    BY <2>2, <2>3, <2>4, <2>5, WitnessesStay
<1> QED
  BY <1>1, <1>2, <1>3, <1>4 DEF Scheduler

LEMMA LossProcess == TypedState /\ NoSilentLoss /\ Process => NoSilentLoss'
<1> SUFFICES ASSUME TypedState, NoSilentLoss, Process PROVE NoSilentLoss'
  OBVIOUS
<1>1. CASE Signal \/ CloseQueue \/ Restart
  BY <1>1, QuietStep DEF Signal, CloseQueue, Restart, rowVars, taskVars
<1>2. CASE Exit \/ Crash
  BY <1>2 DEF Exit, Crash, LoseMemory, rowVars, NoSilentLoss, Unfinished, Is, Exists
<1> QED
  BY <1>1, <1>2 DEF Process

\* A job the database calls queued or running has a copy somewhere in the process, for
\* any number of jobs, workers, failing writes, overlapping requests and restarts,
\* unless a stop or a failed last write is on record as having left it behind.
THEOREM NothingIsLostSilently == Spec => []NoSilentLoss
<1>1. Init => NoSilentLoss
  BY DEF Init, NoSilentLoss, Unfinished, Is, Exists
<1>2. NoSilentLoss /\ UNCHANGED vars => NoSilentLoss'
  BY QuietStep DEF vars, rowVars, taskVars
<1>3. TypedState /\ NoSilentLoss /\ [Next]_vars => NoSilentLoss'
  BY <1>2, LossApi, LossPool, LossScheduler, LossProcess DEF Next
<1> QED
  BY <1>1, <1>3, TypedInvariant, PTL DEF Spec
=============================================================================
