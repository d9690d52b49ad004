----------------------------- MODULE JobRecords -----------------------------
(***************************************************************************)
(* The rows the service keeps about one job beside the job itself: its     *)
(* execution logs, its retry history and its diagnostic                    *)
(* (internal/storage/models.go), with everything that writes or deletes    *)
(* them statement by statement: handleFailure and generateDiagnostic of    *)
(* internal/workers/pool.go, and the handlers GetJob, RetryJob, DeleteJob  *)
(* and DiagnoseJob.  No two statements share a transaction.                *)
(*                                                                         *)
(* The runner is whoever owns the job's copy at the time: the queue, a     *)
(* worker, the retry timer.  Two overlapping retry requests, which would   *)
(* make two runners, and crashes are in JobLifecycle.                      *)
(***************************************************************************)
EXTENDS Integers, Sequences, FiniteSets

CONSTANTS Doctors,    \* identities for the diagnoses that may be under way at once
          MaxRetries, \* max_retries of the job
          MaxRounds,  \* manual retries
          None        \* no row

ASSUME LimitAssumption == MaxRetries \in Int
ASSUME RoundsAssumption == MaxRounds \in Nat

VARIABLES
    row,       \* the job's row, or None
    logs,      \* there are log rows
    history,   \* the retry history, in the order it was written
    diag,      \* the diagnostic's row, or None
    runner,    \* where the owner of the copy stands
    retries,   \* RetryCount of the copy
    round,     \* history: manual retries so far, also kept in rows and diagnostics
    doctor,    \* doctor[d]: where diagnosis d stands
    chart,     \* chart[d]: the round the job was in when d read it
    retrier,   \* where RetryJob stands
    deleter,   \* where DeleteJob stands
    reader,    \* where GetJob stands
    view,      \* what GetJob has read
    created,   \* POST /api/jobs was called
    clean,     \* history: nobody else was at the job when its deletion began
    wiped,     \* history: a deletion has emptied the retry history
    raced      \* history: a diagnosis was under way when RetryJob cleared the diagnostic

copyVars == <<runner, retries, round>>
doctorVars == <<doctor, chart>>
readVars == <<reader, view>>
histVars == <<clean, wiped, raced>>
vars == <<row, logs, history, diag, copyVars, doctorVars, retrier, deleter, readVars, created, histVars>>

-----------------------------------------------------------------------------
Row == [status : {"queued", "running", "completed", "failed"}, retries : Nat, round : Nat]
Attempt == [num : Nat, backoff : Nat]
Diagnostic == [round : Nat, by : Doctors]
EmptyView == [job |-> None, attempts |-> 0]

ASSUME NoneAssumption == None \notin Row \union Diagnostic

TypeOK ==
    /\ row \in Row \union {None}
    /\ logs \in BOOLEAN
    /\ history \in Seq(Attempt)
    /\ diag \in Diagnostic \union {None}
    /\ runner \in {"idle", "queued", "executing", "recorded", "requeued"}
    /\ retries \in 0..(IF MaxRetries > 0 THEN MaxRetries ELSE 0)
    /\ round \in 0..MaxRounds
    /\ doctor \in [Doctors -> {"idle", "asking", "answered", "cleared"}]
    /\ chart \in [Doctors -> Nat]
    /\ retrier \in {"idle", "loaded", "saved"}
    /\ deleter \in {"idle", "logs", "history", "diagnostic"}
    /\ reader \in {"idle", "retries", "done"}
    /\ view \in [job : Row \union {None}, attempts : Nat]
    /\ created \in BOOLEAN /\ clean \in BOOLEAN /\ wiped \in BOOLEAN /\ raced \in BOOLEAN

Init ==
    /\ row = None
    /\ logs = FALSE
    /\ history = <<>>
    /\ diag = None
    /\ runner = "idle"
    /\ retries = 0
    /\ round = 0
    /\ doctor = [d \in Doctors |-> "idle"]
    /\ chart = [d \in Doctors |-> 0]
    /\ retrier = "idle"
    /\ deleter = "idle"
    /\ reader = "idle"
    /\ view = EmptyView
    /\ created = FALSE
    /\ clean = TRUE
    /\ wiped = FALSE
    /\ raced = FALSE

\* backoffSeconds: 2^attempt seconds, at most 60.
Backoff(attempt) == IF 2^attempt > 60 THEN 60 ELSE 2^attempt

\* Save writes the whole copy over the row, or inserts it.
Save(status, n) == row' = [status |-> status, retries |-> n, round |-> round']

Diagnosing == \E d \in Doctors : doctor[d] # "idle"

\* Somebody holds the job in memory and may still write rows of it.
InHand == runner # "idle" \/ retrier # "idle" \/ Diagnosing

-----------------------------------------------------------------------------
(* The worker *)

CreateJob ==
    /\ ~created
    /\ created' = TRUE
    /\ round' = round
    /\ Save("queued", 0)
    /\ runner' = "queued"
    /\ UNCHANGED <<logs, history, diag, retries, doctorVars, retrier, deleter, readVars, histVars>>

\* A worker has the copy: the row says running, and Execute writes its first log line.
StartJob ==
    /\ runner = "queued"
    /\ runner' = "executing"
    /\ round' = round
    /\ Save("running", retries)
    /\ logs' = TRUE
    /\ UNCHANGED <<history, diag, retries, doctorVars, retrier, deleter, readVars, created, histVars>>

\* Executor.log, as often as the job writes to its log.
Log ==
    /\ runner = "executing"
    /\ logs' = TRUE
    /\ UNCHANGED <<row, history, diag, copyVars, doctorVars, retrier, deleter, readVars, created, histVars>>

CompleteJob ==
    /\ runner = "executing"
    /\ runner' = "idle"
    /\ round' = round
    /\ Save("completed", retries)
    /\ UNCHANGED <<logs, history, diag, retries, doctorVars, retrier, deleter, readVars, created, histVars>>

\* Fault: the failed attempt is numbered by the retries before it.
RecordAttemptFromZero ==
    /\ runner = "executing"
    /\ runner' = "recorded"
    /\ history' = Append(history, [num |-> retries, backoff |-> 0])
    /\ UNCHANGED <<row, logs, diag, retries, round, doctorVars, retrier, deleter, readVars, created, histVars>>

\* handleFailure writes the attempt into the history before anything else.
RecordAttempt ==
    /\ runner = "executing"
    /\ runner' = "recorded"
    /\ history' = Append(history, [num |-> retries + 1, backoff |-> 0])
    /\ UNCHANGED <<row, logs, diag, retries, round, doctorVars, retrier, deleter, readVars, created, histVars>>

\* Fault: the row is saved before the attempt is recorded.
RequeueUnrecorded ==
    /\ runner \in {"executing", "recorded"}
    /\ retries < MaxRetries
    /\ retries' = retries + 1
    /\ round' = round
    /\ Save("queued", retries + 1)
    /\ runner' = "requeued"
    /\ UNCHANGED <<logs, history, diag, doctorVars, retrier, deleter, readVars, created, histVars>>

\* Retries are left: the row goes back to queued.
Requeue ==
    /\ runner = "recorded"
    /\ retries < MaxRetries
    /\ retries' = retries + 1
    /\ round' = round
    /\ Save("queued", retries + 1)
    /\ runner' = "requeued"
    /\ UNCHANGED <<logs, history, diag, doctorVars, retrier, deleter, readVars, created, histVars>>

\* Fault: the row is not looked for by its number.
NoteBackoffEverywhere ==
    /\ runner = "requeued"
    /\ history' = [k \in DOMAIN history |-> [history[k] EXCEPT !.backoff = Backoff(retries - 1)]]
    /\ runner' = "queued"
    /\ UNCHANGED <<row, logs, diag, retries, round, doctorVars, retrier, deleter, readVars, created, histVars>>

\* The backoff, computed before the increment, is put on every history row with the
\* attempt's number, the rows of earlier rounds included; the timer starts.
NoteBackoff ==
    /\ runner = "requeued"
    /\ history' = [k \in DOMAIN history |->
                     IF history[k].num = retries
                        THEN [history[k] EXCEPT !.backoff = Backoff(retries - 1)] ELSE history[k]]
    /\ runner' = "queued"
    /\ UNCHANGED <<row, logs, diag, retries, round, doctorVars, retrier, deleter, readVars, created, histVars>>

\* No retries are left: the row says failed, and a goroutine starts the diagnosis.
FailJob(d) ==
    /\ runner = "recorded"
    /\ retries >= MaxRetries
    /\ round' = round
    /\ Save("failed", retries)
    /\ runner' = "idle"
    /\ doctor[d] = "idle"
    /\ doctor' = [doctor EXCEPT ![d] = "asking"]
    /\ chart' = [chart EXCEPT ![d] = round]
    /\ UNCHANGED <<logs, history, diag, retries, retrier, deleter, readVars, created, histVars>>

-----------------------------------------------------------------------------
(* Diagnoses, on failure and on request *)

\* POST /api/jobs/:id/diagnose has loaded the job.
RequestDiagnosis(d) ==
    /\ row # None
    /\ doctor[d] = "idle"
    /\ doctor' = [doctor EXCEPT ![d] = "asking"]
    /\ chart' = [chart EXCEPT ![d] = row.round]
    /\ UNCHANGED <<row, logs, history, diag, copyVars, retrier, deleter, readVars, created, histVars>>

\* The engine answers, after up to 30 seconds.
Answer(d) ==
    /\ doctor[d] = "asking"
    /\ doctor' = [doctor EXCEPT ![d] = "answered"]
    /\ UNCHANGED <<row, logs, history, diag, copyVars, chart, retrier, deleter, readVars, created, histVars>>

\* Or it fails.
GiveUp(d) ==
    /\ doctor[d] = "asking"
    /\ doctor' = [doctor EXCEPT ![d] = "idle"]
    /\ UNCHANGED <<row, logs, history, diag, copyVars, chart, retrier, deleter, readVars, created, histVars>>

\* The previous diagnostic is deleted.
ClearDiagnostic(d) ==
    /\ doctor[d] = "answered"
    /\ doctor' = [doctor EXCEPT ![d] = "cleared"]
    /\ diag' = None
    /\ UNCHANGED <<row, logs, history, copyVars, chart, retrier, deleter, readVars, created, histVars>>

\* The new one is created.  job_id has a unique index: with a row there the insert
\* fails, and nobody looks at the error.
StoreDiagnostic(d) ==
    /\ doctor[d] = "cleared"
    /\ doctor' = [doctor EXCEPT ![d] = "idle"]
    /\ diag' = IF diag = None THEN [round |-> chart[d], by |-> d] ELSE diag
    /\ UNCHANGED <<row, logs, history, copyVars, chart, retrier, deleter, readVars, created, histVars>>

-----------------------------------------------------------------------------
(* RetryJob *)

RetryLoad ==
    /\ retrier = "idle"
    /\ round < MaxRounds
    /\ row # None /\ row.status = "failed"
    /\ retrier' = "loaded"
    /\ UNCHANGED <<row, logs, history, diag, copyVars, doctorVars, deleter, readVars, created, histVars>>

\* Fault: RetryCount is not reset.
RetrySaveCounting ==
    /\ retrier = "loaded"
    /\ retrier' = "saved"
    /\ round' = round + 1
    /\ Save("queued", retries)
    /\ UNCHANGED <<logs, history, diag, runner, retries, doctorVars, deleter, readVars, created, histVars>>

RetrySave ==
    /\ retrier = "loaded"
    /\ retrier' = "saved"
    /\ retries' = 0
    /\ round' = round + 1
    /\ Save("queued", 0)
    /\ UNCHANGED <<logs, history, diag, runner, doctorVars, deleter, readVars, created, histVars>>

\* Fault: the diagnostic of the failed run is kept.
RetryEnqueueOnly ==
    /\ retrier = "saved"
    /\ retrier' = "idle"
    /\ runner' = "queued"
    /\ UNCHANGED <<row, logs, history, diag, retries, round, doctorVars, deleter, readVars, created, histVars>>

\* The diagnostic is deleted and the job enqueued; the history stays.
RetryEnqueue ==
    /\ retrier = "saved"
    /\ retrier' = "idle"
    /\ diag' = None
    /\ raced' = (raced \/ \E d \in Doctors : doctor[d] # "idle" /\ chart[d] # round)
    /\ runner' = "queued"
    /\ UNCHANGED <<row, logs, history, retries, round, doctorVars, deleter, readVars, created, clean, wiped>>

-----------------------------------------------------------------------------
(* DeleteJob *)

DeleteRow ==
    /\ deleter = "idle"
    /\ row # None
    /\ row' = None
    /\ clean' = ~InHand
    /\ deleter' = "logs"
    /\ UNCHANGED <<logs, history, diag, copyVars, doctorVars, retrier, readVars, created, wiped, raced>>

DeleteLogs ==
    /\ deleter = "logs"
    /\ logs' = FALSE
    /\ deleter' = "history"
    /\ UNCHANGED <<row, history, diag, copyVars, doctorVars, retrier, readVars, created, histVars>>

DeleteHistory ==
    /\ deleter = "history"
    /\ history' = <<>>
    /\ wiped' = TRUE
    /\ deleter' = "diagnostic"
    /\ UNCHANGED <<row, logs, diag, copyVars, doctorVars, retrier, readVars, created, clean, raced>>

\* Fault: the last of the three deletions is missing.
DeleteNoDiagnostic ==
    /\ deleter = "diagnostic"
    /\ deleter' = "idle"
    /\ UNCHANGED <<row, logs, history, diag, copyVars, doctorVars, retrier, readVars, created, histVars>>

DeleteDiagnostic ==
    /\ deleter = "diagnostic"
    /\ diag' = None
    /\ deleter' = "idle"
    /\ UNCHANGED <<row, logs, history, copyVars, doctorVars, retrier, readVars, created, histVars>>

-----------------------------------------------------------------------------
(* GetJob: the job first, its attempts in a later query *)

ReadJob ==
    /\ reader = "idle"
    /\ row # None
    /\ view' = [job |-> row, attempts |-> 0]
    /\ reader' = "retries"
    /\ UNCHANGED <<row, logs, history, diag, copyVars, doctorVars, retrier, deleter, created, histVars>>

ReadRetries ==
    /\ reader = "retries"
    /\ view' = [view EXCEPT !.attempts = Len(history)]
    /\ reader' = "done"
    /\ UNCHANGED <<row, logs, history, diag, copyVars, doctorVars, retrier, deleter, created, histVars>>

Respond ==
    /\ reader = "done"
    /\ reader' = "idle"
    /\ view' = EmptyView
    /\ UNCHANGED <<row, logs, history, diag, copyVars, doctorVars, retrier, deleter, created, histVars>>

-----------------------------------------------------------------------------
Runner == CreateJob \/ StartJob \/ Log \/ CompleteJob \/ RecordAttempt \/ Requeue \/ NoteBackoff
          \/ \E d \in Doctors : FailJob(d)
Diagnosis(d) == RequestDiagnosis(d) \/ Answer(d) \/ GiveUp(d) \/ ClearDiagnostic(d) \/ StoreDiagnostic(d)
RetryJob == RetryLoad \/ RetrySave \/ RetryEnqueue
DeleteJob == DeleteRow \/ DeleteLogs \/ DeleteHistory \/ DeleteDiagnostic
GetJob == ReadJob \/ ReadRetries \/ Respond

Next == Runner \/ (\E d \in Doctors : Diagnosis(d)) \/ RetryJob \/ DeleteJob \/ GetJob

Spec == Init /\ [][Next]_vars

-----------------------------------------------------------------------------
(* Properties *)

\* A run of a job that fails throughout makes this many attempts.
AttemptsPerRound == IF MaxRetries > 0 THEN MaxRetries + 1 ELSE 1

\* The attempts of a run are numbered 1, 2, ... to the last one it has, and only a
\* manual retry starts again at 1: the retry timeline shows every attempt once.
AttemptsInOrder ==
    \A k \in DOMAIN history :
        /\ history[k].num \in 1..AttemptsPerRound
        /\ k > 1 => history[k].num =
                      IF history[k - 1].num = AttemptsPerRound THEN 1 ELSE history[k - 1].num + 1

\* handleFailure is still at work on the last entry.
Pending(k) == k = Len(history) /\ runner \in {"recorded", "requeued"}

\* What the history shows is exponential: an attempt that was retried shows a backoff, twice
\* that of the attempt before it up to the limit of a minute, and the last attempt of a run
\* shows none; although the rows are found by numbers that repeat after a manual retry.
\* Where the sequence begins is left to BackoffAsDocumented.
BackoffDoubles ==
    \A k \in DOMAIN history : ~Pending(k) =>
        IF history[k].num > MaxRetries THEN history[k].backoff = 0
        ELSE /\ history[k].backoff > 0
             /\ k > 1 /\ history[k].num > 1 =>
                   history[k].backoff = IF 2 * history[k - 1].backoff > 60 THEN 60
                                        ELSE 2 * history[k - 1].backoff

\* "Failed jobs re-queue with exponential backoff: 2s, 4s, 8s... up to max retries"
\* (SubmitJob.jsx:190); "2^n seconds (2s, 4s, 8s...) where n is the attempt number"
\* (Architecture.jsx:86-87).
BackoffAsDocumented ==
    \A k \in DOMAIN history :
        ~Pending(k) /\ history[k].num <= MaxRetries => history[k].backoff = Backoff(history[k].num)

\* What the code records: the value of backoffSeconds for the retries before the attempt,
\* which is one step behind the documented one.
BackoffOneBehind ==
    \A k \in DOMAIN history : ~Pending(k) =>
        history[k].backoff = IF history[k].num <= MaxRetries THEN Backoff(history[k].num - 1) ELSE 0

\* What GetJob returns is read query by query while the worker writes, and still never
\* shows fewer attempts than the job it shows accounts for: attempts are written before
\* the row and read after it.  (Unless a deletion empties the history in between.)
ViewHasItsAttempts ==
    reader = "done" /\ ~wiped =>
        view.attempts >= view.job.round * AttemptsPerRound + view.job.retries
                           + (IF view.job.status = "failed" THEN 1 ELSE 0)

\* "Delete job and all associated data" (README.md:189) holds if nobody had the job in
\* hand when the deletion began, whoever asks for it in the meantime.
CleanDelete ==
    clean /\ row = None /\ deleter = "idle" => ~logs /\ history = <<>> /\ diag = None

\* A retried job shows no diagnostic of a failure before the retry, unless a diagnosis
\* of that failure was still under way when the retry deleted it.
NoStaleDiagnostic ==
    retrier # "saved" /\ ~raced => diag = None \/ diag.round = round
=============================================================================
