-------------------------- MODULE JobRecordsProofs --------------------------
(***************************************************************************)
(* Proofs about JobRecords, for any numbers of retries, rounds and         *)
(* diagnoses: the history, what GetJob returns of it, what a deletion      *)
(* leaves, the age of the diagnostic, and that the job itself is treated   *)
(* as JobContract says.                                                    *)
(*                                                                         *)
(* Everything rests on who holds the job (Handing): one owner at a time,   *)
(* and RetryJob only while the copy has none.                              *)
(***************************************************************************)
EXTENDS JobRecords, SequenceTheorems, TLAPS

Limit == IF MaxRetries > 0 THEN MaxRetries ELSE 0

BackoffValue == {0} \union {Backoff(n) : n \in Nat}

\* The type invariant, with the backoffs left symbolic.
Shape ==
    /\ row \in Row \union {None}
    /\ history \in Seq([num : Nat, backoff : BackoffValue])
    /\ diag \in Diagnostic \union {None}
    /\ retries \in 0..Limit
    /\ round \in Nat
    /\ doctor \in [Doctors -> {"idle", "asking", "answered", "cleared"}]
    /\ chart \in [Doctors -> Nat]
    /\ view \in [job : Row \union {None}, attempts : Nat]

\* A job that was never created has left no trace.
Unborn ==
    ~created =>
        /\ row = None /\ ~logs /\ history = <<>> /\ diag = None
        /\ ~InHand
        /\ deleter = "idle" /\ round = 0 /\ retries = 0

\* Who holds the job, and what its row says of the copy.
Handing ==
    /\ retrier \in {"idle", "loaded", "saved"}
    /\ retrier # "idle" => runner = "idle"
    /\ retrier = "loaded" => retries = Limit
    /\ retrier = "saved" => retries = 0
    /\ runner = "requeued" => retries > 0 /\ retries <= MaxRetries
    /\ row # None => row.round = round
    /\ row # None /\ row.status = "failed" =>
          /\ runner = "idle" /\ retrier # "saved"
          /\ retries = Limit /\ row.retries = Limit

Last == history[Len(history)]

\* A run of the job has come to its end, or will be taken up again at its beginning.
AtEnd == retrier # "idle" \/ (row # None /\ row.status = "failed")

\* The number of the last attempt, by what the owner of the copy has done since.
LastNumber ==
    history # <<>> =>
        /\ runner \in {"queued", "executing"} =>
              Last.num = IF retries = 0 THEN AttemptsPerRound ELSE retries
        /\ runner = "recorded" => Last.num = retries + 1 /\ Last.backoff = 0
        /\ runner = "requeued" => Last.num = retries
        /\ AtEnd => Last.num = AttemptsPerRound

\* The attempts made before round n.
Before(n) == n * AttemptsPerRound

Weight(job) == Before(job.round) + job.retries + (IF job.status = "failed" THEN 1 ELSE 0)

\* The history has every attempt the copy, the row and the view account for.
Counted ==
    /\ ~wiped => /\ Len(history) >= Before(round) + retries + (IF runner = "recorded" THEN 1 ELSE 0)
                 /\ retrier = "loaded" => Len(history) >= Before(round) + AttemptsPerRound
                 /\ row # None => Len(history) >= Weight(row)
    /\ reader # "idle" => view.job \in Row
    /\ reader = "retries" /\ ~wiped => Len(history) >= Weight(view.job)
    /\ reader = "done" /\ ~wiped => view.attempts >= Weight(view.job)

\* While a deletion that began with the job in nobody's hands goes on, and after it, the job
\* stays in nobody's hands.
Cleaning ==
    clean /\ (row = None \/ deleter # "idle") =>
        /\ row = None /\ ~InHand
        /\ deleter # "logs" => ~logs
        /\ deleter \notin {"logs", "history"} => history = <<>>
        /\ deleter = "idle" => diag = None

\* Diagnostics and diagnoses under way are of the present round.
Fresh ==
    retrier # "saved" /\ ~raced =>
        /\ diag = None \/ diag.round = round
        /\ \A d \in Doctors : doctor[d] # "idle" => chart[d] = round

Inv == /\ Shape /\ Unborn /\ Handing
       /\ AttemptsInOrder /\ LastNumber /\ BackoffOneBehind
       /\ Counted /\ Cleaning /\ Fresh

-----------------------------------------------------------------------------
\* The limits as numbers.
LEMMA Limits ==
  /\ Limit \in Nat /\ AttemptsPerRound = Limit + 1
  /\ MaxRetries > 0 => Limit = MaxRetries
  /\ MaxRetries <= 0 => Limit = 0
  /\ MaxRetries \in Int
  BY LimitAssumption DEF Limit, AttemptsPerRound

\* The attempts of one more round.
LEMMA OneRoundMore ==
  ASSUME NEW n \in Nat
  PROVE  Before(n) \in Nat /\ Before(n + 1) = Before(n) + AttemptsPerRound
<1>1. AttemptsPerRound \in Nat
  BY Limits
<1>2. \A a \in Nat : n * a \in Nat /\ (n + 1) * a = n * a + a
  OBVIOUS
<1> QED
  BY <1>1, <1>2 DEF Before

\* What Save writes is a row.
LEMMA SavedIsRow ==
  ASSUME NEW s \in {"queued", "running", "completed", "failed"}, NEW n \in Nat, round' \in Nat, Save(s, n)
  PROVE  /\ row' \in Row /\ row' # None
         /\ row'.status = s /\ row'.retries = n /\ row'.round = round'
  BY NoneAssumption DEF Save, Row

\* The initial state.
LEMMA InitInv == Init => Inv
<1> SUFFICES ASSUME Init PROVE Inv
  OBVIOUS
<1>1. Shape
  BY Limits DEF Init, Shape, EmptyView
<1>2. Unborn /\ Cleaning
  BY DEF Init, Unborn, Cleaning, InHand, Diagnosing
<1>3. Handing /\ Fresh
  BY DEF Init, Handing, Fresh
<1>4. AttemptsInOrder /\ LastNumber /\ BackoffOneBehind
  BY DEF Init, AttemptsInOrder, LastNumber, BackoffOneBehind
<1>5. Counted
  <2>1. Before(0) = 0
    <3>1. \A a \in Nat : 0 * a = 0
      OBVIOUS
    <3> QED
      BY <3>1, Limits DEF Before
  <2> QED
    BY <2>1 DEF Init, Counted
<1> QED
  BY <1>1, <1>2, <1>3, <1>4, <1>5 DEF Inv

-----------------------------------------------------------------------------
(* Types and owners *)

\* A function on 1..n is a sequence.
LEMMA ListIsSeq ==
  ASSUME NEW S, NEW n \in Nat, NEW f \in [1..n -> S]
  PROVE  f \in Seq(S)
  BY SeqDef

\* The runner's steps keep the types.
LEMMA ShapeRunner == Inv /\ Runner => Shape'
<1> SUFFICES ASSUME Inv, Runner PROVE Shape'
  OBVIOUS
<1> USE DEF Shape
<1>1. Shape
  BY DEF Inv
<1>2. retries \in Nat /\ round \in Nat /\ 0 \in 0..Limit
  BY <1>1, Limits
<1>3. CASE CreateJob
  BY <1>1, <1>2, <1>3, SavedIsRow DEF CreateJob, doctorVars, readVars
<1>4. CASE StartJob
  BY <1>1, <1>2, <1>4, SavedIsRow DEF StartJob, doctorVars, readVars
<1>5. CASE Log
  BY <1>1, <1>5 DEF Log, copyVars, doctorVars, readVars
<1>6. CASE CompleteJob
  BY <1>1, <1>2, <1>6, SavedIsRow DEF CompleteJob, doctorVars, readVars
<1>7. CASE RecordAttempt
  <2>1. [num |-> retries + 1, backoff |-> 0] \in [num : Nat, backoff : BackoffValue]
    BY <1>2 DEF BackoffValue
  <2>2. history' \in Seq([num : Nat, backoff : BackoffValue])
    BY <1>1, <1>7, <2>1 DEF RecordAttempt
  <2> QED
    BY <1>1, <1>7, <2>2 DEF RecordAttempt, doctorVars, readVars
<1>8. CASE Requeue
  <2>1. retries + 1 \in 0..Limit /\ retries + 1 \in Nat
    BY <1>1, <1>8, Limits DEF Requeue
  <2> QED
    BY <1>1, <1>2, <1>8, <2>1, SavedIsRow DEF Requeue, doctorVars, readVars
<1>9. CASE NoteBackoff
  <2>1. retries > 0
    BY <1>9 DEF NoteBackoff, Inv, Handing
  <2>2. Backoff(retries - 1) \in BackoffValue
    <3>1. retries - 1 \in Nat
      BY <1>2, <2>1
    <3> QED
      BY <3>1, Zenon DEF BackoffValue
  <2> HIDE DEF Shape
  <2>3. /\ Len(history) \in Nat /\ DOMAIN history = 1..Len(history)
        /\ \A k \in DOMAIN history : history[k] \in [num : Nat, backoff : BackoffValue]
    <3>1. history \in Seq([num : Nat, backoff : BackoffValue])
      BY <1>1 DEF Shape
    <3>2. Len(history) \in Nat /\ DOMAIN history = 1..Len(history)
      BY <3>1, LenProperties
    <3> QED
      BY <3>1, <3>2, ElementOfSeq
  <2>4. \A k \in DOMAIN history :
          (IF history[k].num = retries THEN [history[k] EXCEPT !.backoff = Backoff(retries - 1)]
           ELSE history[k]) \in [num : Nat, backoff : BackoffValue]
    BY <2>2, <2>3
  <2>5. history' \in [1..Len(history) -> [num : Nat, backoff : BackoffValue]]
    BY <1>9, <2>3, <2>4 DEF NoteBackoff
  <2>6. history' \in Seq([num : Nat, backoff : BackoffValue])
    <3> DEFINE n == Len(history)
    <3>1. n \in Nat /\ history' \in [1..n -> [num : Nat, backoff : BackoffValue]]
      BY <2>3, <2>5
    <3> HIDE DEF n
    <3> QED
      BY <3>1, ListIsSeq
  <2> QED
    BY <1>1, <1>9, <2>6 DEF Shape, NoteBackoff, doctorVars, readVars
<1>10. ASSUME NEW d \in Doctors, FailJob(d) PROVE Shape'
  BY <1>1, <1>2, <1>10, SavedIsRow DEF FailJob, readVars
<1> QED
  BY <1>3, <1>4, <1>5, <1>6, <1>7, <1>8, <1>9, <1>10 DEF Runner

\* So do those of everybody else.
LEMMA ShapeOthers ==
  ASSUME Inv, (\E d \in Doctors : Diagnosis(d)) \/ RetryJob \/ DeleteJob \/ GetJob
  PROVE  Shape'
<1>1. Shape
  BY DEF Inv
<1>2. row # None => row \in Row /\ row.round \in Nat /\ row.retries \in Nat
  BY <1>1 DEF Shape, Row
<1>3. ASSUME NEW d \in Doctors, Diagnosis(d) PROVE Shape'
  <2> USE DEF copyVars, readVars
  <2>1. CASE RequestDiagnosis(d)
    BY <1>1, <1>2, <2>1 DEF Shape, RequestDiagnosis
  <2>2. CASE Answer(d) \/ GiveUp(d) \/ ClearDiagnostic(d)
    BY <1>1, <2>2 DEF Shape, Answer, GiveUp, ClearDiagnostic
  <2>3. CASE StoreDiagnostic(d)
    <3>1. [round |-> chart[d], by |-> d] \in Diagnostic
      BY <1>1 DEF Shape, Diagnostic
    <3> QED
      BY <1>1, <2>3, <3>1 DEF Shape, StoreDiagnostic
  <2> QED
    BY <1>3, <2>1, <2>2, <2>3 DEF Diagnosis
<1>4. CASE RetryJob
  <2>1. CASE RetrySave
    <3>1. round + 1 \in Nat /\ 0 \in 0..Limit
      BY <1>1, Limits DEF Shape
    <3> QED
      BY <1>1, <2>1, <3>1, SavedIsRow DEF Shape, RetrySave, doctorVars, readVars
  <2>2. CASE RetryLoad \/ RetryEnqueue
    BY <1>1, <2>2 DEF Shape, RetryLoad, RetryEnqueue, copyVars, doctorVars, readVars
  <2> QED
    BY <1>4, <2>1, <2>2 DEF RetryJob
<1>5. CASE DeleteJob
  <2> USE DEF copyVars, doctorVars, readVars
  <2>1. CASE DeleteHistory
    BY <1>1, <2>1 DEF Shape, DeleteHistory
  <2>2. CASE DeleteRow
    BY <1>1, <2>2 DEF Shape, DeleteRow
  <2>3. CASE DeleteLogs \/ DeleteDiagnostic
    BY <1>1, <2>3 DEF Shape, DeleteLogs, DeleteDiagnostic
  <2> QED
    BY <1>5, <2>1, <2>2, <2>3 DEF DeleteJob
<1>6. CASE GetJob
  <2>1. CASE ReadJob
    BY <1>1, <1>2, <2>1 DEF Shape, ReadJob, copyVars, doctorVars
  <2>2. CASE ReadRetries
    BY <1>1, <2>2, LenProperties DEF Shape, ReadRetries, copyVars, doctorVars
  <2>3. CASE Respond
    BY <1>1, <2>3 DEF Shape, Respond, EmptyView, copyVars, doctorVars
  <2> QED
    BY <1>6, <2>1, <2>2, <2>3 DEF GetJob
<1> QED
  BY <1>3, <1>4, <1>5, <1>6

\* A job is created once, by CreateJob; what finds a row, a copy or a diagnosis finds a
\* created job.
LEMMA UnbornStep == Inv /\ Next => Unborn'
<1> SUFFICES ASSUME Inv, Next, ~created' PROVE Unborn'
  BY DEF Unborn
<1>1. created' = created \/ created'
  BY DEF Next, Runner, CreateJob, StartJob, Log, CompleteJob, RecordAttempt, Requeue, NoteBackoff,
         FailJob, Diagnosis, RequestDiagnosis, Answer, GiveUp, ClearDiagnostic, StoreDiagnostic,
         RetryJob, RetryLoad, RetrySave, RetryEnqueue, DeleteJob, DeleteRow, DeleteLogs,
         DeleteHistory, DeleteDiagnostic, GetJob, ReadJob, ReadRetries, Respond
<1>2. /\ row = None /\ runner = "idle" /\ retrier = "idle" /\ deleter = "idle"
      /\ \A d \in Doctors : doctor[d] = "idle"
  BY <1>1 DEF Inv, Unborn, InHand, Diagnosing
<1>3. GetJob
  BY <1>2 DEF Next, Runner, CreateJob, StartJob, Log, CompleteJob, RecordAttempt, Requeue, NoteBackoff,
         FailJob, Diagnosis, RequestDiagnosis, Answer, GiveUp, ClearDiagnostic, StoreDiagnostic,
         RetryJob, RetryLoad, RetrySave, RetryEnqueue, DeleteJob, DeleteRow, DeleteLogs,
         DeleteHistory, DeleteDiagnostic
<1>4. UNCHANGED <<created, row, logs, history, diag, runner, retrier, doctor, deleter, round, retries>>
  BY <1>3 DEF GetJob, ReadJob, ReadRetries, Respond, copyVars, doctorVars
<1> QED
  BY <1>1, <1>4 DEF Inv, Unborn, InHand, Diagnosing

\* Ownership passes from one holder to the next.
LEMMA HandingStep == Inv /\ Next => Handing'
<1> SUFFICES ASSUME Inv, Next PROVE Handing'
  OBVIOUS
<1>1. Shape /\ Handing /\ Unborn
  BY DEF Inv
<1>2. /\ retries \in Nat /\ round \in Nat /\ retries + 1 \in Nat /\ round + 1 \in Nat
      /\ 0 <= retries /\ retries <= Limit
  BY <1>1, Limits DEF Shape
<1>3. CASE CreateJob
  <2>1. row' # None /\ row'.status = "queued" /\ row'.round = round' /\ round' = round
    BY <1>2, <1>3, SavedIsRow DEF CreateJob
  <2>2. retrier' = "idle" /\ runner' = "queued"
    BY <1>1, <1>3 DEF CreateJob, Unborn, InHand
  <2> QED
    BY <2>1, <2>2 DEF Handing
<1>4. CASE StartJob
  <2>1. row' # None /\ row'.status = "running" /\ row'.round = round' /\ round' = round
    BY <1>2, <1>4, SavedIsRow DEF StartJob
  <2>2. retrier' = "idle" /\ runner' = "executing"
    BY <1>1, <1>4 DEF StartJob, Handing
  <2> QED
    BY <2>1, <2>2 DEF Handing
<1>5. CASE Log
  BY <1>1, <1>5 DEF Log, Handing, copyVars
<1>6. CASE CompleteJob
  <2>1. row' # None /\ row'.status = "completed" /\ row'.round = round' /\ round' = round
    BY <1>2, <1>6, SavedIsRow DEF CompleteJob
  <2>2. retrier' = "idle" /\ runner' = "idle"
    BY <1>1, <1>6 DEF CompleteJob, Handing
  <2> QED
    BY <2>1, <2>2 DEF Handing
<1>7. CASE RecordAttempt
  BY <1>1, <1>7 DEF RecordAttempt, Handing
<1>8. CASE Requeue
  <2>1. row' # None /\ row'.status = "queued" /\ row'.round = round' /\ round' = round
    BY <1>2, <1>8, SavedIsRow DEF Requeue
  <2>2. retrier' = "idle" /\ runner' = "requeued"
    BY <1>1, <1>8 DEF Requeue, Handing
  <2>3. retries' > 0 /\ retries' <= MaxRetries
    BY <1>2, <1>8, Limits DEF Requeue
  <2> QED
    BY <2>1, <2>2, <2>3 DEF Handing
<1>9. CASE NoteBackoff
  BY <1>1, <1>9 DEF NoteBackoff, Handing
<1>10. ASSUME NEW d \in Doctors, FailJob(d) PROVE Handing'
  <2>1. /\ row' # None /\ row'.status = "failed" /\ row'.round = round' /\ round' = round
        /\ row'.retries = retries
    BY <1>2, <1>10, SavedIsRow DEF FailJob
  <2>2. retrier' = "idle" /\ runner' = "idle"
    BY <1>1, <1>10 DEF FailJob, Handing
  <2>3. retries' = retries /\ retries = Limit
    BY <1>2, <1>10, Limits DEF FailJob
  <2> QED
    BY <2>1, <2>2, <2>3 DEF Handing
<1>11. ASSUME NEW d \in Doctors, Diagnosis(d) PROVE Handing'
  BY <1>1, <1>11 DEF Diagnosis, RequestDiagnosis, Answer, GiveUp, ClearDiagnostic, StoreDiagnostic,
                     Handing, copyVars
<1>12. CASE RetryLoad
  BY <1>1, <1>12 DEF RetryLoad, Handing, copyVars
<1>13. CASE RetrySave
  <2>1. row' # None /\ row'.status = "queued" /\ row'.round = round'
    BY <1>2, <1>13, SavedIsRow DEF RetrySave
  <2>2. retrier' = "saved" /\ runner' = "idle" /\ retries' = 0
    BY <1>1, <1>13 DEF RetrySave, Handing
  <2> QED
    BY <2>1, <2>2 DEF Handing
<1>14. CASE RetryEnqueue
  BY <1>1, <1>14 DEF RetryEnqueue, Handing
<1>15. CASE DeleteJob
  BY <1>1, <1>15 DEF DeleteJob, DeleteRow, DeleteLogs, DeleteHistory, DeleteDiagnostic, Handing, copyVars
<1>16. CASE GetJob
  BY <1>1, <1>16 DEF GetJob, ReadJob, ReadRetries, Respond, Handing, copyVars
<1> QED
  BY <1>3, <1>4, <1>5, <1>6, <1>7, <1>8, <1>9, <1>10, <1>11, <1>12, <1>13, <1>14, <1>15, <1>16
  DEF Next, Runner, RetryJob

-----------------------------------------------------------------------------
(* The retry history *)

\* Steps that leave the history and the copy's owner alone.
Quiet == UNCHANGED <<history, runner, retries>>

Ordered == AttemptsInOrder /\ LastNumber /\ BackoffOneBehind

\* A step that leaves history and owner alone keeps the order, if the job is not at the end
\* of a run where it was not before.
LEMMA QuietKeepsOrder ==
  ASSUME Ordered, Quiet, AtEnd' => AtEnd
  PROVE  Ordered'
<1>1. AttemptsInOrder' /\ BackoffOneBehind'
  BY DEF Ordered, Quiet, AttemptsInOrder, BackoffOneBehind, Pending
<1>2. LastNumber'
  BY DEF Ordered, Quiet, LastNumber, Last
<1> QED
  BY <1>1, <1>2 DEF Ordered

\* An empty history is in order.
LEMMA EmptyIsOrdered ==
  ASSUME history' = <<>>
  PROVE  Ordered'
  BY DEF Ordered, AttemptsInOrder, LastNumber, BackoffOneBehind

\* One more attempt follows the last one.
LEMMA RecordKeepsOrder ==
  ASSUME Inv, RecordAttempt
  PROVE  Ordered'
<1> DEFINE T == [num : Nat, backoff : BackoffValue]
           new == [num |-> retries + 1, backoff |-> 0]
           n == Len(history)
<1>1. history \in Seq(T) /\ retries \in 0..Limit
  BY DEF Inv, Shape
<1>2. new \in T
  BY <1>1, Limits DEF BackoffValue
<1>3. history' = Append(history, new) /\ runner = "executing" /\ runner' = "recorded" /\ retries' = retries
  BY DEF RecordAttempt
<1>4. /\ n \in Nat /\ Len(history') = n + 1 /\ history'[n + 1] = new
      /\ \A k \in 1..n : history'[k] = history[k]
      /\ DOMAIN history = 1..n /\ DOMAIN history' = 1..(n + 1)
  BY <1>1, <1>2, <1>3, AppendProperties, LenProperties
<1>5. new.num = retries + 1 /\ new.backoff = 0 /\ new.num \in 1..AttemptsPerRound
  BY <1>1, Limits
<1>6. n # 0 => history # <<>> /\ history[n].num = IF retries = 0 THEN AttemptsPerRound ELSE retries
  BY <1>3, <1>4 DEF Inv, LastNumber, Last
<1> HIDE DEF new, n, T
<1>7. AttemptsInOrder'
  <2> SUFFICES ASSUME NEW k \in 1..(n + 1)
               PROVE  /\ history'[k].num \in 1..AttemptsPerRound
                      /\ k > 1 => history'[k].num = IF history'[k - 1].num = AttemptsPerRound THEN 1
                                                    ELSE history'[k - 1].num + 1
    BY <1>4 DEF AttemptsInOrder, AttemptsPerRound
  <2>1. CASE k \in 1..n
    <3>1. history'[k] = history[k] /\ (k > 1 => history'[k - 1] = history[k - 1])
      BY <1>4, <2>1
    <3> QED
      BY <1>4, <2>1, <3>1 DEF Inv, AttemptsInOrder
  <2>2. CASE k = n + 1
    <3>1. n # 0 => history'[n].num = IF retries = 0 THEN AttemptsPerRound ELSE retries
      BY <1>4, <1>6
    <3>2. n # 0 => history'[n].num \in 1..AttemptsPerRound
      BY <1>4 DEF Inv, AttemptsInOrder
    <3> QED
      BY <1>1, <1>4, <1>5, <2>2, <3>1, <3>2, Limits
  <2> QED
    BY <1>4, <2>1, <2>2
<1>8. BackoffOneBehind'
  <2> SUFFICES ASSUME NEW k \in 1..(n + 1), ~Pending(k)'
               PROVE  history'[k].backoff = IF history'[k].num <= MaxRetries
                                               THEN Backoff(history'[k].num - 1) ELSE 0
    BY <1>4 DEF BackoffOneBehind, Backoff
  <2>1. k \in 1..n
    BY <1>3, <1>4 DEF Pending
  <2>2. ~Pending(k)
    BY <1>3 DEF Pending
  <2> QED
    BY <1>4, <2>1, <2>2 DEF Inv, BackoffOneBehind
<1>9. LastNumber'
  <2>1. ~AtEnd'
    BY DEF Inv, Handing, AtEnd, RecordAttempt
  <2> QED
    BY <1>3, <1>4, <1>5, <2>1 DEF LastNumber, Last
<1> QED
  BY <1>7, <1>8, <1>9 DEF Ordered

\* The backoff goes to the attempts of one number, which are all to have the same.
LEMMA NoteKeepsOrder ==
  ASSUME Inv, NoteBackoff
  PROVE  Ordered'
<1> DEFINE T == [num : Nat, backoff : BackoffValue]
           n == Len(history)
<1>1. history \in Seq(T) /\ runner = "requeued" /\ runner' = "queued" /\ retries' = retries
      /\ retries \in Nat /\ retries > 0 /\ retries <= MaxRetries
  BY Limits DEF Inv, Shape, Handing, NoteBackoff
<1>2. n \in Nat /\ DOMAIN history = 1..n /\ \A k \in 1..n : history[k] \in T
  BY <1>1, LenProperties, ElementOfSeq
<1>3. history' = [k \in 1..n |-> IF history[k].num = retries
                    THEN [history[k] EXCEPT !.backoff = Backoff(retries - 1)] ELSE history[k]]
  BY <1>2 DEF NoteBackoff
<1>4. DOMAIN history' = 1..n
  BY <1>3
<1>5. \A k \in 1..n : /\ history'[k].num = history[k].num
                      /\ history'[k].backoff = IF history[k].num = retries THEN Backoff(retries - 1)
                                               ELSE history[k].backoff
  <2> TAKE k \in 1..n
  <2>1. history[k] \in T
    BY <1>2
  <2>2. history'[k] = IF history[k].num = retries
                        THEN [history[k] EXCEPT !.backoff = Backoff(retries - 1)] ELSE history[k]
    BY <1>3
  <2> QED
    BY <2>1, <2>2
<1>6. AttemptsInOrder'
  <2> SUFFICES ASSUME NEW k \in 1..n
               PROVE  /\ history'[k].num \in 1..AttemptsPerRound
                      /\ k > 1 => history'[k].num = IF history'[k - 1].num = AttemptsPerRound THEN 1
                                                    ELSE history'[k - 1].num + 1
    BY <1>4 DEF AttemptsInOrder, AttemptsPerRound
  <2>1. /\ history[k].num \in 1..AttemptsPerRound
        /\ k > 1 => history[k].num = IF history[k - 1].num = AttemptsPerRound THEN 1
                                     ELSE history[k - 1].num + 1
    BY <1>2 DEF Inv, AttemptsInOrder
  <2>2. k > 1 => k - 1 \in 1..n
    BY <1>2
  <2> QED
    BY <1>5, <2>1, <2>2
<1>7. /\ history' = <<>> <=> history = <<>>
      /\ history # <<>> => n # 0 /\ Len(history') = n
  <2>1. history' \in Seq({history'[k] : k \in 1..n}) /\ Len(history') = n
    BY <1>2, <1>3, <1>4, IsASeq
  <2>2. history' = <<>> <=> n = 0
    BY <2>1, EmptySeq
  <2>3. history = <<>> <=> n = 0
    BY <1>1, EmptySeq
  <2> QED
    BY <2>1, <2>2, <2>3
<1>8. n # 0 => history[n].num = retries
  BY <1>1, <1>7, EmptySeq DEF Inv, LastNumber, Last
<1>9. BackoffOneBehind'
  <2> SUFFICES ASSUME NEW k \in 1..n
               PROVE  history'[k].backoff = IF history'[k].num <= MaxRetries
                                               THEN Backoff(history'[k].num - 1) ELSE 0
    BY <1>4 DEF BackoffOneBehind, Backoff
  <2>1. CASE history[k].num = retries
    BY <1>1, <1>5, <2>1
  <2>2. CASE history[k].num # retries
    <3>1. k # n
      <4>1. n # 0
        BY <1>2
      <4>2. history[n].num = retries
        BY <1>8, <4>1
      <4> QED
        BY <2>2, <4>2, Zenon
    <3>2. ~Pending(k)
      BY <3>1 DEF Pending
    <3> QED
      BY <1>2, <1>5, <2>2, <3>2 DEF Inv, BackoffOneBehind
  <2> QED
    BY <2>1, <2>2
<1>10. LastNumber'
  <2>1. ~AtEnd'
    BY DEF Inv, Handing, AtEnd, NoteBackoff
  <2>2. n # 0 => history'[n].num = retries
    BY <1>2, <1>5, <1>8
  <2> QED
    BY <1>1, <1>7, <2>1, <2>2 DEF LastNumber, Last
<1> QED
  BY <1>6, <1>9, <1>10 DEF Ordered

\* Every step keeps the history in order.
LEMMA OrderStep == Inv /\ Next => Ordered'
<1> SUFFICES ASSUME Inv, Next PROVE Ordered'
  OBVIOUS
<1>1. Shape /\ Handing /\ Ordered /\ Unborn
  BY DEF Inv, Ordered
<1>2. retries \in Nat /\ round \in Nat /\ retries + 1 \in Nat
  BY <1>1, Limits DEF Shape
<1>3. CASE RecordAttempt
  BY <1>3, RecordKeepsOrder
<1>4. CASE NoteBackoff
  BY <1>4, NoteKeepsOrder
<1>5. CASE DeleteHistory
  BY <1>5, EmptyIsOrdered DEF DeleteHistory
<1>6. CASE CreateJob
  BY <1>1, <1>6, EmptyIsOrdered DEF CreateJob, Unborn
\* The owner of the copy goes on, and the last attempt is what it says.
<1>7. CASE StartJob
  <2>1. ~AtEnd'
    BY <1>1, <1>2, <1>7, SavedIsRow DEF StartJob, Handing, AtEnd
  <2> QED
    BY <1>1, <1>7, <2>1 DEF StartJob, Ordered, AttemptsInOrder, BackoffOneBehind, Pending, LastNumber, Last
<1>8. CASE CompleteJob
  <2>1. ~AtEnd'
    BY <1>1, <1>2, <1>8, SavedIsRow DEF CompleteJob, Handing, AtEnd
  <2> QED
    BY <1>1, <1>8, <2>1 DEF CompleteJob, Ordered, AttemptsInOrder, BackoffOneBehind, Pending, LastNumber, Last
<1>9. CASE Requeue
  <2>1. ~AtEnd'
    BY <1>1, <1>2, <1>9, SavedIsRow DEF Requeue, Handing, AtEnd
  <2> QED
    BY <1>1, <1>9, <2>1 DEF Requeue, Ordered, AttemptsInOrder, BackoffOneBehind, Pending, LastNumber, Last
<1>10. ASSUME NEW d \in Doctors, FailJob(d) PROVE Ordered'
  <2>1. runner = "recorded" /\ runner' = "idle" /\ UNCHANGED <<history, retries>> /\ retries >= MaxRetries
    BY <1>10 DEF FailJob
  <2>2. retries + 1 = AttemptsPerRound
    BY <1>1, <2>1, Limits DEF Shape
  <2>3. history # <<>> => Last.num = AttemptsPerRound /\ Last.backoff = 0
    BY <1>1, <2>1, <2>2 DEF Ordered, LastNumber
  <2>4. LastNumber' /\ AttemptsInOrder'
    BY <1>1, <2>1, <2>3 DEF Ordered, LastNumber, AttemptsInOrder, Last, AttemptsPerRound
  <2>5. BackoffOneBehind'
    <3> SUFFICES ASSUME NEW k \in DOMAIN history
                 PROVE  history[k].backoff = IF history[k].num <= MaxRetries
                                                THEN Backoff(history[k].num - 1) ELSE 0
      BY <2>1 DEF BackoffOneBehind, Backoff
    <3>1. CASE k = Len(history)
      <4>1. AttemptsPerRound > MaxRetries
        BY Limits
      <4> QED
        BY <2>3, <3>1, <4>1, Limits DEF Last
    <3>2. CASE k # Len(history)
      BY <1>1, <3>2 DEF Ordered, BackoffOneBehind, Pending
    <3> QED
      BY <3>1, <3>2
  <2> QED
    BY <2>4, <2>5 DEF Ordered
\* A retry begins where a run has ended.
<1>11. CASE RetrySave
  <2>1. runner = "idle" /\ UNCHANGED <<history, runner>> /\ AtEnd
    BY <1>1, <1>11 DEF RetrySave, Handing, AtEnd
  <2> QED
    BY <1>1, <2>1 DEF Ordered, AttemptsInOrder, BackoffOneBehind, Pending, LastNumber, Last
<1>12. CASE RetryEnqueue
  <2>1. /\ runner = "idle" /\ UNCHANGED <<history, row, retries>> /\ AtEnd /\ retries = 0
        /\ runner' = "queued" /\ ~AtEnd'
    BY <1>1, <1>12 DEF RetryEnqueue, Handing, AtEnd
  <2> QED
    BY <1>1, <2>1 DEF Ordered, AttemptsInOrder, BackoffOneBehind, Pending, LastNumber, Last
<1>13. CASE RetryLoad
  <2>1. Quiet /\ AtEnd
    BY <1>13 DEF RetryLoad, Quiet, AtEnd, copyVars
  <2> QED
    BY <1>1, <2>1, QuietKeepsOrder
\* Nobody else disturbs it.
<1>14. ASSUME NEW d \in Doctors, Diagnosis(d) PROVE Ordered'
  <2>1. Quiet /\ AtEnd' = AtEnd
    BY <1>14 DEF Diagnosis, RequestDiagnosis, Answer, GiveUp, ClearDiagnostic, StoreDiagnostic,
                 Quiet, AtEnd, copyVars
  <2> QED
    BY <1>1, <2>1, QuietKeepsOrder
<1>15. CASE Log \/ DeleteRow \/ DeleteLogs \/ DeleteDiagnostic \/ GetJob
  <2>1. Quiet /\ (AtEnd' => AtEnd)
    BY <1>15 DEF Log, DeleteRow, DeleteLogs, DeleteDiagnostic, GetJob, ReadJob, ReadRetries, Respond,
                 Quiet, AtEnd, copyVars
  <2> QED
    BY <1>1, <2>1, QuietKeepsOrder
<1> QED
  BY <1>3, <1>4, <1>5, <1>6, <1>7, <1>8, <1>9, <1>10, <1>11, <1>12, <1>13, <1>14, <1>15
  DEF Next, Runner, RetryJob, DeleteJob

-----------------------------------------------------------------------------
(* The number of attempts *)

\* What is shown or counted of the attempts is covered by a history at least as long.
LEMMA CountedStep == Inv /\ Next => Counted'
<1> SUFFICES ASSUME Inv, Next PROVE Counted'
  OBVIOUS
<1>1. Shape /\ Handing /\ Counted /\ Unborn
  BY DEF Inv
<1>2. /\ retries \in Nat /\ round \in Nat /\ retries + 1 \in Nat /\ round + 1 \in Nat
      /\ retries <= Limit /\ AttemptsPerRound = Limit + 1 /\ Limit \in Nat
  BY <1>1, Limits DEF Shape
<1>3. Len(history) \in Nat /\ Before(round) \in Nat /\ Before(round + 1) = Before(round) + AttemptsPerRound
  BY <1>1, <1>2, OneRoundMore, LenProperties DEF Shape
\* A saved row accounts for what its copy has done.
<1>4. ASSUME NEW s \in {"queued", "running", "completed", "failed"}, NEW n \in Nat, round' \in Nat, Save(s, n),
             UNCHANGED <<history, wiped, readVars>>, retrier' # "loaded",
             ~wiped => /\ Len(history) >= Before(round') + n + (IF s = "failed" THEN 1 ELSE 0)
                       /\ Len(history) >= Before(round') + retries' + (IF runner' = "recorded" THEN 1 ELSE 0)
      PROVE Counted'
  <2>1. ~wiped => Len(history) >= Weight(row')
    <3>1. row'.status = s /\ row'.retries = n /\ row'.round = round'
      BY <1>4, SavedIsRow
    <3> QED
      BY <1>4, <3>1 DEF Weight
  <2> QED
    BY <1>1, <1>4, <2>1 DEF Counted, Weight, Before, readVars
<1>5. CASE CreateJob
  <2>1. Len(history) >= Before(round) + 0 + 0 /\ Len(history) >= Before(round) + retries + 0
    <3>1. round = 0 /\ retries = 0
      BY <1>1, <1>5 DEF CreateJob, Unborn
    <3>2. Before(0) = 0
      <4>1. \A a \in Nat : 0 * a = 0
        OBVIOUS
      <4> QED
        BY <4>1, Limits DEF Before
    <3> QED
      BY <1>3, <3>1, <3>2
  <2>2. retrier' = "idle"
    BY <1>1, <1>5 DEF CreateJob, Unborn, InHand
  <2> QED
    BY <1>2, <1>4, <1>5, <2>1, <2>2 DEF CreateJob, histVars
<1>6. CASE StartJob
  BY <1>1, <1>2, <1>3, <1>4, <1>6 DEF StartJob, Counted, Handing, histVars
<1>7. CASE CompleteJob
  BY <1>1, <1>2, <1>3, <1>4, <1>7 DEF CompleteJob, Counted, Handing, histVars
<1>8. CASE Requeue
  BY <1>1, <1>2, <1>3, <1>4, <1>8 DEF Requeue, Counted, Handing, histVars
<1>9. ASSUME NEW d \in Doctors, FailJob(d) PROVE Counted'
  BY <1>1, <1>2, <1>3, <1>4, <1>9 DEF FailJob, Counted, Handing, histVars
<1>10. CASE RetrySave
  BY <1>1, <1>2, <1>3, <1>4, <1>10 DEF RetrySave, Counted, Handing, histVars
\* The history grows by the attempt recorded.
<1>11. CASE RecordAttempt
  <2>1. Len(history') = Len(history) + 1
    <3>1. [num |-> retries + 1, backoff |-> 0] \in [num : Nat, backoff : BackoffValue]
      BY <1>2 DEF BackoffValue
    <3> QED
      BY <1>1, <1>11, <3>1, AppendProperties DEF Shape, RecordAttempt
  <2>2. /\ UNCHANGED <<row, retries, round, retrier, view, reader, wiped>>
        /\ runner = "executing" /\ retrier = "idle"
    BY <1>1, <1>11 DEF RecordAttempt, Handing, readVars, histVars
  <2>3. ASSUME NEW job \in Row PROVE Weight(job) \in Int
    <3>1. job.round \in Nat /\ job.retries \in Nat
      BY DEF Row
    <3> QED
      BY <3>1, OneRoundMore DEF Weight
  <2>4. row # None => Weight(row) \in Int
    BY <1>1, <2>3 DEF Shape
  <2>5. Before(round)' = Before(round) /\ Weight(row)' = Weight(row) /\ Weight(view.job)' = Weight(view.job)
    BY <2>2 DEF Before, Weight, AttemptsPerRound
  <2> QED
    BY <1>1, <1>2, <1>3, <2>1, <2>2, <2>3, <2>4, <2>5 DEF Counted
<1>12. CASE NoteBackoff
  <2>1. Len(history') = Len(history)
    <3>1. DOMAIN history = 1..Len(history)
      BY <1>1, LenProperties DEF Shape
    <3>2. \A k \in 1..Len(history) : history'[k] \in {history'[j] : j \in 1..Len(history)}
      OBVIOUS
    <3> QED
      BY <1>3, <1>12, <3>1, <3>2, IsASeq DEF NoteBackoff
  <2>2. UNCHANGED <<row, retries, round, retrier, readVars, wiped>> /\ runner' # "recorded"
    BY <1>12 DEF NoteBackoff, histVars
  <2> QED
    BY <1>1, <1>12, <2>1, <2>2 DEF Counted, NoteBackoff, Before, Weight, readVars
\* A deletion empties it, on record.
<1>13. CASE DeleteHistory
  BY <1>1, <1>13 DEF DeleteHistory, Counted, readVars
<1>14. CASE DeleteRow
  BY <1>1, <1>14 DEF DeleteRow, Counted, copyVars, readVars, Before, Weight
\* GetJob reads the row and later the history.
<1>15. CASE ReadJob
  <2>1. view'.job = row /\ row # None /\ row \in Row
    BY <1>1, <1>15 DEF ReadJob, Shape
  <2> QED
    BY <1>1, <1>15, <2>1 DEF ReadJob, Counted, copyVars, histVars, Before, Weight
<1>16. CASE ReadRetries
  <2>1. view'.job = view.job /\ view'.attempts = Len(history)
    BY <1>1, <1>16 DEF ReadRetries, Shape
  <2> QED
    BY <1>1, <1>16, <2>1 DEF ReadRetries, Counted, copyVars, histVars, Before, Weight
<1>17. CASE Respond
  BY <1>1, <1>17 DEF Respond, Counted, copyVars, histVars, Before, Weight
<1>18. CASE RetryLoad
  <2>1. row # None /\ row.status = "failed" /\ row.retries = Limit /\ row.round = round
    BY <1>1, <1>18 DEF RetryLoad, Handing
  <2>2. ~wiped => Len(history) >= Before(round) + AttemptsPerRound
    BY <1>1, <1>2, <1>3, <2>1 DEF Counted, Weight
  <2> QED
    BY <1>1, <1>18, <2>2 DEF RetryLoad, Counted, copyVars, readVars, histVars, Before, Weight
<1>19. CASE RetryEnqueue
  BY <1>1, <1>19 DEF RetryEnqueue, Counted, Handing, readVars, Before, Weight
<1>20. ASSUME NEW d \in Doctors, Diagnosis(d) PROVE Counted'
  BY <1>1, <1>20 DEF Diagnosis, RequestDiagnosis, Answer, GiveUp, ClearDiagnostic, StoreDiagnostic,
                     Counted, copyVars, readVars, histVars, Before, Weight
<1>21. CASE Log \/ DeleteLogs \/ DeleteDiagnostic
  BY <1>1, <1>21 DEF Log, DeleteLogs, DeleteDiagnostic, Counted, copyVars, readVars, histVars, Before, Weight
<1> QED
  BY <1>5, <1>6, <1>7, <1>8, <1>9, <1>10, <1>11, <1>12, <1>13, <1>14, <1>15, <1>16, <1>17, <1>18,
     <1>19, <1>20, <1>21
  DEF Next, Runner, RetryJob, DeleteJob, GetJob

-----------------------------------------------------------------------------
(* Deletions and diagnostics *)

\* A deletion of a job nobody holds is the only one at work.
LEMMA CleaningStep == Inv /\ Next => Cleaning'
<1> SUFFICES ASSUME Inv, Next PROVE Cleaning'
  OBVIOUS
<1>1. Shape /\ Handing /\ Cleaning /\ Unborn
  BY DEF Inv
<1>2. retries \in Nat /\ round \in Nat /\ retries + 1 \in Nat /\ round + 1 \in Nat
  BY <1>1, Limits DEF Shape
<1>3. CASE DeleteRow
  BY <1>1, <1>3 DEF DeleteRow, Cleaning, InHand, Diagnosing, copyVars, doctorVars
<1>4. CASE DeleteLogs \/ DeleteHistory \/ DeleteDiagnostic
  BY <1>1, <1>4 DEF DeleteLogs, DeleteHistory, DeleteDiagnostic, Cleaning, InHand, Diagnosing,
                    copyVars, doctorVars, histVars
<1>5. CASE CreateJob
  <2>1. row' # None /\ deleter' = "idle"
    BY <1>1, <1>2, <1>5, SavedIsRow DEF CreateJob, Unborn
  <2> QED
    BY <2>1 DEF Cleaning
\* Everybody else holds the job, or finds its row.
<1>6. ASSUME ~(clean /\ (row = None \/ deleter # "idle")),
             UNCHANGED <<clean, deleter>>, row' = row \/ row' # None
      PROVE  Cleaning'
  BY <1>6 DEF Cleaning
<1>7. CASE Log \/ RecordAttempt \/ NoteBackoff
  BY <1>1, <1>6, <1>7 DEF Log, RecordAttempt, NoteBackoff, Cleaning, InHand, histVars
<1>8. CASE StartJob
  BY <1>1, <1>2, <1>6, <1>8, SavedIsRow DEF StartJob, Cleaning, InHand, histVars
<1>9. CASE CompleteJob
  BY <1>1, <1>2, <1>6, <1>9, SavedIsRow DEF CompleteJob, Cleaning, InHand, histVars
<1>10. CASE Requeue
  BY <1>1, <1>2, <1>6, <1>10, SavedIsRow DEF Requeue, Cleaning, InHand, histVars
<1>11. ASSUME NEW d \in Doctors, FailJob(d) PROVE Cleaning'
  BY <1>1, <1>2, <1>6, <1>11, SavedIsRow DEF FailJob, Cleaning, InHand, histVars
<1>12. ASSUME NEW d \in Doctors, Diagnosis(d) PROVE Cleaning'
  BY <1>1, <1>6, <1>12 DEF Diagnosis, RequestDiagnosis, Answer, GiveUp, ClearDiagnostic, StoreDiagnostic,
                           Cleaning, InHand, Diagnosing, histVars
<1>13. CASE RetryLoad \/ RetryEnqueue
  BY <1>1, <1>6, <1>13 DEF RetryLoad, RetryEnqueue, Cleaning, InHand, histVars
<1>14. CASE RetrySave
  BY <1>1, <1>2, <1>6, <1>14, SavedIsRow DEF RetrySave, Cleaning, InHand, histVars
<1>15. CASE GetJob
  BY <1>1, <1>15 DEF GetJob, ReadJob, ReadRetries, Respond, Cleaning, InHand, Diagnosing,
                     copyVars, doctorVars, histVars
<1> QED
  BY <1>3, <1>4, <1>5, <1>7, <1>8, <1>9, <1>10, <1>11, <1>12, <1>13, <1>14, <1>15
  DEF Next, Runner, RetryJob, DeleteJob

\* A diagnosis reads the round from the row, and a new round begins with a deletion.
LEMMA FreshStep == Inv /\ Next => Fresh'
<1> SUFFICES ASSUME Inv, Next PROVE Fresh'
  OBVIOUS
<1>1. Shape /\ Handing /\ Fresh
  BY DEF Inv
<1>2. CASE RetryEnqueue
  BY <1>2 DEF RetryEnqueue, Fresh, doctorVars
<1>3. CASE RetrySave
  BY <1>3 DEF RetrySave, Fresh
<1>4. ASSUME NEW d \in Doctors, RequestDiagnosis(d) PROVE Fresh'
  BY <1>1, <1>4 DEF RequestDiagnosis, Fresh, Shape, Handing, copyVars, histVars
<1>5. ASSUME NEW d \in Doctors, FailJob(d) PROVE Fresh'
  BY <1>1, <1>5 DEF FailJob, Fresh, Shape, histVars
<1>6. ASSUME NEW d \in Doctors, StoreDiagnostic(d) PROVE Fresh'
  BY <1>1, <1>6 DEF StoreDiagnostic, Fresh, Shape, copyVars, histVars
<1>7. ASSUME NEW d \in Doctors, Answer(d) \/ GiveUp(d) \/ ClearDiagnostic(d) PROVE Fresh'
  BY <1>1, <1>7 DEF Answer, GiveUp, ClearDiagnostic, Fresh, Shape, copyVars, histVars
<1>8. CASE RetryLoad \/ DeleteJob \/ GetJob
  BY <1>1, <1>8 DEF RetryLoad, DeleteJob, DeleteRow, DeleteLogs, DeleteHistory, DeleteDiagnostic,
                    GetJob, ReadJob, ReadRetries, Respond, Fresh, copyVars, doctorVars, histVars
<1>9. CASE CreateJob \/ StartJob \/ Log \/ CompleteJob \/ RecordAttempt \/ Requeue \/ NoteBackoff
  BY <1>1, <1>9 DEF CreateJob, StartJob, Log, CompleteJob, RecordAttempt, Requeue, NoteBackoff,
                    Fresh, copyVars, doctorVars, histVars
<1> QED
  BY <1>2, <1>3, <1>4, <1>5, <1>6, <1>7, <1>8, <1>9 DEF Next, Runner, Diagnosis, RetryJob

-----------------------------------------------------------------------------
(* Theorems *)

\* Every step keeps the invariant.
LEMMA StepInv == Inv /\ [Next]_vars => Inv'
<1> SUFFICES ASSUME Inv, [Next]_vars PROVE Inv'
  OBVIOUS
<1>1. CASE Next
  <2>1. Shape'
    BY <1>1, ShapeRunner, ShapeOthers DEF Next
  <2> QED
    BY <1>1, <2>1, UnbornStep, HandingStep, OrderStep, CountedStep, CleaningStep, FreshStep DEF Inv, Ordered
<1>2. CASE UNCHANGED vars
  <2>1. Shape' /\ Unborn' /\ Handing' /\ Cleaning' /\ Fresh'
    BY <1>2 DEF Inv, Shape, Unborn, Handing, Cleaning, Fresh, InHand, Diagnosing,
                vars, copyVars, doctorVars, readVars, histVars
  <2>2. AttemptsInOrder' /\ LastNumber' /\ BackoffOneBehind'
    BY <1>2 DEF Inv, AttemptsInOrder, LastNumber, Last, AtEnd, BackoffOneBehind, Pending, vars, copyVars
  <2>3. Counted'
    BY <1>2 DEF Inv, Counted, Before, Weight, vars, copyVars, readVars, histVars
  <2> QED
    BY <2>1, <2>2, <2>3 DEF Inv
<1> QED
  BY <1>1, <1>2

\* The invariant holds in every run.
LEMMA AlwaysInv == Spec => []Inv
  BY InitInv, StepInv, PTL DEF Spec

\* The retry timeline shows the attempts of a run in order, each once, for any limit.
THEOREM HistoryInOrder == Spec => []AttemptsInOrder
  BY AlwaysInv, PTL DEF Inv

\* Every attempt has the backoff that followed it, whatever numbers repeat in later rounds: the
\* power of two one step behind the one that is documented (internal/workers/pool.go:124).
THEOREM BackoffsRunOneBehind == Spec => []BackoffOneBehind
  BY AlwaysInv, PTL DEF Inv

\* GetJob never shows fewer attempts than its job accounts for.
THEOREM ViewsAreCovered == Spec => []ViewHasItsAttempts
<1>1. Inv => ViewHasItsAttempts
  BY DEF Inv, Counted, ViewHasItsAttempts, Weight, Before
<1> QED
  BY <1>1, AlwaysInv, PTL

\* A deletion that began with the job in nobody's hands leaves nothing of it.
THEOREM DeletesCleanly == Spec => []CleanDelete
<1>1. Inv => CleanDelete
  BY DEF Inv, Cleaning, CleanDelete
<1> QED
  BY <1>1, AlwaysInv, PTL

\* A diagnostic is of the present round, unless a diagnosis was under way at the retry.
THEOREM DiagnosticIsFresh == Spec => []NoStaleDiagnostic
<1>1. Inv => NoStaleDiagnostic
  BY DEF Inv, Fresh, NoStaleDiagnostic
<1> QED
  BY <1>1, AlwaysInv, PTL

-----------------------------------------------------------------------------
(* The contract of the job *)

\* What JobContract sees of the row and of the copy.
Seen(status, n) == [status |-> status, retries |-> n, limit |-> MaxRetries]

RowSeen == IF row = None THEN {} ELSE {Seen(row.status, row.retries)}

\* A copy that is back in the queue says queued while its history is still being written, and
\* RetryJob holds the failed row it has read, with a new count.
HandSeen ==
    CASE runner \in {"queued", "requeued"} -> {Seen("queued", retries)}
      [] runner \in {"executing", "recorded"} -> {Seen("running", retries)}
      [] runner = "idle" /\ retrier = "loaded" -> {Seen("failed", 0)}
      [] runner = "idle" /\ retrier = "saved" -> {Seen("queued", 0)}
      [] OTHER -> {}

Contract == INSTANCE JobContract WITH
    Limits <- {MaxRetries}, known <- created, row <- RowSeen, hand <- HandSeen

ContractStep == Contract!Next \/ UNCHANGED Contract!contractVars

\* What Save writes is what the contract sees.
LEMMA SavedIsSeen ==
  ASSUME Inv, NEW s \in {"queued", "running", "completed", "failed"}, NEW n \in Nat,
         round' \in Nat, Save(s, n)
  PROVE  RowSeen' = {Seen(s, n)}
  BY SavedIsRow DEF RowSeen, Seen

LEMMA RunnerKeepsContract == Inv /\ Runner => ContractStep
<1> SUFFICES ASSUME Inv, Runner PROVE ContractStep
  OBVIOUS
<1>0. /\ retries \in Nat /\ round \in Nat /\ (runner # "idle" => retrier = "idle")
      /\ ~created => row = None /\ runner = "idle" /\ retrier = "idle"
  BY Limits DEF Inv, Shape, Handing, Unborn, InHand
<1>1. CASE CreateJob
  <2>1. ~created /\ created' = TRUE /\ HandSeen' = {Seen("queued", 0)} /\ RowSeen' = {Seen("queued", 0)}
    <3>1. /\ ~created /\ created' = TRUE /\ retries' = 0 /\ round' = round
          /\ runner' = "queued" /\ Save("queued", 0)
      BY <1>1 DEF CreateJob, Inv, Unborn
    <3>2. RowSeen' = {Seen("queued", 0)}
      BY <1>0, <3>1, SavedIsSeen
    <3> QED
      BY <3>1, <3>2 DEF HandSeen, Seen
  <2>2. Contract!New("queued", MaxRetries) = Seen("queued", 0)
    BY DEF Contract!New, Seen
  <2>3. Contract!Create("queued", MaxRetries)
    BY <2>1, <2>2 DEF Contract!Create
  <2> QED
    BY <2>3 DEF ContractStep, Contract!Next
<1>2. CASE StartJob
  <2>1. /\ runner = "queued" /\ runner' = "executing" /\ created' = created
        /\ retries' = retries /\ round' = round /\ Save("running", retries)
    BY <1>2 DEF StartJob
  <2>2. RowSeen' = {Seen("running", retries)}
    BY <1>0, <2>1, SavedIsSeen
  <2>3. HandSeen = {Seen("queued", retries)} /\ HandSeen' = {Seen("running", retries)}
    BY <2>1 DEF HandSeen, Seen
  <2>4. Contract!Start
    BY <2>1, <2>2, <2>3 DEF Contract!Start, Seen
  <2> QED
    BY <2>4 DEF ContractStep, Contract!Next
<1>3. CASE CompleteJob
  <2>1. /\ runner = "executing" /\ runner' = "idle" /\ created' = created /\ retrier' = retrier
        /\ retries' = retries /\ round' = round /\ Save("completed", retries)
    BY <1>3 DEF CompleteJob
  <2>2. RowSeen' = {Seen("completed", retries)}
    BY <1>0, <2>1, SavedIsSeen
  <2>3. HandSeen = {Seen("running", retries)} /\ HandSeen' = {}
    BY <1>0, <2>1 DEF HandSeen, Seen
  <2>4. Contract!Complete
    BY <2>1, <2>2, <2>3 DEF Contract!Complete, Seen
  <2> QED
    BY <2>4 DEF ContractStep, Contract!Next
<1>4. CASE Requeue
  <2>1. /\ runner = "recorded" /\ runner' = "requeued" /\ created' = created
        /\ retries < MaxRetries /\ retries' = retries + 1 /\ round' = round
        /\ Save("queued", retries + 1)
    BY <1>4 DEF Requeue
  <2>2. RowSeen' = {Seen("queued", retries + 1)}
    BY <1>0, <2>1, SavedIsSeen
  <2>3. HandSeen = {Seen("running", retries)} /\ HandSeen' = {Seen("queued", retries + 1)}
    BY <2>1 DEF HandSeen, Seen
  <2>4. Seen("queued", retries + 1)
        = [Seen("running", retries) EXCEPT !.status = "queued", !.retries = Seen("running", retries).retries + 1]
    <3>1. Seen("running", retries).retries + 1 = retries + 1
      BY DEF Seen
    <3>2. \A m : [Seen("running", retries) EXCEPT !.status = "queued", !.retries = m] = Seen("queued", m)
      <4> TAKE m
      <4>1. [Seen("running", retries) EXCEPT !.status = "queued"] = Seen("queued", retries)
        BY DEF Seen
      <4>2. [Seen("queued", retries) EXCEPT !.retries = m] = Seen("queued", m)
        BY DEF Seen
      <4> QED
        BY <4>1, <4>2, Zenon
    <3> QED
      BY <3>1, <3>2
  <2>5. Contract!Requeue
    BY <2>1, <2>2, <2>3, <2>4 DEF Contract!Requeue, Seen
  <2> QED
    BY <2>5 DEF ContractStep, Contract!Next
<1>5. ASSUME NEW d \in Doctors, FailJob(d) PROVE ContractStep
  <2>1. /\ runner = "recorded" /\ runner' = "idle" /\ created' = created /\ retrier' = retrier
        /\ retries >= MaxRetries /\ retries' = retries /\ round' = round /\ Save("failed", retries)
    BY <1>5 DEF FailJob
  <2>2. RowSeen' = {Seen("failed", retries)}
    BY <1>0, <2>1, SavedIsSeen
  <2>3. HandSeen = {Seen("running", retries)} /\ HandSeen' = {}
    BY <1>0, <2>1 DEF HandSeen, Seen
  <2>4. Contract!Fail
    BY <2>1, <2>2, <2>3 DEF Contract!Fail, Seen
  <2> QED
    BY <2>4 DEF ContractStep, Contract!Next
<1>6. CASE Log \/ RecordAttempt \/ NoteBackoff
  <2>1. /\ row' = row /\ created' = created /\ retrier' = retrier /\ retries' = retries
        /\ \/ runner' = runner
           \/ runner = "executing" /\ runner' = "recorded"
           \/ runner = "requeued" /\ runner' = "queued"
    BY <1>6 DEF Log, RecordAttempt, NoteBackoff, copyVars
  <2>2. RowSeen' = RowSeen /\ HandSeen' = HandSeen
    BY <2>1 DEF RowSeen, HandSeen, Seen
  <2> QED
    BY <2>1, <2>2 DEF ContractStep, Contract!contractVars
<1> QED
  BY <1>1, <1>2, <1>3, <1>4, <1>5, <1>6 DEF Runner

LEMMA OthersKeepContract ==
  Inv /\ ((\E d \in Doctors : Diagnosis(d)) \/ RetryJob \/ DeleteJob \/ GetJob) => ContractStep
<1> SUFFICES ASSUME Inv, (\E d \in Doctors : Diagnosis(d)) \/ RetryJob \/ DeleteJob \/ GetJob
             PROVE  ContractStep
  OBVIOUS
<1>1. ASSUME row' = row, created' = created, retrier' = retrier, retries' = retries, runner' = runner
      PROVE  ContractStep
  BY <1>1 DEF ContractStep, Contract!contractVars, RowSeen, HandSeen, Seen
<1>2. CASE (\E d \in Doctors : Diagnosis(d)) \/ DeleteLogs \/ DeleteHistory \/ DeleteDiagnostic \/ GetJob
  BY <1>1, <1>2
     DEF Diagnosis, RequestDiagnosis, Answer, GiveUp, ClearDiagnostic, StoreDiagnostic, DeleteLogs,
         DeleteHistory, DeleteDiagnostic, GetJob, ReadJob, ReadRetries, Respond, copyVars
<1>3. CASE RetryLoad
  <2>1. /\ retrier = "idle" /\ retrier' = "loaded" /\ row # None /\ row.status = "failed"
        /\ row' = row /\ created' = created /\ runner' = runner /\ retries' = retries
    BY <1>3 DEF RetryLoad, copyVars
  <2>2. runner = "idle"
    BY <2>1 DEF Inv, Handing
  <2>3. HandSeen = {} /\ HandSeen' = {Seen("failed", 0)}
    BY <2>1, <2>2 DEF HandSeen, Seen
  <2>4. RowSeen = {Seen("failed", row.retries)} /\ RowSeen' = RowSeen
    BY <2>1 DEF RowSeen, Seen
  <2>5. Contract!Retry
    BY <2>1, <2>3, <2>4 DEF Contract!Retry, Seen
  <2> QED
    BY <2>5 DEF ContractStep, Contract!Next
<1>4. CASE RetrySave
  <2>1. /\ retrier = "loaded" /\ retrier' = "saved" /\ runner' = runner /\ created' = created
        /\ retries' = 0 /\ round' = round + 1 /\ Save("queued", 0)
    BY <1>4 DEF RetrySave
  <2>2. runner = "idle" /\ round \in Nat
    BY <2>1 DEF Inv, Handing, Shape
  <2>3. RowSeen' = {Seen("queued", 0)}
    BY <2>1, <2>2, SavedIsSeen
  <2>4. HandSeen = {Seen("failed", 0)} /\ HandSeen' = {Seen("queued", 0)}
    BY <2>1, <2>2 DEF HandSeen, Seen
  <2>5. Contract!Queue
    BY <2>1, <2>3, <2>4 DEF Contract!Queue, Seen
  <2> QED
    BY <2>5 DEF ContractStep, Contract!Next
<1>5. CASE RetryEnqueue
  <2>1. /\ retrier = "saved" /\ runner' = "queued" /\ created' = created
        /\ retries' = retries /\ row' = row
    BY <1>5 DEF RetryEnqueue
  <2>2. runner = "idle" /\ retries = 0
    BY <2>1 DEF Inv, Handing
  <2>3. HandSeen' = HandSeen /\ RowSeen' = RowSeen
    BY <2>1, <2>2 DEF HandSeen, RowSeen, Seen
  <2> QED
    BY <2>1, <2>3 DEF ContractStep, Contract!contractVars
<1>6. CASE DeleteRow
  <2>1. row # None /\ RowSeen' = {} /\ created' = created /\ HandSeen' = HandSeen
    BY <1>6 DEF DeleteRow, RowSeen, HandSeen, Seen, copyVars
  <2>2. Contract!Delete
    BY <2>1 DEF Contract!Delete, RowSeen
  <2> QED
    BY <2>2 DEF ContractStep, Contract!Next
<1> QED
  BY <1>2, <1>3, <1>4, <1>5, <1>6 DEF RetryJob, DeleteJob

\* The rows kept beside the job, statement by statement, with diagnoses, deletions and reads
\* in between: what happens to the job itself is what JobContract allows.
THEOREM RecordsKeepContract == Spec => Contract!Spec
<1>1. Init => Contract!Init
  BY DEF Init, Contract!Init, RowSeen, HandSeen
<1>2. Inv /\ [Next]_vars => [Contract!Next]_(Contract!contractVars)
  <2> SUFFICES ASSUME Inv, [Next]_vars PROVE ContractStep
    BY DEF ContractStep
  <2>1. CASE UNCHANGED vars
    BY <2>1 DEF vars, copyVars, ContractStep, Contract!contractVars, RowSeen, HandSeen, Seen
  <2> QED
    BY <2>1, RunnerKeepsContract, OthersKeepContract DEF Next
<1> QED
  BY <1>1, <1>2, AlwaysInv, PTL DEF Spec, Contract!Spec
=============================================================================
