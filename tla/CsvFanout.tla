----------------------------- MODULE CsvFanout -----------------------------
(***************************************************************************)
(* Executor.runCSVProcessing (internal/jobs/executor.go): the rows of a    *)
(* CSV file are validated by one goroutine each, at most Width of them at  *)
(* a time, and counted when all are done.                                  *)
(*                                                                         *)
(* The semaphore is the channel sem, the results go through a channel with *)
(* room for all of them, and a WaitGroup tells when to close it.  The loop *)
(* that starts the goroutines gives up when the job's context is cancelled *)
(* (its 2 minutes are over, or the process shuts down) and leaves those it *)
(* has started behind.                                                     *)
(***************************************************************************)
EXTENDS Integers, FiniteSets

CONSTANTS Rows,      \* the number of data rows
          Width,     \* capacity of sem (8)
          RowStates  \* what a row may be: "valid", "short" (not as many columns as the
                     \* header), "unkeyed" (column 0 is blank)

ASSUME RowsAssumption == Rows \in Nat
ASSUME WidthAssumption == Width \in Nat \ {0}
ASSUME StatesAssumption == RowStates \subseteq {"valid", "short", "unkeyed"}

VARIABLES
    kind,     \* kind[r]: the state of row r
    pc,       \* where runCSVProcessing stands
    next,     \* the row its loop comes to next
    worker,   \* worker[r]: where the goroutine of row r stands
    results,  \* the channel: the rows reported and not counted, as <<row, ok>>
    closed,   \* the channel is closed
    waiting,  \* the counter of the WaitGroup
    valid,    \* validCount
    invalid,  \* errCount
    cancelled \* the context is done

vars == <<kind, pc, next, worker, results, closed, waiting, valid, invalid, cancelled>>

R == 1..Rows

TypeOK ==
    /\ kind \in [R -> RowStates]
    /\ pc \in {"parse", "spawn", "wait", "count", "passed", "failed", "aborted"}
    /\ next \in 1..(Rows + 1)
    /\ worker \in [R -> {"none", "waiting", "validating", "reported", "released", "done"}]
    /\ results \subseteq R \X BOOLEAN
    /\ closed \in BOOLEAN
    /\ waiting \in 0..Rows
    /\ valid \in 0..Rows /\ invalid \in 0..Rows
    /\ cancelled \in BOOLEAN

Init ==
    /\ kind \in [R -> RowStates]
    /\ pc = "parse"
    /\ next = 1
    /\ worker = [r \in R |-> "none"]
    /\ results = {}
    /\ closed = FALSE
    /\ waiting = 0
    /\ valid = 0
    /\ invalid = 0
    /\ cancelled = FALSE

-----------------------------------------------------------------------------
\* validateRow, of a row with as many columns as the header.
ValidateRow(r) == kind[r] # "unkeyed"

\* encoding/csv's ReadAll with the default FieldsPerRecord: the first record sets the
\* number of columns, and a record with another number is an error of the whole file.
\* The column test in validateRow is never the one that fails.
ReadAllFails == \E r \in R : kind[r] = "short"

\* A file that cannot be parsed or has no data rows is an error; otherwise the channels
\* are made.
Parse ==
    /\ pc = "parse"
    /\ pc' = IF ReadAllFails \/ Rows = 0 THEN "failed" ELSE "spawn"
    /\ UNCHANGED <<kind, next, worker, results, closed, waiting, valid, invalid, cancelled>>

\* Fault: the goroutine adds itself to the WaitGroup, when it gets to run.
SpawnUncounted ==
    /\ pc = "spawn" /\ ~cancelled
    /\ next \in R
    /\ worker' = [worker EXCEPT ![next] = "waiting"]
    /\ next' = next + 1
    /\ UNCHANGED <<kind, pc, results, closed, waiting, valid, invalid, cancelled>>

\* One turn of the loop: wg.Add, then the goroutine.
Spawn ==
    /\ pc = "spawn" /\ ~cancelled
    /\ next \in R
    /\ worker' = [worker EXCEPT ![next] = "waiting"]
    /\ waiting' = waiting + 1
    /\ next' = next + 1
    /\ UNCHANGED <<kind, pc, results, closed, valid, invalid, cancelled>>

\* The loop finds the context cancelled and returns, with goroutines still at work.
Abort ==
    /\ pc = "spawn" /\ cancelled
    /\ next \in R
    /\ pc' = "aborted"
    /\ UNCHANGED <<kind, next, worker, results, closed, waiting, valid, invalid, cancelled>>

EndSpawn ==
    /\ pc = "spawn"
    /\ next = Rows + 1
    /\ pc' = "wait"
    /\ UNCHANGED <<kind, next, worker, results, closed, waiting, valid, invalid, cancelled>>

\* wg.Wait returns and the channel is closed.
Wait ==
    /\ pc = "wait"
    /\ waiting = 0
    /\ closed' = TRUE
    /\ pc' = "count"
    /\ UNCHANGED <<kind, next, worker, results, waiting, valid, invalid, cancelled>>

\* The loop over the closed channel takes one result.
Count ==
    /\ pc = "count"
    /\ \E res \in results :
          /\ results' = results \ {res}
          /\ valid' = IF res[2] THEN valid + 1 ELSE valid
          /\ invalid' = IF res[2] THEN invalid ELSE invalid + 1
    /\ UNCHANGED <<kind, pc, next, worker, closed, waiting, cancelled>>

\* Fault: half of the rows is not enough.
FinishStrictly ==
    /\ pc = "count" /\ results = {}
    /\ pc' = IF valid * 100 <= 50 * Rows THEN "failed" ELSE "passed"
    /\ UNCHANGED <<kind, next, worker, results, closed, waiting, valid, invalid, cancelled>>

\* The job fails if less than half of the rows passed.
Finish ==
    /\ pc = "count" /\ results = {}
    /\ pc' = IF valid * 100 < 50 * Rows THEN "failed" ELSE "passed"
    /\ UNCHANGED <<kind, next, worker, results, closed, waiting, valid, invalid, cancelled>>

-----------------------------------------------------------------------------
(* The goroutine of a row *)

InSem == {r \in R : worker[r] \in {"validating", "reported"}}

\* sem <- struct{}{}
Acquire(r) ==
    /\ worker[r] = "waiting"
    /\ Cardinality(InSem) < Width
    /\ worker' = [worker EXCEPT ![r] = "validating"]
    /\ UNCHANGED <<kind, pc, next, results, closed, waiting, valid, invalid, cancelled>>

\* Fault: the channel has no room of its own, so a report waits for the counting loop.
ReportWhenCounting(r) ==
    /\ worker[r] = "validating"
    /\ pc = "count"
    /\ results' = results \union {<<r, ValidateRow(r)>>}
    /\ worker' = [worker EXCEPT ![r] = "reported"]
    /\ UNCHANGED <<kind, pc, next, closed, waiting, valid, invalid, cancelled>>

\* results <- the outcome; there is room for every row, so it never waits.
Report(r) ==
    /\ worker[r] = "validating"
    /\ results' = results \union {<<r, ValidateRow(r)>>}
    /\ worker' = [worker EXCEPT ![r] = "reported"]
    /\ UNCHANGED <<kind, pc, next, closed, waiting, valid, invalid, cancelled>>

\* The deferred calls: <-sem, then wg.Done.
Release(r) ==
    /\ worker[r] = "reported"
    /\ worker' = [worker EXCEPT ![r] = "released"]
    /\ UNCHANGED <<kind, pc, next, results, closed, waiting, valid, invalid, cancelled>>

Done(r) ==
    /\ worker[r] = "released"
    /\ worker' = [worker EXCEPT ![r] = "done"]
    /\ waiting' = waiting - 1
    /\ UNCHANGED <<kind, pc, next, results, closed, valid, invalid, cancelled>>

\* The job's context ends.
Cancel ==
    /\ ~cancelled
    /\ cancelled' = TRUE
    /\ UNCHANGED <<kind, pc, next, worker, results, closed, waiting, valid, invalid>>

Validate(r) == Acquire(r) \/ Report(r) \/ Release(r) \/ Done(r)
Loop == Parse \/ Spawn \/ Abort \/ EndSpawn \/ Wait \/ Count \/ Finish

Next == Loop \/ (\E r \in R : Validate(r)) \/ Cancel

Spec == Init /\ [][Next]_vars

\* Goroutines that can go on do so; a slot of sem goes to one that waits (strong
\* fairness).  Nothing cancels the context.
LiveSpec == Spec /\ WF_vars(Loop)
            /\ \A r \in R : SF_vars(Acquire(r)) /\ WF_vars(Report(r) \/ Release(r) \/ Done(r))

-----------------------------------------------------------------------------
(* Properties *)

\* The definition the goroutines are to compute: how many rows are valid.
ValidRows == Cardinality({r \in R : kind[r] = "valid"})

Returned == pc \in {"passed", "failed", "aborted"}

\* Whatever the order of the goroutines, the verdict is that of counting the rows one by
\* one, every row counted once: the job passes exactly if all rows have the header's columns
\* and at least half of them a key.  A job that is cancelled gets no verdict.
VerdictIsReference ==
    pc \in {"passed", "failed"} =>
        /\ next > Rows => valid = ValidRows /\ valid + invalid = Rows
        /\ (pc = "passed") <=> (Rows > 0 /\ ~ReadAllFails /\ 2 * ValidRows >= Rows)

\* The channel is closed only when every goroutine has sent its result: a send on the
\* closed channel would panic and take the service down.
NoSendAfterClose == closed => \A r \in R : worker[r] \notin {"waiting", "validating"}

\* The function returns, and every goroutine it started ends, also those an aborted run
\* leaves behind: the results channel has room for them although nobody reads it.
EverythingEnds ==
    /\ <>Returned
    /\ \A r \in R : worker[r] # "none" ~> worker[r] = "done"
=============================================================================
