-------------------------- MODULE CsvFanoutProofs --------------------------
(***************************************************************************)
(* Proofs about CsvFanout, for any number of rows and any width of the     *)
(* semaphore: the channel is closed after the last report, the verdict is  *)
(* the one a sequential count would give, nobody waits for ever, and the   *)
(* job ends.                                                               *)
(*                                                                         *)
(* The counters are compared with cardinalities: the WaitGroup with the    *)
(* goroutines it waits for, the two counts with the rows reported and not  *)
(* read from the channel yet.                                              *)
(***************************************************************************)
EXTENDS CsvFanout, FiniteSetTheorems, TLAPS

Stage == {"none", "waiting", "validating", "reported", "released", "done"}

\* The type invariant without the bounds of the counters.
Shape ==
    /\ kind \in [R -> RowStates]
    /\ pc \in {"parse", "spawn", "wait", "count", "passed", "failed", "aborted"}
    /\ next \in 1..(Rows + 1)
    /\ worker \in [R -> Stage]
    /\ results \subseteq R \X BOOLEAN
    /\ closed \in BOOLEAN
    /\ waiting \in Nat
    /\ valid \in Nat /\ invalid \in Nat
    /\ cancelled \in BOOLEAN

\* Goroutines are started in the order of the rows.
StartedInOrder == \A r \in R : worker[r] # "none" <=> r < next

\* The goroutines the WaitGroup counts.
Pending == {r \in R : worker[r] \in {"waiting", "validating", "reported", "released"}}

WaitGroupCounts == waiting = Cardinality(Pending)

\* The rows a goroutine has found right, and wrong.
Reported(r) == worker[r] \in {"reported", "released", "done"}
Accepted == {r \in R : Reported(r) /\ ValidateRow(r)}
Rejected == {r \in R : Reported(r) /\ ~ValidateRow(r)}

\* Those whose report is still in the channel.
UnreadAccepted == {r \in R : <<r, TRUE>> \in results}
UnreadRejected == {r \in R : <<r, FALSE>> \in results}

UnreadWasSaid == UnreadAccepted \subseteq Accepted /\ UnreadRejected \subseteq Rejected

\* Every report is counted or still to be read.
Tally ==
    /\ valid + Cardinality(UnreadAccepted) = Cardinality(Accepted)
    /\ invalid + Cardinality(UnreadRejected) = Cardinality(Rejected)

\* What is known where runCSVProcessing stands.
Phase ==
    /\ pc = "parse" => next = 1 /\ valid = 0 /\ invalid = 0
    /\ pc = "wait" => next = Rows + 1
    /\ pc \in {"parse", "spawn", "wait", "aborted"} => ~closed
    /\ pc \in {"count", "passed"} => closed
    /\ closed => next = Rows + 1 /\ waiting = 0
    /\ pc \notin {"parse", "failed"} => Rows > 0 /\ ~ReadAllFails
    /\ pc = "passed" => results = {} /\ 100 * valid >= 50 * Rows
    /\ pc = "failed" => \/ /\ ReadAllFails \/ Rows = 0
                           /\ ~closed
                           /\ next = 1 /\ valid = 0 /\ invalid = 0
                        \/ /\ closed /\ results = {}
                           /\ Rows > 0 /\ ~ReadAllFails
                           /\ 100 * valid < 50 * Rows

Inv == Shape /\ StartedInOrder /\ WaitGroupCounts /\ UnreadWasSaid /\ Tally /\ Phase

-----------------------------------------------------------------------------
(* Sets of rows *)

\* Any set of rows is finite and has at most Rows elements.
LEMMA RowSets ==
  ASSUME NEW S \in SUBSET R
  PROVE  IsFiniteSet(S) /\ Cardinality(S) \in Nat /\ Cardinality(S) <= Rows
<1>1. IsFiniteSet(R) /\ Cardinality(R) = Rows
  BY RowsAssumption, FS_Interval DEF R
<1> QED
  BY <1>1, FS_Subset, FS_CardinalityType

\* One more row in a set of rows.
LEMMA OneMore ==
  ASSUME NEW S \in SUBSET R, NEW r \in R, r \notin S
  PROVE  Cardinality(S \union {r}) = Cardinality(S) + 1
  BY RowSets, FS_AddElement

\* One row less.
LEMMA OneLess ==
  ASSUME NEW S \in SUBSET R, NEW r \in S
  PROVE  Cardinality(S \ {r}) = Cardinality(S) - 1
  BY RowSets, FS_RemoveElement

\* The initial state satisfies the invariant: nothing is started or counted.
LEMMA InitInv == Init => Inv
<1> SUFFICES ASSUME Init PROVE Inv
  OBVIOUS
<1>1. Pending = {} /\ Accepted = {} /\ Rejected = {} /\ UnreadAccepted = {} /\ UnreadRejected = {}
  BY DEF Init, Pending, Accepted, Rejected, Reported, UnreadAccepted, UnreadRejected
<1>2. Cardinality({}) = 0
  BY FS_EmptySet
<1>3. Shape
  <2>1. 1 \in 1..(Rows + 1)
    BY RowsAssumption
  <2>2. worker \in [R -> Stage]
    BY DEF Init, Stage
  <2>3. closed \in BOOLEAN /\ cancelled \in BOOLEAN
    BY Zenon DEF Init
  <2>4. results \subseteq R \X BOOLEAN
    BY Zenon DEF Init
  <2>5. next \in 1..(Rows + 1) /\ waiting \in Nat /\ valid \in Nat /\ invalid \in Nat
    BY <2>1 DEF Init
  <2>6. kind \in [R -> RowStates]
        /\ pc \in {"parse", "spawn", "wait", "count", "passed", "failed", "aborted"}
    BY Zenon DEF Init
  <2> QED
    BY <2>2, <2>3, <2>4, <2>5, <2>6, Zenon DEF Shape
<1>4. StartedInOrder
  BY DEF Init, StartedInOrder, R
<1>5. WaitGroupCounts /\ UnreadWasSaid /\ Tally
  BY <1>1, <1>2 DEF Init, WaitGroupCounts, UnreadWasSaid, Tally
<1>6. Phase
  BY DEF Init, Phase
<1> QED
  BY <1>3, <1>4, <1>5, <1>6 DEF Inv

\* The counters are compared with sets that only the workers and the results determine.
LEMMA SameSets ==
  ASSUME UNCHANGED <<kind, worker, results, waiting, valid, invalid>>,
         WaitGroupCounts, UnreadWasSaid, Tally
  PROVE  WaitGroupCounts' /\ UnreadWasSaid' /\ Tally'
<1>1. Pending' = Pending /\ Accepted' = Accepted /\ Rejected' = Rejected
      /\ UnreadAccepted' = UnreadAccepted /\ UnreadRejected' = UnreadRejected
  BY DEF Pending, Accepted, Rejected, Reported, UnreadAccepted, UnreadRejected, ValidateRow
<1> QED
  BY <1>1 DEF WaitGroupCounts, UnreadWasSaid, Tally

\* After the channel is closed every goroutine has ended, and every row was counted or is
\* to be read.
LEMMA ClosedIsQuiet ==
  ASSUME Inv, closed
  PROVE  \A r \in R : worker[r] = "done"
<1>1. Cardinality(Pending) = 0 /\ next = Rows + 1
  BY DEF Inv, Phase, WaitGroupCounts
<1>2. Pending = {}
  BY <1>1, RowSets, FS_EmptySet DEF Pending
<1>3. \A r \in R : worker[r] # "none"
  BY <1>1, RowsAssumption DEF Inv, StartedInOrder, R
<1> QED
  BY <1>2, <1>3 DEF Inv, Shape, Pending, Stage

-----------------------------------------------------------------------------
(* The loop *)

\* Spawn adds one goroutine and counts it.
LEMMA StepSpawn == Inv /\ Spawn => Inv'
<1> SUFFICES ASSUME Inv, Spawn PROVE Inv'
  OBVIOUS
<1>1. next \in R /\ next \in Int /\ worker[next] = "none" /\ worker' = [worker EXCEPT ![next] = "waiting"]
  BY RowsAssumption DEF Inv, StartedInOrder, Shape, Spawn, R
<1>2. Pending' = Pending \union {next} /\ next \notin Pending
  BY <1>1 DEF Inv, Shape, Pending
<1>3. WaitGroupCounts'
  BY <1>2, <1>1, OneMore DEF Inv, WaitGroupCounts, Spawn, Pending
<1>4. Accepted' = Accepted /\ Rejected' = Rejected
      /\ UnreadAccepted' = UnreadAccepted /\ UnreadRejected' = UnreadRejected
  BY <1>1 DEF Inv, Shape, Spawn, Accepted, Rejected, Reported, UnreadAccepted, UnreadRejected, ValidateRow
<1>5. UnreadWasSaid' /\ Tally'
  BY <1>4 DEF Inv, UnreadWasSaid, Tally, Spawn
<1>6. StartedInOrder'
  BY <1>1, RowsAssumption DEF Inv, Shape, StartedInOrder, Spawn, R
<1>7. Shape'
  <2>1. next' \in 1..(Rows + 1) /\ waiting' \in Nat
    BY <1>1, RowsAssumption DEF Inv, Shape, Spawn, R
  <2>2. worker' \in [R -> Stage]
    BY <1>1 DEF Inv, Shape, Stage
  <2> QED
    BY <2>1, <2>2 DEF Inv, Shape, Spawn
<1>8. Phase'
  BY DEF Inv, Phase, Spawn, ReadAllFails
<1> QED
  BY <1>3, <1>5, <1>6, <1>7, <1>8 DEF Inv

\* One result is taken out of the channel and counted.
LEMMA StepCount == Inv /\ Count => Inv'
<1> SUFFICES ASSUME Inv, Count PROVE Inv'
  OBVIOUS
<1>1. PICK res \in results :
        /\ results' = results \ {res}
        /\ valid' = IF res[2] THEN valid + 1 ELSE valid
        /\ invalid' = IF res[2] THEN invalid ELSE invalid + 1
  BY DEF Count
<1>2. PICK r \in R : res = <<r, TRUE>> \/ res = <<r, FALSE>>
  <2>1. res \in R \X BOOLEAN
    BY <1>1 DEF Inv, Shape
  <2>2. PICK r \in R, ok \in BOOLEAN : res = <<r, ok>>
    BY <2>1
  <2> QED
    BY <2>2, Zenon
<1>3. Accepted' = Accepted /\ Rejected' = Rejected /\ Pending' = Pending
  BY DEF Count, Accepted, Rejected, Reported, ValidateRow, Pending
<1>4. UnreadAccepted \in SUBSET R /\ UnreadRejected \in SUBSET R
  BY DEF UnreadAccepted, UnreadRejected
<1>5. /\ Cardinality(UnreadAccepted) \in Nat /\ Cardinality(UnreadRejected) \in Nat
      /\ Cardinality(Accepted) \in Nat /\ Cardinality(Rejected) \in Nat
  <2>1. Accepted \in SUBSET R /\ Rejected \in SUBSET R
    BY DEF Accepted, Rejected, Reported
  <2> QED
    BY <1>4, <2>1, RowSets
<1>6. UnreadWasSaid'
  <2>1. UnreadAccepted' \subseteq UnreadAccepted /\ UnreadRejected' \subseteq UnreadRejected
    BY <1>1 DEF UnreadAccepted, UnreadRejected
  <2> QED
    BY <1>3, <2>1 DEF Inv, UnreadWasSaid
<1>7. valid' \in Nat /\ invalid' \in Nat
  BY <1>1 DEF Inv, Shape
<1>8. Tally'
  <2>1. CASE res = <<r, TRUE>>
    <3>1. UnreadAccepted' = UnreadAccepted \ {r} /\ r \in UnreadAccepted /\ UnreadRejected' = UnreadRejected
      BY <1>1, <2>1 DEF UnreadAccepted, UnreadRejected
    <3>2. Cardinality(UnreadAccepted') = Cardinality(UnreadAccepted) - 1
      BY <3>1, <1>4, OneLess
    <3>3. valid' = valid + 1 /\ invalid' = invalid
      BY <1>1, <2>1
    <3> QED
      BY <1>3, <1>5, <3>1, <3>2, <3>3 DEF Inv, Shape, Tally
  <2>2. CASE res = <<r, FALSE>>
    <3>1. UnreadRejected' = UnreadRejected \ {r} /\ r \in UnreadRejected /\ UnreadAccepted' = UnreadAccepted
      BY <1>1, <2>2 DEF UnreadAccepted, UnreadRejected
    <3>2. Cardinality(UnreadRejected') = Cardinality(UnreadRejected) - 1
      BY <3>1, <1>4, OneLess
    <3>3. valid' = valid /\ invalid' = invalid + 1
      BY <1>1, <2>2
    <3> QED
      BY <1>3, <1>5, <3>1, <3>2, <3>3 DEF Inv, Shape, Tally
  <2> QED
    BY <1>2, <2>1, <2>2
<1>9. StartedInOrder' /\ WaitGroupCounts'
  BY <1>3 DEF Count, Inv, StartedInOrder, WaitGroupCounts
<1>10. Shape'
  <2>1. results' \subseteq R \X BOOLEAN
    BY <1>1, Zenon DEF Inv, Shape
  <2>2. UNCHANGED <<kind, pc, next, worker, closed, waiting, cancelled>>
    BY DEF Count
  <2> QED
    BY <1>7, <2>1, <2>2 DEF Inv, Shape
<1>11. Phase'
  BY DEF Inv, Phase, Count, ReadAllFails
<1> QED
  BY <1>6, <1>8, <1>9, <1>10, <1>11 DEF Inv

\* The other steps of the loop leave rows and counters alone.
LEMMA StepLoop == Inv /\ Loop => Inv'
<1> SUFFICES ASSUME Inv, Loop PROVE Inv'
  OBVIOUS
<1>1. CASE Spawn
  BY <1>1, StepSpawn
<1>2. CASE Count
  BY <1>2, StepCount
<1>3. CASE Parse \/ Abort \/ EndSpawn \/ Wait \/ Finish
  <2>1. UNCHANGED <<kind, next, worker, results, waiting, valid, invalid, cancelled>>
    BY <1>3 DEF Parse, Abort, EndSpawn, Wait, Finish
  <2>2. WaitGroupCounts' /\ UnreadWasSaid' /\ Tally'
    BY <2>1, SameSets DEF Inv
  <2>3. StartedInOrder'
    BY <2>1 DEF Inv, StartedInOrder
  <2>4. pc' \in {"parse", "spawn", "wait", "count", "passed", "failed", "aborted"} /\ closed' \in BOOLEAN
    BY <1>3 DEF Parse, Abort, EndSpawn, Wait, Finish, Inv, Shape
  <2>5. Shape'
    BY <2>1, <2>4 DEF Inv, Shape
  <2>6. ReadAllFails' = ReadAllFails
    BY <2>1 DEF ReadAllFails
  <2>7. Phase'
    <3>1. CASE Parse
      BY <3>1, <2>1, <2>6, RowsAssumption DEF Parse, Inv, Shape, Phase
    <3>2. CASE Abort \/ EndSpawn
      BY <3>2, <2>1, <2>6 DEF Abort, EndSpawn, Inv, Phase
    <3>3. CASE Wait
      BY <3>3, <2>1, <2>6 DEF Wait, Inv, Phase
    <3>4. CASE Finish
      BY <3>4, <2>1, <2>6, RowsAssumption DEF Finish, Inv, Shape, Phase
    <3> QED
      BY <1>3, <3>1, <3>2, <3>3, <3>4
  <2> QED
    BY <2>2, <2>3, <2>5, <2>7 DEF Inv
<1> QED
  BY <1>1, <1>2, <1>3 DEF Loop

-----------------------------------------------------------------------------
(* The goroutines *)

\* What all steps of a goroutine have in common: the channel is not closed.
LEMMA StepsBeforeClose ==
  ASSUME Inv, NEW r \in R, Validate(r)
  PROVE  ~closed /\ Phase'
<1>1. ~closed
  BY ClosedIsQuiet DEF Validate, Acquire, Report, Release, Done
<1>2. UNCHANGED <<kind, pc, next, closed, valid, invalid>>
  BY DEF Validate, Acquire, Report, Release, Done
<1>3. pc # "passed" /\ (pc = "failed" => ReadAllFails \/ Rows = 0)
  BY <1>1 DEF Inv, Phase
<1> QED
  BY <1>1, <1>2, <1>3 DEF Inv, Phase, ReadAllFails

\* A report enters the channel and the set of rows reported.
LEMMA StepReport ==
  ASSUME Inv, NEW r \in R, Report(r)
  PROVE  WaitGroupCounts' /\ UnreadWasSaid' /\ Tally'
<1>1. /\ results' = results \union {<<r, ValidateRow(r)>>} /\ worker[r] = "validating"
      /\ worker' = [worker EXCEPT ![r] = "reported"] /\ UNCHANGED <<kind, waiting, valid, invalid>>
  BY DEF Report
<1>2. WaitGroupCounts'
  <2>1. Pending' = Pending
    BY <1>1 DEF Inv, Shape, Pending
  <2> QED
    BY <1>1, <2>1 DEF Inv, WaitGroupCounts
<1>3. /\ Accepted \in SUBSET R /\ Rejected \in SUBSET R
      /\ UnreadAccepted \in SUBSET R /\ UnreadRejected \in SUBSET R
  BY DEF Accepted, Rejected, Reported, UnreadAccepted, UnreadRejected
<1>4. /\ Cardinality(Accepted) \in Nat /\ Cardinality(Rejected) \in Nat
      /\ Cardinality(UnreadAccepted) \in Nat /\ Cardinality(UnreadRejected) \in Nat
  BY <1>3, RowSets
<1>5. CASE ValidateRow(r)
  <2>1. Accepted' = Accepted \union {r} /\ Rejected' = Rejected /\ r \notin Accepted
    BY <1>1, <1>5 DEF Inv, Shape, Accepted, Rejected, Reported, ValidateRow
  <2>2. UnreadAccepted' = UnreadAccepted \union {r} /\ UnreadRejected' = UnreadRejected
    BY <1>1, <1>5 DEF UnreadAccepted, UnreadRejected
  <2>3. r \notin UnreadAccepted
    BY <2>1 DEF Inv, UnreadWasSaid
  <2>4. /\ Cardinality(Accepted') = Cardinality(Accepted) + 1
        /\ Cardinality(UnreadAccepted') = Cardinality(UnreadAccepted) + 1
    BY <1>3, <2>1, <2>2, <2>3, OneMore
  <2>5. UnreadWasSaid'
    BY <2>1, <2>2 DEF Inv, UnreadWasSaid
  <2>6. Tally'
    BY <1>1, <1>4, <2>1, <2>2, <2>4 DEF Inv, Shape, Tally
  <2> QED
    BY <1>2, <2>5, <2>6
<1>6. CASE ~ValidateRow(r)
  <2>1. Rejected' = Rejected \union {r} /\ Accepted' = Accepted /\ r \notin Rejected
    BY <1>1, <1>6 DEF Inv, Shape, Accepted, Rejected, Reported, ValidateRow
  <2>2. UnreadRejected' = UnreadRejected \union {r} /\ UnreadAccepted' = UnreadAccepted
    <3>1. ValidateRow(r) = FALSE
      BY <1>6, Zenon DEF ValidateRow
    <3>2. results' = results \union {<<r, FALSE>>}
      BY <1>1, <3>1, Zenon
    <3> QED
      BY <3>2 DEF UnreadAccepted, UnreadRejected
  <2>3. r \notin UnreadRejected
    BY <2>1 DEF Inv, UnreadWasSaid
  <2>4. /\ Cardinality(Rejected') = Cardinality(Rejected) + 1
        /\ Cardinality(UnreadRejected') = Cardinality(UnreadRejected) + 1
    BY <1>3, <2>1, <2>2, <2>3, OneMore
  <2>5. UnreadWasSaid'
    BY <2>1, <2>2 DEF Inv, UnreadWasSaid
  <2>6. Tally'
    BY <1>1, <1>4, <2>1, <2>2, <2>4 DEF Inv, Shape, Tally
  <2> QED
    BY <1>2, <2>5, <2>6
<1> QED
  BY <1>5, <1>6

\* Every step of a goroutine keeps the counters right.
LEMMA StepValidate ==
  ASSUME Inv, NEW r \in R, Validate(r)
  PROVE  Inv'
<1>1. Phase'
  BY StepsBeforeClose
<1>2. PICK s \in Stage \ {"none"} : worker' = [worker EXCEPT ![r] = s]
  BY DEF Validate, Acquire, Report, Release, Done, Stage
<1>3. worker[r] # "none" /\ UNCHANGED <<kind, pc, next, closed, valid, invalid, cancelled>>
  BY DEF Validate, Acquire, Report, Release, Done
<1>4. StartedInOrder'
  BY <1>2, <1>3 DEF Inv, Shape, StartedInOrder
<1>5. WaitGroupCounts' /\ UnreadWasSaid' /\ Tally'
  <2>1. CASE Report(r)
    BY <2>1, StepReport
  <2>2. CASE Acquire(r) \/ Release(r)
    <3>1. Pending' = Pending /\ Accepted' = Accepted /\ Rejected' = Rejected
          /\ UnreadAccepted' = UnreadAccepted /\ UnreadRejected' = UnreadRejected
      BY <2>2 DEF Acquire, Release, Inv, Shape, Pending, Accepted, Rejected, Reported, UnreadAccepted, UnreadRejected, ValidateRow
    <3> QED
      BY <2>2, <3>1 DEF Acquire, Release, Inv, WaitGroupCounts, UnreadWasSaid, Tally
  <2>3. CASE Done(r)
    <3>1. Accepted' = Accepted /\ Rejected' = Rejected
          /\ UnreadAccepted' = UnreadAccepted /\ UnreadRejected' = UnreadRejected
      BY <2>3 DEF Done, Inv, Shape, Accepted, Rejected, Reported, UnreadAccepted, UnreadRejected, ValidateRow
    <3>2. Pending' = Pending \ {r} /\ r \in Pending
      BY <2>3 DEF Done, Inv, Shape, Pending
    <3>3. Cardinality(Pending') = Cardinality(Pending) - 1
      BY <3>2, OneLess DEF Pending
    <3> QED
      BY <2>3, <3>1, <3>3 DEF Done, Inv, WaitGroupCounts, UnreadWasSaid, Tally
  <2> QED
    BY <2>1, <2>2, <2>3 DEF Validate
<1>6. Shape'
  <2>1. worker' \in [R -> Stage]
    BY <1>2 DEF Inv, Shape
  <2>2. results' \subseteq R \X BOOLEAN
    <3>1. ValidateRow(r) \in BOOLEAN
      BY Zenon DEF ValidateRow
    <3>2. results \subseteq R \X BOOLEAN
      BY Zenon DEF Inv, Shape
    <3>3. results' = results \/ results' = results \union {<<r, ValidateRow(r)>>}
      BY Zenon DEF Validate, Acquire, Report, Release, Done
    <3>4. <<r, ValidateRow(r)>> \in R \X BOOLEAN
      BY <3>1, Zenon
    <3> QED
      BY <3>2, <3>3, <3>4, Zenon
  <2>3. waiting' \in Nat
    BY <1>5, RowSets DEF WaitGroupCounts, Pending
  <2> QED
    BY <1>3, <2>1, <2>2, <2>3 DEF Inv, Shape
<1> QED
  BY <1>1, <1>4, <1>5, <1>6 DEF Inv

\* Every step keeps the invariant.
LEMMA StepInv == Inv /\ [Next]_vars => Inv'
<1> SUFFICES ASSUME Inv, [Next]_vars PROVE Inv'
  OBVIOUS
<1>1. CASE Loop
  BY <1>1, StepLoop
<1>2. ASSUME NEW r \in R, Validate(r) PROVE Inv'
  BY <1>2, StepValidate
<1>3. CASE Cancel \/ UNCHANGED vars
  <2>1. UNCHANGED <<kind, pc, next, worker, results, closed, waiting, valid, invalid>> /\ cancelled' \in BOOLEAN
    BY <1>3 DEF Cancel, vars, Inv, Shape
  <2>2. WaitGroupCounts' /\ UnreadWasSaid' /\ Tally'
    BY <2>1, SameSets DEF Inv
  <2> QED
    BY <2>1, <2>2 DEF Inv, Shape, StartedInOrder, Phase, ReadAllFails
<1> QED
  BY <1>1, <1>2, <1>3 DEF Next

\* The invariant holds in every run.
LEMMA AlwaysInv == Spec => []Inv
  BY InitInv, StepInv, PTL DEF Spec

-----------------------------------------------------------------------------
(* Theorems *)

\* The variables keep their types: the WaitGroup never counts more goroutines than rows, and
\* no row is counted twice.
THEOREM FanoutTypes == Spec => []TypeOK
<1>1. ASSUME Inv PROVE TypeOK
  <2>1. Cardinality(Pending) <= Rows
    BY RowSets DEF Pending
  <2>2. /\ Cardinality(Accepted) <= Rows /\ Cardinality(Accepted) \in Nat
        /\ Cardinality(Rejected) <= Rows /\ Cardinality(Rejected) \in Nat
        /\ Cardinality(UnreadAccepted) \in Nat /\ Cardinality(UnreadRejected) \in Nat
    <3>1. /\ Accepted \in SUBSET R /\ Rejected \in SUBSET R
          /\ UnreadAccepted \in SUBSET R /\ UnreadRejected \in SUBSET R
      BY DEF Accepted, Rejected, Reported, UnreadAccepted, UnreadRejected
    <3> QED
      BY <3>1, RowSets
  <2>3. waiting \in 0..Rows
    BY <1>1, <2>1, RowsAssumption DEF Inv, Shape, WaitGroupCounts
  <2>4. valid \in 0..Rows /\ invalid \in 0..Rows
    BY <1>1, <2>2, RowsAssumption DEF Inv, Shape, Tally
  <2> QED
    BY <1>1, <2>3, <2>4 DEF Inv, Shape, TypeOK, Stage
<1> QED
  BY <1>1, AlwaysInv, PTL

\* No goroutine sends on the closed channel: the channel is closed when the WaitGroup is down
\* to 0, and it counts every goroutine that has not reported.
THEOREM ReportsBeforeClose == Spec => []NoSendAfterClose
<1>1. ASSUME Inv PROVE NoSendAfterClose
  BY <1>1, ClosedIsQuiet DEF NoSendAfterClose
<1> QED
  BY <1>1, AlwaysInv, PTL

\* The verdict does not depend on the order of the goroutines: it is that of counting the
\* valid rows one by one.
THEOREM VerdictOfReference == Spec => []VerdictIsReference
<1>1. ASSUME Inv, pc \in {"passed", "failed"}, next > Rows PROVE valid = ValidRows /\ valid + invalid = Rows
  <2>1. CASE closed
    <3>1. results = {} /\ ~ReadAllFails
      BY <1>1, <2>1, RowsAssumption DEF Inv, Phase
    <3>2. UnreadAccepted = {} /\ UnreadRejected = {}
      BY <3>1 DEF UnreadAccepted, UnreadRejected
    <3>3. \A r \in R : worker[r] = "done" /\ kind[r] \in {"valid", "unkeyed"}
      BY <1>1, <2>1, <3>1, ClosedIsQuiet, StatesAssumption DEF Inv, Shape, ReadAllFails
    <3>4. Accepted = {r \in R : kind[r] = "valid"}
      BY <3>3 DEF Accepted, Rejected, Reported, ValidateRow
    <3>5. Rejected = R \ Accepted
      BY <3>3 DEF Accepted, Rejected, Reported, ValidateRow
    <3>6. Cardinality(Accepted) + Cardinality(Rejected) = Rows
      <4>1. IsFiniteSet(R) /\ Cardinality(R) = Rows
        BY RowsAssumption, FS_Interval DEF R
      <4>2. Cardinality(R \ Accepted) = Cardinality(R) - Cardinality(R \intersect Accepted)
        BY <4>1, RowSets, FS_Difference DEF Accepted, Rejected, Reported
      <4>3. R \intersect Accepted = Accepted
        BY DEF Accepted, Rejected, Reported
      <4> QED
        <5>1. Cardinality(Accepted) \in Nat
          BY RowSets DEF Accepted
        <5>2. Cardinality(Rejected) = Rows - Cardinality(Accepted)
          BY <3>5, <4>1, <4>2, <4>3
        <5> QED
          BY <5>1, <5>2, RowsAssumption
    <3> QED
      BY <1>1, <3>2, <3>4, <3>6, FS_EmptySet DEF Inv, Shape, Tally, ValidRows
  <2>2. CASE ~closed
    <3>1. next = 1 /\ valid = 0 /\ invalid = 0
      BY <1>1, <2>2 DEF Inv, Phase
    <3>2. Rows = 0 /\ R = {}
      BY <1>1, <3>1, RowsAssumption DEF R
    <3>3. ValidRows = 0
      BY <3>2, FS_EmptySet DEF ValidRows
    <3> QED
      BY <3>1, <3>2, <3>3
  <2> QED
    BY <2>1, <2>2
<1>2. ASSUME Inv, pc \in {"passed", "failed"}
      PROVE (pc = "passed") <=> (Rows > 0 /\ ~ReadAllFails /\ 2 * ValidRows >= Rows)
  <2>1. CASE closed
    <3>1. next > Rows /\ Rows > 0 /\ ~ReadAllFails
      BY <1>2, <2>1, RowsAssumption DEF Inv, Phase
    <3>0. valid = ValidRows
      BY <1>1, <1>2, <3>1
    <3>2. pc = "passed" <=> 100 * valid >= 50 * Rows
      BY <1>2, <2>1, <3>1, RowsAssumption DEF Inv, Shape, Phase
    <3> QED
      BY <1>2, <3>0, <3>1, <3>2, RowsAssumption DEF Inv, Shape
  <2>2. CASE ~closed
    BY <1>2, <2>2 DEF Inv, Phase
  <2> QED
    BY <2>1, <2>2
<1>3. ASSUME Inv PROVE VerdictIsReference
  BY <1>3, <1>1, <1>2 DEF VerdictIsReference
<1> QED
  BY <1>3, AlwaysInv, PTL

-----------------------------------------------------------------------------
(* The end *)

\* Whose turn it may be: the guards of runCSVProcessing ...
LoopCanGoOn ==
    \/ pc \in {"parse", "spawn", "count"}
    \/ pc = "wait" /\ waiting = 0

\* ... and of a row's goroutine.
RowCanGoOn(r) ==
    \/ worker[r] \in {"validating", "reported", "released"}
    \/ worker[r] = "waiting" /\ Cardinality(InSem) < Width

\* As long as the function has not returned, or one of its goroutines has not ended, somebody
\* can go on.
NeverStuck ==
    ~Returned \/ (\E r \in R : worker[r] \notin {"none", "done"})
        => LoopCanGoOn \/ \E r \in R : RowCanGoOn(r)

\* The semaphore, the WaitGroup and the channel do not deadlock, for any width and any number
\* of rows, cancelled or not: whoever waits for the semaphore waits for a goroutine that can
\* go on, and wg.Wait for one of either kind.
THEOREM FanoutNeverStuck == Spec => []NeverStuck
<1>1. ASSUME Inv, ~LoopCanGoOn, \A r \in R : ~RowCanGoOn(r)
      PROVE  Returned /\ \A r \in R : worker[r] \in {"none", "done"}
  <2>1. InSem = {}
    BY <1>1 DEF InSem, RowCanGoOn
  <2>2. Cardinality(InSem) < Width
    BY <2>1, FS_EmptySet, WidthAssumption
  <2>3. \A r \in R : worker[r] \in {"none", "done"}
    BY <1>1, <2>2 DEF Inv, Shape, Stage, RowCanGoOn
  <2>4. Pending = {}
    BY <2>3 DEF Pending
  <2>5. waiting = 0
    BY <1>1, <2>4, FS_EmptySet DEF Inv, WaitGroupCounts
  <2> QED
    BY <1>1, <2>3, <2>5 DEF Inv, Shape, LoopCanGoOn, Returned
<1>2. Inv => NeverStuck
  BY <1>1 DEF NeverStuck
<1> QED
  BY <1>2, AlwaysInv, PTL

\* The goroutines that have taken at least n steps.
StepsOf == [s \in Stage |-> CASE s = "none" -> 0
                              [] s = "waiting" -> 1
                              [] s = "validating" -> 2
                              [] s = "reported" -> 3
                              [] s = "released" -> 4
                              [] s = "done" -> 5]
Past(n) == {r \in R : StepsOf[worker[r]] >= n}

StepsOfRows ==
    Cardinality(Past(1)) + Cardinality(Past(2)) + Cardinality(Past(3))
        + Cardinality(Past(4)) + Cardinality(Past(5))

StepsOfLoop ==
    CASE pc = "parse" -> 0
      [] pc = "spawn" -> 1
      [] pc = "wait" -> 2
      [] pc = "count" -> 3
      [] OTHER -> 4

StepsOfContext == IF cancelled THEN 1 ELSE 0

\* How far the job is.
StepsDone == StepsOfRows + StepsOfLoop + (valid + invalid) + StepsOfContext

LEMMA PastType ==
  ASSUME NEW n \in 1..5
  PROVE  Past(n) \in SUBSET R /\ Cardinality(Past(n)) \in Nat /\ Cardinality(Past(n)) <= Rows
  BY RowSets DEF Past

LEMMA StepsType ==
  ASSUME Inv
  PROVE  StepsOfRows \in 0..(5 * Rows) /\ StepsOfLoop \in 0..4 /\ valid + invalid \in 0..Rows
<1>1. StepsOfRows \in 0..(5 * Rows)
  BY PastType, RowsAssumption DEF StepsOfRows
<1>2. StepsOfLoop \in 0..4
  BY DEF StepsOfLoop
<1>3. /\ Accepted \in SUBSET R /\ Rejected \in SUBSET R
      /\ UnreadAccepted \in SUBSET R /\ UnreadRejected \in SUBSET R
  BY DEF Accepted, Rejected, Reported, UnreadAccepted, UnreadRejected
<1>4. Cardinality(Accepted) + Cardinality(Rejected) <= Rows
  <2>1. Accepted \union Rejected \in SUBSET R /\ Accepted \intersect Rejected = {}
    BY <1>3 DEF Accepted, Rejected
  <2>2. Cardinality(Accepted \union Rejected)
          = Cardinality(Accepted) + Cardinality(Rejected) - Cardinality(Accepted \intersect Rejected)
    BY <1>3, RowSets, FS_Union
  <2>3. Cardinality(Accepted \union Rejected) <= Rows /\ Cardinality({}) = 0
    BY <2>1, RowSets, FS_EmptySet
  <2>4. Cardinality(Accepted) \in Nat /\ Cardinality(Rejected) \in Nat
    BY <1>3, RowSets
  <2> QED
    BY <2>1, <2>2, <2>3, <2>4, RowsAssumption
<1>5. valid + invalid \in 0..Rows
  <2>1. /\ Cardinality(Accepted) \in Nat /\ Cardinality(Rejected) \in Nat
        /\ Cardinality(UnreadAccepted) \in Nat /\ Cardinality(UnreadRejected) \in Nat
    BY <1>3, RowSets
  <2> QED
    BY <1>4, <2>1, RowsAssumption DEF Inv, Shape, Tally
<1> QED
  BY <1>1, <1>2, <1>5

\* A step of one row's goroutine is one more step, and the other rows are where they were.
LEMMA RowStep ==
  ASSUME Inv, NEW r \in R, NEW s \in Stage, worker' = [worker EXCEPT ![r] = s],
         StepsOf[s] = StepsOf[worker[r]] + 1
  PROVE  StepsOfRows' = StepsOfRows + 1
<1>1. worker \in [R -> Stage] /\ worker[r] \in Stage
  BY DEF Inv, Shape
<1>2. \A t \in Stage : StepsOf[t] \in 0..5
  BY DEF StepsOf, Stage
<1>3. PICK n \in 1..5 : n = StepsOf[s]
  BY <1>1, <1>2
<1>4. \A m \in 1..5 : m # n => Past(m)' = Past(m)
  BY <1>1, <1>2, <1>3 DEF Past
<1>5. r \notin Past(n) /\ Past(n)' = Past(n) \union {r}
  BY <1>1, <1>2, <1>3 DEF Past
<1>6. Cardinality(Past(n)') = Cardinality(Past(n)) + 1
  BY <1>5, PastType, OneMore
<1>7. \A m \in 1..5 : Cardinality(Past(m)) \in Nat
  BY PastType
<1>8. /\ Cardinality(Past(1)') = Cardinality(Past(1)) + (IF n = 1 THEN 1 ELSE 0)
      /\ Cardinality(Past(2)') = Cardinality(Past(2)) + (IF n = 2 THEN 1 ELSE 0)
      /\ Cardinality(Past(3)') = Cardinality(Past(3)) + (IF n = 3 THEN 1 ELSE 0)
      /\ Cardinality(Past(4)') = Cardinality(Past(4)) + (IF n = 4 THEN 1 ELSE 0)
      /\ Cardinality(Past(5)') = Cardinality(Past(5)) + (IF n = 5 THEN 1 ELSE 0)
  BY <1>4, <1>6, <1>7
<1> QED
  BY <1>3, <1>7, <1>8 DEF StepsOfRows

\* A step of nobody's goroutine leaves them where they are.
LEMMA NoRowStep == ASSUME worker' = worker PROVE StepsOfRows' = StepsOfRows
  BY DEF StepsOfRows, Past

LEMMA StepCounts == Inv /\ Next => StepsDone' > StepsDone
<1> SUFFICES ASSUME Inv, Next PROVE StepsDone' > StepsDone
  OBVIOUS
<1>0. /\ StepsOfRows \in Nat /\ StepsOfLoop \in Nat /\ valid \in Nat /\ invalid \in Nat
      /\ StepsOfContext \in Nat /\ pc \in {"parse", "spawn", "wait", "count", "passed", "failed", "aborted"}
  BY StepsType, RowsAssumption DEF Inv, Shape, StepsOfContext
<1>1. ASSUME NEW r \in R, Validate(r) PROVE StepsDone' > StepsDone
  <2>1. StepsOfRows' = StepsOfRows + 1
    <3>1. PICK s \in Stage : worker' = [worker EXCEPT ![r] = s] /\ StepsOf[s] = StepsOf[worker[r]] + 1
      BY <1>1 DEF Validate, Acquire, Report, Release, Done, StepsOf, Stage
    <3> QED
      BY <3>1, RowStep
  <2>2. UNCHANGED <<pc, valid, invalid, cancelled>>
    BY <1>1 DEF Validate, Acquire, Report, Release, Done
  <2>3. StepsOfLoop' = StepsOfLoop /\ StepsOfContext' = StepsOfContext
    BY <2>2 DEF StepsOfLoop, StepsOfContext
  <2> QED
    BY <1>0, <2>1, <2>2, <2>3 DEF StepsDone
<1>2. CASE Spawn
  <2>1. next \in R /\ worker[next] = "none" /\ worker' = [worker EXCEPT ![next] = "waiting"]
    BY <1>2, RowsAssumption DEF Spawn, Inv, StartedInOrder, Shape, R
  <2>2. PICK r \in R : r = next
    BY <2>1
  <2>3. StepsOf["waiting"] = StepsOf["none"] + 1 /\ "waiting" \in Stage
    BY DEF StepsOf, Stage
  <2>4. StepsOfRows' = StepsOfRows + 1
    BY <2>1, <2>2, <2>3, RowStep
  <2>5. UNCHANGED <<pc, valid, invalid, cancelled>>
    BY <1>2 DEF Spawn
  <2>6. StepsOfLoop' = StepsOfLoop /\ StepsOfContext' = StepsOfContext
    BY <2>5 DEF StepsOfLoop, StepsOfContext
  <2> QED
    BY <1>0, <2>4, <2>5, <2>6 DEF StepsDone
<1>3. CASE Parse \/ Abort \/ EndSpawn \/ Wait \/ Finish
  <2>1. worker' = worker /\ valid' = valid /\ invalid' = invalid /\ cancelled' = cancelled
    BY <1>3 DEF Parse, Abort, EndSpawn, Wait, Finish
  <2>2. StepsOfLoop' \in Nat /\ StepsOfLoop' > StepsOfLoop
    BY <1>3 DEF Parse, Abort, EndSpawn, Wait, Finish, StepsOfLoop
  <2>3. StepsOfRows' = StepsOfRows /\ StepsOfContext' = StepsOfContext
    BY <2>1, NoRowStep DEF StepsOfContext
  <2>4. StepsDone' = StepsOfRows + StepsOfLoop' + (valid + invalid) + StepsOfContext
    BY <2>1, <2>3 DEF StepsDone
  <2> QED
    BY <1>0, <2>2, <2>4 DEF StepsDone
<1>4. CASE Count
  <2>1. worker' = worker /\ pc' = pc /\ cancelled' = cancelled
    BY <1>4 DEF Count
  <2>2. valid' \in Nat /\ invalid' \in Nat /\ valid' + invalid' = valid + invalid + 1
    BY <1>0, <1>4 DEF Count
  <2>3. StepsOfRows' = StepsOfRows /\ StepsOfLoop' = StepsOfLoop /\ StepsOfContext' = StepsOfContext
    BY <2>1, NoRowStep DEF StepsOfLoop, StepsOfContext
  <2>4. StepsDone' = StepsOfRows + StepsOfLoop + (valid' + invalid') + StepsOfContext
    BY <2>3 DEF StepsDone
  <2>5. StepsDone' = StepsOfRows + StepsOfLoop + (valid + invalid + 1) + StepsOfContext
    BY <2>2, <2>4
  <2> QED
    BY <1>0, <2>5 DEF StepsDone
<1>5. CASE Cancel
  <2>1. UNCHANGED <<worker, pc, valid, invalid>> /\ ~cancelled /\ cancelled'
    BY <1>5 DEF Cancel
  <2>2. StepsOfRows' = StepsOfRows /\ StepsOfLoop' = StepsOfLoop
        /\ StepsOfContext' = StepsOfContext + 1
    BY <2>1, NoRowStep DEF StepsOfLoop, StepsOfContext
  <2> QED
    BY <1>0, <2>1, <2>2 DEF StepsDone
<1> QED
  BY <1>1, <1>2, <1>3, <1>4, <1>5 DEF Next, Loop

\* Every step brings the job on, and there are only so many.
EndsInTime == StepsDone <= 6 * Rows + 5
BringsOn == [][StepsDone' > StepsDone]_vars

\* A CSV job of n rows is over after 6 n + 5 steps at most, those of the goroutines an aborted
\* run leaves behind included.  With FanoutNeverStuck it is the part of EverythingEnds that is
\* no matter of fairness.
THEOREM FanoutEnds == Spec => []EndsInTime /\ BringsOn
<1>1. Inv => EndsInTime
  BY StepsType, RowsAssumption DEF EndsInTime, StepsDone, StepsOfContext
<1>2. Inv /\ [Next]_vars => [StepsDone' > StepsDone]_vars
  BY StepCounts
<1> QED
  BY <1>1, <1>2, AlwaysInv, PTL DEF Spec, BringsOn
=============================================================================
