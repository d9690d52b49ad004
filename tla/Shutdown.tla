------------------------------ MODULE Shutdown ------------------------------
(***************************************************************************)
(* The graceful shutdown of cmd/server/main.go around the queue of         *)
(* JobQueue: a signal cancels the workers' context, srv.Shutdown closes    *)
(* the listeners and waits at most 10 seconds for the requests under way,  *)
(* q.Close takes the queue's mutex, and main returns, which ends every     *)
(* goroutine where it stands.                                              *)
(*                                                                         *)
(* Producers are the requests that enqueue (CreateJob, RetryJob, SeedJobs, *)
(* which calls Enqueue many times) and the goroutines of the process       *)
(* itself: the retry timers and the scheduler.                             *)
(***************************************************************************)
EXTENDS JobQueue

CONSTANTS Handlers,  \* the producers that are HTTP requests
          JobsOf     \* the jobs each producer enqueues: a timer its own, a request any

ASSUME HandlersAssumption == Handlers \subseteq Producers
ASSUME JobsOfAssumption == JobsOf \in [Producers -> SUBSET Jobs]

VARIABLES listening, \* the server accepts connections
          open,      \* the requests under way
          timedOut,  \* srv.Shutdown gave up waiting for them
          exited     \* main has returned

mainVars == <<listening, timedOut, exited>>
allVars == <<vars, open, mainVars>>

\* A step of a goroutine while main has not returned.
Running == ~exited /\ UNCHANGED <<open, mainVars>>

ShutdownInit ==
    /\ Init
    /\ listening = TRUE
    /\ open = {}
    /\ timedOut = FALSE
    /\ exited = FALSE

\* The server accepts a request, also after the signal until srv.Shutdown is under way.
BeginRequest(p) ==
    /\ listening
    /\ p \notin open
    /\ open' = open \union {p}
    /\ UNCHANGED <<vars, mainVars>>

\* The handler returns.
EndRequest(p) ==
    /\ ~exited
    /\ p \in open /\ enq[p] = "idle"
    /\ open' = open \ {p}
    /\ UNCHANGED <<vars, mainVars>>

\* Code outside a request enqueues any time, a handler only within its request.
MayEnqueue(p) == p \in Handlers => p \in open

StartEnqueue(p) ==
    /\ MayEnqueue(p)
    /\ \E j \in JobsOf[p] : CallEnqueue(p, j)
    /\ Running

ContinueEnqueue(p) == (LockEnqueue(p) \/ Send(p) \/ CountSent(p)) /\ Running

\* A stats or health request, which is under way while it is inside Len.
StartLen(r) == listening /\ CallLen(r) /\ Running
FinishLen(r) == ReturnLen(r) /\ Running

Worker(c) == Dequeue(c) /\ Running

Signal == Cancel /\ Running

NoRequests == open = {} /\ \A r \in Readers : ~reading[r]

\* main calls srv.Shutdown, whose first step closes the listeners.
CloseListeners ==
    /\ ctxDone
    /\ listening
    /\ listening' = FALSE
    /\ UNCHANGED <<vars, open, timedOut, exited>>

\* Fault: the queue is closed without waiting for the requests under way.
ShutdownServerAtOnce ==
    /\ ~listening
    /\ CallClose
    /\ Running

\* srv.Shutdown returns because the requests are over, or because 10 seconds are.
\* Either way main goes on to q.Close.
ShutdownServer ==
    /\ ~listening
    /\ CallClose
    /\ \/ NoRequests /\ timedOut' = timedOut
       \/ ~NoRequests /\ timedOut' = TRUE
    /\ UNCHANGED <<listening, open, exited>>

CloseQueue == Close /\ Running

\* main returns.
Exit ==
    /\ ~exited
    /\ closing = "done"
    /\ exited' = TRUE
    /\ UNCHANGED <<vars, listening, open, timedOut>>

Request ==
    \/ \E p \in Handlers : BeginRequest(p) \/ EndRequest(p)
    \/ \E p \in Producers : StartEnqueue(p) \/ ContinueEnqueue(p)
    \/ \E r \in Readers : StartLen(r) \/ FinishLen(r)

ShutdownNext ==
    \/ Request
    \/ \E c \in Consumers : Worker(c)
    \/ Signal
    \/ CloseListeners
    \/ ShutdownServer
    \/ CloseQueue
    \/ Exit

ShutdownSpec == ShutdownInit /\ [][ShutdownNext]_allVars

\* As in JobQueue: mu is handed over in order; every goroutine that can go on does.  A
\* handler enqueues finitely often, so a request ends.  The 10 seconds pass.
ShutdownFairness ==
    /\ \A p \in Producers : /\ SF_allVars(LockEnqueue(p) /\ Running)
                            /\ WF_allVars((Send(p) \/ CountSent(p)) /\ Running)
    /\ \A p \in Handlers : SF_allVars(EndRequest(p))
    /\ \A c \in Consumers :
          /\ WF_allVars((Receive(c) \/ ExitWorker(c)) /\ Running)
          /\ SF_allVars(CountReceived(c) /\ Running)
          /\ WF_allVars(FinishWork(c) /\ Running)
    /\ \A r \in Readers : SF_allVars(FinishLen(r))
    /\ WF_allVars(CloseListeners)
    /\ WF_allVars(ShutdownServer)
    /\ SF_allVars(CloseQueue)
    /\ WF_allVars(Exit)

ShutdownLiveSpec == ShutdownSpec /\ ShutdownFairness

-----------------------------------------------------------------------------
(* Properties *)

\* Unless the 10 seconds ran out, the queue is closed only when no request is under
\* way: a client that was answered 201 or 200 has its job in the queue.
RequestsEndBeforeClose == closed /\ ~timedOut => NoRequests

\* The jam is the only way to get stuck: unless it happens, every Enqueue and every stats
\* or health request (Len) returns, although all of them may have to wait for a full channel
\* to drain, or main ends the process first.
CallsReturnUnlessJammed ==
    /\ \A p \in Producers : enq[p] = "lock" ~> (enq[p] = "idle" \/ Jammed \/ exited)
    /\ \A r \in Readers : reading[r] ~> (~reading[r] \/ Jammed \/ exited)

\* Likewise a worker that received a job gets to work on it.
ReceivedIsWorkedOnUnlessJammed ==
    \A c \in Consumers : deq[c] = "settle" ~> (deq[c] = "work" \/ Jammed \/ exited)

\* After a signal the process ends, whatever its goroutines are doing, unless the
\* queue is jammed: then q.Close waits for a mutex nobody will release.
ExitsUnlessJammed == ctxDone ~> (exited \/ Jammed)
=============================================================================
