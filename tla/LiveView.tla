------------------------------ MODULE LiveView ------------------------------
(***************************************************************************)
(* How a page of the dashboard follows the database: SseProvider of        *)
(* web/src/contexts/SSEContext.jsx on top of the hub of SseHub.            *)
(*                                                                         *)
(* A goroutine saves a job and broadcasts the change.  The page fetches    *)
(* what it shows when it is opened and after every event it receives, and  *)
(* never otherwise: it does not poll, and it does not fetch again when a   *)
(* lost stream is back.  A fetch is one step here; Dashboard has fetches   *)
(* that overlap.                                                           *)
(***************************************************************************)
EXTENDS SseHub

CONSTANT MaxLosses  \* connections that are lost

ASSUME LossesAssumption == MaxLosses \in Nat

VARIABLES
    saved,    \* saved[b]: b has saved a change and not broadcast it yet
    version,  \* the state of the database
    page,     \* the state the page shows
    source,   \* the EventSource: "connecting", "open" or "closed" (waiting 3 s)
    conn,     \* its connection, or None
    losses,   \* connections lost so far
    covered   \* history: the newest state broadcast to the open stream

viewVars == <<version, page, source, conn, losses, covered>>
liveVars == <<hubVars, saved, viewVars>>

LiveInit ==
    /\ HubInit
    /\ saved = [b \in Broadcasters |-> FALSE]
    /\ version = 0
    /\ page = 0
    /\ source = "connecting"
    /\ conn = None
    /\ losses = 0
    /\ covered = 0

-----------------------------------------------------------------------------
(* The server *)

\* The row is saved, before the event is broadcast.
SaveChange(b) ==
    /\ casting[b] = None /\ ~saved[b]
    /\ version < MaxEvents
    /\ version' = version + 1
    /\ saved' = [saved EXCEPT ![b] = TRUE]
    /\ UNCHANGED <<hubVars, page, source, conn, losses, covered>>

Announce(b) ==
    /\ saved[b]
    /\ BeginBroadcast(b)
    /\ saved' = [saved EXCEPT ![b] = FALSE]
    /\ covered' = IF conn \in clients THEN version ELSE covered
    /\ UNCHANGED <<version, page, source, conn, losses>>

Push(b) ==
    /\ (\E c \in Conns : Offer(b, c)) \/ EndBroadcast(b)
    /\ UNCHANGED <<saved, viewVars>>

Handle(c) ==
    /\ Register(c) \/ Leave(c) \/ Unregister(c)
    /\ UNCHANGED <<saved, viewVars>>

-----------------------------------------------------------------------------
(* The browser *)

\* connect(): a new EventSource asks for /api/events.
Connect(c) ==
    /\ source = "connecting" /\ conn = None
    /\ flushing
    /\ Enter(c)
    /\ conn' = c
    /\ UNCHANGED <<saved, version, page, source, losses, covered>>

\* The same when the handler returns at once: the browser sees the headers, then the
\* end of the stream; onopen is called, and onerror after it.
ConnectAndEnd(c) ==
    /\ source = "connecting" /\ conn = None
    /\ ~flushing
    /\ Enter(c)
    /\ source' = "closed"
    /\ UNCHANGED <<saved, version, page, conn, losses, covered>>

\* onopen: the first flush of the handler arrives.
Opened ==
    /\ source = "connecting"
    /\ conn \in clients /\ ~lost[conn]
    /\ source' = "open"
    /\ UNCHANGED <<hubVars, saved, version, page, conn, losses, covered>>

\* Fault: the message is taken for the data.
ReceiveWithoutFetch(c) ==
    /\ Write(c)
    /\ page' = page
    /\ UNCHANGED <<saved, version, source, conn, losses, covered>>

\* onmessage: a written event reaches the page, which fetches.  An event written to a
\* connection the browser has given up reaches nobody.
Receive(c) ==
    /\ Write(c)
    /\ page' = IF c = conn /\ ~lost[c] THEN version ELSE page
    /\ UNCHANGED <<saved, version, source, conn, losses, covered>>

\* The connection breaks: onerror closes the EventSource and sets the timer.
Break(c) ==
    /\ losses < MaxLosses
    /\ Lose(c)
    /\ c = conn
    /\ losses' = losses + 1
    /\ conn' = None
    /\ source' = "closed"
    /\ covered' = 0
    /\ UNCHANGED <<saved, version, page>>

\* The 3 seconds are over: connect() again.
Reconnect ==
    /\ source = "closed"
    /\ source' = "connecting"
    /\ UNCHANGED <<hubVars, saved, version, page, conn, losses, covered>>

-----------------------------------------------------------------------------
LiveNext ==
    \/ \E b \in Broadcasters : SaveChange(b) \/ Announce(b) \/ Push(b)
    \/ \E c \in Conns : Handle(c) \/ Connect(c) \/ ConnectAndEnd(c) \/ Receive(c) \/ Break(c)
    \/ Opened
    \/ Reconnect

\* Broadcasts go on by themselves.  A waiting Lock of a sync.RWMutex keeps new readers
\* out, so it is granted (strong fairness).  A handler looks at its context.  A change that
\* is saved is announced, the browser's timer fires, its requests reach the server, and it
\* reads the stream it has; nobody reads one it has given up.
LiveFairness ==
    /\ \A b \in Broadcasters : WF_liveVars(Announce(b)) /\ WF_liveVars(Push(b))
    /\ \A c \in Conns :
          /\ SF_liveVars(Register(c) /\ UNCHANGED <<saved, viewVars>>)
          /\ WF_liveVars(Leave(c) /\ UNCHANGED <<saved, viewVars>>)
          /\ SF_liveVars(Unregister(c) /\ UNCHANGED <<saved, viewVars>>)
          /\ WF_liveVars(c = conn /\ Receive(c))
    /\ WF_liveVars(\E c \in Conns : Connect(c) \/ ConnectAndEnd(c))
    /\ WF_liveVars(Opened)
    /\ WF_liveVars(Reconnect)

LiveSpec == LiveInit /\ [][LiveNext]_liveVars /\ LiveFairness

-----------------------------------------------------------------------------
(* Properties *)

\* As long as its stream holds, the page comes to show every change that was broadcast
\* to it, even if its buffer overflowed and the hub dropped the event: one that is still
\* in the buffer makes the page fetch later.
StreamedChangesAreShown ==
    \A v \in 1..MaxEvents : covered >= v ~> (page >= v \/ covered = 0)

\* "Server-sent events push live status updates to the dashboard" (About.jsx:15), "React
\* frontend with 3s polling" (README.md:28): one way or the other, the page comes to show
\* every change.
PageCatchesUp == \A v \in 1..MaxEvents : version >= v ~> page >= v
=============================================================================
