------------------------------- MODULE SseHub -------------------------------
(***************************************************************************)
(* internal/ws/hub.go: the hub that pushes job events to the browsers.     *)
(*                                                                         *)
(*  - Broadcast walks over the clients under RLock and never waits: a      *)
(*    client whose buffer is full misses the event.  Several broadcasts    *)
(*    may walk at the same time.                                           *)
(*  - ServeSSE registers its client under Lock, writes what arrives in the *)
(*    client's buffer, and unregisters when the request's context ends.    *)
(*                                                                         *)
(* ServeSSE serves only a ResponseWriter that can flush.  The one it gets  *)
(* is the responseWriter of middleware.StructuredLogger, which cannot      *)
(* (internal/middleware/middleware.go, internal/api/routes.go): flushing   *)
(* is FALSE in the service as it is built, and TRUE for the hub without    *)
(* that middleware.                                                        *)
(*                                                                         *)
(* A connection's identity is used again after it is unregistered; the hub *)
(* gives each a number of its own (nextID).                                *)
(***************************************************************************)
EXTENDS Integers, Sequences, FiniteSets

CONSTANTS Conns,         \* connections that may be open at once
          Broadcasters,  \* goroutines that call Broadcast: handlers, workers, diagnoses
          Buffer,        \* capacity of a client's channel (32)
          MaxEvents,     \* events broadcast
          Writers,       \* what flushing may be
          None

ASSUME BufferAssumption == Buffer \in Nat \ {0}
ASSUME EventsAssumption == MaxEvents \in Nat
ASSUME WritersAssumption == Writers \subseteq BOOLEAN
ASSUME NoneAssumption == None \notin Nat

VARIABLES
    flushing,  \* the ResponseWriter is an http.Flusher
    clients,   \* the registered connections
    handler,   \* handler[c]: where ServeSSE stands for c
    buffer,    \* buffer[c]: c's channel
    lost,      \* lost[c]: the context of c's request is done
    casting,   \* casting[b]: the event b is broadcasting, or None
    todo,      \* todo[b]: the clients b has still to come to
    events,    \* events so far; the n-th is the number n
    finished,  \* history: the events whose Broadcast has returned
    before,    \* history: before[e]: the events finished when e began
    written,   \* history: written[c]: what was written to c
    missed,    \* history: missed[c]: the events dropped for c
    owed       \* history: owed[c]: the events begun while c was registered

connVars == <<flushing, clients, handler, buffer, lost>>
castVars == <<casting, todo, events>>
seenVars == <<written, missed>>
histVars == <<finished, before, owed>>
hubVars == <<connVars, castVars, seenVars, histVars>>

Events == 1..MaxEvents

HubTypeOK ==
    /\ flushing \in Writers
    /\ clients \subseteq Conns
    /\ handler \in [Conns -> {"none", "entering", "serving", "leaving"}]
    /\ buffer \in [Conns -> Seq(Events)]
    /\ \A c \in Conns : Len(buffer[c]) <= Buffer
    /\ lost \in [Conns -> BOOLEAN]
    /\ casting \in [Broadcasters -> Events \union {None}]
    /\ todo \in [Broadcasters -> SUBSET Conns]
    /\ events \in 0..MaxEvents
    /\ finished \subseteq Events
    /\ before \in [Events -> SUBSET Events]
    /\ written \in [Conns -> Seq(Events)]
    /\ missed \in [Conns -> SUBSET Events]
    /\ owed \in [Conns -> SUBSET Events]

HubInit ==
    /\ flushing \in Writers
    /\ clients = {}
    /\ handler = [c \in Conns |-> "none"]
    /\ buffer = [c \in Conns |-> <<>>]
    /\ lost = [c \in Conns |-> FALSE]
    /\ casting = [b \in Broadcasters |-> None]
    /\ todo = [b \in Broadcasters |-> {}]
    /\ events = 0
    /\ finished = {}
    /\ before = [e \in Events |-> {}]
    /\ written = [c \in Conns |-> <<>>]
    /\ missed = [c \in Conns |-> {}]
    /\ owed = [c \in Conns |-> {}]

-----------------------------------------------------------------------------
(* Broadcast *)

\* Fault: the walk is left to a goroutine, and Broadcast has returned.
BroadcastInBackground(b) ==
    /\ casting[b] = None
    /\ events < MaxEvents
    /\ events' = events + 1
    /\ casting' = [casting EXCEPT ![b] = events + 1]
    /\ todo' = [todo EXCEPT ![b] = clients]
    /\ before' = [before EXCEPT ![events + 1] = finished]
    /\ finished' = finished \union {events + 1}
    /\ UNCHANGED <<connVars, seenVars, owed>>

\* The event is encoded and RLock taken.
BeginBroadcast(b) ==
    /\ casting[b] = None
    /\ events < MaxEvents
    /\ events' = events + 1
    /\ casting' = [casting EXCEPT ![b] = events + 1]
    /\ todo' = [todo EXCEPT ![b] = clients]
    /\ before' = [before EXCEPT ![events + 1] = finished]
    /\ owed' = [c \in Conns |-> IF c \in clients THEN owed[c] \union {events + 1} ELSE owed[c]]
    /\ UNCHANGED <<connVars, seenVars, finished>>

\* Fault: the send waits for room.
OfferWaiting(b, c) ==
    /\ c \in todo[b]
    /\ Len(buffer[c]) < Buffer
    /\ todo' = [todo EXCEPT ![b] = @ \ {c}]
    /\ buffer' = [buffer EXCEPT ![c] = Append(@, casting[b])]
    /\ UNCHANGED <<flushing, clients, handler, lost, casting, events, seenVars, histVars>>

\* The next client in the map's order, which is any: the event goes into its buffer, or
\* is dropped if that is full.
Offer(b, c) ==
    /\ c \in todo[b]
    /\ todo' = [todo EXCEPT ![b] = @ \ {c}]
    /\ \/ /\ Len(buffer[c]) < Buffer
          /\ buffer' = [buffer EXCEPT ![c] = Append(@, casting[b])]
          /\ missed' = missed
       \/ /\ Len(buffer[c]) = Buffer
          /\ missed' = [missed EXCEPT ![c] = @ \union {casting[b]}]
          /\ buffer' = buffer
    /\ UNCHANGED <<flushing, clients, handler, lost, casting, events, written, histVars>>

\* Fault: Broadcast returns at the first client it cannot serve.
EndBroadcastEarly(b) ==
    /\ casting[b] # None
    /\ \A c \in todo[b] : Len(buffer[c]) = Buffer
    /\ casting' = [casting EXCEPT ![b] = None]
    /\ todo' = [todo EXCEPT ![b] = {}]
    /\ finished' = finished \union {casting[b]}
    /\ UNCHANGED <<connVars, events, seenVars, before, owed>>

\* RUnlock.
EndBroadcast(b) ==
    /\ casting[b] # None
    /\ todo[b] = {}
    /\ casting' = [casting EXCEPT ![b] = None]
    /\ finished' = finished \union {casting[b]}
    /\ UNCHANGED <<connVars, todo, events, seenVars, before, owed>>

-----------------------------------------------------------------------------
(* ServeSSE *)

Unlocked == \A b \in Broadcasters : casting[b] = None

\* GET /api/events: the headers go out, then the writer is asked for its Flusher.
Enter(c) ==
    /\ handler[c] = "none"
    /\ handler' = [handler EXCEPT ![c] = IF flushing THEN "entering" ELSE "none"]
    /\ UNCHANGED <<flushing, clients, buffer, lost, castVars, seenVars, histVars>>

\* The client is entered in the map under Lock.
Register(c) ==
    /\ handler[c] = "entering"
    /\ Unlocked
    /\ clients' = clients \union {c}
    /\ handler' = [handler EXCEPT ![c] = "serving"]
    /\ UNCHANGED <<flushing, buffer, lost, castVars, seenVars, histVars>>

\* The handler writes the oldest message and flushes.
Write(c) ==
    /\ handler[c] = "serving"
    /\ buffer[c] # <<>>
    /\ written' = [written EXCEPT ![c] = Append(@, Head(buffer[c]))]
    /\ buffer' = [buffer EXCEPT ![c] = Tail(@)]
    /\ UNCHANGED <<flushing, clients, handler, lost, castVars, missed, histVars>>

\* The browser goes away, or the network does.
Lose(c) ==
    /\ handler[c] # "none" /\ ~lost[c]
    /\ lost' = [lost EXCEPT ![c] = TRUE]
    /\ UNCHANGED <<flushing, clients, handler, buffer, castVars, seenVars, histVars>>

\* Fault: the handler notices only when it has something to write.
LeaveWhenWriting(c) ==
    /\ handler[c] = "serving"
    /\ lost[c] /\ buffer[c] # <<>>
    /\ handler' = [handler EXCEPT ![c] = "leaving"]
    /\ UNCHANGED <<flushing, clients, buffer, lost, castVars, seenVars, histVars>>

\* The select sees that the context is done.  With messages left it may write first.
Leave(c) ==
    /\ handler[c] = "serving"
    /\ lost[c]
    /\ handler' = [handler EXCEPT ![c] = "leaving"]
    /\ UNCHANGED <<flushing, clients, buffer, lost, castVars, seenVars, histVars>>

\* The deferred delete under Lock; nothing refers to the client any more.
Unregister(c) ==
    /\ handler[c] = "leaving"
    /\ Unlocked
    /\ clients' = clients \ {c}
    /\ handler' = [handler EXCEPT ![c] = "none"]
    /\ buffer' = [buffer EXCEPT ![c] = <<>>]
    /\ lost' = [lost EXCEPT ![c] = FALSE]
    /\ written' = [written EXCEPT ![c] = <<>>]
    /\ missed' = [missed EXCEPT ![c] = {}]
    /\ owed' = [owed EXCEPT ![c] = {}]
    /\ UNCHANGED <<flushing, castVars, finished, before>>

-----------------------------------------------------------------------------
Broadcast(b) == BeginBroadcast(b) \/ (\E c \in Conns : Offer(b, c)) \/ EndBroadcast(b)
ServeSSE(c) == Enter(c) \/ Register(c) \/ Write(c) \/ Leave(c) \/ Unregister(c)

HubNext == (\E b \in Broadcasters : Broadcast(b)) \/ (\E c \in Conns : ServeSSE(c) \/ Lose(c))

HubSpec == HubInit /\ [][HubNext]_hubVars

-----------------------------------------------------------------------------
(* Properties *)

\* What a registered connection was sent or will be sent, in order.
Stream(c) == written[c] \o buffer[c]
Positions(c) == 1..Len(Stream(c))

\* Every event broadcast while a browser was registered reaches it exactly once, or was
\* dropped because its buffer was full; nothing else reaches it.
DeliveredOrDropped ==
    \A c \in clients :
        /\ owed[c] \intersect finished \subseteq {Stream(c)[k] : k \in Positions(c)} \union missed[c]
        /\ \A k \in Positions(c) : Stream(c)[k] \in owed[c] \ missed[c]
        /\ \A j, k \in Positions(c) : Stream(c)[j] = Stream(c)[k] => j = k

\* Two events reach a browser in the order of their broadcasts, unless the broadcasts
\* overlapped: then the browsers may even disagree on the order.
OrderRespected ==
    \A c \in clients : \A j, k \in Positions(c) :
        j < k => Stream(c)[k] \notin before[Stream(c)[j]]

\* No broadcast waits for a browser: a worker or a request that announces a job goes on,
\* even if no browser ever reads what it is sent.
BroadcastsReturn == \A b \in Broadcasters : casting[b] # None ~> casting[b] = None

\* A browser that went away is taken off the map, whether or not events arrive.
GoneAreForgotten == \A c \in Conns : (handler[c] = "serving" /\ lost[c]) ~> c \notin clients
=============================================================================
