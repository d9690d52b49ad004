---------------------------- MODULE SseHubProofs ----------------------------
(***************************************************************************)
(* Proofs about SseHub, for any numbers of connections, broadcasters and   *)
(* events and any size of the buffers: what a registered browser gets, in  *)
(* which order, and what nobody has to wait for.  LiveView, the page on    *)
(* top of it, is shown to use the hub only by the hub's own steps, so the  *)
(* same holds there.                                                       *)
(***************************************************************************)
EXTENDS LiveView, SequenceTheorems, TLAPS

\* The handlers and the map, and the memory of a connection that is not in the map.
Registered ==
    /\ \A c \in Conns : c \in clients <=> handler[c] \in {"serving", "leaving"}
    /\ \A c \in Conns \ clients :
          written[c] = <<>> /\ buffer[c] = <<>> /\ missed[c] = {} /\ owed[c] = {}

\* Broadcasts under way are of events of their own, not finished, and walk over registered
\* connections.
Casts ==
    /\ \A b \in Broadcasters :
          /\ casting[b] # None => casting[b] \in 1..events /\ casting[b] \notin finished
          /\ casting[b] = None => todo[b] = {}
          /\ todo[b] \subseteq clients
    /\ \A a, b \in Broadcasters : casting[a] # None /\ casting[a] = casting[b] => a = b
    /\ finished \subseteq 1..events
    /\ \A e \in Events : before[e] \subseteq finished

InHand(c, e) == \E b \in Broadcasters : casting[b] = e /\ c \in todo[b]
Got(c, e) == \E k \in Positions(c) : Stream(c)[k] = e

\* Everything owed to a connection was sent, dropped, or is in the hands of the broadcast
\* that is coming to it: exactly one of the three.
Account(c) ==
    /\ owed[c] \subseteq 1..events
    /\ missed[c] \subseteq owed[c]
    /\ \A k \in Positions(c) : Stream(c)[k] \in owed[c] \ missed[c]
    /\ \A j, k \in Positions(c) : Stream(c)[j] = Stream(c)[k] => j = k
    /\ \A e \in owed[c] : Got(c, e) \/ e \in missed[c] \/ InHand(c, e)
    /\ \A b \in Broadcasters : c \in todo[b] =>
          casting[b] \in owed[c] /\ casting[b] \notin missed[c] /\ ~Got(c, casting[b])
    /\ \A j, k \in Positions(c) : j < k => Stream(c)[k] \notin before[Stream(c)[j]]

Inv == HubTypeOK /\ Registered /\ Casts /\ \A c \in clients : Account(c)

-----------------------------------------------------------------------------
(* Sequences *)

\* What is put into the buffer comes at the end of the stream.
LEMMA StreamGrows ==
  ASSUME NEW S, NEW w \in Seq(S), NEW s \in Seq(S), NEW e \in S
  PROVE  w \o Append(s, e) = Append(w \o s, e)
<1>1. <<e>> \in Seq(S) /\ w \o s \in Seq(S)
  BY ConcatProperties
<1>2. Append(s, e) = s \o <<e>> /\ Append(w \o s, e) = (w \o s) \o <<e>>
  BY <1>1, AppendIsConcat
<1> QED
  BY <1>1, <1>2, ConcatAssociative

\* Writing the oldest message leaves the stream as it is.
LEMMA StreamMoves ==
  ASSUME NEW S, NEW w \in Seq(S), NEW s \in Seq(S), s # <<>>
  PROVE  Append(w, Head(s)) \o Tail(s) = w \o s
<1>1. Head(s) \in S /\ Tail(s) \in Seq(S)
  BY HeadTailProperties
<1>2. <<Head(s)>> \in Seq(S)
  BY <1>1
<1>3. Append(w, Head(s)) \o Tail(s) = w \o (<<Head(s)>> \o Tail(s))
  BY <1>1, <1>2, AppendIsConcat, ConcatAssociative
<1>4. <<Head(s)>> \o Tail(s) = s
  <2>1. Len(s) \in Nat /\ Len(s) > 0
    BY EmptySeq, LenProperties
  <2>2. 1 \in 1..Len(s) /\ Len(s) \in 1..Len(s)
    BY <2>1
  <2>3. SubSeq(s, 1, Len(s)) = <<s[1]>> \o SubSeq(s, 2, Len(s))
    BY <2>2, SubSeqRecursiveFirst
  <2>4. SubSeq(s, 1, Len(s)) = s
    BY SubSeqFull
  <2> QED
    BY <2>3, <2>4, TailIsSubSeq
<1> QED
  BY <1>3, <1>4

\* A stream is a sequence of events.
LEMMA StreamIsSeq ==
  ASSUME HubTypeOK, NEW c \in Conns
  PROVE  Stream(c) \in Seq(Events) /\ Len(Stream(c)) \in Nat
         /\ \A k \in Positions(c) : Stream(c)[k] \in Events
<1>1. Stream(c) \in Seq(Events)
  BY ConcatProperties DEF HubTypeOK, Stream
<1> QED
  BY <1>1, LenProperties, ElementOfSeq DEF Positions

-----------------------------------------------------------------------------
\* Nothing is registered, cast or owed at first.
LEMMA InitInv == HubInit => Inv
<1> SUFFICES ASSUME HubInit PROVE Inv
  OBVIOUS
<1>1. HubTypeOK
  <2>1. /\ flushing \in Writers /\ clients \subseteq Conns /\ finished \subseteq Events
        /\ handler \in [Conns -> {"none", "entering", "serving", "leaving"}]
        /\ casting \in [Broadcasters -> Events \union {None}]
        /\ todo \in [Broadcasters -> SUBSET Conns]
        /\ before \in [Events -> SUBSET Events]
        /\ missed \in [Conns -> SUBSET Events] /\ owed \in [Conns -> SUBSET Events]
    BY DEF HubInit
  <2>2. /\ buffer \in [Conns -> Seq(Events)] /\ written \in [Conns -> Seq(Events)]
        /\ \A c \in Conns : Len(buffer[c]) <= Buffer
    BY BufferAssumption DEF HubInit
  <2>3. lost \in [Conns -> BOOLEAN]
    BY DEF HubInit
  <2>4. events \in 0..MaxEvents
    BY EventsAssumption DEF HubInit
  <2> QED
    BY <2>1, <2>2, <2>3, <2>4 DEF HubTypeOK
<1>2. Registered /\ Casts
  BY DEF HubInit, Registered, Casts
<1>3. clients = {}
  BY DEF HubInit
<1> QED
  BY <1>1, <1>2, <1>3 DEF Inv

-----------------------------------------------------------------------------
(* Types, the map and the broadcasts under way *)

\* Every step keeps the types.
LEMMA TypesStep == Inv /\ HubNext => HubTypeOK'
<1> SUFFICES ASSUME Inv, HubNext PROVE HubTypeOK'
  OBVIOUS
<1>1. HubTypeOK
  BY DEF Inv
<1> USE DEF connVars, castVars, seenVars, histVars
<1>2. ASSUME NEW b \in Broadcasters, BeginBroadcast(b) PROVE HubTypeOK'
  <2>1. events + 1 \in Events /\ events + 1 \in 0..MaxEvents
    BY <1>1, <1>2, EventsAssumption DEF HubTypeOK, BeginBroadcast, Events
  <2> QED
    BY <1>1, <1>2, <2>1 DEF HubTypeOK, BeginBroadcast
<1>3. ASSUME NEW b \in Broadcasters, EndBroadcast(b) PROVE HubTypeOK'
  BY <1>1, <1>3 DEF HubTypeOK, EndBroadcast
<1>4. ASSUME NEW b \in Broadcasters, NEW c \in Conns, Offer(b, c) PROVE HubTypeOK'
  <2>1. casting[b] \in Events
    BY <1>1, <1>4 DEF Inv, Casts, HubTypeOK, Offer
  <2>2. buffer' \in [Conns -> Seq(Events)] /\ \A k \in Conns : Len(buffer'[k]) <= Buffer
    <3>1. CASE buffer' = buffer
      BY <1>1, <3>1 DEF HubTypeOK
    <3>2. CASE Len(buffer[c]) < Buffer /\ buffer' = [buffer EXCEPT ![c] = Append(@, casting[b])]
      <4>1. Append(buffer[c], casting[b]) \in Seq(Events)
            /\ Len(Append(buffer[c], casting[b])) = Len(buffer[c]) + 1 /\ Len(buffer[c]) \in Nat
        BY <1>1, <2>1, AppendProperties, LenProperties DEF HubTypeOK
      <4> QED
        BY <1>1, <3>2, <4>1, BufferAssumption DEF HubTypeOK
    <3> QED
      BY <1>4, <3>1, <3>2 DEF Offer
  <2>3. missed' \in [Conns -> SUBSET Events] /\ todo' \in [Broadcasters -> SUBSET Conns]
    <3>1. missed[c] \union {casting[b]} \in SUBSET Events /\ todo[b] \ {c} \in SUBSET Conns
      BY <1>1, <2>1 DEF HubTypeOK
    <3>2. /\ missed' = missed \/ missed' = [missed EXCEPT ![c] = missed[c] \union {casting[b]}]
          /\ todo' = [todo EXCEPT ![b] = todo[b] \ {c}]
      BY <1>4 DEF Offer
    <3> QED
      BY <1>1, <3>1, <3>2 DEF HubTypeOK
  <2> QED
    BY <1>1, <1>4, <2>2, <2>3 DEF HubTypeOK, Offer
<1>5. ASSUME NEW c \in Conns, ServeSSE(c) \/ Lose(c) PROVE HubTypeOK'
  <2>1. CASE Enter(c)
    BY <1>1, <2>1 DEF HubTypeOK, Enter
  <2>2. CASE Register(c)
    BY <1>1, <2>2 DEF HubTypeOK, Register
  <2>3. CASE Write(c)
    <3>1. /\ Head(buffer[c]) \in Events /\ Tail(buffer[c]) \in Seq(Events)
          /\ Len(Tail(buffer[c])) = Len(buffer[c]) - 1 /\ Len(buffer[c]) \in Nat
      BY <1>1, <2>3, HeadTailProperties, LenProperties DEF HubTypeOK, Write
    <3>2. Append(written[c], Head(buffer[c])) \in Seq(Events)
      BY <1>1, <3>1 DEF HubTypeOK
    <3>3. \A k \in Conns : Len(buffer'[k]) <= Buffer
      BY <1>1, <2>3, <3>1, BufferAssumption DEF HubTypeOK, Write
    <3> QED
      BY <1>1, <2>3, <3>1, <3>2, <3>3 DEF HubTypeOK, Write
  <2>4. CASE Leave(c)
    BY <1>1, <2>4 DEF HubTypeOK, Leave
  <2>5. CASE Unregister(c)
    BY <1>1, <2>5, BufferAssumption DEF HubTypeOK, Unregister
  <2>6. CASE Lose(c)
    BY <1>1, <2>6 DEF HubTypeOK, Lose
  <2> QED
    BY <1>5, <2>1, <2>2, <2>3, <2>4, <2>5, <2>6 DEF ServeSSE
<1> QED
  BY <1>2, <1>3, <1>4, <1>5 DEF HubNext, Broadcast

\* A connection that is not in the map keeps nothing.
LEMMA RegisteredStep == Inv /\ HubNext => Registered'
<1> SUFFICES ASSUME Inv, HubNext PROVE Registered'
  OBVIOUS
<1>1. HubTypeOK /\ Registered /\ Casts
  BY DEF Inv
<1> USE DEF connVars, castVars, seenVars, histVars
<1>2. ASSUME NEW b \in Broadcasters, BeginBroadcast(b) \/ EndBroadcast(b) PROVE Registered'
  BY <1>1, <1>2 DEF Registered, HubTypeOK, BeginBroadcast, EndBroadcast
<1>3. ASSUME NEW b \in Broadcasters, NEW c \in Conns, Offer(b, c) PROVE Registered'
  <2>1. c \in clients
    BY <1>1, <1>3 DEF Casts, Offer
  <2> QED
    BY <1>1, <1>3, <2>1 DEF Registered, HubTypeOK, Offer
<1>4. ASSUME NEW c \in Conns, Enter(c) \/ Leave(c) \/ Lose(c) PROVE Registered'
  BY <1>1, <1>4 DEF Registered, HubTypeOK, Enter, Leave, Lose
<1>5. ASSUME NEW c \in Conns, Register(c) PROVE Registered'
  BY <1>1, <1>5 DEF Registered, HubTypeOK, Register
<1>6. ASSUME NEW c \in Conns, Write(c) PROVE Registered'
  <2>1. c \in clients
    BY <1>1, <1>6 DEF Registered, Write
  <2> QED
    BY <1>1, <1>6, <2>1 DEF Registered, HubTypeOK, Write
<1>7. ASSUME NEW c \in Conns, Unregister(c) PROVE Registered'
  BY <1>1, <1>7 DEF Registered, HubTypeOK, Unregister
<1> QED
  BY <1>2, <1>3, <1>4, <1>5, <1>6, <1>7 DEF HubNext, Broadcast, ServeSSE

\* Broadcasts have events of their own, and the Lock keeps the map still under them.
LEMMA CastsStep == Inv /\ HubNext => Casts'
<1> SUFFICES ASSUME Inv, HubNext PROVE Casts'
  OBVIOUS
<1>1. HubTypeOK /\ Casts /\ events \in Nat
  BY EventsAssumption DEF Inv, HubTypeOK
<1> USE DEF connVars, castVars, seenVars, histVars
<1>2. ASSUME NEW b \in Broadcasters, BeginBroadcast(b) PROVE Casts'
  <2>1. /\ \A a \in Broadcasters : casting'[a] = IF a = b THEN events + 1 ELSE casting[a]
        /\ \A a \in Broadcasters : todo'[a] = IF a = b THEN clients ELSE todo[a]
        /\ \A e \in Events : before'[e] = IF e = events + 1 THEN finished ELSE before[e]
        /\ events' = events + 1 /\ UNCHANGED <<clients, finished>>
    BY <1>1, <1>2 DEF HubTypeOK, BeginBroadcast
  <2>2. events + 1 \notin 1..events /\ events + 1 \in 1..events' /\ 1..events \subseteq 1..events'
    BY <1>1, <2>1
  <2>3. events + 1 # None
    BY <1>1, NoneAssumption
  <2>4. \A a \in Broadcasters :
          /\ casting'[a] # None => casting'[a] \in 1..events' /\ casting'[a] \notin finished'
          /\ casting'[a] = None => todo'[a] = {}
          /\ todo'[a] \subseteq clients'
    BY <1>1, <2>1, <2>2, <2>3 DEF Casts
  <2>5. \A a1, a2 \in Broadcasters : casting'[a1] # None /\ casting'[a1] = casting'[a2] => a1 = a2
    BY <1>1, <2>1, <2>2 DEF Casts
  <2>6. finished' \subseteq 1..events' /\ \A e \in Events : before'[e] \subseteq finished'
    BY <1>1, <2>1, <2>2 DEF Casts
  <2> QED
    BY <2>4, <2>5, <2>6 DEF Casts, Events
<1>3. ASSUME NEW b \in Broadcasters, EndBroadcast(b) PROVE Casts'
  <2>1. /\ \A a \in Broadcasters : casting'[a] = IF a = b THEN None ELSE casting[a]
        /\ finished' = finished \union {casting[b]} /\ casting[b] # None /\ todo[b] = {}
        /\ UNCHANGED <<clients, todo, events, before>>
    BY <1>1, <1>3 DEF HubTypeOK, EndBroadcast
  <2> QED
    BY <1>1, <2>1 DEF Casts, Events
<1>4. ASSUME NEW b \in Broadcasters, NEW c \in Conns, Offer(b, c) PROVE Casts'
  <2>1. /\ \A a \in Broadcasters : todo'[a] = IF a = b THEN todo[b] \ {c} ELSE todo[a]
        /\ UNCHANGED <<clients, casting, events, finished, before>>
    BY <1>1, <1>4 DEF HubTypeOK, Offer
  <2> QED
    BY <1>1, <2>1 DEF Casts, Events
<1>5. ASSUME NEW c \in Conns, ServeSSE(c) \/ Lose(c) PROVE Casts'
  <2>1. UNCHANGED <<casting, todo, events, finished, before>>
    BY <1>5 DEF ServeSSE, Enter, Register, Write, Leave, Unregister, Lose
  <2>2. clients \subseteq clients' \/ Unlocked
    BY <1>5 DEF ServeSSE, Enter, Register, Write, Leave, Unregister, Lose
  <2>3. \A b \in Broadcasters : todo[b] \subseteq clients'
    BY <1>1, <2>2 DEF Casts, Unlocked
  <2> QED
    BY <1>1, <2>1, <2>3 DEF Casts, Events
<1> QED
  BY <1>2, <1>3, <1>4, <1>5 DEF HubNext, Broadcast

-----------------------------------------------------------------------------
(* What a browser gets *)

\* The account of a connection depends on what it was sent and is to be sent alone.
LEMMA SameAccount ==
  ASSUME NEW c \in Conns, Account(c),
         Stream(c)' = Stream(c), UNCHANGED <<events, missed[c], owed[c], casting, todo, before>>
  PROVE  Account(c)'
<1>1. Positions(c)' = Positions(c)
  BY DEF Positions
<1>2. \A e : Got(c, e)' = Got(c, e) /\ InHand(c, e)' = InHand(c, e)
  BY <1>1 DEF Got, InHand
<1> QED
  BY <1>1, <1>2 DEF Account

\* A broadcast begins: its event is owed to everybody in the map, and in hand.
LEMMA BeginAccount ==
  ASSUME Inv, NEW b \in Broadcasters, BeginBroadcast(b), NEW c \in clients
  PROVE  Account(c)'
<1>0. PICK new \in Events : new = events + 1
  BY EventsAssumption DEF Inv, HubTypeOK, BeginBroadcast, Events
<1>1. c \in Conns /\ HubTypeOK /\ Casts /\ Account(c) /\ events \in Nat
  BY EventsAssumption DEF Inv, HubTypeOK
<1>2. /\ \A a \in Broadcasters : casting'[a] = IF a = b THEN new ELSE casting[a]
      /\ \A a \in Broadcasters : todo'[a] = IF a = b THEN clients ELSE todo[a]
      /\ \A e \in Events : before'[e] = IF e = new THEN finished ELSE before[e]
      /\ owed'[c] = owed[c] \union {new} /\ missed'[c] = missed[c] /\ events' = new
      /\ casting[b] = None /\ todo[b] = {}
  BY <1>0, <1>1 DEF HubTypeOK, Casts, BeginBroadcast, seenVars
<1>3. Stream(c)' = Stream(c) /\ Positions(c)' = Positions(c)
  BY DEF BeginBroadcast, Stream, Positions, connVars, seenVars
<1>4. new \notin owed[c] /\ 1..events \subseteq 1..new /\ new \in 1..new
  BY <1>0, <1>1 DEF Account
<1>5. ~Got(c, new) /\ new \notin missed[c] /\ \A k \in Positions(c) : Stream(c)[k] # new
  BY <1>4, <1>1 DEF Account, Got
<1>6. \A e : Got(c, e)' = Got(c, e)
  BY <1>3 DEF Got
<1>7. \A e \in owed[c] : InHand(c, e) => InHand(c, e)'
  BY <1>2 DEF InHand
<1>8. InHand(c, new)'
  BY <1>2 DEF InHand
<1>9. /\ owed'[c] \subseteq 1..events' /\ missed'[c] \subseteq owed'[c]
      /\ \A e \in owed'[c] : Got(c, e)' \/ e \in missed'[c] \/ InHand(c, e)'
  BY <1>1, <1>2, <1>4, <1>6, <1>7, <1>8 DEF Account
<1>10. \A a \in Broadcasters : c \in todo'[a] =>
         casting'[a] \in owed'[c] /\ casting'[a] \notin missed'[c] /\ ~Got(c, casting[a])'
  <2>1. Got(c, casting[b])' <=> Got(c, new)
    BY <1>2, <1>3 DEF Got
  <2>2. \A a \in Broadcasters : a # b => (Got(c, casting[a])' <=> Got(c, casting[a]))
    BY <1>2, <1>3 DEF Got
  <2> QED
    BY <1>1, <1>2, <1>5, <2>1, <2>2 DEF Account
<1>11. /\ \A k \in Positions(c) : Stream(c)[k] \in owed'[c] \ missed'[c]
       /\ \A j, k \in Positions(c) : Stream(c)[j] = Stream(c)[k] => j = k
       /\ \A j, k \in Positions(c) : j < k => Stream(c)[k] \notin before'[Stream(c)[j]]
  BY <1>1, <1>2, <1>5, StreamIsSeq DEF Account
<1> QED
  BY <1>3, <1>9, <1>10, <1>11 DEF Account

\* The broadcast comes to a connection: its event is sent to it or dropped, and not in hand
\* any more.
LEMMA OfferAccount ==
  ASSUME Inv, NEW b \in Broadcasters, NEW c \in Conns, Offer(b, c)
  PROVE  Account(c)'
<1>0. PICK e \in Events : e = casting[b]
  BY DEF Inv, HubTypeOK, Casts, Offer
<1>1. HubTypeOK /\ Casts /\ Account(c) /\ e # None /\ e \notin finished
  BY <1>0, NoneAssumption DEF Inv, Casts, Offer
<1>2. /\ \A a \in Broadcasters : todo'[a] = IF a = b THEN todo[b] \ {c} ELSE todo[a]
      /\ c \in todo[b]
      /\ UNCHANGED <<casting, events, owed, before, written>>
  BY <1>1 DEF HubTypeOK, Offer, histVars
<1>3. /\ e \in owed[c] /\ e \notin missed[c] /\ \A k \in Positions(c) : Stream(c)[k] # e
      /\ ~InHand(c, e)'
  <2>1. \A a \in Broadcasters : casting[a] = e => a = b
    BY <1>0, <1>1 DEF Casts
  <2> QED
    BY <1>0, <1>1, <1>2, <2>1 DEF Account, Got, InHand
<1>4. \A x \in owed[c] : x # e => (InHand(c, x) => InHand(c, x)')
  BY <1>0, <1>2 DEF InHand
<1>5. \A a \in Broadcasters : c \in todo'[a] => c \in todo[a] /\ casting[a] # e
  <2>1. \A a \in Broadcasters : casting[a] = e => a = b
    BY <1>0, <1>1 DEF Casts
  <2> QED
    BY <1>2, <2>1
<1>6. CASE Len(buffer[c]) = Buffer /\ missed' = [missed EXCEPT ![c] = @ \union {casting[b]}] /\ buffer' = buffer
  <2>1. missed'[c] = missed[c] \union {e}
    BY <1>0, <1>1, <1>6 DEF HubTypeOK
  <2>2. Stream(c)' = Stream(c) /\ Positions(c)' = Positions(c) /\ \A x : Got(c, x)' = Got(c, x)
    BY <1>2, <1>6 DEF Stream, Positions, Got
  <2>3. /\ \A x \in owed[c] : Got(c, x)' \/ x \in missed'[c] \/ InHand(c, x)'
        /\ \A a \in Broadcasters : c \in todo'[a] =>
             casting'[a] \in owed'[c] /\ casting'[a] \notin missed'[c] /\ ~Got(c, casting[a])'
    <3>1. \A a \in Broadcasters : Got(c, casting[a])' <=> Got(c, casting[a])
      BY <1>2, <2>2 DEF Got
    <3> QED
      BY <1>1, <1>2, <1>4, <1>5, <2>1, <2>2, <3>1 DEF Account
  <2>4. /\ owed'[c] \subseteq 1..events' /\ missed'[c] \subseteq owed'[c]
        /\ \A k \in Positions(c) : Stream(c)[k] \in owed'[c] \ missed'[c]
        /\ \A j, k \in Positions(c) : Stream(c)[j] = Stream(c)[k] => j = k
        /\ \A j, k \in Positions(c) : j < k => Stream(c)[k] \notin before'[Stream(c)[j]]
    BY <1>1, <1>2, <1>3, <2>1 DEF Account
  <2> QED
    BY <1>2, <2>2, <2>3, <2>4 DEF Account
<1>7. CASE Len(buffer[c]) < Buffer /\ buffer' = [buffer EXCEPT ![c] = Append(@, casting[b])] /\ missed' = missed
  <2> DEFINE n == Len(Stream(c))
  <2>1. Stream(c)' = Append(Stream(c), e)
    <3>1. buffer'[c] = Append(buffer[c], e) /\ written'[c] = written[c]
      BY <1>0, <1>1, <1>2, <1>7 DEF HubTypeOK
    <3> QED
      BY <1>1, <3>1, StreamGrows DEF HubTypeOK, Stream
  <2>2. /\ n \in Nat /\ Positions(c) = 1..n /\ Positions(c)' = 1..(n + 1)
        /\ Stream(c)'[n + 1] = e
        /\ \A k \in 1..n : Stream(c)'[k] = Stream(c)[k] /\ Stream(c)[k] \in Events
    BY <1>1, <2>1, StreamIsSeq, AppendProperties DEF Positions
  <2> HIDE DEF n
  <2>3. \A x : Got(c, x)' <=> Got(c, x) \/ x = e
    <3>1. \A x : Got(c, x)' <=> \E k \in 1..(n + 1) : Stream(c)'[k] = x
      BY <2>2 DEF Got
    <3>2. \A k \in 1..(n + 1) : k \in 1..n \/ k = n + 1
      BY <2>2
    <3>3. 1..n \subseteq 1..(n + 1) /\ n + 1 \in 1..(n + 1)
      BY <2>2
    <3> QED
      BY <2>2, <3>1, <3>2, <3>3 DEF Got
  <2>4. /\ \A x \in owed[c] : Got(c, x)' \/ x \in missed'[c] \/ InHand(c, x)'
        /\ \A a \in Broadcasters : c \in todo'[a] =>
             casting'[a] \in owed'[c] /\ casting'[a] \notin missed'[c] /\ ~Got(c, casting[a])'
    <3>1. \A a \in Broadcasters : Got(c, casting[a])' <=> Got(c, casting[a]) \/ casting[a] = e
      <4>1. \A a \in Broadcasters : Got(c, casting[a])' <=> \E k \in 1..(n + 1) : Stream(c)'[k] = casting[a]
        BY <1>2, <2>2 DEF Got
      <4>2. \A k \in 1..(n + 1) : k \in 1..n \/ k = n + 1
        BY <2>2
      <4>3. 1..n \subseteq 1..(n + 1) /\ n + 1 \in 1..(n + 1)
        BY <2>2
      <4> QED
        BY <2>2, <4>1, <4>2, <4>3 DEF Got
    <3> QED
      BY <1>1, <1>2, <1>4, <1>5, <1>7, <2>3, <3>1 DEF Account
  <2>5. ASSUME NEW k \in 1..(n + 1), NEW j \in 1..(n + 1)
        PROVE  /\ Stream(c)'[k] \in owed[c] \ missed[c]
               /\ Stream(c)'[j] = Stream(c)'[k] => j = k
               /\ j < k => Stream(c)'[k] \notin before[Stream(c)'[j]]
    <3>1. CASE j \in 1..n /\ k \in 1..n
      BY <1>1, <2>2, <3>1 DEF Account
    <3>2. CASE j \in 1..n /\ k = n + 1
      BY <1>1, <1>3, <2>2, <3>2 DEF Casts
    <3>3. CASE j = n + 1 /\ k \in 1..n
      <4>1. Stream(c)'[k] \in owed[c] \ missed[c] /\ Stream(c)'[k] # e
        BY <1>1, <1>3, <2>2, <3>3 DEF Account
      <4>2. ~(j < k)
        BY <2>2, <3>3
      <4> QED
        BY <2>2, <3>3, <4>1, <4>2
    <3>4. CASE j = n + 1 /\ k = n + 1
      BY <1>3, <2>2, <3>4
    <3> QED
      BY <2>2, <3>1, <3>2, <3>3, <3>4
  <2>6. owed'[c] \subseteq 1..events' /\ missed'[c] \subseteq owed'[c]
    BY <1>1, <1>2, <1>7 DEF Account
  <2> QED
    BY <1>2, <1>7, <2>2, <2>4, <2>5, <2>6 DEF Account
<1> QED
  BY <1>6, <1>7 DEF Offer

\* Every step keeps the accounts of the connections that stay or come into the map.
LEMMA AccountStep == Inv /\ HubNext => \A c \in clients' : Account(c)'
<1> SUFFICES ASSUME Inv, HubNext, NEW c \in clients' PROVE Account(c)'
  OBVIOUS
<1>1. HubTypeOK /\ Registered /\ Casts /\ c \in Conns
  <2>1. HubTypeOK'
    BY TypesStep
  <2> QED
    BY <2>1 DEF Inv, HubTypeOK
<1>2. c \in clients => Account(c)
  BY DEF Inv
<1> USE DEF connVars, castVars, seenVars, histVars
<1>3. ASSUME NEW b \in Broadcasters, BeginBroadcast(b) PROVE Account(c)'
  BY <1>3, BeginAccount DEF BeginBroadcast
<1>4. ASSUME NEW b \in Broadcasters, NEW k \in Conns, Offer(b, k) PROVE Account(c)'
  <2>1. CASE k = c
    BY <1>4, <2>1, OfferAccount
  <2>2. CASE k # c
    <3>1. /\ buffer'[c] = buffer[c] /\ written'[c] = written[c] /\ missed'[c] = missed[c]
          /\ \A a \in Broadcasters : c \in todo'[a] <=> c \in todo[a]
          /\ UNCHANGED <<casting, events, owed, before, clients>>
      BY <1>1, <1>4, <2>2 DEF HubTypeOK, Offer
    <3>2. Stream(c)' = Stream(c) /\ Positions(c)' = Positions(c)
      BY <3>1 DEF Stream, Positions
    <3>3. \A e : Got(c, e)' = Got(c, e) /\ InHand(c, e)' = InHand(c, e)
      BY <3>1, <3>2 DEF Got, InHand
    <3>4. \A a \in Broadcasters : Got(c, casting[a])' = Got(c, casting[a])
      BY <3>1, <3>2 DEF Got
    <3> QED
      BY <1>2, <3>1, <3>2, <3>3, <3>4 DEF Account
  <2> QED
    BY <2>1, <2>2
<1>5. ASSUME NEW b \in Broadcasters, EndBroadcast(b) PROVE Account(c)'
  <2>1. /\ \A a \in Broadcasters : casting'[a] = IF a = b THEN None ELSE casting[a]
        /\ todo[b] = {}
        /\ UNCHANGED <<todo, events, owed, missed, before, clients, written, buffer>>
    BY <1>1, <1>5 DEF HubTypeOK, EndBroadcast
  <2>2. Stream(c)' = Stream(c) /\ Positions(c)' = Positions(c)
    BY <2>1 DEF Stream, Positions
  <2>3. \A e : Got(c, e)' = Got(c, e)
    BY <2>2 DEF Got
  <2>4. \A e : InHand(c, e) => InHand(c, e)'
    BY <2>1 DEF InHand
  <2>5. \A a \in Broadcasters : c \in todo[a] => casting'[a] = casting[a] /\ (Got(c, casting[a])' <=> Got(c, casting[a]))
    BY <2>1, <2>2 DEF Got
  <2> QED
    BY <1>2, <2>1, <2>2, <2>3, <2>4, <2>5 DEF Account
<1>6. ASSUME NEW k \in Conns, Enter(k) \/ Leave(k) \/ Lose(k) PROVE Account(c)'
  <2>1. UNCHANGED <<clients, buffer, written, events, missed, owed, casting, todo, before>>
    BY <1>6 DEF Enter, Leave, Lose
  <2> QED
    BY <1>1, <1>2, <2>1, SameAccount DEF Stream
<1>7. ASSUME NEW k \in Conns, Register(k) PROVE Account(c)'
  <2>1. UNCHANGED <<buffer, written, events, missed, owed, casting, todo, before>>
    BY <1>7 DEF Register
  <2>2. CASE c \in clients
    BY <1>1, <1>2, <2>1, <2>2, SameAccount DEF Stream
  <2>3. CASE c \notin clients
    <3>1. written[c] = <<>> /\ buffer[c] = <<>> /\ missed[c] = {} /\ owed[c] = {}
      BY <1>1, <2>3 DEF Registered
    <3>2. \A b \in Broadcasters : c \notin todo[b]
      BY <1>1, <2>3 DEF Casts
    <3>3. Stream(c) = <<>> /\ Positions(c) = {}
      BY <3>1 DEF Stream, Positions
    <3>4. Account(c)
      BY <3>1, <3>2, <3>3 DEF Account
    <3> QED
      BY <1>1, <2>1, <3>4, SameAccount DEF Stream
  <2> QED
    BY <2>2, <2>3
<1>8. ASSUME NEW k \in Conns, Write(k) PROVE Account(c)'
  <2>1. UNCHANGED <<clients, events, missed, owed, casting, todo, before>>
    BY <1>8 DEF Write
  <2>2. Stream(c)' = Stream(c)
    <3>1. CASE k = c
      <4>1. written'[c] = Append(written[c], Head(buffer[c])) /\ buffer'[c] = Tail(buffer[c]) /\ buffer[c] # <<>>
        BY <1>1, <1>8, <3>1 DEF HubTypeOK, Write
      <4> QED
        BY <1>1, <4>1, StreamMoves DEF HubTypeOK, Stream
    <3>2. CASE k # c
      BY <1>1, <1>8, <3>2 DEF HubTypeOK, Write, Stream
    <3> QED
      BY <3>1, <3>2
  <2> QED
    BY <1>1, <1>2, <2>1, <2>2, SameAccount
<1>9. ASSUME NEW k \in Conns, Unregister(k) PROVE Account(c)'
  <2>1. c # k /\ c \in clients
    BY <1>9 DEF Unregister
  <2>2. /\ buffer'[c] = buffer[c] /\ written'[c] = written[c] /\ missed'[c] = missed[c] /\ owed'[c] = owed[c]
        /\ UNCHANGED <<events, casting, todo, before>>
    BY <1>1, <1>9, <2>1 DEF HubTypeOK, Unregister
  <2> QED
    BY <1>1, <1>2, <2>1, <2>2, SameAccount DEF Stream
<1> QED
  BY <1>3, <1>4, <1>5, <1>6, <1>7, <1>8, <1>9 DEF HubNext, Broadcast, ServeSSE

\* Every step keeps the invariant.
LEMMA StepInv == Inv /\ [HubNext]_hubVars => Inv'
<1> SUFFICES ASSUME Inv, [HubNext]_hubVars PROVE Inv'
  OBVIOUS
<1>1. CASE HubNext
  BY <1>1, TypesStep, RegisteredStep, CastsStep, AccountStep DEF Inv
<1>2. CASE UNCHANGED hubVars
  <2>1. HubTypeOK' /\ Registered' /\ Casts' /\ clients' = clients
    BY <1>2 DEF Inv, HubTypeOK, Registered, Casts, hubVars, connVars, castVars, seenVars, histVars
  <2>2. ASSUME NEW c \in clients PROVE Account(c)'
    BY <1>2, SameAccount DEF Inv, HubTypeOK, Stream, hubVars, connVars, castVars, seenVars, histVars
  <2> QED
    BY <2>1, <2>2 DEF Inv
<1> QED
  BY <1>1, <1>2

\* The invariant holds in every run.
LEMMA AlwaysInv == HubSpec => []Inv
  BY InitInv, StepInv, PTL DEF HubSpec

-----------------------------------------------------------------------------
(* Theorems *)

\* The hub's variables keep their types; no buffer is ever over its capacity.
THEOREM HubTypes == HubSpec => []HubTypeOK
  BY AlwaysInv, PTL DEF Inv

\* Every event broadcast while a browser is registered reaches it once or was dropped for its
\* full buffer, for any number of broadcasts that overlap.
THEOREM EveryEventIsAccounted == HubSpec => []DeliveredOrDropped
<1>1. ASSUME Inv PROVE DeliveredOrDropped
  <2> SUFFICES ASSUME NEW c \in clients
               PROVE  /\ owed[c] \intersect finished \subseteq {Stream(c)[k] : k \in Positions(c)} \union missed[c]
                      /\ \A k \in Positions(c) : Stream(c)[k] \in owed[c] \ missed[c]
                      /\ \A j, k \in Positions(c) : Stream(c)[j] = Stream(c)[k] => j = k
    BY DEF DeliveredOrDropped
  <2>1. Account(c) /\ Casts
    BY <1>1 DEF Inv
  <2>2. \A e \in finished : ~InHand(c, e)
    BY <2>1, NoneAssumption DEF Casts, InHand
  <2> QED
    BY <2>1, <2>2 DEF Account, Got
<1> QED
  BY <1>1, AlwaysInv, PTL

\* Events arrive in the order of their broadcasts, unless these overlapped.
THEOREM OrderIsKept == HubSpec => []OrderRespected
<1>1. Inv => OrderRespected
  BY DEF Inv, Account, OrderRespected
<1> QED
  BY <1>1, AlwaysInv, PTL

\* The page of LiveView uses the hub by the hub's own steps, whatever connections break and
\* come back: it implements the hub, and what is proved of the hub holds with it.
THEOREM LiveViewImplementsHub == LiveSpec => HubSpec /\ []DeliveredOrDropped /\ []OrderRespected
<1>1. LiveInit => HubInit
  BY DEF LiveInit
<1>2. [LiveNext]_liveVars => [HubNext]_hubVars
  <2> SUFFICES ASSUME [LiveNext]_liveVars PROVE HubNext \/ UNCHANGED hubVars
    BY Zenon
  <2>1. ASSUME NEW b \in Broadcasters, SaveChange(b) \/ Announce(b) \/ Push(b)
        PROVE  HubNext \/ UNCHANGED hubVars
    BY <2>1, Zenon DEF SaveChange, Announce, Push, HubNext, Broadcast
  <2>2. ASSUME NEW c \in Conns, Handle(c) \/ Connect(c) \/ ConnectAndEnd(c) \/ Receive(c) \/ Break(c)
        PROVE  HubNext
    BY <2>2, Zenon DEF Handle, Connect, ConnectAndEnd, Receive, Break, HubNext, ServeSSE
  <2>3. ASSUME Opened \/ Reconnect
        PROVE  UNCHANGED hubVars
    BY <2>3, Zenon DEF Opened, Reconnect
  <2>4. ASSUME UNCHANGED liveVars PROVE UNCHANGED hubVars
    BY <2>4 DEF liveVars
  <2> QED
    BY <2>1, <2>2, <2>3, <2>4, Zenon DEF LiveNext
<1>3. LiveSpec => HubSpec
  BY <1>1, <1>2, PTL DEF LiveSpec, HubSpec
<1> QED
  BY <1>3, EveryEventIsAccounted, OrderIsKept, PTL

-----------------------------------------------------------------------------
(* What broadcasts and browsers that went away have still to do *)

\* A broadcast under way is over, or the next client is registered and its event can be sent
\* or dropped, whichever client is next.
NeverWaits ==
    \A b \in Broadcasters : casting[b] # None =>
        \A c \in todo[b] : c \in clients /\ (Len(buffer[c]) < Buffer \/ Len(buffer[c]) = Buffer)

\* No step adds a client to a walk under way or exchanges its event, and it returns at the
\* end only: it has one step for each client that was registered when it began, and one more.
WalksShorten ==
    [][\A b \in Broadcasters : casting[b] # None =>
          \/ casting'[b] = casting[b] /\ todo'[b] \subseteq todo[b]
          \/ casting'[b] = None /\ todo[b] = {}]_hubVars

\* A handler has left its loop for a browser that went away only.
LeavingIsLost == \A c \in Conns : handler[c] = "leaving" => lost[c]

\* A browser that went away can leave its handler's loop, and then waits for nothing but the
\* broadcasts under way.
GoneCanLeave ==
    \A c \in clients : lost[c] => handler[c] \in {"serving", "leaving"}

\* It stays gone, and goes only forward, until it is off the map.
GoneIsFinal ==
    [][\A c \in clients : lost[c] =>
          \/ c \notin clients'
          \/ lost'[c] /\ (handler[c] = "leaving" => handler'[c] = "leaving")]_hubVars

LEMMA WalkStep ==
    ASSUME Inv, [HubNext]_hubVars, NEW b \in Broadcasters, casting[b] # None
    PROVE  \/ casting'[b] = casting[b] /\ todo'[b] \subseteq todo[b]
           \/ casting'[b] = None /\ todo[b] = {}
<1>1. HubTypeOK
  BY DEF Inv
<1>2. CASE UNCHANGED hubVars
  BY <1>2 DEF hubVars, castVars
<1>3. ASSUME NEW c \in Conns, ServeSSE(c) \/ Lose(c) PROVE UNCHANGED <<casting, todo>>
  BY <1>3 DEF ServeSSE, Enter, Register, Write, Leave, Unregister, Lose, castVars
<1>4. ASSUME NEW d \in Broadcasters, BeginBroadcast(d)
      PROVE  casting'[b] = casting[b] /\ todo'[b] \subseteq todo[b]
  BY <1>1, <1>4 DEF BeginBroadcast, HubTypeOK
<1>5. ASSUME NEW d \in Broadcasters, NEW c \in Conns, Offer(d, c)
      PROVE  casting'[b] = casting[b] /\ todo'[b] \subseteq todo[b]
  BY <1>1, <1>5 DEF Offer, HubTypeOK
<1>6. ASSUME NEW d \in Broadcasters, EndBroadcast(d)
      PROVE  \/ casting'[b] = casting[b] /\ todo'[b] \subseteq todo[b]
             \/ casting'[b] = None /\ todo[b] = {}
  BY <1>1, <1>6 DEF EndBroadcast, HubTypeOK
<1> QED
  BY <1>2, <1>3, <1>4, <1>5, <1>6 DEF HubNext, Broadcast

\* What a step does to a handler.
LEMMA HandlerStep ==
    ASSUME Inv, [HubNext]_hubVars, NEW c \in Conns
    PROVE  \/ handler'[c] = handler[c] /\ lost'[c] = lost[c] /\ (c \in clients => c \in clients')
           \/ handler[c] = "none" /\ handler'[c] = "entering" /\ lost'[c] = lost[c]
           \/ handler[c] = "entering" /\ handler'[c] = "serving" /\ lost'[c] = lost[c]
           \/ handler'[c] = handler[c] /\ lost'[c] /\ (c \in clients => c \in clients')
           \/ handler[c] = "serving" /\ handler'[c] = "leaving" /\ lost[c] /\ lost'[c]
           \/ handler[c] = "leaving" /\ handler'[c] = "none" /\ c \notin clients'
<1>1. HubTypeOK
  BY DEF Inv
<1>2. CASE UNCHANGED hubVars
  BY <1>2 DEF hubVars, connVars
<1>3. ASSUME NEW b \in Broadcasters, Broadcast(b) PROVE UNCHANGED <<handler, lost, clients>>
  BY <1>3 DEF Broadcast, BeginBroadcast, Offer, EndBroadcast, connVars
<1>4. ASSUME NEW d \in Conns, Enter(d) \/ Register(d) \/ Write(d)
      PROVE  \/ handler'[c] = handler[c] /\ lost'[c] = lost[c] /\ (c \in clients => c \in clients')
             \/ handler[c] = "none" /\ handler'[c] = "entering" /\ lost'[c] = lost[c]
             \/ handler[c] = "entering" /\ handler'[c] = "serving" /\ lost'[c] = lost[c]
  BY <1>1, <1>4 DEF Enter, Register, Write, HubTypeOK
<1>5. ASSUME NEW d \in Conns, Lose(d)
      PROVE  handler'[c] = handler[c] /\ (lost'[c] = lost[c] \/ lost'[c]) /\ UNCHANGED clients
  BY <1>1, <1>5 DEF Lose, HubTypeOK
<1>6. ASSUME NEW d \in Conns, Leave(d)
      PROVE  \/ handler'[c] = handler[c] /\ lost'[c] = lost[c] /\ UNCHANGED clients
             \/ handler[c] = "serving" /\ handler'[c] = "leaving" /\ lost[c] /\ lost'[c]
  BY <1>1, <1>6 DEF Leave, HubTypeOK
<1>7. ASSUME NEW d \in Conns, Unregister(d)
      PROVE  \/ handler'[c] = handler[c] /\ lost'[c] = lost[c] /\ (c \in clients => c \in clients')
             \/ handler[c] = "leaving" /\ handler'[c] = "none" /\ c \notin clients'
  BY <1>1, <1>7 DEF Unregister, HubTypeOK
<1> QED
  BY <1>2, <1>3, <1>4, <1>5, <1>6, <1>7 DEF HubNext, ServeSSE

LEMMA AlwaysLeavingIsLost == HubSpec => [](Inv /\ LeavingIsLost)
<1>1. HubInit => LeavingIsLost
  BY DEF HubInit, LeavingIsLost
<1>2. Inv /\ LeavingIsLost /\ [HubNext]_hubVars => LeavingIsLost'
  BY HandlerStep DEF LeavingIsLost
<1> QED
  BY <1>1, <1>2, AlwaysInv, PTL DEF HubSpec

\* The part of BroadcastsReturn that is no matter of fairness: a broadcast never waits for a
\* browser, whatever the buffers hold, and the walk it has left only gets shorter, since clients
\* are registered under the Lock (Broadcast of internal/ws/hub.go).
THEOREM BroadcastsNeverWait == HubSpec => []NeverWaits /\ WalksShorten
<1>1. Inv => NeverWaits
  <2> SUFFICES ASSUME Inv, NEW b \in Broadcasters, NEW c \in todo[b]
               PROVE  c \in clients /\ (Len(buffer[c]) < Buffer \/ Len(buffer[c]) = Buffer)
    BY DEF NeverWaits
  <2>1. c \in clients /\ c \in Conns
    BY DEF Inv, Casts, HubTypeOK
  <2>2. Len(buffer[c]) \in Nat /\ Len(buffer[c]) <= Buffer
    BY <2>1 DEF Inv, HubTypeOK
  <2> QED
    BY <2>1, <2>2, BufferAssumption
<1>2. Inv /\ [HubNext]_hubVars =>
          [\A b \in Broadcasters : casting[b] # None =>
              \/ casting'[b] = casting[b] /\ todo'[b] \subseteq todo[b]
              \/ casting'[b] = None /\ todo[b] = {}]_hubVars
  BY WalkStep
<1> QED
  BY <1>1, <1>2, AlwaysInv, PTL DEF HubSpec, WalksShorten

\* The part of GoneAreForgotten that is no matter of fairness: the handler of a browser that went
\* away can leave its loop, whether or not events arrive, and does not come back to it; and no
\* other handler leaves its loop (ServeSSE of internal/ws/hub.go).
THEOREM GoneOnlyLeave == HubSpec => [](LeavingIsLost /\ GoneCanLeave) /\ GoneIsFinal
<1>1. Inv => GoneCanLeave
  BY DEF Inv, Registered, HubTypeOK, GoneCanLeave
<1>2. ASSUME Inv, [HubNext]_hubVars, NEW c \in clients, lost[c]
      PROVE  \/ c \notin clients'
             \/ lost'[c] /\ (handler[c] = "leaving" => handler'[c] = "leaving")
  <2>1. c \in Conns /\ handler[c] \in {"serving", "leaving"}
    BY <1>2 DEF Inv, Registered, HubTypeOK
  <2> QED
    BY <1>2, <2>1, HandlerStep
<1>3. Inv /\ [HubNext]_hubVars =>
          [\A c \in clients : lost[c] =>
              \/ c \notin clients'
              \/ lost'[c] /\ (handler[c] = "leaving" => handler'[c] = "leaving")]_hubVars
  BY <1>2
<1> QED
  BY <1>1, <1>3, AlwaysLeavingIsLost, PTL DEF HubSpec, GoneIsFinal
=============================================================================
