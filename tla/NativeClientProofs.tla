------------------------- MODULE NativeClientProofs -------------------------
(***************************************************************************)
(* Invariants of NativeClient, for any capacity of the queue, any number   *)
(* of connections and any length of the units and of the streams; and, in  *)
(* the last sections, those of LegacyClients, an instance here             *)
(* because the clients share the state of ClientState.                     *)
(***************************************************************************)
EXTENDS NativeClient, LegacyState, SequenceTheorems, TLAPS

-----------------------------------------------------------------------------
(* The types.                                                              *)

LEMMA PlacesAreClosed ==
    /\ Fresh \in Places
    /\ \A p \in Places : After(p) \in Places
  BY FragmentsAssumption DEF Fresh, After, Places

LEMMA MessagesAreTyped ==
    /\ StopMessage \in Messages
    /\ \A s \in Sockets, p \in Places : Fragment(s, p) \in Messages /\ Fragment(s, p) # StopMessage
  <1>1. \A s \in Sockets : s # 0
    BY BoundsAssumption DEF Sockets
  <1> QED
    BY <1>1, PlacesAreClosed DEF StopMessage, Fragment, Messages

LEMMA EventsAreTyped ==
    /\ Lost \in Events /\ Stopped \in Events /\ Failed \in Events
    /\ \A s \in Sockets, n \in Nat : Packet(s, n) \in Packets
    /\ \A s \in Sockets : Connected(s) \in Events
    /\ Packets \subseteq Events
  BY DEF Events, Packets, Lost, Stopped, Failed, Packet, Connected, Event

\* What the fields of an event are, by its kind.
LEMMA EventFields ==
    ASSUME NEW e \in Events
    PROVE  /\ e.kind \in {"packet", "connected", "lost", "stopped", "failed"}
           /\ e.kind = "packet" => e \in Packets /\ e.session \in Sockets /\ e.number \in Nat
           /\ e.kind = "connected" => e.session \in Sockets
  BY DEF Events, Packets, Lost, Stopped, Failed, Event

LEMMA ShutsTyped ==
    ASSUME sock \in [Sockets -> {"none", "open", "shut", "reset"}],
           NEW s \in Sockets, NEW how \in {"shut", "reset"}, Shuts(s, how)
    PROVE  sock' \in [Sockets -> {"none", "open", "shut", "reset"}]
  BY DEF Shuts

LEMMA InitTypeOK == Init => TypeOK
  <1> SUFFICES ASSUME Init PROVE TypeOK
    OBVIOUS
  <1>1. 1 \in Sockets
    BY BoundsAssumption DEF Sockets
  <1>2. sock \in [Sockets -> {"none", "open", "shut", "reset"}]
    BY DEF Init
  <1>3. NetTypeOK
    <2>0. told \in BOOLEAN
      BY Zenon DEF Init
    <2>1. wire \in Seq(Messages) /\ sent \in Places
      BY PlacesAreClosed DEF Init
    <2>2. stream \in Sockets /\ watched \in Sockets /\ asm \in Places /\ hand \in Events
      BY <1>1, PlacesAreClosed, EventsAreTyped DEF Init
    <2>3. net = "check" /\ dialled = 0
      BY DEF Init
    <2> QED
      BY <1>2, <2>0, <2>1, <2>2, <2>3 DEF NetTypeOK
  <1>4. WindowTypeOK
    BY <1>1, CapacityAssumption DEF Init, WindowTypeOK
  <1> QED
    BY <1>3, <1>4 DEF TypeOK

\* The queue grows by the event in hand.
LEMMA QueueGrows ==
    ASSUME TypeOK, Queues
    PROVE  queue' \in Seq(Events) /\ Len(queue') = Len(queue) + 1
  BY DEF TypeOK, NetTypeOK, WindowTypeOK, Queues

\* The window takes the oldest event.
LEMMA QueueShrinks ==
    ASSUME TypeOK, NEW kind, Taking(kind)
    PROVE  /\ queue' \in Seq(Events)
           /\ Len(queue') = Len(queue) - 1 /\ Len(queue) >= 1 /\ Len(queue) \in Nat
           /\ Head(queue) \in Events /\ Head(queue) = queue[1]
           /\ \A i \in 1 .. Len(queue') : queue'[i] = queue[i + 1]
  BY DEF TypeOK, WindowTypeOK, Taking

LEMMA NextTypeOK == TypeOK /\ [Next]_vars => TypeOK'
  <1> SUFFICES ASSUME TypeOK, [Next]_vars PROVE TypeOK'
    OBVIOUS
  <1> USE PlacesAreClosed, MessagesAreTyped, EventsAreTyped DEF TypeOK
  <1> USE DEF hostVars, netVars, playerVars
  <1>1. CASE HostSends
    <2>1. Live \in Sockets
      BY <1>1 DEF HostSends, Streaming, Live, NetTypeOK
    <2>2. Fragment(Live, sent) \in Messages /\ After(sent) \in Places
      BY <2>1 DEF NetTypeOK
    <2>3. NetTypeOK'
      BY <1>1, <2>2 DEF HostSends, NetTypeOK
    <2>4. WindowTypeOK'
      BY <1>1 DEF HostSends, WindowTypeOK
    <2> QED
      BY <2>3, <2>4
  <1>2. CASE HostStops
    <2>1. NetTypeOK'
      BY <1>2 DEF HostStops, NetTypeOK
    <2>2. WindowTypeOK'
      BY <1>2 DEF HostStops, WindowTypeOK
    <2> QED
      BY <2>1, <2>2
  <1>3. ASSUME NEW s \in Sockets, LinkFails(s)
        PROVE  TypeOK'
    <2>1. NetTypeOK'
      BY <1>3, ShutsTyped DEF LinkFails, NetTypeOK
    <2>2. WindowTypeOK'
      BY <1>3 DEF LinkFails, WindowTypeOK
    <2> QED
      BY <2>1, <2>2
  <1>4. CASE ReadsFragment
    <2>1. wire' \in Seq(Messages)
      BY <1>4 DEF ReadsFragment, NetTypeOK
    <2>2. Packet(stream, asm.number) \in Events
      BY DEF NetTypeOK, Places
    <2>3. NetTypeOK'
      BY <1>4, <2>1, <2>2 DEF ReadsFragment, EndsForGood, Pushes, NetTypeOK
    <2>4. WindowTypeOK'
      BY <1>4 DEF ReadsFragment, WindowTypeOK
    <2> QED
      BY <2>3, <2>4
  <1>5. CASE ReadsStop
    <2>1. wire' \in Seq(Messages)
      BY <1>5 DEF ReadsStop, NetTypeOK
    <2>2. NetTypeOK'
      BY <1>5, <2>1 DEF ReadsStop, EndsForGood, Pushes, NetTypeOK
    <2>3. WindowTypeOK'
      BY <1>5 DEF ReadsStop, WindowTypeOK
    <2> QED
      BY <2>2, <2>3
  <1>6. CASE ReadFails
    <2>1. NetTypeOK'
      BY <1>6, ShutsTyped DEF ReadFails, LosesStream, Pushes, NetTypeOK
    <2>2. WindowTypeOK'
      BY <1>6 DEF ReadFails, WindowTypeOK
    <2> QED
      BY <2>1, <2>2
  <1>7. CASE Queues
    <2>1. hand.kind \in {"packet", "connected", "lost", "stopped", "failed"}
      BY EventFields DEF NetTypeOK
    <2>2. NetTypeOK'
      BY <1>7, <2>1 DEF Queues, NetTypeOK
    <2>3. Len(queue') <= CAPACITY
      BY <1>7, QueueGrows, CapacityAssumption DEF Queues, WindowTypeOK
    <2>4. WindowTypeOK'
      BY <1>7, <2>3, QueueGrows DEF Queues, WindowTypeOK
    <2> QED
      BY <2>2, <2>4
  <1>8. CASE QueueTimesOut \/ FindsQueueDropped
    <2>1. hand.kind \in {"packet", "connected", "lost", "stopped", "failed"}
      BY EventFields DEF NetTypeOK
    <2>2. NetTypeOK'
      BY <1>8, <2>1, ShutsTyped
      DEF QueueTimesOut, FindsQueueDropped, GivesUp, LosesStream, Pushes, NetTypeOK
    <2>3. WindowTypeOK'
      BY <1>8 DEF QueueTimesOut, FindsQueueDropped, WindowTypeOK
    <2> QED
      BY <2>2, <2>3
  <1>9. CASE ReturnsStopping \/ GoesOnReading \/ WaitCancelled \/ WaitEnds \/ DialFails
             \/ ShakeAgrees \/ ShakeRefused \/ ShakeFails \/ Adopts
    <2>1. NetTypeOK'
      BY <1>9 DEF ReturnsStopping, GoesOnReading, WaitCancelled, WaitEnds, DialFails,
         ShakeAgrees, ShakeRefused, ShakeFails, Adopts, Pushes, NetTypeOK
    <2>2. WindowTypeOK'
      BY <1>9 DEF ReturnsStopping, GoesOnReading, WaitCancelled, WaitEnds, DialFails,
         ShakeAgrees, ShakeRefused, ShakeFails, Adopts, WindowTypeOK
    <2> QED
      BY <2>1, <2>2
  <1>10. ASSUME NEW s \in Sockets, Attaches(s)
         PROVE  TypeOK'
    <2>1. sock' \in [Sockets -> {"none", "open", "shut", "reset"}]
      BY <1>10 DEF Attaches, NetTypeOK
    <2>2. told' \in BOOLEAN
      BY <1>10, Zenon DEF Attaches, NetTypeOK
    <2>3. /\ (wire' = wire \/ wire' = <<>>) /\ (sent' = sent \/ sent' = Fresh)
          /\ UNCHANGED <<stream, asm, hand>> /\ (watched' = watched \/ watched' = s)
      BY <1>10, Zenon DEF Attaches, NetTypeOK
    <2>4. wire' \in Seq(Messages)
      <3>1. <<>> \in Seq(Messages)
        OBVIOUS
      <3> QED
        BY <2>3, <3>1, Zenon DEF NetTypeOK
    <2>5. /\ sent' \in Places /\ stream' \in Sockets /\ watched' \in Sockets /\ asm' \in Places
          /\ hand' \in Events
      BY <2>3 DEF NetTypeOK
    <2>6. /\ dialled' \in Sockets \cup {0} /\ net' \in {"shake", "wait"}
          /\ dialled' # 0 <=> net' = "shake"
      <3>1. s # 0
        BY BoundsAssumption DEF Sockets
      <3> QED
        BY <1>10, <3>1 DEF Attaches, NetTypeOK
    <2>7. NetTypeOK'
      BY <2>1, <2>2, <2>4, <2>5, <2>6 DEF NetTypeOK
    <2>8. WindowTypeOK'
      BY <1>10 DEF Attaches, WindowTypeOK
    <2> QED
      BY <2>7, <2>8

  <1>11. CASE SkipsPacket
    BY <1>11, QueueShrinks, CapacityAssumption DEF SkipsPacket, Taking, NetTypeOK, WindowTypeOK
  <1>12. CASE Decodes
    <2>1. Taking("packet") /\ Head(queue) \in Packets
      BY <1>12, QueueShrinks, EventFields DEF Decodes, Taking
    <2>2. fed' \in Seq(Packets)
      BY <1>12, <2>1 DEF Decodes, WindowTypeOK
    <2>3. session' \in Sockets
      BY <1>12, <2>1, EventFields DEF Decodes, Packets
    <2>4. NetTypeOK'
      BY <1>12 DEF Decodes, NetTypeOK
    <2>5. WindowTypeOK'
      BY <1>12, <2>1, <2>2, <2>3, QueueShrinks, CapacityAssumption DEF Decodes, Taking, WindowTypeOK
    <2> QED
      BY <2>4, <2>5
  <1>13. CASE Expires \/ DecodeFails
    <2>1. Taking("packet") /\ Recovers(Head(queue).session)
          /\ UNCHANGED <<hostVars, netVars, watched, main, receiving>>
      BY <1>13 DEF Expires, DecodeFails
    <2>2. Head(queue).session \in Sockets
      BY <2>1, QueueShrinks, EventFields DEF Taking
    <2>3. NetTypeOK'
      BY <2>1, <2>2, ShutsTyped DEF Recovers, NetTypeOK
    <2>4. WindowTypeOK'
      BY <2>1, <2>2, QueueShrinks, CapacityAssumption DEF Recovers, Taking, WindowTypeOK
    <2> QED
      BY <2>3, <2>4
  <1>14. CASE TakesConnected
    <2>1. Taking("connected") /\ Head(queue).session \in Sockets
      BY <1>14, QueueShrinks, EventFields DEF TakesConnected, Taking
    <2> QED
      BY <1>14, <2>1, QueueShrinks, CapacityAssumption DEF TakesConnected, Taking, NetTypeOK, WindowTypeOK
  <1>15. CASE TakesLost
    BY <1>15, QueueShrinks, CapacityAssumption DEF TakesLost, Taking, NetTypeOK, WindowTypeOK
  <1>16. CASE TakesEnd
    <2>1. PICK kind \in {"stopped", "failed"} : Taking(kind)
      BY <1>16 DEF TakesEnd
    <2> QED
      BY <1>16, <2>1, QueueShrinks, CapacityAssumption DEF TakesEnd, NetTypeOK, WindowTypeOK
  <1>17. CASE FindsDisconnected \/ Closes \/ RaisesStopping \/ Joins
    BY <1>17 DEF FindsDisconnected, Closes, RaisesStopping, Joins, NetTypeOK, WindowTypeOK
  <1>18. CASE ShutsWatched
    <2>1. NetTypeOK'
      BY <1>18, ShutsTyped DEF ShutsWatched, NetTypeOK
    <2>2. WindowTypeOK'
      BY <1>18 DEF ShutsWatched, WindowTypeOK
    <2> QED
      BY <2>1, <2>2
  <1>19. CASE DropsQueue
    BY <1>19, CapacityAssumption DEF DropsQueue, NetTypeOK, WindowTypeOK
  <1>20. CASE UNCHANGED vars
    BY <1>20 DEF vars, NetTypeOK, WindowTypeOK
  <1> QED
    BY <1>1, <1>2, <1>3, <1>4, <1>5, <1>6, <1>7, <1>8, <1>9, <1>10, <1>11, <1>12, <1>13,
       <1>14, <1>15, <1>16, <1>17, <1>18, <1>19, <1>20
    DEF Next, World, ReceiverStep, HostAnswers, WindowStep, Mishap

\* Every variable of the two threads keeps its type, and the queue its bound.
THEOREM TypeCorrect == Spec => []TypeOK
  BY InitTypeOK, NextTypeOK, PTL DEF Spec

-----------------------------------------------------------------------------
(* The invariants.                                                         *)

\* An event that is a unit of session s is the n-th of it.
Fits(e, s, n) == e.kind = "packet" /\ e.session = s => e.number = n

\* A unit comes behind the one before it, or behind its connection.
Follows(a, e) ==
    e.kind = "packet" =>
        /\ a.kind \in {"packet", "connected"}
        /\ a.session = e.session
        /\ e.number = IF a.kind = "packet" THEN a.number + 1 ELSE 0

\* The event that the receiver has in hand or is making out of what it reads.
Coming ==
    IF net = "push" THEN hand
    ELSE IF net \in {"check", "read"} THEN Packet(stream, asm.number) ELSE Lost

\* The units of the queue, and the one that comes, continue what the decoder
\* got, as long as there is a window to decode them.
QueueInv ==
    main = "run" =>
        /\ \A i \in 1 .. Len(queue) : i > 1 => Follows(queue[i - 1], queue[i])
        /\ queue # <<>> => Fits(queue[1], session, Len(fed))
        /\ queue # <<>> => Follows(queue[Len(queue)], Coming)
        /\ queue = <<>> => Fits(Coming, session, Len(fed))

\* What the receiver will read next is behind the event in hand.
HandInv ==
    /\ net = "push" /\ hand.kind = "packet" =>
           hand.session = stream /\ asm.number = hand.number + 1
    /\ net = "push" /\ hand.kind = "connected" =>
           hand.session = stream /\ asm = Fresh

\* No session is decoded and given up.
DiscardInv == session # 0 => discarded # session

FedInv == \A i \in 1 .. Len(fed) : fed[i] = Packet(session, i - 1)

\* The messages of w are those of session s from place p on; Stop is the last
\* of them and does not cut a unit.
PlaceAt(w, p, i) == IF i = 1 THEN p ELSE After(w[i - 1].place)
InOrder(w, s, p) ==
    \A i \in 1 .. Len(w) :
        \/ w[i] = Fragment(s, PlaceAt(w, p, i))
        \/ w[i] = StopMessage /\ PlaceAt(w, p, i).index = 0 /\ i = Len(w)

\* The session on the newest socket, and the place the receiver is at in it.
NewSession == IF net \in {"shake", "adopt"} THEN dialled ELSE stream
NewPlace == IF net \in {"shake", "adopt"} THEN Fresh ELSE asm

\* The receiver has not given this session up.
Flowing ==
    \/ net \in {"check", "read", "shake", "adopt"}
    \/ net = "push" /\ hand.kind \in {"packet", "connected"}

WireInv ==
    Flowing =>
        /\ InOrder(wire, NewSession, NewPlace)
        /\ ~told => /\ \A i \in 1 .. Len(wire) : wire[i] # StopMessage
                    /\ sent = PlaceAt(wire, NewPlace, Len(wire) + 1)

DecodingInv == QueueInv /\ HandInv /\ DiscardInv /\ FedInv

-----------------------------------------------------------------------------
(* What the decoder gets.                                                  *)

LEMMA InitDecoding == Init => DecodingInv
  <1> SUFFICES ASSUME Init PROVE DecodingInv
    OBVIOUS
  <1>1. net = "check" /\ stream = 1 /\ asm = Fresh /\ session = 0
    BY DEF Init
  <1>2. queue = <<>> /\ fed = <<>>
    BY DEF Init
  <1>3. QueueInv
    BY <1>1, <1>2 DEF QueueInv, Coming, Fits, Packet, Event
  <1>4. FedInv
    BY <1>2 DEF FedInv
  <1> QED
    BY <1>1, <1>3, <1>4 DEF DecodingInv, HandInv, DiscardInv

\* The receiver goes on without queueing anything.
LEMMA ComingStays ==
    ASSUME QueueInv, UNCHANGED <<queue, session, fed>>,
           main' = "run" => main = "run",
           Coming' = Coming \/ Coming'.kind # "packet"
    PROVE  QueueInv'
  BY DEF QueueInv, Fits, Follows

\* The window takes an event and does with it what its successors expect.
LEMMA HeadTaken ==
    ASSUME TypeOK, QueueInv, NEW kind, Taking(kind), Coming' = Coming,
           \A e : Follows(Head(queue), e) => Fits(e, session', Len(fed'))
    PROVE  QueueInv'
  <1>1. main = "run" /\ queue' = Tail(queue) /\ queue # <<>>
    BY DEF Taking
  <1>2. /\ queue' \in Seq(Events)
        /\ Len(queue') = Len(queue) - 1 /\ Len(queue) >= 1 /\ Len(queue) \in Nat
        /\ Head(queue) = queue[1]
        /\ \A i \in 1 .. Len(queue') : queue'[i] = queue[i + 1]
    BY QueueShrinks
  <1>3. ASSUME NEW i \in 1 .. Len(queue'), i > 1
        PROVE  Follows(queue'[i - 1], queue'[i])
    <2>1. i + 1 \in 1 .. Len(queue) /\ i + 1 > 1 /\ (i + 1) - 1 = i /\ i - 1 \in 1 .. Len(queue')
      BY <1>2, <1>3
    <2>2. queue'[i] = queue[i + 1] /\ queue'[i - 1] = queue[i]
      BY <1>2, <1>3, <2>1
    <2> QED
      BY <1>1, <2>1, <2>2 DEF QueueInv
  <1>4. CASE queue' = <<>>
    <2>1. Len(queue) = 1
      BY <1>2, <1>4
    <2>2. Follows(Head(queue), Coming)
      BY <1>1, <1>2, <2>1 DEF QueueInv
    <2>3. Fits(Coming', session', Len(fed'))
      BY <2>2
    <2> QED
      BY <1>3, <1>4, <2>3 DEF QueueInv
  <1>5. CASE queue' # <<>>
    <2>1. Len(queue') >= 1 /\ Len(queue) >= 2
      BY <1>2, <1>5
    <2>2. queue'[1] = queue[2] /\ queue'[Len(queue')] = queue[Len(queue)]
      BY <1>2, <2>1
    <2>3. Follows(Head(queue), queue[2])
      <3>1. 2 \in 1 .. Len(queue) /\ 2 > 1 /\ 2 - 1 = 1
        BY <1>2, <2>1
      <3>2. Follows(queue[2 - 1], queue[2])
        BY <1>1, <3>1 DEF QueueInv
      <3> QED
        BY <1>2, <3>2
    <2>4. Fits(queue'[1], session', Len(fed'))
      BY <2>2, <2>3
    <2>5. Follows(queue'[Len(queue')], Coming')
      BY <1>1, <2>2 DEF QueueInv
    <2> QED
      BY <1>3, <1>5, <2>4, <2>5 DEF QueueInv
  <1> QED
    BY <1>4, <1>5

\* The receiver queues the event in hand.
LEMMA HandQueued ==
    ASSUME TypeOK, QueueInv, HandInv, Queues
    PROVE  QueueInv'
  <1>1. /\ net = "push" /\ queue' = Append(queue, hand)
        /\ UNCHANGED <<stream, asm, hand, main, session, fed>>
    BY DEF Queues, playerVars
  <1>2. Coming = hand
    BY <1>1 DEF Coming
  <1>3. Follows(hand, Coming')
    <2>1. hand.kind \in {"packet", "connected", "lost", "stopped", "failed"}
      BY EventFields DEF TypeOK, NetTypeOK
    <2>2. CASE hand.kind \in {"packet", "connected"}
      <3>1. net' = "check" /\ Coming' = Packet(stream, asm.number)
        BY <1>1, <2>2 DEF Queues, Coming
      <3> QED
        BY <1>1, <2>2, <3>1 DEF HandInv, Follows, Packet, Event, Fresh
    <2>3. CASE hand.kind \in {"lost", "stopped", "failed"}
      <3>1. Coming' = Lost
        BY <2>3 DEF Queues, Coming
      <3> QED
        BY <3>1 DEF Follows, Lost, Event
    <2> QED
      BY <2>1, <2>2, <2>3
  <1>4. queue \in Seq(Events) /\ hand \in Events /\ Len(queue) \in Nat
    BY DEF TypeOK, NetTypeOK, WindowTypeOK
  <1>5. /\ Len(queue') = Len(queue) + 1 /\ queue' # <<>> /\ queue'[Len(queue) + 1] = hand
        /\ \A i \in 1 .. Len(queue) : queue'[i] = queue[i]
    BY <1>1, <1>4
  <1>6. SUFFICES ASSUME main = "run" PROVE QueueInv'
    BY <1>1 DEF QueueInv
  <1>7. ASSUME NEW i \in 1 .. Len(queue'), i > 1
        PROVE  Follows(queue'[i - 1], queue'[i])
    <2>1. CASE i \in 1 .. Len(queue)
      <3>1. queue'[i] = queue[i] /\ queue'[i - 1] = queue[i - 1]
        BY <1>4, <1>5, <1>7, <2>1
      <3> QED
        BY <1>6, <1>7, <2>1, <3>1 DEF QueueInv
    <2>2. CASE i = Len(queue) + 1
      <3>1. queue'[i] = hand /\ queue'[i - 1] = queue[Len(queue)] /\ queue # <<>>
        BY <1>4, <1>5, <1>7, <2>2
      <3> QED
        BY <1>2, <1>6, <3>1 DEF QueueInv
    <2> QED
      BY <1>4, <1>5, <2>1, <2>2
  <1>8. Fits(queue'[1], session, Len(fed))
    <2>1. CASE queue = <<>>
      BY <1>2, <1>5, <1>6, <2>1 DEF QueueInv
    <2>2. CASE queue # <<>>
      <3>1. queue'[1] = queue[1]
        BY <1>4, <1>5, <2>2
      <3> QED
        BY <1>6, <2>2, <3>1 DEF QueueInv
    <2> QED
      BY <2>1, <2>2
  <1>9. Follows(queue'[Len(queue')], Coming')
    BY <1>3, <1>5
  <1> QED
    BY <1>1, <1>5, <1>7, <1>8, <1>9 DEF QueueInv

\* A step that leaves the receiver where it is, and what the decoder got.
LEMMA ReceiverRests ==
    ASSUME DecodingInv, UNCHANGED <<netVars, queue, session, fed, discarded>>,
           main' = "run" => main = "run"
    PROVE  DecodingInv'
  <1>1. Coming' = Coming
    BY DEF Coming, netVars
  <1>2. QueueInv'
    BY <1>1, ComingStays DEF DecodingInv
  <1>3. HandInv' /\ DiscardInv' /\ FedInv'
    BY DEF DecodingInv, HandInv, DiscardInv, FedInv, netVars
  <1> QED
    BY <1>2, <1>3 DEF DecodingInv

\* A step of the receiver that queues nothing.
LEMMA ReceiverMoves ==
    ASSUME DecodingInv, HandInv', UNCHANGED <<main, queue, session, fed, discarded>>,
           Coming' = Coming \/ Coming'.kind # "packet"
    PROVE  DecodingInv'
  <1>1. QueueInv'
    BY ComingStays DEF DecodingInv
  <1>2. DiscardInv' /\ FedInv'
    BY DEF DecodingInv, DiscardInv, FedInv
  <1> QED
    BY <1>1, <1>2 DEF DecodingInv

\* The window gives up what it was decoding, for whatever reason.
LEMMA WindowResets ==
    ASSUME TypeOK, DecodingInv, NEW kind, Taking(kind), UNCHANGED netVars,
           session' = 0, fed' = <<>>
    PROVE  DecodingInv'
  <1>1. Coming' = Coming
    BY DEF Coming, netVars
  <1>2. Head(queue) \in Events
    BY QueueShrinks
  <1>3. ASSUME NEW e, Follows(Head(queue), e)
        PROVE  Fits(e, session', Len(fed'))
    <2>1. e.kind = "packet" => e.session \in Sockets
      BY <1>2, <1>3, EventFields DEF Follows
    <2> QED
      BY <2>1, BoundsAssumption DEF Fits, Sockets
  <1>4. QueueInv'
    BY <1>1, <1>3, HeadTaken DEF DecodingInv
  <1>5. HandInv' /\ DiscardInv' /\ FedInv'
    BY DEF DecodingInv, HandInv, DiscardInv, FedInv, netVars
  <1> QED
    BY <1>4, <1>5 DEF DecodingInv

LEMMA NextDecoding == TypeOK /\ DecodingInv /\ [Next]_vars => DecodingInv'
  <1> SUFFICES ASSUME TypeOK, DecodingInv, [Next]_vars PROVE DecodingInv'
    OBVIOUS
  <1> USE DEF hostVars, playerVars
  <1>0. HandInv /\ hand.kind \in {"packet", "connected", "lost", "stopped", "failed"}
    BY EventFields DEF DecodingInv, TypeOK, NetTypeOK
  <1>1. CASE World
    <2>1. /\ UNCHANGED <<netVars, queue, session, fed, discarded>>
          /\ main' = "run" => main = "run"
      BY <1>1 DEF World, HostSends, HostStops, LinkFails, Closes
    <2> QED
      BY <2>1, ReceiverRests
  <1>2. CASE ReadsFragment
    <2>1. CASE Expected(Head(wire)) /\ asm.index + 1 < Fragments
      <3>1. net = "read" /\ net' = "check" /\ stream' = stream /\ asm' = After(asm)
        BY <1>2, <2>1, FragmentsAssumption DEF ReadsFragment, TypeOK, NetTypeOK, Places
      <3>2. asm'.number = asm.number
        BY <2>1, <3>1, FragmentsAssumption DEF After, TypeOK, NetTypeOK, Places
      <3>3. Coming' = Coming
        BY <3>1, <3>2 DEF Coming
      <3>4. HandInv'
        BY <3>1 DEF HandInv
      <3> QED
        BY <1>2, <3>3, <3>4, ReceiverMoves DEF ReadsFragment
    <2>2. CASE Expected(Head(wire)) /\ asm.index + 1 = Fragments
      <3>1. /\ net = "read" /\ net' = "push" /\ stream' = stream
            /\ asm' = After(asm) /\ hand' = Packet(stream, asm.number)
        BY <1>2, <2>2, FragmentsAssumption DEF ReadsFragment, Pushes, TypeOK, NetTypeOK, Places
      <3>2. asm'.number = asm.number + 1
        BY <2>2, <3>1 DEF After
      <3>3. Coming' = Coming
        BY <3>1 DEF Coming
      <3>4. HandInv'
        BY <3>1, <3>2 DEF HandInv, Packet, Event
      <3> QED
        BY <1>2, <3>3, <3>4, ReceiverMoves DEF ReadsFragment
    <2>3. CASE ~Expected(Head(wire))
      <3>1. net' = "done" \/ (net' = "push" /\ hand' = Failed)
        BY <1>2, <2>3 DEF ReadsFragment, EndsForGood, Pushes
      <3>2. Coming'.kind # "packet" /\ HandInv'
        BY <3>1 DEF Coming, HandInv, Lost, Failed, Event
      <3> QED
        BY <1>2, <3>2, ReceiverMoves DEF ReadsFragment
    <2> QED
      BY <1>2, <2>1, <2>2, <2>3 DEF ReadsFragment
  <1>3. CASE ReadsStop \/ ReadFails
    <2>1. net' = "done" \/ (net' = "push" /\ hand' \in {Failed, Stopped, Lost})
      BY <1>3 DEF ReadsStop, ReadFails, EndsForGood, LosesStream, Pushes
    <2>2. Coming'.kind # "packet" /\ HandInv'
      BY <2>1 DEF Coming, HandInv, Lost, Failed, Stopped, Event
    <2> QED
      BY <1>3, <2>2, ReceiverMoves DEF ReadsStop, ReadFails
  <1>4. CASE Queues
    <2>1. QueueInv'
      BY <1>4, HandQueued DEF DecodingInv
    <2>2. HandInv'
      BY <1>0, <1>4 DEF Queues, HandInv
    <2>3. DiscardInv' /\ FedInv'
      BY <1>4 DEF Queues, DecodingInv, DiscardInv, FedInv
    <2> QED
      BY <2>1, <2>2, <2>3 DEF DecodingInv
  <1>5. CASE QueueTimesOut \/ FindsQueueDropped
    <2>1. net' = "done" \/ (net' = "push" /\ hand' \in {Failed, Lost})
      BY <1>5 DEF QueueTimesOut, FindsQueueDropped, GivesUp, LosesStream, Pushes
    <2>2. Coming'.kind # "packet" /\ HandInv'
      BY <2>1 DEF Coming, HandInv, Lost, Failed, Event
    <2> QED
      BY <1>5, <2>2, ReceiverMoves DEF QueueTimesOut, FindsQueueDropped
  <1>6. CASE GoesOnReading
    <2>1. Coming' = Coming /\ HandInv'
      BY <1>6 DEF GoesOnReading, Coming, HandInv
    <2> QED
      BY <1>6, <2>1, ReceiverMoves DEF GoesOnReading
  <1>7. CASE ReturnsStopping \/ WaitCancelled \/ WaitEnds \/ DialFails \/ ShakeAgrees \/ ShakeFails
    <2>1. net' \in {"wait", "dial", "adopt", "done"}
      BY <1>7 DEF ReturnsStopping, WaitCancelled, WaitEnds, DialFails, ShakeAgrees, ShakeFails
    <2>2. Coming'.kind # "packet" /\ HandInv'
      BY <2>1 DEF Coming, HandInv, Lost, Event
    <2> QED
      BY <1>7, <2>2, ReceiverMoves
      DEF ReturnsStopping, WaitCancelled, WaitEnds, DialFails, ShakeAgrees, ShakeFails
  <1>8. CASE ShakeRefused \/ Adopts
    <2>1. \/ net' = "done"
          \/ net' = "push" /\ hand' = Failed
          \/ net' = "push" /\ hand' = Connected(dialled) /\ stream' = dialled /\ asm' = Fresh
      BY <1>8 DEF ShakeRefused, Adopts, Pushes
    <2>2. Coming'.kind # "packet" /\ HandInv'
      BY <2>1 DEF Coming, HandInv, Lost, Failed, Connected, Event
    <2> QED
      BY <1>8, <2>2, ReceiverMoves DEF ShakeRefused, Adopts
  <1>9. ASSUME NEW s \in Sockets, Attaches(s)
        PROVE  DecodingInv'
    <2>1. net' \in {"wait", "shake"} /\ UNCHANGED <<main, queue, session, fed, discarded>>
      BY <1>9, Zenon DEF Attaches
    <2>2. Coming'.kind # "packet" /\ HandInv'
      BY <2>1 DEF Coming, HandInv, Lost, Event
    <2> QED
      BY <2>1, <2>2, ReceiverMoves
  <1>10. CASE SkipsPacket
    <2>1. /\ Taking("packet") /\ UNCHANGED <<netVars, session, fed, discarded>>
          /\ Head(queue).session = discarded
             \/ (Head(queue).session # session /\ Head(queue).number # 0)
      BY <1>10 DEF SkipsPacket
    <2>2. Head(queue).kind = "packet" /\ Head(queue).session # 0
      BY <2>1, QueueShrinks, EventFields, BoundsAssumption DEF Taking, Sockets
    <2>3. Head(queue).session # session
      BY <2>1, <2>2 DEF DecodingInv, DiscardInv
    <2>4. \A e : Follows(Head(queue), e) => Fits(e, session', Len(fed'))
      BY <2>1, <2>3 DEF Follows, Fits
    <2>5. Coming' = Coming
      BY <2>1 DEF Coming, netVars
    <2>6. QueueInv'
      BY <2>1, <2>4, <2>5, HeadTaken DEF DecodingInv
    <2>7. HandInv' /\ DiscardInv' /\ FedInv'
      BY <2>1 DEF DecodingInv, HandInv, DiscardInv, FedInv, netVars
    <2> QED
      BY <2>6, <2>7 DEF DecodingInv
  <1>11. CASE Decodes
    <2> DEFINE e == Head(queue)
               old == IF e.session = session THEN fed ELSE <<>>
    <2>1. /\ Taking("packet") /\ UNCHANGED <<netVars, discarded>>
          /\ e.session # discarded /\ session' = e.session /\ fed' = Append(old, e)
          /\ e.session = session \/ e.number = 0
      BY <1>11 DEF Decodes
    <2>2. /\ main = "run" /\ queue # <<>> /\ e = queue[1]
          /\ e \in Packets /\ e.session \in Sockets /\ e.number \in Nat
      BY <2>1, QueueShrinks, EventFields DEF Taking
    <2>3. e = Packet(e.session, e.number) /\ e.kind = "packet"
      BY <2>2 DEF Packets, Packet, Event
    <2>4. fed \in Seq(Packets)
      BY DEF TypeOK, WindowTypeOK
    <2>5. old \in Seq(Packets) /\ Len(old) = e.number
      <3>1. CASE e.session = session
        BY <2>2, <2>3, <2>4, <3>1 DEF DecodingInv, QueueInv, Fits
      <3>2. CASE e.session # session
        BY <2>1, <3>2
      <3> QED
        BY <3>1, <3>2
    <2>6. \A i \in 1 .. Len(old) : old[i] = Packet(e.session, i - 1)
      <3>1. CASE e.session = session
        BY <3>1 DEF DecodingInv, FedInv
      <3>2. CASE e.session # session
        BY <3>2
      <3> QED
        BY <3>1, <3>2
    <2> HIDE DEF old
    <2>7. /\ Len(fed') = e.number + 1 /\ fed'[e.number + 1] = e
          /\ \A i \in 1 .. e.number : fed'[i] = Packet(e.session, i - 1)
      BY <2>1, <2>2, <2>5, <2>6
    <2>8. FedInv'
      <3>1. ASSUME NEW i \in 1 .. e.number + 1
            PROVE  fed'[i] = Packet(e.session, i - 1)
        <4>1. CASE i \in 1 .. e.number
          BY <2>7, <4>1
        <4>2. CASE i = e.number + 1
          BY <2>2, <2>3, <2>7, <4>2
        <4> QED
          BY <2>2, <4>1, <4>2
      <3> QED
        BY <2>1, <2>7, <3>1 DEF FedInv
    <2>9. \A d : Follows(e, d) => Fits(d, session', Len(fed'))
      BY <2>3, <2>7 DEF Follows, Fits
    <2>10. Coming' = Coming
      BY <2>1 DEF Coming, netVars
    <2>11. QueueInv'
      BY <2>1, <2>9, <2>10, HeadTaken DEF DecodingInv
    <2>12. HandInv' /\ DiscardInv'
      BY <2>1 DEF DecodingInv, HandInv, DiscardInv, netVars
    <2> QED
      BY <2>8, <2>11, <2>12 DEF DecodingInv
  <1>12. CASE Expires \/ DecodeFails \/ TakesConnected \/ TakesLost
    <2>1. PICK kind \in {"packet", "connected", "lost"} : Taking(kind)
      BY <1>12 DEF Expires, DecodeFails, TakesConnected, TakesLost
    <2>2. UNCHANGED netVars /\ session' = 0 /\ fed' = <<>>
      BY <1>12 DEF Expires, DecodeFails, Recovers, TakesConnected, TakesLost
    <2> QED
      BY <2>1, <2>2, WindowResets
  <1>13. CASE TakesEnd \/ DropsQueue
    <2>1. main' # "run" /\ UNCHANGED <<netVars, session, fed, discarded>>
      BY <1>13 DEF TakesEnd, DropsQueue
    <2> QED
      BY <2>1 DEF DecodingInv, QueueInv, HandInv, DiscardInv, FedInv, netVars
  <1>14. CASE FindsDisconnected \/ RaisesStopping \/ ShutsWatched \/ Joins
    <2>1. /\ UNCHANGED <<netVars, queue, session, fed, discarded>>
          /\ main' = "run" => main = "run"
      BY <1>14 DEF FindsDisconnected, RaisesStopping, ShutsWatched, Joins
    <2> QED
      BY <2>1, ReceiverRests
  <1>15. CASE UNCHANGED vars
    <2>1. UNCHANGED <<netVars, queue, session, fed, discarded, main>>
      BY <1>15 DEF vars
    <2> QED
      BY <2>1, ReceiverRests
  <1> QED
    BY <1>1, <1>2, <1>3, <1>4, <1>5, <1>6, <1>7, <1>8, <1>9, <1>10, <1>11, <1>12, <1>13,
       <1>14, <1>15
    DEF Next, ReceiverStep, HostAnswers, WindowStep, Mishap

\* The decoder gets the units of one session from the first on without a gap,
\* for any capacity, whatever was late, refused, lost or of an older session.
THEOREM DecoderIsFedInOrder == Spec => []DecoderNeverGuesses
  <1>1. DecodingInv => DecoderNeverGuesses
    BY DEF DecodingInv, FedInv, DecoderNeverGuesses
  <1> QED
    BY <1>1, InitTypeOK, NextTypeOK, InitDecoding, NextDecoding, PTL DEF Spec

\* A session that is given up costs only its own connection.
THEOREM RecoveriesAreOwn == Spec => RecoveryIsOwn
  <1>1. TypeOK /\ [Next]_vars =>
            [\A s \in Sockets : sock[s] # "reset" /\ sock'[s] = "reset" => discarded' = s]_vars
    <2> SUFFICES ASSUME TypeOK, Next, NEW s \in Sockets, sock[s] # "reset", sock'[s] = "reset"
                 PROVE  discarded' = s
      OBVIOUS
    <2> USE DEF hostVars, netVars, playerVars
    <2>1. sock \in [Sockets -> {"none", "open", "shut", "reset"}]
      BY DEF TypeOK, NetTypeOK
    <2>2. CASE Expires \/ DecodeFails
      BY <2>1, <2>2 DEF Expires, DecodeFails, Recovers, Shuts
    <2>3. CASE World
      BY <2>1, <2>3 DEF World, HostSends, HostStops, LinkFails, Closes, Shuts
    <2>4. CASE ReceiverStep
      BY <2>1, <2>4 DEF ReceiverStep, ReturnsStopping, GoesOnReading, ReadsFragment, ReadsStop,
         ReadFails, Queues, FindsQueueDropped, WaitCancelled, WaitEnds, DialFails, ShakeFails,
         Adopts, GivesUp, LosesStream, Shuts
    <2>5. CASE HostAnswers
      BY <2>1, <2>5 DEF HostAnswers, Attaches, ShakeAgrees, ShakeRefused
    <2>6. CASE WindowStep \/ QueueTimesOut
      BY <2>1, <2>6 DEF WindowStep, SkipsPacket, Decodes, TakesConnected, TakesLost, TakesEnd,
         FindsDisconnected, RaisesStopping, ShutsWatched, DropsQueue, Joins, QueueTimesOut,
         GivesUp, LosesStream, Shuts
    <2> QED
      BY <2>2, <2>3, <2>4, <2>5, <2>6 DEF Next, Mishap
  <1> QED
    BY <1>1, InitTypeOK, NextTypeOK, PTL DEF Spec, RecoveryIsOwn

-----------------------------------------------------------------------------
(* What is on the wire.                                                    *)

\* One more fragment at the end.
LEMMA WireGrows ==
    ASSUME NEW w \in Seq(Messages), NEW s \in Sockets, NEW p \in Places, InOrder(w, s, p),
           \A i \in 1 .. Len(w) : w[i] # StopMessage,
           NEW q \in Places, q = PlaceAt(w, p, Len(w) + 1)
    PROVE  LET t == Append(w, Fragment(s, q))
           IN  /\ InOrder(t, s, p)
               /\ \A i \in 1 .. Len(t) : t[i] # StopMessage
               /\ After(q) = PlaceAt(t, p, Len(t) + 1)
  <1> DEFINE m == Fragment(s, q)
             t == Append(w, m)
  <1>1. Len(w) \in Nat /\ m \in Messages /\ m # StopMessage
    BY MessagesAreTyped
  <1>2. /\ Len(t) = Len(w) + 1 /\ t[Len(w) + 1] = m
        /\ \A i \in 1 .. Len(w) : t[i] = w[i]
    BY <1>1
  <1> HIDE DEF m, t
  <1>3. \A i \in 1 .. Len(w) + 1 : PlaceAt(t, p, i) = PlaceAt(w, p, i)
    BY <1>1, <1>2 DEF PlaceAt
  <1>4. ASSUME NEW i \in 1 .. Len(w) + 1
        PROVE  t[i] = Fragment(s, PlaceAt(t, p, i)) /\ t[i] # StopMessage
    <2>1. CASE i \in 1 .. Len(w)
      BY <1>2, <1>3, <2>1 DEF InOrder
    <2>2. CASE i = Len(w) + 1
      BY <1>1, <1>2, <1>3, <2>2 DEF m
    <2> QED
      BY <1>1, <2>1, <2>2
  <1>5. PlaceAt(t, p, Len(t) + 1) = After(q)
    <2>1. Len(t) + 1 # 1 /\ (Len(t) + 1) - 1 = Len(w) + 1
      BY <1>1, <1>2
    <2>2. t[Len(w) + 1].place = q
      BY <1>2 DEF m, Fragment
    <2> QED
      BY <2>1, <2>2 DEF PlaceAt
  <1> QED
    BY <1>2, <1>4, <1>5 DEF InOrder, t, m

\* Stop at the end, between two units.
LEMMA WireStops ==
    ASSUME NEW w \in Seq(Messages), NEW s \in Sockets, NEW p \in Places, InOrder(w, s, p),
           \A i \in 1 .. Len(w) : w[i] # StopMessage,
           PlaceAt(w, p, Len(w) + 1).index = 0
    PROVE  InOrder(Append(w, StopMessage), s, p)
  <1> DEFINE t == Append(w, StopMessage)
  <1>1. Len(w) \in Nat /\ StopMessage \in Messages
    BY MessagesAreTyped
  <1>2. /\ Len(t) = Len(w) + 1 /\ t[Len(w) + 1] = StopMessage
        /\ \A i \in 1 .. Len(w) : t[i] = w[i]
    BY <1>1
  <1> HIDE DEF t
  <1>3. \A i \in 1 .. Len(w) + 1 : PlaceAt(t, p, i) = PlaceAt(w, p, i)
    BY <1>1, <1>2 DEF PlaceAt
  <1>4. ASSUME NEW i \in 1 .. Len(w)
        PROVE  t[i] = Fragment(s, PlaceAt(t, p, i))
    BY <1>1, <1>2, <1>3 DEF InOrder
  <1>5. t[Len(t)] = StopMessage /\ PlaceAt(t, p, Len(t)).index = 0
    BY <1>1, <1>2, <1>3
  <1> QED
    BY <1>1, <1>2, <1>4, <1>5 DEF InOrder, t

\* The first message is read.
LEMMA WireShrinks ==
    ASSUME NEW w \in Seq(Messages), NEW s \in Sockets, NEW p \in Places, InOrder(w, s, p),
           w # <<>>, Head(w) # StopMessage
    PROVE  /\ Head(w) = Fragment(s, p)
           /\ InOrder(Tail(w), s, After(p))
           /\ PlaceAt(Tail(w), After(p), Len(Tail(w)) + 1) = PlaceAt(w, p, Len(w) + 1)
           /\ (\A i \in 1 .. Len(w) : w[i] # StopMessage) =>
                  \A i \in 1 .. Len(Tail(w)) : Tail(w)[i] # StopMessage
  <1> DEFINE t == Tail(w)
  <1>1. Len(w) \in Nat /\ Len(w) # 0 /\ Head(w) = w[1]
    OBVIOUS
  <1>2. Len(t) = Len(w) - 1 /\ \A i \in 1 .. Len(t) : t[i] = w[i + 1]
    OBVIOUS
  <1> HIDE DEF t
  <1>3. w[1] = Fragment(s, p)
    BY <1>1 DEF InOrder, PlaceAt
  <1>4. ASSUME NEW i \in 1 .. Len(t) + 1
        PROVE  PlaceAt(t, After(p), i) = PlaceAt(w, p, i + 1)
    <2>1. i + 1 # 1 /\ (i + 1) - 1 = i
      BY <1>1, <1>2
    <2>2. CASE i = 1
      BY <1>3, <2>1, <2>2 DEF PlaceAt, Fragment
    <2>3. CASE i # 1
      <3>1. t[i - 1] = w[i]
        BY <1>1, <1>2, <2>3
      <3> QED
        BY <2>1, <2>3, <3>1 DEF PlaceAt
    <2> QED
      BY <2>2, <2>3
  <1>5. ASSUME NEW i \in 1 .. Len(t)
        PROVE  \/ t[i] = Fragment(s, PlaceAt(t, After(p), i))
               \/ t[i] = StopMessage /\ PlaceAt(t, After(p), i).index = 0 /\ i = Len(t)
    <2>1. i + 1 \in 1 .. Len(w) /\ t[i] = w[i + 1] /\ (i + 1 = Len(w) => i = Len(t))
      BY <1>1, <1>2
    <2>2. PlaceAt(t, After(p), i) = PlaceAt(w, p, i + 1)
      BY <1>1, <1>2, <1>4
    <2> QED
      BY <2>1, <2>2 DEF InOrder
  <1>6. PlaceAt(t, After(p), Len(t) + 1) = PlaceAt(w, p, Len(w) + 1)
    <2>1. Len(t) + 1 \in 1 .. Len(t) + 1 /\ (Len(t) + 1) + 1 = Len(w) + 1
      BY <1>1, <1>2
    <2> QED
      BY <1>4, <2>1
  <1>7. \A i \in 1 .. Len(t) : i + 1 \in 1 .. Len(w)
    BY <1>1, <1>2
  <1> QED
    BY <1>1, <1>2, <1>3, <1>5, <1>6, <1>7 DEF InOrder, t

\* A step that touches neither the wire nor the receiver's place in it.
LEMMA WireRests ==
    ASSUME WireInv, UNCHANGED hostVars,
           Flowing' => Flowing /\ NewSession' = NewSession /\ NewPlace' = NewPlace
    PROVE  WireInv'
  BY DEF WireInv, hostVars

LEMMA InitWire == Init => WireInv
  <1> SUFFICES ASSUME Init PROVE WireInv
    OBVIOUS
  <1>1. wire = <<>> /\ sent = Fresh /\ NewPlace = Fresh
    BY DEF Init, NewPlace
  <1> QED
    BY <1>1 DEF WireInv, InOrder, PlaceAt

LEMMA NextWire == TypeOK /\ WireInv /\ [Next]_vars => WireInv'
  <1> SUFFICES ASSUME TypeOK, WireInv, [Next]_vars PROVE WireInv'
    OBVIOUS
  <1>0. /\ wire \in Seq(Messages) /\ sent \in Places /\ asm \in Places /\ Fresh \in Places
        /\ stream \in Sockets /\ (net \in {"shake", "adopt"} => dialled \in Sockets)
        /\ hand.kind \in {"packet", "connected", "lost", "stopped", "failed"}
    BY PlacesAreClosed, EventFields DEF TypeOK, NetTypeOK
  <1>1. CASE HostSends
    <2>1. /\ net \notin {"wait", "dial", "shake"} /\ ~told
          /\ wire' = Append(wire, Fragment(Live, sent)) /\ sent' = After(sent)
          /\ UNCHANGED <<told, netVars>>
      BY <1>1 DEF HostSends, Streaming
    <2>2. Live = NewSession
      BY <2>1 DEF Live, NewSession
    <2>3. Flowing' = Flowing /\ NewSession' = NewSession /\ NewPlace' = NewPlace
      BY <2>1 DEF Flowing, NewSession, NewPlace, netVars
    <2>4. SUFFICES ASSUME Flowing
                   PROVE  /\ InOrder(wire', NewSession, NewPlace)
                          /\ \A i \in 1 .. Len(wire') : wire'[i] # StopMessage
                          /\ sent' = PlaceAt(wire', NewPlace, Len(wire') + 1)
      BY <2>3 DEF WireInv
    <2>5. /\ InOrder(wire, NewSession, NewPlace)
          /\ \A i \in 1 .. Len(wire) : wire[i] # StopMessage
          /\ sent = PlaceAt(wire, NewPlace, Len(wire) + 1)
      BY <2>1, <2>4 DEF WireInv
    <2>6. NewSession \in Sockets /\ NewPlace \in Places
      BY <1>0 DEF NewSession, NewPlace
    <2> QED
      BY <1>0, <2>1, <2>2, <2>5, <2>6, WireGrows
  <1>2. CASE HostStops
    <2>1. /\ net \notin {"wait", "dial", "shake"} /\ ~told /\ told' /\ sent.index = 0
          /\ wire' = Append(wire, StopMessage) /\ UNCHANGED netVars
      BY <1>2 DEF HostStops, Streaming
    <2>2. Flowing' = Flowing /\ NewSession' = NewSession /\ NewPlace' = NewPlace
      BY <2>1 DEF Flowing, NewSession, NewPlace, netVars
    <2>3. SUFFICES ASSUME Flowing PROVE InOrder(wire', NewSession, NewPlace)
      BY <2>1, <2>2 DEF WireInv
    <2>4. /\ InOrder(wire, NewSession, NewPlace)
          /\ \A i \in 1 .. Len(wire) : wire[i] # StopMessage
          /\ PlaceAt(wire, NewPlace, Len(wire) + 1).index = 0
      BY <2>1, <2>3 DEF WireInv
    <2>5. NewSession \in Sockets /\ NewPlace \in Places
      BY <1>0 DEF NewSession, NewPlace
    <2> QED
      BY <1>0, <2>1, <2>4, <2>5, WireStops
  <1>3. CASE ReadsFragment
    <2>1. /\ net = "read" /\ wire # <<>> /\ Head(wire) # StopMessage
          /\ wire' = Tail(wire) /\ UNCHANGED <<sent, told, stream>>
      BY <1>3 DEF ReadsFragment
    <2>2. InOrder(wire, stream, asm)
      BY <2>1 DEF WireInv, Flowing, NewSession, NewPlace
    <2>3. Head(wire) = Fragment(stream, asm)
      BY <1>0, <2>1, <2>2, WireShrinks
    <2>4. asm' = After(asm) /\ net' \in {"check", "push"}
      BY <1>3, <2>3 DEF ReadsFragment, Expected, Pushes
    <2>5. NewSession' = stream /\ NewPlace' = After(asm)
      BY <2>1, <2>4 DEF NewSession, NewPlace
    <2>6. InOrder(wire', stream, After(asm))
      BY <1>0, <2>1, <2>2, WireShrinks
    <2>7. ~told => /\ \A i \in 1 .. Len(wire') : wire'[i] # StopMessage
                   /\ sent = PlaceAt(wire', After(asm), Len(wire') + 1)
      <3>1. ~told => /\ \A i \in 1 .. Len(wire) : wire[i] # StopMessage
                     /\ sent = PlaceAt(wire, asm, Len(wire) + 1)
        BY <2>1 DEF WireInv, Flowing, NewPlace
      <3> QED
        BY <1>0, <2>1, <2>2, <3>1, WireShrinks
    <2> QED
      BY <2>1, <2>5, <2>6, <2>7 DEF WireInv
  <1>4. CASE ReadsStop \/ ReadFails \/ QueueTimesOut \/ FindsQueueDropped \/ ShakeRefused
    <2>1. net' = "done" \/ (net' = "push" /\ hand' \in {Failed, Stopped, Lost})
      BY <1>4 DEF ReadsStop, ReadFails, QueueTimesOut, FindsQueueDropped, ShakeRefused,
         GivesUp, EndsForGood, LosesStream, Pushes
    <2>2. ~Flowing'
      BY <2>1 DEF Flowing, Failed, Stopped, Lost, Event
    <2> QED
      BY <2>2 DEF WireInv
  <1>5. CASE ReturnsStopping \/ WaitCancelled \/ WaitEnds \/ DialFails \/ ShakeFails
    <2>1. net' \in {"wait", "dial", "done"}
      BY <1>5 DEF ReturnsStopping, WaitCancelled, WaitEnds, DialFails, ShakeFails
    <2> QED
      BY <2>1 DEF WireInv, Flowing
  <1>6. CASE GoesOnReading \/ ShakeAgrees
    <2>1. UNCHANGED <<hostVars, stream, asm, dialled, hand>>
      BY <1>6 DEF GoesOnReading, ShakeAgrees
    <2>2. (net = "check" /\ net' = "read") \/ (net = "shake" /\ net' = "adopt")
      BY <1>6 DEF GoesOnReading, ShakeAgrees
    <2> QED
      BY <2>1, <2>2, WireRests DEF Flowing, NewSession, NewPlace
  <1>7. CASE Queues
    <2>1. UNCHANGED <<hostVars, stream, asm, dialled, hand>> /\ net = "push"
      BY <1>7 DEF Queues
    <2>2. \/ hand.kind \in {"packet", "connected"} /\ net' = "check"
          \/ net' \in {"wait", "done"}
      BY <1>7 DEF Queues
    <2> QED
      BY <2>1, <2>2, WireRests DEF Flowing, NewSession, NewPlace
  <1>8. CASE Adopts
    <2>1. UNCHANGED hostVars /\ net = "adopt"
      BY <1>8 DEF Adopts
    <2>2. net' = "done" \/ (net' = "push" /\ stream' = dialled /\ asm' = Fresh)
      BY <1>8 DEF Adopts, Pushes
    <2> QED
      BY <2>1, <2>2, WireRests DEF Flowing, NewSession, NewPlace
  <1>9. ASSUME NEW s \in Sockets, Attaches(s)
        PROVE  WireInv'
    <2>1. \/ net' = "wait"
          \/ net' = "shake" /\ wire' = <<>> /\ sent' = Fresh
      BY <1>9, Zenon DEF Attaches
    <2>2. CASE net' = "wait"
      BY <2>2 DEF WireInv, Flowing
    <2>3. CASE net' = "shake" /\ wire' = <<>> /\ sent' = Fresh
      <3>1. NewPlace' = Fresh
        BY <2>3 DEF NewPlace
      <3> QED
        BY <2>3, <3>1 DEF WireInv, InOrder, PlaceAt
    <2> QED
      BY <2>1, <2>2, <2>3
  <1>10. CASE WindowStep \/ Expires \/ DecodeFails \/ Closes \/ UNCHANGED vars
    <2>1. UNCHANGED <<hostVars, netVars>>
      BY <1>10 DEF WindowStep, SkipsPacket, Decodes, TakesConnected, TakesLost, TakesEnd,
         FindsDisconnected, RaisesStopping, ShutsWatched, DropsQueue, Joins, Expires,
         DecodeFails, Closes, vars
    <2> QED
      BY <2>1, WireRests DEF Flowing, NewSession, NewPlace, netVars
  <1>11. ASSUME NEW s \in Sockets, LinkFails(s)
         PROVE  WireInv'
    BY <1>11, WireRests DEF LinkFails, Flowing, NewSession, NewPlace, netVars
  <1> QED
    BY <1>1, <1>2, <1>3, <1>4, <1>5, <1>6, <1>7, <1>8, <1>9, <1>10, <1>11
    DEF Next, World, ReceiverStep, HostAnswers, Mishap

\* Whatever was cut and connected again, what an honest host wrote is what the
\* assembler expects, for any length of the units, the streams and the wire.
THEOREM HostIsUnderstood == Spec => []NothingUnexpected
  <1>1. TypeOK /\ WireInv => NothingUnexpected
    <2> SUFFICES ASSUME TypeOK, WireInv, net \in {"check", "read"}, wire # <<>>
                 PROVE  Expected(Head(wire)) \/ (Head(wire) = StopMessage /\ ~Partial)
      BY DEF NothingUnexpected
    <2>1. InOrder(wire, stream, asm)
      BY DEF WireInv, Flowing, NewSession, NewPlace
    <2>2. 1 \in 1 .. Len(wire) /\ Head(wire) = wire[1] /\ PlaceAt(wire, asm, 1) = asm
      BY DEF TypeOK, NetTypeOK, PlaceAt
    <2>3. Head(wire) = Fragment(stream, asm) \/ (Head(wire) = StopMessage /\ asm.index = 0)
      BY <2>1, <2>2 DEF InOrder
    <2> QED
      BY <2>3 DEF Expected, Partial
  <1> QED
    BY <1>1, InitTypeOK, NextTypeOK, InitWire, NextWire, PTL DEF Spec

-----------------------------------------------------------------------------
(* The two older clients, of LegacyClients, whose state is that of            *)
(* LegacyState; their flag is called `closing' here, where stopping is a      *)
(* state of the window.                                                       *)

CONSTANTS
    Routes, MaxFrames

VARIABLE
    closing

Legacy == INSTANCE LegacyClients WITH stopping <- closing

Frames == [session : Nat, number : Nat]
Tidings == [kind : {"frame", "failed", "stopped", "reconnected"}, session : Nat]

\* What the proofs need of the types.
LegacyTypes ==
    /\ wire \in Seq(Frames) /\ sent \in Nat /\ chunks \in Nat
    /\ stream \in Sockets /\ (net \in {"shake", "adopt"} => dialled \in Sockets)
    /\ events \in Seq(Tidings)

\* Where the worker has a session, or is about to have one; and the number of the
\* frame that it comes to next.
InSession == {"read", "write", "replace", "notify", "adopt"}
NextNumber == CASE net = "adopt" -> 0 [] net = "write" -> chunks + 1 [] OTHER -> chunks

\* Frames of session s, numbered from n on where the client counts them, or the
\* end of the session, which is an error only if the host said one.
ComesNext(m, s, n, kind, error) ==
    \/ m = Legacy!StopMessage
    \/ m = Legacy!ErrorMessage /\ error = TRUE
    \/ m.session = s /\ (kind = "ffplay" => m.number = n)
FollowOn(w, s, n, kind, error) ==
    \A i \in 1 .. Len(w) : ComesNext(w[i], s, n + i - 1, kind, error)

LegacyWire ==
    /\ net = "shake" => wire = <<>> /\ sent = 0 /\ told = FALSE
    /\ net \in InSession =>
          /\ FollowOn(wire, Legacy!Live, NextNumber, route, refused)
          /\ route = "ffplay" /\ ~told => sent = NextNumber + Len(wire)

LegacyInv == LegacyTypes /\ LegacyWire /\ FailuresAreReal

LEMMA FollowOnTail ==
    ASSUME NEW w \in Seq(Frames), NEW s \in Nat, NEW n \in Nat, NEW kind, NEW error,
           w # <<>>, FollowOn(w, s, n, kind, error)
    PROVE  /\ FollowOn(Tail(w), s, n + 1, kind, error)
           /\ ComesNext(Head(w), s, n, kind, error)
  <1>1. Len(w) \in Nat \ {0} /\ Head(w) = w[1] /\ Len(Tail(w)) = Len(w) - 1
    OBVIOUS
  <1>2. \A i \in 1 .. Len(w) - 1 : Tail(w)[i] = w[i + 1] /\ i + 1 \in 1 .. Len(w)
    BY <1>1
  <1>3. ComesNext(w[1], s, n, kind, error)
    <2>1. 1 \in 1 .. Len(w) /\ n + 1 - 1 = n
      BY <1>1
    <2> QED
      BY <2>1 DEF FollowOn
  <1>4. ASSUME NEW i \in 1 .. Len(w) - 1
        PROVE  ComesNext(Tail(w)[i], s, (n + 1) + i - 1, kind, error)
    <2>1. ComesNext(w[i + 1], s, n + (i + 1) - 1, kind, error)
      BY <1>2 DEF FollowOn
    <2>2. n + (i + 1) - 1 = (n + 1) + i - 1
      BY <1>1
    <2> QED
      BY <1>2, <2>1, <2>2
  <1> QED
    BY <1>1, <1>3, <1>4 DEF FollowOn

LEMMA FollowOnAppend ==
    ASSUME NEW w \in Seq(Frames), NEW s \in Nat, NEW n \in Nat, NEW kind, NEW error,
           FollowOn(w, s, n, kind, error), NEW m \in Frames,
           ComesNext(m, s, n + Len(w), kind, error)
    PROVE  FollowOn(Append(w, m), s, n, kind, error)
  <1>1. /\ Len(Append(w, m)) = Len(w) + 1 /\ Len(w) \in Nat
        /\ Append(w, m)[Len(w) + 1] = m
        /\ \A i \in 1 .. Len(w) : Append(w, m)[i] = w[i]
    OBVIOUS
  <1>2. n + (Len(w) + 1) - 1 = n + Len(w)
    BY <1>1
  <1>3. \A i \in 1 .. Len(w) + 1 : i \in 1 .. Len(w) \/ i = Len(w) + 1
    BY <1>1
  <1> QED
    BY <1>1, <1>2, <1>3 DEF FollowOn

\* Who does not count may start anywhere, and an error that was said stays said.
LEMMA FollowOnLoose ==
    ASSUME NEW w, NEW s, NEW n, NEW k, NEW kind, NEW error, NEW worse,
           FollowOn(w, s, n, kind, error), kind # "ffplay" \/ k = n, error = TRUE => worse = TRUE
    PROVE  FollowOn(w, s, k, kind, worse)
  BY DEF FollowOn, ComesNext

LEMMA MessagesAreFrames ==
    /\ Legacy!StopMessage \in Frames /\ Legacy!ErrorMessage \in Frames
    /\ Legacy!StopMessage # Legacy!ErrorMessage
    /\ Legacy!StopMessage.session = 0 /\ Legacy!ErrorMessage.session = 0
    /\ \A s \in Nat, n \in Nat : /\ Legacy!Frame(s, n) \in Frames
                                 /\ Legacy!Frame(s, n).session = s /\ Legacy!Frame(s, n).number = n
    /\ \A s \in Sockets : s \in Nat \ {0}
    /\ Sockets = Legacy!Sockets
  BY BoundsAssumption DEF Legacy!StopMessage, Legacy!ErrorMessage, Legacy!Frame, Frames, Sockets, Legacy!Sockets

LEMMA LegacyInit == Legacy!Init => LegacyInv /\ NoFrameIsForgotten
  <1> SUFFICES ASSUME Legacy!Init PROVE LegacyInv /\ NoFrameIsForgotten
    OBVIOUS
  <1>1. /\ wire = <<>> /\ sent = 0 /\ chunks = 0 /\ stream = 1 /\ net = "read" /\ events = <<>>
        /\ latest = 0 /\ result = "none" /\ outcome = "none"
    BY DEF Legacy!Init
  <1>2. 1 \in Sockets
    BY BoundsAssumption DEF Sockets
  <1>3. LegacyTypes
    BY <1>1, <1>2 DEF LegacyTypes
  <1>4. Len(wire) = 0 /\ NextNumber = 0
    BY <1>1 DEF NextNumber
  <1>5. LegacyWire
    BY <1>1, <1>4 DEF LegacyWire, FollowOn
  <1> QED
    BY <1>1, <1>3, <1>5 DEF LegacyInv, FailuresAreReal, NoFrameIsForgotten

\* The worker reads a frame of its session, the one that it expects, or the end.
LEMMA LegacyReads ==
    ASSUME LegacyInv, net = "read", wire # <<>>
    PROVE  /\ Head(wire) \in Frames /\ Tail(wire) \in Seq(Frames)
           /\ Head(wire).session # 0 => /\ Head(wire).session = stream
                                        /\ route = "ffplay" => Head(wire).number = chunks
           /\ Head(wire).session = 0 => \/ Head(wire) = Legacy!StopMessage
                                        \/ Head(wire) = Legacy!ErrorMessage /\ refused = TRUE
           /\ FollowOn(Tail(wire), stream, chunks + 1, route, refused)
           /\ route = "ffplay" /\ ~told => sent = (chunks + 1) + Len(Tail(wire))
  <1>1. /\ wire \in Seq(Frames) /\ chunks \in Nat /\ stream \in Sockets
        /\ FollowOn(wire, stream, chunks, route, refused)
        /\ route = "ffplay" /\ ~told => sent = chunks + Len(wire)
    BY DEF LegacyInv, LegacyTypes, LegacyWire, InSession, NextNumber, Legacy!Live
  <1>2. stream \in Nat /\ stream # 0
    BY <1>1, MessagesAreFrames
  <1>3. /\ FollowOn(Tail(wire), stream, chunks + 1, route, refused)
        /\ ComesNext(Head(wire), stream, chunks, route, refused)
    BY <1>1, <1>2, FollowOnTail
  <1>4. Head(wire) \in Frames /\ Tail(wire) \in Seq(Frames) /\ Len(Tail(wire)) = Len(wire) - 1
        /\ Len(wire) \in Nat
    BY <1>1
  <1>5. route = "ffplay" /\ ~told => sent = (chunks + 1) + Len(Tail(wire))
    BY <1>1, <1>4
  <1>6. Head(wire).session # 0 => Head(wire) # Legacy!StopMessage /\ Head(wire) # Legacy!ErrorMessage
    BY MessagesAreFrames
  <1>7. Head(wire).session = 0 => Head(wire).session # stream
    BY <1>2
  <1> QED
    BY <1>3, <1>4, <1>5, <1>6, <1>7 DEF ComesNext

\* What reading leaves, when the worker goes on with the session.
LEMMA LegacyReadOn ==
    ASSUME LegacyInv, net = "read", wire # <<>>, wire' = Tail(wire),
           UNCHANGED <<route, refused, sent, told, stream, dialled, chunks>>,
           \/ net' = "write"
           \/ net' = "replace" /\ route # "ffplay"
    PROVE  LegacyWire'
  <1>1. /\ FollowOn(Tail(wire), stream, chunks + 1, route, refused)
        /\ route = "ffplay" /\ ~told => sent = (chunks + 1) + Len(Tail(wire))
    BY LegacyReads
  <1>2. Legacy!Live' = stream
    BY DEF Legacy!Live
  <1>3. CASE net' = "write"
    <2>1. NextNumber' = chunks + 1
      BY <1>3 DEF NextNumber
    <2>2. FollowOn(wire', stream, chunks + 1, route', refused')
      BY <1>1
    <2>3. FollowOn(wire, Legacy!Live, NextNumber, route, refused)'
      BY <1>2, <2>1, <2>2
    <2> QED
      BY <1>1, <1>3, <2>1, <2>3 DEF LegacyWire
  <1>4. CASE net' = "replace" /\ route # "ffplay"
    <2>1. NextNumber' = chunks
      BY <1>4 DEF NextNumber
    <2>2. FollowOn(Tail(wire), stream, chunks, route, refused)
      BY <1>1, <1>4, FollowOnLoose
    <2>3. FollowOn(wire, Legacy!Live, NextNumber, route, refused)'
      BY <1>2, <2>1, <2>2
    <2> QED
      BY <1>4, <2>3 DEF LegacyWire
  <1> QED
    BY <1>3, <1>4

\* Steps after which there is no session.
LEMMA LegacyNoSession ==
    ASSUME net' \in {"wait", "dial", "done"}
    PROVE  LegacyWire'
  BY DEF LegacyWire, InSession

\* Steps within a session that touch nothing of the stream.
LEMMA LegacySameStream ==
    ASSUME LegacyInv, UNCHANGED <<wire, sent, told, route>>, net \in InSession,
           net' \in InSession \/ net' = "done",
           net' \in InSession => Legacy!Live' = Legacy!Live,
           net' \in InSession /\ route = "ffplay" => NextNumber' = NextNumber,
           refused = TRUE => refused' = TRUE
    PROVE  LegacyWire'
  <1>1. CASE net' = "done"
    BY <1>1, LegacyNoSession
  <1>2. CASE net' \in InSession
    <2>1. /\ FollowOn(wire, Legacy!Live, NextNumber, route, refused)
          /\ route = "ffplay" /\ ~told => sent = NextNumber + Len(wire)
      BY DEF LegacyInv, LegacyWire
    <2>2. FollowOn(wire, Legacy!Live, NextNumber', route, refused')
      BY <1>2, <2>1, FollowOnLoose
    <2>3. FollowOn(wire, Legacy!Live, NextNumber, route, refused)'
      BY <1>2, <2>2
    <2>4. net' # "shake"
      BY <1>2 DEF InSession
    <2> QED
      BY <1>2, <2>1, <2>3, <2>4 DEF LegacyWire
  <1> QED
    BY <1>1, <1>2

\* What the thread of the window does.
LEMMA LegacyElsewhere ==
    ASSUME LegacyInv, UNCHANGED <<wire, sent, told, route, refused, net, stream, dialled, chunks>>
    PROVE  LegacyWire'
  <1>1. Legacy!Live' = Legacy!Live /\ NextNumber' = NextNumber
    BY DEF Legacy!Live, NextNumber
  <1> QED
    BY <1>1 DEF LegacyInv, LegacyWire, FollowOn

LEMMA LegacyWorkerWire ==
    ASSUME LegacyInv, Legacy!WorkerStep \/ Legacy!WritesChunk
    PROVE  LegacyWire'
  <1>1. CASE Legacy!ReadsChunk
    <2>1. /\ net = "read" /\ wire # <<>> /\ wire' = Tail(wire)
          /\ net' \in {"write", "done"}
          /\ UNCHANGED <<route, refused, sent, told, stream, dialled, chunks>>
      BY <1>1 DEF Legacy!ReadsChunk, Legacy!Returns
    <2> QED
      BY <2>1, LegacyReadOn, LegacyNoSession
  <1>2. CASE Legacy!ReadsFrame
    <2>1. /\ net = "read" /\ wire # <<>> /\ wire' = Tail(wire) /\ route # "ffplay"
          /\ net' \in {"replace", "done"}
          /\ UNCHANGED <<route, refused, sent, told, stream, dialled, chunks>>
      BY <1>2 DEF Legacy!ReadsFrame, Legacy!Returns
    <2> QED
      BY <2>1, LegacyReadOn, LegacyNoSession
  <1>3. CASE Legacy!FindsPipeClosed \/ Legacy!ReadsEnd \/ Legacy!PassesEnd \/ Legacy!ReadFails
               \/ Legacy!Disconnects \/ Legacy!WaitEnds \/ Legacy!DialFails \/ Legacy!ShakeFails
    <2>1. net' \in {"wait", "dial", "done"}
      BY <1>3 DEF Legacy!FindsPipeClosed, Legacy!ReadsEnd, Legacy!PassesEnd, Legacy!ReadFails,
           Legacy!Disconnects, Legacy!WaitEnds, Legacy!DialFails, Legacy!ShakeFails, Legacy!Returns
    <2> QED
      BY <2>1, LegacyNoSession
  <1>4. CASE Legacy!Replaces \/ Legacy!Notifies
    <2>1. /\ net \in {"replace", "notify"} /\ net' \in {"notify", "read"}
          /\ UNCHANGED <<wire, sent, told, route, refused, stream, dialled, chunks>>
      BY <1>4 DEF Legacy!Replaces, Legacy!Notifies, Legacy!hostVars
    <2>2. Legacy!Live' = Legacy!Live /\ NextNumber' = NextNumber
      BY <2>1 DEF Legacy!Live, NextNumber
    <2>3. net \in InSession /\ net' \in InSession
      BY <2>1 DEF InSession
    <2> QED
      BY <2>1, <2>2, <2>3, LegacySameStream
  <1>5. CASE Legacy!WritesChunk
    <2>1. /\ net = "write" /\ net' = "read" /\ chunks' = chunks + 1
          /\ UNCHANGED <<wire, sent, told, route, refused, stream, dialled>>
      BY <1>5 DEF Legacy!WritesChunk, Legacy!hostVars
    <2>2. Legacy!Live' = Legacy!Live /\ NextNumber' = NextNumber
      BY <2>1 DEF Legacy!Live, NextNumber
    <2>3. net \in InSession /\ net' \in InSession
      BY <2>1 DEF InSession
    <2> QED
      BY <2>1, <2>2, <2>3, LegacySameStream
  <1>6. CASE Legacy!Adopts
    <2>1. /\ net = "adopt" /\ UNCHANGED <<wire, sent, told, route, refused>>
          /\ \/ net' = "done"
             \/ net' = "read" /\ stream' = dialled /\ chunks' = 0
      BY <1>6 DEF Legacy!Adopts, Legacy!Returns, Legacy!hostVars
    <2>2. CASE net' = "done"
      BY <2>2, LegacyNoSession
    <2>3. CASE net' = "read" /\ stream' = dialled /\ chunks' = 0
      <3>1. Legacy!Live' = Legacy!Live /\ NextNumber' = NextNumber
        BY <2>1, <2>3 DEF Legacy!Live, NextNumber
      <3>2. net \in InSession /\ net' \in InSession
        BY <2>1, <2>3 DEF InSession
      <3> QED
        BY <2>1, <3>1, <3>2, LegacySameStream
    <2> QED
      BY <2>1, <2>2, <2>3
  <1>7. CASE Legacy!Announces
    <2>1. /\ net = "adopt" /\ route # "ffplay" /\ net' = "read" /\ stream' = dialled
          /\ UNCHANGED <<wire, sent, told, route, refused>>
      BY <1>7 DEF Legacy!Announces, Legacy!hostVars
    <2>2. Legacy!Live' = Legacy!Live
      BY <2>1 DEF Legacy!Live
    <2>3. net \in InSession /\ net' \in InSession
      BY <2>1 DEF InSession
    <2> QED
      BY <2>1, <2>2, <2>3, LegacySameStream
  <1> QED
    BY <1>1, <1>2, <1>3, <1>4, <1>5, <1>6, <1>7 DEF Legacy!WorkerStep

LEMMA LegacyHostWire ==
    ASSUME LegacyInv, Legacy!HostStep
    PROVE  LegacyWire'
  <1>1. ASSUME NEW m \in Frames, Legacy!Streaming, wire' = Append(wire, m),
               UNCHANGED <<route, net, stream, dialled, chunks>>,
               refused = TRUE => refused' = TRUE,
               \/ /\ m = Legacy!Frame(Legacy!Live, sent) /\ sent' = sent + 1
                  /\ UNCHANGED told
               \/ /\ m = Legacy!StopMessage \/ (m = Legacy!ErrorMessage /\ refused' = TRUE)
                  /\ told' = TRUE
        PROVE  LegacyWire'
    <2>1. net # "shake" /\ Legacy!Live' = Legacy!Live /\ NextNumber' = NextNumber
      BY <1>1 DEF Legacy!Streaming, Legacy!Live, NextNumber
    <2>2. CASE net \in InSession
      <3>1. /\ FollowOn(wire, Legacy!Live, NextNumber, route, refused)
            /\ route = "ffplay" => sent = NextNumber + Len(wire)
            /\ wire \in Seq(Frames) /\ Legacy!Live \in Sockets /\ NextNumber \in Nat /\ sent \in Nat
        BY <1>1, <2>2
        DEF LegacyInv, LegacyWire, LegacyTypes, Legacy!Live, NextNumber, Legacy!Streaming
      <3>2. FollowOn(wire, Legacy!Live, NextNumber, route, refused')
        BY <1>1, <3>1, FollowOnLoose
      <3>3. Legacy!Live \in Nat
        BY <3>1, MessagesAreFrames
      <3>4. m = Legacy!Frame(Legacy!Live, sent) =>
               m.session = Legacy!Live /\ (route = "ffplay" => m.number = NextNumber + Len(wire))
        BY <3>1, <3>3, MessagesAreFrames
      <3>5. ComesNext(m, Legacy!Live, NextNumber + Len(wire), route, refused')
        BY <1>1, <3>4 DEF ComesNext
      <3>6. FollowOn(Append(wire, m), Legacy!Live, NextNumber, route, refused')
        BY <1>1, <3>1, <3>2, <3>3, <3>5, FollowOnAppend
      <3>7. FollowOn(wire, Legacy!Live, NextNumber, route, refused)'
        BY <1>1, <2>1, <3>6
      <3>8. Len(wire') = Len(wire) + 1 /\ Len(wire) \in Nat
        BY <1>1, <3>1
      <3>9. route' = "ffplay" /\ ~told' => sent' = NextNumber' + Len(wire')
        BY <1>1, <2>1, <3>1, <3>8
      <3> QED
        BY <1>1, <2>1, <3>7, <3>9 DEF LegacyWire
    <2>3. CASE net \notin InSession
      BY <1>1, <2>1, <2>3 DEF LegacyWire
    <2> QED
      BY <2>2, <2>3
  <1>2. CASE Legacy!HostSends
    <2>1. /\ Legacy!Streaming /\ wire' = Append(wire, Legacy!Frame(Legacy!Live, sent))
          /\ sent' = sent + 1 /\ UNCHANGED <<route, told, refused, net, stream, dialled, chunks>>
      BY <1>2 DEF Legacy!HostSends, Legacy!netVars
    <2>2. CASE net \in InSession
      <3>1. Legacy!Live \in Nat /\ sent \in Nat
        BY <2>2, MessagesAreFrames DEF LegacyInv, LegacyTypes, Legacy!Live
      <3>2. Legacy!Frame(Legacy!Live, sent) \in Frames
        BY <3>1, MessagesAreFrames
      <3> QED
        BY <1>1, <2>1, <3>2
    <2>3. CASE net \notin InSession
      BY <2>1, <2>3 DEF LegacyWire, Legacy!Streaming
    <2> QED
      BY <2>2, <2>3
  <1>3. ASSUME NEW m \in {Legacy!StopMessage, Legacy!ErrorMessage}, Legacy!HostEnds(m)
        PROVE  LegacyWire'
    <2>1. /\ Legacy!Streaming /\ wire' = Append(wire, m) /\ told' = TRUE
          /\ refused' = (refused \/ m = Legacy!ErrorMessage)
          /\ UNCHANGED <<route, net, stream, dialled, chunks>>
      BY <1>3 DEF Legacy!HostEnds, Legacy!netVars
    <2>2. m \in Frames
      BY MessagesAreFrames
    <2>3. refused = TRUE => refused' = TRUE
      BY <2>1
    <2>4. m = Legacy!StopMessage \/ (m = Legacy!ErrorMessage /\ refused' = TRUE)
      BY <2>1
    <2> QED
      BY <1>1, <2>1, <2>2, <2>3, <2>4
  <1>4. ASSUME NEW s \in Legacy!Sockets, Legacy!LinkFails(s)
        PROVE  LegacyWire'
    <2>1. UNCHANGED <<wire, sent, told, route, refused, net, stream, dialled, chunks>>
      BY <1>4 DEF Legacy!LinkFails, Legacy!hostVars, Legacy!netVars
    <2> QED
      BY <2>1, LegacyElsewhere
  <1>5. ASSUME NEW s \in Legacy!Sockets, Legacy!Attaches(s)
        PROVE  LegacyWire'
    <2>1. net' = "wait" \/ (net' = "shake" /\ wire' = <<>> /\ sent' = 0 /\ told' = FALSE)
      BY <1>5 DEF Legacy!Attaches
    <2> QED
      BY <2>1 DEF LegacyWire, InSession
  <1>6. CASE Legacy!ShakeAgrees
    <2>1. /\ net = "shake" /\ net' = "adopt" /\ UNCHANGED <<wire, sent, told>>
      BY <1>6 DEF Legacy!ShakeAgrees, Legacy!hostVars
    <2>2. wire' = <<>> /\ sent' = 0 /\ Len(wire') = 0
      BY <2>1 DEF LegacyInv, LegacyWire
    <2>3. NextNumber' = 0
      BY <2>1 DEF NextNumber
    <2> QED
      BY <2>1, <2>2, <2>3 DEF LegacyWire, FollowOn
  <1>7. CASE Legacy!ShakeRefused \/ Legacy!ShakeUnpaired
    <2>1. net' \in {"wait", "done"}
      BY <1>7 DEF Legacy!ShakeRefused, Legacy!ShakeUnpaired, Legacy!Returns
    <2> QED
      BY <2>1, LegacyNoSession
  <1> QED
    BY <1>2, <1>3, <1>4, <1>5, <1>6, <1>7 DEF Legacy!HostStep

LEMMA TidingsAreTyped ==
    ASSUME events \in Seq(Tidings),
           NEW kind \in {"frame", "failed", "stopped", "reconnected"}, NEW s \in Sockets
    PROVE  Append(events, Legacy!Event(kind, s)) \in Seq(Tidings)
  <1>1. Legacy!Event(kind, s) \in Tidings
    BY MessagesAreFrames DEF Legacy!Event, Tidings
  <1> QED
    BY <1>1

LEMMA LegacyWorkerTypes ==
    ASSUME LegacyInv, Legacy!WorkerStep \/ Legacy!WritesChunk
    PROVE  LegacyTypes'
  <1>1. LegacyTypes
    BY DEF LegacyInv
  <1>2. stream \in Sockets /\ (net \in {"shake", "adopt"} => dialled \in Sockets)
    BY <1>1 DEF LegacyTypes
  <1>3. \A kind \in {"frame", "failed", "stopped", "reconnected"}, s \in Sockets :
           Append(events, Legacy!Event(kind, s)) \in Seq(Tidings)
    BY <1>1, TidingsAreTyped DEF LegacyTypes
  <1>4. wire # <<>> => Tail(wire) \in Seq(Frames)
    BY <1>1 DEF LegacyTypes
  <1>5. CASE Legacy!ReadsChunk \/ Legacy!ReadsFrame \/ Legacy!ReadsEnd \/ Legacy!PassesEnd
    <2>1. /\ wire' = Tail(wire) /\ wire # <<>> /\ UNCHANGED <<sent, chunks, stream, dialled>>
          /\ net' \in {"write", "replace", "done"}
          /\ \/ UNCHANGED events
             \/ \E kind \in {"failed", "stopped"} : Legacy!Sends(kind, stream)
      BY <1>5
      DEF Legacy!ReadsChunk, Legacy!ReadsFrame, Legacy!ReadsEnd, Legacy!PassesEnd,
          Legacy!Returns, Legacy!windowVars
    <2>2. events' \in Seq(Tidings)
      BY <1>1, <1>2, <1>3, <2>1 DEF Legacy!Sends, LegacyTypes
    <2> QED
      BY <1>1, <1>4, <2>1, <2>2 DEF LegacyTypes
  <1>6. CASE Legacy!Replaces \/ Legacy!Notifies \/ Legacy!FindsPipeClosed \/ Legacy!WritesChunk
               \/ Legacy!ReadFails \/ Legacy!Disconnects \/ Legacy!WaitEnds \/ Legacy!DialFails
               \/ Legacy!ShakeFails
    <2>1. /\ UNCHANGED <<wire, sent, stream>> /\ net' \notin {"shake", "adopt"}
          /\ chunks' \in {chunks, chunks + 1}
          /\ UNCHANGED events \/ Legacy!Sends("frame", stream)
      BY <1>6
      DEF Legacy!Replaces, Legacy!Notifies, Legacy!FindsPipeClosed, Legacy!WritesChunk,
          Legacy!ReadFails, Legacy!Disconnects, Legacy!WaitEnds, Legacy!DialFails,
          Legacy!ShakeFails, Legacy!Returns, Legacy!hostVars, Legacy!windowVars
    <2>2. events' \in Seq(Tidings)
      BY <1>1, <1>2, <1>3, <2>1 DEF Legacy!Sends, LegacyTypes
    <2> QED
      BY <1>1, <2>1, <2>2 DEF LegacyTypes
  <1>7. CASE Legacy!Adopts \/ Legacy!Announces
    <2>1. /\ net = "adopt" /\ UNCHANGED <<wire, sent>> /\ net' \in {"read", "done"}
          /\ stream' \in {stream, dialled} /\ chunks' \in {chunks, 0}
          /\ UNCHANGED events \/ Legacy!Sends("reconnected", dialled)
      BY <1>7 DEF Legacy!Adopts, Legacy!Announces, Legacy!Returns, Legacy!hostVars, Legacy!windowVars
    <2>2. events' \in Seq(Tidings)
      BY <1>1, <1>2, <1>3, <2>1 DEF Legacy!Sends, LegacyTypes
    <2> QED
      BY <1>1, <1>2, <2>1, <2>2 DEF LegacyTypes
  <1> QED
    BY <1>5, <1>6, <1>7 DEF Legacy!WorkerStep

LEMMA LegacyHostTypes ==
    ASSUME LegacyInv, Legacy!HostStep
    PROVE  LegacyTypes'
  <1>1. LegacyTypes
    BY DEF LegacyInv
  <1>2. stream \in Sockets /\ (net \in {"shake", "adopt"} => dialled \in Sockets)
    BY <1>1 DEF LegacyTypes
  <1>3. CASE Legacy!HostSends
    <2>1. Legacy!Live \in Nat /\ sent \in Nat /\ wire \in Seq(Frames)
      BY <1>1, <1>2, MessagesAreFrames DEF Legacy!Live, LegacyTypes
    <2>2. Legacy!Frame(Legacy!Live, sent) \in Frames
      BY <2>1, MessagesAreFrames
    <2>3. Append(wire, Legacy!Frame(Legacy!Live, sent)) \in Seq(Frames)
      BY <2>1, <2>2
    <2> QED
      BY <1>1, <1>3, <2>1, <2>3
      DEF Legacy!HostSends, Legacy!netVars, Legacy!windowVars, LegacyTypes
  <1>4. ASSUME NEW m \in {Legacy!StopMessage, Legacy!ErrorMessage}, Legacy!HostEnds(m)
        PROVE  LegacyTypes'
    <2>1. m \in Frames
      BY MessagesAreFrames
    <2>2. Append(wire, m) \in Seq(Frames)
      BY <1>1, <2>1 DEF LegacyTypes
    <2> QED
      BY <1>1, <1>4, <2>2 DEF Legacy!HostEnds, Legacy!netVars, Legacy!windowVars, LegacyTypes
  <1>5. ASSUME NEW s \in Legacy!Sockets, Legacy!LinkFails(s)
        PROVE  LegacyTypes'
    BY <1>1, <1>5
    DEF Legacy!LinkFails, Legacy!hostVars, Legacy!netVars, Legacy!windowVars, LegacyTypes
  <1>6. ASSUME NEW s \in Legacy!Sockets, Legacy!Attaches(s)
        PROVE  LegacyTypes'
    <2>1. /\ UNCHANGED <<chunks, stream, events>>
          /\ \/ net' = "wait" /\ UNCHANGED <<wire, sent>>
             \/ net' = "shake" /\ dialled' = s /\ wire' = <<>> /\ sent' = 0
      BY <1>6 DEF Legacy!Attaches, Legacy!windowVars
    <2>2. s \in Sockets
      BY <1>6, MessagesAreFrames
    <2>3. /\ wire' \in Seq(Frames) /\ sent' \in Nat
          /\ net' \in {"shake", "adopt"} => dialled' \in Sockets
      <3>1. CASE net' = "wait" /\ UNCHANGED <<wire, sent>>
        BY <1>1, <3>1 DEF LegacyTypes
      <3>2. CASE net' = "shake" /\ dialled' = s /\ wire' = <<>> /\ sent' = 0
        <4>1. wire' \in Seq(Frames)
          BY <3>2
        <4> QED
          BY <2>2, <3>2, <4>1
      <3> QED
        BY <2>1, <3>1, <3>2
    <2> QED
      BY <1>1, <2>1, <2>3 DEF LegacyTypes
  <1>7. CASE Legacy!ShakeAgrees
    <2>1. /\ net = "shake" /\ net' = "adopt"
          /\ UNCHANGED <<wire, sent, chunks, stream, dialled, events>>
      BY <1>7 DEF Legacy!ShakeAgrees, Legacy!hostVars, Legacy!windowVars
    <2> QED
      BY <1>1, <1>2, <2>1 DEF LegacyTypes
  <1>8. CASE Legacy!ShakeRefused \/ Legacy!ShakeUnpaired
    <2>1. /\ net = "shake" /\ net' \in {"wait", "done"} /\ UNCHANGED <<wire, sent, chunks, stream>>
          /\ UNCHANGED events \/ Legacy!Sends("failed", dialled)
      BY <1>8 DEF Legacy!ShakeRefused, Legacy!ShakeUnpaired, Legacy!Returns, Legacy!windowVars
    <2>2. events' \in Seq(Tidings)
      BY <1>1, <1>2, <2>1, TidingsAreTyped DEF Legacy!Sends, LegacyTypes
    <2> QED
      BY <1>1, <2>1, <2>2 DEF LegacyTypes
  <1> QED
    BY <1>3, <1>4, <1>5, <1>6, <1>7, <1>8 DEF Legacy!HostStep

\* The thread of the window and the player leave the stream alone.
LEMMA LegacyMainSteps ==
    ASSUME LegacyInv, Legacy!MainStep \/ Legacy!Ending \/ Legacy!PlayerDrains
    PROVE  /\ UNCHANGED <<wire, sent, told, route, refused, net, stream, dialled, chunks, result>>
           /\ events' \in Seq(Tidings)
  <1>1. events \in Seq(Tidings)
    BY DEF LegacyInv, LegacyTypes
  <1>2. events # <<>> => Tail(events) \in Seq(Tidings)
    BY <1>1
  <1>3. CASE Legacy!TakesEvent
    BY <1>1, <1>2, <1>3 DEF Legacy!TakesEvent, Legacy!hostVars, Legacy!netVars
  <1>4. CASE ~Legacy!TakesEvent
    BY <1>1, <1>4
    DEF Legacy!MainStep, Legacy!Ending, Legacy!PlayerDrains, Legacy!SeesWorkerOver,
        Legacy!SeesPlayerOver, Legacy!TakesFrame, Legacy!RaisesStopping, Legacy!ShutsWatched,
        Legacy!Joins, Legacy!PlayerEnds, Legacy!WindowCloses, Legacy!DrawFails,
        Legacy!OpenFails, Legacy!hostVars, Legacy!netVars, Legacy!windowVars
  <1> QED
    BY <1>3, <1>4

\* The worker of a client ends in an error only if the host said one.
LEMMA LegacyResult ==
    ASSUME LegacyInv, Legacy!WorkerStep \/ Legacy!WritesChunk \/ Legacy!HostStep
    PROVE  FailuresAreReal'
  <1>1. /\ result = "failed" => refused
        /\ outcome = "failed" => refused \/ player = "crashed"
    BY DEF LegacyInv, FailuresAreReal
  <1>2. UNCHANGED <<outcome, player>>
    BY DEF Legacy!WorkerStep, Legacy!HostStep, Legacy!WritesChunk, Legacy!ReadsChunk,
       Legacy!FindsPipeClosed, Legacy!ReadsFrame, Legacy!Replaces, Legacy!Notifies, Legacy!ReadsEnd,
       Legacy!PassesEnd, Legacy!ReadFails, Legacy!Disconnects, Legacy!WaitEnds, Legacy!DialFails,
       Legacy!ShakeFails, Legacy!Adopts, Legacy!Announces, Legacy!HostSends, Legacy!HostEnds,
       Legacy!LinkFails, Legacy!Attaches, Legacy!ShakeAgrees, Legacy!ShakeRefused,
       Legacy!ShakeUnpaired, Legacy!mainVars
  <1>3. refused => refused'
    BY DEF Legacy!WorkerStep, Legacy!HostStep, Legacy!WritesChunk, Legacy!ReadsChunk,
       Legacy!FindsPipeClosed, Legacy!ReadsFrame, Legacy!Replaces, Legacy!Notifies, Legacy!ReadsEnd,
       Legacy!PassesEnd, Legacy!ReadFails, Legacy!Disconnects, Legacy!WaitEnds, Legacy!DialFails,
       Legacy!ShakeFails, Legacy!Adopts, Legacy!Announces, Legacy!HostSends, Legacy!HostEnds,
       Legacy!LinkFails, Legacy!Attaches, Legacy!ShakeAgrees, Legacy!ShakeRefused,
       Legacy!ShakeUnpaired, Legacy!hostVars
  <1>4. result' = "failed" => refused' \/ result' = result
    <2>1. CASE Legacy!ReadsChunk \/ Legacy!ReadsFrame
      <3>1. net = "read" /\ wire # <<>> /\ Head(wire).session # 0
        BY <2>1 DEF Legacy!ReadsChunk, Legacy!ReadsFrame
      <3>2. Head(wire).session = stream /\ (route = "ffplay" => Head(wire).number = chunks)
        BY <3>1, LegacyReads
      <3> QED
        BY <2>1, <3>2 DEF Legacy!ReadsChunk, Legacy!ReadsFrame, Legacy!Expected
    <2>2. CASE Legacy!ReadsEnd \/ Legacy!PassesEnd
      <3>1. net = "read" /\ wire # <<>> /\ Head(wire).session = 0 /\ UNCHANGED refused
        BY <2>2 DEF Legacy!ReadsEnd, Legacy!PassesEnd
      <3>2. Head(wire) = Legacy!StopMessage \/ refused = TRUE
        BY <3>1, LegacyReads
      <3>3. Legacy!StopMessage # Legacy!ErrorMessage
        BY MessagesAreFrames
      <3> QED
        BY <2>2, <3>1, <3>2, <3>3 DEF Legacy!ReadsEnd, Legacy!PassesEnd, Legacy!Returns
    <2>3. CASE Legacy!ShakeRefused \/ Legacy!ShakeUnpaired
      BY <2>3 DEF Legacy!ShakeRefused, Legacy!ShakeUnpaired
    <2>4. CASE Legacy!FindsPipeClosed \/ Legacy!ReadFails \/ Legacy!WaitEnds \/ Legacy!Adopts
      BY <2>4
      DEF Legacy!FindsPipeClosed, Legacy!ReadFails, Legacy!WaitEnds, Legacy!Adopts, Legacy!Returns
    <2>5. CASE Legacy!Replaces \/ Legacy!Notifies \/ Legacy!Disconnects \/ Legacy!DialFails
                 \/ Legacy!ShakeFails \/ Legacy!Announces \/ Legacy!WritesChunk
      BY <2>5
      DEF Legacy!Replaces, Legacy!Notifies, Legacy!Disconnects, Legacy!DialFails,
          Legacy!ShakeFails, Legacy!Announces, Legacy!WritesChunk
    <2>6. CASE Legacy!HostStep
      BY <2>3, <2>6
      DEF Legacy!HostStep, Legacy!HostSends, Legacy!HostEnds, Legacy!LinkFails, Legacy!Attaches,
          Legacy!ShakeAgrees, Legacy!netVars
    <2> QED
      BY <2>1, <2>2, <2>3, <2>4, <2>5, <2>6 DEF Legacy!WorkerStep
  <1> QED
    BY <1>1, <1>2, <1>3, <1>4 DEF FailuresAreReal

LEMMA LegacyOutcome ==
    ASSUME LegacyInv, Legacy!MainStep \/ Legacy!Ending \/ Legacy!PlayerDrains
    PROVE  FailuresAreReal'
  <1>1. /\ result = "failed" => refused
        /\ outcome = "failed" => refused \/ player = "crashed"
    BY DEF LegacyInv, FailuresAreReal
  <1>2. UNCHANGED <<refused, result>>
    BY LegacyMainSteps
  <1>3. player = "crashed" => player' = "crashed"
    BY DEF Legacy!MainStep, Legacy!Ending, Legacy!PlayerDrains, Legacy!SeesWorkerOver,
       Legacy!SeesPlayerOver, Legacy!TakesEvent, Legacy!TakesFrame, Legacy!RaisesStopping,
       Legacy!ShutsWatched, Legacy!Joins, Legacy!PlayerEnds, Legacy!WindowCloses,
       Legacy!DrawFails, Legacy!OpenFails
  <1>4. CASE Legacy!Joins
    <2>1. outcome' = "failed" => player' = "crashed" \/ result = "failed"
      BY <1>4 DEF Legacy!Joins
    <2> QED
      BY <1>1, <1>2, <2>1 DEF FailuresAreReal
  <1>5. CASE ~Legacy!Joins
    <2>1. UNCHANGED outcome
      BY <1>5
      DEF Legacy!MainStep, Legacy!Ending, Legacy!PlayerDrains, Legacy!SeesWorkerOver,
          Legacy!SeesPlayerOver, Legacy!TakesEvent, Legacy!TakesFrame, Legacy!RaisesStopping,
          Legacy!ShutsWatched, Legacy!PlayerEnds, Legacy!WindowCloses, Legacy!DrawFails,
          Legacy!OpenFails
    <2> QED
      BY <1>1, <1>2, <1>3, <2>1 DEF FailuresAreReal
  <1> QED
    BY <1>4, <1>5

LEMMA LegacySteps ==
    ASSUME LegacyInv, [Legacy!Next]_Legacy!vars
    PROVE  LegacyInv'
  <1>1. CASE Legacy!WorkerStep \/ Legacy!WritesChunk
    BY <1>1, LegacyWorkerTypes, LegacyWorkerWire, LegacyResult DEF LegacyInv
  <1>2. CASE Legacy!HostStep
    BY <1>2, LegacyHostTypes, LegacyHostWire, LegacyResult DEF LegacyInv
  <1>3. CASE Legacy!MainStep \/ Legacy!Ending \/ Legacy!PlayerDrains
    <2>1. LegacyTypes'
      BY <1>3, LegacyMainSteps DEF LegacyInv, LegacyTypes
    <2>2. LegacyWire'
      BY <1>3, LegacyMainSteps, LegacyElsewhere
    <2> QED
      BY <1>3, <2>1, <2>2, LegacyOutcome DEF LegacyInv
  <1>4. CASE UNCHANGED Legacy!vars
    <2>1. UNCHANGED <<wire, sent, told, route, refused, net, stream, dialled, chunks, result,
                      events, outcome, player>>
      BY <1>4
      DEF Legacy!vars, Legacy!hostVars, Legacy!netVars, Legacy!mainVars, Legacy!windowVars
    <2>2. LegacyWire'
      BY <2>1, LegacyElsewhere
    <2> QED
      BY <2>1, <2>2 DEF LegacyInv, LegacyTypes, FailuresAreReal
  <1> QED
    BY <1>1, <1>2, <1>3, <1>4 DEF Legacy!Next

\* The window knows of every frame in its slot, or is about to be told.
LEMMA LegacyAnnounced ==
    ASSUME LegacyTypes, NoFrameIsForgotten, [Legacy!Next]_Legacy!vars
    PROVE  NoFrameIsForgotten'
  <1>1. events \in Seq(Tidings) /\ stream \in Sockets /\ (net = "adopt" => dialled \in Sockets)
    BY DEF LegacyTypes
  <1>2. ASSUME NEW kind, NEW s,
               events' = Append(events, Legacy!Event(kind, s)), UNCHANGED <<latest, main>>,
               net = "notify" => kind = "frame"
        PROVE  NoFrameIsForgotten'
    <2>1. /\ Len(events') = Len(events) + 1 /\ Len(events) \in Nat
          /\ events'[Len(events) + 1].kind = kind
          /\ \A i \in 1 .. Len(events) : events'[i] = events[i]
      BY <1>1, <1>2 DEF Legacy!Event
    <2>2. DOMAIN events' = 1 .. Len(events) + 1 /\ DOMAIN events = 1 .. Len(events)
      BY <1>1, <1>2
    <2>3. ASSUME NEW i \in DOMAIN events, events[i].kind = "frame"
          PROVE  i \in DOMAIN events' /\ events'[i].kind = "frame"
      BY <2>1, <2>2, <2>3
    <2>4. net = "notify" => Len(events) + 1 \in DOMAIN events' /\ events'[Len(events) + 1].kind = "frame"
      BY <1>2, <2>1, <2>2
    <2> QED
      BY <1>2, <2>3, <2>4 DEF NoFrameIsForgotten
  <1>3. ASSUME UNCHANGED <<events, latest>>, main' = "run" => main = "run",
               net = "notify" => net' = "notify"
        PROVE  NoFrameIsForgotten'
    BY <1>3 DEF NoFrameIsForgotten
  <1>4. CASE Legacy!Replaces
    BY <1>4 DEF Legacy!Replaces, Legacy!mainVars, NoFrameIsForgotten
  <1>5. CASE Legacy!TakesFrame
    BY <1>5 DEF Legacy!TakesFrame, NoFrameIsForgotten
  <1>6. CASE Legacy!TakesEvent
    <2>1. main = "run" /\ events # <<>> /\ events' = Tail(events) /\ UNCHANGED <<latest, net>>
      BY <1>6 DEF Legacy!TakesEvent, Legacy!netVars
    <2>2. Head(events).kind = "frame" => main' # "run"
      BY <1>6 DEF Legacy!TakesEvent
    <2>3. /\ Len(events) \in Nat \ {0} /\ DOMAIN events = 1 .. Len(events) /\ Head(events) = events[1]
          /\ DOMAIN events' = 1 .. Len(events) - 1
          /\ \A i \in 1 .. Len(events) - 1 : events'[i] = events[i + 1]
      BY <1>1, <2>1
    <2>4. ASSUME NEW i \in DOMAIN events, events[i].kind = "frame", i # 1
          PROVE  \E j \in DOMAIN events' : events'[j].kind = "frame"
      <3>1. i - 1 \in DOMAIN events' /\ events'[i - 1] = events[i]
        BY <2>3, <2>4
      <3> QED
        BY <2>4, <3>1
    <2> QED
      BY <2>1, <2>2, <2>3, <2>4 DEF NoFrameIsForgotten
  <1>7. CASE Legacy!Notifies
    <2>1. events' = Append(events, Legacy!Event("frame", stream)) /\ UNCHANGED <<latest, main>>
      BY <1>7 DEF Legacy!Notifies, Legacy!Sends, Legacy!mainVars
    <2> QED
      BY <1>2, <2>1
  <1>8. CASE Legacy!ReadsFrame \/ Legacy!PassesEnd \/ Legacy!ShakeUnpaired \/ Legacy!Announces
    <2>1. net # "notify" /\ UNCHANGED <<latest, main>>
      BY <1>8
      DEF Legacy!ReadsFrame, Legacy!PassesEnd, Legacy!ShakeUnpaired, Legacy!Announces, Legacy!mainVars
    <2>2. \/ UNCHANGED events
          \/ \E kind \in {"failed", "stopped", "reconnected"}, s \in {stream, dialled} :
                events' = Append(events, Legacy!Event(kind, s))
      BY <1>8
      DEF Legacy!ReadsFrame, Legacy!PassesEnd, Legacy!ShakeUnpaired, Legacy!Announces, Legacy!Sends
    <2> QED
      BY <1>2, <1>3, <2>1, <2>2
  <1>9. CASE Legacy!ReadsChunk \/ Legacy!FindsPipeClosed \/ Legacy!ReadsEnd \/ Legacy!ReadFails
               \/ Legacy!Disconnects \/ Legacy!WaitEnds \/ Legacy!DialFails \/ Legacy!ShakeFails
               \/ Legacy!Adopts \/ Legacy!WritesChunk \/ Legacy!ShakeAgrees \/ Legacy!ShakeRefused
               \/ \E s \in Legacy!Sockets : Legacy!Attaches(s)
    <2>1. net # "notify" /\ UNCHANGED <<events, latest, main>>
      BY <1>9
      DEF Legacy!ReadsChunk, Legacy!FindsPipeClosed, Legacy!ReadsEnd, Legacy!ReadFails,
          Legacy!Disconnects, Legacy!WaitEnds, Legacy!DialFails, Legacy!ShakeFails, Legacy!Adopts,
          Legacy!WritesChunk, Legacy!ShakeAgrees, Legacy!ShakeRefused, Legacy!Attaches,
          Legacy!mainVars, Legacy!windowVars
    <2> QED
      BY <1>3, <2>1
  <1>10. CASE Legacy!HostSends \/ Legacy!HostEnds(Legacy!StopMessage)
                \/ Legacy!HostEnds(Legacy!ErrorMessage)
                \/ (\E s \in Legacy!Sockets : Legacy!LinkFails(s)) \/ UNCHANGED Legacy!vars
    <2>1. UNCHANGED <<events, latest, main, net>>
      BY <1>10
      DEF Legacy!HostSends, Legacy!HostEnds, Legacy!LinkFails, Legacy!vars, Legacy!netVars,
          Legacy!mainVars, Legacy!windowVars
    <2> QED
      BY <1>3, <2>1
  <1>11. CASE Legacy!SeesWorkerOver \/ Legacy!SeesPlayerOver \/ Legacy!RaisesStopping
                \/ Legacy!ShutsWatched \/ Legacy!Joins \/ Legacy!Ending \/ Legacy!PlayerDrains
    <2>1. UNCHANGED <<events, latest, net>> /\ (main' # "run" \/ UNCHANGED main)
      BY <1>11
      DEF Legacy!SeesWorkerOver, Legacy!SeesPlayerOver, Legacy!RaisesStopping,
          Legacy!ShutsWatched, Legacy!Joins, Legacy!Ending, Legacy!PlayerDrains,
          Legacy!PlayerEnds, Legacy!WindowCloses, Legacy!DrawFails, Legacy!OpenFails,
          Legacy!netVars, Legacy!windowVars
    <2> QED
      BY <1>3, <2>1
  <1> QED
    BY <1>4, <1>5, <1>6, <1>7, <1>8, <1>9, <1>10, <1>11
    DEF Legacy!Next, Legacy!WorkerStep, Legacy!MainStep, Legacy!HostStep

\* The older clients, whatever their instance: a lost connection, at any point
\* and any number of times, and the closing of the player or of the window in the
\* middle of it, are no failures, since what follows on the wire is what the
\* worker expects.
THEOREM OldClientsFailForACause == Legacy!Spec => []FailuresAreReal
  <1>1. LegacyInv /\ [Legacy!Next]_Legacy!vars => LegacyInv'
    BY LegacySteps
  <1>2. LegacyInv => FailuresAreReal
    BY DEF LegacyInv
  <1> QED
    BY LegacyInit, <1>1, <1>2, PTL DEF Legacy!Spec

\* And no frame stays in the slot of their window without its knowing.
THEOREM OldWindowIsTold == Legacy!Spec => []NoFrameIsForgotten
  <1>1. LegacyInv /\ [Legacy!Next]_Legacy!vars => LegacyInv'
    BY LegacySteps
  <1>2. LegacyInv /\ NoFrameIsForgotten /\ [Legacy!Next]_Legacy!vars
          => NoFrameIsForgotten'
    BY LegacyAnnounced DEF LegacyInv
  <1> QED
    BY LegacyInit, <1>1, <1>2, PTL DEF Legacy!Spec
-----------------------------------------------------------------------------
(* Their types, for any bound.                                                *)

Wires == [session : 0 .. MaxSockets, number : Nat]
Words == [kind : {"frame", "failed", "stopped", "reconnected"}, session : Sockets]

LEMMA EndsAreTyped ==
    /\ Legacy!StopMessage \in Wires /\ Legacy!ErrorMessage \in Wires
    /\ \A s \in Sockets, n \in Nat : Legacy!Frame(s, n) \in Wires
    /\ \A kind \in {"frame", "failed", "stopped", "reconnected"}, s \in Sockets :
          Legacy!Event(kind, s) \in Words
    /\ 1 \in Sockets /\ 0 \in 0 .. MaxSockets /\ 0 \notin Sockets /\ Sockets \subseteq 0 .. MaxSockets
    /\ Sockets = Legacy!Sockets
  BY BoundsAssumption
  DEF Legacy!StopMessage, Legacy!ErrorMessage, Legacy!Frame, Legacy!Event, Wires, Words, Sockets,
      Legacy!Sockets

\* Shutting a socket, what is taken from the wire and what is sent to the window
\* keep the types of the three.
LEMMA LegacyMoves ==
    ASSUME Legacy!TypeOK
    PROVE  /\ \A s \in Sockets : Legacy!Shuts(s) => sock' \in [Sockets -> {"none", "open", "shut"}]
           /\ wire \in Seq(Wires) /\ events \in Seq(Words)
           /\ wire # <<>> =>
                 /\ Tail(wire) \in Seq(Wires) /\ Head(wire) \in Wires
                 /\ Head(wire).session # 0 => Head(wire) \in [session : Sockets, number : Nat]
           /\ events # <<>> => Tail(events) \in Seq(Words) /\ Head(events) \in Words
           /\ \A m \in Wires : Append(wire, m) \in Seq(Wires)
           /\ \A kind \in {"frame", "failed", "stopped", "reconnected"}, s \in Sockets :
                 Legacy!Sends(kind, s) => events' \in Seq(Words)
           /\ net \in {"shake", "adopt"} => dialled \in Sockets
           /\ Legacy!Live \in Sockets
  <1>1. /\ sock \in [Sockets -> {"none", "open", "shut"}] /\ wire \in Seq(Wires)
        /\ events \in Seq(Words) /\ stream \in Sockets /\ dialled \in 0 .. MaxSockets
        /\ (dialled # 0 <=> net \in {"shake", "adopt"})
    BY EndsAreTyped DEF Legacy!TypeOK, Wires, Words
  <1>2. \A s \in Sockets : Legacy!Shuts(s) => sock' \in [Sockets -> {"none", "open", "shut"}]
    BY <1>1 DEF Legacy!Shuts
  <1>3. ASSUME wire # <<>>
        PROVE  /\ Tail(wire) \in Seq(Wires) /\ Head(wire) \in Wires
               /\ Head(wire).session # 0 => Head(wire) \in [session : Sockets, number : Nat]
    <2>1. Tail(wire) \in Seq(Wires) /\ Head(wire) \in Wires
      BY <1>1, <1>3
    <2> QED
      BY <2>1, BoundsAssumption DEF Wires, Sockets
  <1>4. events # <<>> => Tail(events) \in Seq(Words) /\ Head(events) \in Words
    BY <1>1
  <1>5. \A m \in Wires : Append(wire, m) \in Seq(Wires)
    BY <1>1
  <1>6. ASSUME NEW kind \in {"frame", "failed", "stopped", "reconnected"}, NEW s \in Sockets,
               Legacy!Sends(kind, s)
        PROVE  events' \in Seq(Words)
    <2>1. Legacy!Event(kind, s) \in Words
      BY EndsAreTyped
    <2> QED
      BY <1>1, <1>6, <2>1 DEF Legacy!Sends
  <1>7. net \in {"shake", "adopt"} => dialled \in Sockets
    BY <1>1, BoundsAssumption DEF Sockets
  <1>8. Legacy!Live \in Sockets
    BY <1>1, <1>7 DEF Legacy!Live
  <1> QED
    BY <1>1, <1>2, <1>3, <1>4, <1>5, <1>6, <1>7, <1>8

LEMMA LegacyWorkerTyped ==
    ASSUME Legacy!TypeOK, Legacy!WorkerStep \/ Legacy!WritesChunk
    PROVE  Legacy!TypeOK'
  <1>1. /\ Legacy!TypeOK /\ wire \in Seq(Wires) /\ events \in Seq(Words)
        /\ Sockets = Legacy!Sockets
        /\ Sockets \subseteq 0 .. MaxSockets /\ 0 \in 0 .. MaxSockets /\ 0 \notin Sockets
    BY LegacyMoves, EndsAreTyped
  <1>2. wire' \in Seq(Wires) /\ events' \in Seq(Words)
          => /\ wire' \in Seq([session : 0 .. MaxSockets, number : Nat])
             /\ events' \in Seq([kind : {"frame", "failed", "stopped", "reconnected"},
                                 session : Legacy!Sockets])
    BY <1>1 DEF Wires, Words
  <1>3. CASE Legacy!ReadsChunk
    <2>1. wire' \in Seq(Wires) /\ UNCHANGED events
      BY <1>3, LegacyMoves DEF Legacy!ReadsChunk, Legacy!windowVars
    <2>2. hand' \in [session : Sockets, number : Nat]
      BY <1>1, <1>3, LegacyMoves DEF Legacy!ReadsChunk, Legacy!TypeOK
    <2>3. net' \in {"write", "done"} /\ result' \in {"none", "ok", "failed"} /\ net = "read"
      BY <1>1, <1>3 DEF Legacy!ReadsChunk, Legacy!Returns, Legacy!TypeOK
    <2> QED
      BY <1>1, <1>2, <1>3, <2>1, <2>2, <2>3
      DEF Legacy!ReadsChunk, Legacy!mainVars, Legacy!windowVars, Legacy!TypeOK
  <1>4. CASE Legacy!WritesChunk
    BY <1>1, <1>2, <1>4, LegacyMoves, EndsAreTyped
    DEF Legacy!TypeOK, Legacy!WritesChunk, Legacy!hostVars, Legacy!mainVars, Legacy!windowVars
  <1>5. CASE Legacy!FindsPipeClosed
    BY <1>1, <1>2, <1>5, LegacyMoves, EndsAreTyped
    DEF Legacy!TypeOK, Legacy!FindsPipeClosed, Legacy!Returns, Legacy!hostVars, Legacy!mainVars,
        Legacy!windowVars
  <1>6. CASE Legacy!ReadsFrame
    <2>1. wire' \in Seq(Wires) /\ events' \in Seq(Words)
      <3>1. stream \in Sockets
        BY <1>1 DEF Legacy!TypeOK
      <3>2. UNCHANGED events \/ Legacy!Sends("failed", stream)
        BY <1>6 DEF Legacy!ReadsFrame
      <3> QED
        BY <1>1, <1>6, <3>1, <3>2, LegacyMoves DEF Legacy!ReadsFrame
    <2>2. hand' \in [session : Sockets, number : Nat]
      BY <1>1, <1>6, LegacyMoves DEF Legacy!ReadsFrame, Legacy!TypeOK
    <2>3. net' \in {"replace", "done"} /\ result' \in {"none", "ok", "failed"} /\ net = "read"
      BY <1>1, <1>6 DEF Legacy!ReadsFrame, Legacy!Returns, Legacy!TypeOK
    <2> QED
      BY <1>1, <1>2, <1>6, <2>1, <2>2, <2>3 DEF Legacy!ReadsFrame, Legacy!mainVars, Legacy!TypeOK
  <1>7. CASE Legacy!Replaces
    <2>1. latest' \in Nat
      BY <1>1, <1>7 DEF Legacy!Replaces, Legacy!TypeOK
    <2>2. net = "replace" /\ net' \in {"notify", "read"}
      BY <1>7 DEF Legacy!Replaces
    <2> QED
      BY <1>1, <1>7, <2>1, <2>2
      DEF Legacy!Replaces, Legacy!hostVars, Legacy!mainVars, Legacy!TypeOK
  <1>8. CASE Legacy!Notifies
    BY <1>1, <1>2, <1>8, LegacyMoves, EndsAreTyped
    DEF Legacy!TypeOK, Legacy!Notifies, Legacy!hostVars, Legacy!mainVars
  <1>9. CASE Legacy!ReadsEnd
    BY <1>1, <1>2, <1>9, LegacyMoves, EndsAreTyped
    DEF Legacy!TypeOK, Legacy!ReadsEnd, Legacy!Returns, Legacy!mainVars, Legacy!windowVars
  <1>10. CASE Legacy!PassesEnd
    <2>1. wire' \in Seq(Wires) /\ events' \in Seq(Words)
      <3>1. stream \in Sockets
        BY <1>1 DEF Legacy!TypeOK
      <3>2. Legacy!Sends("stopped", stream) \/ Legacy!Sends("failed", stream)
        BY <1>10 DEF Legacy!PassesEnd
      <3> QED
        BY <1>10, <3>1, <3>2, LegacyMoves DEF Legacy!PassesEnd
    <2>2. net = "read" /\ net' = "done" /\ result' \in {"ok", "failed"}
      BY <1>10 DEF Legacy!PassesEnd, Legacy!Returns
    <2> QED
      BY <1>1, <1>2, <1>10, <2>1, <2>2 DEF Legacy!PassesEnd, Legacy!mainVars, Legacy!TypeOK
  <1>11. CASE Legacy!ReadFails
    BY <1>1, <1>2, <1>11, LegacyMoves, EndsAreTyped
    DEF Legacy!TypeOK, Legacy!ReadFails, Legacy!Returns, Legacy!hostVars, Legacy!mainVars,
        Legacy!windowVars
  <1>12. CASE Legacy!Disconnects
    BY <1>1, <1>2, <1>12, LegacyMoves, EndsAreTyped
    DEF Legacy!TypeOK, Legacy!Disconnects, Legacy!hostVars, Legacy!mainVars, Legacy!windowVars
  <1>13. CASE Legacy!WaitEnds
    BY <1>1, <1>2, <1>13, LegacyMoves, EndsAreTyped
    DEF Legacy!TypeOK, Legacy!WaitEnds, Legacy!Returns, Legacy!hostVars, Legacy!mainVars,
        Legacy!windowVars
  <1>14. CASE Legacy!DialFails
    BY <1>1, <1>2, <1>14, LegacyMoves, EndsAreTyped
    DEF Legacy!TypeOK, Legacy!DialFails, Legacy!hostVars, Legacy!mainVars, Legacy!windowVars
  <1>15. CASE Legacy!ShakeFails
    BY <1>1, <1>2, <1>15, LegacyMoves, EndsAreTyped
    DEF Legacy!TypeOK, Legacy!ShakeFails, Legacy!hostVars, Legacy!mainVars, Legacy!windowVars
  <1>16. CASE Legacy!Adopts
    BY <1>1, <1>2, <1>16, LegacyMoves, EndsAreTyped
    DEF Legacy!TypeOK, Legacy!Adopts, Legacy!Returns, Legacy!hostVars, Legacy!mainVars,
        Legacy!windowVars
  <1>17. CASE Legacy!Announces
    BY <1>1, <1>2, <1>17, LegacyMoves, EndsAreTyped
    DEF Legacy!TypeOK, Legacy!Announces, Legacy!hostVars, Legacy!mainVars
  <1> QED
    BY <1>3, <1>4, <1>5, <1>6, <1>7, <1>8, <1>9, <1>10, <1>11, <1>12, <1>13, <1>14, <1>15,
       <1>16, <1>17
    DEF Legacy!WorkerStep

LEMMA LegacyMainTyped ==
    ASSUME Legacy!TypeOK, Legacy!MainStep \/ Legacy!Ending \/ Legacy!PlayerDrains
    PROVE  Legacy!TypeOK'
  <1>1. /\ Legacy!TypeOK /\ wire \in Seq(Wires) /\ events \in Seq(Words)
        /\ Sockets = Legacy!Sockets
        /\ Sockets \subseteq 0 .. MaxSockets /\ 0 \in 0 .. MaxSockets /\ 0 \notin Sockets
    BY LegacyMoves, EndsAreTyped
  <1>2. wire' \in Seq(Wires) /\ events' \in Seq(Words)
          => /\ wire' \in Seq([session : 0 .. MaxSockets, number : Nat])
             /\ events' \in Seq([kind : {"frame", "failed", "stopped", "reconnected"},
                                 session : Legacy!Sockets])
    BY <1>1 DEF Wires, Words
  <1>3. CASE Legacy!SeesWorkerOver
    BY <1>1, <1>2, <1>3, LegacyMoves, EndsAreTyped
    DEF Legacy!TypeOK, Legacy!SeesWorkerOver, Legacy!hostVars, Legacy!netVars, Legacy!windowVars
  <1>4. CASE Legacy!SeesPlayerOver
    BY <1>1, <1>2, <1>4, LegacyMoves, EndsAreTyped
    DEF Legacy!TypeOK, Legacy!SeesPlayerOver, Legacy!hostVars, Legacy!netVars, Legacy!windowVars
  <1>5. CASE Legacy!TakesEvent
    <2>1. events' \in Seq(Words) /\ Head(events) \in Words
      BY <1>5, LegacyMoves DEF Legacy!TakesEvent
    <2>2. main' \in {"take", "store", "run"}
      BY <1>5, <2>1 DEF Legacy!TakesEvent, Words
    <2>3. watched' \in Sockets
      BY <1>1, <1>5, <2>1 DEF Legacy!TakesEvent, Words, Legacy!TypeOK
    <2>4. /\ UNCHANGED <<route, sock, Legacy!hostVars, Legacy!netVars, closing, player>>
          /\ UNCHANGED <<outcome, latest, shown>>
      BY <1>5 DEF Legacy!TakesEvent
    <2> QED
      BY <1>1, <1>2, <2>1, <2>2, <2>3, <2>4 DEF Legacy!hostVars, Legacy!netVars, Legacy!TypeOK
  <1>6. CASE Legacy!TakesFrame
    BY <1>1, <1>2, <1>6, LegacyMoves, EndsAreTyped
    DEF Legacy!TypeOK, Legacy!TakesFrame, Legacy!hostVars, Legacy!netVars
  <1>7. CASE Legacy!RaisesStopping
    BY <1>1, <1>2, <1>7, LegacyMoves, EndsAreTyped
    DEF Legacy!TypeOK, Legacy!RaisesStopping, Legacy!hostVars, Legacy!netVars, Legacy!windowVars
  <1>8. CASE Legacy!ShutsWatched
    BY <1>1, <1>2, <1>8, LegacyMoves, EndsAreTyped
    DEF Legacy!TypeOK, Legacy!ShutsWatched, Legacy!hostVars, Legacy!netVars, Legacy!windowVars
  <1>9. CASE Legacy!Joins
    BY <1>1, <1>2, <1>9, LegacyMoves, EndsAreTyped
    DEF Legacy!TypeOK, Legacy!Joins, Legacy!hostVars, Legacy!netVars, Legacy!windowVars
  <1>10. CASE Legacy!PlayerEnds
    <2>1. player' \in {"open", "closed", "crashed"}
      BY <1>10 DEF Legacy!PlayerEnds
    <2> QED
      BY <1>1, <1>10, <2>1
      DEF Legacy!PlayerEnds, Legacy!hostVars, Legacy!netVars, Legacy!windowVars, Legacy!TypeOK
  <1>11. CASE Legacy!WindowCloses
    BY <1>1, <1>2, <1>11, LegacyMoves, EndsAreTyped
    DEF Legacy!TypeOK, Legacy!WindowCloses, Legacy!hostVars, Legacy!netVars, Legacy!windowVars
  <1>12. CASE Legacy!DrawFails
    BY <1>1, <1>2, <1>12, LegacyMoves, EndsAreTyped
    DEF Legacy!TypeOK, Legacy!DrawFails, Legacy!hostVars, Legacy!netVars, Legacy!windowVars
  <1>13. CASE Legacy!OpenFails
    BY <1>1, <1>2, <1>13, LegacyMoves, EndsAreTyped
    DEF Legacy!TypeOK, Legacy!OpenFails, Legacy!hostVars, Legacy!netVars, Legacy!windowVars
  <1>14. CASE Legacy!PlayerDrains
    BY <1>1, <1>2, <1>14, LegacyMoves, EndsAreTyped
    DEF Legacy!TypeOK, Legacy!PlayerDrains, Legacy!hostVars, Legacy!netVars, Legacy!windowVars
  <1> QED
    BY <1>3, <1>4, <1>5, <1>6, <1>7, <1>8, <1>9, <1>10, <1>11, <1>12, <1>13, <1>14
    DEF Legacy!MainStep, Legacy!Ending

LEMMA LegacyHostTyped ==
    ASSUME Legacy!TypeOK, MaxFrames \in Nat, Legacy!HostStep
    PROVE  Legacy!TypeOK'
  <1>1. /\ Legacy!TypeOK /\ wire \in Seq(Wires) /\ events \in Seq(Words)
        /\ Sockets = Legacy!Sockets
        /\ Sockets \subseteq 0 .. MaxSockets /\ 0 \in 0 .. MaxSockets /\ 0 \notin Sockets
    BY LegacyMoves, EndsAreTyped
  <1>2. wire' \in Seq(Wires) /\ events' \in Seq(Words)
          => /\ wire' \in Seq([session : 0 .. MaxSockets, number : Nat])
             /\ events' \in Seq([kind : {"frame", "failed", "stopped", "reconnected"},
                                 session : Legacy!Sockets])
    BY <1>1 DEF Wires, Words
  <1>3. CASE Legacy!HostSends
    <2>1. Legacy!Frame(Legacy!Live, sent) \in Wires
      <3>1. sent \in Nat
        BY <1>1 DEF Legacy!TypeOK
      <3> QED
        BY <3>1, LegacyMoves, EndsAreTyped
    <2>2. wire' \in Seq(Wires) /\ UNCHANGED events
      BY <1>3, <2>1, LegacyMoves DEF Legacy!HostSends, Legacy!windowVars
    <2>3. sent' \in 0 .. MaxFrames
      BY <1>1, <1>3 DEF Legacy!HostSends, Legacy!TypeOK
    <2> QED
      BY <1>1, <1>2, <1>3, <2>2, <2>3
      DEF Legacy!HostSends, Legacy!netVars, Legacy!mainVars, Legacy!windowVars, Legacy!TypeOK
  <1>4. ASSUME NEW m \in {Legacy!StopMessage, Legacy!ErrorMessage}, Legacy!HostEnds(m)
        PROVE  Legacy!TypeOK'
    <2>1. wire' \in Seq(Wires) /\ UNCHANGED events
      BY <1>4, LegacyMoves, EndsAreTyped DEF Legacy!HostEnds, Legacy!windowVars
    <2>2. told' \in BOOLEAN /\ refused' \in BOOLEAN
      BY <1>1, <1>4 DEF Legacy!HostEnds, Legacy!TypeOK
    <2> QED
      BY <1>1, <1>2, <1>4, <2>1, <2>2
      DEF Legacy!HostEnds, Legacy!netVars, Legacy!mainVars, Legacy!windowVars, Legacy!TypeOK
  <1>5. ASSUME NEW s \in Sockets, Legacy!LinkFails(s)
        PROVE  Legacy!TypeOK'
    BY <1>1, <1>2, <1>5, LegacyMoves, EndsAreTyped
    DEF Legacy!TypeOK, Legacy!LinkFails, Legacy!hostVars, Legacy!netVars, Legacy!mainVars,
        Legacy!windowVars
  <1>6. ASSUME NEW s \in Sockets, Legacy!Attaches(s)
        PROVE  Legacy!TypeOK'
    <2>1. sock' \in [Sockets -> {"none", "open", "shut"}]
      BY <1>1, <1>6 DEF Legacy!Attaches, Legacy!TypeOK
    <2>2. wire' \in Seq(Wires) /\ UNCHANGED events
      <3>1. <<>> \in Seq(Wires)
        OBVIOUS
      <3>2. (wire' = <<>> \/ UNCHANGED wire) /\ UNCHANGED events
        BY <1>6 DEF Legacy!Attaches, Legacy!windowVars
      <3> QED
        BY <1>1, <3>1, <3>2
    <2>3. /\ sent' \in 0 .. MaxFrames /\ told' \in BOOLEAN /\ watched' \in Sockets
          /\ dialled' \in 0 .. MaxSockets
      <3>1. /\ sent' \in {sent, 0} /\ told' \in {told, FALSE} /\ watched' \in {watched, s}
            /\ dialled' \in {dialled, s}
        BY <1>6 DEF Legacy!Attaches
      <3>2. /\ sent \in 0 .. MaxFrames /\ told \in BOOLEAN /\ watched \in Sockets
            /\ dialled \in 0 .. MaxSockets
        BY <1>1 DEF Legacy!TypeOK
      <3>3. 0 \in 0 .. MaxFrames
        OBVIOUS
      <3> QED
        BY <1>1, <1>6, <3>1, <3>2, <3>3
    <2>4. net' \in {"wait", "shake"} /\ (dialled' # 0 <=> net' \in {"shake", "adopt"})
      BY <1>1, <1>6 DEF Legacy!Attaches, Legacy!TypeOK
    <2> QED
      BY <1>1, <1>2, <1>6, <2>1, <2>2, <2>3, <2>4
      DEF Legacy!Attaches, Legacy!mainVars, Legacy!windowVars, Legacy!TypeOK
  <1>7. CASE Legacy!ShakeAgrees
    BY <1>1, <1>2, <1>7, LegacyMoves, EndsAreTyped
    DEF Legacy!TypeOK, Legacy!ShakeAgrees, Legacy!hostVars, Legacy!mainVars, Legacy!windowVars
  <1>8. CASE Legacy!ShakeRefused
    BY <1>1, <1>2, <1>8, LegacyMoves, EndsAreTyped
    DEF Legacy!TypeOK, Legacy!ShakeRefused, Legacy!Returns, Legacy!mainVars, Legacy!windowVars
  <1>9. CASE Legacy!ShakeUnpaired
    <2>1. sock' \in [Sockets -> {"none", "open", "shut"}] /\ events' \in Seq(Words)
      <3>1. /\ net = "shake" /\ Legacy!Shuts(dialled)
            /\ UNCHANGED events \/ Legacy!Sends("failed", dialled)
        BY <1>9 DEF Legacy!ShakeUnpaired
      <3> QED
        BY <1>1, <3>1, LegacyMoves
    <2>2. net' \in {"wait", "done"} /\ result' \in {"none", "ok", "failed"} /\ dialled' = 0
      BY <1>1, <1>9 DEF Legacy!ShakeUnpaired, Legacy!Returns, Legacy!TypeOK
    <2>3. UNCHANGED wire /\ refused' = TRUE
      BY <1>9 DEF Legacy!ShakeUnpaired
    <2> QED
      BY <1>1, <1>2, <1>9, <2>1, <2>2, <2>3
      DEF Legacy!ShakeUnpaired, Legacy!mainVars, Legacy!TypeOK
  <1> QED
    BY <1>3, <1>4, <1>5, <1>6, <1>7, <1>8, <1>9, EndsAreTyped DEF Legacy!HostStep

\* The state of the older clients has its types, whatever the bounds: the socket
\* that closing shuts and the one that is read are always sockets, and one is being
\* dialled exactly in the handshake and at its end.
THEOREM OldClientsAreTyped ==
    ASSUME MaxFrames \in Nat
    PROVE  Legacy!Spec => []Legacy!TypeOK
  <1>1. Legacy!Init => Legacy!TypeOK
    <2> SUFFICES ASSUME Legacy!Init PROVE Legacy!TypeOK
      OBVIOUS
    <2>1. /\ 1 \in Legacy!Sockets /\ 0 \in 0 .. MaxSockets /\ 0 \in 0 .. MaxFrames
          /\ Legacy!Frame(1, 0) \in [session : Legacy!Sockets, number : Nat]
      BY EndsAreTyped DEF Legacy!Frame
    <2>2. sock \in [Legacy!Sockets -> {"none", "open", "shut"}]
      BY DEF Legacy!Init
    <2>3. /\ wire \in Seq([session : 0 .. MaxSockets, number : Nat])
          /\ events \in Seq([kind : {"frame", "failed", "stopped", "reconnected"},
                             session : Legacy!Sockets])
      <3>1. wire = <<>> /\ events = <<>>
        BY DEF Legacy!Init
      <3> QED
        BY <3>1
    <2>4. /\ stream = 1 /\ watched = 1 /\ dialled = 0 /\ sent = 0 /\ hand = Legacy!Frame(1, 0)
          /\ net = "read" /\ main = "run"
      BY DEF Legacy!Init
    <2> QED
      BY <2>1, <2>2, <2>3, <2>4 DEF Legacy!Init, Legacy!TypeOK
  <1>2. Legacy!TypeOK /\ [Legacy!Next]_Legacy!vars => Legacy!TypeOK'
    <2> SUFFICES ASSUME Legacy!TypeOK, [Legacy!Next]_Legacy!vars
                 PROVE  Legacy!TypeOK'
      OBVIOUS
    <2>1. CASE Legacy!Next
      BY <2>1, LegacyWorkerTyped, LegacyMainTyped, LegacyHostTyped DEF Legacy!Next
    <2>2. CASE UNCHANGED Legacy!vars
      BY <2>2
      DEF Legacy!TypeOK, Legacy!vars, Legacy!hostVars, Legacy!netVars, Legacy!mainVars,
          Legacy!windowVars
    <2> QED
      BY <2>1, <2>2
  <1> QED
    BY <1>1, <1>2, PTL DEF Legacy!Spec
=============================================================================
