---------------------------- MODULE NativeClient ----------------------------
(***************************************************************************)
(* The client with the integrated player, from its first connection on     *)
(* (crates/windowdeck-client/src/native.rs): the thread of the window,     *)
(* which feeds the decoder, and the receiver, which reads the stream,      *)
(* queues what it reads and connects again when the network fails.         *)
(***************************************************************************)
EXTENDS ClientState

CONSTANTS
    CAPACITY,   \* events in the queue (queue.rs: 2)
    Fragments,  \* fragments of an access unit
    MaxUnits    \* bound: access units that the host sends in a session

ASSUME CapacityAssumption == CAPACITY \in Nat \ {0}
ASSUME FragmentsAssumption == Fragments \in Nat \ {0}
ASSUME BoundsAssumption ==
    MaxUnits \in Nat /\ WireRoom \in Nat /\ MaxSockets \in Nat \ {0}

VARIABLES
    asm,        \* Assembler: the place that it expects
    queue,      \* the events between the threads
    receiving,  \* receiving_session, the one session_socket belongs to
    discarded,  \* discarded_session, 0 for none
    session,    \* the session being decoded, 0 for none
    fed         \* the units that the decoder got since its last reset

hostVars == <<wire, sent, told>>
netVars == <<net, stream, asm, dialled, hand>>
playerVars == <<receiving, discarded, session, fed>>
vars == <<sock, hostVars, netVars, queue, watched, main, playerVars>>

\* A place in a stream: fragment `index' of unit `number'; and the one after it.
Fresh == [number |-> 0, index |-> 0]
After(p) ==
    IF p.index + 1 = Fragments
    THEN [number |-> p.number + 1, index |-> 0]
    ELSE [number |-> p.number, index |-> p.index + 1]

\* Messages of the host: the fragment at a place, or Message::Stop.
Fragment(s, p) == [session |-> s, place |-> p]
StopMessage == Fragment(0, Fresh)

\* Events of the receiver: only packets and connections use every field.
Event(kind, s, n) == [kind |-> kind, session |-> s, number |-> n]
Packet(s, n) == Event("packet", s, n)
Connected(s) == Event("connected", s, 0)
Lost == Event("lost", 0, 0)
Stopped == Event("stopped", 0, 0)
Failed == Event("failed", 0, 0)

\* The loop of the window ended and raised `stopping'; later it drops the queue.
stopping == main \in {"shut", "drop", "join", "over"}
QueueDropped == main \in {"join", "over"}

\* The first connection is made before the receiver exists.
Init ==
    /\ sock = [s \in Sockets |-> IF s = 1 THEN "open" ELSE "none"]
    /\ wire = <<>> /\ sent = Fresh /\ told = FALSE
    /\ net = "check" /\ stream = 1 /\ asm = Fresh /\ dialled = 0 /\ hand = Lost
    /\ queue = <<>>
    /\ watched = 1
    /\ main = "run"
    /\ receiving = 1 /\ discarded = 0 /\ session = 0 /\ fed = <<>>

\* shutdown(Both): nothing changes on a socket that is no longer open.
Shuts(s, how) ==
    sock' = [sock EXCEPT ![s] = IF sock[s] = "open" THEN how ELSE sock[s]]

-----------------------------------------------------------------------------
(* The host and the network.                                               *)

\* The socket that the host streams on, from the end of the handshake.
Live == IF net = "adopt" THEN dialled ELSE stream
Streaming == net \notin {"wait", "dial", "shake"} /\ sock[Live] = "open" /\ ~told

\* The next fragment of the stream.
HostSends ==
    /\ Streaming
    /\ sent.number < MaxUnits
    /\ Len(wire) < WireRoom
    /\ wire' = Append(wire, Fragment(Live, sent))
    /\ sent' = After(sent)
    /\ UNCHANGED <<sock, told, netVars, queue, watched, main, playerVars>>

\* A person stops the host, which says so between two units.
HostStops ==
    /\ Streaming
    /\ sent.index = 0
    /\ wire' = Append(wire, StopMessage)
    /\ told' = TRUE
    /\ UNCHANGED <<sock, sent, netVars, queue, watched, main, playerVars>>

\* The host closes, the network fails, or ten seconds pass without a message.
LinkFails(s) ==
    /\ sock[s] = "open"
    /\ Shuts(s, "shut")
    /\ UNCHANGED <<hostVars, netVars, queue, watched, main, playerVars>>

-----------------------------------------------------------------------------
(* receive: reading the stream.                                            *)

\* The event is to be queued; send_with_timeout waits for room.
Pushes(event) ==
    /\ hand' = event
    /\ net' = "push"

ReturnsStopping ==
    /\ net = "check"
    /\ stopping
    /\ net' = "done"
    /\ UNCHANGED <<sock, hostVars, stream, asm, dialled, hand, queue, watched, main, playerVars>>

GoesOnReading ==
    /\ net = "check"
    /\ ~stopping
    /\ net' = "read"
    /\ UNCHANGED <<sock, hostVars, stream, asm, dialled, hand, queue, watched, main, playerVars>>

\* An error that is not of the transport: it ends the client.
EndsForGood ==
    IF stopping
    THEN net' = "done" /\ UNCHANGED hand
    ELSE Pushes(Failed)

\* An error of the transport: the old socket is closed before any retry.
LosesStream ==
    IF stopping
    THEN net' = "done" /\ UNCHANGED <<sock, hand>>
    ELSE Pushes(Lost) /\ Shuts(stream, "shut")

\* Assembler::push takes the fragment.
Expected(m) == m = Fragment(stream, asm)
\* is_partial
Partial == asm.index > 0

ReadsFragment ==
    /\ net = "read"
    /\ wire # <<>> /\ Head(wire) # StopMessage
    /\ wire' = Tail(wire)
    /\ \/ /\ Expected(Head(wire)) /\ asm.index + 1 < Fragments
          /\ asm' = After(asm)
          /\ net' = "check"
          /\ UNCHANGED hand
       \/ /\ Expected(Head(wire)) /\ asm.index + 1 = Fragments
          /\ asm' = After(asm)
          /\ Pushes(Packet(stream, asm.number))
       \/ /\ ~Expected(Head(wire))
          /\ EndsForGood
          /\ UNCHANGED asm
    /\ UNCHANGED <<sock, sent, told, stream, dialled, queue, watched, main, playerVars>>

ReadsStop ==
    /\ net = "read"
    /\ wire # <<>> /\ Head(wire) = StopMessage
    /\ wire' = Tail(wire)
    /\ IF Partial THEN EndsForGood ELSE Pushes(Stopped)
    /\ UNCHANGED <<sock, sent, told, stream, asm, dialled, queue, watched, main, playerVars>>

\* What had arrived on a socket that was shut may be read or not.
ReadFails ==
    /\ net = "read"
    /\ sock[stream] # "open"
    /\ LosesStream
    /\ UNCHANGED <<hostVars, stream, asm, dialled, queue, watched, main, playerVars>>

\* Variant: the queue takes one event more than it has room for.
QueuesOneMore ==
    /\ net = "push"
    /\ ~QueueDropped
    /\ Len(queue) <= CAPACITY
    /\ queue' = Append(queue, hand)
    /\ \/ hand.kind \in {"packet", "connected"} /\ net' = "check"
       \/ hand.kind = "lost" /\ net' = "wait"
       \/ hand.kind \in {"stopped", "failed"} /\ net' = "done"
    /\ UNCHANGED <<sock, hostVars, stream, asm, dialled, hand, watched, main, playerVars>>

Queues ==
    /\ net = "push"
    /\ ~QueueDropped
    /\ Len(queue) < CAPACITY
    /\ queue' = Append(queue, hand)
    /\ \/ hand.kind \in {"packet", "connected"} /\ net' = "check"
       \/ hand.kind = "lost" /\ net' = "wait"
       \/ hand.kind \in {"stopped", "failed"} /\ net' = "done"
    /\ UNCHANGED <<sock, hostVars, stream, asm, dialled, hand, watched, main, playerVars>>

\* What becomes of an event that could not be queued.
GivesUp ==
    \/ hand.kind \in {"packet", "stopped"} /\ LosesStream
    \/ hand.kind \in {"lost", "connected"} /\ Pushes(Failed) /\ UNCHANGED sock
    \/ hand.kind = "failed" /\ net' = "done" /\ UNCHANGED <<hand, sock>>

\* The window took nothing for two seconds.
QueueTimesOut ==
    /\ net = "push"
    /\ ~QueueDropped /\ Len(queue) = CAPACITY
    /\ GivesUp
    /\ UNCHANGED <<hostVars, stream, asm, dialled, queue, watched, main, playerVars>>

FindsQueueDropped ==
    /\ net = "push"
    /\ QueueDropped
    /\ GivesUp
    /\ UNCHANGED <<hostVars, stream, asm, dialled, queue, watched, main, playerVars>>

-----------------------------------------------------------------------------
(* receive and connect_observed: connecting again.                         *)

\* Sockets are numbered in the order in which they are opened.
NextSocket(s) == sock[s] = "none" /\ \A t \in 1 .. s - 1 : sock[t] # "none"

WaitCancelled ==
    /\ net = "wait"
    /\ stopping
    /\ net' = "done"
    /\ UNCHANGED <<sock, hostVars, stream, asm, dialled, hand, queue, watched, main, playerVars>>

WaitEnds ==
    /\ net = "wait"
    /\ ~stopping
    /\ net' = "dial"
    /\ UNCHANGED <<sock, hostVars, stream, asm, dialled, hand, queue, watched, main, playerVars>>

\* open_socket found no host.
DialFails ==
    /\ net = "dial"
    /\ net' = "wait"
    /\ UNCHANGED <<sock, hostVars, stream, asm, dialled, hand, queue, watched, main, playerVars>>

\* Variant: the new socket is not published before the handshake.
AttachesUnwatched(s) ==
    /\ net = "dial"
    /\ NextSocket(s)
    /\ IF stopping
       THEN /\ sock' = [sock EXCEPT ![s] = "shut"]
            /\ net' = "wait"
            /\ UNCHANGED <<hostVars, dialled, watched>>
       ELSE /\ sock' = [sock EXCEPT ![s] = "open"]
            /\ wire' = <<>> /\ sent' = Fresh /\ told' = FALSE
            /\ dialled' = s
            /\ net' = "shake"
            /\ UNCHANGED watched
    /\ UNCHANGED <<stream, asm, hand, queue, main, playerVars>>

\* Under the lock, the new socket is published, or found to come too late.
Attaches(s) ==
    /\ net = "dial"
    /\ NextSocket(s)
    /\ IF stopping
       THEN /\ sock' = [sock EXCEPT ![s] = "shut"]
            /\ net' = "wait"
            /\ UNCHANGED <<hostVars, dialled, watched>>
       ELSE /\ sock' = [sock EXCEPT ![s] = "open"]
            /\ wire' = <<>> /\ sent' = Fresh /\ told' = FALSE
            /\ watched' = s /\ dialled' = s
            /\ net' = "shake"
    /\ UNCHANGED <<stream, asm, hand, queue, main, playerVars>>

\* The host admitted the device, both validated the link and Start arrived.
ShakeAgrees ==
    /\ net = "shake"
    /\ net' = "adopt"
    /\ UNCHANGED <<sock, hostVars, stream, asm, dialled, hand, queue, watched, main, playerVars>>

\* The device is no longer paired, the host reports an error, or it has
\* nothing to offer but another codec: it is not tried again.
ShakeRefused ==
    /\ net = "shake"
    /\ Pushes(Failed)
    /\ dialled' = 0
    /\ UNCHANGED <<sock, hostVars, stream, asm, queue, watched, main, playerVars>>

ShakeFails ==
    /\ net = "shake"
    /\ sock[dialled] # "open"
    /\ net' = "wait"
    /\ dialled' = 0
    /\ UNCHANGED <<sock, hostVars, stream, asm, hand, queue, watched, main, playerVars>>

\* Variant: the assembler of the lost session goes on.
AdoptsWithOldAssembler ==
    /\ net = "adopt"
    /\ IF stopping
       THEN net' = "done" /\ UNCHANGED <<watched, stream, asm, hand>>
       ELSE /\ watched' = dialled /\ stream' = dialled
            /\ Pushes(Connected(dialled))
            /\ UNCHANGED asm
    /\ dialled' = 0
    /\ UNCHANGED <<sock, hostVars, queue, main, playerVars>>

Adopts ==
    /\ net = "adopt"
    /\ IF stopping
       THEN net' = "done" /\ UNCHANGED <<watched, stream, asm, hand>>
       ELSE /\ watched' = dialled /\ stream' = dialled /\ asm' = Fresh
            /\ Pushes(Connected(dialled))
    /\ dialled' = 0
    /\ UNCHANGED <<sock, hostVars, queue, main, playerVars>>

-----------------------------------------------------------------------------
(* The loop of the window.                                                 *)

Taking(kind) ==
    /\ main = "run"
    /\ queue # <<>> /\ Head(queue).kind = kind
    /\ queue' = Tail(queue)

\* The packets of a session that was given up are not looked at, and a session
\* is entered only by its first unit, which is a keyframe.
SkipsPacket ==
    /\ Taking("packet")
    /\ LET e == Head(queue)
       IN  e.session = discarded \/ (e.session # session /\ e.number # 0)
    /\ UNCHANGED <<sock, hostVars, netVars, watched, main, playerVars>>

\* The decoder is reset when the session changes.
Decodes ==
    /\ Taking("packet")
    /\ LET e == Head(queue)
       IN  /\ e.session # discarded
           /\ e.session = session \/ e.number = 0
           /\ fed' = Append(IF e.session = session THEN fed ELSE <<>>, e)
           /\ session' = e.session
    /\ UNCHANGED <<sock, hostVars, netVars, watched, main, receiving, discarded>>

\* Variant: recovery shuts the socket that closing would shut.
RecoversWatched(s) ==
    /\ Shuts(watched, "reset")
    /\ discarded' = s /\ session' = 0 /\ fed' = <<>>

\* Variant: the session is given up and its socket left alone.
RecoversSilently(s) ==
    /\ UNCHANGED sock
    /\ discarded' = s /\ session' = 0 /\ fed' = <<>>

\* The session is given up; its socket is shut, so that the receiver connects
\* again.
Recovers(s) ==
    /\ IF receiving = s THEN Shuts(s, "reset") ELSE UNCHANGED sock
    /\ discarded' = s /\ session' = 0 /\ fed' = <<>>

\* Variant: a packet that is too old is left out and nothing else.
ExpiresAlone ==
    /\ Taking("packet")
    /\ Head(queue).session # discarded
    /\ UNCHANGED <<sock, hostVars, netVars, watched, main, playerVars>>

\* The packet is more than two seconds old.
Expires ==
    /\ Taking("packet")
    /\ Head(queue).session # discarded
    /\ Recovers(Head(queue).session)
    /\ UNCHANGED <<hostVars, netVars, watched, main, receiving>>

\* player.packet fails.
DecodeFails ==
    /\ Taking("packet")
    /\ Head(queue).session # discarded
    /\ Head(queue).session = session \/ Head(queue).number = 0
    /\ Recovers(Head(queue).session)
    /\ UNCHANGED <<hostVars, netVars, watched, main, receiving>>

TakesConnected ==
    /\ Taking("connected")
    /\ receiving' = Head(queue).session
    /\ discarded' = 0 /\ session' = 0 /\ fed' = <<>>
    /\ UNCHANGED <<sock, hostVars, netVars, watched, main>>

TakesLost ==
    /\ Taking("lost")
    /\ session' = 0 /\ fed' = <<>>
    /\ UNCHANGED <<sock, hostVars, netVars, watched, main, receiving, discarded>>

\* The host stopped, or the receiver failed for good.
TakesEnd ==
    /\ \E kind \in {"stopped", "failed"} : Taking(kind)
    /\ main' = "stop"
    /\ UNCHANGED <<sock, hostVars, netVars, watched, playerVars>>

\* The receiver ended without a word.
FindsDisconnected ==
    /\ main = "run"
    /\ queue = <<>> /\ net = "done"
    /\ main' = "stop"
    /\ UNCHANGED <<sock, hostVars, netVars, queue, watched, playerVars>>

\* The person closes the window, or the player fails.
Closes ==
    /\ main = "run"
    /\ main' = "stop"
    /\ UNCHANGED <<sock, hostVars, netVars, queue, watched, playerVars>>

RaisesStopping ==
    /\ main = "stop"
    /\ main' = "shut"
    /\ UNCHANGED <<sock, hostVars, netVars, queue, watched, playerVars>>

ShutsWatched ==
    /\ main = "shut"
    /\ Shuts(watched, "shut")
    /\ main' = "drop"
    /\ UNCHANGED <<hostVars, netVars, queue, watched, playerVars>>

DropsQueue ==
    /\ main = "drop"
    /\ main' = "join"
    /\ queue' = <<>>
    /\ UNCHANGED <<sock, hostVars, netVars, watched, playerVars>>

Joins ==
    /\ main = "join"
    /\ net = "done"
    /\ main' = "over"
    /\ UNCHANGED <<sock, hostVars, netVars, queue, watched, playerVars>>

-----------------------------------------------------------------------------
World ==
    \/ HostSends
    \/ HostStops
    \/ \E s \in Sockets : LinkFails(s)
    \/ Closes

\* What the receiver does without waiting for the host.
ReceiverStep ==
    \/ ReturnsStopping
    \/ GoesOnReading
    \/ ReadsFragment
    \/ ReadsStop
    \/ ReadFails
    \/ Queues
    \/ FindsQueueDropped
    \/ WaitCancelled
    \/ WaitEnds
    \/ DialFails
    \/ ShakeFails
    \/ Adopts

\* The host takes the connection and answers, or refuses.
HostAnswers ==
    \/ \E s \in Sockets : Attaches(s)
    \/ ShakeAgrees
    \/ ShakeRefused

WindowStep ==
    \/ SkipsPacket
    \/ Decodes
    \/ TakesConnected
    \/ TakesLost
    \/ TakesEnd
    \/ FindsDisconnected
    \/ RaisesStopping
    \/ ShutsWatched
    \/ DropsQueue
    \/ Joins

\* What slowness and bad data cause.
Mishap == QueueTimesOut \/ Expires \/ DecodeFails

Next == World \/ ReceiverStep \/ HostAnswers \/ WindowStep \/ Mishap

Spec == Init /\ [][Next]_vars

\* Both threads run; nothing is assumed of the host, the network and time-outs.
FairSpec ==
    /\ Spec
    /\ WF_vars(ReceiverStep)
    /\ WF_vars(WindowStep)

-----------------------------------------------------------------------------
Places == [number : Nat, index : 0 .. Fragments - 1]
Messages == [session : Sockets \cup {0}, place : Places]
Packets == [kind : {"packet"}, session : Sockets, number : Nat]
Events ==
    Packets \cup [kind : {"connected"}, session : Sockets, number : {0}]
            \cup {Lost, Stopped, Failed}

NetTypeOK ==
    /\ sock \in [Sockets -> {"none", "open", "shut", "reset"}]
    /\ wire \in Seq(Messages) /\ sent \in Places /\ told \in BOOLEAN
    /\ net \in {"check", "read", "push", "wait", "dial", "shake", "adopt", "done"}
    /\ stream \in Sockets /\ watched \in Sockets
    /\ dialled \in Sockets \cup {0}
    /\ dialled # 0 <=> net \in {"shake", "adopt"}
    /\ asm \in Places
    /\ hand \in Events

WindowTypeOK ==
    /\ queue \in Seq(Events) /\ Len(queue) <= CAPACITY
    /\ main \in {"run", "stop", "shut", "drop", "join", "over"}
    /\ receiving \in Sockets
    /\ discarded \in Sockets \cup {0} /\ session \in Sockets \cup {0}
    /\ fed \in Seq(Packets)

\* The types of the state of the two threads, and the bound of the queue.
TypeOK == NetTypeOK /\ WindowTypeOK

\* "Preserve encoded dependencies through brief stalls" (native.rs:71): since
\* its last reset the decoder got the units of one session from the first on,
\* without a gap, whatever expired, was refused or belonged to a lost session.
DecoderNeverGuesses ==
    \A i \in 1 .. Len(fed) : fed[i] = Packet(session, i - 1)

\* "Keep recovery tied to the session whose queued packets are being decoded.
\* The shared shutdown socket may already belong to a newer handshake"
\* (native.rs:44): a step that gives a session up resets no other socket.
RecoveryIsOwn ==
    [][\A s \in Sockets : sock[s] # "reset" /\ sock'[s] = "reset" => discarded' = s]_vars

\* Each connection restarts the counters (ADR 0014): what an honest host wrote
\* is what the assembler expects, after any number of reconnections, and Stop
\* never cuts a unit; so nothing it sends ends the client as a bad stream.
NothingUnexpected ==
    net \in {"check", "read"} /\ wire # <<>> =>
        \/ Expected(Head(wire))
        \/ Head(wire) = StopMessage /\ ~Partial

\* The publication of the new socket is coordinated so that closing at any
\* moment leaves no other connection alive (ADR 0014): the client ends although
\* no host answers and no time-out helps.
CloseEnds == main = "stop" ~> main = "over"

\* A session that was given up does not stay on the screen as a frozen picture:
\* its connection ends and the receiver goes on to the next, or the client ends.
RecoveryEnds ==
    \A s \in Sockets :
        discarded = s ~> stream # s \/ net \in {"wait", "dial", "shake", "done"}
=============================================================================
