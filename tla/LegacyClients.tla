--------------------------- MODULE LegacyClients ---------------------------
(***************************************************************************)
(* The two other clients of windowdeck-client/src/main.rs, from their      *)
(* first connection on: "ffplay", which forwards the chunks of MPEG-TS to  *)
(* a player that is a process of its own, and "rgb332", which shows the    *)
(* frames of the diagnostic routes in a window.  Each has a main thread,   *)
(* which watches the player or runs the window, and a worker, which reads  *)
(* the stream and connects again.                                          *)
(***************************************************************************)
EXTENDS LegacyState

CONSTANTS
    Routes,     \* the clients of this instance: "ffplay", "rgb332"
    MaxFrames   \* bound: chunks or frames that the host sends in a session

ASSUME RoutesAssumption == Routes \subseteq {"ffplay", "rgb332"}
ASSUME BoundsAssumption ==
    MaxFrames \in Nat /\ WireRoom \in Nat /\ MaxSockets \in Nat \ {0}

VARIABLE
    stopping    \* the flag that the threads share

hostVars == <<wire, sent, told, refused>>
netVars == <<net, stream, dialled, hand, chunks, result>>
windowVars == <<latest, events, shown>>
mainVars == <<main, stopping, player, outcome>>
vars == <<route, sock, hostVars, netVars, watched, mainVars, windowVars>>

\* Messages of the host: a chunk or frame of a session, or the end of one.
Frame(s, k) == [session |-> s, number |-> k]
StopMessage == Frame(0, 0)
ErrorMessage == Frame(0, 1)

Init ==
    /\ route \in Routes
    /\ sock = [s \in Sockets |-> IF s = 1 THEN "open" ELSE "none"]
    /\ wire = <<>> /\ sent = 0 /\ told = FALSE /\ refused = FALSE
    /\ net = "read" /\ stream = 1 /\ dialled = 0 /\ hand = Frame(1, 0)
    /\ chunks = 0 /\ result = "none"
    /\ main = "run" /\ stopping = FALSE /\ watched = 1
    /\ player = "open" /\ outcome = "none"
    /\ latest = 0 /\ events = <<>> /\ shown = 0

Shuts(s) == sock' = [sock EXCEPT ![s] = IF sock[s] = "open" THEN "shut" ELSE sock[s]]

-----------------------------------------------------------------------------
(* The host and the network *)

\* The socket that the host streams on, from the end of the handshake.
Live == IF net = "adopt" THEN dialled ELSE stream
Streaming == net \notin {"wait", "dial", "shake"} /\ sock[Live] = "open" /\ ~told

HostSends ==
    /\ Streaming
    /\ sent < MaxFrames /\ Len(wire) < WireRoom
    /\ wire' = Append(wire, Frame(Live, sent))
    /\ sent' = sent + 1
    /\ UNCHANGED <<route, sock, told, refused, netVars, watched, mainVars, windowVars>>

HostEnds(message) ==
    /\ Streaming
    /\ wire' = Append(wire, message)
    /\ told' = TRUE
    /\ refused' = (refused \/ message = ErrorMessage)
    /\ UNCHANGED <<route, sock, sent, netVars, watched, mainVars, windowVars>>

\* The host closes, the network fails, ten seconds pass without a message, or
\* the answer to a Ping cannot be written for as long.
LinkFails(s) ==
    /\ sock[s] = "open"
    /\ Shuts(s)
    /\ UNCHANGED <<route, hostVars, netVars, watched, mainVars, windowVars>>

-----------------------------------------------------------------------------
(* The worker: reading *)

\* The worker returns.  Once `stopping' is set, whatever the reading, the wait or
\* the adoption of a player's worker ends with is not an error.
Returns(r) ==
    /\ net' = "done"
    /\ result' = IF route = "ffplay" /\ stopping THEN "ok" ELSE r

\* An event for the window, of the session of a socket.
Event(kind, s) == [kind |-> kind, session |-> s]
Sends(kind, s) == events' = Append(events, Event(kind, s))

\* forward_h264 takes the chunk; its number restarts with each session.
Expected(m) == m.session = stream /\ m.number = chunks

ReadsChunk ==
    /\ route = "ffplay" /\ net = "read"
    /\ wire # <<>> /\ Head(wire).session # 0
    /\ wire' = Tail(wire)
    /\ IF Expected(Head(wire))
       THEN net' = "write" /\ hand' = Head(wire) /\ UNCHANGED result
       ELSE Returns("failed") /\ UNCHANGED hand
    /\ UNCHANGED <<route, sock, sent, told, refused, stream, dialled, chunks, watched>>
    /\ UNCHANGED <<mainVars, windowVars>>

\* The player takes the chunk, or is gone: "the player closed its pipe".
WritesChunk ==
    /\ net = "write" /\ player = "open"
    /\ net' = "read"
    /\ chunks' = chunks + 1
    /\ UNCHANGED <<route, sock, hostVars, stream, dialled, hand, result, watched>>
    /\ UNCHANGED <<mainVars, windowVars>>

FindsPipeClosed ==
    /\ net = "write" /\ player # "open"
    /\ Returns("ok")
    /\ UNCHANGED <<route, sock, hostVars, stream, dialled, hand, chunks, watched>>
    /\ UNCHANGED <<mainVars, windowVars>>

\* receive_frames
ReadsFrame ==
    /\ route = "rgb332" /\ net = "read"
    /\ wire # <<>> /\ Head(wire).session # 0
    /\ wire' = Tail(wire)
    /\ IF Head(wire).session = stream
       THEN net' = "replace" /\ hand' = Head(wire) /\ UNCHANGED <<result, events>>
       ELSE Returns("failed") /\ Sends("failed", stream) /\ UNCHANGED hand
    /\ UNCHANGED <<route, sock, sent, told, refused, stream, dialled, chunks, watched>>
    /\ UNCHANGED <<mainVars, latest, shown>>

\* Variant: the window is told when the slot was taken.
NotifiesTaken ==
    /\ net = "replace"
    /\ latest' = hand.number + 1
    /\ net' = IF latest # 0 THEN "notify" ELSE "read"
    /\ UNCHANGED <<route, sock, hostVars, stream, dialled, hand, chunks, result, watched>>
    /\ UNCHANGED <<mainVars, events, shown>>

\* The newest frame replaces one that the window has not taken, which is told
\* of it only if there was none.
Replaces ==
    /\ net = "replace"
    /\ latest' = hand.number + 1
    /\ net' = IF latest = 0 THEN "notify" ELSE "read"
    /\ UNCHANGED <<route, sock, hostVars, stream, dialled, hand, chunks, result, watched>>
    /\ UNCHANGED <<mainVars, events, shown>>

Notifies ==
    /\ net = "notify"
    /\ Sends("frame", stream)
    /\ net' = "read"
    /\ UNCHANGED <<route, sock, hostVars, stream, dialled, hand, chunks, result, watched>>
    /\ UNCHANGED <<mainVars, latest, shown>>

\* Stop ends both; an error of the host, too.
ReadsEnd ==
    /\ route = "ffplay" /\ net = "read"
    /\ wire # <<>> /\ Head(wire).session = 0
    /\ wire' = Tail(wire)
    /\ Returns(IF Head(wire) = StopMessage THEN "ok" ELSE "failed")
    /\ UNCHANGED <<route, sock, sent, told, refused, stream, dialled, hand, chunks>>
    /\ UNCHANGED <<watched, mainVars, windowVars>>

PassesEnd ==
    /\ route = "rgb332" /\ net = "read"
    /\ wire # <<>> /\ Head(wire).session = 0
    /\ wire' = Tail(wire)
    /\ \/ Head(wire) = StopMessage /\ Returns("ok") /\ Sends("stopped", stream)
       \/ Head(wire) = ErrorMessage /\ Returns("failed") /\ Sends("failed", stream)
    /\ UNCHANGED <<route, sock, sent, told, refused, stream, dialled, hand, chunks>>
    /\ UNCHANGED <<watched, mainVars, latest, shown>>

\* What had arrived on a socket that was shut may be read or not.
ReadFails ==
    /\ route = "ffplay" /\ net = "read" /\ sock[stream] # "open"
    /\ IF stopping THEN Returns("ok") ELSE net' = "wait" /\ UNCHANGED result
    /\ UNCHANGED <<route, sock, hostVars, stream, dialled, hand, chunks, watched>>
    /\ UNCHANGED <<mainVars, windowVars>>

\* A read fails, or the write of a Pong.  The window is told, which changes its
\* title.
Disconnects ==
    /\ route = "rgb332" /\ net = "read" /\ sock[stream] # "open"
    /\ net' = "wait"
    /\ UNCHANGED <<route, sock, hostVars, stream, dialled, hand, chunks, result, watched>>
    /\ UNCHANGED <<mainVars, windowVars>>

-----------------------------------------------------------------------------
(* The worker: connecting again *)

NextSocket(s) == sock[s] = "none" /\ \A t \in 1 .. s - 1 : sock[t] # "none"

\* Variant: `stopping' is not looked at.
WaitsOut ==
    /\ net = "wait"
    /\ net' = "dial"
    /\ UNCHANGED <<route, sock, hostVars, stream, dialled, hand, chunks, result, watched>>
    /\ UNCHANGED <<mainVars, windowVars>>

WaitEnds ==
    /\ net = "wait"
    /\ IF stopping THEN Returns("ok") ELSE net' = "dial" /\ UNCHANGED result
    /\ UNCHANGED <<route, sock, hostVars, stream, dialled, hand, chunks, watched>>
    /\ UNCHANGED <<mainVars, windowVars>>

DialFails ==
    /\ net = "dial"
    /\ net' = "wait"
    /\ UNCHANGED <<route, sock, hostVars, stream, dialled, hand, chunks, result, watched>>
    /\ UNCHANGED <<mainVars, windowVars>>

\* connect_observed: with an observer the new socket is published under the lock,
\* or found to come too late; the one with a window has no observer.
Attaches(s) ==
    /\ net = "dial" /\ NextSocket(s)
    /\ IF route = "ffplay" /\ stopping
       THEN /\ sock' = [sock EXCEPT ![s] = "shut"]
            /\ net' = "wait"
            /\ UNCHANGED <<wire, sent, told, dialled, watched>>
       ELSE /\ sock' = [sock EXCEPT ![s] = "open"]
            /\ wire' = <<>> /\ sent' = 0 /\ told' = FALSE
            /\ watched' = IF route = "ffplay" THEN s ELSE watched
            /\ dialled' = s
            /\ net' = "shake"
    /\ UNCHANGED <<route, refused, stream, hand, chunks, result, mainVars, windowVars>>

ShakeAgrees ==
    /\ net = "shake" /\ sock[dialled] = "open"
    /\ net' = "adopt"
    /\ UNCHANGED <<route, sock, hostVars, stream, dialled, hand, chunks, result, watched>>
    /\ UNCHANGED <<mainVars, windowVars>>

\* The host says an error, or does not know the device: the one with a player
\* ends with that error, even if it was stopping; the one with a window goes on
\* trying in the first case.
ShakeRefused ==
    /\ route = "ffplay" /\ net = "shake"
    /\ refused' = TRUE
    /\ net' = "done" /\ result' = "failed"
    /\ Shuts(dialled) /\ dialled' = 0
    /\ UNCHANGED <<route, wire, sent, told, stream, hand, chunks, watched>>
    /\ UNCHANGED <<mainVars, windowVars>>

ShakeUnpaired ==
    /\ route = "rgb332" /\ net = "shake"
    /\ refused' = TRUE
    /\ \/ Returns("failed") /\ Sends("failed", dialled)
       \/ net' = "wait" /\ UNCHANGED <<result, events>>
    /\ Shuts(dialled) /\ dialled' = 0
    /\ UNCHANGED <<route, wire, sent, told, stream, hand, chunks, watched>>
    /\ UNCHANGED <<mainVars, latest, shown>>

\* The connection or one of its deadlines ends.
ShakeFails ==
    /\ net = "shake"
    /\ Shuts(dialled)
    /\ net' = "wait" /\ dialled' = 0
    /\ UNCHANGED <<route, hostVars, stream, hand, chunks, result, watched>>
    /\ UNCHANGED <<mainVars, windowVars>>

\* Variant: forward_h264 goes on counting.
AdoptsWithOldCount ==
    /\ route = "ffplay" /\ net = "adopt"
    /\ IF stopping
       THEN Returns("ok") /\ UNCHANGED <<watched, stream>>
       ELSE watched' = dialled /\ stream' = dialled /\ net' = "read" /\ UNCHANGED result
    /\ dialled' = 0
    /\ UNCHANGED <<route, sock, hostVars, hand, chunks, mainVars, windowVars>>

\* The new session; `stopping' is looked at again under the lock.
Adopts ==
    /\ route = "ffplay" /\ net = "adopt"
    /\ IF stopping
       THEN Returns("ok") /\ UNCHANGED <<watched, stream, chunks>>
       ELSE /\ watched' = dialled /\ stream' = dialled /\ chunks' = 0
            /\ net' = "read" /\ UNCHANGED result
    /\ dialled' = 0
    /\ UNCHANGED <<route, sock, hostVars, hand, mainVars, windowVars>>

\* The window learns of the new socket by an event; `stopping' is not looked at.
Announces ==
    /\ route = "rgb332" /\ net = "adopt"
    /\ Sends("reconnected", dialled)
    /\ stream' = dialled /\ net' = "read"
    /\ dialled' = 0
    /\ UNCHANGED <<route, sock, hostVars, hand, chunks, result, watched, mainVars, latest>>
    /\ UNCHANGED shown

-----------------------------------------------------------------------------
(* The player *)

\* Its window is closed, or it dies.
PlayerEnds ==
    /\ route = "ffplay" /\ player = "open"
    /\ player' \in {"closed", "crashed"}
    /\ UNCHANGED <<route, sock, hostVars, netVars, watched, main, stopping, outcome>>
    /\ UNCHANGED windowVars

\* -autoexit: its input ends with the worker.
PlayerDrains ==
    /\ route = "ffplay" /\ player = "open" /\ net = "done"
    /\ player' = "closed"
    /\ UNCHANGED <<route, sock, hostVars, netVars, watched, main, stopping, outcome>>
    /\ UNCHANGED windowVars

-----------------------------------------------------------------------------
(* The main thread *)

\* play_legacy: the worker is over, or else the player.
SeesWorkerOver ==
    /\ route = "ffplay" /\ main = "run" /\ net = "done"
    /\ main' = "join"
    /\ UNCHANGED <<route, sock, hostVars, netVars, watched, stopping, player, outcome>>
    /\ UNCHANGED windowVars

SeesPlayerOver ==
    /\ route = "ffplay" /\ main = "run" /\ player # "open"
    /\ main' = "store"
    /\ UNCHANGED <<route, sock, hostVars, netVars, watched, stopping, player, outcome>>
    /\ UNCHANGED windowVars

\* The loop of the window, App::user_event: FrameReady is taken from the queue
\* before the lock of the slot.
TakesEvent ==
    /\ main = "run" /\ events # <<>>
    /\ events' = Tail(events)
    /\ LET e == Head(events)
       IN  /\ main' = CASE e.kind = "frame" -> "take"
                        [] e.kind \in {"failed", "stopped"} -> "store"
                        [] e.kind = "reconnected" -> "run"
           /\ watched' = IF e.kind = "reconnected" THEN e.session ELSE watched
    /\ UNCHANGED <<route, sock, hostVars, netVars, stopping, player, outcome, latest, shown>>

TakesFrame ==
    /\ main = "take"
    /\ shown' = IF latest # 0 THEN latest ELSE shown
    /\ latest' = 0
    /\ main' = "run"
    /\ UNCHANGED <<route, sock, hostVars, netVars, watched, stopping, player, outcome>>
    /\ UNCHANGED events

\* App::resumed: the window or its surface cannot be made.
OpenFails ==
    /\ route = "rgb332" /\ main = "run" /\ shown = 0
    /\ main' = "store"
    /\ UNCHANGED <<route, sock, hostVars, netVars, watched, stopping, player, outcome>>
    /\ UNCHANGED windowVars

\* App::redraw: there is a frame, and it cannot be drawn or presented.
DrawFails ==
    /\ route = "rgb332" /\ main = "run" /\ shown # 0
    /\ main' = "store"
    /\ UNCHANGED <<route, sock, hostVars, netVars, watched, stopping, player, outcome>>
    /\ UNCHANGED windowVars

\* The window's cross.
WindowCloses ==
    /\ route = "rgb332" /\ main = "run"
    /\ main' = "store"
    /\ UNCHANGED <<route, sock, hostVars, netVars, watched, stopping, player, outcome>>
    /\ UNCHANGED windowVars

\* play_legacy, App::stop.
RaisesStopping ==
    /\ main = "store"
    /\ stopping' = TRUE
    /\ main' = "shut"
    /\ UNCHANGED <<route, sock, hostVars, netVars, watched, player, outcome, windowVars>>

ShutsWatched ==
    /\ main = "shut"
    /\ Shuts(watched)
    /\ main' = "join"
    /\ UNCHANGED <<route, hostVars, netVars, watched, stopping, player, outcome, windowVars>>

\* The worker is joined, and the player waited for.  The window's client reports
\* no error of the stream when it ends.
Joins ==
    /\ main = "join" /\ net = "done"
    /\ route = "ffplay" => player # "open"
    /\ main' = "over"
    /\ outcome' = IF route = "rgb332" THEN "ok"
                  ELSE IF player = "crashed" THEN "failed" ELSE result
    /\ UNCHANGED <<route, sock, hostVars, netVars, watched, stopping, player, windowVars>>

-----------------------------------------------------------------------------
WorkerStep ==
    \/ ReadsChunk \/ FindsPipeClosed \/ ReadsFrame \/ Replaces \/ Notifies \/ ReadsEnd
    \/ PassesEnd \/ ReadFails \/ Disconnects \/ WaitEnds \/ DialFails \/ ShakeFails
    \/ Adopts \/ Announces

MainStep ==
    \/ SeesWorkerOver \/ SeesPlayerOver \/ TakesEvent \/ TakesFrame
    \/ RaisesStopping \/ ShutsWatched \/ Joins

HostStep ==
    \/ HostSends \/ HostEnds(StopMessage) \/ HostEnds(ErrorMessage)
    \/ \E s \in Sockets : LinkFails(s) \/ Attaches(s)
    \/ ShakeAgrees \/ ShakeRefused \/ ShakeUnpaired

\* What ends the player or the window, and then the client.
Ending == PlayerEnds \/ WindowCloses \/ DrawFails \/ OpenFails

Next == WorkerStep \/ MainStep \/ HostStep \/ Ending \/ WritesChunk \/ PlayerDrains

Spec == Init /\ [][Next]_vars

\* The threads are scheduled, the deadlines of a handshake pass, and ffplay exits
\* at the end of its input.  Nothing is assumed of the host, nor of a player that
\* does not take what it is sent.
FairSpec ==
    /\ Spec
    /\ WF_vars(WorkerStep) /\ WF_vars(MainStep) /\ WF_vars(PlayerDrains)

-----------------------------------------------------------------------------
\* The type invariant.
TypeOK ==
    /\ route \in Routes
    /\ sock \in [Sockets -> {"none", "open", "shut"}]
    /\ wire \in Seq([session : 0 .. MaxSockets, number : Nat])
    /\ sent \in 0 .. MaxFrames /\ told \in BOOLEAN /\ refused \in BOOLEAN
    /\ net \in {"read", "write", "replace", "notify", "wait", "dial", "shake", "adopt",
                "done"}
    /\ stream \in Sockets /\ watched \in Sockets
    /\ dialled \in 0 .. MaxSockets /\ (dialled # 0 <=> net \in {"shake", "adopt"})
    /\ hand \in [session : Sockets, number : Nat]
    /\ chunks \in Nat /\ result \in {"none", "ok", "failed"}
    /\ main \in {"run", "take", "store", "shut", "join", "over"}
    /\ stopping \in BOOLEAN /\ player \in {"open", "closed", "crashed"}
    /\ outcome \in {"none", "ok", "failed"}
    /\ latest \in Nat /\ shown \in Nat
    /\ events \in Seq([kind : {"frame", "failed", "stopped", "reconnected"},
                       session : Sockets])

\* Closing ends the client whatever the worker is doing: "Closing must also
\* interrupt the encrypted handshake" (connect_observed), and the retry.  The
\* client with the window connects without an observer and does not look at
\* `stopping' after the handshake: a session that it began while it was closed,
\* or of which the window has not heard, goes on as long as the host streams.
CloseEnds ==
    main = "store" ~>
        \/ main = "over"
        \/ /\ route = "rgb332" /\ stream # watched
           /\ net \in {"read", "replace", "notify"}
=============================================================================
