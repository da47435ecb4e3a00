---------------------------- MODULE HostSession ----------------------------
(***************************************************************************)
(* The server loop of the host (run_server and serve in crates/            *)
(* windowdeck-host/src/main.rs), the probe of the connection (crates/      *)
(* windowdeck-protocol/src/connection.rs) and the handshake of the clients *)
(* (connect_observed in crates/windowdeck-client/src/main.rs).  Admission  *)
(* is the subject of Pairing: here every client is paired.  A connection   *)
(* is a queue of messages in each direction; the end of a side that closed *)
(* is seen unless the network lost it.  The pipeline behind the encoder is *)
(* abstracted to the units it sends and the ways in which it ends.         *)
(*                                                                         *)
(* Bounds: Rounds and Burst stand for PROBE_ROUNDS and BURST_PACKETS,      *)
(* Window for the buffers of a socket, MaxDials[c] connections of client c.    *)
(***************************************************************************)
EXTENDS Integers, Sequences

CONSTANTS
    Clients,    \* the devices
    Old,        \* those that predate the probe and the access units
    NoClient,   \* "no client"
    Route,      \* what the host was started to capture
    Rounds, Burst, Window, MaxDials

ASSUME OldAssumption == Old \subseteq Clients
ASSUME NoClientAssumption == NoClient \notin Clients
ASSUME RouteAssumption == Route \in {"auto", "cpu", "native", "mirror"}
ASSUME ProbeAssumption == Rounds \in Nat \ {0} /\ Burst \in Nat \ {0}

VARIABLES
    \* The host.
    phase,       \* where the server loop and serve are
    peer,        \* the client being served
    round,       \* rounds of the probe acknowledged
    packets,     \* packets of this round written
    stopFile,    \* WINDOWDECK_STOP_FILE
    panel,       \* the last windowdeck_state line
    short,       \* SessionHealth.short_failures
    activation,  \* SessionHealth.activation_started
    validation,  \* SessionHealth.validation_failed
    lease,       \* the virtual display: a lease, or the source that holds it
    encoder,     \* ffmpeg or the integrated encoder
    cause,       \* why the session is ending
    \* The clients and the network.
    cphase,      \* where connect_observed and the receiver are
    cround,      \* ProbeReceiver.round
    cpackets,    \* ProbeReceiver.packets
    up, down,    \* messages to the host and from it
    lossy,       \* connections whose packets no longer arrive
    \* History and bounds.
    answered,    \* rounds acknowledged on the connection the host serves
    spree,       \* short activations in a row that failed by themselves
    dials

lifeVars == <<stopFile, panel>>
healthVars == <<short, activation, validation, spree>>
displayVars == <<lease, encoder>>
probeVars == <<round, packets>>
hostVars == <<phase, peer, cause, probeVars, lifeVars, healthVars, displayVars>>
receiverVars == <<cround, cpackets, answered>>
clientVars == <<cphase, receiverVars, up, down, lossy, dials>>
vars == <<hostVars, clientVars>>

-----------------------------------------------------------------------------

Message(k, r) == [kind |-> k, round |-> r]
Hello == Message("Hello", 0)
Capabilities == Message("Capabilities", 0)
SessionConfig == Message("SessionConfig", 0)
Probe(r) == Message("ConnectionProbe", r)
Ping(r) == Message("Ping", r)
Pong(r) == Message("Pong", r)
Error2 == Message("Error", 0)
Start == Message("Start", 0)
Unit == Message("VideoChunk", 0)
Stop == Message("Stop", 0)

\* A client that knows no access units gets the MPEG-TS fallback of the CPU.
CaptureRoute == IF Route = "native" /\ peer \in Old THEN "cpu" ELSE Route

\* The client is on the connection that the host accepted last from it.
Attached(c) == cphase[c] \in {"hello", "config", "validate", "play"}

Room(c) == Len(down[c]) < Window
HostWrites(c, m) == down' = [down EXCEPT ![c] = Append(@, m)]
HostReads(c, m) ==
    /\ up[c] # <<>>
    /\ Head(up[c]) = m
    /\ up' = [up EXCEPT ![c] = Tail(@)]
ClientReads(c, m) ==
    /\ c \notin lossy
    /\ down[c] # <<>>
    /\ Head(down[c]) = m
    /\ down' = [down EXCEPT ![c] = Tail(@)]
ClientWrites(c, m) == up' = [up EXCEPT ![c] = Append(@, m)]

ClientGoes(c, to) == cphase' = [cphase EXCEPT ![c] = to]

\* The ProbeReceiver is a local of connect_observed.
ForgetProbe(c) ==
    /\ cround' = [cround EXCEPT ![c] = 0]
    /\ cpackets' = [cpackets EXCEPT ![c] = 0]
    /\ UNCHANGED answered

Init ==
    /\ phase = "accept" /\ peer = NoClient /\ cause = "none"
    /\ round = 0 /\ packets = 0
    /\ stopFile = "absent" /\ panel = "listening"
    /\ short = 0 /\ activation = "none" /\ validation = "passed" /\ spree = 0
    /\ lease = "none" /\ encoder = "none"
    /\ cphase = [c \in Clients |-> "idle"]
    /\ cround = [c \in Clients |-> 0]
    /\ cpackets = [c \in Clients |-> 0]
    /\ up = [c \in Clients |-> <<>>]
    /\ down = [c \in Clients |-> <<>>]
    /\ lossy = {}
    /\ answered = [c \in Clients |-> 0]
    /\ dials = [c \in Clients |-> 0]

-----------------------------------------------------------------------------
(* The host: accepting and negotiating.                                    *)

\* Variant: serve does not clear the verdict of the last validation.
AcceptKeepsVerdict(c) ==
    /\ phase = "accept"
    /\ stopFile = "absent"
    /\ cphase[c] = "queued"
    /\ phase' = "hello"
    /\ peer' = c
    /\ panel' = "negotiating"
    /\ round' = 0
    /\ packets' = 0
    /\ ClientGoes(c, "hello")
    /\ up' = [up EXCEPT ![c] = <<Hello>>]
    /\ down' = [down EXCEPT ![c] = <<>>]
    /\ lossy' = lossy \ {c}
    /\ answered' = [answered EXCEPT ![c] = 0]
    /\ UNCHANGED <<cause, stopFile, short, activation, validation, spree, displayVars,
                   cround, cpackets, dials>>

\* The secure handshake admits the client, which says hello at once.
Accept(c) ==
    /\ phase = "accept"
    /\ stopFile = "absent"
    /\ cphase[c] = "queued"
    /\ phase' = "hello"
    /\ peer' = c
    /\ panel' = "negotiating"
    /\ validation' = "passed"
    /\ round' = 0
    /\ packets' = 0
    /\ ClientGoes(c, "hello")
    /\ up' = [up EXCEPT ![c] = <<Hello>>]
    /\ down' = [down EXCEPT ![c] = <<>>]
    /\ lossy' = lossy \ {c}
    /\ answered' = [answered EXCEPT ![c] = 0]
    /\ UNCHANGED <<cause, stopFile, short, activation, spree, displayVars,
                   cround, cpackets, dials>>

\* A client of 0.4.0 is answered in clear and the loop goes on.
LegacyKnock ==
    /\ phase = "accept"
    /\ stopFile = "absent"
    /\ panel' = "legacy_client"
    /\ UNCHANGED <<phase, peer, cause, probeVars, stopFile, healthVars,
                   displayVars, clientVars>>

\* Variant: the lease is declared after the encoder, so it is dropped before it.
EndsDisplayFirst(why) ==
    /\ cause' = why
    /\ phase' = IF lease = "held" THEN "release"
                ELSE IF encoder = "running" THEN "reap" ELSE "ended"

\* serve returns: what it owns is dropped, the encoder before the display.
Ends(why) ==
    /\ cause' = why
    /\ phase' = IF encoder = "running" THEN "reap"
                ELSE IF lease = "held" THEN "release" ELSE "ended"

HostHello ==
    /\ phase = "hello"
    /\ Room(peer)
    /\ HostReads(peer, Hello)
    /\ HostWrites(peer, Hello)
    /\ phase' = "capabilities"
    /\ UNCHANGED <<peer, cause, probeVars, lifeVars, healthVars, displayVars,
                   cphase, receiverVars, lossy, dials>>

\* Variant: every client is probed, whatever it announced.
HostConfiguresAll ==
    /\ phase = "capabilities"
    /\ Room(peer)
    /\ HostReads(peer, Capabilities)
    /\ HostWrites(peer, SessionConfig)
    /\ IF peer = NoClient
       THEN phase' = "ready" /\ UNCHANGED panel
       ELSE phase' = "probe" /\ panel' = "validating"
    /\ UNCHANGED <<peer, cause, probeVars, stopFile, healthVars, displayVars,
                   cphase, receiverVars, lossy, dials>>

HostConfigures ==
    /\ phase = "capabilities"
    /\ Room(peer)
    /\ HostReads(peer, Capabilities)
    /\ HostWrites(peer, SessionConfig)
    /\ IF peer \in Old
       THEN phase' = "ready" /\ UNCHANGED panel
       ELSE phase' = "probe" /\ panel' = "validating"
    /\ UNCHANGED <<peer, cause, probeVars, stopFile, healthVars, displayVars,
                   cphase, receiverVars, lossy, dials>>

\* The formats do not fit, or there is no monitor of that index.
HostDeclines ==
    /\ phase = "capabilities"
    /\ HostReads(peer, Capabilities)
    /\ Ends("startup")
    /\ UNCHANGED <<peer, probeVars, lifeVars, healthVars, displayVars,
                   cphase, receiverVars, down, lossy, dials>>

-----------------------------------------------------------------------------
(* The host: connection::validate.                                         *)

\* Variant: one packet too many.
HostProbesOneMore ==
    /\ phase = "probe"
    /\ packets <= Burst
    /\ Room(peer)
    /\ HostWrites(peer, Probe(round))
    /\ packets' = packets + 1
    /\ UNCHANGED <<phase, peer, cause, round, lifeVars, healthVars, displayVars,
                   cphase, receiverVars, up, lossy, dials>>

HostProbes ==
    /\ phase = "probe"
    /\ packets < Burst
    /\ Room(peer)
    /\ HostWrites(peer, Probe(round))
    /\ packets' = packets + 1
    /\ UNCHANGED <<phase, peer, cause, round, lifeVars, healthVars, displayVars,
                   cphase, receiverVars, up, lossy, dials>>

HostPings ==
    /\ phase = "probe"
    /\ packets = Burst
    /\ Room(peer)
    /\ HostWrites(peer, Ping(round))
    /\ phase' = "pong"
    /\ UNCHANGED <<peer, cause, probeVars, lifeVars, healthVars, displayVars,
                   cphase, receiverVars, up, lossy, dials>>

\* Variant: the last round is left out.
HostTakesPongEarly ==
    /\ phase = "pong"
    /\ HostReads(peer, Pong(round))
    /\ round' = round + 1
    /\ packets' = 0
    /\ phase' = IF round + 2 < Rounds THEN "probe" ELSE "ready"
    /\ UNCHANGED <<peer, cause, lifeVars, healthVars, displayVars,
                   cphase, receiverVars, down, lossy, dials>>

HostTakesPong ==
    /\ phase = "pong"
    /\ HostReads(peer, Pong(round))
    /\ round' = round + 1
    /\ packets' = 0
    /\ phase' = IF round + 1 < Rounds THEN "probe" ELSE "ready"
    /\ UNCHANGED <<peer, cause, lifeVars, healthVars, displayVars,
                   cphase, receiverVars, down, lossy, dials>>

\* A deadline, the stop file, a closed connection: whatever the error, the
\* client is told code 2 if that can be written within 250 ms.  validate still
\* looks at the stop file and the deadlines after the last Pong.
ValidationFails ==
    /\ phase \in {"probe", "pong"} \/ (phase = "ready" /\ peer \notin Old)
    /\ validation' = "failed"
    /\ panel' = "validation_failed"
    /\ down' = IF Room(peer) THEN [down EXCEPT ![peer] = Append(@, Error2)] ELSE down
    /\ Ends("client")
    /\ UNCHANGED <<peer, probeVars, stopFile, short, activation, spree,
                   displayVars, cphase, receiverVars, up, lossy, dials>>

-----------------------------------------------------------------------------
(* The host: activation and streaming.                                     *)

HostActivates ==
    /\ phase = "ready"
    /\ stopFile = "absent"
    /\ activation' = "started"
    /\ panel' = "activating"
    /\ phase' = IF CaptureRoute = "auto" THEN "display" ELSE "start"
    /\ UNCHANGED <<peer, cause, probeVars, stopFile, short, validation, spree,
                   displayVars, clientVars>>

ReadyButStopped ==
    /\ phase = "ready"
    /\ stopFile = "present"
    /\ Ends("stop")
    /\ UNCHANGED <<peer, probeVars, lifeVars, healthVars, displayVars, clientVars>>

\* The lease precedes Start on the automatic route; the CPU source and the
\* GPU lease follow it.
AcquireDisplay ==
    /\ \/ phase = "display" /\ phase' = "start"
       \/ phase = "capture" /\ CaptureRoute \in {"cpu", "native"} /\ phase' = phase
    /\ lease = "none"
    /\ lease' = "held"
    /\ UNCHANGED <<peer, cause, probeVars, lifeVars, healthVars, encoder, clientVars>>

SendStart ==
    /\ phase = "start"
    /\ Room(peer)
    /\ HostWrites(peer, Start)
    /\ phase' = "capture"
    /\ UNCHANGED <<peer, cause, probeVars, lifeVars, healthVars, displayVars,
                   cphase, receiverVars, up, lossy, dials>>

SpawnEncoder ==
    /\ phase = "capture"
    /\ lease = "held" \/ CaptureRoute = "mirror"
    /\ encoder' = "running"
    /\ phase' = "stream"
    /\ UNCHANGED <<peer, cause, probeVars, lifeVars, healthVars, lease, clientVars>>

\* The broker, the monitor or ffmpeg does not come up.
StartupFails ==
    /\ phase \in {"display", "capture"}
    /\ Ends("startup")
    /\ UNCHANGED <<peer, probeVars, lifeVars, healthVars, displayVars, clientVars>>

\* Units are still sent for a while after the stop file appears: the loop of
\* the native route and the watchdog of the others look at it periodically.
SendUnit ==
    /\ phase = "stream"
    /\ Room(peer)
    /\ HostWrites(peer, Unit)
    /\ panel' = "streaming"
    /\ UNCHANGED <<phase, peer, cause, probeVars, stopFile, healthVars, displayVars,
                   cphase, receiverVars, up, lossy, dials>>

SendStop ==
    /\ phase = "stream"
    /\ stopFile = "present"
    /\ Room(peer)
    /\ HostWrites(peer, Stop)
    /\ Ends("stop")
    /\ UNCHANGED <<peer, probeVars, lifeVars, healthVars, displayVars,
                   cphase, receiverVars, up, lossy, dials>>

\* The encoder dies, stops producing or produces what is not H.264.  (The
\* removal of the monitor by a person, which ends it too, is left out.)
EncoderFails ==
    /\ phase = "stream"
    /\ Ends("encoder")
    /\ UNCHANGED <<peer, probeVars, lifeVars, healthVars, displayVars, clientVars>>

\* Variant: no write time-out, so a client that stops reading is waited for.
TimesOutReading ==
    /\ phase \in {"hello", "capabilities"} /\ Ends("client")
    /\ UNCHANGED <<peer, probeVars, lifeVars, healthVars, displayVars, clientVars>>

\* A read of ten seconds in the handshake, or a write that does not progress.
TimesOut ==
    /\ \/ phase \in {"hello", "capabilities"} /\ Ends("client")
       \/ phase \in {"start", "stream"} /\ ~Room(peer) /\ Ends("stall")
    /\ UNCHANGED <<peer, probeVars, lifeVars, healthVars, displayVars, clientVars>>

PeerGone ==
    /\ phase \in {"hello", "capabilities", "start", "stream"}
    /\ ~Attached(peer)
    /\ peer \notin lossy
    /\ Ends("client")
    /\ UNCHANGED <<peer, probeVars, lifeVars, healthVars, displayVars, clientVars>>

-----------------------------------------------------------------------------
(* The host: the end of a session.                                         *)

ReapEncoder ==
    /\ phase = "reap"
    /\ encoder' = "none"
    /\ phase' = IF lease = "held" THEN "release" ELSE "ended"
    /\ UNCHANGED <<peer, cause, probeVars, lifeVars, healthVars, lease, clientVars>>

ReleaseDisplay ==
    /\ phase = "release"
    /\ lease' = "none"
    /\ phase' = "ended"
    /\ UNCHANGED <<peer, cause, probeVars, lifeVars, healthVars, encoder, clientVars>>

\* Variant: the closing of a client is an error like any other.
CountsClosing(why, failed) ==
    /\ why \in {"startup", "stall", "client"} => failed
    /\ CaptureRoute = "native" =>
          (why = "encoder" => failed) /\ (why = "stop" => ~failed)

\* What startup_failure makes of the errors that stand for the cause.  The
\* death of ffmpeg is an UnexpectedEof to the queue behind it, as the closing
\* of a client is; other ends of it are errors.  After a stop, ffmpeg has been
\* killed: its status is an error unless the reader of its output met the
\* closed queue first.
Counts(why, failed) ==
    /\ why \in {"startup", "stall"} => failed
    /\ why = "client" => ~failed
    /\ CaptureRoute = "native" =>
          (why = "encoder" => failed) /\ (why = "stop" => ~failed)

\* Variant: a session that is never activated clears the counter too.
NextShortForgets(failed, quick) ==
    IF activation = "none" THEN 0
    ELSE IF failed /\ quick THEN short + 1 ELSE 0

\* SessionHealth::session_ended.
NextShort(failed, quick) ==
    IF activation = "none" THEN short
    ELSE IF failed /\ quick THEN short + 1 ELSE 0

FailedByItself(why) == why \in {"startup", "stall", "encoder"}

SessionEnded(failed, quick) ==
    /\ phase = "ended"
    /\ Counts(cause, failed)
    /\ short' = NextShort(failed, quick)
    /\ spree' = IF activation = "none" THEN spree
                ELSE IF FailedByItself(cause) /\ quick /\ spree < 3 THEN spree + 1
                ELSE IF FailedByItself(cause) /\ quick THEN spree ELSE 0
    /\ activation' = "none"
    /\ IF short' >= 3
       THEN phase' = "unstable" /\ panel' = "unstable"
       ELSE /\ phase' = "accept"
            /\ panel' = IF validation = "failed" THEN panel ELSE "listening"
    /\ peer' = NoClient
    /\ cause' = "none"
    /\ round' = 0
    /\ packets' = 0
    /\ up' = [up EXCEPT ![peer] = <<>>]
    /\ UNCHANGED <<stopFile, validation, displayVars,
                   cphase, receiverVars, down, lossy, dials>>

\* Variant: the loop of the unstable host does not look at the stop file.
HostStoppedListening ==
    /\ phase = "accept"
    /\ stopFile = "present"
    /\ phase' = "stopped"
    /\ panel' = "stopped"
    /\ UNCHANGED <<peer, cause, probeVars, stopFile, healthVars, displayVars,
                   clientVars>>

\* The loop sees the stop file, with or without a listener.
HostStopped ==
    /\ phase \in {"accept", "unstable"}
    /\ stopFile = "present"
    /\ phase' = "stopped"
    /\ panel' = "stopped"
    /\ UNCHANGED <<peer, cause, probeVars, stopFile, healthVars, displayVars,
                   clientVars>>

AskStop ==
    /\ stopFile = "absent"
    /\ stopFile' = "present"
    /\ UNCHANGED <<phase, peer, cause, probeVars, panel, healthVars, displayVars,
                   clientVars>>

-----------------------------------------------------------------------------
(* The clients.                                                            *)

\* The first connection, or the next of the retry loop.
Dial(c) ==
    /\ cphase[c] = "idle"
    /\ phase \notin {"unstable", "stopped"}
    /\ dials[c] < MaxDials[c]
    /\ ClientGoes(c, "queued")
    /\ dials' = [dials EXCEPT ![c] = @ + 1]
    /\ UNCHANGED <<hostVars, receiverVars, up, down, lossy>>

ClientCapabilities(c) ==
    /\ cphase[c] = "hello"
    /\ ClientReads(c, Hello)
    /\ ClientWrites(c, Capabilities)
    /\ ClientGoes(c, "config")
    /\ UNCHANGED <<hostVars, receiverVars, lossy, dials>>

ClientConfigured(c) ==
    /\ cphase[c] = "config"
    /\ ClientReads(c, SessionConfig)
    /\ ClientGoes(c, "validate")
    /\ ForgetProbe(c)
    /\ UNCHANGED <<hostVars, up, lossy, dials>>

\* ProbeReceiver::receive.
TakesProbe(c) ==
    /\ cphase[c] = "validate"
    /\ c \notin Old
    /\ cround[c] < Rounds
    /\ cpackets[c] < Burst
    /\ ClientReads(c, Probe(cround[c]))
    /\ cpackets' = [cpackets EXCEPT ![c] = @ + 1]
    /\ UNCHANGED <<hostVars, cphase, cround, answered, up, lossy, dials>>

TakesPing(c) ==
    /\ cphase[c] = "validate"
    /\ c \notin Old
    /\ cround[c] < Rounds
    /\ cpackets[c] = Burst
    /\ ClientReads(c, Ping(cround[c]))
    /\ ClientWrites(c, Pong(cround[c]))
    /\ cround' = [cround EXCEPT ![c] = @ + 1]
    /\ cpackets' = [cpackets EXCEPT ![c] = 0]
    /\ answered' = [answered EXCEPT ![c] = @ + 1]
    /\ UNCHANGED <<hostVars, cphase, lossy, dials>>

\* ProbeReceiver::finish lets hosts without the probe send Start at once.
TakesStart(c) ==
    /\ cphase[c] = "validate"
    /\ cpackets[c] = 0
    /\ cround[c] \in {0, Rounds}
    /\ ClientReads(c, Start)
    /\ ClientGoes(c, "play")
    /\ ForgetProbe(c)
    /\ UNCHANGED <<hostVars, up, lossy, dials>>

\* Code 2 becomes a time-out: the client tries again.
TakesError(c) ==
    /\ cphase[c] = "validate"
    /\ ClientReads(c, Error2)
    /\ ClientGoes(c, "idle")
    /\ ForgetProbe(c)
    /\ UNCHANGED <<hostVars, up, lossy, dials>>

TakesUnit(c) ==
    /\ cphase[c] = "play"
    /\ ClientReads(c, Unit)
    /\ UNCHANGED <<hostVars, cphase, receiverVars, up, lossy, dials>>

TakesStop(c) ==
    /\ cphase[c] = "play"
    /\ ClientReads(c, Stop)
    /\ ClientGoes(c, "finished")
    /\ UNCHANGED <<hostVars, receiverVars, up, lossy, dials>>

Understood(c, m) ==
    CASE cphase[c] = "hello" -> m = Hello
      [] cphase[c] = "config" -> m = SessionConfig
      [] cphase[c] = "validate" ->
            \/ m = Error2
            \/ m = Start /\ cpackets[c] = 0 /\ cround[c] \in {0, Rounds}
            \/ /\ c \notin Old
               /\ cround[c] < Rounds
               /\ \/ m = Probe(cround[c]) /\ cpackets[c] < Burst
                  \/ m = Ping(cround[c]) /\ cpackets[c] = Burst
      [] OTHER -> m \in {Unit, Stop}

\* Any other message is an error that no retry follows.
ClientRefuses(c) ==
    /\ Attached(c)
    /\ down[c] # <<>>
    /\ ~Understood(c, Head(down[c]))
    /\ ClientReads(c, Head(down[c]))
    /\ ClientGoes(c, "refused")
    /\ ForgetProbe(c)
    /\ UNCHANGED <<hostVars, up, lossy, dials>>

\* End of file, reset or time-out: transport_error, so the client retries.
ClientLost(c) ==
    /\ cphase[c] = "queued" \/ Attached(c)
    /\ ClientGoes(c, "idle")
    /\ ForgetProbe(c)
    /\ UNCHANGED <<hostVars, up, down, lossy, dials>>

ClientCloses(c) ==
    /\ cphase[c] \in {"idle", "queued"} \/ Attached(c)
    /\ ClientGoes(c, "closed")
    /\ ForgetProbe(c)
    /\ UNCHANGED <<hostVars, up, down, lossy, dials>>

\* The packets of the connection stop arriving, the close included.
LinkDies(c) ==
    /\ Attached(c)
    /\ lossy' = lossy \cup {c}
    /\ UNCHANGED <<hostVars, cphase, receiverVars, up, down, dials>>

-----------------------------------------------------------------------------

ServeStep ==
    \/ HostHello \/ HostConfigures \/ HostProbes \/ HostPings \/ HostTakesPong
    \/ ValidationFails \/ HostActivates \/ ReadyButStopped \/ AcquireDisplay
    \/ SendStart \/ SpawnEncoder \/ SendStop \/ TimesOut \/ PeerGone

ServeMishap == HostDeclines \/ StartupFails \/ EncoderFails

EndStep ==
    \/ ReapEncoder \/ ReleaseDisplay \/ HostStopped
    \/ \E failed, quick \in BOOLEAN : SessionEnded(failed, quick)

\* The client reads the next message, whatever it is.
ClientReceives(c) ==
    /\ Attached(c)
    /\ \/ ClientCapabilities(c) \/ ClientConfigured(c) \/ TakesProbe(c)
       \/ TakesPing(c) \/ TakesStart(c) \/ TakesError(c) \/ TakesUnit(c)
       \/ TakesStop(c) \/ ClientRefuses(c)

ClientStep(c) ==
    \/ Dial(c) \/ ClientReceives(c) \/ ClientLost(c) \/ ClientCloses(c) \/ LinkDies(c)

Next ==
    \/ LegacyKnock \/ AskStop
    \/ ServeStep \/ SendUnit \/ ServeMishap \/ EndStep
    \/ \E c \in Clients : Accept(c) \/ ClientStep(c)

Spec == Init /\ [][Next]_vars

\* Every read and write of serve has a time-out, every wait for a child a
\* deadline, and every loop looks at the stop file, however many units it sends.
\* An encoder that sends nothing is taken for stalled and ends the session,
\* which frees the display as well.
FairSpec == Spec /\ WF_vars(ServeStep \/ EndStep) /\ WF_vars(SendUnit)

-----------------------------------------------------------------------------
(* Properties.                                                             *)

Messages ==
    [kind : {"Hello", "Capabilities", "SessionConfig", "ConnectionProbe", "Ping",
             "Pong", "Error", "Start", "VideoChunk", "Stop"},
     round : Nat]

HostTypeOK ==
    /\ phase \in {"accept", "hello", "capabilities", "probe", "pong", "ready",
                  "display", "start", "capture", "stream", "reap", "release",
                  "ended", "unstable", "stopped"}
    /\ peer \in Clients \cup {NoClient}
    /\ peer = NoClient <=> phase \in {"accept", "unstable", "stopped"}
    /\ cause \in {"none", "client", "stop", "startup", "stall", "encoder"}
    /\ round \in 0 .. Rounds
    /\ packets \in 0 .. Burst
    /\ stopFile \in {"absent", "present"}
    /\ panel \in {"listening", "legacy_client", "negotiating", "validating",
                  "validation_failed", "activating", "streaming", "unstable",
                  "stopped"}
    /\ short \in 0 .. 3
    /\ spree \in 0 .. 3
    /\ activation \in {"none", "started"}
    /\ validation \in {"passed", "failed"}
    /\ lease \in {"none", "held"}
    /\ encoder \in {"none", "running"}

ClientTypeOK ==
    /\ cphase \in [Clients -> {"idle", "queued", "hello", "config", "validate",
                               "play", "finished", "refused", "closed"}]
    /\ cround \in [Clients -> 0 .. Rounds]
    /\ cpackets \in [Clients -> 0 .. Burst]
    /\ up \in [Clients -> Seq(Messages)]
    /\ down \in [Clients -> Seq(Messages)]
    /\ lossy \subseteq Clients
    /\ answered \in [Clients -> 0 .. Rounds]
    /\ dials \in [Clients -> Nat]

\* The types of the state of the host, of the clients and of the network.
TypeOK == HostTypeOK /\ ClientTypeOK

\* "No capture helper, encoder or display lease may start before this point"
\* (main.rs:424): while a display or an encoder is there, the client being
\* served acknowledged every round of the probe on this very connection, or
\* is one that predates the probe.
ActivationIsValidated ==
    activation = "started" \/ lease = "held" \/ encoder = "running"
        => peer \in Old \/ answered[peer] = Rounds

\* The display covers the life of the encoder, and neither outlives the
\* session: a capture never falls back to the physical screen, and a host
\* that waits for a client shows no virtual monitor (serve, DisplayLease and
\* EncoderProcess).
DisplayCoversEncoder ==
    /\ encoder = "running" => lease = "held" \/ CaptureRoute = "mirror"
    /\ phase \in {"accept", "unstable", "stopped"} => lease = "none" /\ encoder = "none"

\* Whatever the interleaving of deadlines, losses and stops, an honest client
\* meets no message that its handshake, its ProbeReceiver or its receiver
\* takes for a protocol error, after which it would not try again.
HonestEndsAgree == \A c \in Clients : cphase[c] # "refused"

\* The panel follows the host: it never shows a session while the host waits,
\* it keeps the reason of a failed validation until the next session (or an
\* old client) replaces it, and it shows video only with an encoder's session.
PanelFollowsHost ==
    /\ phase = "accept" =>
          panel \in {"legacy_client"} \cup
                    (IF validation = "failed" THEN {"validation_failed"} ELSE {"listening"})
    /\ panel = "streaming" => phase \in {"stream", "reap", "release", "ended"}
    /\ phase \in {"unstable", "stopped"} => panel = phase

\* docs/adr/0020-connection-validation.md:54-60: after three failures in a row,
\* of startup or by a stall, in sessions shorter than thirty seconds, the host
\* no longer listens.
StormIsHalted == spree >= 3 => phase \in {"unstable", "stopped"}

\* The host stops listening for nothing less: a closed client, a rejected
\* validation, a normal end or a stable session does not count.
HaltIsEarned == phase = "unstable" => spree >= 3

\* A host that is told to stop ends, whatever it is doing (stop_requested).
StopIsObeyed == stopFile = "present" ~> phase = "stopped"

\* The display of a client that went away is removed, even if the network
\* hides the closing of the connection.
GoneClientFreesDisplay ==
    \A c \in Clients :
        (peer = c /\ ~Attached(c)) ~> (peer # c /\ lease = "none")
=============================================================================
