------------------------- MODULE HostSessionProofs -------------------------
(***************************************************************************)
(* Invariants of HostSession, for any clients, any route, any number of    *)
(* rounds and packets of the probe and any buffers.  The last section      *)
(* proves that honest ends agree, from what may be in both queues for each *)
(* pair of places of the two ends (PathInv).                               *)
(***************************************************************************)
EXTENDS HostSession, TLAPS

LEMMA MessagesHaveTheirType ==
    /\ {Hello, Capabilities, SessionConfig, Error2, Start, Unit, Stop} \subseteq Messages
    /\ \A r \in Nat : {Probe(r), Ping(r), Pong(r)} \subseteq Messages
  BY DEF Messages, Message, Hello, Capabilities, SessionConfig, Error2, Start,
     Unit, Stop, Probe, Ping, Pong

\* Writing to a queue and reading from it keep its type.
LEMMA QueuesKeepTheirType ==
    ASSUME NEW q \in [Clients -> Seq(Messages)], NEW c \in Clients
    PROVE  /\ \A m \in Messages : [q EXCEPT ![c] = Append(@, m)] \in [Clients -> Seq(Messages)]
           /\ q[c] # <<>> => [q EXCEPT ![c] = Tail(@)] \in [Clients -> Seq(Messages)]
           /\ [q EXCEPT ![c] = <<>>] \in [Clients -> Seq(Messages)]
           /\ \A m \in Messages : [q EXCEPT ![c] = <<m>>] \in [Clients -> Seq(Messages)]
  OBVIOUS

-----------------------------------------------------------------------------
(* The state of the host.  What its phases say of the rest of it: the      *)
(* display and the encoder exist only between the activation and the end   *)
(* of a session, and nothing is activated before the last round.           *)

Waiting == {"accept", "unstable", "stopped"}
Streaming == {"stream", "reap"}
Activated == {"display", "start", "capture", "stream", "reap", "release", "ended"}
Validated == {"ready", "display", "start", "capture", "stream", "reap", "release"}

HostInv ==
    /\ HostTypeOK
    /\ phase \notin {"unstable", "stopped"} => short < 3
    /\ phase \in {"hello", "capabilities"} => round = 0
    /\ phase \in {"probe", "pong"} => round < Rounds /\ peer \notin Old
    /\ phase \in Validated => peer \in Old \/ round = Rounds
    /\ activation = "started" => phase \in Activated
    /\ phase = "ended" /\ activation = "started" => peer \in Old \/ round = Rounds
    /\ phase \in {"display", "start", "capture"} \cup Streaming => activation = "started"
    /\ encoder = "running" <=> phase \in Streaming
    /\ lease = "held" => phase \in {"start", "capture", "stream", "reap", "release"}
    /\ phase \in Streaming => lease = "held" \/ CaptureRoute = "mirror"

LEMMA HostInit == Init => HostInv
  BY NoClientAssumption, ProbeAssumption
  DEF Init, HostInv, HostTypeOK, Waiting, Streaming, Activated, Validated

LEMMA HostKept == HostInv /\ UNCHANGED hostVars => HostInv'
  BY DEF HostInv, HostTypeOK, hostVars, probeVars, lifeVars, healthVars,
     displayVars, Waiting, Streaming, Activated, Validated, CaptureRoute

\* Each step of the host keeps it.
LEMMA HostStep == HostInv /\ Next => HostInv'
  <1> SUFFICES ASSUME HostInv, Next PROVE HostInv'
    OBVIOUS
  <1>1. \A c \in Clients : Accept(c) => HostInv'
    BY NoClientAssumption, ProbeAssumption DEF Accept, HostInv, HostTypeOK, Waiting, Streaming, Activated,
       Validated, CaptureRoute, probeVars, lifeVars, healthVars, displayVars
  <1>2. LegacyKnock => HostInv'
    BY DEF LegacyKnock, HostInv, HostTypeOK, Waiting, Streaming, Activated,
       Validated, CaptureRoute, probeVars, lifeVars, healthVars, displayVars
  <1>3. HostHello => HostInv'
    BY DEF HostHello, HostInv, HostTypeOK, Waiting, Streaming, Activated,
       Validated, CaptureRoute, probeVars, lifeVars, healthVars, displayVars
  <1>4. HostConfigures => HostInv'
    BY ProbeAssumption DEF HostConfigures, HostInv, HostTypeOK, Waiting, Streaming, Activated,
       Validated, CaptureRoute, probeVars, lifeVars, healthVars, displayVars
  <1>5. HostDeclines => HostInv'
    BY DEF HostDeclines, Ends, HostInv, HostTypeOK, Waiting, Streaming, Activated,
       Validated, CaptureRoute, probeVars, lifeVars, healthVars, displayVars
  <1>6. HostProbes => HostInv'
    BY ProbeAssumption DEF HostProbes, HostInv, HostTypeOK, Waiting, Streaming, Activated,
       Validated, CaptureRoute, probeVars, lifeVars, healthVars, displayVars
  <1>7. HostPings => HostInv'
    BY ProbeAssumption DEF HostPings, HostInv, HostTypeOK, Waiting, Streaming, Activated,
       Validated, CaptureRoute, probeVars, lifeVars, healthVars, displayVars
  <1>8. HostTakesPong => HostInv'
    BY ProbeAssumption DEF HostTakesPong, HostInv, HostTypeOK, Waiting, Streaming, Activated,
       Validated, CaptureRoute, probeVars, lifeVars, healthVars, displayVars
  <1>9. ValidationFails => HostInv'
    BY DEF ValidationFails, Ends, HostInv, HostTypeOK, Waiting, Streaming, Activated,
       Validated, CaptureRoute, probeVars, lifeVars, healthVars, displayVars
  <1>10. HostActivates => HostInv'
    BY DEF HostActivates, HostInv, HostTypeOK, Waiting, Streaming, Activated,
       Validated, CaptureRoute, probeVars, lifeVars, healthVars, displayVars
  <1>11. ReadyButStopped => HostInv'
    BY DEF ReadyButStopped, Ends, HostInv, HostTypeOK, Waiting, Streaming, Activated,
       Validated, CaptureRoute, probeVars, lifeVars, healthVars, displayVars
  <1>12. AcquireDisplay => HostInv'
    BY DEF AcquireDisplay, HostInv, HostTypeOK, Waiting, Streaming, Activated,
       Validated, CaptureRoute, probeVars, lifeVars, healthVars, displayVars
  <1>13. SendStart => HostInv'
    BY DEF SendStart, HostInv, HostTypeOK, Waiting, Streaming, Activated,
       Validated, CaptureRoute, probeVars, lifeVars, healthVars, displayVars
  <1>14. SpawnEncoder => HostInv'
    BY DEF SpawnEncoder, HostInv, HostTypeOK, Waiting, Streaming, Activated,
       Validated, CaptureRoute, probeVars, lifeVars, healthVars, displayVars
  <1>15. StartupFails => HostInv'
    BY DEF StartupFails, Ends, HostInv, HostTypeOK, Waiting, Streaming, Activated,
       Validated, CaptureRoute, probeVars, lifeVars, healthVars, displayVars
  <1>16. SendUnit => HostInv'
    BY DEF SendUnit, HostInv, HostTypeOK, Waiting, Streaming, Activated,
       Validated, CaptureRoute, probeVars, lifeVars, healthVars, displayVars
  <1>17. SendStop => HostInv'
    BY DEF SendStop, Ends, HostInv, HostTypeOK, Waiting, Streaming, Activated,
       Validated, CaptureRoute, probeVars, lifeVars, healthVars, displayVars
  <1>18. EncoderFails => HostInv'
    BY DEF EncoderFails, Ends, HostInv, HostTypeOK, Waiting, Streaming, Activated,
       Validated, CaptureRoute, probeVars, lifeVars, healthVars, displayVars
  <1>19. TimesOut => HostInv'
    BY DEF TimesOut, Ends, HostInv, HostTypeOK, Waiting, Streaming, Activated,
       Validated, CaptureRoute, probeVars, lifeVars, healthVars, displayVars
  <1>20. PeerGone => HostInv'
    BY DEF PeerGone, Ends, HostInv, HostTypeOK, Waiting, Streaming, Activated,
       Validated, CaptureRoute, probeVars, lifeVars, healthVars, displayVars
  <1>21. ReapEncoder => HostInv'
    BY DEF ReapEncoder, HostInv, HostTypeOK, Waiting, Streaming, Activated,
       Validated, CaptureRoute, probeVars, lifeVars, healthVars, displayVars
  <1>22. ReleaseDisplay => HostInv'
    BY DEF ReleaseDisplay, HostInv, HostTypeOK, Waiting, Streaming, Activated,
       Validated, CaptureRoute, probeVars, lifeVars, healthVars, displayVars
  <1>23. \A failed, quick \in BOOLEAN : SessionEnded(failed, quick) => HostInv'
    BY NoClientAssumption, ProbeAssumption DEF SessionEnded, NextShort, HostInv, HostTypeOK, Waiting, Streaming, Activated,
       Validated, CaptureRoute, probeVars, lifeVars, healthVars, displayVars
  <1>24. HostStopped => HostInv'
    BY DEF HostStopped, HostInv, HostTypeOK, Waiting, Streaming, Activated,
       Validated, CaptureRoute, probeVars, lifeVars, healthVars, displayVars
  <1>25. AskStop => HostInv'
    BY DEF AskStop, HostInv, HostTypeOK, Waiting, Streaming, Activated,
       Validated, CaptureRoute, probeVars, lifeVars, healthVars, displayVars
  <1>26. \A c \in Clients : ClientStep(c) => UNCHANGED hostVars
    BY DEF ClientStep, ClientReceives, Dial, ClientCapabilities, ClientConfigured, TakesProbe,
       TakesPing, TakesStart, TakesError, TakesUnit, TakesStop, ClientRefuses,
       ClientLost, ClientCloses, LinkDies
  <1> QED
    BY <1>1, <1>2, <1>3, <1>4, <1>5, <1>6, <1>7, <1>8, <1>9, <1>10, <1>11, <1>12, <1>13, <1>14, <1>15, <1>16, <1>17, <1>18, <1>19, <1>20, <1>21, <1>22, <1>23, <1>24, <1>25, <1>26, HostKept
    DEF Next, ServeStep, ServeMishap, EndStep

-----------------------------------------------------------------------------
(* The clients and the network.  A Pong on its way names a round that its  *)
(* sender has acknowledged on this connection, so the rounds that the host *)
(* has seen acknowledged are no more than those.                           *)

PongsAreAnswered(q, n) ==
    \A i \in 1 .. Len(q) : q[i].kind = "Pong" => q[i].round < n

ProbeInv ==
    /\ ClientTypeOK
    /\ \A c \in Clients :
          /\ cphase[c] \in {"hello", "config"} => answered[c] = 0
          /\ cphase[c] = "validate" => answered[c] = cround[c]
          /\ PongsAreAnswered(up[c], answered[c])
    /\ peer \in Clients => round <= answered[peer]

LEMMA PongsInQueues ==
    ASSUME NEW q \in Seq(Messages), NEW n \in Nat, PongsAreAnswered(q, n)
    PROVE  /\ PongsAreAnswered(<<>>, n)
           /\ \A m \in Messages :
                 (m.kind = "Pong" => m.round < n) => PongsAreAnswered(Append(q, m), n)
           /\ q # <<>> => PongsAreAnswered(Tail(q), n)
           /\ q # <<>> /\ Head(q).kind = "Pong" => Head(q).round < n
           /\ PongsAreAnswered(q, n + 1)
  <1>1. PongsAreAnswered(<<>>, n)
    BY DEF PongsAreAnswered
  <1>2. ASSUME NEW m \in Messages, m.kind = "Pong" => m.round < n
        PROVE  PongsAreAnswered(Append(q, m), n)
    <2> SUFFICES ASSUME NEW i \in 1 .. Len(Append(q, m)), Append(q, m)[i].kind = "Pong"
                 PROVE  Append(q, m)[i].round < n
      BY DEF PongsAreAnswered
    <2>1. CASE i = Len(q) + 1
      BY <1>2, <2>1
    <2>2. CASE i \in 1 .. Len(q)
      BY <2>2 DEF PongsAreAnswered
    <2> QED
      BY <2>1, <2>2
  <1>3. ASSUME q # <<>>
        PROVE  PongsAreAnswered(Tail(q), n)
    <2> SUFFICES ASSUME NEW i \in 1 .. Len(Tail(q)), Tail(q)[i].kind = "Pong"
                 PROVE  Tail(q)[i].round < n
      BY DEF PongsAreAnswered
    <2>1. i + 1 \in 1 .. Len(q) /\ Tail(q)[i] = q[i + 1]
      BY <1>3
    <2> QED
      BY <2>1 DEF PongsAreAnswered
  <1>4. q # <<>> /\ Head(q).kind = "Pong" => Head(q).round < n
    <2>1. q # <<>> => 1 \in 1 .. Len(q) /\ Head(q) = q[1]
      OBVIOUS
    <2> QED
      BY <2>1 DEF PongsAreAnswered
  <1>5. PongsAreAnswered(q, n + 1)
    <2> SUFFICES ASSUME NEW i \in 1 .. Len(q), q[i].kind = "Pong"
                 PROVE  q[i].round < n + 1
      BY DEF PongsAreAnswered
    <2>1. q[i] \in Messages
      OBVIOUS
    <2>2. q[i].round \in Nat
      BY <2>1 DEF Messages
    <2>3. q[i].round < n
      BY DEF PongsAreAnswered
    <2> QED
      BY <2>2, <2>3
  <1> QED
    BY <1>1, <1>2, <1>3, <1>4, <1>5

\* What the host reads was sent on this connection.
LEMMA HostReadsKeeps ==
    ASSUME ProbeInv, peer \in Clients, NEW m, HostReads(peer, m),
           UNCHANGED answered
    PROVE  /\ up' \in [Clients -> Seq(Messages)]
           /\ \A c \in Clients : PongsAreAnswered(up'[c], answered'[c])
           /\ m.kind = "Pong" => m.round < answered[peer]
  <1>1. up \in [Clients -> Seq(Messages)] /\ answered \in [Clients -> Nat]
    BY ProbeAssumption DEF ProbeInv, ClientTypeOK
  <1>2. up[peer] # <<>> /\ m = Head(up[peer]) /\ up' = [up EXCEPT ![peer] = Tail(up[peer])]
    BY DEF HostReads
  <1>3. up' \in [Clients -> Seq(Messages)]
    BY <1>1, <1>2
  <1>4. \A c \in Clients : up'[c] = IF c = peer THEN Tail(up[peer]) ELSE up[c]
    BY <1>1, <1>2
  <1>5. \A c \in Clients : PongsAreAnswered(up[c], answered[c])
    BY DEF ProbeInv
  <1>6. /\ PongsAreAnswered(Tail(up[peer]), answered[peer])
        /\ m.kind = "Pong" => m.round < answered[peer]
    BY <1>1, <1>2, <1>5, PongsInQueues
  <1> QED
    BY <1>3, <1>4, <1>5, <1>6

LEMMA ClientWritesKeeps ==
    ASSUME ProbeInv, NEW c \in Clients, NEW m \in Messages, ClientWrites(c, m),
           NEW n \in Nat, n \in {answered[c], answered[c] + 1},
           m.kind = "Pong" => m.round < n
    PROVE  /\ up' \in [Clients -> Seq(Messages)]
           /\ PongsAreAnswered(up'[c], n)
           /\ \A d \in Clients : d # c => up'[d] = up[d]
  <1>1. up \in [Clients -> Seq(Messages)] /\ answered \in [Clients -> Nat]
    BY ProbeAssumption DEF ProbeInv, ClientTypeOK
  <1>2. up' = [up EXCEPT ![c] = Append(up[c], m)]
    BY DEF ClientWrites
  <1>3. up' \in [Clients -> Seq(Messages)] /\ up'[c] = Append(up[c], m)
    BY <1>1, <1>2
  <1>4. PongsAreAnswered(up[c], n)
    BY <1>1, PongsInQueues DEF ProbeInv
  <1>5. PongsAreAnswered(Append(up[c], m), n)
    BY <1>1, <1>4, PongsInQueues
  <1> QED
    BY <1>1, <1>2, <1>3, <1>5

\* Nothing that the invariant relates changes.
LEMMA ProbeKept ==
    ProbeInv /\ ClientTypeOK' /\ UNCHANGED <<cphase, cround, answered, up>>
             /\ UNCHANGED <<peer, round>> => ProbeInv'
  BY DEF ProbeInv

LEMMA ReadByHost ==
    ASSUME HostInv, ProbeInv, peer \in Clients, NEW m, HostReads(peer, m),
           down' \in [Clients -> Seq(Messages)],
           UNCHANGED <<cphase, receiverVars, lossy, dials, peer>>,
           \/ UNCHANGED round
           \/ m = Pong(round) /\ round' = round + 1
    PROVE  ProbeInv'
  <1>1. /\ up' \in [Clients -> Seq(Messages)]
        /\ \A c \in Clients : PongsAreAnswered(up'[c], answered'[c])
        /\ m.kind = "Pong" => m.round < answered[peer]
    BY HostReadsKeeps DEF receiverVars
  <1>2. ClientTypeOK'
    BY <1>1 DEF ProbeInv, ClientTypeOK, receiverVars
  <1>3. round \in Nat /\ answered[peer] \in Nat /\ round <= answered[peer]
    BY ProbeAssumption DEF HostInv, HostTypeOK, ProbeInv, ClientTypeOK
  <1>4. round' <= answered[peer]
    BY <1>1, <1>3 DEF Pong, Message
  <1> QED
    BY <1>1, <1>2, <1>4 DEF ProbeInv, receiverVars

LEMMA ProbeInit == Init => ProbeInv
  BY NoClientAssumption, ProbeAssumption DEF Init, ProbeInv, ClientTypeOK, PongsAreAnswered

\* Steps that leave the clients alone or only write to one.
LEMMA ProbeQuietStep ==
    ASSUME HostInv, ProbeInv,
           down' \in [Clients -> Seq(Messages)],
           UNCHANGED <<cphase, receiverVars, up, lossy, dials, peer, round>>
    PROVE  ProbeInv'
  <1>1. ClientTypeOK'
    BY DEF ProbeInv, ClientTypeOK, receiverVars
  <1> QED
    BY <1>1, ProbeKept DEF receiverVars

LEMMA HostWritesType ==
    ASSUME HostInv, ProbeInv, peer \in Clients
    PROVE  /\ \A m \in {Hello, SessionConfig, Start, Unit, Stop, Error2} :
                 [down EXCEPT ![peer] = Append(@, m)] \in [Clients -> Seq(Messages)]
           /\ [down EXCEPT ![peer] = Append(@, Probe(round))] \in [Clients -> Seq(Messages)]
           /\ [down EXCEPT ![peer] = Append(@, Ping(round))] \in [Clients -> Seq(Messages)]
  <1>1. down \in [Clients -> Seq(Messages)]
    BY DEF ProbeInv, ClientTypeOK
  <1>2. round \in Nat
    BY ProbeAssumption DEF HostInv, HostTypeOK
  <1>3. /\ {Hello, SessionConfig, Start, Unit, Stop, Error2} \subseteq Messages
        /\ Probe(round) \in Messages /\ Ping(round) \in Messages
    BY <1>2, MessagesHaveTheirType
  <1> QED
    BY <1>1, <1>3, QueuesKeepTheirType

LEMMA ServingHasPeer == HostInv /\ phase \notin Waiting => peer \in Clients
  BY DEF HostInv, HostTypeOK, Waiting

\* The steps of the host.
LEMMA ProbeHostStep ==
    ASSUME HostInv, ProbeInv,
           LegacyKnock \/ AskStop \/ ServeStep \/ SendUnit \/ ServeMishap \/ EndStep
    PROVE  ProbeInv'
  <1>1. LegacyKnock \/ AskStop \/ HostActivates \/ ReadyButStopped \/ AcquireDisplay
           \/ SpawnEncoder \/ StartupFails \/ EncoderFails \/ TimesOut \/ PeerGone
           \/ ReapEncoder \/ ReleaseDisplay \/ HostStopped
        => UNCHANGED <<clientVars, peer, round>>
    BY DEF LegacyKnock, AskStop, HostActivates, ReadyButStopped, AcquireDisplay,
       SpawnEncoder, StartupFails, EncoderFails, TimesOut, PeerGone, ReapEncoder,
       ReleaseDisplay, HostStopped, probeVars
  <1>2. UNCHANGED <<clientVars, peer, round>> => ProbeInv'
    BY ProbeQuietStep DEF clientVars, ProbeInv, ClientTypeOK
  <1>3. HostProbes \/ HostPings \/ ValidationFails \/ SendStart \/ SendUnit \/ SendStop
        => /\ peer \in Clients
           /\ UNCHANGED <<cphase, receiverVars, up, lossy, dials, peer, round>>
    BY ServingHasPeer
    DEF HostProbes, HostPings, ValidationFails, SendStart, SendUnit, SendStop,
       probeVars, Waiting
  <1>4. HostProbes \/ HostPings \/ ValidationFails \/ SendStart \/ SendUnit \/ SendStop
        => down' \in [Clients -> Seq(Messages)]
    BY <1>3, HostWritesType
    DEF HostProbes, HostPings, ValidationFails, SendStart, SendUnit, SendStop,
       HostWrites, ProbeInv, ClientTypeOK
  <1>5. CASE HostHello
    <2>1. /\ peer \in Clients /\ HostReads(peer, Hello)
          /\ down' = [down EXCEPT ![peer] = Append(@, Hello)]
          /\ UNCHANGED <<cphase, receiverVars, lossy, dials, peer>>
          /\ UNCHANGED round
      BY <1>5, ServingHasPeer DEF HostHello, HostWrites, probeVars, Waiting
    <2> QED
      BY <2>1, HostWritesType, ReadByHost
  <1>6. CASE HostConfigures
    <2>1. /\ peer \in Clients /\ HostReads(peer, Capabilities)
          /\ down' = [down EXCEPT ![peer] = Append(@, SessionConfig)]
          /\ UNCHANGED <<cphase, receiverVars, lossy, dials, peer>>
          /\ UNCHANGED round
      BY <1>6, ServingHasPeer DEF HostConfigures, HostWrites, probeVars, Waiting
    <2> QED
      BY <2>1, HostWritesType, ReadByHost
  <1>7. CASE HostDeclines
    <2>1. /\ peer \in Clients /\ HostReads(peer, Capabilities)
          /\ UNCHANGED <<cphase, receiverVars, lossy, dials, peer>>
          /\ UNCHANGED round
          /\ UNCHANGED down
      BY <1>7, ServingHasPeer DEF HostDeclines, probeVars, Waiting
    <2> QED
      BY <2>1, ReadByHost DEF ProbeInv, ClientTypeOK
  <1>8. HostTakesPong => ProbeInv'
    BY ServingHasPeer, ReadByHost
    DEF HostTakesPong, Waiting, ProbeInv, ClientTypeOK
  <1>9. ASSUME NEW failed \in BOOLEAN, NEW quick \in BOOLEAN, SessionEnded(failed, quick)
        PROVE  ProbeInv'
    <2>1. /\ peer \in Clients /\ peer' = NoClient
          /\ up' = [up EXCEPT ![peer] = <<>>]
          /\ UNCHANGED <<cphase, receiverVars, down, lossy, dials>>
      BY <1>9, ServingHasPeer DEF SessionEnded, Waiting
    <2>2. ClientTypeOK'
      BY <2>1, QueuesKeepTheirType DEF ProbeInv, ClientTypeOK, receiverVars
    <2>3. \A c \in Clients : PongsAreAnswered(up'[c], answered'[c])
      BY <2>1 DEF ProbeInv, ClientTypeOK, receiverVars, PongsAreAnswered
    <2> QED
      BY <2>1, <2>2, <2>3, NoClientAssumption DEF ProbeInv, receiverVars
  <1> QED
    BY <1>1, <1>2, <1>3, <1>4, <1>5, <1>6, <1>7, <1>8, <1>9, ProbeQuietStep
    DEF ServeStep, ServeMishap, EndStep

LEMMA ProbeAccept ==
    ASSUME HostInv, ProbeInv, NEW c \in Clients, Accept(c)
    PROVE  ProbeInv'
  <1>1. /\ up' = [up EXCEPT ![c] = <<Hello>>]
        /\ down' = [down EXCEPT ![c] = <<>>]
        /\ cphase' = [cphase EXCEPT ![c] = "hello"]
        /\ answered' = [answered EXCEPT ![c] = 0]
        /\ lossy' = lossy \ {c}
        /\ UNCHANGED <<cround, cpackets, dials>>
        /\ peer' = c /\ round' = 0
    BY DEF Accept, ClientGoes
  <1>2. ClientTypeOK
    BY DEF ProbeInv
  <1>3. up' \in [Clients -> Seq(Messages)] /\ down' \in [Clients -> Seq(Messages)]
    BY <1>1, <1>2, QueuesKeepTheirType, MessagesHaveTheirType DEF ClientTypeOK
  <1>4. ClientTypeOK'
    BY <1>1, <1>2, <1>3, ProbeAssumption DEF ClientTypeOK
  <1>5. PongsAreAnswered(<<Hello>>, 0)
    BY DEF PongsAreAnswered, Hello, Message
  <1>6. \A d \in Clients : PongsAreAnswered(up'[d], answered'[d])
    <2> SUFFICES ASSUME NEW d \in Clients PROVE PongsAreAnswered(up'[d], answered'[d])
      OBVIOUS
    <2>1. CASE d = c
      <3>1. up'[d] = <<Hello>> /\ answered'[d] = 0
        BY <1>1, <1>2, <2>1 DEF ClientTypeOK
      <3> QED
        BY <3>1, <1>5
    <2>2. CASE d # c
      <3>1. up'[d] = up[d] /\ answered'[d] = answered[d]
        BY <1>1, <1>2, <2>2 DEF ClientTypeOK
      <3> QED
        BY <3>1 DEF ProbeInv
    <2> QED
      BY <2>1, <2>2
  <1>7. \A d \in Clients :
           /\ cphase'[d] \in {"hello", "config"} => answered'[d] = 0
           /\ cphase'[d] = "validate" => answered'[d] = cround'[d]
    BY <1>1, <1>2 DEF ProbeInv, ClientTypeOK
  <1>8. round' <= answered'[c]
    BY <1>1, <1>2 DEF ClientTypeOK
  <1> QED
    BY <1>1, <1>4, <1>6, <1>7, <1>8 DEF ProbeInv

LEMMA ClientReadsType ==
    ASSUME ClientTypeOK, NEW c \in Clients, NEW m, ClientReads(c, m)
    PROVE  down' \in [Clients -> Seq(Messages)]
  BY QueuesKeepTheirType DEF ClientReads, ClientTypeOK

\* The steps of a client.
LEMMA ProbeClientStep ==
    ASSUME HostInv, ProbeInv, NEW c \in Clients, ClientStep(c)
    PROVE  ProbeInv'
  <1> USE DEF ClientGoes, hostVars, receiverVars, probeVars
  <1>t. ClientTypeOK
    BY DEF ProbeInv
  <1>0. UNCHANGED <<peer, round>>
    BY DEF ClientStep, ClientReceives, Dial, ClientCapabilities, ClientConfigured, TakesProbe,
       TakesPing, TakesStart, TakesError, TakesUnit, TakesStop, ClientRefuses,
       ClientLost, ClientCloses, LinkDies
  <1>1. CASE Dial(c)
    <2>1. ClientTypeOK'
      BY <1>1, <1>t DEF Dial, ClientTypeOK
    <2> QED
      BY <1>1, <1>t, <2>1, <1>0 DEF Dial, ProbeInv, ClientTypeOK
  <1>2. CASE ClientCapabilities(c)
    <2>1. /\ ClientWrites(c, Capabilities) /\ ClientReads(c, Hello)
          /\ cphase[c] = "hello" /\ cphase' = [cphase EXCEPT ![c] = "config"]
          /\ UNCHANGED <<cround, cpackets, answered, lossy, dials>>
      BY <1>2 DEF ClientCapabilities
    <2>2. answered[c] \in Nat
      BY <1>t, ProbeAssumption DEF ClientTypeOK
    <2>3. Capabilities \in Messages /\ Capabilities.kind # "Pong"
      BY MessagesHaveTheirType DEF Capabilities, Message
    <2>4. /\ up' \in [Clients -> Seq(Messages)]
          /\ PongsAreAnswered(up'[c], answered[c])
          /\ \A d \in Clients : d # c => up'[d] = up[d]
      BY <2>1, <2>2, <2>3, ClientWritesKeeps
    <2>5. ClientTypeOK'
      BY <1>t, <2>1, <2>4, ClientReadsType DEF ClientTypeOK
    <2>6. \A d \in Clients : PongsAreAnswered(up'[d], answered'[d])
      BY <2>1, <2>4 DEF ProbeInv
    <2> QED
      BY <1>t, <1>0, <2>1, <2>5, <2>6 DEF ProbeInv, ClientTypeOK
  <1>3. CASE TakesPing(c)
    <2>1. /\ ClientWrites(c, Pong(cround[c])) /\ ClientReads(c, Ping(cround[c]))
          /\ cphase[c] = "validate" /\ cround[c] < Rounds
          /\ cround' = [cround EXCEPT ![c] = cround[c] + 1]
          /\ cpackets' = [cpackets EXCEPT ![c] = 0]
          /\ answered' = [answered EXCEPT ![c] = answered[c] + 1]
          /\ UNCHANGED <<cphase, lossy, dials>>
      BY <1>3 DEF TakesPing
    <2>2. answered[c] \in Nat /\ cround[c] \in Nat /\ cround[c] = answered[c]
      BY <1>t, <2>1, ProbeAssumption DEF ClientTypeOK, ProbeInv
    <2>3. Pong(cround[c]) \in Messages /\ Pong(cround[c]).round = cround[c]
      BY <2>2, MessagesHaveTheirType DEF Pong, Message
    <2>n. answered[c] + 1 \in Nat /\ Pong(cround[c]).round < answered[c] + 1
      BY <2>2, <2>3
    <2>4. /\ up' \in [Clients -> Seq(Messages)]
          /\ PongsAreAnswered(up'[c], answered[c] + 1)
          /\ \A d \in Clients : d # c => up'[d] = up[d]
      BY <2>1, <2>n, <2>3, ClientWritesKeeps
    <2>d. down' \in [Clients -> Seq(Messages)]
      BY <1>t, <2>1, ClientReadsType
    <2>r. /\ cround' \in [Clients -> 0 .. Rounds]
          /\ cpackets' \in [Clients -> 0 .. Burst]
          /\ answered' \in [Clients -> 0 .. Rounds]
      BY <1>t, <2>1, <2>2, ProbeAssumption DEF ClientTypeOK
    <2>5. ClientTypeOK'
      BY <1>t, <2>1, <2>4, <2>d, <2>r DEF ClientTypeOK
    <2>6. \A d \in Clients : PongsAreAnswered(up'[d], answered'[d])
      BY <1>t, <2>1, <2>4 DEF ProbeInv, ClientTypeOK
    <2>7. \A d \in Clients :
             /\ cphase'[d] \in {"hello", "config"} => answered'[d] = 0
             /\ cphase'[d] = "validate" => answered'[d] = cround'[d]
             /\ answered[d] <= answered'[d]
      BY <1>t, <2>1, <2>2, ProbeAssumption DEF ProbeInv, ClientTypeOK
    <2>8. ASSUME peer \in Clients
          PROVE  round <= answered'[peer]
      <3>1. round <= answered[peer] /\ answered[peer] <= answered'[peer]
        BY <2>7, <2>8 DEF ProbeInv
      <3>2. round \in Int
        BY ProbeAssumption DEF HostInv, HostTypeOK
      <3>3. answered[peer] \in Int /\ answered'[peer] \in Int
        BY <1>t, <2>8, <2>r, ProbeAssumption DEF ClientTypeOK
      <3> QED
        BY <3>1, <3>2, <3>3
    <2> QED
      BY <1>0, <2>5, <2>6, <2>7, <2>8 DEF ProbeInv
  <1>4. CASE ClientConfigured(c)
    <2>1. ClientTypeOK'
      BY <1>4, <1>t, ClientReadsType, ProbeAssumption DEF ClientConfigured, ClientTypeOK, ForgetProbe
    <2> QED
      BY <1>4, <1>t, <1>0, <2>1 DEF ClientConfigured, ForgetProbe, ProbeInv, ClientTypeOK
  <1>5. CASE TakesProbe(c)
    <2>1. ClientTypeOK'
      BY <1>5, <1>t, ClientReadsType, ProbeAssumption DEF TakesProbe, ClientTypeOK
    <2> QED
      BY <1>5, <1>0, <2>1 DEF TakesProbe, ProbeInv
  <1>6. ASSUME TakesStart(c) \/ TakesError(c) \/ ClientRefuses(c) \/ TakesStop(c) \/ TakesUnit(c)
        PROVE  ProbeInv'
    <2>1. down' \in [Clients -> Seq(Messages)]
      BY <1>6, <1>t, ClientReadsType
      DEF TakesStart, TakesError, ClientRefuses, TakesStop, TakesUnit
    <2>2. /\ \/ cphase' = [cphase EXCEPT ![c] = "play"]
             \/ cphase' = [cphase EXCEPT ![c] = "idle"]
             \/ cphase' = [cphase EXCEPT ![c] = "refused"]
             \/ cphase' = [cphase EXCEPT ![c] = "finished"]
             \/ UNCHANGED <<cphase, cround>>
          /\ \/ UNCHANGED <<cround, cpackets>>
             \/ /\ cround' = [cround EXCEPT ![c] = 0]
                /\ cpackets' = [cpackets EXCEPT ![c] = 0]
          /\ UNCHANGED <<answered, up, lossy, dials>>
      BY <1>6
      DEF TakesStart, TakesError, ClientRefuses, TakesStop, TakesUnit, ForgetProbe
    <2>p. cphase' \in [Clients -> {"idle", "queued", "hello", "config", "validate",
                                   "play", "finished", "refused", "closed"}]
      BY <1>t, <2>2 DEF ClientTypeOK
    <2>0. /\ 0 \in 0 .. Rounds /\ 0 \in 0 .. Burst
          /\ cround \in [Clients -> 0 .. Rounds] /\ cpackets \in [Clients -> 0 .. Burst]
      BY <1>t, ProbeAssumption DEF ClientTypeOK
    <2>r. cround' \in [Clients -> 0 .. Rounds] /\ cpackets' \in [Clients -> 0 .. Burst]
      BY <2>0, <2>2
    <2>3. ClientTypeOK'
      BY <1>t, <2>1, <2>2, <2>p, <2>r DEF ClientTypeOK
    <2> QED
      BY <1>t, <1>0, <2>2, <2>3 DEF ProbeInv, ClientTypeOK
  <1>7. ASSUME ClientLost(c) \/ ClientCloses(c)
        PROVE  ProbeInv'
    <2>2. /\ \/ cphase' = [cphase EXCEPT ![c] = "idle"]
             \/ cphase' = [cphase EXCEPT ![c] = "closed"]
          /\ cround' = [cround EXCEPT ![c] = 0]
          /\ cpackets' = [cpackets EXCEPT ![c] = 0]
          /\ UNCHANGED <<answered, up, down, lossy, dials>>
      BY <1>7 DEF ClientLost, ClientCloses, ForgetProbe
    <2>p. cphase' \in [Clients -> {"idle", "queued", "hello", "config", "validate",
                                   "play", "finished", "refused", "closed"}]
      BY <1>t, <2>2 DEF ClientTypeOK
    <2>0. /\ 0 \in 0 .. Rounds /\ 0 \in 0 .. Burst
          /\ cround \in [Clients -> 0 .. Rounds] /\ cpackets \in [Clients -> 0 .. Burst]
      BY <1>t, ProbeAssumption DEF ClientTypeOK
    <2>r. cround' \in [Clients -> 0 .. Rounds] /\ cpackets' \in [Clients -> 0 .. Burst]
      BY <2>0, <2>2
    <2>1. ClientTypeOK'
      BY <1>t, <2>2, <2>p, <2>r DEF ClientTypeOK
    <2> QED
      BY <1>t, <1>0, <2>1, <2>2 DEF ProbeInv, ClientTypeOK
  <1>8. CASE LinkDies(c)
    <2>1. ClientTypeOK'
      BY <1>8, <1>t DEF LinkDies, ClientTypeOK
    <2> QED
      BY <1>8, <1>0, <2>1 DEF LinkDies, ProbeInv
  <1> QED
    BY <1>1, <1>2, <1>3, <1>4, <1>5, <1>6, <1>7, <1>8 DEF ClientStep, ClientReceives

LEMMA ProbeStep == HostInv /\ ProbeInv /\ [Next]_vars => ProbeInv'
  <1> SUFFICES ASSUME HostInv, ProbeInv, [Next]_vars PROVE ProbeInv'
    OBVIOUS
  <1>1. CASE LegacyKnock \/ AskStop \/ ServeStep \/ SendUnit \/ ServeMishap \/ EndStep
    BY <1>1, ProbeHostStep
  <1>2. CASE \E c \in Clients : Accept(c) \/ ClientStep(c)
    BY <1>2, ProbeAccept, ProbeClientStep
  <1>3. CASE UNCHANGED vars
    <2>1. UNCHANGED <<cphase, receiverVars, up, lossy, dials, peer, round>>
      BY <1>3 DEF vars, hostVars, clientVars, probeVars
    <2>2. down' \in [Clients -> Seq(Messages)]
      BY <1>3 DEF vars, clientVars, ProbeInv, ClientTypeOK
    <2> QED
      BY <2>1, <2>2, ProbeQuietStep
  <1> QED
    BY <1>1, <1>2, <1>3 DEF Next

LEMMA Invariance == Spec => [](HostInv /\ ProbeInv)
  <1>1. Init => HostInv /\ ProbeInv
    BY HostInit, ProbeInit
  <1>2. HostInv /\ ProbeInv /\ [Next]_vars => (HostInv /\ ProbeInv)'
    <2>1. HostInv /\ UNCHANGED vars => HostInv'
      BY HostKept DEF vars
    <2> QED
      BY <2>1, HostStep, ProbeStep
  <1> QED
    BY <1>1, <1>2, PTL DEF Spec

-----------------------------------------------------------------------------

\* The types hold throughout: in particular, the host serves a client exactly
\* in the phases of a session, and it never counts more than three failures,
\* more rounds than the probe has or more packets than a round has.
THEOREM TypeCorrect == Spec => []TypeOK
  <1>1. HostInv /\ ProbeInv => TypeOK
    BY DEF HostInv, ProbeInv, TypeOK
  <1> QED
    BY <1>1, Invariance, PTL

\* A display or an encoder exists only for a client that acknowledged every
\* round of the probe on this very connection, or that predates the probe.
THEOREM ActivatedAreValidated == Spec => []ActivationIsValidated
  <1>1. HostInv /\ ProbeInv => ActivationIsValidated
    <2> SUFFICES ASSUME HostInv, ProbeInv,
                        activation = "started" \/ lease = "held" \/ encoder = "running"
                 PROVE  peer \in Old \/ answered[peer] = Rounds
      BY DEF ActivationIsValidated
    <2>1. peer \in Clients
      BY DEF HostInv, HostTypeOK, Activated, Streaming
    <2>2. peer \in Old \/ round = Rounds
      BY DEF HostInv, HostTypeOK, Activated, Streaming, Validated
    <2>3. answered[peer] \in 0 .. Rounds /\ round <= answered[peer]
      BY <2>1 DEF ProbeInv, ClientTypeOK
    <2> QED
      BY <2>2, <2>3, ProbeAssumption
  <1> QED
    BY <1>1, Invariance, PTL

\* The display is there for as long as an encoder runs (except on the route
\* that mirrors a screen), and a host that waits for a client has neither.
THEOREM DisplayCovers == Spec => []DisplayCoversEncoder
  <1>1. HostInv => DisplayCoversEncoder
    BY DEF HostInv, HostTypeOK, DisplayCoversEncoder, Streaming
  <1> QED
    BY <1>1, Invariance, PTL

-----------------------------------------------------------------------------
(* The panel.                                                              *)

PanelInv ==
    /\ PanelFollowsHost
    /\ validation = "failed" =>
          /\ phase \in {"accept", "ended"} \cup {"unstable", "stopped"}
          /\ phase = "ended" => panel = "validation_failed"

LEMMA PanelStep == HostInv /\ PanelInv /\ [Next]_vars => PanelInv'
  <1> SUFFICES ASSUME HostInv, PanelInv, [Next]_vars PROVE PanelInv'
    OBVIOUS
  <1> USE DEF PanelInv, PanelFollowsHost, probeVars, lifeVars, healthVars, displayVars
  <1>1. ASSUME NEW c \in Clients, Accept(c) PROVE PanelInv'
    BY <1>1 DEF Accept
  <1>2. CASE LegacyKnock
    BY <1>2 DEF LegacyKnock
  <1>3. CASE AskStop
    BY <1>3 DEF AskStop
  <1>4. ASSUME HostHello \/ HostConfigures \/ HostProbes \/ HostPings \/ HostTakesPong
               \/ HostActivates \/ AcquireDisplay \/ SendStart \/ SpawnEncoder \/ SendUnit
        PROVE  PanelInv'
    BY <1>4
    DEF HostHello, HostConfigures, HostProbes, HostPings, HostTakesPong, HostActivates,
       AcquireDisplay, SendStart, SpawnEncoder, SendUnit
  <1>5. CASE ValidationFails
    <2>1. encoder # "running" /\ lease = "none"
      BY <1>5 DEF ValidationFails, HostInv, HostTypeOK, Streaming
    <2> QED
      BY <1>5, <2>1 DEF ValidationFails, Ends
  <1>6. ASSUME HostDeclines \/ ReadyButStopped \/ StartupFails \/ SendStop
               \/ EncoderFails \/ TimesOut \/ PeerGone
        PROVE  PanelInv'
    BY <1>6
    DEF HostDeclines, ReadyButStopped, StartupFails, SendStop, EncoderFails, TimesOut,
       PeerGone, Ends
  <1>7. CASE ReapEncoder \/ ReleaseDisplay \/ HostStopped
    BY <1>7 DEF ReapEncoder, ReleaseDisplay, HostStopped
  <1>8. ASSUME NEW failed \in BOOLEAN, NEW quick \in BOOLEAN, SessionEnded(failed, quick)
        PROVE  PanelInv'
    BY <1>8 DEF SessionEnded
  <1>9. ASSUME NEW c \in Clients, ClientStep(c) PROVE PanelInv'
    <2>1. UNCHANGED hostVars
      BY <1>9
      DEF ClientStep, ClientReceives, Dial, ClientCapabilities, ClientConfigured, TakesProbe, TakesPing,
         TakesStart, TakesError, TakesUnit, TakesStop, ClientRefuses, ClientLost,
         ClientCloses, LinkDies
    <2> QED
      BY <2>1 DEF hostVars
  <1>10. CASE UNCHANGED vars
    BY <1>10 DEF vars, hostVars
  <1> QED
    BY <1>1, <1>2, <1>3, <1>4, <1>5, <1>6, <1>7, <1>8, <1>9, <1>10
    DEF Next, ServeStep, ServeMishap, EndStep

\* The panel never shows a session while the host waits, keeps the verdict of
\* a failed validation until it is replaced, and shows video only for the
\* session of an encoder.
THEOREM PanelFollows == Spec => []PanelFollowsHost
  <1>1. Init => PanelInv
    BY DEF Init, PanelInv, PanelFollowsHost
  <1>2. HostInv /\ PanelInv /\ [Next]_vars => PanelInv'
    BY PanelStep
  <1>3. PanelInv => PanelFollowsHost
    BY DEF PanelInv
  <1> QED
    BY <1>1, <1>2, <1>3, Invariance, PTL DEF Spec

-----------------------------------------------------------------------------
(* SessionHealth.  On the native route the failures that the host counts   *)
(* are those that happened.                                                *)

HealthInv ==
    /\ phase \notin {"unstable", "stopped"} => short = spree
    /\ phase = "unstable" => spree = 3
    /\ phase \in {"reap", "release", "ended"} =>
          cause \in {"client", "stop", "startup", "stall", "encoder"}

LEMMA HealthStep ==
    ASSUME Route = "native", Old = {}, HostInv, HealthInv, [Next]_vars
    PROVE  HealthInv'
  <1> USE DEF HealthInv, probeVars, lifeVars, healthVars, displayVars
  <1>1. ASSUME NEW c \in Clients, Accept(c) PROVE HealthInv'
    BY <1>1 DEF Accept
  <1>2. ASSUME LegacyKnock \/ AskStop \/ HostHello \/ HostConfigures \/ HostProbes
               \/ HostPings \/ HostTakesPong \/ HostActivates \/ AcquireDisplay
               \/ SendStart \/ SpawnEncoder \/ SendUnit
        PROVE  HealthInv'
    BY <1>2
    DEF LegacyKnock, AskStop, HostHello, HostConfigures, HostProbes, HostPings,
       HostTakesPong, HostActivates, AcquireDisplay, SendStart, SpawnEncoder, SendUnit
  <1>3. ASSUME ValidationFails \/ HostDeclines \/ ReadyButStopped \/ StartupFails
               \/ SendStop \/ EncoderFails \/ TimesOut \/ PeerGone
        PROVE  HealthInv'
    BY <1>3
    DEF ValidationFails, HostDeclines, ReadyButStopped, StartupFails, SendStop,
       EncoderFails, TimesOut, PeerGone, Ends
  <1>4. CASE ReapEncoder \/ ReleaseDisplay \/ HostStopped
    BY <1>4 DEF ReapEncoder, ReleaseDisplay, HostStopped
  <1>5. ASSUME NEW failed \in BOOLEAN, NEW quick \in BOOLEAN, SessionEnded(failed, quick)
        PROVE  HealthInv'
    <2>1. failed <=> FailedByItself(cause)
      BY <1>5 DEF SessionEnded, Counts, CaptureRoute, FailedByItself
    <2>2. short = spree /\ short \in 0 .. 2
      BY <1>5 DEF SessionEnded, HostInv, HostTypeOK
    <2>3. short' = spree' /\ short' \in 0 .. 3
      BY <1>5, <2>1, <2>2 DEF SessionEnded, NextShort
    <2> QED
      BY <1>5, <2>3 DEF SessionEnded
  <1>6. ASSUME NEW c \in Clients, ClientStep(c) PROVE HealthInv'
    <2>1. UNCHANGED hostVars
      BY <1>6
      DEF ClientStep, ClientReceives, Dial, ClientCapabilities, ClientConfigured, TakesProbe, TakesPing,
         TakesStart, TakesError, TakesUnit, TakesStop, ClientRefuses, ClientLost,
         ClientCloses, LinkDies
    <2> QED
      BY <2>1 DEF hostVars
  <1>7. CASE UNCHANGED vars
    BY <1>7 DEF vars, hostVars
  <1> QED
    BY <1>1, <1>2, <1>3, <1>4, <1>5, <1>6, <1>7 DEF Next, ServeStep, ServeMishap, EndStep

\* On the native route, with clients of this version, the host stops listening
\* exactly when three activations in a row failed by themselves within thirty
\* seconds: neither later, nor for a client that closes.
THEOREM HaltsAreEarned ==
    ASSUME Route = "native", Old = {}
    PROVE  Spec => [](StormIsHalted /\ HaltIsEarned)
  <1>1. Init => HealthInv
    BY DEF Init, HealthInv
  <1>2. HostInv /\ HealthInv /\ [Next]_vars => HealthInv'
    BY HealthStep
  <1>3. HostInv /\ HealthInv => StormIsHalted /\ HaltIsEarned
    BY DEF HostInv, HostTypeOK, HealthInv, StormIsHalted, HaltIsEarned
  <1> QED
    BY <1>1, <1>2, <1>3, Invariance, PTL DEF Spec

-----------------------------------------------------------------------------
(* The handshake.  What is on its way to a client is a path of the         *)
(* client's own rules: it leads from where the client is to where the host *)
(* believes it to be, while the host is not ending the session.            *)

Place(at, r, k) == [at |-> at, round |-> r, packets |-> k]
Places == [at : {"hello", "config", "validate", "play", "end"}, round : Nat, packets : Nat]

\* A client at p takes the message m, and then is at q.
Takes(c, p, m, q) ==
    \/ p.at = "hello" /\ m = Hello /\ q = Place("config", 0, 0)
    \/ p.at = "config" /\ m = SessionConfig /\ q = Place("validate", 0, 0)
    \/ p.at = "validate" /\ m = Error2 /\ q = Place("end", 0, 0)
    \/ /\ p.at = "validate" /\ m = Start /\ p.packets = 0 /\ p.round \in {0, Rounds}
       /\ q = Place("play", 0, 0)
    \/ /\ p.at = "validate" /\ c \notin Old /\ p.round < Rounds /\ p.packets < Burst
       /\ m = Probe(p.round) /\ q = Place("validate", p.round, p.packets + 1)
    \/ /\ p.at = "validate" /\ c \notin Old /\ p.round < Rounds /\ p.packets = Burst
       /\ m = Ping(p.round) /\ q = Place("validate", p.round + 1, 0)
    \/ p.at = "play" /\ m = Unit /\ q = p
    \/ p.at = "play" /\ m = Stop /\ q = Place("end", 0, 0)

\* Where a client is, and where the host has led it.
Stands(c) ==
    IF cphase[c] = "validate" THEN Place("validate", cround[c], cpackets[c])
    ELSE Place(cphase[c], 0, 0)

HostAt ==
    CASE phase = "hello" -> Place("hello", 0, 0)
      [] phase = "capabilities" -> Place("config", 0, 0)
      [] phase = "probe" -> Place("validate", round, packets)
      [] phase = "pong" -> Place("validate", round + 1, 0)
      [] phase \in {"ready", "display", "start"} -> Place("validate", round, 0)
      [] OTHER -> Place("play", 0, 0)

Ending == {"reap", "release", "ended"}

IsPath(c, path, messages) ==
    /\ path \in Seq(Places) /\ Len(path) = Len(messages) + 1
    /\ \A i \in 1 .. Len(messages) : Takes(c, path[i], messages[i], path[i + 1])

Leads(c, path) ==
    /\ IsPath(c, path, down[c])
    /\ path[1] = Stands(c)
    /\ peer = c /\ phase \notin Ending => path[Len(path)] = HostAt

PathInv ==
    /\ phase \in {"hello", "capabilities"} => packets = 0
    /\ phase \in {"ready", "display", "start"} => round \in {0, Rounds}
    /\ \A c \in Clients : Attached(c) => \E path : Leads(c, path)

LEMMA PathGrows ==
    ASSUME NEW c \in Clients, NEW q \in Seq(Messages), NEW path, IsPath(c, path, q),
           NEW m \in Messages, NEW p \in Places, Takes(c, path[Len(path)], m, p)
    PROVE  LET longer == Append(path, p)
           IN  /\ IsPath(c, longer, Append(q, m))
               /\ longer[1] = path[1] /\ longer[Len(longer)] = p
<1> DEFINE longer == Append(path, p)
<1>1. path \in Seq(Places) /\ Len(path) = Len(q) + 1 /\ Len(q) \in Nat
    BY DEF IsPath
<1>2. /\ longer \in Seq(Places) /\ Len(longer) = Len(Append(q, m)) + 1
      /\ longer[1] = path[1] /\ longer[Len(longer)] = p
    BY <1>1
<1>3. ASSUME NEW i \in 1 .. Len(Append(q, m))
      PROVE  Takes(c, longer[i], Append(q, m)[i], longer[i + 1])
    <2>1. CASE i = Len(q) + 1
        <3>1. longer[i] = path[Len(path)] /\ Append(q, m)[i] = m /\ longer[i + 1] = p
            BY <1>1, <2>1
        <3> HIDE DEF longer
        <3> QED  BY <3>1
    <2>2. CASE i \in 1 .. Len(q)
        <3>1. longer[i] = path[i] /\ Append(q, m)[i] = q[i] /\ longer[i + 1] = path[i + 1]
            BY <1>1, <2>2
        <3>2. Takes(c, path[i], q[i], path[i + 1])
            BY <2>2 DEF IsPath
        <3> HIDE DEF longer
        <3> QED  BY <3>1, <3>2
    <2>3. i \in 1 .. Len(q) + 1
        BY <1>1
    <2> QED  BY <1>1, <2>1, <2>2, <2>3
<1> HIDE DEF longer
<1>4. IsPath(c, longer, Append(q, m))
    BY <1>2, <1>3 DEF IsPath
<1> QED  BY <1>2, <1>4 DEF longer

LEMMA PathShrinks ==
    ASSUME NEW c \in Clients, NEW q \in Seq(Messages), q # <<>>, NEW path, IsPath(c, path, q)
    PROVE  /\ Takes(c, path[1], Head(q), path[2])
           /\ IsPath(c, Tail(path), Tail(q))
           /\ Tail(path)[1] = path[2]
           /\ Tail(path)[Len(Tail(path))] = path[Len(path)]
<1>1. /\ path \in Seq(Places) /\ Len(path) = Len(q) + 1 /\ Len(q) \in Nat \ {0}
      /\ Head(q) = q[1]
    BY DEF IsPath
<1>2. /\ Tail(path) \in Seq(Places) /\ Len(Tail(path)) = Len(Tail(q)) + 1
      /\ Tail(path)[1] = path[2]
      /\ Tail(path)[Len(Tail(path))] = path[Len(path)]
    BY <1>1
<1>3. Takes(c, path[1], Head(q), path[2])
    BY <1>1 DEF IsPath
<1>4. ASSUME NEW i \in 1 .. Len(Tail(q))
      PROVE  Takes(c, Tail(path)[i], Tail(q)[i], Tail(path)[i + 1])
    <2>1. /\ i + 1 \in 1 .. Len(q) /\ Tail(q)[i] = q[i + 1]
          /\ Tail(path)[i] = path[i + 1] /\ Tail(path)[i + 1] = path[i + 2]
          /\ i + 2 = (i + 1) + 1
        BY <1>1
    <2>2. Takes(c, path[i + 1], q[i + 1], path[(i + 1) + 1])
        BY <2>1 DEF IsPath
    <2> QED  BY <2>1, <2>2
<1> QED  BY <1>2, <1>3, <1>4 DEF IsPath

\* The host does not write: its own position stays, or it ends the session.
LEMMA QuietPaths ==
    ASSUME PathInv, UNCHANGED <<cphase, cround, cpackets, down>>,
           peer' = peer \/ peer' = NoClient,
           phase' \notin Ending /\ peer' = peer =>
              (phase \notin Ending /\ HostAt' = HostAt) \/ peer = NoClient
    PROVE  \A c \in Clients : Attached(c)' => \E path : Leads(c, path)'
<1> TAKE c \in Clients
<1>1. SUFFICES ASSUME Attached(c)' PROVE \E path : Leads(c, path)'
    OBVIOUS
<1>2. PICK path : Leads(c, path)
    BY <1>1 DEF PathInv, Attached
<1>3. Stands(c)' = Stands(c)
    BY DEF Stands
<1>4. peer' = c /\ phase' \notin Ending => peer = c /\ phase \notin Ending /\ HostAt' = HostAt
    BY NoClientAssumption
<1> QED  BY <1>2, <1>3, <1>4 DEF Leads

\* The host writes to its client.
LEMMA WrittenPaths ==
    ASSUME PathInv, ProbeInv, peer \in Clients, phase \notin Ending,
           NEW m \in Messages, NEW p \in Places,
           UNCHANGED <<cphase, cround, cpackets, peer>>, HostWrites(peer, m),
           Takes(peer, HostAt, m, p), phase' \notin Ending => HostAt' = p
    PROVE  \A c \in Clients : Attached(c)' => \E path : Leads(c, path)'
<1> TAKE c \in Clients
<1>1. SUFFICES ASSUME Attached(c)' PROVE \E path : Leads(c, path)'
    OBVIOUS
<1>2. PICK path : Leads(c, path)
    BY <1>1 DEF PathInv, Attached
<1>3. Stands(c)' = Stands(c)
    BY DEF Stands
<1>4. down \in [Clients -> Seq(Messages)] /\ down' = [down EXCEPT ![peer] = Append(down[peer], m)]
    BY DEF ProbeInv, ClientTypeOK, HostWrites
<1>5. CASE c = peer
    <2>1. down'[c] = Append(down[c], m) /\ down[c] \in Seq(Messages)
        BY <1>4, <1>5
    <2>2. path[Len(path)] = HostAt /\ IsPath(c, path, down[c]) /\ path[1] = Stands(c)
        BY <1>2, <1>5 DEF Leads
    <2>3. LET longer == Append(path, p)
          IN  /\ IsPath(c, longer, Append(down[c], m))
              /\ longer[1] = path[1] /\ longer[Len(longer)] = p
        BY <1>5, <2>1, <2>2, PathGrows
    <2>4. Leads(c, Append(path, p))'
        BY <1>3, <2>1, <2>2, <2>3 DEF Leads
    <2> QED  BY <2>4
<1>6. CASE c # peer
    <2>1. down'[c] = down[c]
        BY <1>4, <1>6
    <2> QED  BY <1>2, <1>3, <1>6, <2>1 DEF Leads
<1> QED  BY <1>5, <1>6

\* A client reads the message at the head of its queue.
LEMMA ReadPaths ==
    ASSUME PathInv, ProbeInv, NEW c \in Clients, Attached(c), NEW m, ClientReads(c, m),
           UNCHANGED <<phase, peer, round, packets>>,
           \A d \in Clients \ {c} : /\ cphase'[d] = cphase[d] /\ cround'[d] = cround[d]
                                    /\ cpackets'[d] = cpackets[d],
           \A p \in Places : Takes(c, Stands(c), m, p) /\ Attached(c)' => Stands(c)' = p
    PROVE  \A d \in Clients : Attached(d)' => \E path : Leads(d, path)'
<1> TAKE d \in Clients
<1>1. SUFFICES ASSUME Attached(d)' PROVE \E path : Leads(d, path)'
    OBVIOUS
<1>2. /\ down \in [Clients -> Seq(Messages)] /\ down[c] # <<>> /\ m = Head(down[c])
      /\ down' = [down EXCEPT ![c] = Tail(down[c])]
    BY DEF ProbeInv, ClientTypeOK, ClientReads
<1>3. HostAt' = HostAt
    BY DEF HostAt
<1>4. CASE d = c
    <2>1. PICK path : Leads(c, path)
        BY DEF PathInv
    <2>2. IsPath(c, path, down[c]) /\ path[1] = Stands(c)
        BY <2>1 DEF Leads
    <2>3. /\ Takes(c, path[1], m, path[2])
          /\ IsPath(c, Tail(path), Tail(down[c]))
          /\ Tail(path)[1] = path[2]
          /\ Tail(path)[Len(Tail(path))] = path[Len(path)]
        <3>1. down[c] \in Seq(Messages) /\ down[c] # <<>>
            BY <1>2
        <3>2. /\ Takes(c, path[1], Head(down[c]), path[2])
              /\ IsPath(c, Tail(path), Tail(down[c]))
              /\ Tail(path)[1] = path[2]
              /\ Tail(path)[Len(Tail(path))] = path[Len(path)]
            BY ONLY <2>2, <3>1, c \in Clients, PathShrinks
        <3> QED  BY <1>2, <3>2
    <2>4. path[2] \in Places
        <3>1. path \in Seq(Places) /\ Len(path) = Len(down[c]) + 1 /\ Len(down[c]) \in Nat \ {0}
            BY <1>2, <2>2 DEF IsPath
        <3> QED  BY <3>1
    <2>5. Stands(c)' = path[2]
        BY <1>1, <1>4, <2>2, <2>3, <2>4
    <2>6. down'[c] = Tail(down[c])
        BY <1>2
    <2>7. Leads(c, Tail(path))'
        BY <1>3, <2>1, <2>3, <2>5, <2>6 DEF Leads
    <2> QED  BY <1>4, <2>7
<1>5. CASE d # c
    <2>1. /\ down'[d] = down[d] /\ Stands(d)' = Stands(d)
          /\ Attached(d)
        BY <1>1, <1>2, <1>5 DEF Stands, Attached
    <2>2. PICK path : Leads(d, path)
        BY <2>1 DEF PathInv
    <2> QED  BY <1>3, <2>1, <2>2 DEF Leads
<1> QED  BY <1>4, <1>5

LEMMA PathHostStep ==
    ASSUME HostInv, ProbeInv, PathInv,
           LegacyKnock \/ AskStop \/ ServeStep \/ SendUnit \/ ServeMishap \/ EndStep
    PROVE  PathInv'
<1> DEFINE Paths == \A c \in Clients : Attached(c) => \E path : Leads(c, path)
<1>t. /\ round \in Nat /\ packets \in Nat /\ round <= Rounds /\ packets <= Burst
      /\ Rounds \in Nat \ {0} /\ Burst \in Nat \ {0}
    BY ProbeAssumption DEF HostInv, HostTypeOK
<1>p. phase \notin Waiting => peer \in Clients
    BY ServingHasPeer
<1>q. ASSUME UNCHANGED <<cphase, cround, cpackets, down>>,
             peer' = peer \/ peer' = NoClient,
             phase' \notin Ending /\ peer' = peer =>
                (phase \notin Ending /\ HostAt' = HostAt) \/ peer = NoClient
      PROVE  Paths'
    BY <1>q, QuietPaths
<1>w. ASSUME phase \notin Ending \cup Waiting, NEW m \in Messages, NEW p \in Places,
             UNCHANGED <<cphase, cround, cpackets, peer>>, HostWrites(peer, m),
             Takes(peer, HostAt, m, p), phase' \notin Ending => HostAt' = p
      PROVE  Paths'
    BY <1>w, <1>p, WrittenPaths
<1> HIDE DEF Paths
<1> USE DEF Ending, Waiting
<1>1. CASE LegacyKnock \/ AskStop
    <2>1. Paths'
        BY <1>1, <1>q
        DEF LegacyKnock, AskStop, HostAt, probeVars, clientVars, receiverVars, HostInv, HostTypeOK
    <2> QED  BY <1>1, <2>1 DEF LegacyKnock, AskStop, PathInv, Paths, probeVars
<1>2. CASE HostHello
    <2>1. /\ HostAt = Place("hello", 0, 0) /\ HostAt' = Place("config", 0, 0)
          /\ HostWrites(peer, Hello) /\ UNCHANGED <<cphase, cround, cpackets, peer>>
          /\ phase = "hello" /\ phase' = "capabilities" /\ UNCHANGED <<round, packets>>
        BY <1>2 DEF HostHello, HostAt, receiverVars, probeVars
    <2>2. Hello \in Messages /\ Place("config", 0, 0) \in Places
        BY MessagesHaveTheirType DEF Place, Places
    <2>3. Takes(peer, HostAt, Hello, Place("config", 0, 0))
        BY <2>1 DEF Takes, Place
    <2>4. Paths'
        BY <2>1, <2>2, <2>3, <1>w
    <2> QED  BY <2>1, <2>4 DEF PathInv, Paths
<1>3. CASE HostConfigures
    <2>1. /\ HostAt = Place("config", 0, 0)
          /\ HostWrites(peer, SessionConfig) /\ UNCHANGED <<cphase, cround, cpackets, peer>>
          /\ phase = "capabilities" /\ phase' \in {"ready", "probe"} /\ UNCHANGED <<round, packets>>
        BY <1>3 DEF HostConfigures, HostAt, receiverVars, probeVars
    <2>2. SessionConfig \in Messages /\ Place("validate", 0, 0) \in Places
        BY MessagesHaveTheirType DEF Place, Places
    <2>3. Takes(peer, HostAt, SessionConfig, Place("validate", 0, 0))
        BY <2>1 DEF Takes, Place
    <2>5. round = 0 /\ packets = 0
        BY <2>1 DEF HostInv, PathInv
    <2>6. HostAt' = Place("validate", 0, 0)
        BY <2>1, <2>5 DEF HostAt
    <2>4. Paths'
        BY <2>1, <2>2, <2>3, <2>6, <1>w
    <2> QED  BY <2>1, <2>4, <2>5 DEF PathInv, Paths
<1>4. CASE HostProbes
    <2>1. /\ HostAt = Place("validate", round, packets) /\ packets < Burst
          /\ HostWrites(peer, Probe(round)) /\ UNCHANGED <<cphase, cround, cpackets, peer>>
          /\ phase = "probe" /\ phase' = "probe" /\ round' = round /\ packets' = packets + 1
        BY <1>4 DEF HostProbes, HostAt, receiverVars
    <2>2. Probe(round) \in Messages /\ Place("validate", round, packets + 1) \in Places
        BY <1>t, MessagesHaveTheirType DEF Place, Places
    <2>3. Takes(peer, HostAt, Probe(round), Place("validate", round, packets + 1))
        BY <2>1 DEF Takes, Place, HostInv
    <2>6. HostAt' = Place("validate", round, packets + 1)
        BY <2>1 DEF HostAt
    <2>4. Paths'
        BY <2>1, <2>2, <2>3, <2>6, <1>w
    <2> QED  BY <2>1, <2>4 DEF PathInv, Paths
<1>5. CASE HostPings
    <2>1. /\ HostAt = Place("validate", round, packets) /\ packets = Burst
          /\ HostWrites(peer, Ping(round)) /\ UNCHANGED <<cphase, cround, cpackets, peer>>
          /\ phase = "probe" /\ phase' = "pong" /\ round' = round /\ packets' = packets
        BY <1>5 DEF HostPings, HostAt, receiverVars, probeVars
    <2>2. Ping(round) \in Messages /\ Place("validate", round + 1, 0) \in Places
        BY <1>t, MessagesHaveTheirType DEF Place, Places
    <2>3. Takes(peer, HostAt, Ping(round), Place("validate", round + 1, 0))
        BY <2>1 DEF Takes, Place, HostInv
    <2>6. HostAt' = Place("validate", round + 1, 0)
        BY <2>1 DEF HostAt
    <2>4. Paths'
        BY <2>1, <2>2, <2>3, <2>6, <1>w
    <2> QED  BY <2>1, <2>4 DEF PathInv, Paths
<1>6. CASE HostTakesPong
    <2>1. /\ UNCHANGED <<cphase, cround, cpackets, down, peer>>
          /\ phase = "pong" /\ round' = round + 1 /\ packets' = 0
          /\ phase' = IF round + 1 < Rounds THEN "probe" ELSE "ready"
        BY <1>6 DEF HostTakesPong, receiverVars
    <2>2. HostAt = Place("validate", round + 1, 0) /\ HostAt' = Place("validate", round + 1, 0)
        BY <2>1 DEF HostAt
    <2>3. Paths'
        BY <2>1, <2>2, <1>q
    <2>4. phase' = "ready" => round' = Rounds
        BY <1>t, <2>1 DEF HostInv
    <2> QED  BY <2>1, <2>3, <2>4 DEF PathInv, Paths
<1>7. CASE ValidationFails
    <2>1. /\ UNCHANGED <<cphase, cround, cpackets, peer>>
          /\ phase \in {"probe", "pong", "ready"} /\ phase' \in Ending
          /\ HostWrites(peer, Error2) \/ UNCHANGED down
        BY <1>7 DEF ValidationFails, Ends, HostWrites, receiverVars
    <2>2. Error2 \in Messages /\ Place("end", 0, 0) \in Places
        BY MessagesHaveTheirType DEF Place, Places
    <2>3. Takes(peer, HostAt, Error2, Place("end", 0, 0))
        BY <2>1 DEF Takes, Place, HostAt
    <2>4. CASE HostWrites(peer, Error2)
        <3>1. Paths'
            BY <2>1, <2>2, <2>3, <2>4, <1>w
        <3> QED  BY <2>1, <3>1 DEF PathInv, Paths
    <2>5. CASE UNCHANGED down
        <3>1. Paths'
            BY <2>1, <2>5, <1>q
        <3> QED  BY <2>1, <3>1 DEF PathInv, Paths
    <2> QED  BY <2>1, <2>4, <2>5
<1>8. CASE HostActivates \/ AcquireDisplay
    <2>1. /\ UNCHANGED <<cphase, cround, cpackets, down, peer, round, packets>>
          /\ \/ phase \in {"ready", "display"} /\ phase' \in {"display", "start"}
             \/ phase = "capture" /\ phase' = "capture"
        BY <1>8 DEF HostActivates, AcquireDisplay, receiverVars, clientVars, probeVars
    <2>2. HostAt' = HostAt
        BY <2>1 DEF HostAt
    <2>3. Paths'
        BY <2>1, <2>2, <1>q
    <2> QED  BY <2>1, <2>3 DEF PathInv, Paths
<1>9. CASE SendStart
    <2>1. /\ HostAt = Place("validate", round, 0)
          /\ HostWrites(peer, Start) /\ UNCHANGED <<cphase, cround, cpackets, peer>>
          /\ phase = "start" /\ phase' = "capture" /\ UNCHANGED <<round, packets>>
        BY <1>9 DEF SendStart, HostAt, receiverVars, probeVars
    <2>2. Start \in Messages /\ Place("play", 0, 0) \in Places
        BY MessagesHaveTheirType DEF Place, Places
    <2>3. Takes(peer, HostAt, Start, Place("play", 0, 0))
        BY <2>1 DEF Takes, Place, PathInv
    <2>6. HostAt' = Place("play", 0, 0)
        BY <2>1 DEF HostAt
    <2>4. Paths'
        BY <2>1, <2>2, <2>3, <2>6, <1>w
    <2> QED  BY <2>1, <2>4 DEF PathInv, Paths
<1>10. CASE SpawnEncoder
    <2>1. /\ UNCHANGED <<cphase, cround, cpackets, down, peer, round, packets>>
          /\ phase = "capture" /\ phase' = "stream"
        BY <1>10 DEF SpawnEncoder, receiverVars, clientVars, probeVars
    <2>2. HostAt' = HostAt
        BY <2>1 DEF HostAt
    <2>3. Paths'
        BY <2>1, <2>2, <1>q
    <2> QED  BY <2>1, <2>3 DEF PathInv, Paths
<1>11. CASE SendUnit
    <2>1. /\ HostAt = Place("play", 0, 0) /\ HostAt' = Place("play", 0, 0)
          /\ HostWrites(peer, Unit) /\ UNCHANGED <<cphase, cround, cpackets, peer>>
          /\ phase = "stream" /\ phase' = "stream" /\ UNCHANGED <<round, packets>>
        BY <1>11 DEF SendUnit, HostAt, receiverVars, probeVars
    <2>2. Unit \in Messages /\ Place("play", 0, 0) \in Places
        BY MessagesHaveTheirType DEF Place, Places
    <2>3. Takes(peer, HostAt, Unit, Place("play", 0, 0))
        BY <2>1 DEF Takes, Place
    <2>4. Paths'
        BY <2>1, <2>2, <2>3, <1>w
    <2> QED  BY <2>1, <2>4 DEF PathInv, Paths
<1>12. CASE SendStop
    <2>1. /\ HostAt = Place("play", 0, 0) /\ phase' \in Ending
          /\ HostWrites(peer, Stop) /\ UNCHANGED <<cphase, cround, cpackets, peer>>
          /\ phase = "stream"
        BY <1>12 DEF SendStop, Ends, HostAt, receiverVars
    <2>2. Stop \in Messages /\ Place("end", 0, 0) \in Places
        BY MessagesHaveTheirType DEF Place, Places
    <2>3. Takes(peer, HostAt, Stop, Place("end", 0, 0))
        BY <2>1 DEF Takes, Place
    <2>4. Paths'
        BY <2>1, <2>2, <2>3, <1>w
    <2> QED  BY <2>1, <2>4 DEF PathInv, Paths
<1>13. CASE HostDeclines \/ ReadyButStopped \/ StartupFails \/ EncoderFails \/ TimesOut \/ PeerGone
    <2>1. /\ UNCHANGED <<cphase, cround, cpackets, down, peer>>
          /\ phase' \in Ending
        BY <1>13
        DEF HostDeclines, ReadyButStopped, StartupFails, EncoderFails, TimesOut, PeerGone,
            Ends, receiverVars, clientVars
    <2>2. Paths'
        BY <2>1, <1>q
    <2> QED  BY <2>1, <2>2 DEF PathInv, Paths
<1>14. CASE ReapEncoder \/ ReleaseDisplay \/ HostStopped
    <2>1. /\ UNCHANGED <<cphase, cround, cpackets, down, peer>>
          /\ phase' \in Ending \/ (phase \in Waiting /\ phase' = "stopped")
        BY <1>14 DEF ReapEncoder, ReleaseDisplay, HostStopped, receiverVars, clientVars
    <2>2. phase \in Waiting => peer = NoClient
        BY DEF HostInv, HostTypeOK
    <2>3. Paths'
        BY <2>1, <2>2, <1>q
    <2> QED  BY <2>1, <2>3 DEF PathInv, Paths
<1>15. ASSUME NEW failed \in BOOLEAN, NEW quick \in BOOLEAN, SessionEnded(failed, quick)
       PROVE  PathInv'
    <2>1. /\ UNCHANGED <<cphase, cround, cpackets, down>> /\ peer' = NoClient
          /\ phase' \in {"unstable", "accept"} /\ phase = "ended"
        BY <1>15 DEF SessionEnded, receiverVars
    <2>2. peer' # peer
        BY <1>p, <2>1, NoClientAssumption
    <2>3. Paths'
        BY <2>1, <2>2, <1>q
    <2> QED  BY <2>1, <2>3 DEF PathInv, Paths
<1> QED
    BY <1>1, <1>2, <1>3, <1>4, <1>5, <1>6, <1>7, <1>8, <1>9, <1>10, <1>11, <1>12, <1>13, <1>14,
       <1>15
    DEF ServeStep, ServeMishap, EndStep

LEMMA PathAccept ==
    ASSUME HostInv, ProbeInv, PathInv, NEW c \in Clients, Accept(c)
    PROVE  PathInv'
<1>1. /\ phase' = "hello" /\ peer' = c /\ round' = 0 /\ packets' = 0
      /\ cphase' = [cphase EXCEPT ![c] = "hello"]
      /\ down' = [down EXCEPT ![c] = <<>>]
      /\ UNCHANGED <<cround, cpackets>>
    BY DEF Accept, ClientGoes
<1>2. down \in [Clients -> Seq(Messages)] /\ DOMAIN cphase = Clients
    BY DEF ProbeInv, ClientTypeOK
<1>3. ASSUME NEW d \in Clients, Attached(d)' PROVE \E path : Leads(d, path)'
    <2>1. CASE d = c
        <3>1. down'[d] = <<>> /\ cphase'[d] = "hello"
            BY <1>1, <1>2, <2>1
        <3>2. Stands(d)' = Place("hello", 0, 0) /\ HostAt' = Place("hello", 0, 0)
            BY <1>1, <3>1 DEF Stands, HostAt
        <3> DEFINE path == <<Place("hello", 0, 0)>>
        <3>3. /\ path \in Seq(Places) /\ Len(path) = 1 /\ path[1] = Place("hello", 0, 0)
              /\ Len(down'[d]) = 0
            BY <3>1 DEF Place, Places
        <3> HIDE DEF path
        <3>4. Leads(d, path)'
            BY <3>2, <3>3 DEF Leads, IsPath
        <3> QED  BY <3>4
    <2>2. CASE d # c
        <3>1. down'[d] = down[d] /\ cphase'[d] = cphase[d]
            BY <1>1, <1>2, <2>2
        <3>2. Attached(d) /\ Stands(d)' = Stands(d)
            BY <1>1, <1>3, <3>1 DEF Attached, Stands
        <3>3. PICK path : Leads(d, path)
            BY <3>2 DEF PathInv
        <3> QED  BY <1>1, <2>2, <3>1, <3>2, <3>3 DEF Leads
    <2> QED  BY <2>1, <2>2
<1> QED  BY <1>1, <1>3 DEF PathInv

\* The steps of a client: it moves along its path, or leaves it.
LEMMA PathClientStep ==
    ASSUME HostInv, ProbeInv, PathInv, NEW c \in Clients, ClientStep(c)
    PROVE  PathInv'
<1> DEFINE Paths == \A d \in Clients : Attached(d) => \E path : Leads(d, path)
<1>1. UNCHANGED <<phase, peer, round, packets>>
    BY DEF ClientStep, ClientReceives, Dial, ClientCapabilities, ClientConfigured, TakesProbe,
       TakesPing, TakesStart, TakesError, TakesUnit, TakesStop, ClientRefuses,
       ClientLost, ClientCloses, LinkDies, hostVars, probeVars
<1>2. SUFFICES Paths'
    BY <1>1 DEF PathInv
<1>t. /\ cphase \in [Clients -> {"idle", "queued", "hello", "config", "validate",
                                 "play", "finished", "refused", "closed"}]
      /\ DOMAIN cround = Clients /\ DOMAIN cpackets = Clients
      /\ cround[c] \in Nat /\ cpackets[c] \in Nat /\ Rounds \in Nat
    BY ProbeAssumption DEF ProbeInv, ClientTypeOK
<1>f. /\ \A v : cphase' = [cphase EXCEPT ![c] = v] =>
               cphase'[c] = v /\ \A d \in Clients \ {c} : cphase'[d] = cphase[d]
      /\ \A v : cround' = [cround EXCEPT ![c] = v] =>
               cround'[c] = v /\ \A d \in Clients \ {c} : cround'[d] = cround[d]
      /\ \A v : cpackets' = [cpackets EXCEPT ![c] = v] =>
               cpackets'[c] = v /\ \A d \in Clients \ {c} : cpackets'[d] = cpackets[d]
    BY <1>t
<1>r. ASSUME Attached(c), NEW m, ClientReads(c, m),
             \A d \in Clients \ {c} : /\ cphase'[d] = cphase[d] /\ cround'[d] = cround[d]
                                      /\ cpackets'[d] = cpackets[d],
             \A p \in Places : Takes(c, Stands(c), m, p) /\ Attached(c)' => Stands(c)' = p
      PROVE  Paths'
    BY <1>1, <1>r, ReadPaths
<1>l. ASSUME UNCHANGED down, ~Attached(c)',
             \A d \in Clients \ {c} : /\ cphase'[d] = cphase[d] /\ cround'[d] = cround[d]
                                      /\ cpackets'[d] = cpackets[d]
      PROVE  Paths'
    <2> SUFFICES ASSUME NEW d \in Clients, Attached(d)' PROVE \E path : Leads(d, path)'
        OBVIOUS
    <2>1. d # c /\ Attached(d) /\ Stands(d)' = Stands(d)
        BY <1>l DEF Attached, Stands
    <2>2. PICK path : Leads(d, path)
        BY <2>1 DEF PathInv
    <2>3. HostAt' = HostAt
        BY <1>1 DEF HostAt
    <2> QED  BY <1>1, <1>l, <2>1, <2>2, <2>3 DEF Leads
<1> HIDE DEF Paths
<1> USE DEF receiverVars, ClientGoes, ForgetProbe
<1>3. CASE Dial(c) \/ ClientLost(c) \/ ClientCloses(c)
    <2>1. /\ UNCHANGED down
          /\ \E v \in {"queued", "idle", "closed"} : cphase' = [cphase EXCEPT ![c] = v]
          /\ UNCHANGED cround \/ cround' = [cround EXCEPT ![c] = 0]
          /\ UNCHANGED cpackets \/ cpackets' = [cpackets EXCEPT ![c] = 0]
        BY <1>3 DEF Dial, ClientLost, ClientCloses
    <2> QED  BY <2>1, <1>f, <1>l DEF Attached
<1>4. CASE LinkDies(c)
    <2>1. UNCHANGED <<cphase, cround, cpackets, down>>
        BY <1>4 DEF LinkDies
    <2>2. HostAt' = HostAt
        BY <1>1 DEF HostAt
    <2> QED  BY <1>1, <2>1, <2>2, QuietPaths, NoClientAssumption DEF Paths, PathInv, Leads, Attached, Stands
<1>5. CASE ClientReceives(c)
    <2>a. Attached(c)
        BY <1>5 DEF ClientReceives
    <2> USE DEF Takes, Stands, Place, Message, Hello, SessionConfig, Error2, Start, Unit, Stop,
                Probe, Ping
    <2>1. CASE ClientCapabilities(c)
        <3>1. /\ ClientReads(c, Hello) /\ cphase[c] = "hello"
              /\ cphase' = [cphase EXCEPT ![c] = "config"] /\ UNCHANGED <<cround, cpackets>>
            BY <2>1 DEF ClientCapabilities
        <3>2. \A p \in Places : Takes(c, Stands(c), Hello, p) /\ Attached(c)' => Stands(c)' = p
            BY <3>1, <1>f
        <3> QED  BY <2>a, <3>1, <3>2, <1>f, <1>r
    <2>2. CASE ClientConfigured(c)
        <3>1. /\ ClientReads(c, SessionConfig) /\ cphase[c] = "config"
              /\ cphase' = [cphase EXCEPT ![c] = "validate"]
              /\ cround' = [cround EXCEPT ![c] = 0] /\ cpackets' = [cpackets EXCEPT ![c] = 0]
            BY <2>2 DEF ClientConfigured
        <3>2. \A p \in Places :
                 Takes(c, Stands(c), SessionConfig, p) /\ Attached(c)' => Stands(c)' = p
            BY <3>1, <1>f
        <3> QED  BY <2>a, <3>1, <3>2, <1>f, <1>r
    <2>3. CASE TakesProbe(c)
        <3>1. /\ ClientReads(c, Probe(cround[c])) /\ cphase[c] = "validate"
              /\ UNCHANGED <<cphase, cround>>
              /\ cpackets' = [cpackets EXCEPT ![c] = cpackets[c] + 1]
            BY <2>3 DEF TakesProbe
        <3>2. \A p \in Places :
                 Takes(c, Stands(c), Probe(cround[c]), p) /\ Attached(c)' => Stands(c)' = p
            BY <3>1, <1>f
        <3> QED  BY <2>a, <3>1, <3>2, <1>f, <1>r
    <2>4. CASE TakesPing(c)
        <3>1. /\ ClientReads(c, Ping(cround[c])) /\ cphase[c] = "validate"
              /\ UNCHANGED cphase /\ cround' = [cround EXCEPT ![c] = cround[c] + 1]
              /\ cpackets' = [cpackets EXCEPT ![c] = 0]
            BY <2>4 DEF TakesPing
        <3>2. \A p \in Places :
                 Takes(c, Stands(c), Ping(cround[c]), p) /\ Attached(c)' => Stands(c)' = p
            BY <3>1, <1>f
        <3> QED  BY <2>a, <3>1, <3>2, <1>f, <1>r
    <2>5. CASE TakesStart(c)
        <3>1. /\ ClientReads(c, Start) /\ cphase[c] = "validate"
              /\ cphase' = [cphase EXCEPT ![c] = "play"]
              /\ cround' = [cround EXCEPT ![c] = 0] /\ cpackets' = [cpackets EXCEPT ![c] = 0]
            BY <2>5 DEF TakesStart
        <3>2. \A p \in Places : Takes(c, Stands(c), Start, p) /\ Attached(c)' => Stands(c)' = p
            BY <3>1, <1>f
        <3> QED  BY <2>a, <3>1, <3>2, <1>f, <1>r
    <2>6. CASE TakesError(c)
        <3>1. /\ ClientReads(c, Error2) /\ cphase' = [cphase EXCEPT ![c] = "idle"]
              /\ cround' = [cround EXCEPT ![c] = 0] /\ cpackets' = [cpackets EXCEPT ![c] = 0]
            BY <2>6 DEF TakesError
        <3>a. cphase'[c] = "idle"
            BY <3>1, <1>f
        <3>2. ~Attached(c)'
            BY ONLY <3>a DEF Attached
        <3> QED  BY <2>a, <3>1, <3>2, <1>f, <1>r
    <2>7. CASE TakesUnit(c)
        <3>1. /\ ClientReads(c, Unit) /\ cphase[c] = "play" /\ UNCHANGED <<cphase, cround, cpackets>>
            BY <2>7 DEF TakesUnit
        <3>2. \A p \in Places : Takes(c, Stands(c), Unit, p) /\ Attached(c)' => Stands(c)' = p
            BY <3>1
        <3> QED  BY <2>a, <3>1, <3>2, <1>r
    <2>8. CASE TakesStop(c)
        <3>1. /\ ClientReads(c, Stop) /\ cphase' = [cphase EXCEPT ![c] = "finished"]
              /\ UNCHANGED <<cround, cpackets>>
            BY <2>8 DEF TakesStop
        <3>a. cphase'[c] = "finished"
            BY <3>1, <1>f
        <3>2. ~Attached(c)'
            BY ONLY <3>a DEF Attached
        <3> QED  BY <2>a, <3>1, <3>2, <1>f, <1>r
    <2>9. CASE ClientRefuses(c)
        <3>1. /\ ClientReads(c, Head(down[c])) /\ cphase' = [cphase EXCEPT ![c] = "refused"]
              /\ cround' = [cround EXCEPT ![c] = 0] /\ cpackets' = [cpackets EXCEPT ![c] = 0]
            BY <2>9 DEF ClientRefuses
        <3>a. cphase'[c] = "refused"
            BY <3>1, <1>f
        <3>2. ~Attached(c)'
            BY ONLY <3>a DEF Attached
        <3> QED  BY <2>a, <3>1, <3>2, <1>f, <1>r
    <2> QED
        BY <1>5, <2>1, <2>2, <2>3, <2>4, <2>5, <2>6, <2>7, <2>8, <2>9 DEF ClientReceives
<1> QED  BY <1>3, <1>4, <1>5 DEF ClientStep, Paths

LEMMA PathStep == HostInv /\ ProbeInv /\ PathInv /\ [Next]_vars => PathInv'
<1> SUFFICES ASSUME HostInv, ProbeInv, PathInv, [Next]_vars PROVE PathInv'
    OBVIOUS
<1>1. CASE LegacyKnock \/ AskStop \/ ServeStep \/ SendUnit \/ ServeMishap \/ EndStep
    BY <1>1, PathHostStep
<1>2. CASE \E c \in Clients : Accept(c) \/ ClientStep(c)
    BY <1>2, PathAccept, PathClientStep
<1>3. CASE UNCHANGED vars
    <2>1. /\ UNCHANGED <<cphase, cround, cpackets, down, peer, phase, round, packets>>
          /\ HostAt' = HostAt
        BY <1>3 DEF vars, hostVars, clientVars, receiverVars, probeVars, HostAt
    <2> QED  BY <2>1 DEF PathInv, Leads, Attached, Stands
<1> QED  BY <1>1, <1>2, <1>3 DEF Next

\* A message at the head of a queue is one that the client takes.
LEMMA HeadIsUnderstood ==
    ASSUME ProbeInv, PathInv, NEW c \in Clients, Attached(c), down[c] # <<>>
    PROVE  Understood(c, Head(down[c]))
<1>1. PICK path : Leads(c, path)
    BY DEF PathInv
<1>2. down[c] \in Seq(Messages)
    BY DEF ProbeInv, ClientTypeOK
<1>3. Takes(c, Stands(c), Head(down[c]), path[2])
    BY <1>1, <1>2, PathShrinks DEF Leads
<1> QED  BY <1>3 DEF Takes, Understood, Stands, Place, Attached

\* Whatever the deadlines, the losses, the stops and the number of clients, what the
\* host writes is what the handshake, the ProbeReceiver and the receiver of an honest
\* client take at that point.
THEOREM EndsAgree == Spec => []HonestEndsAgree
<1>1. Init => PathInv /\ HonestEndsAgree
    BY DEF Init, PathInv, HonestEndsAgree, Attached
<1>2. HostInv /\ ProbeInv /\ PathInv /\ HonestEndsAgree /\ [Next]_vars
        => (PathInv /\ HonestEndsAgree)'
    <2> SUFFICES ASSUME HostInv, ProbeInv, PathInv, HonestEndsAgree, [Next]_vars
                 PROVE  HonestEndsAgree'
        BY PathStep
    <2>t. cphase \in [Clients -> {"idle", "queued", "hello", "config", "validate",
                                  "play", "finished", "refused", "closed"}]
        BY DEF ProbeInv, ClientTypeOK
    <2>1. ASSUME NEW c \in Clients, ClientStep(c) PROVE HonestEndsAgree'
        <3>1. ~ClientRefuses(c)
            BY HeadIsUnderstood DEF ClientRefuses
        <3>2. UNCHANGED cphase \/ \E v : v # "refused" /\ cphase' = [cphase EXCEPT ![c] = v]
            BY <2>1, <3>1
            DEF ClientStep, ClientReceives, Dial, ClientCapabilities, ClientConfigured, TakesProbe,
                TakesPing, TakesStart, TakesError, TakesUnit, TakesStop, ClientLost, ClientCloses,
                LinkDies, ClientGoes
        <3> QED  BY <2>t, <3>2 DEF HonestEndsAgree
    <2>2. ASSUME NEW c \in Clients, Accept(c) PROVE HonestEndsAgree'
        BY <2>t, <2>2 DEF Accept, ClientGoes, HonestEndsAgree
    <2>3. CASE LegacyKnock \/ AskStop \/ ServeStep \/ SendUnit \/ ServeMishap \/ EndStep
        <3>1. UNCHANGED cphase
            BY <2>3
            DEF LegacyKnock, AskStop, ServeStep, ServeMishap, EndStep, SendUnit, HostHello,
                HostConfigures, HostProbes, HostPings, HostTakesPong, ValidationFails,
                HostActivates, ReadyButStopped, AcquireDisplay, SendStart, SpawnEncoder, SendStop,
                TimesOut, PeerGone, HostDeclines, StartupFails, EncoderFails, ReapEncoder,
                ReleaseDisplay, HostStopped, SessionEnded, clientVars
        <3> QED  BY <3>1 DEF HonestEndsAgree
    <2>4. CASE UNCHANGED vars
        BY <2>4 DEF vars, clientVars, HonestEndsAgree
    <2> QED  BY <2>1, <2>2, <2>3, <2>4 DEF Next
<1> QED  BY <1>1, <1>2, Invariance, PTL DEF Spec
=============================================================================
