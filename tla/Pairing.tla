------------------------------ MODULE Pairing ------------------------------
(***************************************************************************)
(* Admission of a client by the host and the pairing ceremony of           *)
(* docs/adr/0022: crates/windowdeck-transport/src/{secure,pairing}.rs,     *)
(* crates/windowdeck-host/src/security.rs, the client in                   *)
(* crates/windowdeck-client/src/{main,pairing}.rs and the panel in         *)
(* crates/windowdeck-launcher/src/model.rs.                                *)
(*                                                                         *)
(* One host serves one connection at a time.  A connection is identified   *)
(* by <<c, n>>: the n-th dial of client c.  The identity stands for the    *)
(* Noise transcript, for the code both screens show and for the random id  *)
(* of the panel's request, all of which are fresh per connection.          *)
(*                                                                         *)
(* Bounds: MaxDials[c] dials by client c, MaxClicks unread clicks.           *)
(***************************************************************************)
EXTENDS Integers, Sequences

CONSTANTS
    Clients,    \* the devices that run windowdeck-client
    NoConn,     \* "no connection"
    MaxFailed,  \* MAX_FAILED_PAIRINGS
    MaxDials,   \* bound on the connections each client opens, per client
    MaxClicks   \* bound on the clicks a ceremony has not read yet

ASSUME NoConnAssumption == NoConn \notin Clients \X Nat
ASSUME MaxFailedAssumption == MaxFailed \in Nat \ {0}
ASSUME MaxDialsAssumption == MaxDials \in [Clients -> Nat]
ASSUME MaxClicksAssumption == MaxClicks \in Nat

VARIABLES
    \* The host process (Security and the loop of run_server).
    hostPhase,    \* where its single thread is
    served,       \* the connection it is serving, or NoConn
    toHost,       \* control frames of that connection still to be read
    hostLocal,    \* confirm(): "yes" for local = Some(true)
    hostRemote,   \* confirm(): "yes" for remote = Some(true)
    lingering,    \* the outcome confirm() returns once refuse() has lingered
    failed,       \* Security.failed_pairings
    approval,     \* Security.approval
    hostTrust,    \* the devices of the host's trust list
    \* The panel and the files and pipe between it and the host.
    panel,        \* Panel.state, reduced to what pairing depends on
    shown,        \* Panel.pairing: the id of the request on screen
    buttons,      \* "enabled" while the request on screen is not answered
    decisionFile, \* the answer in WINDOWDECK_PAIRING_FILE
    hostOut,      \* lines of the host's output the panel has not read
    \* Each client process.
    stage,        \* which connect of connect_paired comes next
    phase,        \* where the client's connecting thread is
    dials,        \* connections opened so far
    known,        \* the clients whose is_paired said yes in this connection
    toClient,     \* control frames still to be read
    clientLocal, clientRemote,
    clicks,       \* decisions the window has sent to the ceremony thread
    waiting,      \* the clients whose window shows Screen::Waiting
    clientTrust,  \* the clients whose trust list holds the host
    \* History.
    log,          \* <<who, what, connection>> of clicks and outcomes
    misses        \* requests shown since the last start or success that failed

hostVars == <<hostPhase, served, toHost, hostLocal, hostRemote, lingering,
              failed, approval, hostTrust>>
panelVars == <<panel, shown, buttons, decisionFile, hostOut>>
clientVars == <<stage, phase, dials, known, toClient, clientLocal,
                clientRemote, clicks, waiting, clientTrust>>
vars == <<hostVars, panelVars, clientVars, log, misses>>

-----------------------------------------------------------------------------

Conns == Clients \X Nat
Verdicts == {"none", "yes"}
NoAnswer == <<NoConn, "none">>
Dev(id) == id[1]

\* The connection client c is on (meaningful while phase[c] # "off").
Conn(c) == <<c, dials[c]>>

Hellos == {"session", "pairKnown", "pairNew"}
ClientMessages == Hellos \cup {"commit", "reveal", "yes", "no"}
HostMessages == {"accepted", "notPaired", "tooMany", "unavailable", "required",
                 "nonce", "yes", "no"}
Ceremony == {"commit", "reveal", "confirm", "linger", "store"}
HostPhases == {"down", "listening", "handshake", "session"} \cup Ceremony
ClientPhases == {"off", "dialed", "await", "nonce", "confirm", "linger",
                 "store", "session"}
Refusals == {"rejected", "expired", "cancelled"}
Lines == {"ask", "result"} \X Conns

\* Whether client c still holds its end of the connection the host serves.
Attached(c) == served = Conn(c) /\ phase[c] # "off"

\* A frame is lost when the other end has closed.
HostSends(m) ==
    toClient' = IF served # NoConn /\ Attached(Dev(served))
                THEN [toClient EXCEPT ![Dev(served)] = Append(@, m)]
                ELSE toClient

ClientSends(c, m) ==
    toHost' = IF served = Conn(c) /\ hostPhase # "linger"
              THEN Append(toHost, m) ELSE toHost

\* Nobody is paired.  A client may have asked for a session before and learned
\* that the PC and itself do not know each other.
Init ==
    /\ hostPhase = "down"
    /\ served = NoConn
    /\ toHost = <<>>
    /\ hostLocal = "none"
    /\ hostRemote = "none"
    /\ lingering = "none"
    /\ failed = 0
    /\ approval = "panel"
    /\ hostTrust = {}
    /\ panel = "stopped"
    /\ shown = NoConn
    /\ buttons = "disabled"
    /\ decisionFile = NoAnswer
    /\ hostOut = <<>>
    /\ stage \in [Clients -> {"first", "pair"}]
    /\ phase = [c \in Clients |-> "off"]
    /\ dials = [c \in Clients |-> 0]
    /\ known = {}
    /\ toClient = [c \in Clients |-> <<>>]
    /\ clientLocal = [c \in Clients |-> "none"]
    /\ clientRemote = [c \in Clients |-> "none"]
    /\ clicks = [c \in Clients |-> <<>>]
    /\ waiting = {}
    /\ clientTrust = {}
    /\ log = {}
    /\ misses = 0

-----------------------------------------------------------------------------
(* The host thread *)

\* Variant: the stream outlives the iteration of the accept loop.
HostCloseKeepsStream ==
    /\ hostPhase' = "listening"
    /\ UNCHANGED served
    /\ toHost' = <<>>
    /\ hostLocal' = "none"
    /\ hostRemote' = "none"
    /\ lingering' = "none"

\* What every return to the accept loop does: the stream is dropped.
HostClose ==
    /\ hostPhase' = "listening"
    /\ served' = NoConn
    /\ toHost' = <<>>
    /\ hostLocal' = "none"
    /\ hostRemote' = "none"
    /\ lingering' = "none"

\* run_server accepts the next connection of the backlog.
HostAccept(c) ==
    /\ hostPhase = "listening"
    /\ phase[c] = "dialed"
    /\ hostPhase' = "handshake"
    /\ served' = Conn(c)
    /\ UNCHANGED <<toHost, hostLocal, hostRemote, lingering, failed, approval,
                   hostTrust, panelVars, clientVars, log, misses>>

\* decide(): a session is for a paired device only.  The list is read and
\* answered in one step: a revocation between the two falls in the session.
AdmitSession ==
    /\ Head(toHost) = "session"
    /\ Dev(served) \in hostTrust
    /\ HostSends("accepted")
    /\ hostPhase' = "session"
    /\ toHost' = Tail(toHost)
    /\ UNCHANGED <<served, hostLocal, hostRemote, lingering, decisionFile>>

RejectSession ==
    /\ Head(toHost) = "session"
    /\ Dev(served) \notin hostTrust
    /\ HostSends("notPaired")
    /\ HostClose
    /\ UNCHANGED decisionFile

\* Variant: the host's own list is enough, whatever the client knows.
ConfirmOneSided ==
    /\ Head(toHost) \in {"pairKnown", "pairNew"}
    /\ Dev(served) \in hostTrust
    /\ HostSends("accepted")
    /\ HostClose
    /\ UNCHANGED decisionFile

\* decide(): both ends already hold each other's key, so no ceremony.
ConfirmPaired ==
    /\ Head(toHost) = "pairKnown"
    /\ Dev(served) \in hostTrust
    /\ HostSends("accepted")
    /\ HostClose
    /\ UNCHANGED decisionFile

NeedsCeremony ==
    \/ Head(toHost) = "pairNew"
    \/ Head(toHost) = "pairKnown" /\ Dev(served) \notin hostTrust

\* pair(): the refusals that come before anything is shown.
RefuseCeremony ==
    /\ NeedsCeremony
    /\ \/ failed >= MaxFailed /\ HostSends("tooMany")
       \/ failed < MaxFailed /\ approval = "none" /\ HostSends("unavailable")
    /\ HostClose
    /\ UNCHANGED decisionFile

\* pair(): PairingRequired, then PanelPrompt::new removes an old answer.
BeginCeremony ==
    /\ NeedsCeremony
    /\ failed < MaxFailed
    /\ approval = "panel"
    /\ HostSends("required")
    /\ hostPhase' = "commit"
    /\ toHost' = Tail(toHost)
    /\ decisionFile' = NoAnswer
    /\ UNCHANGED <<served, hostLocal, hostRemote, lingering>>

HostDecide ==
    /\ hostPhase = "handshake"
    /\ toHost # <<>>
    /\ \/ AdmitSession
       \/ RejectSession
       \/ ConfirmPaired
       \/ RefuseCeremony
       \/ BeginCeremony
    /\ UNCHANGED <<failed, approval, hostTrust, panel, shown,
                   buttons, hostOut, stage, phase, dials, known, clientLocal,
                   clientRemote, clicks, waiting, clientTrust, log,
                   misses>>

\* pair_as_host: the client's commitment is answered with the host's value.
HostCommit ==
    /\ hostPhase = "commit"
    /\ toHost # <<>>
    /\ Head(toHost) = "commit"
    /\ HostSends("nonce")
    /\ toHost' = Tail(toHost)
    /\ hostPhase' = "reveal"
    /\ UNCHANGED <<served, hostLocal, hostRemote, lingering, failed, approval,
                   hostTrust, panelVars, stage, phase, dials, known,
                   clientLocal, clientRemote, clicks, waiting,
                   clientTrust, log, misses>>

\* pair_as_host: the revealed value; confirm() shows the request on the panel.
HostReveal ==
    /\ hostPhase = "reveal"
    /\ toHost # <<>>
    /\ Head(toHost) = "reveal"
    /\ toHost' = Tail(toHost)
    /\ hostPhase' = "confirm"
    /\ hostOut' = Append(hostOut, <<"ask", served>>)
    /\ UNCHANGED <<served, hostLocal, hostRemote, lingering, failed, approval,
                   hostTrust, panel, shown, buttons, decisionFile, clientVars,
                   log, misses>>

\* Variant: the id in the answer file is not compared.
AnyAnswerIsOurs(answer) ==
    decisionFile[1] # NoConn /\ decisionFile[2] = answer

\* PanelPrompt::decision accepts an answer that carries this request's id.
AnswerIsOurs(answer) == decisionFile = <<served, answer>>

\* confirm() returns Outcome::Paired.
BothAccepted ==
    /\ hostPhase' = "store"
    /\ hostLocal' = "none"
    /\ hostRemote' = "none"

\* confirm(): the panel's answer is read once, and accepted ...
HostReadsYes ==
    /\ hostPhase = "confirm"
    /\ hostLocal = "none"
    /\ AnswerIsOurs("accept")
    /\ decisionFile' = NoAnswer
    /\ HostSends("yes")
    /\ \/ hostRemote = "yes" /\ BothAccepted
       \/ /\ hostRemote = "none"
          /\ hostLocal' = "yes"
          /\ UNCHANGED <<hostPhase, hostRemote>>
    /\ UNCHANGED <<served, toHost, lingering, failed, approval, hostTrust,
                   panel, shown, buttons, hostOut, stage, phase, dials, known,
                   clientLocal, clientRemote, clicks, waiting, clientTrust, log,
                   misses>>

\* Variant: the verdict that is sent does not depend on the decision.
HostRefusesAloud(outcome) ==
    /\ HostSends("yes")
    /\ hostPhase' = "linger"
    /\ lingering' = outcome
    /\ log' = IF outcome = "rejected"
              THEN log \cup {<<"host", "rejected", served>>} ELSE log
    /\ hostLocal' = "none"
    /\ hostRemote' = "none"
    /\ toHost' = <<>>
    /\ UNCHANGED <<served, failed, approval,
                   hostTrust, panel, shown, buttons, hostOut, stage, phase,
                   dials, known, clientLocal, clientRemote, clicks, waiting,
                   clientTrust, misses>>

\* refuse(): a negative verdict, then the stream lingers and drops what comes.
HostRefuses(outcome) ==
    /\ HostSends("no")
    /\ hostPhase' = "linger"
    /\ lingering' = outcome
    /\ log' = IF outcome = "rejected"
              THEN log \cup {<<"host", "rejected", served>>} ELSE log
    /\ hostLocal' = "none"
    /\ hostRemote' = "none"
    /\ toHost' = <<>>
    /\ UNCHANGED <<served, failed, approval,
                   hostTrust, panel, shown, buttons, hostOut, stage, phase,
                   dials, known, clientLocal, clientRemote, clicks, waiting,
                   clientTrust, misses>>

\* ... or rejected.
HostReadsNo ==
    /\ hostPhase = "confirm"
    /\ hostLocal = "none"
    /\ AnswerIsOurs("reject")
    /\ decisionFile' = NoAnswer
    /\ HostRefuses("rejected")

\* confirm(): the two minutes are over, or the owner pressed Stop.
HostExpires ==
    /\ hostPhase = "confirm"
    /\ HostRefuses("expired")
    /\ UNCHANGED decisionFile

HostCancels ==
    /\ hostPhase = "confirm"
    /\ panel = "stopping"
    /\ HostRefuses("cancelled")
    /\ UNCHANGED decisionFile

\* confirm(): the other person's verdict, read once.
HostReadsVerdict ==
    /\ hostPhase = "confirm"
    /\ hostRemote = "none"
    /\ toHost # <<>>
    /\ Head(toHost) = "yes"
    /\ toHost' = Tail(toHost)
    /\ \/ hostLocal = "yes" /\ BothAccepted
       \/ /\ hostLocal = "none"
          /\ hostRemote' = "yes"
          /\ UNCHANGED <<hostPhase, hostLocal>>
    /\ UNCHANGED <<served, lingering, failed, approval, hostTrust,
                   panelVars, clientVars, log, misses>>

\* Variant: only what somebody rejected is counted.
CountsRejections(outcome) == outcome \in {"rejected", "rejectedByDevice"}

\* The outcomes pair() counts as failed attempts.
Counts(outcome) == outcome # "cancelled"

\* Variant: a ceremony that did not pair is not reported to the panel.
HostFinishSilently(outcome) ==
    /\ failed' = IF Counts(outcome) THEN failed + 1 ELSE failed
    /\ misses' = IF hostPhase \in {"confirm", "linger"} /\ outcome # "cancelled"
                 THEN misses + 1 ELSE misses
    /\ decisionFile' = NoAnswer
    /\ HostClose
    /\ UNCHANGED <<approval, hostTrust, panel, shown, buttons, hostOut,
                   clientVars, log>>

\* The end of pair() for a ceremony that did not pair: the failure is counted,
\* the answer file goes and the panel is told.
HostFinish(outcome) ==
    /\ failed' = IF Counts(outcome) THEN failed + 1 ELSE failed
    /\ misses' = IF hostPhase \in {"confirm", "linger"} /\ outcome # "cancelled"
                 THEN misses + 1 ELSE misses
    /\ decisionFile' = NoAnswer
    /\ hostOut' = Append(hostOut, <<"result", served>>)
    /\ HostClose
    /\ UNCHANGED <<approval, hostTrust, panel, shown, buttons, clientVars, log>>

HostLingerEnds == hostPhase = "linger" /\ HostFinish(lingering)

HostReadsRefusal ==
    /\ hostPhase = "confirm"
    /\ hostRemote = "none"
    /\ toHost # <<>>
    /\ Head(toHost) = "no"
    /\ HostFinish("rejectedByDevice")

\* A read that times out in the exchange of values, a closed or broken
\* connection, a frame out of place, an unreadable answer file.
CeremonyFails ==
    /\ hostPhase \in {"commit", "reveal", "confirm"}
    /\ HostFinish("failed")

\* Variant: no read timeout on the handshake; only a client that leaves ends it.
HandshakeWaits ==
    /\ hostPhase = "handshake"
    /\ ~Attached(Dev(served))
    /\ HostClose
    /\ UNCHANGED <<failed, approval, hostTrust, panelVars,
                   clientVars, log, misses>>

\* The same before decide(): the connection ends without a trace.
HandshakeFails ==
    /\ hostPhase = "handshake"
    /\ HostClose
    /\ UNCHANGED <<failed, approval, hostTrust, panelVars,
                   clientVars, log, misses>>

\* Outcome::Paired: the key is stored and the failures are forgotten.
HostStores ==
    /\ hostPhase = "store"
    /\ hostTrust' = hostTrust \cup {Dev(served)}
    /\ failed' = 0
    /\ misses' = 0
    /\ decisionFile' = NoAnswer
    /\ hostOut' = Append(hostOut, <<"result", served>>)
    /\ log' = log \cup {<<"host", "paired", served>>}
    /\ HostClose
    /\ UNCHANGED <<approval, panel, shown, buttons, clientVars>>

\* trust.add fails: pair() returns at once, without count, result or clean-up.
HostStoreFails ==
    /\ hostPhase = "store"
    /\ log' = log \cup {<<"host", "storeFailed", served>>}
    /\ HostClose
    /\ UNCHANGED <<failed, approval, hostTrust, panelVars,
                   clientVars, misses>>

\* Variant: the list is written back, as it was when the session began, to
\* remember when the device was last here.
HostSessionEndsRemembers ==
    /\ hostPhase = "session"
    /\ hostTrust' = hostTrust \cup {Dev(served)}
    /\ HostClose
    /\ UNCHANGED <<failed, approval, panelVars, clientVars, log, misses>>

\* serve() returns: the client left, the stream failed or the owner stopped.
HostSessionEnds ==
    /\ hostPhase = "session"
    /\ HostClose
    /\ UNCHANGED <<failed, approval, hostTrust, panelVars,
                   clientVars, log, misses>>

\* The process ends: run_server sees the stop file, or the worker kills it, or
\* it crashes.  Only the trust list survives.
HostDown ==
    /\ hostPhase' = "down"
    /\ served' = NoConn
    /\ toHost' = <<>>
    /\ hostLocal' = "none"
    /\ hostRemote' = "none"
    /\ lingering' = "none"
    /\ UNCHANGED <<failed, approval, hostTrust, panelVars,
                   clientVars, log, misses>>

HostStops == hostPhase = "listening" /\ panel = "stopping" /\ HostDown
HostDies == hostPhase # "down" /\ HostDown

\* The pairings of device c in the host's history that nobody has undone.
Standing(c) ==
    {e \in log : /\ e = <<"host", "paired", e[3]>>
                 /\ Dev(e[3]) = c
                 /\ <<"host", "revoked", e[3]>> \notin log}

\* `windowdeck-host devices remove`: another process edits the list, at any
\* moment; it undoes every pairing of the device so far.
Revoke(c) ==
    /\ c \in hostTrust
    /\ hostTrust' = hostTrust \ {c}
    /\ log' = log \cup {<<"host", "revoked", e[3]>> : e \in Standing(c)}
    /\ UNCHANGED <<hostPhase, served, toHost, hostLocal, hostRemote, lingering,
                   failed, approval, panelVars, clientVars, misses>>

-----------------------------------------------------------------------------
(* The panel *)

\* The owner starts a host: a new process, a new session directory.
PanelStart(mode) ==
    /\ panel = "stopped"
    /\ hostPhase = "down"
    /\ panel' = "running"
    /\ approval' = mode
    /\ hostPhase' = "listening"
    /\ failed' = 0
    /\ misses' = 0
    /\ UNCHANGED <<served, toHost, hostLocal, hostRemote, lingering, hostTrust,
                   shown, buttons, decisionFile, hostOut, clientVars, log>>

PanelStop ==
    /\ panel = "running"
    /\ panel' = "stopping"
    /\ shown' = NoConn
    /\ buttons' = "disabled"
    /\ UNCHANGED <<hostVars, decisionFile, hostOut, clientVars, log, misses>>

\* The worker reports that the host has ended.  The next start has a session
\* directory, and so an answer file and an output, of its own.
PanelFinish ==
    /\ panel # "stopped"
    /\ hostPhase = "down"
    /\ panel' = "stopped"
    /\ shown' = NoConn
    /\ buttons' = "disabled"
    /\ hostOut' = <<>>
    /\ decisionFile' = NoAnswer
    /\ UNCHANGED <<hostVars, clientVars, log, misses>>

\* pairing_event: a line of the host; late ones are ignored while stopping, and
\* a result only clears the request it names.
PanelReads ==
    /\ panel # "stopped"
    /\ hostOut # <<>>
    /\ hostOut' = Tail(hostOut)
    /\ LET line == Head(hostOut) IN
         \/ /\ panel = "running" /\ line[1] = "ask"
            /\ shown' = line[2]
            /\ buttons' = "enabled"
         \/ /\ panel = "running" /\ line[1] = "result" /\ line[2] = shown
            /\ shown' = NoConn
            /\ buttons' = "disabled"
         \/ /\ panel = "stopping" \/ (line[1] = "result" /\ line[2] # shown)
            /\ UNCHANGED <<shown, buttons>>
    /\ UNCHANGED <<hostVars, panel, decisionFile, clientVars, log, misses>>

\* The person at the host answers the request on screen, once.
PanelAnswer(answer) ==
    /\ shown # NoConn
    /\ buttons = "enabled"
    /\ buttons' = "disabled"
    /\ decisionFile' = <<shown, answer>>
    /\ log' = IF answer = "accept"
              THEN log \cup {<<"host", "yes", shown>>} ELSE log
    /\ UNCHANGED <<hostVars, panel, shown, hostOut, clientVars, misses>>

-----------------------------------------------------------------------------
(* The client *)

\* confirm() has returned: its locals are gone and nothing reads the window.
ConfirmReturns(c) ==
    /\ clientLocal' = [clientLocal EXCEPT ![c] = "none"]
    /\ clientRemote' = [clientRemote EXCEPT ![c] = "none"]
    /\ clicks' = [clicks EXCEPT ![c] = <<>>]
    /\ waiting' = waiting \ {c}

\* The thread's connection ends; s is the stage the program goes to.
ClientLeaves(c, s) ==
    /\ phase' = [phase EXCEPT ![c] = "off"]
    /\ stage' = [stage EXCEPT ![c] = s]
    /\ toClient' = [toClient EXCEPT ![c] = <<>>]
    /\ ConfirmReturns(c)
    /\ known' = known \ {c}
    /\ UNCHANGED dials

\* Where a run goes on after the host does not know this device, or this
\* device the host: only the first connection of a run pairs.
AfterNotPaired(c) == IF stage[c] = "first" THEN "pair" ELSE "first"

Dial(c) ==
    /\ phase[c] = "off"
    /\ dials[c] < MaxDials[c]
    /\ hostPhase # "down"
    /\ phase' = [phase EXCEPT ![c] = "dialed"]
    /\ dials' = [dials EXCEPT ![c] = @ + 1]
    /\ UNCHANGED <<hostVars, panelVars, stage, known, toClient, clientLocal,
                   clientRemote, clicks, waiting, clientTrust, log,
                   misses>>

\* secure::connect once the host's key is known: a session is only asked of a
\* host in the list.
ClientHello(c) ==
    /\ phase[c] = "dialed"
    /\ served = Conn(c)
    /\ IF stage[c] # "pair" /\ c \notin clientTrust
       THEN /\ ClientLeaves(c, AfterNotPaired(c))
            /\ UNCHANGED toHost
       ELSE /\ ClientSends(c, IF stage[c] # "pair" THEN "session"
                              ELSE IF c \in clientTrust THEN "pairKnown"
                              ELSE "pairNew")
            /\ known' = IF c \in clientTrust THEN known \cup {c}
                        ELSE known \ {c}
            /\ phase' = [phase EXCEPT ![c] = "await"]
            /\ UNCHANGED <<stage, dials, toClient, clientLocal, clientRemote,
                           clicks, waiting>>
    /\ UNCHANGED <<hostPhase, served, hostLocal, hostRemote, lingering, failed,
                   approval, hostTrust, panelVars, clientTrust, log, misses>>

\* A protocol error ends the client.
ClientProtocolError(c) ==
    /\ ClientLeaves(c, "first")
    /\ log' = log \cup {<<"client", "protocolError", Conn(c)>>}
    /\ UNCHANGED toHost

\* secure::connect: the host's answer to the hello, by kind and intent.
SessionAccepted(c) ==
    /\ Head(toClient[c]) = "accepted"
    /\ stage[c] # "pair"
    /\ phase' = [phase EXCEPT ![c] = "session"]
    /\ stage' = [stage EXCEPT ![c] = "second"]
    /\ toClient' = [toClient EXCEPT ![c] = Tail(@)]
    /\ UNCHANGED <<toHost, dials, known, clientLocal, clientRemote, clicks,
                   waiting, log>>

AlreadyPaired(c) ==
    /\ Head(toClient[c]) = "accepted"
    /\ stage[c] = "pair"
    /\ c \in known
    /\ ClientLeaves(c, "second")
    /\ UNCHANGED <<toHost, log>>

CeremonyStarts(c) ==
    /\ Head(toClient[c]) = "required"
    /\ stage[c] = "pair"
    /\ ClientSends(c, "commit")
    /\ phase' = [phase EXCEPT ![c] = "nonce"]
    /\ toClient' = [toClient EXCEPT ![c] = Tail(@)]
    /\ UNCHANGED <<stage, dials, known, clientLocal, clientRemote, clicks,
                   waiting, log>>

Rejected(c) ==
    /\ \/ Head(toClient[c]) = "notPaired" /\ ClientLeaves(c, AfterNotPaired(c))
       \/ /\ Head(toClient[c]) \in {"tooMany", "unavailable"}
          /\ ClientLeaves(c, "first")
    /\ UNCHANGED <<toHost, log>>

UnexpectedReply(c) ==
    /\ \/ Head(toClient[c]) = "accepted" /\ stage[c] = "pair" /\ c \notin known
       \/ Head(toClient[c]) = "required" /\ stage[c] # "pair"
       \/ Head(toClient[c]) \in {"nonce", "yes", "no"}
    /\ ClientProtocolError(c)

ClientReply(c) ==
    /\ phase[c] = "await"
    /\ toClient[c] # <<>>
    /\ \/ SessionAccepted(c) \/ AlreadyPaired(c) \/ CeremonyStarts(c)
       \/ Rejected(c) \/ UnexpectedReply(c)
    /\ UNCHANGED <<hostPhase, served, hostLocal, hostRemote, lingering, failed,
                   approval, hostTrust, panelVars, clientTrust, misses>>

\* pair_as_client: the host's value, after which the client reveals its own and
\* the window shows the code.
ClientNonce(c) ==
    /\ phase[c] = "nonce"
    /\ toClient[c] # <<>>
    /\ \/ /\ Head(toClient[c]) = "nonce"
          /\ ClientSends(c, "reveal")
          /\ phase' = [phase EXCEPT ![c] = "confirm"]
          /\ toClient' = [toClient EXCEPT ![c] = Tail(@)]
          /\ UNCHANGED <<stage, dials, known, clientLocal, clientRemote, clicks,
                         waiting, log>>
       \/ Head(toClient[c]) # "nonce" /\ ClientProtocolError(c)
    /\ UNCHANGED <<hostPhase, served, hostLocal, hostRemote, lingering, failed,
                   approval, hostTrust, panelVars, clientTrust, misses>>

\* The person at the device: "Coincide" moves the window to Screen::Waiting.
ClickAccept(c) ==
    /\ phase[c] = "confirm"
    /\ c \notin waiting
    /\ Len(clicks[c]) < MaxClicks
    /\ clicks' = [clicks EXCEPT ![c] = Append(@, "yes")]
    /\ waiting' = waiting \cup {c}
    /\ log' = log \cup {<<"client", "yes", Conn(c)>>}
    /\ UNCHANGED <<hostVars, panelVars, stage, phase, dials, known, toClient,
                   clientLocal, clientRemote, clientTrust, misses>>

\* "No coincide", and "Cancelar" of Screen::Waiting, are the same decision.
ClickReject(c) ==
    /\ phase[c] = "confirm"
    /\ Len(clicks[c]) < MaxClicks
    /\ clicks' = [clicks EXCEPT ![c] = Append(@, "no")]
    /\ log' = IF c \in waiting /\ <<"host", "yes", Conn(c)>> \notin log
              THEN log \cup {<<"client", "withdrew", Conn(c)>>} ELSE log
    /\ UNCHANGED <<hostVars, panelVars, stage, phase, dials, known, toClient,
                   clientLocal, clientRemote, waiting, clientTrust,
                   misses>>

\* confirm(): the first decision is read; an acceptance is told to the host.
ClientReadsYes(c) ==
    /\ phase[c] = "confirm"
    /\ clientLocal[c] = "none"
    /\ clicks[c] # <<>>
    /\ Head(clicks[c]) = "yes"
    /\ ClientSends(c, "yes")
    /\ \/ /\ clientRemote[c] = "yes"
          /\ phase' = [phase EXCEPT ![c] = "store"]
          /\ ConfirmReturns(c)
       \/ /\ clientRemote[c] = "none"
          /\ clicks' = [clicks EXCEPT ![c] = Tail(@)]
          /\ clientLocal' = [clientLocal EXCEPT ![c] = "yes"]
          /\ UNCHANGED <<phase, clientRemote, waiting>>
    /\ UNCHANGED <<hostPhase, served, hostLocal, hostRemote, lingering, failed,
                   approval, hostTrust, panelVars, stage, dials, known,
                   toClient, clientTrust, log, misses>>

ClientRefuses(c, outcome) ==
    /\ ClientSends(c, "no")
    /\ phase' = [phase EXCEPT ![c] = "linger"]
    /\ log' = IF outcome = "rejected"
              THEN log \cup {<<"client", "rejected", Conn(c)>>} ELSE log
    /\ ConfirmReturns(c)
    /\ UNCHANGED <<hostPhase, served, hostLocal, hostRemote, lingering, failed,
                   approval, hostTrust, panelVars, stage, dials, known,
                   toClient, clientTrust, misses>>

ClientReadsNo(c) ==
    /\ phase[c] = "confirm"
    /\ clientLocal[c] = "none"
    /\ clicks[c] # <<>>
    /\ Head(clicks[c]) = "no"
    /\ ClientRefuses(c, "rejected")

\* The two minutes are over, or the window was closed (ThreadPrompt.cancelled).
ClientGivesUp(c) == phase[c] = "confirm" /\ ClientRefuses(c, "gaveUp")

ClientReadsVerdict(c) ==
    /\ phase[c] = "confirm"
    /\ clientRemote[c] = "none"
    /\ toClient[c] # <<>>
    /\ \/ /\ Head(toClient[c]) = "yes"
          /\ toClient' = [toClient EXCEPT ![c] = Tail(@)]
          /\ \/ /\ clientLocal[c] = "yes"
                /\ phase' = [phase EXCEPT ![c] = "store"]
                /\ ConfirmReturns(c)
             \/ /\ clientLocal[c] = "none"
                /\ clientRemote' = [clientRemote EXCEPT ![c] = "yes"]
                /\ UNCHANGED <<phase, clientLocal, clicks, waiting>>
          /\ UNCHANGED <<toHost, stage, dials, known, log>>
       \/ /\ Head(toClient[c]) = "no"
          /\ ClientLeaves(c, "first")
          /\ UNCHANGED <<toHost, log>>
       \/ Head(toClient[c]) \notin {"yes", "no"} /\ ClientProtocolError(c)
    /\ UNCHANGED <<hostPhase, served, hostLocal, hostRemote, lingering, failed,
                   approval, hostTrust, panelVars, clientTrust, misses>>

\* pair_with: the key is stored, and connect_paired asks for a session.
ClientStores(c) ==
    /\ phase[c] = "store"
    /\ clientTrust' = clientTrust \cup {c}
    /\ log' = log \cup {<<"client", "paired", Conn(c)>>}
    /\ ClientLeaves(c, "second")
    /\ UNCHANGED <<hostVars, panelVars, misses>>

\* The connection breaks, a wait times out, a lingering stream is dropped, the
\* program is closed or killed.  A later session may be retried.
ClientFails(c) ==
    /\ phase[c] # "off"
    /\ ClientLeaves(c, IF stage[c] = "second" THEN "second" ELSE "first")
    /\ UNCHANGED <<hostVars, panelVars, clientTrust, log, misses>>

\* The program is run again.
ClientRestarts(c) ==
    /\ phase[c] = "off"
    /\ stage[c] # "first"
    /\ ClientLeaves(c, "first")
    /\ UNCHANGED <<hostVars, panelVars, clientTrust, log, misses>>

\* `--forget-host`, run by another process.
Forget(c) ==
    /\ c \in clientTrust
    /\ clientTrust' = clientTrust \ {c}
    /\ UNCHANGED <<hostVars, panelVars, stage, phase, dials, known, toClient,
                   clientLocal, clientRemote, clicks, waiting, log,
                   misses>>

-----------------------------------------------------------------------------

\* What the host's thread does by itself once it has a connection.
HostStep ==
    \/ HostDecide \/ HandshakeFails
    \/ HostCommit \/ HostReveal
    \/ HostReadsYes \/ HostReadsNo \/ HostReadsVerdict \/ HostReadsRefusal
    \/ HostExpires \/ HostCancels \/ HostLingerEnds \/ CeremonyFails
    \/ HostStores \/ HostStoreFails

HostNext ==
    \/ HostStep
    \/ \E c \in Clients : HostAccept(c)
    \/ HostSessionEnds \/ HostStops \/ HostDies
    \/ \E c \in Clients : Revoke(c)

PanelNext ==
    \/ \E mode \in {"panel", "none"} : PanelStart(mode)
    \/ PanelStop \/ PanelFinish \/ PanelReads
    \/ \E answer \in {"accept", "reject"} : PanelAnswer(answer)

ClientNext(c) ==
    \/ Dial(c) \/ ClientHello(c) \/ ClientReply(c) \/ ClientNonce(c)
    \/ ClickAccept(c) \/ ClickReject(c)
    \/ ClientReadsYes(c) \/ ClientReadsNo(c) \/ ClientReadsVerdict(c)
    \/ ClientGivesUp(c)
    \/ ClientStores(c) \/ ClientFails(c) \/ ClientRestarts(c) \/ Forget(c)

Next == HostNext \/ PanelNext \/ \E c \in Clients : ClientNext(c)

Spec == Init /\ [][Next]_vars

\* The host's waits are bounded (read timeouts, POLL, TIMEOUT), so its thread
\* goes on; the panel polls the host's output and the process.
FairSpec ==
    Spec /\ WF_vars(HostStep) /\ WF_vars(PanelReads) /\ WF_vars(PanelFinish)

-----------------------------------------------------------------------------
(* Properties *)

HostTypeOK ==
    /\ hostPhase \in HostPhases
    /\ served \in Conns \cup {NoConn}
    /\ hostPhase \in {"down", "listening"} <=> served = NoConn
    /\ toHost \in Seq(ClientMessages)
    /\ hostLocal \in Verdicts
    /\ hostRemote \in Verdicts
    /\ lingering \in Refusals \cup {"none"}
    /\ failed \in Nat
    /\ approval \in {"panel", "none"}
    /\ hostTrust \subseteq Clients

PanelTypeOK ==
    /\ panel \in {"stopped", "running", "stopping"}
    /\ shown \in Conns \cup {NoConn}
    /\ buttons \in {"enabled", "disabled"}
    /\ decisionFile \in (Conns \cup {NoConn}) \X {"none", "accept", "reject"}
    /\ hostOut \in Seq(Lines)

ClientTypeOK ==
    /\ stage \in [Clients -> {"first", "pair", "second"}]
    /\ phase \in [Clients -> ClientPhases]
    /\ dials \in [Clients -> Nat]
    /\ known \subseteq Clients
    /\ toClient \in [Clients -> Seq(HostMessages)]
    /\ clientLocal \in [Clients -> Verdicts]
    /\ clientRemote \in [Clients -> Verdicts]
    /\ clicks \in [Clients -> Seq({"yes", "no"})]
    /\ waiting \subseteq Clients
    /\ clientTrust \subseteq Clients

TypeOK == HostTypeOK /\ PanelTypeOK /\ ClientTypeOK /\ misses \in Nat

\* Both people accepted the request of this connection.
Agreed(id) == {<<"host", "yes", id>>, <<"client", "yes", id>>} \subseteq log

\* ADR 0022: both people must confirm; only then does each end store the other's
\* key.  Whatever is lost, late or restarted, a key in either list goes back to
\* one connection whose request both people accepted.
TrustNeedsBoth ==
    \A c \in hostTrust \cup clientTrust :
        \E e \in log : Dev(e[3]) = c /\ Agreed(e[3])

\* A revocation lasts, whenever it falls (before, during or after a session, in
\* the middle of another ceremony, while the host is down): no session begins
\* for its device until a ceremony that both people accepted has paired it anew.
\* The session it finds running goes on (devices remove edits the list only).
\* Each change of the list is one step here; TrustStore has those that overlap.
RevocationLasts ==
    [][hostPhase # "session" /\ hostPhase' = "session" =>
           \E e \in Standing(Dev(served)) : Agreed(e[3])]_vars

\* A person who rejects the request decides for both ends: neither stores a key
\* from that connection (Outcome::RejectedHere and RejectedByPeer).
RejectionIsFinal ==
    \A e \in log : e[2] = "rejected" =>
        \A who \in {"host", "client"} : <<who, "paired", e[3]>> \notin log

\* MAX_FAILED_PAIRINGS: at most so many requests in a row reach the screen and
\* fail before the host is restarted.  A request that both people accepted and whose
\* key then cannot be stored is no failure of theirs, and is not counted.
FailureBudget == misses <= MaxFailed

\* The host's policy and the client's expectations agree: whatever either list
\* held and however it changed meanwhile, no honest client meets an answer that
\* its side of the protocol treats as an error.
NoProtocolError == \A e \in log : e[2] # "protocolError"

\* A ceremony cannot hold the serial host: every connection it starts to serve
\* ends in a session, or in the accept loop, or with the process.
HostComesBack ==
    hostPhase \in Ceremony \cup {"handshake"} ~>
        hostPhase \in {"listening", "session", "down"}

\* A request on the panel is withdrawn, unless its device's key could not be
\* stored (pair() then returns before it reports).
RequestWithdrawn ==
    \A c \in Clients : \A n \in 1..MaxDials[c] :
        shown = <<c, n>> ~>
            (shown # <<c, n>> \/ <<"host", "storeFailed", <<c, n>>>> \in log)
=============================================================================
