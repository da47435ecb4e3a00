------------------------------ MODULE Launcher ------------------------------
(***************************************************************************)
(* The Windows panel (windowdeck-launcher): its window (ui.rs, model.rs),  *)
(* the worker thread of a session (platform/session.rs), the elevated      *)
(* manager of the display brokers that the person allows in a UAC prompt   *)
(* (platform/broker.rs) and the processes that each of them owns           *)
(* (platform/process.rs).  A session is an attempt; the window has one     *)
(* worker at a time, but the manager of an earlier attempt, or its prompt, *)
(* may outlive it.                                                         *)
(***************************************************************************)
EXTENDS Integers, Sequences

CONSTANTS
    Modes,          \* the modes of this instance: "extend", "native", "mirror"
    MaxAttempts,    \* bound: sessions that the person starts
    MaxEvents       \* bound: events of a worker that the window has not read

ASSUME ModesAssumption == Modes \subseteq {"extend", "native", "mirror"}
ASSUME BoundsAssumption == MaxAttempts \in Nat /\ MaxEvents \in Nat \ {0}

VARIABLES
    \* the window
    ui,         \* "open", "closing", "over" or "killed"
    shown,      \* Panel.state
    failure,    \* Panel.failure: "none", "session" or "unexpected"
    present,    \* Ui.worker holds a worker
    tick,       \* where tick() is: "idle", "drain", "check" or "again"
    noticed,    \* its local `finished'
    \* the worker
    n,          \* the attempt of the last worker
    mode,       \* Panel.mode
    worker,     \* where the thread is
    cancel, events, outcome,
    seen,       \* seen_state
    verdict,    \* what the worker of each attempt ended with
    panicked,   \* history: the last attempt whose worker panicked
    \* the host of the last attempt
    host, lines, stopFile,
    \* the manager of each attempt, and its connection with the worker
    broker, displays, exit,
    fault,      \* history: the last manager, or a process of it, failed
    link,       \* the worker's side: "none", "pending", "open", "stopped" (S), "closed"
    toPanel     \* bytes from the manager that the worker has not read

panelVars == <<ui, shown, failure, present, tick, noticed>>
workerVars == <<worker, cancel, events, outcome, seen>>
attemptVars == <<n, mode, verdict, panicked>>
hostVars == <<host, lines, stopFile>>
brokerVars == <<broker, displays, exit, fault, link, toPanel>>
vars == <<panelVars, workerVars, attemptVars, hostVars, brokerVars>>

Attempts == 1 .. MaxAttempts

\* SessionMode::display_brokers: the routes that have a broker of the display.
DisplayBrokers(m) ==
    CASE m = "extend" -> {"cpu"} [] m = "native" -> {"gpu", "cpu"} [] m = "mirror" -> {}

Init ==
    /\ ui = "open" /\ shown = "stopped" /\ failure = "none" /\ present = FALSE
    /\ tick = "idle" /\ noticed = FALSE
    /\ n = 0 /\ mode \in Modes /\ worker = "over"
    /\ cancel = FALSE /\ events = <<>> /\ outcome = "ok" /\ seen = FALSE
    /\ verdict = [a \in Attempts |-> "none"] /\ panicked = 0
    /\ host = "none" /\ lines = <<>> /\ stopFile = FALSE
    /\ broker = [a \in Attempts |-> "none"]
    /\ displays = [a \in Attempts |-> {}]
    /\ exit = [a \in Attempts |-> "none"]
    /\ fault = FALSE
    /\ link = [a \in Attempts |-> "none"]
    /\ toPanel = [a \in Attempts |-> <<>>]

-----------------------------------------------------------------------------
(* The window *)

\* Iniciar.
Start ==
    /\ ui = "open" /\ tick = "idle" /\ ~present /\ n < MaxAttempts
    /\ n' = n + 1
    /\ shown' = "starting" /\ failure' = "none" /\ present' = TRUE
    /\ worker' = "begin" /\ cancel' = FALSE /\ events' = <<>>
    /\ outcome' = "ok" /\ seen' = FALSE
    /\ host' = "none" /\ lines' = <<>> /\ stopFile' = FALSE
    /\ fault' = FALSE
    /\ UNCHANGED <<ui, tick, noticed, mode, verdict, panicked>>
    /\ UNCHANGED <<broker, displays, exit, link, toPanel>>

\* Worker::stop and Panel::stop, if there is a worker.
StopWorker ==
    IF present THEN cancel' = TRUE /\ shown' = "stopping" ELSE UNCHANGED <<cancel, shown>>

\* Detener.
StopButton ==
    /\ ui \in {"open", "closing"} /\ tick = "idle"
    /\ shown \notin {"stopped", "stopping"}
    /\ StopWorker
    /\ UNCHANGED <<ui, failure, present, tick, noticed, attemptVars, hostVars>>
    /\ UNCHANGED <<worker, events, outcome, seen, brokerVars>>

\* The window's cross: it closes when the worker has ended.
Close ==
    /\ ui = "open" /\ tick = "idle"
    /\ ui' = "closing"
    /\ StopWorker
    /\ tick' = "drain"
    /\ UNCHANGED <<failure, present, noticed, attemptVars, hostVars>>
    /\ UNCHANGED <<worker, events, outcome, seen, brokerVars>>

\* The timer.
TickBegins ==
    /\ ui \in {"open", "closing"} /\ tick = "idle" /\ present
    /\ tick' = "drain"
    /\ UNCHANGED <<ui, shown, failure, present, noticed, workerVars, attemptVars>>
    /\ UNCHANGED <<hostVars, brokerVars>>

\* Panel::update: a late event cannot undo the cancellation.
Update(s) == shown' = IF shown \in {"stopping", "stopped"} THEN shown ELSE s

\* apply_event, for the events that change the state or end the worker.
AppliesEvent ==
    /\ tick \in {"drain", "again"} /\ events # <<>>
    /\ events' = Tail(events)
    /\ IF Head(events) \in {"ok", "failed"}
       THEN /\ shown' = "stopped" /\ noticed' = TRUE
            /\ failure' = IF Head(events) = "ok" THEN "none" ELSE "session"
       ELSE Update(Head(events)) /\ UNCHANGED <<failure, noticed>>
    /\ UNCHANGED <<ui, present, tick, worker, cancel, outcome, seen, attemptVars>>
    /\ UNCHANGED <<hostVars, brokerVars>>

\* The end of a tick: a worker whose end was noticed is let go, and a window
\* that closes is over when there is none.
TickEnds(done) ==
    /\ tick' = "idle" /\ noticed' = FALSE
    /\ present' = (present /\ ~done)
    /\ ui' = IF ui = "closing" /\ ~present' THEN "over" ELSE ui

\* try_iter found no event.
Drained ==
    /\ tick = "drain" /\ events = <<>>
    /\ IF noticed \/ ~present
       THEN TickEnds(noticed)
       ELSE tick' = "check" /\ UNCHANGED <<present, noticed, ui>>
    /\ UNCHANGED <<shown, failure, workerVars, attemptVars, hostVars, brokerVars>>

\* Variant: the events are not read again.
ChecksOnce ==
    /\ tick = "check"
    /\ IF worker = "over"
       THEN shown' = "stopped" /\ failure' = "unexpected" /\ TickEnds(TRUE)
       ELSE TickEnds(FALSE) /\ UNCHANGED <<shown, failure>>
    /\ UNCHANGED <<workerVars, attemptVars, hostVars, brokerVars>>

\* Is the thread over?  It may have ended since: its events are read again.
Checks ==
    /\ tick = "check"
    /\ IF worker = "over"
       THEN tick' = "again" /\ UNCHANGED <<present, noticed, ui>>
       ELSE TickEnds(FALSE)
    /\ UNCHANGED <<shown, failure, workerVars, attemptVars, hostVars, brokerVars>>

\* A thread that ended without saying so panicked.
DrainedAgain ==
    /\ tick = "again" /\ events = <<>>
    /\ IF noticed THEN UNCHANGED <<shown, failure>>
                  ELSE shown' = "stopped" /\ failure' = "unexpected"
    /\ TickEnds(TRUE)
    /\ UNCHANGED <<workerVars, attemptVars, hostVars, brokerVars>>

\* Connections that nobody accepted end with the listener.
CloseListener(l) == [a \in Attempts |-> IF l[a] = "pending" THEN "closed" ELSE l[a]]

\* The panel's process is terminated, and its memory is gone.  What its worker
\* owned is for Windows to end: the job of the host and the connection of the
\* manager.
Killed ==
    /\ ui \in {"open", "closing"}
    /\ ui' = "killed" /\ tick' = "idle" /\ present' = FALSE
    /\ shown' = "stopped" /\ failure' = "none" /\ noticed' = FALSE
    /\ worker' = IF worker \in {"sent", "over"} THEN "over" ELSE "unwind"
    /\ cancel' = FALSE /\ events' = <<>> /\ outcome' = "ok" /\ seen' = FALSE
    /\ UNCHANGED <<attemptVars, hostVars, brokerVars>>

-----------------------------------------------------------------------------
(* The worker *)

\* Everything but where the thread is and what it will report.
Aside == UNCHANGED <<panelVars, n, mode, panicked, cancel, seen>>

\* The closure of run() ends: cleanup begins.  A cancelled one ends well.
Ends(result) ==
    /\ outcome' = result
    /\ worker' = "stopHost"

\* The session's directory or the layout cannot be had: nothing to clean up.
SetupFails ==
    /\ worker = "begin"
    /\ worker' = "sent"
    /\ verdict' = [verdict EXCEPT ![n] = "failed"]
    /\ events' = Append(events, "failed")
    /\ Aside
    /\ UNCHANGED <<outcome, hostVars, brokerVars>>

\* preflight fails, or is cancelled.
PreflightFails ==
    /\ worker = "begin"
    /\ Ends("failed")
    /\ Aside
    /\ UNCHANGED <<events, verdict, hostVars, brokerVars>>

\* After preflight Connection::start opens a listener and another thread asks
\* for the permission.
Asks ==
    /\ worker = "begin"
    /\ IF cancel
       THEN Ends("ok") /\ UNCHANGED broker
       ELSE /\ worker' = "ask"
            /\ broker' = [broker EXCEPT ![n] = "asking"]
            /\ UNCHANGED outcome
    /\ Aside
    /\ UNCHANGED <<events, verdict, hostVars, displays, exit, fault, link, toPanel>>

\* The wait for the manager ends with the listener: the person cancelled, the
\* permission was refused or the manager failed, or two minutes went by.
AskEnds ==
    /\ worker = "ask"
    /\ \/ cancel /\ Ends("ok")
       \/ ~cancel /\ Ends("failed")
    /\ link' = CloseListener(link)
    /\ Aside
    /\ UNCHANGED <<events, verdict, hostVars, broker, displays, exit, fault, toPanel>>

\* A connection is accepted for its token: A, and the listener is closed.
Accepts(a) ==
    /\ worker = "ask" /\ ~cancel /\ link[a] = "pending"
    /\ IF a = n
       THEN link' = [CloseListener(link) EXCEPT ![a] = "open"] /\ worker' = "wait"
       ELSE link' = [link EXCEPT ![a] = "closed"] /\ UNCHANGED worker
    /\ Aside
    /\ UNCHANGED <<outcome, events, verdict, hostVars, broker, displays, exit, fault>>
    /\ UNCHANGED toPanel

\* Connection::read: a byte, or the end after them all.
BrokerByte(b) == toPanel[n] # <<>> /\ Head(toPanel[n]) = b
BrokerGone == toPanel[n] = <<>> /\ broker[n] = "over"

\* wait_ready.
BrokerReady ==
    /\ worker = "wait" /\ ~cancel /\ BrokerByte("R")
    /\ toPanel' = [toPanel EXCEPT ![n] = Tail(@)]
    /\ worker' = "spawn"
    /\ Aside
    /\ UNCHANGED <<outcome, events, verdict, hostVars, broker, displays, exit, fault, link>>

\* It ends without a manager that is ready: cancelled, an error of the manager,
\* its end, or 45 s.
WaitEnds ==
    /\ worker = "wait"
    /\ \/ cancel /\ Ends("ok")
       \/ ~cancel /\ ~BrokerByte("R") /\ Ends("failed")
    /\ Aside
    /\ UNCHANGED <<events, verdict, hostVars, brokerVars>>

\* The host is started, or cannot be.
SpawnsHost ==
    /\ worker = "spawn"
    /\ \/ cancel /\ Ends("ok") /\ UNCHANGED <<events, host>>
       \/ /\ ~cancel
          /\ events' = Append(events, "hostStarting")
          /\ \/ host' = "running" /\ worker' = "tail" /\ UNCHANGED outcome
             \/ Ends("failed") /\ UNCHANGED host
    /\ Aside
    /\ UNCHANGED <<verdict, lines, stopFile, brokerVars>>

\* The loop of a session: a line of the host.
ReadsLine ==
    /\ worker = "tail" /\ ~cancel /\ lines # <<>> /\ Len(events) < MaxEvents
    /\ events' = Append(events, Head(lines)) /\ lines' = Tail(lines)
    /\ seen' = TRUE
    /\ UNCHANGED <<panelVars, worker, cancel, outcome, attemptVars, host, stopFile>>
    /\ UNCHANGED brokerVars

\* It ends, and its locals go: cancelled, the host exited, the manager failed or
\* left, or the host said nothing for 15 s.
TailEnds ==
    /\ worker = "tail"
    /\ \/ cancel /\ Ends("ok")
       \/ /\ ~cancel
          /\ host = "exited" \/ toPanel[n] # <<>> \/ BrokerGone \/ ~seen
          /\ Ends("failed")
    /\ seen' = FALSE
    /\ UNCHANGED <<panelVars, cancel, events, attemptVars, hostVars, brokerVars>>

\* The thread panics, wherever it is: the closure's locals go, and the listener of
\* Connection::start.
Panics ==
    /\ worker \notin {"sent", "unwind", "dropLink", "over"}
    /\ worker' = "unwind" /\ outcome' = "ok" /\ seen' = FALSE
    /\ link' = CloseListener(link)
    /\ UNCHANGED <<panelVars, cancel, events, attemptVars, hostVars>>
    /\ UNCHANGED <<broker, displays, exit, fault, toPanel>>

\* The host, the last local of run(), is dropped first: its job is killed.
DropsHost ==
    /\ worker = "unwind"
    /\ worker' = "dropLink"
    /\ host' = IF host = "running" THEN "exited" ELSE host
    /\ Aside
    /\ UNCHANGED <<outcome, events, verdict, lines, stopFile, brokerVars>>

\* The connections end, and what was not read is lost with them.
LinksEnd ==
    /\ link' = [a \in Attempts |-> IF link[a] \in {"pending", "open"} THEN "closed"
                                                                    ELSE link[a]]
    /\ toPanel' = [a \in Attempts |-> <<>>]

\* Then the connection is, and the thread is over.
DropsLink ==
    /\ worker = "dropLink"
    /\ worker' = "over"
    /\ panicked' = IF ui = "killed" THEN panicked ELSE n
    /\ LinksEnd
    /\ UNCHANGED <<panelVars, cancel, events, outcome, seen, n, mode, verdict>>
    /\ UNCHANGED <<hostVars, broker, displays, exit, fault>>

\* Of a killed panel Windows may close the connection first.
SocketCloses ==
    /\ ui = "killed" /\ worker = "unwind"
    /\ LinksEnd
    /\ UNCHANGED <<panelVars, workerVars, attemptVars, hostVars>>
    /\ UNCHANGED <<broker, displays, exit, fault>>

\* Variant: the manager is stopped while the host still runs.
StopsBoth ==
    /\ worker = "stopHost"
    /\ stopFile' = (stopFile \/ host # "none")
    /\ worker' = IF host = "none" THEN "stopBroker" ELSE "waitHost"
    /\ link' = IF link[n] = "open" THEN [link EXCEPT ![n] = "stopped"] ELSE link
    /\ Aside
    /\ UNCHANGED <<outcome, events, verdict, host, lines, broker, displays, exit>>
    /\ UNCHANGED <<fault, toPanel>>

\* Cleanup: OwnedProcess::stop writes the stop file, if there is a host.
StopsHost ==
    /\ worker = "stopHost"
    /\ stopFile' = (stopFile \/ host # "none")
    /\ worker' = IF host = "none" THEN "stopBroker" ELSE "waitHost"
    /\ Aside
    /\ UNCHANGED <<outcome, events, verdict, host, lines, brokerVars>>

\* Eight seconds later the host is killed with its job, at the latest when it is
\* dropped.  A stop file or a kill that failed is the session's error.
HostIsOver ==
    /\ worker = "waitHost"
    /\ host' = "exited"
    /\ worker' = "stopBroker"
    /\ \/ UNCHANGED outcome
       \/ outcome' = "unclean"
    /\ Aside
    /\ UNCHANGED <<events, verdict, lines, stopFile, brokerVars>>

\* Connection::stop: S and the end of the connection; what it had not read is
\* lost with it.
StopsBroker ==
    /\ worker = "stopBroker"
    /\ IF link[n] \in {"open", "stopped"}
       THEN worker' = "waitBroker" /\ link' = [link EXCEPT ![n] = "stopped"]
       ELSE worker' = "report" /\ UNCHANGED link
    /\ toPanel' = [toPanel EXCEPT ![n] = <<>>]
    /\ Aside
    /\ UNCHANGED <<outcome, events, verdict, hostVars, broker, displays, exit, fault>>

\* Variant: it does not wait for the manager.
ForgetsBroker ==
    /\ worker = "waitBroker"
    /\ worker' = "report"
    /\ outcome' = IF broker[n] = "over" /\ exit[n] = "failed" THEN "unclean" ELSE outcome
    /\ Aside
    /\ UNCHANGED <<events, verdict, hostVars, brokerVars>>

\* Its exit status, or 13 s without one.
BrokerIsOver ==
    /\ worker = "waitBroker"
    /\ worker' = "report"
    /\ outcome' = IF broker[n] = "over" /\ exit[n] = "ok" THEN outcome ELSE "unclean"
    /\ Aside
    /\ UNCHANGED <<events, verdict, hostVars, brokerVars>>

\* The result: an error of the session counts unless it was cancelled, one of
\* the cleanup always does.
Reports ==
    /\ worker = "report"
    /\ LET result == IF outcome = "unclean" \/ (outcome = "failed" /\ ~cancel)
                     THEN "failed" ELSE "ok"
       IN  /\ verdict' = [verdict EXCEPT ![n] = result]
           /\ events' = Append(events, result)
    /\ worker' = "sent" /\ outcome' = "ok"
    /\ Aside
    /\ UNCHANGED <<hostVars, brokerVars>>

ThreadEnds ==
    /\ worker = "sent"
    /\ worker' = "over"
    /\ Aside
    /\ UNCHANGED <<outcome, events, verdict, hostVars, brokerVars>>

-----------------------------------------------------------------------------
(* The host *)

\* It writes a state; one stands for them all.
HostWrites ==
    /\ host = "running" /\ lines = <<>>
    /\ lines' = <<"streaming">>
    /\ UNCHANGED <<panelVars, workerVars, attemptVars, host, stopFile, brokerVars>>

\* It ends by itself, or because of the stop file.
HostExits ==
    /\ host = "running"
    /\ host' = "exited"
    /\ UNCHANGED <<panelVars, workerVars, attemptVars, lines, stopFile, brokerVars>>

-----------------------------------------------------------------------------
(* The elevated manager of attempt a *)

OthersKeep == UNCHANGED <<panelVars, workerVars, attemptVars, hostVars>>

\* The process ends: its display brokers end with its jobs.
Exits(a, result) ==
    /\ broker' = [broker EXCEPT ![a] = "over"]
    /\ exit' = [exit EXCEPT ![a] = result]
    /\ displays' = [displays EXCEPT ![a] = {}]

Goes(a, where) ==
    /\ broker' = [broker EXCEPT ![a] = where]
    /\ UNCHANGED <<exit, displays>>

Faulty(a) == fault' = (fault \/ a = n)

\* The person answers the prompt, even when nobody waits any more.
Answers(a) ==
    /\ broker[a] = "asking"
    /\ \/ Goes(a, "dial")
       \/ Exits(a, "failed")
    /\ OthersKeep
    /\ UNCHANGED <<fault, link, toPanel>>

\* It connects to the panel's address, where there may be another session's
\* listener, or none.
Dials(a) ==
    /\ broker[a] = "dial"
    /\ \/ /\ worker = "ask"
          /\ Goes(a, "hello")
          /\ link' = [link EXCEPT ![a] = "pending"]
       \/ /\ worker # "ask" \/ a # n
          /\ Exits(a, "failed")
          /\ UNCHANGED link
    /\ OthersKeep
    /\ UNCHANGED <<fault, toPanel>>

\* It reads A, or the end of the connection, or nothing for 2 s.
Welcomed(a) ==
    /\ broker[a] = "hello"
    /\ \/ link[a] = "open" /\ Goes(a, "firewall")
       \/ Exits(a, "failed")
    /\ OthersKeep
    /\ UNCHANGED <<fault, link, toPanel>>

\* An error is sent to the panel.
Fails(a) ==
    /\ Exits(a, "failed")
    /\ Faulty(a)
    /\ toPanel' = [toPanel EXCEPT ![a] = IF link[a] = "open" THEN Append(@, "E") ELSE @]

\* The rules of the firewall.  A panel that stopped, or is gone, ends it here.
Configures(a) ==
    /\ broker[a] = "firewall"
    /\ \/ link[a] # "open" /\ Exits(a, "ok") /\ UNCHANGED <<fault, toPanel>>
       \/ link[a] = "open" /\ Goes(a, "spawn") /\ UNCHANGED <<fault, toPanel>>
       \/ Fails(a)
    /\ OthersKeep
    /\ UNCHANGED link

\* The brokers of the display, or one that cannot be started.
SpawnsDisplays(a) ==
    /\ broker[a] = "spawn"
    /\ \/ /\ broker' = [broker EXCEPT ![a] = "run"]
          /\ displays' = [displays EXCEPT ![a] = DisplayBrokers(mode)]
          /\ UNCHANGED <<exit, fault, toPanel>>
       \/ Fails(a)
    /\ OthersKeep
    /\ UNCHANGED link

\* The loop: R after half a second, if there is a panel to write it to.
SaysReady(a) ==
    /\ broker[a] = "run"
    /\ displays[a] = DisplayBrokers(mode)
    /\ \/ /\ Goes(a, "ready")
          /\ toPanel' = [toPanel EXCEPT ![a] = IF link[a] = "open" THEN Append(@, "R") ELSE @]
          /\ UNCHANGED fault
       \/ link[a] # "open" /\ Fails(a)
    /\ OthersKeep
    /\ UNCHANGED link

\* A broker of the display that ended is an error.
LosesDisplay(a) ==
    /\ broker[a] \in {"run", "ready"}
    /\ displays[a] # DisplayBrokers(mode)
    /\ Fails(a)
    /\ OthersKeep
    /\ UNCHANGED link

\* Variant: only S ends it.
ObeysOnlyStop(a) ==
    /\ broker[a] \in {"run", "ready"}
    /\ link[a] = "stopped" /\ Exits(a, "ok")
    /\ OthersKeep
    /\ UNCHANGED <<fault, link, toPanel>>

\* S ends it.  The loss of the panel does after eight seconds, and so does an S
\* that the shutdown of the connection overtook.
Obeys(a) ==
    /\ broker[a] \in {"run", "ready"}
    /\ \/ link[a] = "stopped" /\ Exits(a, "ok")
       \/ link[a] \in {"stopped", "closed"} /\ Goes(a, "grace")
    /\ OthersKeep
    /\ UNCHANGED <<fault, link, toPanel>>

\* In eight seconds Windows has closed the job of a panel that was killed.
GraceEnds(a) ==
    /\ broker[a] = "grace"
    /\ ~(ui = "killed" /\ host = "running")
    /\ Exits(a, "ok")
    /\ OthersKeep
    /\ UNCHANGED <<fault, link, toPanel>>

\* A broker of the display, or the manager, dies.
DisplayDies(a, r) ==
    /\ r \in displays[a]
    /\ displays' = [displays EXCEPT ![a] = @ \ {r}]
    /\ Faulty(a)
    /\ OthersKeep
    /\ UNCHANGED <<broker, exit, link, toPanel>>

BrokerDies(a) ==
    /\ broker[a] \notin {"none", "asking", "over"}
    /\ Exits(a, "failed")
    /\ Faulty(a)
    /\ OthersKeep
    /\ UNCHANGED <<link, toPanel>>

-----------------------------------------------------------------------------
PersonStep == Start \/ StopButton \/ Close \/ \E a \in Attempts : Answers(a)

WindowStep == TickBegins \/ AppliesEvent \/ Drained \/ Checks \/ DrainedAgain

WorkerStep ==
    \/ SetupFails \/ PreflightFails \/ Asks \/ AskEnds \/ \E a \in Attempts : Accepts(a)
    \/ BrokerReady \/ WaitEnds \/ SpawnsHost \/ ReadsLine \/ TailEnds
    \/ StopsHost \/ HostIsOver \/ StopsBroker \/ BrokerIsOver \/ Reports \/ ThreadEnds
    \/ DropsHost \/ DropsLink

BrokerStep(a) ==
    \/ Dials(a) \/ Welcomed(a) \/ Configures(a) \/ SpawnsDisplays(a)
    \/ SaysReady(a) \/ LosesDisplay(a) \/ Obeys(a) \/ GraceEnds(a)

Mishap ==
    \/ Killed \/ SocketCloses \/ Panics \/ HostExits
    \/ \E a \in Attempts : BrokerDies(a) \/ \E r \in displays[a] : DisplayDies(a, r)

Next ==
    \/ PersonStep \/ WindowStep \/ WorkerStep \/ HostWrites \/ Mishap
    \/ \E a \in Attempts : BrokerStep(a)

Spec == Init /\ [][Next]_vars

\* The threads and the processes are scheduled, Windows closes what a process that
\* was killed had open, and time passes for those that wait with a deadline.  Nobody has to press a button or answer a prompt.
FairSpec ==
    /\ Spec
    /\ WF_vars(WindowStep) /\ WF_vars(WorkerStep)
    /\ \A a \in Attempts : WF_vars(BrokerStep(a))

-----------------------------------------------------------------------------
WindowTypes ==
    /\ ui \in {"open", "closing", "over", "killed"}
    /\ shown \in {"stopped", "starting", "hostStarting", "streaming", "stopping"}
    /\ failure \in {"none", "session", "unexpected"}
    /\ present \in BOOLEAN /\ noticed \in BOOLEAN
    /\ tick \in {"idle", "drain", "check", "again"}

WorkerTypes ==
    /\ n \in 0 .. MaxAttempts /\ mode \in Modes
    /\ worker \in {"begin", "ask", "wait", "spawn", "tail", "stopHost", "waitHost",
                   "stopBroker", "waitBroker", "report", "sent", "unwind", "dropLink",
                   "over"}
    /\ cancel \in BOOLEAN /\ seen \in BOOLEAN
    /\ outcome \in {"ok", "failed", "unclean"}
    /\ verdict \in [Attempts -> {"none", "ok", "failed"}] /\ panicked \in 0 .. MaxAttempts

HostTypes ==
    /\ host \in {"none", "running", "exited"} /\ stopFile \in BOOLEAN /\ fault \in BOOLEAN

BrokerTypes ==
    /\ broker \in [Attempts -> {"none", "asking", "dial", "hello", "firewall", "spawn",
                                "run", "ready", "grace", "over"}]
    /\ displays \in [Attempts -> SUBSET {"cpu", "gpu"}]
    /\ exit \in [Attempts -> {"none", "ok", "failed"}]
    /\ link \in [Attempts -> {"none", "pending", "open", "stopped", "closed"}]

QueueTypes ==
    /\ events \in Seq({"hostStarting", "streaming", "ok", "failed"})
    /\ lines \in Seq({"streaming"})
    /\ toPanel \in [Attempts -> Seq({"R", "E"})]

\* The type invariant.
TypeOK == WindowTypes /\ WorkerTypes /\ HostTypes /\ BrokerTypes /\ QueueTypes

\* "Always release the host before the elevated brokers, including startup
\* errors" (session.rs:136): while a host runs, so do the brokers of its display,
\* unless they failed by themselves.
HostEndsFirst ==
    host = "running" /\ ~fault => displays[n] = DisplayBrokers(mode)

\* "Cancellation closes this listener: a late approval cannot start a broker"
\* (broker.rs:62): a session that ended well, cancelled or not, has left nothing
\* elevated behind it but a manager that is approved late, which gets no further
\* than its hello.
NothingIsLeft ==
    \A a \in Attempts : verdict[a] = "ok" =>
        /\ displays[a] = {}
        /\ broker[a] \in {"none", "asking", "dial", "hello", "over"}

\* How an attempt ended, as the panel should tell it.
Ending(a) ==
    CASE panicked = a -> "unexpected" [] verdict[a] = "failed" -> "session"
      [] OTHER -> "none"

\* A panel that says that the session is over, and why, says the truth: there is
\* no host, the thread has reported or panicked, and a late event, or an end
\* between two looks at the events, makes it say nothing else.
PanelTellsTheEnd ==
    ui # "killed" /\ shown = "stopped" /\ n > 0 =>
        /\ host # "running"
        /\ worker \in {"sent", "over"}
        /\ failure = Ending(n)

\* Closing the window ends it, whatever the worker is doing and however long the
\* other processes take, and neither then nor when the panel is killed does a
\* process of a session stay, but for a prompt that nobody answers.
ShutdownEnds ==
    ui \in {"closing", "killed"} ~>
        /\ ui \in {"over", "killed"} /\ host # "running"
        /\ \A a \in Attempts :
              displays[a] = {} /\ broker[a] \in {"none", "asking", "dial", "over"}
=============================================================================
