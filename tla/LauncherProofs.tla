--------------------------- MODULE LauncherProofs ---------------------------
(***************************************************************************)
(* Proofs about Launcher for any number of sessions and any set of modes:  *)
(* the types, the order in which a session releases its processes, what an *)
(* ended session leaves behind, and what the panel tells of its end.       *)
(***************************************************************************)
EXTENDS Launcher, SequenceTheorems, TLAPS

-----------------------------------------------------------------------------
(* The strengthening *)

\* Nothing that displays, and nothing that can come to it without the panel.
Early(a) ==
    /\ broker[a] \in {"none", "asking", "dial", "hello", "over"}
    /\ displays[a] = {}

\* Attempts to come have no manager.
Unstarted ==
    \A a \in Attempts : a > n =>
        /\ broker[a] = "none" /\ link[a] = "none" /\ verdict[a] = "none"
        /\ displays[a] = {} /\ toPanel[a] = <<>>

\* A manager that was not welcomed has done nothing, and one is welcomed only
\* by the worker of its own attempt.
Welcome ==
    \A a \in Attempts :
        /\ link[a] \in {"none", "pending"} => Early(a) /\ toPanel[a] = <<>>
        /\ broker[a] \in {"none", "asking", "dial"} => toPanel[a] = <<>>
        /\ broker[a] \in {"none", "asking", "dial", "over"} => displays[a] = {}
        /\ link[a] = "open" =>
              /\ a = n
              /\ worker \in {"wait", "spawn", "tail", "stopHost", "waitHost",
                            "stopBroker", "unwind", "dropLink"}
        /\ a = n /\ link[a] = "closed" =>
              Early(a) \/ worker \in {"unwind", "dropLink", "over"}

\* The attempt of a worker exists, and its connection is as far as the worker.  A
\* killed panel has no worker, only what it owned.
Connected ==
    /\ ui = "killed" => worker \in {"unwind", "dropLink", "over"}
    /\ worker # "over" => n \in Attempts
    /\ worker \in {"begin", "ask"} => link[n] \in {"none", "pending"}
    /\ worker \in {"wait", "spawn", "tail"} => link[n] = "open"
    /\ worker = "waitBroker" => link[n] = "stopped"
    /\ host = "running" =>
          /\ worker \in {"tail", "stopHost", "waitHost", "unwind"}
          /\ n \in Attempts
          /\ link[n] = "open" \/ (link[n] = "closed" /\ ui = "killed")

\* The manager of the session has its displays, or failed.  That of a killed panel
\* may already be in its last eight seconds.
Held ==
    \/ fault
    \/ /\ displays[n] = DisplayBrokers(mode)
       /\ broker[n] = "ready" \/ (broker[n] = "grace" /\ ui = "killed")

\* From R on the manager holds its displays.
Ready ==
    /\ worker = "wait" /\ (\E i \in 1 .. Len(toPanel[n]) : toPanel[n][i] = "R") => Held
    /\ worker \in {"spawn", "tail"} => Held
    /\ host = "running" => Held

\* A session that ends well has seen its manager end, or never welcomed it.
Released ==
    /\ worker = "report" /\ outcome # "unclean" => Early(n)
    /\ \A a \in Attempts : verdict[a] = "ok" => Early(a) /\ link[a] # "open"

Endings == {"ok", "failed"}
NoEnding == \A i \in 1 .. Len(events) : events[i] \notin Endings

\* While the worker is busy the panel knows it, and knows of no end.
Busy ==
    worker \notin {"sent", "over"} =>
        /\ verdict[n] = "none" /\ panicked # n
        /\ ui # "killed" =>
              present /\ ~noticed /\ tick # "again" /\ shown # "stopped" /\ NoEnding

\* After a panic there is nothing to read: the panel finds the thread over.
Panicked ==
    /\ worker = "over" /\ verdict[n] = "none" /\ NoEnding /\ ~noticed
    /\ present => shown # "stopped"
    /\ ~present => shown = "stopped" /\ failure = "unexpected"

\* Otherwise the last event is its verdict, until the panel reads it.
Unread ==
    /\ present /\ ~noticed /\ shown # "stopped"
    /\ events # <<>> /\ events[Len(events)] = verdict[n]
    /\ \A i \in 1 .. Len(events) : events[i] \in Endings => i = Len(events)

Read ==
    /\ events = <<>> /\ shown = "stopped" /\ (noticed \/ ~present)
    /\ failure = IF verdict[n] = "ok" THEN "none" ELSE "session"

Told ==
    worker \in {"sent", "over"} /\ ui # "killed" /\ n > 0 =>
        IF panicked = n THEN Panicked ELSE verdict[n] # "none" /\ (Unread \/ Read)

\* Where the tick of the window can be.
Ticking ==
    /\ panicked <= n
    /\ n = 0 => worker = "over" /\ ~present /\ events = <<>>
    /\ tick = "again" => worker = "over" /\ present
    /\ noticed /\ ui # "killed" => tick \in {"drain", "again"} /\ present
    /\ tick = "check" => present

-----------------------------------------------------------------------------
(* The steps *)

LEMMA BrokersTyped ==
    ASSUME mode \in Modes
    PROVE  DisplayBrokers(mode) \in SUBSET {"cpu", "gpu"}
  BY ModesAssumption DEF DisplayBrokers

\* The types, one part of the state at a time: the window.
LEMMA WindowStepTypes ==
    ASSUME TypeOK, [Next]_vars
    PROVE  WindowTypes'
  <1>1. CASE Start
    BY <1>1
    DEF Start, panelVars, workerVars, attemptVars, hostVars, brokerVars, TypeOK,
        WindowTypes
  <1>2. CASE StopButton
    BY <1>2
    DEF StopButton, StopWorker, panelVars, workerVars, attemptVars, hostVars,
        brokerVars, TypeOK, WindowTypes
  <1>3. CASE Close
    BY <1>3
    DEF Close, StopWorker, panelVars, workerVars, attemptVars, hostVars, brokerVars,
        TypeOK, WindowTypes
  <1>4. CASE TickBegins
    BY <1>4
    DEF TickBegins, panelVars, workerVars, attemptVars, hostVars, brokerVars,
        TypeOK, WindowTypes
  <1>5. CASE AppliesEvent
    <2>1. Head(events) \in {"hostStarting", "streaming", "ok", "failed"}
      BY <1>5 DEF AppliesEvent, TypeOK, QueueTypes
    <2> QED
      BY <1>5, <2>1 DEF AppliesEvent, Update, TypeOK, WindowTypes
  <1>6. CASE Drained
    BY <1>6
    DEF Drained, TickEnds, panelVars, workerVars, attemptVars, hostVars, brokerVars,
        TypeOK, WindowTypes
  <1>7. CASE Checks
    BY <1>7
    DEF Checks, TickEnds, panelVars, workerVars, attemptVars, hostVars, brokerVars,
        TypeOK, WindowTypes
  <1>8. CASE DrainedAgain
    BY <1>8
    DEF DrainedAgain, TickEnds, panelVars, workerVars, attemptVars, hostVars,
        brokerVars, TypeOK, WindowTypes
  <1>9. CASE Killed
    BY <1>9
    DEF Killed, panelVars, workerVars, attemptVars, hostVars, brokerVars, TypeOK,
        WindowTypes
  <1>10. CASE SetupFails
    BY <1>10
    DEF SetupFails, Aside, panelVars, workerVars, attemptVars, hostVars, brokerVars,
        TypeOK, WindowTypes
  <1>11. CASE PreflightFails
    BY <1>11
    DEF PreflightFails, Aside, Ends, panelVars, workerVars, attemptVars, hostVars,
        brokerVars, TypeOK, WindowTypes
  <1>12. CASE Asks
    BY <1>12
    DEF Asks, Aside, Ends, panelVars, workerVars, attemptVars, hostVars, brokerVars,
        TypeOK, WindowTypes
  <1>13. CASE AskEnds
    BY <1>13
    DEF AskEnds, Aside, Ends, CloseListener, panelVars, workerVars, attemptVars,
        hostVars, brokerVars, TypeOK, WindowTypes
  <1>14. ASSUME NEW a \in Attempts, Accepts(a)
        PROVE  WindowTypes'
    BY <1>14
    DEF Accepts, Aside, CloseListener, panelVars, workerVars, attemptVars, hostVars,
        brokerVars, TypeOK, WindowTypes
  <1>15. CASE BrokerReady
    BY <1>15
    DEF BrokerReady, Aside, BrokerByte, panelVars, workerVars, attemptVars,
        hostVars, brokerVars, TypeOK, WindowTypes
  <1>16. CASE WaitEnds
    BY <1>16
    DEF WaitEnds, Aside, Ends, BrokerByte, panelVars, workerVars, attemptVars,
        hostVars, brokerVars, TypeOK, WindowTypes
  <1>17. CASE SpawnsHost
    BY <1>17
    DEF SpawnsHost, Aside, Ends, panelVars, workerVars, attemptVars, hostVars,
        brokerVars, TypeOK, WindowTypes
  <1>18. CASE ReadsLine
    BY <1>18
    DEF ReadsLine, panelVars, workerVars, attemptVars, hostVars, brokerVars, TypeOK,
        WindowTypes
  <1>19. CASE TailEnds
    BY <1>19
    DEF TailEnds, Aside, Ends, BrokerGone, panelVars, workerVars, attemptVars,
        hostVars, brokerVars, TypeOK, WindowTypes
  <1>20. CASE Panics
    BY <1>20
    DEF Panics, Aside, CloseListener, panelVars, workerVars, attemptVars,
        hostVars, brokerVars, TypeOK, WindowTypes
  <1>21. CASE StopsHost
    BY <1>21
    DEF StopsHost, Aside, panelVars, workerVars, attemptVars, hostVars, brokerVars,
        TypeOK, WindowTypes
  <1>22. CASE HostIsOver
    BY <1>22
    DEF HostIsOver, Aside, panelVars, workerVars, attemptVars, hostVars, brokerVars,
        TypeOK, WindowTypes
  <1>23. CASE StopsBroker
    BY <1>23
    DEF StopsBroker, Aside, panelVars, workerVars, attemptVars, hostVars,
        brokerVars, TypeOK, WindowTypes
  <1>24. CASE BrokerIsOver
    BY <1>24
    DEF BrokerIsOver, Aside, panelVars, workerVars, attemptVars, hostVars,
        brokerVars, TypeOK, WindowTypes
  <1>25. CASE Reports
    BY <1>25
    DEF Reports, Aside, panelVars, workerVars, attemptVars, hostVars, brokerVars,
        TypeOK, WindowTypes
  <1>26. CASE ThreadEnds
    BY <1>26
    DEF ThreadEnds, Aside, panelVars, workerVars, attemptVars, hostVars, brokerVars,
        TypeOK, WindowTypes
  <1>27. CASE HostWrites
    BY <1>27
    DEF HostWrites, panelVars, workerVars, attemptVars, hostVars, brokerVars,
        TypeOK, WindowTypes
  <1>28. CASE HostExits
    BY <1>28
    DEF HostExits, panelVars, workerVars, attemptVars, hostVars, brokerVars, TypeOK,
        WindowTypes
  <1>29. ASSUME NEW a \in Attempts, Answers(a)
        PROVE  WindowTypes'
    BY <1>29
    DEF Answers, Goes, Exits, OthersKeep, panelVars, workerVars, attemptVars,
        hostVars, brokerVars, TypeOK, WindowTypes
  <1>30. ASSUME NEW a \in Attempts, Dials(a)
        PROVE  WindowTypes'
    BY <1>30
    DEF Dials, Goes, Exits, OthersKeep, panelVars, workerVars, attemptVars,
        hostVars, brokerVars, TypeOK, WindowTypes
  <1>31. ASSUME NEW a \in Attempts, Welcomed(a)
        PROVE  WindowTypes'
    BY <1>31
    DEF Welcomed, Goes, Exits, OthersKeep, panelVars, workerVars, attemptVars,
        hostVars, brokerVars, TypeOK, WindowTypes
  <1>32. ASSUME NEW a \in Attempts, Configures(a)
        PROVE  WindowTypes'
    BY <1>32
    DEF Configures, Goes, Exits, OthersKeep, Fails, Faulty, panelVars, workerVars,
        attemptVars, hostVars, brokerVars, TypeOK, WindowTypes
  <1>33. ASSUME NEW a \in Attempts, SpawnsDisplays(a)
        PROVE  WindowTypes'
    BY <1>33
    DEF SpawnsDisplays, Exits, OthersKeep, Fails, Faulty, panelVars, workerVars,
        attemptVars, hostVars, brokerVars, TypeOK, WindowTypes
  <1>34. ASSUME NEW a \in Attempts, SaysReady(a)
        PROVE  WindowTypes'
    BY <1>34
    DEF SaysReady, Goes, Exits, OthersKeep, Fails, Faulty, panelVars, workerVars,
        attemptVars, hostVars, brokerVars, TypeOK, WindowTypes
  <1>35. ASSUME NEW a \in Attempts, LosesDisplay(a)
        PROVE  WindowTypes'
    BY <1>35
    DEF LosesDisplay, Exits, OthersKeep, Fails, Faulty, panelVars, workerVars,
        attemptVars, hostVars, brokerVars, TypeOK, WindowTypes
  <1>36. ASSUME NEW a \in Attempts, Obeys(a)
        PROVE  WindowTypes'
    BY <1>36
    DEF Obeys, Goes, Exits, OthersKeep, panelVars, workerVars, attemptVars,
        hostVars, brokerVars, TypeOK, WindowTypes
  <1>37. ASSUME NEW a \in Attempts, GraceEnds(a)
        PROVE  WindowTypes'
    BY <1>37
    DEF GraceEnds, Exits, OthersKeep, panelVars, workerVars, attemptVars, hostVars,
        brokerVars, TypeOK, WindowTypes
  <1>38. ASSUME NEW a \in Attempts, BrokerDies(a)
        PROVE  WindowTypes'
    BY <1>38
    DEF BrokerDies, Exits, OthersKeep, Faulty, panelVars, workerVars, attemptVars,
        hostVars, brokerVars, TypeOK, WindowTypes
  <1>39. ASSUME NEW a \in Attempts, NEW r \in displays[a], DisplayDies(a, r)
        PROVE  WindowTypes'
    BY <1>39
    DEF DisplayDies, OthersKeep, Faulty, panelVars, workerVars, attemptVars,
        hostVars, brokerVars, TypeOK, WindowTypes
  <1>40. CASE UNCHANGED vars
    BY <1>40
    DEF vars, panelVars, workerVars, attemptVars, hostVars, brokerVars, TypeOK,
        WindowTypes
  <1>41. CASE DropsHost
    BY <1>41
    DEF DropsHost, Aside, panelVars, workerVars, attemptVars, hostVars,
        brokerVars, TypeOK, WindowTypes
  <1>42. CASE DropsLink
    BY <1>42
    DEF DropsLink, LinksEnd, panelVars, workerVars, attemptVars, hostVars,
        brokerVars, TypeOK, WindowTypes
  <1>43. CASE SocketCloses
    BY <1>43
    DEF SocketCloses, LinksEnd, panelVars, workerVars, attemptVars, hostVars,
        brokerVars, TypeOK, WindowTypes
  <1> QED
    BY <1>1, <1>2, <1>3, <1>4, <1>5, <1>6, <1>7, <1>8, <1>9, <1>10, <1>11, <1>12,
        <1>13, <1>14, <1>15, <1>16, <1>17, <1>18, <1>19, <1>20, <1>21, <1>22, <1>23,
        <1>24, <1>25, <1>26, <1>27, <1>28, <1>29, <1>30, <1>31, <1>32, <1>33, <1>34,
        <1>35, <1>36, <1>37, <1>38, <1>39, <1>40, <1>41, <1>42, <1>43
    DEF Next, PersonStep, WindowStep, WorkerStep, BrokerStep, Mishap

\* The worker and its attempt.
LEMMA WorkerStepTypes ==
    ASSUME TypeOK, [Next]_vars
    PROVE  WorkerTypes'
  <1>1. CASE Start
    <2>1. n' \in 0 .. MaxAttempts
      BY <1>1, BoundsAssumption DEF Start, TypeOK, WorkerTypes
    <2> QED
      BY <1>1, <2>1 DEF Start, TypeOK, WorkerTypes
  <1>2. CASE StopButton
    BY <1>2
    DEF StopButton, StopWorker, panelVars, workerVars, attemptVars, hostVars,
        brokerVars, TypeOK, WorkerTypes
  <1>3. CASE Close
    BY <1>3
    DEF Close, StopWorker, panelVars, workerVars, attemptVars, hostVars, brokerVars,
        TypeOK, WorkerTypes
  <1>4. CASE TickBegins
    BY <1>4
    DEF TickBegins, panelVars, workerVars, attemptVars, hostVars, brokerVars,
        TypeOK, WorkerTypes
  <1>5. CASE AppliesEvent
    BY <1>5
    DEF AppliesEvent, Update, panelVars, workerVars, attemptVars, hostVars,
        brokerVars, TypeOK, WorkerTypes
  <1>6. CASE Drained
    BY <1>6
    DEF Drained, TickEnds, panelVars, workerVars, attemptVars, hostVars, brokerVars,
        TypeOK, WorkerTypes
  <1>7. CASE Checks
    BY <1>7
    DEF Checks, TickEnds, panelVars, workerVars, attemptVars, hostVars, brokerVars,
        TypeOK, WorkerTypes
  <1>8. CASE DrainedAgain
    BY <1>8
    DEF DrainedAgain, TickEnds, panelVars, workerVars, attemptVars, hostVars,
        brokerVars, TypeOK, WorkerTypes
  <1>9. CASE Killed
    BY <1>9
    DEF Killed, panelVars, workerVars, attemptVars, hostVars, brokerVars, TypeOK,
        WorkerTypes
  <1>10. CASE SetupFails
    BY <1>10
    DEF SetupFails, Aside, panelVars, workerVars, attemptVars, hostVars, brokerVars,
        TypeOK, WorkerTypes
  <1>11. CASE PreflightFails
    BY <1>11
    DEF PreflightFails, Aside, Ends, panelVars, workerVars, attemptVars, hostVars,
        brokerVars, TypeOK, WorkerTypes
  <1>12. CASE Asks
    BY <1>12
    DEF Asks, Aside, Ends, panelVars, workerVars, attemptVars, hostVars, brokerVars,
        TypeOK, WorkerTypes
  <1>13. CASE AskEnds
    BY <1>13
    DEF AskEnds, Aside, Ends, CloseListener, panelVars, workerVars, attemptVars,
        hostVars, brokerVars, TypeOK, WorkerTypes
  <1>14. ASSUME NEW a \in Attempts, Accepts(a)
        PROVE  WorkerTypes'
    BY <1>14
    DEF Accepts, Aside, CloseListener, panelVars, workerVars, attemptVars, hostVars,
        brokerVars, TypeOK, WorkerTypes
  <1>15. CASE BrokerReady
    BY <1>15
    DEF BrokerReady, Aside, BrokerByte, panelVars, workerVars, attemptVars,
        hostVars, brokerVars, TypeOK, WorkerTypes
  <1>16. CASE WaitEnds
    BY <1>16
    DEF WaitEnds, Aside, Ends, BrokerByte, panelVars, workerVars, attemptVars,
        hostVars, brokerVars, TypeOK, WorkerTypes
  <1>17. CASE SpawnsHost
    BY <1>17
    DEF SpawnsHost, Aside, Ends, panelVars, workerVars, attemptVars, hostVars,
        brokerVars, TypeOK, WorkerTypes
  <1>18. CASE ReadsLine
    BY <1>18
    DEF ReadsLine, panelVars, workerVars, attemptVars, hostVars, brokerVars, TypeOK,
        WorkerTypes
  <1>19. CASE TailEnds
    BY <1>19
    DEF TailEnds, Aside, Ends, BrokerGone, panelVars, workerVars, attemptVars,
        hostVars, brokerVars, TypeOK, WorkerTypes
  <1>20. CASE Panics
    BY <1>20
    DEF Panics, Aside, CloseListener, panelVars, workerVars, attemptVars,
        hostVars, brokerVars, TypeOK, WorkerTypes
  <1>21. CASE StopsHost
    BY <1>21
    DEF StopsHost, Aside, panelVars, workerVars, attemptVars, hostVars, brokerVars,
        TypeOK, WorkerTypes
  <1>22. CASE HostIsOver
    BY <1>22
    DEF HostIsOver, Aside, panelVars, workerVars, attemptVars, hostVars, brokerVars,
        TypeOK, WorkerTypes
  <1>23. CASE StopsBroker
    BY <1>23
    DEF StopsBroker, Aside, panelVars, workerVars, attemptVars, hostVars,
        brokerVars, TypeOK, WorkerTypes
  <1>24. CASE BrokerIsOver
    BY <1>24
    DEF BrokerIsOver, Aside, panelVars, workerVars, attemptVars, hostVars,
        brokerVars, TypeOK, WorkerTypes
  <1>25. CASE Reports
    BY <1>25
    DEF Reports, Aside, panelVars, workerVars, attemptVars, hostVars, brokerVars,
        TypeOK, WorkerTypes
  <1>26. CASE ThreadEnds
    BY <1>26
    DEF ThreadEnds, Aside, panelVars, workerVars, attemptVars, hostVars, brokerVars,
        TypeOK, WorkerTypes
  <1>27. CASE HostWrites
    BY <1>27
    DEF HostWrites, panelVars, workerVars, attemptVars, hostVars, brokerVars,
        TypeOK, WorkerTypes
  <1>28. CASE HostExits
    BY <1>28
    DEF HostExits, panelVars, workerVars, attemptVars, hostVars, brokerVars, TypeOK,
        WorkerTypes
  <1>29. ASSUME NEW a \in Attempts, Answers(a)
        PROVE  WorkerTypes'
    BY <1>29
    DEF Answers, Goes, Exits, OthersKeep, panelVars, workerVars, attemptVars,
        hostVars, brokerVars, TypeOK, WorkerTypes
  <1>30. ASSUME NEW a \in Attempts, Dials(a)
        PROVE  WorkerTypes'
    BY <1>30
    DEF Dials, Goes, Exits, OthersKeep, panelVars, workerVars, attemptVars,
        hostVars, brokerVars, TypeOK, WorkerTypes
  <1>31. ASSUME NEW a \in Attempts, Welcomed(a)
        PROVE  WorkerTypes'
    BY <1>31
    DEF Welcomed, Goes, Exits, OthersKeep, panelVars, workerVars, attemptVars,
        hostVars, brokerVars, TypeOK, WorkerTypes
  <1>32. ASSUME NEW a \in Attempts, Configures(a)
        PROVE  WorkerTypes'
    BY <1>32
    DEF Configures, Goes, Exits, OthersKeep, Fails, Faulty, panelVars, workerVars,
        attemptVars, hostVars, brokerVars, TypeOK, WorkerTypes
  <1>33. ASSUME NEW a \in Attempts, SpawnsDisplays(a)
        PROVE  WorkerTypes'
    BY <1>33
    DEF SpawnsDisplays, Exits, OthersKeep, Fails, Faulty, panelVars, workerVars,
        attemptVars, hostVars, brokerVars, TypeOK, WorkerTypes
  <1>34. ASSUME NEW a \in Attempts, SaysReady(a)
        PROVE  WorkerTypes'
    BY <1>34
    DEF SaysReady, Goes, Exits, OthersKeep, Fails, Faulty, panelVars, workerVars,
        attemptVars, hostVars, brokerVars, TypeOK, WorkerTypes
  <1>35. ASSUME NEW a \in Attempts, LosesDisplay(a)
        PROVE  WorkerTypes'
    BY <1>35
    DEF LosesDisplay, Exits, OthersKeep, Fails, Faulty, panelVars, workerVars,
        attemptVars, hostVars, brokerVars, TypeOK, WorkerTypes
  <1>36. ASSUME NEW a \in Attempts, Obeys(a)
        PROVE  WorkerTypes'
    BY <1>36
    DEF Obeys, Goes, Exits, OthersKeep, panelVars, workerVars, attemptVars,
        hostVars, brokerVars, TypeOK, WorkerTypes
  <1>37. ASSUME NEW a \in Attempts, GraceEnds(a)
        PROVE  WorkerTypes'
    BY <1>37
    DEF GraceEnds, Exits, OthersKeep, panelVars, workerVars, attemptVars, hostVars,
        brokerVars, TypeOK, WorkerTypes
  <1>38. ASSUME NEW a \in Attempts, BrokerDies(a)
        PROVE  WorkerTypes'
    BY <1>38
    DEF BrokerDies, Exits, OthersKeep, Faulty, panelVars, workerVars, attemptVars,
        hostVars, brokerVars, TypeOK, WorkerTypes
  <1>39. ASSUME NEW a \in Attempts, NEW r \in displays[a], DisplayDies(a, r)
        PROVE  WorkerTypes'
    BY <1>39
    DEF DisplayDies, OthersKeep, Faulty, panelVars, workerVars, attemptVars,
        hostVars, brokerVars, TypeOK, WorkerTypes
  <1>40. CASE UNCHANGED vars
    BY <1>40
    DEF vars, panelVars, workerVars, attemptVars, hostVars, brokerVars, TypeOK,
        WorkerTypes
  <1>41. CASE DropsHost
    BY <1>41
    DEF DropsHost, Aside, panelVars, workerVars, attemptVars, hostVars,
        brokerVars, TypeOK, WorkerTypes
  <1>42. CASE DropsLink
    BY <1>42
    DEF DropsLink, LinksEnd, panelVars, workerVars, attemptVars, hostVars,
        brokerVars, TypeOK, WorkerTypes
  <1>43. CASE SocketCloses
    BY <1>43
    DEF SocketCloses, LinksEnd, panelVars, workerVars, attemptVars, hostVars,
        brokerVars, TypeOK, WorkerTypes
  <1> QED
    BY <1>1, <1>2, <1>3, <1>4, <1>5, <1>6, <1>7, <1>8, <1>9, <1>10, <1>11, <1>12,
        <1>13, <1>14, <1>15, <1>16, <1>17, <1>18, <1>19, <1>20, <1>21, <1>22, <1>23,
        <1>24, <1>25, <1>26, <1>27, <1>28, <1>29, <1>30, <1>31, <1>32, <1>33, <1>34,
        <1>35, <1>36, <1>37, <1>38, <1>39, <1>40, <1>41, <1>42, <1>43
    DEF Next, PersonStep, WindowStep, WorkerStep, BrokerStep, Mishap

\* The host.
LEMMA HostStepTypes ==
    ASSUME TypeOK, [Next]_vars
    PROVE  HostTypes'
  <1>1. CASE Start
    BY <1>1
    DEF Start, panelVars, workerVars, attemptVars, hostVars, brokerVars, TypeOK,
        HostTypes
  <1>2. CASE StopButton
    BY <1>2
    DEF StopButton, StopWorker, panelVars, workerVars, attemptVars, hostVars,
        brokerVars, TypeOK, HostTypes
  <1>3. CASE Close
    BY <1>3
    DEF Close, StopWorker, panelVars, workerVars, attemptVars, hostVars, brokerVars,
        TypeOK, HostTypes
  <1>4. CASE TickBegins
    BY <1>4
    DEF TickBegins, panelVars, workerVars, attemptVars, hostVars, brokerVars,
        TypeOK, HostTypes
  <1>5. CASE AppliesEvent
    BY <1>5
    DEF AppliesEvent, Update, panelVars, workerVars, attemptVars, hostVars,
        brokerVars, TypeOK, HostTypes
  <1>6. CASE Drained
    BY <1>6
    DEF Drained, TickEnds, panelVars, workerVars, attemptVars, hostVars, brokerVars,
        TypeOK, HostTypes
  <1>7. CASE Checks
    BY <1>7
    DEF Checks, TickEnds, panelVars, workerVars, attemptVars, hostVars, brokerVars,
        TypeOK, HostTypes
  <1>8. CASE DrainedAgain
    BY <1>8
    DEF DrainedAgain, TickEnds, panelVars, workerVars, attemptVars, hostVars,
        brokerVars, TypeOK, HostTypes
  <1>9. CASE Killed
    BY <1>9
    DEF Killed, panelVars, workerVars, attemptVars, hostVars, brokerVars, TypeOK,
        HostTypes
  <1>10. CASE SetupFails
    BY <1>10
    DEF SetupFails, Aside, panelVars, workerVars, attemptVars, hostVars, brokerVars,
        TypeOK, HostTypes
  <1>11. CASE PreflightFails
    BY <1>11
    DEF PreflightFails, Aside, Ends, panelVars, workerVars, attemptVars, hostVars,
        brokerVars, TypeOK, HostTypes
  <1>12. CASE Asks
    BY <1>12
    DEF Asks, Aside, Ends, panelVars, workerVars, attemptVars, hostVars, brokerVars,
        TypeOK, HostTypes
  <1>13. CASE AskEnds
    BY <1>13
    DEF AskEnds, Aside, Ends, CloseListener, panelVars, workerVars, attemptVars,
        hostVars, brokerVars, TypeOK, HostTypes
  <1>14. ASSUME NEW a \in Attempts, Accepts(a)
        PROVE  HostTypes'
    BY <1>14
    DEF Accepts, Aside, CloseListener, panelVars, workerVars, attemptVars, hostVars,
        brokerVars, TypeOK, HostTypes
  <1>15. CASE BrokerReady
    BY <1>15
    DEF BrokerReady, Aside, BrokerByte, panelVars, workerVars, attemptVars,
        hostVars, brokerVars, TypeOK, HostTypes
  <1>16. CASE WaitEnds
    BY <1>16
    DEF WaitEnds, Aside, Ends, BrokerByte, panelVars, workerVars, attemptVars,
        hostVars, brokerVars, TypeOK, HostTypes
  <1>17. CASE SpawnsHost
    BY <1>17
    DEF SpawnsHost, Aside, Ends, panelVars, workerVars, attemptVars, hostVars,
        brokerVars, TypeOK, HostTypes
  <1>18. CASE ReadsLine
    BY <1>18
    DEF ReadsLine, panelVars, workerVars, attemptVars, hostVars, brokerVars, TypeOK,
        HostTypes
  <1>19. CASE TailEnds
    BY <1>19
    DEF TailEnds, Aside, Ends, BrokerGone, panelVars, workerVars, attemptVars,
        hostVars, brokerVars, TypeOK, HostTypes
  <1>20. CASE Panics
    BY <1>20
    DEF Panics, Aside, CloseListener, panelVars, workerVars, attemptVars,
        hostVars, brokerVars, TypeOK, HostTypes
  <1>21. CASE StopsHost
    BY <1>21
    DEF StopsHost, Aside, panelVars, workerVars, attemptVars, hostVars, brokerVars,
        TypeOK, HostTypes
  <1>22. CASE HostIsOver
    BY <1>22
    DEF HostIsOver, Aside, panelVars, workerVars, attemptVars, hostVars, brokerVars,
        TypeOK, HostTypes
  <1>23. CASE StopsBroker
    BY <1>23
    DEF StopsBroker, Aside, panelVars, workerVars, attemptVars, hostVars,
        brokerVars, TypeOK, HostTypes
  <1>24. CASE BrokerIsOver
    BY <1>24
    DEF BrokerIsOver, Aside, panelVars, workerVars, attemptVars, hostVars,
        brokerVars, TypeOK, HostTypes
  <1>25. CASE Reports
    BY <1>25
    DEF Reports, Aside, panelVars, workerVars, attemptVars, hostVars, brokerVars,
        TypeOK, HostTypes
  <1>26. CASE ThreadEnds
    BY <1>26
    DEF ThreadEnds, Aside, panelVars, workerVars, attemptVars, hostVars, brokerVars,
        TypeOK, HostTypes
  <1>27. CASE HostWrites
    BY <1>27
    DEF HostWrites, panelVars, workerVars, attemptVars, hostVars, brokerVars,
        TypeOK, HostTypes
  <1>28. CASE HostExits
    BY <1>28
    DEF HostExits, panelVars, workerVars, attemptVars, hostVars, brokerVars, TypeOK,
        HostTypes
  <1>29. ASSUME NEW a \in Attempts, Answers(a)
        PROVE  HostTypes'
    BY <1>29
    DEF Answers, Goes, Exits, OthersKeep, panelVars, workerVars, attemptVars,
        hostVars, brokerVars, TypeOK, HostTypes
  <1>30. ASSUME NEW a \in Attempts, Dials(a)
        PROVE  HostTypes'
    BY <1>30
    DEF Dials, Goes, Exits, OthersKeep, panelVars, workerVars, attemptVars,
        hostVars, brokerVars, TypeOK, HostTypes
  <1>31. ASSUME NEW a \in Attempts, Welcomed(a)
        PROVE  HostTypes'
    BY <1>31
    DEF Welcomed, Goes, Exits, OthersKeep, panelVars, workerVars, attemptVars,
        hostVars, brokerVars, TypeOK, HostTypes
  <1>32. ASSUME NEW a \in Attempts, Configures(a)
        PROVE  HostTypes'
    BY <1>32
    DEF Configures, Goes, Exits, OthersKeep, Fails, Faulty, panelVars, workerVars,
        attemptVars, hostVars, brokerVars, TypeOK, HostTypes
  <1>33. ASSUME NEW a \in Attempts, SpawnsDisplays(a)
        PROVE  HostTypes'
    BY <1>33
    DEF SpawnsDisplays, Exits, OthersKeep, Fails, Faulty, panelVars, workerVars,
        attemptVars, hostVars, brokerVars, TypeOK, HostTypes
  <1>34. ASSUME NEW a \in Attempts, SaysReady(a)
        PROVE  HostTypes'
    BY <1>34
    DEF SaysReady, Goes, Exits, OthersKeep, Fails, Faulty, panelVars, workerVars,
        attemptVars, hostVars, brokerVars, TypeOK, HostTypes
  <1>35. ASSUME NEW a \in Attempts, LosesDisplay(a)
        PROVE  HostTypes'
    BY <1>35
    DEF LosesDisplay, Exits, OthersKeep, Fails, Faulty, panelVars, workerVars,
        attemptVars, hostVars, brokerVars, TypeOK, HostTypes
  <1>36. ASSUME NEW a \in Attempts, Obeys(a)
        PROVE  HostTypes'
    BY <1>36
    DEF Obeys, Goes, Exits, OthersKeep, panelVars, workerVars, attemptVars,
        hostVars, brokerVars, TypeOK, HostTypes
  <1>37. ASSUME NEW a \in Attempts, GraceEnds(a)
        PROVE  HostTypes'
    BY <1>37
    DEF GraceEnds, Exits, OthersKeep, panelVars, workerVars, attemptVars, hostVars,
        brokerVars, TypeOK, HostTypes
  <1>38. ASSUME NEW a \in Attempts, BrokerDies(a)
        PROVE  HostTypes'
    BY <1>38
    DEF BrokerDies, Exits, OthersKeep, Faulty, panelVars, workerVars, attemptVars,
        hostVars, brokerVars, TypeOK, HostTypes
  <1>39. ASSUME NEW a \in Attempts, NEW r \in displays[a], DisplayDies(a, r)
        PROVE  HostTypes'
    BY <1>39
    DEF DisplayDies, OthersKeep, Faulty, panelVars, workerVars, attemptVars,
        hostVars, brokerVars, TypeOK, HostTypes
  <1>40. CASE UNCHANGED vars
    BY <1>40
    DEF vars, panelVars, workerVars, attemptVars, hostVars, brokerVars, TypeOK,
        HostTypes
  <1>41. CASE DropsHost
    BY <1>41
    DEF DropsHost, Aside, panelVars, workerVars, attemptVars, hostVars,
        brokerVars, TypeOK, HostTypes
  <1>42. CASE DropsLink
    BY <1>42
    DEF DropsLink, LinksEnd, panelVars, workerVars, attemptVars, hostVars,
        brokerVars, TypeOK, HostTypes
  <1>43. CASE SocketCloses
    BY <1>43
    DEF SocketCloses, LinksEnd, panelVars, workerVars, attemptVars, hostVars,
        brokerVars, TypeOK, HostTypes
  <1> QED
    BY <1>1, <1>2, <1>3, <1>4, <1>5, <1>6, <1>7, <1>8, <1>9, <1>10, <1>11, <1>12,
        <1>13, <1>14, <1>15, <1>16, <1>17, <1>18, <1>19, <1>20, <1>21, <1>22, <1>23,
        <1>24, <1>25, <1>26, <1>27, <1>28, <1>29, <1>30, <1>31, <1>32, <1>33, <1>34,
        <1>35, <1>36, <1>37, <1>38, <1>39, <1>40, <1>41, <1>42, <1>43
    DEF Next, PersonStep, WindowStep, WorkerStep, BrokerStep, Mishap

\* The managers and their connections.
LEMMA BrokerStepTypes ==
    ASSUME TypeOK, [Next]_vars
    PROVE  BrokerTypes'
  <1>1. CASE Start
    BY <1>1, BrokersTyped
    DEF Start, panelVars, workerVars, attemptVars, hostVars, brokerVars, TypeOK,
        WorkerTypes, BrokerTypes
  <1>2. CASE StopButton
    BY <1>2, BrokersTyped
    DEF StopButton, StopWorker, panelVars, workerVars, attemptVars, hostVars,
        brokerVars, TypeOK, WorkerTypes, BrokerTypes
  <1>3. CASE Close
    BY <1>3, BrokersTyped
    DEF Close, StopWorker, panelVars, workerVars, attemptVars, hostVars, brokerVars,
        TypeOK, WorkerTypes, BrokerTypes
  <1>4. CASE TickBegins
    BY <1>4, BrokersTyped
    DEF TickBegins, panelVars, workerVars, attemptVars, hostVars, brokerVars,
        TypeOK, WorkerTypes, BrokerTypes
  <1>5. CASE AppliesEvent
    BY <1>5, BrokersTyped
    DEF AppliesEvent, Update, panelVars, workerVars, attemptVars, hostVars,
        brokerVars, TypeOK, WorkerTypes, BrokerTypes
  <1>6. CASE Drained
    BY <1>6, BrokersTyped
    DEF Drained, TickEnds, panelVars, workerVars, attemptVars, hostVars, brokerVars,
        TypeOK, WorkerTypes, BrokerTypes
  <1>7. CASE Checks
    BY <1>7, BrokersTyped
    DEF Checks, TickEnds, panelVars, workerVars, attemptVars, hostVars, brokerVars,
        TypeOK, WorkerTypes, BrokerTypes
  <1>8. CASE DrainedAgain
    BY <1>8, BrokersTyped
    DEF DrainedAgain, TickEnds, panelVars, workerVars, attemptVars, hostVars,
        brokerVars, TypeOK, WorkerTypes, BrokerTypes
  <1>9. CASE Killed
    BY <1>9, BrokersTyped
    DEF Killed, panelVars, workerVars, attemptVars, hostVars, brokerVars, TypeOK,
        WorkerTypes, BrokerTypes
  <1>10. CASE SetupFails
    BY <1>10, BrokersTyped
    DEF SetupFails, Aside, panelVars, workerVars, attemptVars, hostVars, brokerVars,
        TypeOK, WorkerTypes, BrokerTypes
  <1>11. CASE PreflightFails
    BY <1>11, BrokersTyped
    DEF PreflightFails, Aside, Ends, panelVars, workerVars, attemptVars, hostVars,
        brokerVars, TypeOK, WorkerTypes, BrokerTypes
  <1>12. CASE Asks
    BY <1>12, BrokersTyped
    DEF Asks, Aside, Ends, panelVars, workerVars, attemptVars, hostVars, brokerVars,
        TypeOK, WorkerTypes, BrokerTypes
  <1>13. CASE AskEnds
    BY <1>13, BrokersTyped
    DEF AskEnds, Aside, Ends, CloseListener, panelVars, workerVars, attemptVars,
        hostVars, brokerVars, TypeOK, WorkerTypes, BrokerTypes
  <1>14. ASSUME NEW a \in Attempts, Accepts(a)
        PROVE  BrokerTypes'
    BY <1>14, BrokersTyped
    DEF Accepts, Aside, CloseListener, panelVars, workerVars, attemptVars, hostVars,
        brokerVars, TypeOK, WorkerTypes, BrokerTypes
  <1>15. CASE BrokerReady
    BY <1>15, BrokersTyped
    DEF BrokerReady, Aside, BrokerByte, panelVars, workerVars, attemptVars,
        hostVars, brokerVars, TypeOK, WorkerTypes, BrokerTypes
  <1>16. CASE WaitEnds
    BY <1>16, BrokersTyped
    DEF WaitEnds, Aside, Ends, BrokerByte, panelVars, workerVars, attemptVars,
        hostVars, brokerVars, TypeOK, WorkerTypes, BrokerTypes
  <1>17. CASE SpawnsHost
    BY <1>17, BrokersTyped
    DEF SpawnsHost, Aside, Ends, panelVars, workerVars, attemptVars, hostVars,
        brokerVars, TypeOK, WorkerTypes, BrokerTypes
  <1>18. CASE ReadsLine
    BY <1>18, BrokersTyped
    DEF ReadsLine, panelVars, workerVars, attemptVars, hostVars, brokerVars, TypeOK,
        WorkerTypes, BrokerTypes
  <1>19. CASE TailEnds
    BY <1>19, BrokersTyped
    DEF TailEnds, Aside, Ends, BrokerGone, panelVars, workerVars, attemptVars,
        hostVars, brokerVars, TypeOK, WorkerTypes, BrokerTypes
  <1>20. CASE Panics
    BY <1>20, BrokersTyped
    DEF Panics, Aside, CloseListener, panelVars, workerVars, attemptVars,
        hostVars, brokerVars, TypeOK, WorkerTypes, BrokerTypes
  <1>21. CASE StopsHost
    BY <1>21, BrokersTyped
    DEF StopsHost, Aside, panelVars, workerVars, attemptVars, hostVars, brokerVars,
        TypeOK, WorkerTypes, BrokerTypes
  <1>22. CASE HostIsOver
    BY <1>22, BrokersTyped
    DEF HostIsOver, Aside, panelVars, workerVars, attemptVars, hostVars, brokerVars,
        TypeOK, WorkerTypes, BrokerTypes
  <1>23. CASE StopsBroker
    BY <1>23, BrokersTyped
    DEF StopsBroker, Aside, panelVars, workerVars, attemptVars, hostVars,
        brokerVars, TypeOK, WorkerTypes, BrokerTypes
  <1>24. CASE BrokerIsOver
    BY <1>24, BrokersTyped
    DEF BrokerIsOver, Aside, panelVars, workerVars, attemptVars, hostVars,
        brokerVars, TypeOK, WorkerTypes, BrokerTypes
  <1>25. CASE Reports
    BY <1>25, BrokersTyped
    DEF Reports, Aside, panelVars, workerVars, attemptVars, hostVars, brokerVars,
        TypeOK, WorkerTypes, BrokerTypes
  <1>26. CASE ThreadEnds
    BY <1>26, BrokersTyped
    DEF ThreadEnds, Aside, panelVars, workerVars, attemptVars, hostVars, brokerVars,
        TypeOK, WorkerTypes, BrokerTypes
  <1>27. CASE HostWrites
    BY <1>27, BrokersTyped
    DEF HostWrites, panelVars, workerVars, attemptVars, hostVars, brokerVars,
        TypeOK, WorkerTypes, BrokerTypes
  <1>28. CASE HostExits
    BY <1>28, BrokersTyped
    DEF HostExits, panelVars, workerVars, attemptVars, hostVars, brokerVars, TypeOK,
        WorkerTypes, BrokerTypes
  <1>29. ASSUME NEW a \in Attempts, Answers(a)
        PROVE  BrokerTypes'
    BY <1>29, BrokersTyped
    DEF Answers, Goes, Exits, OthersKeep, panelVars, workerVars, attemptVars,
        hostVars, brokerVars, TypeOK, WorkerTypes, BrokerTypes
  <1>30. ASSUME NEW a \in Attempts, Dials(a)
        PROVE  BrokerTypes'
    BY <1>30, BrokersTyped
    DEF Dials, Goes, Exits, OthersKeep, panelVars, workerVars, attemptVars,
        hostVars, brokerVars, TypeOK, WorkerTypes, BrokerTypes
  <1>31. ASSUME NEW a \in Attempts, Welcomed(a)
        PROVE  BrokerTypes'
    BY <1>31, BrokersTyped
    DEF Welcomed, Goes, Exits, OthersKeep, panelVars, workerVars, attemptVars,
        hostVars, brokerVars, TypeOK, WorkerTypes, BrokerTypes
  <1>32. ASSUME NEW a \in Attempts, Configures(a)
        PROVE  BrokerTypes'
    BY <1>32, BrokersTyped
    DEF Configures, Goes, Exits, OthersKeep, Fails, Faulty, panelVars, workerVars,
        attemptVars, hostVars, brokerVars, TypeOK, WorkerTypes, BrokerTypes
  <1>33. ASSUME NEW a \in Attempts, SpawnsDisplays(a)
        PROVE  BrokerTypes'
    BY <1>33, BrokersTyped
    DEF SpawnsDisplays, Exits, OthersKeep, Fails, Faulty, panelVars, workerVars,
        attemptVars, hostVars, brokerVars, TypeOK, WorkerTypes, BrokerTypes
  <1>34. ASSUME NEW a \in Attempts, SaysReady(a)
        PROVE  BrokerTypes'
    BY <1>34, BrokersTyped
    DEF SaysReady, Goes, Exits, OthersKeep, Fails, Faulty, panelVars, workerVars,
        attemptVars, hostVars, brokerVars, TypeOK, WorkerTypes, BrokerTypes
  <1>35. ASSUME NEW a \in Attempts, LosesDisplay(a)
        PROVE  BrokerTypes'
    BY <1>35, BrokersTyped
    DEF LosesDisplay, Exits, OthersKeep, Fails, Faulty, panelVars, workerVars,
        attemptVars, hostVars, brokerVars, TypeOK, WorkerTypes, BrokerTypes
  <1>36. ASSUME NEW a \in Attempts, Obeys(a)
        PROVE  BrokerTypes'
    BY <1>36, BrokersTyped
    DEF Obeys, Goes, Exits, OthersKeep, panelVars, workerVars, attemptVars,
        hostVars, brokerVars, TypeOK, WorkerTypes, BrokerTypes
  <1>37. ASSUME NEW a \in Attempts, GraceEnds(a)
        PROVE  BrokerTypes'
    BY <1>37, BrokersTyped
    DEF GraceEnds, Exits, OthersKeep, panelVars, workerVars, attemptVars, hostVars,
        brokerVars, TypeOK, WorkerTypes, BrokerTypes
  <1>38. ASSUME NEW a \in Attempts, BrokerDies(a)
        PROVE  BrokerTypes'
    BY <1>38, BrokersTyped
    DEF BrokerDies, Exits, OthersKeep, Faulty, panelVars, workerVars, attemptVars,
        hostVars, brokerVars, TypeOK, WorkerTypes, BrokerTypes
  <1>39. ASSUME NEW a \in Attempts, NEW r \in displays[a], DisplayDies(a, r)
        PROVE  BrokerTypes'
    BY <1>39, BrokersTyped
    DEF DisplayDies, OthersKeep, Faulty, panelVars, workerVars, attemptVars,
        hostVars, brokerVars, TypeOK, WorkerTypes, BrokerTypes
  <1>40. CASE UNCHANGED vars
    BY <1>40, BrokersTyped
    DEF vars, panelVars, workerVars, attemptVars, hostVars, brokerVars, TypeOK,
        WorkerTypes, BrokerTypes
  <1>41. CASE DropsHost
    BY <1>41, BrokersTyped
    DEF DropsHost, Aside, panelVars, workerVars, attemptVars, hostVars,
        brokerVars, TypeOK, WorkerTypes, BrokerTypes
  <1>42. CASE DropsLink
    BY <1>42, BrokersTyped
    DEF DropsLink, LinksEnd, panelVars, workerVars, attemptVars, hostVars,
        brokerVars, TypeOK, WorkerTypes, BrokerTypes
  <1>43. CASE SocketCloses
    BY <1>43, BrokersTyped
    DEF SocketCloses, LinksEnd, panelVars, workerVars, attemptVars, hostVars,
        brokerVars, TypeOK, WorkerTypes, BrokerTypes
  <1> QED
    BY <1>1, <1>2, <1>3, <1>4, <1>5, <1>6, <1>7, <1>8, <1>9, <1>10, <1>11, <1>12,
        <1>13, <1>14, <1>15, <1>16, <1>17, <1>18, <1>19, <1>20, <1>21, <1>22, <1>23,
        <1>24, <1>25, <1>26, <1>27, <1>28, <1>29, <1>30, <1>31, <1>32, <1>33, <1>34,
        <1>35, <1>36, <1>37, <1>38, <1>39, <1>40, <1>41, <1>42, <1>43
    DEF Next, PersonStep, WindowStep, WorkerStep, BrokerStep, Mishap

\* Events, lines and bytes on their way.
LEMMA QueueStepTypes ==
    ASSUME TypeOK, [Next]_vars
    PROVE  QueueTypes'
  <1>1. CASE Start
    BY <1>1
    DEF Start, panelVars, workerVars, attemptVars, hostVars, brokerVars, TypeOK,
        QueueTypes
  <1>2. CASE StopButton
    BY <1>2
    DEF StopButton, StopWorker, panelVars, workerVars, attemptVars, hostVars,
        brokerVars, TypeOK, QueueTypes
  <1>3. CASE Close
    BY <1>3
    DEF Close, StopWorker, panelVars, workerVars, attemptVars, hostVars, brokerVars,
        TypeOK, QueueTypes
  <1>4. CASE TickBegins
    BY <1>4
    DEF TickBegins, panelVars, workerVars, attemptVars, hostVars, brokerVars,
        TypeOK, QueueTypes
  <1>5. CASE AppliesEvent
    BY <1>5
    DEF AppliesEvent, Update, panelVars, workerVars, attemptVars, hostVars,
        brokerVars, TypeOK, QueueTypes
  <1>6. CASE Drained
    BY <1>6
    DEF Drained, TickEnds, panelVars, workerVars, attemptVars, hostVars, brokerVars,
        TypeOK, QueueTypes
  <1>7. CASE Checks
    BY <1>7
    DEF Checks, TickEnds, panelVars, workerVars, attemptVars, hostVars, brokerVars,
        TypeOK, QueueTypes
  <1>8. CASE DrainedAgain
    BY <1>8
    DEF DrainedAgain, TickEnds, panelVars, workerVars, attemptVars, hostVars,
        brokerVars, TypeOK, QueueTypes
  <1>9. CASE Killed
    BY <1>9
    DEF Killed, panelVars, workerVars, attemptVars, hostVars, brokerVars, TypeOK,
        QueueTypes
  <1>10. CASE SetupFails
    BY <1>10
    DEF SetupFails, Aside, panelVars, workerVars, attemptVars, hostVars, brokerVars,
        TypeOK, QueueTypes
  <1>11. CASE PreflightFails
    BY <1>11
    DEF PreflightFails, Aside, Ends, panelVars, workerVars, attemptVars, hostVars,
        brokerVars, TypeOK, QueueTypes
  <1>12. CASE Asks
    BY <1>12
    DEF Asks, Aside, Ends, panelVars, workerVars, attemptVars, hostVars, brokerVars,
        TypeOK, QueueTypes
  <1>13. CASE AskEnds
    BY <1>13
    DEF AskEnds, Aside, Ends, CloseListener, panelVars, workerVars, attemptVars,
        hostVars, brokerVars, TypeOK, QueueTypes
  <1>14. ASSUME NEW a \in Attempts, Accepts(a)
        PROVE  QueueTypes'
    BY <1>14
    DEF Accepts, Aside, CloseListener, panelVars, workerVars, attemptVars, hostVars,
        brokerVars, TypeOK, QueueTypes
  <1>15. CASE BrokerReady
    <2> DEFINE Bytes == {"R", "E"}
    <2>1. ASSUME NEW s \in Seq(Bytes), s # <<>>
          PROVE  Tail(s) \in Seq(Bytes)
      <3> HIDE DEF Bytes
      <3> QED
        BY <2>1, HeadTailProperties
    <2>2. toPanel' = [toPanel EXCEPT ![n] = Tail(@)] /\ toPanel[n] # <<>>
      BY <1>15 DEF BrokerReady, BrokerByte
    <2>3. toPanel' \in [Attempts -> Seq({"R", "E"})]
      BY <2>1, <2>2 DEF TypeOK, QueueTypes
    <2> QED
      BY <1>15, <2>3 DEF BrokerReady, Aside, TypeOK, QueueTypes, hostVars
  <1>16. CASE WaitEnds
    BY <1>16
    DEF WaitEnds, Aside, Ends, BrokerByte, panelVars, workerVars, attemptVars,
        hostVars, brokerVars, TypeOK, QueueTypes
  <1>17. CASE SpawnsHost
    BY <1>17
    DEF SpawnsHost, Aside, Ends, panelVars, workerVars, attemptVars, hostVars,
        brokerVars, TypeOK, QueueTypes
  <1>18. CASE ReadsLine
    BY <1>18
    DEF ReadsLine, panelVars, workerVars, attemptVars, hostVars, brokerVars, TypeOK,
        QueueTypes
  <1>19. CASE TailEnds
    BY <1>19
    DEF TailEnds, Aside, Ends, BrokerGone, panelVars, workerVars, attemptVars,
        hostVars, brokerVars, TypeOK, QueueTypes
  <1>20. CASE Panics
    BY <1>20
    DEF Panics, Aside, CloseListener, panelVars, workerVars, attemptVars,
        hostVars, brokerVars, TypeOK, QueueTypes
  <1>21. CASE StopsHost
    BY <1>21
    DEF StopsHost, Aside, panelVars, workerVars, attemptVars, hostVars, brokerVars,
        TypeOK, QueueTypes
  <1>22. CASE HostIsOver
    BY <1>22
    DEF HostIsOver, Aside, panelVars, workerVars, attemptVars, hostVars, brokerVars,
        TypeOK, QueueTypes
  <1>23. CASE StopsBroker
    <2>1. toPanel' \in [Attempts -> Seq({"R", "E"})]
      <3>1. <<>> \in Seq({"R", "E"})
        OBVIOUS
      <3> QED
        BY <1>23, <3>1 DEF StopsBroker, TypeOK, QueueTypes
    <2> QED
      BY <1>23, <2>1 DEF StopsBroker, Aside, TypeOK, QueueTypes, hostVars, workerVars, brokerVars
  <1>24. CASE BrokerIsOver
    BY <1>24
    DEF BrokerIsOver, Aside, panelVars, workerVars, attemptVars, hostVars,
        brokerVars, TypeOK, QueueTypes
  <1>25. CASE Reports
    BY <1>25
    DEF Reports, Aside, panelVars, workerVars, attemptVars, hostVars, brokerVars,
        TypeOK, QueueTypes
  <1>26. CASE ThreadEnds
    BY <1>26
    DEF ThreadEnds, Aside, panelVars, workerVars, attemptVars, hostVars, brokerVars,
        TypeOK, QueueTypes
  <1>27. CASE HostWrites
    BY <1>27
    DEF HostWrites, panelVars, workerVars, attemptVars, hostVars, brokerVars,
        TypeOK, QueueTypes
  <1>28. CASE HostExits
    BY <1>28
    DEF HostExits, panelVars, workerVars, attemptVars, hostVars, brokerVars, TypeOK,
        QueueTypes
  <1>29. ASSUME NEW a \in Attempts, Answers(a)
        PROVE  QueueTypes'
    BY <1>29
    DEF Answers, Goes, Exits, OthersKeep, panelVars, workerVars, attemptVars,
        hostVars, brokerVars, TypeOK, QueueTypes
  <1>30. ASSUME NEW a \in Attempts, Dials(a)
        PROVE  QueueTypes'
    BY <1>30
    DEF Dials, Goes, Exits, OthersKeep, panelVars, workerVars, attemptVars,
        hostVars, brokerVars, TypeOK, QueueTypes
  <1>31. ASSUME NEW a \in Attempts, Welcomed(a)
        PROVE  QueueTypes'
    BY <1>31
    DEF Welcomed, Goes, Exits, OthersKeep, panelVars, workerVars, attemptVars,
        hostVars, brokerVars, TypeOK, QueueTypes
  <1>32. ASSUME NEW a \in Attempts, Configures(a)
        PROVE  QueueTypes'
    <2>1. ASSUME NEW s \in Seq({"R", "E"})
          PROVE  Append(s, "E") \in Seq({"R", "E"})
      OBVIOUS
    <2>2. toPanel' \in [Attempts -> Seq({"R", "E"})]
      BY <1>32, <2>1 DEF Configures, Fails, TypeOK, QueueTypes
    <2> QED
      BY <1>32, <2>2
      DEF Configures, OthersKeep, TypeOK, QueueTypes, workerVars, hostVars
  <1>33. ASSUME NEW a \in Attempts, SpawnsDisplays(a)
        PROVE  QueueTypes'
    <2>1. ASSUME NEW s \in Seq({"R", "E"})
          PROVE  Append(s, "E") \in Seq({"R", "E"})
      OBVIOUS
    <2>2. toPanel' \in [Attempts -> Seq({"R", "E"})]
      BY <1>33, <2>1 DEF SpawnsDisplays, Fails, TypeOK, QueueTypes
    <2> QED
      BY <1>33, <2>2
      DEF SpawnsDisplays, OthersKeep, TypeOK, QueueTypes, workerVars, hostVars
  <1>34. ASSUME NEW a \in Attempts, SaysReady(a)
        PROVE  QueueTypes'
    <2>1. ASSUME NEW s \in Seq({"R", "E"})
          PROVE  /\ Append(s, "R") \in Seq({"R", "E"})
                 /\ Append(s, "E") \in Seq({"R", "E"})
      OBVIOUS
    <2>2. toPanel' \in [Attempts -> Seq({"R", "E"})]
      BY <1>34, <2>1 DEF SaysReady, Fails, TypeOK, QueueTypes
    <2> QED
      BY <1>34, <2>2
      DEF SaysReady, OthersKeep, TypeOK, QueueTypes, workerVars, hostVars
  <1>35. ASSUME NEW a \in Attempts, LosesDisplay(a)
        PROVE  QueueTypes'
    <2>1. ASSUME NEW s \in Seq({"R", "E"})
          PROVE  Append(s, "E") \in Seq({"R", "E"})
      OBVIOUS
    <2>2. toPanel' \in [Attempts -> Seq({"R", "E"})]
      BY <1>35, <2>1 DEF LosesDisplay, Fails, TypeOK, QueueTypes
    <2> QED
      BY <1>35, <2>2
      DEF LosesDisplay, OthersKeep, TypeOK, QueueTypes, workerVars, hostVars
  <1>36. ASSUME NEW a \in Attempts, Obeys(a)
        PROVE  QueueTypes'
    BY <1>36
    DEF Obeys, Goes, Exits, OthersKeep, panelVars, workerVars, attemptVars,
        hostVars, brokerVars, TypeOK, QueueTypes
  <1>37. ASSUME NEW a \in Attempts, GraceEnds(a)
        PROVE  QueueTypes'
    BY <1>37
    DEF GraceEnds, Exits, OthersKeep, panelVars, workerVars, attemptVars, hostVars,
        brokerVars, TypeOK, QueueTypes
  <1>38. ASSUME NEW a \in Attempts, BrokerDies(a)
        PROVE  QueueTypes'
    BY <1>38
    DEF BrokerDies, Exits, OthersKeep, Faulty, panelVars, workerVars, attemptVars,
        hostVars, brokerVars, TypeOK, QueueTypes
  <1>39. ASSUME NEW a \in Attempts, NEW r \in displays[a], DisplayDies(a, r)
        PROVE  QueueTypes'
    BY <1>39
    DEF DisplayDies, OthersKeep, Faulty, panelVars, workerVars, attemptVars,
        hostVars, brokerVars, TypeOK, QueueTypes
  <1>40. CASE UNCHANGED vars
    BY <1>40
    DEF vars, panelVars, workerVars, attemptVars, hostVars, brokerVars, TypeOK,
        QueueTypes
  <1>41. CASE DropsHost
    BY <1>41
    DEF DropsHost, Aside, panelVars, workerVars, attemptVars, hostVars,
        brokerVars, TypeOK, QueueTypes
  <1>42. CASE DropsLink
    BY <1>42
    DEF DropsLink, LinksEnd, panelVars, workerVars, attemptVars, hostVars,
        brokerVars, TypeOK, QueueTypes
  <1>43. CASE SocketCloses
    BY <1>43
    DEF SocketCloses, LinksEnd, panelVars, workerVars, attemptVars, hostVars,
        brokerVars, TypeOK, QueueTypes
  <1> QED
    BY <1>1, <1>2, <1>3, <1>4, <1>5, <1>6, <1>7, <1>8, <1>9, <1>10, <1>11, <1>12,
        <1>13, <1>14, <1>15, <1>16, <1>17, <1>18, <1>19, <1>20, <1>21, <1>22, <1>23,
        <1>24, <1>25, <1>26, <1>27, <1>28, <1>29, <1>30, <1>31, <1>32, <1>33, <1>34,
        <1>35, <1>36, <1>37, <1>38, <1>39, <1>40, <1>41, <1>42, <1>43
    DEF Next, PersonStep, WindowStep, WorkerStep, BrokerStep, Mishap

LEMMA TypeStep == TypeOK /\ [Next]_vars => TypeOK'
  BY WindowStepTypes, WorkerStepTypes, HostStepTypes, BrokerStepTypes, QueueStepTypes
  DEF TypeOK

LEMMA TypesInit == Init => TypeOK
  <1>1. <<>> \in Seq({"R", "E"}) /\ <<>> \in Seq({"streaming"})
        /\ <<>> \in Seq({"hostStarting", "streaming", "ok", "failed"})
    OBVIOUS
  <1>2. ASSUME Init
        PROVE  WorkerTypes
    <2>1. 0 \in 0 .. MaxAttempts
      BY BoundsAssumption
    <2> QED
      BY <1>2, <2>1 DEF Init, WorkerTypes
  <1> QED
    BY <1>1, <1>2
    DEF Init, TypeOK, WindowTypes, HostTypes, BrokerTypes, QueueTypes

\* Only Start brings an attempt into being, and only Asks its manager.
LEMMA UnstartedStep ==
    ASSUME TypeOK, Unstarted, Connected, [Next]_vars
    PROVE  Unstarted'
  <1>1. CASE Start
    <2>1. \A b \in Attempts : b > n' => b > n
      BY <1>1 DEF Start, TypeOK, WorkerTypes, Attempts
    <2> QED
      BY <1>1, <2>1 DEF Start, Unstarted
  <1>2. CASE StopButton
    BY <1>2, BoundsAssumption
    DEF StopButton, StopWorker, panelVars, workerVars, attemptVars, hostVars,
        brokerVars, TypeOK, WorkerTypes, BrokerTypes, Unstarted, Connected,
        Attempts, Early
  <1>3. CASE Close
    BY <1>3, BoundsAssumption
    DEF Close, StopWorker, panelVars, workerVars, attemptVars, hostVars, brokerVars,
        TypeOK, WorkerTypes, BrokerTypes, Unstarted, Connected, Attempts, Early
  <1>4. CASE TickBegins
    BY <1>4, BoundsAssumption
    DEF TickBegins, panelVars, workerVars, attemptVars, hostVars, brokerVars,
        TypeOK, WorkerTypes, BrokerTypes, Unstarted, Connected, Attempts, Early
  <1>5. CASE AppliesEvent
    BY <1>5, BoundsAssumption
    DEF AppliesEvent, Update, panelVars, workerVars, attemptVars, hostVars,
        brokerVars, TypeOK, WorkerTypes, BrokerTypes, Unstarted, Connected,
        Attempts, Early
  <1>6. CASE Drained
    BY <1>6, BoundsAssumption
    DEF Drained, TickEnds, panelVars, workerVars, attemptVars, hostVars, brokerVars,
        TypeOK, WorkerTypes, BrokerTypes, Unstarted, Connected, Attempts, Early
  <1>7. CASE Checks
    BY <1>7, BoundsAssumption
    DEF Checks, TickEnds, panelVars, workerVars, attemptVars, hostVars, brokerVars,
        TypeOK, WorkerTypes, BrokerTypes, Unstarted, Connected, Attempts, Early
  <1>8. CASE DrainedAgain
    BY <1>8, BoundsAssumption
    DEF DrainedAgain, TickEnds, panelVars, workerVars, attemptVars, hostVars,
        brokerVars, TypeOK, WorkerTypes, BrokerTypes, Unstarted, Connected,
        Attempts, Early
  <1>9. CASE Killed
    BY <1>9, BoundsAssumption
    DEF Killed, panelVars, workerVars, attemptVars, hostVars, brokerVars, TypeOK,
        WorkerTypes, BrokerTypes, Unstarted, Connected, Attempts, Early
  <1>10. CASE SetupFails
    BY <1>10, BoundsAssumption
    DEF SetupFails, Aside, panelVars, workerVars, attemptVars, hostVars, brokerVars,
        TypeOK, WorkerTypes, BrokerTypes, Unstarted, Connected, Attempts, Early
  <1>11. CASE PreflightFails
    BY <1>11, BoundsAssumption
    DEF PreflightFails, Aside, Ends, panelVars, workerVars, attemptVars, hostVars,
        brokerVars, TypeOK, WorkerTypes, BrokerTypes, Unstarted, Connected,
        Attempts, Early
  <1>12. CASE Asks
    BY <1>12, BoundsAssumption
    DEF Asks, Aside, Ends, panelVars, workerVars, attemptVars, hostVars, brokerVars,
        TypeOK, WorkerTypes, BrokerTypes, Unstarted, Connected, Attempts, Early
  <1>13. CASE AskEnds
    BY <1>13, BoundsAssumption
    DEF AskEnds, Aside, Ends, CloseListener, panelVars, workerVars, attemptVars,
        hostVars, brokerVars, TypeOK, WorkerTypes, BrokerTypes, Unstarted,
        Connected, Attempts, Early
  <1>14. ASSUME NEW a \in Attempts, Accepts(a)
        PROVE  Unstarted'
    BY <1>14, BoundsAssumption
    DEF Accepts, Aside, CloseListener, panelVars, workerVars, attemptVars, hostVars,
        brokerVars, TypeOK, WorkerTypes, BrokerTypes, Unstarted, Connected,
        Attempts, Early
  <1>15. CASE BrokerReady
    BY <1>15, BoundsAssumption
    DEF BrokerReady, Aside, BrokerByte, panelVars, workerVars, attemptVars,
        hostVars, brokerVars, TypeOK, WorkerTypes, BrokerTypes, Unstarted,
        Connected, Attempts, Early
  <1>16. CASE WaitEnds
    BY <1>16, BoundsAssumption
    DEF WaitEnds, Aside, Ends, BrokerByte, panelVars, workerVars, attemptVars,
        hostVars, brokerVars, TypeOK, WorkerTypes, BrokerTypes, Unstarted,
        Connected, Attempts, Early
  <1>17. CASE SpawnsHost
    BY <1>17, BoundsAssumption
    DEF SpawnsHost, Aside, Ends, panelVars, workerVars, attemptVars, hostVars,
        brokerVars, TypeOK, WorkerTypes, BrokerTypes, Unstarted, Connected,
        Attempts, Early
  <1>18. CASE ReadsLine
    BY <1>18, BoundsAssumption
    DEF ReadsLine, panelVars, workerVars, attemptVars, hostVars, brokerVars, TypeOK,
        WorkerTypes, BrokerTypes, Unstarted, Connected, Attempts, Early
  <1>19. CASE TailEnds
    BY <1>19, BoundsAssumption
    DEF TailEnds, Aside, Ends, BrokerGone, panelVars, workerVars, attemptVars,
        hostVars, brokerVars, TypeOK, WorkerTypes, BrokerTypes, Unstarted,
        Connected, Attempts, Early
  <1>20. CASE Panics
    BY <1>20, BoundsAssumption
    DEF Panics, Aside, CloseListener, panelVars, workerVars, attemptVars,
        hostVars, brokerVars, TypeOK, WorkerTypes, BrokerTypes, Unstarted,
        Connected, Attempts, Early
  <1>21. CASE StopsHost
    BY <1>21, BoundsAssumption
    DEF StopsHost, Aside, panelVars, workerVars, attemptVars, hostVars, brokerVars,
        TypeOK, WorkerTypes, BrokerTypes, Unstarted, Connected, Attempts, Early
  <1>22. CASE HostIsOver
    BY <1>22, BoundsAssumption
    DEF HostIsOver, Aside, panelVars, workerVars, attemptVars, hostVars, brokerVars,
        TypeOK, WorkerTypes, BrokerTypes, Unstarted, Connected, Attempts, Early
  <1>23. CASE StopsBroker
    BY <1>23, BoundsAssumption
    DEF StopsBroker, Aside, panelVars, workerVars, attemptVars, hostVars,
        brokerVars, TypeOK, WorkerTypes, BrokerTypes, Unstarted, Connected,
        Attempts, Early
  <1>24. CASE BrokerIsOver
    BY <1>24, BoundsAssumption
    DEF BrokerIsOver, Aside, panelVars, workerVars, attemptVars, hostVars,
        brokerVars, TypeOK, WorkerTypes, BrokerTypes, Unstarted, Connected,
        Attempts, Early
  <1>25. CASE Reports
    BY <1>25, BoundsAssumption
    DEF Reports, Aside, panelVars, workerVars, attemptVars, hostVars, brokerVars,
        TypeOK, WorkerTypes, BrokerTypes, Unstarted, Connected, Attempts, Early
  <1>26. CASE ThreadEnds
    BY <1>26, BoundsAssumption
    DEF ThreadEnds, Aside, panelVars, workerVars, attemptVars, hostVars, brokerVars,
        TypeOK, WorkerTypes, BrokerTypes, Unstarted, Connected, Attempts, Early
  <1>27. CASE HostWrites
    BY <1>27, BoundsAssumption
    DEF HostWrites, panelVars, workerVars, attemptVars, hostVars, brokerVars,
        TypeOK, WorkerTypes, BrokerTypes, Unstarted, Connected, Attempts, Early
  <1>28. CASE HostExits
    BY <1>28, BoundsAssumption
    DEF HostExits, panelVars, workerVars, attemptVars, hostVars, brokerVars, TypeOK,
        WorkerTypes, BrokerTypes, Unstarted, Connected, Attempts, Early
  <1>29. ASSUME NEW a \in Attempts, Answers(a)
        PROVE  Unstarted'
    BY <1>29, BoundsAssumption
    DEF Answers, Goes, Exits, OthersKeep, panelVars, workerVars, attemptVars,
        hostVars, brokerVars, TypeOK, WorkerTypes, BrokerTypes, Unstarted,
        Connected, Attempts, Early
  <1>30. ASSUME NEW a \in Attempts, Dials(a)
        PROVE  Unstarted'
    BY <1>30, BoundsAssumption
    DEF Dials, Goes, Exits, OthersKeep, panelVars, workerVars, attemptVars,
        hostVars, brokerVars, TypeOK, WorkerTypes, BrokerTypes, Unstarted,
        Connected, Attempts, Early
  <1>31. ASSUME NEW a \in Attempts, Welcomed(a)
        PROVE  Unstarted'
    BY <1>31, BoundsAssumption
    DEF Welcomed, Goes, Exits, OthersKeep, panelVars, workerVars, attemptVars,
        hostVars, brokerVars, TypeOK, WorkerTypes, BrokerTypes, Unstarted,
        Connected, Attempts, Early
  <1>32. ASSUME NEW a \in Attempts, Configures(a)
        PROVE  Unstarted'
    <2>1. \A b \in Attempts : b > n => b # a
      BY <1>32 DEF Configures, Unstarted
    <2>2. \A b \in Attempts \ {a} :
             /\ broker'[b] = broker[b] /\ displays'[b] = displays[b]
             /\ toPanel'[b] = toPanel[b]
      BY <1>32 DEF Configures, Goes, Exits, Fails, TypeOK, BrokerTypes, QueueTypes
    <2>3. UNCHANGED <<n, link, verdict>>
      BY <1>32 DEF Configures, OthersKeep, attemptVars
    <2> QED
      BY <2>1, <2>2, <2>3 DEF Unstarted
  <1>33. ASSUME NEW a \in Attempts, SpawnsDisplays(a)
        PROVE  Unstarted'
    <2>1. \A b \in Attempts : b > n => b # a
      BY <1>33 DEF SpawnsDisplays, Unstarted
    <2>2. \A b \in Attempts \ {a} :
             /\ broker'[b] = broker[b] /\ displays'[b] = displays[b]
             /\ toPanel'[b] = toPanel[b]
      BY <1>33 DEF SpawnsDisplays, Exits, Fails, TypeOK, BrokerTypes, QueueTypes
    <2>3. UNCHANGED <<n, link, verdict>>
      BY <1>33 DEF SpawnsDisplays, OthersKeep, attemptVars
    <2> QED
      BY <2>1, <2>2, <2>3 DEF Unstarted
  <1>34. ASSUME NEW a \in Attempts, SaysReady(a)
        PROVE  Unstarted'
    <2>1. \A b \in Attempts : b > n => b # a
      BY <1>34 DEF SaysReady, Unstarted
    <2>2. \A b \in Attempts \ {a} :
             /\ broker'[b] = broker[b] /\ displays'[b] = displays[b]
             /\ toPanel'[b] = toPanel[b]
      BY <1>34 DEF SaysReady, Goes, Exits, Fails, TypeOK, BrokerTypes, QueueTypes
    <2>3. UNCHANGED <<n, link, verdict>>
      BY <1>34 DEF SaysReady, OthersKeep, attemptVars
    <2> QED
      BY <2>1, <2>2, <2>3 DEF Unstarted
  <1>35. ASSUME NEW a \in Attempts, LosesDisplay(a)
        PROVE  Unstarted'
    BY <1>35, BoundsAssumption
    DEF LosesDisplay, Exits, OthersKeep, Fails, Faulty, panelVars, workerVars,
        attemptVars, hostVars, brokerVars, TypeOK, WorkerTypes, BrokerTypes,
        Unstarted, Connected, Attempts, Early
  <1>36. ASSUME NEW a \in Attempts, Obeys(a)
        PROVE  Unstarted'
    BY <1>36, BoundsAssumption
    DEF Obeys, Goes, Exits, OthersKeep, panelVars, workerVars, attemptVars,
        hostVars, brokerVars, TypeOK, WorkerTypes, BrokerTypes, Unstarted,
        Connected, Attempts, Early
  <1>37. ASSUME NEW a \in Attempts, GraceEnds(a)
        PROVE  Unstarted'
    BY <1>37, BoundsAssumption
    DEF GraceEnds, Exits, OthersKeep, panelVars, workerVars, attemptVars, hostVars,
        brokerVars, TypeOK, WorkerTypes, BrokerTypes, Unstarted, Connected,
        Attempts, Early
  <1>38. ASSUME NEW a \in Attempts, BrokerDies(a)
        PROVE  Unstarted'
    BY <1>38, BoundsAssumption
    DEF BrokerDies, Exits, OthersKeep, Faulty, panelVars, workerVars, attemptVars,
        hostVars, brokerVars, TypeOK, WorkerTypes, BrokerTypes, Unstarted,
        Connected, Attempts, Early
  <1>39. ASSUME NEW a \in Attempts, NEW r \in displays[a], DisplayDies(a, r)
        PROVE  Unstarted'
    BY <1>39, BoundsAssumption
    DEF DisplayDies, OthersKeep, Faulty, panelVars, workerVars, attemptVars,
        hostVars, brokerVars, TypeOK, WorkerTypes, BrokerTypes, Unstarted,
        Connected, Attempts, Early
  <1>40. CASE UNCHANGED vars
    BY <1>40, BoundsAssumption
    DEF vars, panelVars, workerVars, attemptVars, hostVars, brokerVars, TypeOK,
        WorkerTypes, BrokerTypes, Unstarted, Connected, Attempts, Early
  <1>41. CASE DropsHost
    BY <1>41, BoundsAssumption
    DEF DropsHost, Aside, panelVars, workerVars, attemptVars, hostVars,
        brokerVars, TypeOK, WorkerTypes, BrokerTypes, Unstarted, Connected,
        Attempts, Early
  <1>42. CASE DropsLink
    BY <1>42, BoundsAssumption
    DEF DropsLink, LinksEnd, panelVars, workerVars, attemptVars, hostVars,
        brokerVars, TypeOK, WorkerTypes, BrokerTypes, Unstarted, Connected,
        Attempts, Early
  <1>43. CASE SocketCloses
    BY <1>43, BoundsAssumption
    DEF SocketCloses, LinksEnd, panelVars, workerVars, attemptVars, hostVars,
        brokerVars, TypeOK, WorkerTypes, BrokerTypes, Unstarted, Connected,
        Attempts, Early
  <1> QED
    BY <1>1, <1>2, <1>3, <1>4, <1>5, <1>6, <1>7, <1>8, <1>9, <1>10, <1>11, <1>12,
        <1>13, <1>14, <1>15, <1>16, <1>17, <1>18, <1>19, <1>20, <1>21, <1>22, <1>23,
        <1>24, <1>25, <1>26, <1>27, <1>28, <1>29, <1>30, <1>31, <1>32, <1>33, <1>34,
        <1>35, <1>36, <1>37, <1>38, <1>39, <1>40, <1>41, <1>42, <1>43
    DEF Next, PersonStep, WindowStep, WorkerStep, BrokerStep, Mishap

\* The connection of an attempt advances with its worker.
LEMMA ConnectedStep ==
    ASSUME TypeOK, Unstarted, Connected, [Next]_vars
    PROVE  Connected'
  <1>1. CASE Start
    BY <1>1, BoundsAssumption
    DEF Start, panelVars, workerVars, attemptVars, hostVars, brokerVars, TypeOK,
        WorkerTypes, BrokerTypes, Unstarted, Connected, Attempts, Early
  <1>2. CASE StopButton
    BY <1>2, BoundsAssumption
    DEF StopButton, StopWorker, panelVars, workerVars, attemptVars, hostVars,
        brokerVars, TypeOK, WorkerTypes, BrokerTypes, Unstarted, Connected,
        Attempts, Early
  <1>3. CASE Close
    BY <1>3, BoundsAssumption
    DEF Close, StopWorker, panelVars, workerVars, attemptVars, hostVars, brokerVars,
        TypeOK, WorkerTypes, BrokerTypes, Unstarted, Connected, Attempts, Early
  <1>4. CASE TickBegins
    BY <1>4, BoundsAssumption
    DEF TickBegins, panelVars, workerVars, attemptVars, hostVars, brokerVars,
        TypeOK, WorkerTypes, BrokerTypes, Unstarted, Connected, Attempts, Early
  <1>5. CASE AppliesEvent
    BY <1>5, BoundsAssumption
    DEF AppliesEvent, Update, panelVars, workerVars, attemptVars, hostVars,
        brokerVars, TypeOK, WorkerTypes, BrokerTypes, Unstarted, Connected,
        Attempts, Early
  <1>6. CASE Drained
    BY <1>6, BoundsAssumption
    DEF Drained, TickEnds, panelVars, workerVars, attemptVars, hostVars, brokerVars,
        TypeOK, WorkerTypes, BrokerTypes, Unstarted, Connected, Attempts, Early
  <1>7. CASE Checks
    BY <1>7, BoundsAssumption
    DEF Checks, TickEnds, panelVars, workerVars, attemptVars, hostVars, brokerVars,
        TypeOK, WorkerTypes, BrokerTypes, Unstarted, Connected, Attempts, Early
  <1>8. CASE DrainedAgain
    BY <1>8, BoundsAssumption
    DEF DrainedAgain, TickEnds, panelVars, workerVars, attemptVars, hostVars,
        brokerVars, TypeOK, WorkerTypes, BrokerTypes, Unstarted, Connected,
        Attempts, Early
  <1>9. CASE Killed
    BY <1>9, BoundsAssumption
    DEF Killed, panelVars, workerVars, attemptVars, hostVars, brokerVars, TypeOK,
        WorkerTypes, BrokerTypes, Unstarted, Connected, Attempts, Early
  <1>10. CASE SetupFails
    BY <1>10, BoundsAssumption
    DEF SetupFails, Aside, panelVars, workerVars, attemptVars, hostVars, brokerVars,
        TypeOK, WorkerTypes, BrokerTypes, Unstarted, Connected, Attempts, Early
  <1>11. CASE PreflightFails
    BY <1>11, BoundsAssumption
    DEF PreflightFails, Aside, Ends, panelVars, workerVars, attemptVars, hostVars,
        brokerVars, TypeOK, WorkerTypes, BrokerTypes, Unstarted, Connected,
        Attempts, Early
  <1>12. CASE Asks
    BY <1>12, BoundsAssumption
    DEF Asks, Aside, Ends, panelVars, workerVars, attemptVars, hostVars, brokerVars,
        TypeOK, WorkerTypes, BrokerTypes, Unstarted, Connected, Attempts, Early
  <1>13. CASE AskEnds
    BY <1>13, BoundsAssumption
    DEF AskEnds, Aside, Ends, CloseListener, panelVars, workerVars, attemptVars,
        hostVars, brokerVars, TypeOK, WorkerTypes, BrokerTypes, Unstarted,
        Connected, Attempts, Early
  <1>14. ASSUME NEW a \in Attempts, Accepts(a)
        PROVE  Connected'
    BY <1>14, BoundsAssumption
    DEF Accepts, Aside, CloseListener, panelVars, workerVars, attemptVars, hostVars,
        brokerVars, TypeOK, WorkerTypes, BrokerTypes, Unstarted, Connected,
        Attempts, Early
  <1>15. CASE BrokerReady
    BY <1>15, BoundsAssumption
    DEF BrokerReady, Aside, BrokerByte, panelVars, workerVars, attemptVars,
        hostVars, brokerVars, TypeOK, WorkerTypes, BrokerTypes, Unstarted,
        Connected, Attempts, Early
  <1>16. CASE WaitEnds
    BY <1>16, BoundsAssumption
    DEF WaitEnds, Aside, Ends, BrokerByte, panelVars, workerVars, attemptVars,
        hostVars, brokerVars, TypeOK, WorkerTypes, BrokerTypes, Unstarted,
        Connected, Attempts, Early
  <1>17. CASE SpawnsHost
    BY <1>17, BoundsAssumption
    DEF SpawnsHost, Aside, Ends, panelVars, workerVars, attemptVars, hostVars,
        brokerVars, TypeOK, WorkerTypes, BrokerTypes, Unstarted, Connected,
        Attempts, Early
  <1>18. CASE ReadsLine
    BY <1>18, BoundsAssumption
    DEF ReadsLine, panelVars, workerVars, attemptVars, hostVars, brokerVars, TypeOK,
        WorkerTypes, BrokerTypes, Unstarted, Connected, Attempts, Early
  <1>19. CASE TailEnds
    BY <1>19, BoundsAssumption
    DEF TailEnds, Aside, Ends, BrokerGone, panelVars, workerVars, attemptVars,
        hostVars, brokerVars, TypeOK, WorkerTypes, BrokerTypes, Unstarted,
        Connected, Attempts, Early
  <1>20. CASE Panics
    BY <1>20, BoundsAssumption
    DEF Panics, Aside, CloseListener, panelVars, workerVars, attemptVars,
        hostVars, brokerVars, TypeOK, WorkerTypes, BrokerTypes, Unstarted,
        Connected, Attempts, Early
  <1>21. CASE StopsHost
    BY <1>21, BoundsAssumption
    DEF StopsHost, Aside, panelVars, workerVars, attemptVars, hostVars, brokerVars,
        TypeOK, WorkerTypes, BrokerTypes, Unstarted, Connected, Attempts, Early
  <1>22. CASE HostIsOver
    BY <1>22, BoundsAssumption
    DEF HostIsOver, Aside, panelVars, workerVars, attemptVars, hostVars, brokerVars,
        TypeOK, WorkerTypes, BrokerTypes, Unstarted, Connected, Attempts, Early
  <1>23. CASE StopsBroker
    BY <1>23, BoundsAssumption
    DEF StopsBroker, Aside, panelVars, workerVars, attemptVars, hostVars,
        brokerVars, TypeOK, WorkerTypes, BrokerTypes, Unstarted, Connected,
        Attempts, Early
  <1>24. CASE BrokerIsOver
    BY <1>24, BoundsAssumption
    DEF BrokerIsOver, Aside, panelVars, workerVars, attemptVars, hostVars,
        brokerVars, TypeOK, WorkerTypes, BrokerTypes, Unstarted, Connected,
        Attempts, Early
  <1>25. CASE Reports
    BY <1>25, BoundsAssumption
    DEF Reports, Aside, panelVars, workerVars, attemptVars, hostVars, brokerVars,
        TypeOK, WorkerTypes, BrokerTypes, Unstarted, Connected, Attempts, Early
  <1>26. CASE ThreadEnds
    BY <1>26, BoundsAssumption
    DEF ThreadEnds, Aside, panelVars, workerVars, attemptVars, hostVars, brokerVars,
        TypeOK, WorkerTypes, BrokerTypes, Unstarted, Connected, Attempts, Early
  <1>27. CASE HostWrites
    BY <1>27, BoundsAssumption
    DEF HostWrites, panelVars, workerVars, attemptVars, hostVars, brokerVars,
        TypeOK, WorkerTypes, BrokerTypes, Unstarted, Connected, Attempts, Early
  <1>28. CASE HostExits
    BY <1>28, BoundsAssumption
    DEF HostExits, panelVars, workerVars, attemptVars, hostVars, brokerVars, TypeOK,
        WorkerTypes, BrokerTypes, Unstarted, Connected, Attempts, Early
  <1>29. ASSUME NEW a \in Attempts, Answers(a)
        PROVE  Connected'
    BY <1>29, BoundsAssumption
    DEF Answers, Goes, Exits, OthersKeep, panelVars, workerVars, attemptVars,
        hostVars, brokerVars, TypeOK, WorkerTypes, BrokerTypes, Unstarted,
        Connected, Attempts, Early
  <1>30. ASSUME NEW a \in Attempts, Dials(a)
        PROVE  Connected'
    BY <1>30, BoundsAssumption
    DEF Dials, Goes, Exits, OthersKeep, panelVars, workerVars, attemptVars,
        hostVars, brokerVars, TypeOK, WorkerTypes, BrokerTypes, Unstarted,
        Connected, Attempts, Early
  <1>31. ASSUME NEW a \in Attempts, Welcomed(a)
        PROVE  Connected'
    BY <1>31, BoundsAssumption
    DEF Welcomed, Goes, Exits, OthersKeep, panelVars, workerVars, attemptVars,
        hostVars, brokerVars, TypeOK, WorkerTypes, BrokerTypes, Unstarted,
        Connected, Attempts, Early
  <1>32. ASSUME NEW a \in Attempts, Configures(a)
        PROVE  Connected'
    BY <1>32, BoundsAssumption
    DEF Configures, Goes, Exits, OthersKeep, Fails, Faulty, panelVars, workerVars,
        attemptVars, hostVars, brokerVars, TypeOK, WorkerTypes, BrokerTypes,
        Unstarted, Connected, Attempts, Early
  <1>33. ASSUME NEW a \in Attempts, SpawnsDisplays(a)
        PROVE  Connected'
    BY <1>33, BoundsAssumption
    DEF SpawnsDisplays, Exits, OthersKeep, Fails, Faulty, panelVars, workerVars,
        attemptVars, hostVars, brokerVars, TypeOK, WorkerTypes, BrokerTypes,
        Unstarted, Connected, Attempts, Early
  <1>34. ASSUME NEW a \in Attempts, SaysReady(a)
        PROVE  Connected'
    BY <1>34, BoundsAssumption
    DEF SaysReady, Goes, Exits, OthersKeep, Fails, Faulty, panelVars, workerVars,
        attemptVars, hostVars, brokerVars, TypeOK, WorkerTypes, BrokerTypes,
        Unstarted, Connected, Attempts, Early
  <1>35. ASSUME NEW a \in Attempts, LosesDisplay(a)
        PROVE  Connected'
    BY <1>35, BoundsAssumption
    DEF LosesDisplay, Exits, OthersKeep, Fails, Faulty, panelVars, workerVars,
        attemptVars, hostVars, brokerVars, TypeOK, WorkerTypes, BrokerTypes,
        Unstarted, Connected, Attempts, Early
  <1>36. ASSUME NEW a \in Attempts, Obeys(a)
        PROVE  Connected'
    BY <1>36, BoundsAssumption
    DEF Obeys, Goes, Exits, OthersKeep, panelVars, workerVars, attemptVars,
        hostVars, brokerVars, TypeOK, WorkerTypes, BrokerTypes, Unstarted,
        Connected, Attempts, Early
  <1>37. ASSUME NEW a \in Attempts, GraceEnds(a)
        PROVE  Connected'
    BY <1>37, BoundsAssumption
    DEF GraceEnds, Exits, OthersKeep, panelVars, workerVars, attemptVars, hostVars,
        brokerVars, TypeOK, WorkerTypes, BrokerTypes, Unstarted, Connected,
        Attempts, Early
  <1>38. ASSUME NEW a \in Attempts, BrokerDies(a)
        PROVE  Connected'
    BY <1>38, BoundsAssumption
    DEF BrokerDies, Exits, OthersKeep, Faulty, panelVars, workerVars, attemptVars,
        hostVars, brokerVars, TypeOK, WorkerTypes, BrokerTypes, Unstarted,
        Connected, Attempts, Early
  <1>39. ASSUME NEW a \in Attempts, NEW r \in displays[a], DisplayDies(a, r)
        PROVE  Connected'
    BY <1>39, BoundsAssumption
    DEF DisplayDies, OthersKeep, Faulty, panelVars, workerVars, attemptVars,
        hostVars, brokerVars, TypeOK, WorkerTypes, BrokerTypes, Unstarted,
        Connected, Attempts, Early
  <1>40. CASE UNCHANGED vars
    BY <1>40, BoundsAssumption
    DEF vars, panelVars, workerVars, attemptVars, hostVars, brokerVars, TypeOK,
        WorkerTypes, BrokerTypes, Unstarted, Connected, Attempts, Early
  <1>41. CASE DropsHost
    BY <1>41, BoundsAssumption
    DEF DropsHost, Aside, panelVars, workerVars, attemptVars, hostVars,
        brokerVars, TypeOK, WorkerTypes, BrokerTypes, Unstarted, Connected,
        Attempts, Early
  <1>42. CASE DropsLink
    BY <1>42, BoundsAssumption
    DEF DropsLink, LinksEnd, panelVars, workerVars, attemptVars, hostVars,
        brokerVars, TypeOK, WorkerTypes, BrokerTypes, Unstarted, Connected,
        Attempts, Early
  <1>43. CASE SocketCloses
    BY <1>43, BoundsAssumption
    DEF SocketCloses, LinksEnd, panelVars, workerVars, attemptVars, hostVars,
        brokerVars, TypeOK, WorkerTypes, BrokerTypes, Unstarted, Connected,
        Attempts, Early
  <1> QED
    BY <1>1, <1>2, <1>3, <1>4, <1>5, <1>6, <1>7, <1>8, <1>9, <1>10, <1>11, <1>12,
        <1>13, <1>14, <1>15, <1>16, <1>17, <1>18, <1>19, <1>20, <1>21, <1>22, <1>23,
        <1>24, <1>25, <1>26, <1>27, <1>28, <1>29, <1>30, <1>31, <1>32, <1>33, <1>34,
        <1>35, <1>36, <1>37, <1>38, <1>39, <1>40, <1>41, <1>42, <1>43
    DEF Next, PersonStep, WindowStep, WorkerStep, BrokerStep, Mishap

\* What a welcomed manager does.
LEMMA WelcomedSteps ==
    ASSUME Welcome, NEW a \in Attempts,
           \A b \in Attempts \ {a} :
              /\ broker'[b] = broker[b] /\ displays'[b] = displays[b]
              /\ toPanel'[b] = toPanel[b],
           UNCHANGED <<n, worker, link>>,
           broker[a] \notin {"none", "asking", "dial", "hello", "over"},
           broker'[a] \notin {"none", "asking", "dial"},
           broker'[a] = "over" => displays'[a] = {}
    PROVE  Welcome'
  BY DEF Welcome, Early

\* A manager goes beyond its hello only through Accepts.
LEMMA WelcomeStep ==
    ASSUME TypeOK, Unstarted, Connected, Welcome, Busy, [Next]_vars
    PROVE  Welcome'
  <1>1. CASE Start
    <2>1. worker \in {"sent", "over"}
      BY <1>1 DEF Start, Busy
    <2>2. \A b \in Attempts : b = n' => link[b] = "none"
      BY <1>1 DEF Start, Unstarted, TypeOK, WorkerTypes, Attempts
    <2> QED
      BY <1>1, <2>1, <2>2 DEF Start, Welcome, Early
  <1>2. CASE StopButton
    BY <1>2, BoundsAssumption
    DEF StopButton, StopWorker, panelVars, workerVars, attemptVars, hostVars,
        brokerVars, TypeOK, WorkerTypes, BrokerTypes, Unstarted, Connected, Welcome,
        Attempts, Early
  <1>3. CASE Close
    BY <1>3, BoundsAssumption
    DEF Close, StopWorker, panelVars, workerVars, attemptVars, hostVars, brokerVars,
        TypeOK, WorkerTypes, BrokerTypes, Unstarted, Connected, Welcome, Attempts,
        Early
  <1>4. CASE TickBegins
    BY <1>4, BoundsAssumption
    DEF TickBegins, panelVars, workerVars, attemptVars, hostVars, brokerVars,
        TypeOK, WorkerTypes, BrokerTypes, Unstarted, Connected, Welcome, Attempts,
        Early
  <1>5. CASE AppliesEvent
    BY <1>5, BoundsAssumption
    DEF AppliesEvent, Update, panelVars, workerVars, attemptVars, hostVars,
        brokerVars, TypeOK, WorkerTypes, BrokerTypes, Unstarted, Connected, Welcome,
        Attempts, Early
  <1>6. CASE Drained
    BY <1>6, BoundsAssumption
    DEF Drained, TickEnds, panelVars, workerVars, attemptVars, hostVars, brokerVars,
        TypeOK, WorkerTypes, BrokerTypes, Unstarted, Connected, Welcome, Attempts,
        Early
  <1>7. CASE Checks
    BY <1>7, BoundsAssumption
    DEF Checks, TickEnds, panelVars, workerVars, attemptVars, hostVars, brokerVars,
        TypeOK, WorkerTypes, BrokerTypes, Unstarted, Connected, Welcome, Attempts,
        Early
  <1>8. CASE DrainedAgain
    BY <1>8, BoundsAssumption
    DEF DrainedAgain, TickEnds, panelVars, workerVars, attemptVars, hostVars,
        brokerVars, TypeOK, WorkerTypes, BrokerTypes, Unstarted, Connected, Welcome,
        Attempts, Early
  <1>9. CASE Killed
    BY <1>9, BoundsAssumption
    DEF Killed, panelVars, workerVars, attemptVars, hostVars, brokerVars, TypeOK,
        WorkerTypes, BrokerTypes, Unstarted, Connected, Welcome, Attempts, Early
  <1>10. CASE SetupFails
    BY <1>10, BoundsAssumption
    DEF SetupFails, Aside, panelVars, workerVars, attemptVars, hostVars, brokerVars,
        TypeOK, WorkerTypes, BrokerTypes, Unstarted, Connected, Welcome, Attempts,
        Early
  <1>11. CASE PreflightFails
    BY <1>11, BoundsAssumption
    DEF PreflightFails, Aside, Ends, panelVars, workerVars, attemptVars, hostVars,
        brokerVars, TypeOK, WorkerTypes, BrokerTypes, Unstarted, Connected, Welcome,
        Attempts, Early
  <1>12. CASE Asks
    BY <1>12, BoundsAssumption
    DEF Asks, Aside, Ends, panelVars, workerVars, attemptVars, hostVars, brokerVars,
        TypeOK, WorkerTypes, BrokerTypes, Unstarted, Connected, Welcome, Attempts,
        Early
  <1>13. CASE AskEnds
    BY <1>13, BoundsAssumption
    DEF AskEnds, Aside, Ends, CloseListener, panelVars, workerVars, attemptVars,
        hostVars, brokerVars, TypeOK, WorkerTypes, BrokerTypes, Unstarted,
        Connected, Welcome, Attempts, Early
  <1>14. ASSUME NEW a \in Attempts, Accepts(a)
        PROVE  Welcome'
    <2>1. /\ UNCHANGED <<n, broker, displays, toPanel>>
          /\ worker = "ask" /\ link[a] = "pending"
          /\ \A b \in Attempts : link[b] # "open"
      BY <1>14 DEF Accepts, Aside, Welcome
    <2>2. CASE a = n
      <3>1. /\ worker' = "wait"
            /\ \A b \in Attempts :
                 link'[b] = IF b = n THEN "open"
                           ELSE IF link[b] = "pending" THEN "closed" ELSE link[b]
        BY <1>14, <2>2 DEF Accepts, CloseListener
      <3> QED
        BY <2>1, <2>2, <3>1 DEF Welcome, Early
    <2>3. CASE a # n
      <3>1. /\ worker' = worker
            /\ \A b \in Attempts : link'[b] = IF b = a THEN "closed" ELSE link[b]
        BY <1>14, <2>3 DEF Accepts, TypeOK, BrokerTypes
      <3> QED
        BY <2>1, <2>3, <3>1 DEF Welcome, Early
    <2> QED
      BY <2>2, <2>3
  <1>15. CASE BrokerReady
    BY <1>15, BoundsAssumption
    DEF BrokerReady, Aside, BrokerByte, panelVars, workerVars, attemptVars,
        hostVars, brokerVars, TypeOK, WorkerTypes, BrokerTypes, Unstarted,
        Connected, Welcome, Attempts, Early
  <1>16. CASE WaitEnds
    BY <1>16, BoundsAssumption
    DEF WaitEnds, Aside, Ends, BrokerByte, panelVars, workerVars, attemptVars,
        hostVars, brokerVars, TypeOK, WorkerTypes, BrokerTypes, Unstarted,
        Connected, Welcome, Attempts, Early
  <1>17. CASE SpawnsHost
    BY <1>17, BoundsAssumption
    DEF SpawnsHost, Aside, Ends, panelVars, workerVars, attemptVars, hostVars,
        brokerVars, TypeOK, WorkerTypes, BrokerTypes, Unstarted, Connected, Welcome,
        Attempts, Early
  <1>18. CASE ReadsLine
    BY <1>18, BoundsAssumption
    DEF ReadsLine, panelVars, workerVars, attemptVars, hostVars, brokerVars, TypeOK,
        WorkerTypes, BrokerTypes, Unstarted, Connected, Welcome, Attempts, Early
  <1>19. CASE TailEnds
    BY <1>19, BoundsAssumption
    DEF TailEnds, Aside, Ends, BrokerGone, panelVars, workerVars, attemptVars,
        hostVars, brokerVars, TypeOK, WorkerTypes, BrokerTypes, Unstarted,
        Connected, Welcome, Attempts, Early
  <1>20. CASE Panics
    BY <1>20, BoundsAssumption
    DEF Panics, Aside, CloseListener, panelVars, workerVars, attemptVars,
        hostVars, brokerVars, TypeOK, WorkerTypes, BrokerTypes, Unstarted,
        Connected, Welcome, Attempts, Early
  <1>21. CASE StopsHost
    BY <1>21, BoundsAssumption
    DEF StopsHost, Aside, panelVars, workerVars, attemptVars, hostVars, brokerVars,
        TypeOK, WorkerTypes, BrokerTypes, Unstarted, Connected, Welcome, Attempts,
        Early
  <1>22. CASE HostIsOver
    BY <1>22, BoundsAssumption
    DEF HostIsOver, Aside, panelVars, workerVars, attemptVars, hostVars, brokerVars,
        TypeOK, WorkerTypes, BrokerTypes, Unstarted, Connected, Welcome, Attempts,
        Early
  <1>23. CASE StopsBroker
    BY <1>23, BoundsAssumption
    DEF StopsBroker, Aside, panelVars, workerVars, attemptVars, hostVars,
        brokerVars, TypeOK, WorkerTypes, BrokerTypes, Unstarted, Connected, Welcome,
        Attempts, Early
  <1>24. CASE BrokerIsOver
    BY <1>24, BoundsAssumption
    DEF BrokerIsOver, Aside, panelVars, workerVars, attemptVars, hostVars,
        brokerVars, TypeOK, WorkerTypes, BrokerTypes, Unstarted, Connected, Welcome,
        Attempts, Early
  <1>25. CASE Reports
    BY <1>25, BoundsAssumption
    DEF Reports, Aside, panelVars, workerVars, attemptVars, hostVars, brokerVars,
        TypeOK, WorkerTypes, BrokerTypes, Unstarted, Connected, Welcome, Attempts,
        Early
  <1>26. CASE ThreadEnds
    BY <1>26, BoundsAssumption
    DEF ThreadEnds, Aside, panelVars, workerVars, attemptVars, hostVars, brokerVars,
        TypeOK, WorkerTypes, BrokerTypes, Unstarted, Connected, Welcome, Attempts,
        Early
  <1>27. CASE HostWrites
    BY <1>27, BoundsAssumption
    DEF HostWrites, panelVars, workerVars, attemptVars, hostVars, brokerVars,
        TypeOK, WorkerTypes, BrokerTypes, Unstarted, Connected, Welcome, Attempts,
        Early
  <1>28. CASE HostExits
    BY <1>28, BoundsAssumption
    DEF HostExits, panelVars, workerVars, attemptVars, hostVars, brokerVars, TypeOK,
        WorkerTypes, BrokerTypes, Unstarted, Connected, Welcome, Attempts, Early
  <1>29. ASSUME NEW a \in Attempts, Answers(a)
        PROVE  Welcome'
    BY <1>29, BoundsAssumption
    DEF Answers, Goes, Exits, OthersKeep, panelVars, workerVars, attemptVars,
        hostVars, brokerVars, TypeOK, WorkerTypes, BrokerTypes, Unstarted,
        Connected, Welcome, Attempts, Early
  <1>30. ASSUME NEW a \in Attempts, Dials(a)
        PROVE  Welcome'
    BY <1>30, BoundsAssumption
    DEF Dials, Goes, Exits, OthersKeep, panelVars, workerVars, attemptVars,
        hostVars, brokerVars, TypeOK, WorkerTypes, BrokerTypes, Unstarted,
        Connected, Welcome, Attempts, Early
  <1>31. ASSUME NEW a \in Attempts, Welcomed(a)
        PROVE  Welcome'
    BY <1>31, BoundsAssumption
    DEF Welcomed, Goes, Exits, OthersKeep, panelVars, workerVars, attemptVars,
        hostVars, brokerVars, TypeOK, WorkerTypes, BrokerTypes, Unstarted,
        Connected, Welcome, Attempts, Early
  <1>32. ASSUME NEW a \in Attempts, Configures(a)
        PROVE  Welcome'
    <2>1. \A b \in Attempts \ {a} :
             /\ broker'[b] = broker[b] /\ displays'[b] = displays[b]
             /\ toPanel'[b] = toPanel[b]
      BY <1>32 DEF Configures, Goes, Exits, Fails, TypeOK, BrokerTypes, QueueTypes
    <2>2. /\ UNCHANGED <<n, worker, link>>
          /\ broker[a] \notin {"none", "asking", "dial", "hello", "over"}
      BY <1>32 DEF Configures, OthersKeep, attemptVars, workerVars
    <2>3. /\ broker'[a] \notin {"none", "asking", "dial"}
          /\ broker'[a] = "over" => displays'[a] = {}
      BY <1>32 DEF Configures, Goes, Exits, Fails, TypeOK, BrokerTypes
    <2> QED
      BY <2>1, <2>2, <2>3, WelcomedSteps
  <1>33. ASSUME NEW a \in Attempts, SpawnsDisplays(a)
        PROVE  Welcome'
    <2>1. \A b \in Attempts \ {a} :
             /\ broker'[b] = broker[b] /\ displays'[b] = displays[b]
             /\ toPanel'[b] = toPanel[b]
      BY <1>33 DEF SpawnsDisplays, Exits, Fails, TypeOK, BrokerTypes, QueueTypes
    <2>2. /\ UNCHANGED <<n, worker, link>>
          /\ broker[a] \notin {"none", "asking", "dial", "hello", "over"}
      BY <1>33 DEF SpawnsDisplays, OthersKeep, attemptVars, workerVars
    <2>3. /\ broker'[a] \notin {"none", "asking", "dial"}
          /\ broker'[a] = "over" => displays'[a] = {}
      BY <1>33 DEF SpawnsDisplays, Exits, Fails, TypeOK, BrokerTypes
    <2> QED
      BY <2>1, <2>2, <2>3, WelcomedSteps
  <1>34. ASSUME NEW a \in Attempts, SaysReady(a)
        PROVE  Welcome'
    <2>1. \A b \in Attempts \ {a} :
             /\ broker'[b] = broker[b] /\ displays'[b] = displays[b]
             /\ toPanel'[b] = toPanel[b]
      BY <1>34 DEF SaysReady, Goes, Exits, Fails, TypeOK, BrokerTypes, QueueTypes
    <2>2. /\ UNCHANGED <<n, worker, link>>
          /\ broker[a] \notin {"none", "asking", "dial", "hello", "over"}
      BY <1>34 DEF SaysReady, OthersKeep, attemptVars, workerVars
    <2>3. /\ broker'[a] \notin {"none", "asking", "dial"}
          /\ broker'[a] = "over" => displays'[a] = {}
      BY <1>34 DEF SaysReady, Goes, Exits, Fails, TypeOK, BrokerTypes
    <2> QED
      BY <2>1, <2>2, <2>3, WelcomedSteps
  <1>35. ASSUME NEW a \in Attempts, LosesDisplay(a)
        PROVE  Welcome'
    <2>1. \A b \in Attempts \ {a} :
             /\ broker'[b] = broker[b] /\ displays'[b] = displays[b]
             /\ toPanel'[b] = toPanel[b]
      BY <1>35 DEF LosesDisplay, Exits, Fails, TypeOK, BrokerTypes, QueueTypes
    <2>2. /\ UNCHANGED <<n, worker, link>>
          /\ broker[a] \notin {"none", "asking", "dial", "hello", "over"}
      BY <1>35 DEF LosesDisplay, OthersKeep, attemptVars, workerVars
    <2>3. /\ broker'[a] \notin {"none", "asking", "dial"}
          /\ broker'[a] = "over" => displays'[a] = {}
      BY <1>35 DEF LosesDisplay, Exits, Fails, TypeOK, BrokerTypes
    <2> QED
      BY <2>1, <2>2, <2>3, WelcomedSteps
  <1>36. ASSUME NEW a \in Attempts, Obeys(a)
        PROVE  Welcome'
    <2>1. \A b \in Attempts \ {a} :
             /\ broker'[b] = broker[b] /\ displays'[b] = displays[b]
             /\ toPanel'[b] = toPanel[b]
      BY <1>36 DEF Obeys, Goes, Exits, TypeOK, BrokerTypes, QueueTypes
    <2>2. /\ UNCHANGED <<n, worker, link>>
          /\ broker[a] \notin {"none", "asking", "dial", "hello", "over"}
      BY <1>36 DEF Obeys, OthersKeep, attemptVars, workerVars
    <2>3. /\ broker'[a] \notin {"none", "asking", "dial"}
          /\ broker'[a] = "over" => displays'[a] = {}
      BY <1>36 DEF Obeys, Goes, Exits, TypeOK, BrokerTypes
    <2> QED
      BY <2>1, <2>2, <2>3, WelcomedSteps
  <1>37. ASSUME NEW a \in Attempts, GraceEnds(a)
        PROVE  Welcome'
    <2>1. \A b \in Attempts \ {a} :
             /\ broker'[b] = broker[b] /\ displays'[b] = displays[b]
             /\ toPanel'[b] = toPanel[b]
      BY <1>37 DEF GraceEnds, Exits, TypeOK, BrokerTypes, QueueTypes
    <2>2. /\ UNCHANGED <<n, worker, link>>
          /\ broker[a] \notin {"none", "asking", "dial", "hello", "over"}
      BY <1>37 DEF GraceEnds, OthersKeep, attemptVars, workerVars
    <2>3. /\ broker'[a] \notin {"none", "asking", "dial"}
          /\ broker'[a] = "over" => displays'[a] = {}
      BY <1>37 DEF GraceEnds, Exits, TypeOK, BrokerTypes
    <2> QED
      BY <2>1, <2>2, <2>3, WelcomedSteps
  <1>38. ASSUME NEW a \in Attempts, BrokerDies(a)
        PROVE  Welcome'
    BY <1>38, BoundsAssumption
    DEF BrokerDies, Exits, OthersKeep, Faulty, panelVars, workerVars, attemptVars,
        hostVars, brokerVars, TypeOK, WorkerTypes, BrokerTypes, Unstarted,
        Connected, Welcome, Attempts, Early
  <1>39. ASSUME NEW a \in Attempts, NEW r \in displays[a], DisplayDies(a, r)
        PROVE  Welcome'
    BY <1>39, BoundsAssumption
    DEF DisplayDies, OthersKeep, Faulty, panelVars, workerVars, attemptVars,
        hostVars, brokerVars, TypeOK, WorkerTypes, BrokerTypes, Unstarted,
        Connected, Welcome, Attempts, Early
  <1>40. CASE UNCHANGED vars
    BY <1>40, BoundsAssumption
    DEF vars, panelVars, workerVars, attemptVars, hostVars, brokerVars, TypeOK,
        WorkerTypes, BrokerTypes, Unstarted, Connected, Welcome, Attempts, Early
  <1>41. CASE DropsHost
    BY <1>41, BoundsAssumption
    DEF DropsHost, Aside, panelVars, workerVars, attemptVars, hostVars,
        brokerVars, TypeOK, WorkerTypes, BrokerTypes, Unstarted, Connected,
        Welcome, Attempts, Early
  <1>42. CASE DropsLink
    BY <1>42, BoundsAssumption
    DEF DropsLink, LinksEnd, panelVars, workerVars, attemptVars, hostVars,
        brokerVars, TypeOK, WorkerTypes, BrokerTypes, Unstarted, Connected,
        Welcome, Attempts, Early
  <1>43. CASE SocketCloses
    BY <1>43, BoundsAssumption
    DEF SocketCloses, LinksEnd, panelVars, workerVars, attemptVars, hostVars,
        brokerVars, TypeOK, WorkerTypes, BrokerTypes, Unstarted, Connected,
        Welcome, Attempts, Early
  <1> QED
    BY <1>1, <1>2, <1>3, <1>4, <1>5, <1>6, <1>7, <1>8, <1>9, <1>10, <1>11, <1>12,
        <1>13, <1>14, <1>15, <1>16, <1>17, <1>18, <1>19, <1>20, <1>21, <1>22, <1>23,
        <1>24, <1>25, <1>26, <1>27, <1>28, <1>29, <1>30, <1>31, <1>32, <1>33, <1>34,
        <1>35, <1>36, <1>37, <1>38, <1>39, <1>40, <1>41, <1>42, <1>43
    DEF Next, PersonStep, WindowStep, WorkerStep, BrokerStep, Mishap

\* R is written only by a manager with its displays, which only a fault or the end of
\* the connection takes from it.
LEMMA ReadyStep ==
    ASSUME TypeOK, Connected, Welcome, Ready, [Next]_vars
    PROVE  Ready'
  <1>1. CASE Start
    BY <1>1
    DEF Start, panelVars, workerVars, attemptVars, hostVars, brokerVars, TypeOK,
        WorkerTypes, BrokerTypes, QueueTypes, Connected, Welcome, Early, Ready, Held
  <1>2. CASE StopButton
    BY <1>2
    DEF StopButton, StopWorker, panelVars, workerVars, attemptVars, hostVars,
        brokerVars, TypeOK, WorkerTypes, BrokerTypes, QueueTypes, Connected,
        Welcome, Early, Ready, Held
  <1>3. CASE Close
    BY <1>3
    DEF Close, StopWorker, panelVars, workerVars, attemptVars, hostVars, brokerVars,
        TypeOK, WorkerTypes, BrokerTypes, QueueTypes, Connected, Welcome, Early,
        Ready, Held
  <1>4. CASE TickBegins
    BY <1>4
    DEF TickBegins, panelVars, workerVars, attemptVars, hostVars, brokerVars,
        TypeOK, WorkerTypes, BrokerTypes, QueueTypes, Connected, Welcome, Early,
        Ready, Held
  <1>5. CASE AppliesEvent
    BY <1>5
    DEF AppliesEvent, Update, panelVars, workerVars, attemptVars, hostVars,
        brokerVars, TypeOK, WorkerTypes, BrokerTypes, QueueTypes, Connected,
        Welcome, Early, Ready, Held
  <1>6. CASE Drained
    BY <1>6
    DEF Drained, TickEnds, panelVars, workerVars, attemptVars, hostVars, brokerVars,
        TypeOK, WorkerTypes, BrokerTypes, QueueTypes, Connected, Welcome, Early,
        Ready, Held
  <1>7. CASE Checks
    BY <1>7
    DEF Checks, TickEnds, panelVars, workerVars, attemptVars, hostVars, brokerVars,
        TypeOK, WorkerTypes, BrokerTypes, QueueTypes, Connected, Welcome, Early,
        Ready, Held
  <1>8. CASE DrainedAgain
    BY <1>8
    DEF DrainedAgain, TickEnds, panelVars, workerVars, attemptVars, hostVars,
        brokerVars, TypeOK, WorkerTypes, BrokerTypes, QueueTypes, Connected,
        Welcome, Early, Ready, Held
  <1>9. CASE Killed
    BY <1>9
    DEF Killed, panelVars, workerVars, attemptVars, hostVars, brokerVars, TypeOK,
        WorkerTypes, BrokerTypes, QueueTypes, Connected, Welcome, Early, Ready, Held
  <1>10. CASE SetupFails
    BY <1>10
    DEF SetupFails, Aside, panelVars, workerVars, attemptVars, hostVars, brokerVars,
        TypeOK, WorkerTypes, BrokerTypes, QueueTypes, Connected, Welcome, Early,
        Ready, Held
  <1>11. CASE PreflightFails
    BY <1>11
    DEF PreflightFails, Aside, Ends, panelVars, workerVars, attemptVars, hostVars,
        brokerVars, TypeOK, WorkerTypes, BrokerTypes, QueueTypes, Connected,
        Welcome, Early, Ready, Held
  <1>12. CASE Asks
    BY <1>12
    DEF Asks, Aside, Ends, panelVars, workerVars, attemptVars, hostVars, brokerVars,
        TypeOK, WorkerTypes, BrokerTypes, QueueTypes, Connected, Welcome, Early,
        Ready, Held
  <1>13. CASE AskEnds
    BY <1>13
    DEF AskEnds, Aside, Ends, CloseListener, panelVars, workerVars, attemptVars,
        hostVars, brokerVars, TypeOK, WorkerTypes, BrokerTypes, QueueTypes,
        Connected, Welcome, Early, Ready, Held
  <1>14. ASSUME NEW a \in Attempts, Accepts(a)
        PROVE  Ready'
    BY <1>14
    DEF Accepts, Aside, CloseListener, panelVars, workerVars, attemptVars, hostVars,
        brokerVars, TypeOK, WorkerTypes, BrokerTypes, QueueTypes, Connected,
        Welcome, Early, Ready, Held
  <1>15. CASE BrokerReady
    BY <1>15
    DEF BrokerReady, Aside, BrokerByte, panelVars, workerVars, attemptVars,
        hostVars, brokerVars, TypeOK, WorkerTypes, BrokerTypes, QueueTypes,
        Connected, Welcome, Early, Ready, Held
  <1>16. CASE WaitEnds
    BY <1>16
    DEF WaitEnds, Aside, Ends, BrokerByte, panelVars, workerVars, attemptVars,
        hostVars, brokerVars, TypeOK, WorkerTypes, BrokerTypes, QueueTypes,
        Connected, Welcome, Early, Ready, Held
  <1>17. CASE SpawnsHost
    BY <1>17
    DEF SpawnsHost, Aside, Ends, panelVars, workerVars, attemptVars, hostVars,
        brokerVars, TypeOK, WorkerTypes, BrokerTypes, QueueTypes, Connected,
        Welcome, Early, Ready, Held
  <1>18. CASE ReadsLine
    BY <1>18
    DEF ReadsLine, panelVars, workerVars, attemptVars, hostVars, brokerVars, TypeOK,
        WorkerTypes, BrokerTypes, QueueTypes, Connected, Welcome, Early, Ready, Held
  <1>19. CASE TailEnds
    BY <1>19
    DEF TailEnds, Aside, Ends, BrokerGone, panelVars, workerVars, attemptVars,
        hostVars, brokerVars, TypeOK, WorkerTypes, BrokerTypes, QueueTypes,
        Connected, Welcome, Early, Ready, Held
  <1>20. CASE Panics
    BY <1>20
    DEF Panics, Aside, CloseListener, panelVars, workerVars, attemptVars,
        hostVars, brokerVars, TypeOK, WorkerTypes, BrokerTypes, QueueTypes,
        Connected, Welcome, Early, Ready, Held
  <1>21. CASE StopsHost
    BY <1>21
    DEF StopsHost, Aside, panelVars, workerVars, attemptVars, hostVars, brokerVars,
        TypeOK, WorkerTypes, BrokerTypes, QueueTypes, Connected, Welcome, Early,
        Ready, Held
  <1>22. CASE HostIsOver
    BY <1>22
    DEF HostIsOver, Aside, panelVars, workerVars, attemptVars, hostVars, brokerVars,
        TypeOK, WorkerTypes, BrokerTypes, QueueTypes, Connected, Welcome, Early,
        Ready, Held
  <1>23. CASE StopsBroker
    BY <1>23
    DEF StopsBroker, Aside, panelVars, workerVars, attemptVars, hostVars,
        brokerVars, TypeOK, WorkerTypes, BrokerTypes, QueueTypes, Connected,
        Welcome, Early, Ready, Held
  <1>24. CASE BrokerIsOver
    BY <1>24
    DEF BrokerIsOver, Aside, panelVars, workerVars, attemptVars, hostVars,
        brokerVars, TypeOK, WorkerTypes, BrokerTypes, QueueTypes, Connected,
        Welcome, Early, Ready, Held
  <1>25. CASE Reports
    BY <1>25
    DEF Reports, Aside, panelVars, workerVars, attemptVars, hostVars, brokerVars,
        TypeOK, WorkerTypes, BrokerTypes, QueueTypes, Connected, Welcome, Early,
        Ready, Held
  <1>26. CASE ThreadEnds
    BY <1>26
    DEF ThreadEnds, Aside, panelVars, workerVars, attemptVars, hostVars, brokerVars,
        TypeOK, WorkerTypes, BrokerTypes, QueueTypes, Connected, Welcome, Early,
        Ready, Held
  <1>27. CASE HostWrites
    BY <1>27
    DEF HostWrites, panelVars, workerVars, attemptVars, hostVars, brokerVars,
        TypeOK, WorkerTypes, BrokerTypes, QueueTypes, Connected, Welcome, Early,
        Ready, Held
  <1>28. CASE HostExits
    BY <1>28
    DEF HostExits, panelVars, workerVars, attemptVars, hostVars, brokerVars, TypeOK,
        WorkerTypes, BrokerTypes, QueueTypes, Connected, Welcome, Early, Ready, Held
  <1>29. ASSUME NEW a \in Attempts, Answers(a)
        PROVE  Ready'
    BY <1>29
    DEF Answers, Goes, Exits, OthersKeep, panelVars, workerVars, attemptVars,
        hostVars, brokerVars, TypeOK, WorkerTypes, BrokerTypes, QueueTypes,
        Connected, Welcome, Early, Ready, Held
  <1>30. ASSUME NEW a \in Attempts, Dials(a)
        PROVE  Ready'
    BY <1>30
    DEF Dials, Goes, Exits, OthersKeep, panelVars, workerVars, attemptVars,
        hostVars, brokerVars, TypeOK, WorkerTypes, BrokerTypes, QueueTypes,
        Connected, Welcome, Early, Ready, Held
  <1>31. ASSUME NEW a \in Attempts, Welcomed(a)
        PROVE  Ready'
    BY <1>31
    DEF Welcomed, Goes, Exits, OthersKeep, panelVars, workerVars, attemptVars,
        hostVars, brokerVars, TypeOK, WorkerTypes, BrokerTypes, QueueTypes,
        Connected, Welcome, Early, Ready, Held
  <1>32. ASSUME NEW a \in Attempts, Configures(a)
        PROVE  Ready'
    <2>1. \A b \in Attempts \ {a} :
             /\ broker'[b] = broker[b] /\ displays'[b] = displays[b]
             /\ toPanel'[b] = toPanel[b]
      BY <1>32 DEF Configures, Goes, Exits, Fails, TypeOK, BrokerTypes, QueueTypes
    <2>2. UNCHANGED <<ui, n, mode, worker, host>>
      BY <1>32 DEF Configures, OthersKeep, panelVars, attemptVars, workerVars, hostVars
    <2>3. CASE a # n
      <3>1. fault' = fault
        BY <1>32, <2>3 DEF Configures, Goes, Exits, Fails, Faulty, TypeOK, HostTypes
      <3> QED
        BY <2>1, <2>2, <2>3, <3>1 DEF Ready, Held, Connected
    <2>4. CASE a = n
      <3>1. Held' \/ (~Held /\ toPanel' = toPanel) \/ (Held /\ Held')
        BY <1>32, <2>4 DEF Configures, Goes, Exits, Fails, Faulty, Held, TypeOK, HostTypes
      <3> QED
        BY <2>2, <3>1 DEF Ready
    <2> QED
      BY <2>3, <2>4
  <1>33. ASSUME NEW a \in Attempts, SpawnsDisplays(a)
        PROVE  Ready'
    <2>1. \A b \in Attempts \ {a} :
             /\ broker'[b] = broker[b] /\ displays'[b] = displays[b]
             /\ toPanel'[b] = toPanel[b]
      BY <1>33 DEF SpawnsDisplays, Exits, Fails, TypeOK, BrokerTypes, QueueTypes
    <2>2. UNCHANGED <<ui, n, mode, worker, host>>
      BY <1>33 DEF SpawnsDisplays, OthersKeep, panelVars, attemptVars, workerVars, hostVars
    <2>3. CASE a # n
      <3>1. fault' = fault
        BY <1>33, <2>3 DEF SpawnsDisplays, Exits, Fails, Faulty, TypeOK, HostTypes
      <3> QED
        BY <2>1, <2>2, <2>3, <3>1 DEF Ready, Held, Connected
    <2>4. CASE a = n
      <3>1. Held' \/ (~Held /\ toPanel' = toPanel) \/ (Held /\ Held')
        BY <1>33, <2>4 DEF SpawnsDisplays, Exits, Fails, Faulty, Held, TypeOK, HostTypes
      <3> QED
        BY <2>2, <3>1 DEF Ready
    <2> QED
      BY <2>3, <2>4
  <1>34. ASSUME NEW a \in Attempts, SaysReady(a)
        PROVE  Ready'
    <2>1. \A b \in Attempts \ {a} :
             /\ broker'[b] = broker[b] /\ displays'[b] = displays[b]
             /\ toPanel'[b] = toPanel[b]
      BY <1>34 DEF SaysReady, Goes, Exits, Fails, TypeOK, BrokerTypes, QueueTypes
    <2>2. UNCHANGED <<ui, n, mode, worker, host>>
      BY <1>34 DEF SaysReady, OthersKeep, panelVars, attemptVars, workerVars, hostVars
    <2>3. CASE a # n
      <3>1. fault' = fault
        BY <1>34, <2>3 DEF SaysReady, Goes, Exits, Fails, Faulty, TypeOK, HostTypes
      <3> QED
        BY <2>1, <2>2, <2>3, <3>1 DEF Ready, Held, Connected
    <2>4. CASE a = n
      <3>1. Held'
        BY <1>34, <2>2, <2>4 DEF SaysReady, Goes, Fails, Faulty, Held, TypeOK, BrokerTypes
      <3> QED
        BY <3>1 DEF Ready
    <2> QED
      BY <2>3, <2>4
  <1>35. ASSUME NEW a \in Attempts, LosesDisplay(a)
        PROVE  Ready'
    BY <1>35
    DEF LosesDisplay, Exits, OthersKeep, Fails, Faulty, panelVars, workerVars,
        attemptVars, hostVars, brokerVars, TypeOK, WorkerTypes, BrokerTypes,
        QueueTypes, Connected, Welcome, Early, Ready, Held
  <1>36. ASSUME NEW a \in Attempts, Obeys(a)
        PROVE  Ready'
    BY <1>36
    DEF Obeys, Goes, Exits, OthersKeep, panelVars, workerVars, attemptVars,
        hostVars, brokerVars, TypeOK, WorkerTypes, BrokerTypes, QueueTypes,
        Connected, Welcome, Early, Ready, Held
  <1>37. ASSUME NEW a \in Attempts, GraceEnds(a)
        PROVE  Ready'
    BY <1>37
    DEF GraceEnds, Exits, OthersKeep, panelVars, workerVars, attemptVars, hostVars,
        brokerVars, TypeOK, WorkerTypes, BrokerTypes, QueueTypes, Connected,
        Welcome, Early, Ready, Held
  <1>38. ASSUME NEW a \in Attempts, BrokerDies(a)
        PROVE  Ready'
    BY <1>38
    DEF BrokerDies, Exits, OthersKeep, Faulty, panelVars, workerVars, attemptVars,
        hostVars, brokerVars, TypeOK, WorkerTypes, BrokerTypes, QueueTypes,
        Connected, Welcome, Early, Ready, Held
  <1>39. ASSUME NEW a \in Attempts, NEW r \in displays[a], DisplayDies(a, r)
        PROVE  Ready'
    BY <1>39
    DEF DisplayDies, OthersKeep, Faulty, panelVars, workerVars, attemptVars,
        hostVars, brokerVars, TypeOK, WorkerTypes, BrokerTypes, QueueTypes,
        Connected, Welcome, Early, Ready, Held
  <1>40. CASE UNCHANGED vars
    BY <1>40
    DEF vars, panelVars, workerVars, attemptVars, hostVars, brokerVars, TypeOK,
        WorkerTypes, BrokerTypes, QueueTypes, Connected, Welcome, Early, Ready, Held
  <1>41. CASE DropsHost
    BY <1>41
    DEF DropsHost, Aside, panelVars, workerVars, attemptVars, hostVars,
        brokerVars, TypeOK, WorkerTypes, BrokerTypes, QueueTypes, Connected,
        Welcome, Early, Ready, Held
  <1>42. CASE DropsLink
    BY <1>42
    DEF DropsLink, LinksEnd, panelVars, workerVars, attemptVars, hostVars,
        brokerVars, TypeOK, WorkerTypes, BrokerTypes, QueueTypes, Connected,
        Welcome, Early, Ready, Held
  <1>43. CASE SocketCloses
    BY <1>43
    DEF SocketCloses, LinksEnd, panelVars, workerVars, attemptVars, hostVars,
        brokerVars, TypeOK, WorkerTypes, BrokerTypes, QueueTypes, Connected,
        Welcome, Early, Ready, Held
  <1> QED
    BY <1>1, <1>2, <1>3, <1>4, <1>5, <1>6, <1>7, <1>8, <1>9, <1>10, <1>11, <1>12,
        <1>13, <1>14, <1>15, <1>16, <1>17, <1>18, <1>19, <1>20, <1>21, <1>22, <1>23,
        <1>24, <1>25, <1>26, <1>27, <1>28, <1>29, <1>30, <1>31, <1>32, <1>33, <1>34,
        <1>35, <1>36, <1>37, <1>38, <1>39, <1>40, <1>41, <1>42, <1>43
    DEF Next, PersonStep, WindowStep, WorkerStep, BrokerStep, Mishap

\* A verdict is given after the manager ended, or without a connection to it.
LEMMA ReleasedStep ==
    ASSUME TypeOK, Connected, Welcome, Busy, Released, [Next]_vars
    PROVE  Released'
  <1>1. CASE Start
    BY <1>1
    DEF Start, panelVars, workerVars, attemptVars, hostVars, brokerVars, TypeOK,
        WorkerTypes, BrokerTypes, Connected, Welcome, Early, Busy, Released
  <1>2. CASE StopButton
    BY <1>2
    DEF StopButton, StopWorker, panelVars, workerVars, attemptVars, hostVars,
        brokerVars, TypeOK, WorkerTypes, BrokerTypes, Connected, Welcome, Early,
        Busy, Released
  <1>3. CASE Close
    BY <1>3
    DEF Close, StopWorker, panelVars, workerVars, attemptVars, hostVars, brokerVars,
        TypeOK, WorkerTypes, BrokerTypes, Connected, Welcome, Early, Busy, Released
  <1>4. CASE TickBegins
    BY <1>4
    DEF TickBegins, panelVars, workerVars, attemptVars, hostVars, brokerVars,
        TypeOK, WorkerTypes, BrokerTypes, Connected, Welcome, Early, Busy, Released
  <1>5. CASE AppliesEvent
    BY <1>5
    DEF AppliesEvent, Update, panelVars, workerVars, attemptVars, hostVars,
        brokerVars, TypeOK, WorkerTypes, BrokerTypes, Connected, Welcome, Early,
        Busy, Released
  <1>6. CASE Drained
    BY <1>6
    DEF Drained, TickEnds, panelVars, workerVars, attemptVars, hostVars, brokerVars,
        TypeOK, WorkerTypes, BrokerTypes, Connected, Welcome, Early, Busy, Released
  <1>7. CASE Checks
    BY <1>7
    DEF Checks, TickEnds, panelVars, workerVars, attemptVars, hostVars, brokerVars,
        TypeOK, WorkerTypes, BrokerTypes, Connected, Welcome, Early, Busy, Released
  <1>8. CASE DrainedAgain
    BY <1>8
    DEF DrainedAgain, TickEnds, panelVars, workerVars, attemptVars, hostVars,
        brokerVars, TypeOK, WorkerTypes, BrokerTypes, Connected, Welcome, Early,
        Busy, Released
  <1>9. CASE Killed
    BY <1>9
    DEF Killed, panelVars, workerVars, attemptVars, hostVars, brokerVars, TypeOK,
        WorkerTypes, BrokerTypes, Connected, Welcome, Early, Busy, Released
  <1>10. CASE SetupFails
    BY <1>10
    DEF SetupFails, Aside, panelVars, workerVars, attemptVars, hostVars, brokerVars,
        TypeOK, WorkerTypes, BrokerTypes, Connected, Welcome, Early, Busy, Released
  <1>11. CASE PreflightFails
    BY <1>11
    DEF PreflightFails, Aside, Ends, panelVars, workerVars, attemptVars, hostVars,
        brokerVars, TypeOK, WorkerTypes, BrokerTypes, Connected, Welcome, Early,
        Busy, Released
  <1>12. CASE Asks
    BY <1>12
    DEF Asks, Aside, Ends, panelVars, workerVars, attemptVars, hostVars, brokerVars,
        TypeOK, WorkerTypes, BrokerTypes, Connected, Welcome, Early, Busy, Released
  <1>13. CASE AskEnds
    BY <1>13
    DEF AskEnds, Aside, Ends, CloseListener, panelVars, workerVars, attemptVars,
        hostVars, brokerVars, TypeOK, WorkerTypes, BrokerTypes, Connected, Welcome,
        Early, Busy, Released
  <1>14. ASSUME NEW a \in Attempts, Accepts(a)
        PROVE  Released'
    BY <1>14
    DEF Accepts, Aside, CloseListener, panelVars, workerVars, attemptVars, hostVars,
        brokerVars, TypeOK, WorkerTypes, BrokerTypes, Connected, Welcome, Early,
        Busy, Released
  <1>15. CASE BrokerReady
    BY <1>15
    DEF BrokerReady, Aside, BrokerByte, panelVars, workerVars, attemptVars,
        hostVars, brokerVars, TypeOK, WorkerTypes, BrokerTypes, Connected, Welcome,
        Early, Busy, Released
  <1>16. CASE WaitEnds
    BY <1>16
    DEF WaitEnds, Aside, Ends, BrokerByte, panelVars, workerVars, attemptVars,
        hostVars, brokerVars, TypeOK, WorkerTypes, BrokerTypes, Connected, Welcome,
        Early, Busy, Released
  <1>17. CASE SpawnsHost
    BY <1>17
    DEF SpawnsHost, Aside, Ends, panelVars, workerVars, attemptVars, hostVars,
        brokerVars, TypeOK, WorkerTypes, BrokerTypes, Connected, Welcome, Early,
        Busy, Released
  <1>18. CASE ReadsLine
    BY <1>18
    DEF ReadsLine, panelVars, workerVars, attemptVars, hostVars, brokerVars, TypeOK,
        WorkerTypes, BrokerTypes, Connected, Welcome, Early, Busy, Released
  <1>19. CASE TailEnds
    BY <1>19
    DEF TailEnds, Aside, Ends, BrokerGone, panelVars, workerVars, attemptVars,
        hostVars, brokerVars, TypeOK, WorkerTypes, BrokerTypes, Connected, Welcome,
        Early, Busy, Released
  <1>20. CASE Panics
    BY <1>20
    DEF Panics, Aside, CloseListener, panelVars, workerVars, attemptVars,
        hostVars, brokerVars, TypeOK, WorkerTypes, BrokerTypes, Connected,
        Welcome, Early, Busy, Released
  <1>21. CASE StopsHost
    BY <1>21
    DEF StopsHost, Aside, panelVars, workerVars, attemptVars, hostVars, brokerVars,
        TypeOK, WorkerTypes, BrokerTypes, Connected, Welcome, Early, Busy, Released
  <1>22. CASE HostIsOver
    BY <1>22
    DEF HostIsOver, Aside, panelVars, workerVars, attemptVars, hostVars, brokerVars,
        TypeOK, WorkerTypes, BrokerTypes, Connected, Welcome, Early, Busy, Released
  <1>23. CASE StopsBroker
    BY <1>23
    DEF StopsBroker, Aside, panelVars, workerVars, attemptVars, hostVars,
        brokerVars, TypeOK, WorkerTypes, BrokerTypes, Connected, Welcome, Early,
        Busy, Released
  <1>24. CASE BrokerIsOver
    BY <1>24
    DEF BrokerIsOver, Aside, panelVars, workerVars, attemptVars, hostVars,
        brokerVars, TypeOK, WorkerTypes, BrokerTypes, Connected, Welcome, Early,
        Busy, Released
  <1>25. CASE Reports
    BY <1>25
    DEF Reports, Aside, panelVars, workerVars, attemptVars, hostVars, brokerVars,
        TypeOK, WorkerTypes, BrokerTypes, Connected, Welcome, Early, Busy, Released
  <1>26. CASE ThreadEnds
    BY <1>26
    DEF ThreadEnds, Aside, panelVars, workerVars, attemptVars, hostVars, brokerVars,
        TypeOK, WorkerTypes, BrokerTypes, Connected, Welcome, Early, Busy, Released
  <1>27. CASE HostWrites
    BY <1>27
    DEF HostWrites, panelVars, workerVars, attemptVars, hostVars, brokerVars,
        TypeOK, WorkerTypes, BrokerTypes, Connected, Welcome, Early, Busy, Released
  <1>28. CASE HostExits
    BY <1>28
    DEF HostExits, panelVars, workerVars, attemptVars, hostVars, brokerVars, TypeOK,
        WorkerTypes, BrokerTypes, Connected, Welcome, Early, Busy, Released
  <1>29. ASSUME NEW a \in Attempts, Answers(a)
        PROVE  Released'
    BY <1>29
    DEF Answers, Goes, Exits, OthersKeep, panelVars, workerVars, attemptVars,
        hostVars, brokerVars, TypeOK, WorkerTypes, BrokerTypes, Connected, Welcome,
        Early, Busy, Released
  <1>30. ASSUME NEW a \in Attempts, Dials(a)
        PROVE  Released'
    BY <1>30
    DEF Dials, Goes, Exits, OthersKeep, panelVars, workerVars, attemptVars,
        hostVars, brokerVars, TypeOK, WorkerTypes, BrokerTypes, Connected, Welcome,
        Early, Busy, Released
  <1>31. ASSUME NEW a \in Attempts, Welcomed(a)
        PROVE  Released'
    BY <1>31
    DEF Welcomed, Goes, Exits, OthersKeep, panelVars, workerVars, attemptVars,
        hostVars, brokerVars, TypeOK, WorkerTypes, BrokerTypes, Connected, Welcome,
        Early, Busy, Released
  <1>32. ASSUME NEW a \in Attempts, Configures(a)
        PROVE  Released'
    BY <1>32
    DEF Configures, Goes, Exits, OthersKeep, Fails, Faulty, panelVars, workerVars,
        attemptVars, hostVars, brokerVars, TypeOK, WorkerTypes, BrokerTypes,
        Connected, Welcome, Early, Busy, Released
  <1>33. ASSUME NEW a \in Attempts, SpawnsDisplays(a)
        PROVE  Released'
    BY <1>33
    DEF SpawnsDisplays, Exits, OthersKeep, Fails, Faulty, panelVars, workerVars,
        attemptVars, hostVars, brokerVars, TypeOK, WorkerTypes, BrokerTypes,
        Connected, Welcome, Early, Busy, Released
  <1>34. ASSUME NEW a \in Attempts, SaysReady(a)
        PROVE  Released'
    BY <1>34
    DEF SaysReady, Goes, Exits, OthersKeep, Fails, Faulty, panelVars, workerVars,
        attemptVars, hostVars, brokerVars, TypeOK, WorkerTypes, BrokerTypes,
        Connected, Welcome, Early, Busy, Released
  <1>35. ASSUME NEW a \in Attempts, LosesDisplay(a)
        PROVE  Released'
    BY <1>35
    DEF LosesDisplay, Exits, OthersKeep, Fails, Faulty, panelVars, workerVars,
        attemptVars, hostVars, brokerVars, TypeOK, WorkerTypes, BrokerTypes,
        Connected, Welcome, Early, Busy, Released
  <1>36. ASSUME NEW a \in Attempts, Obeys(a)
        PROVE  Released'
    BY <1>36
    DEF Obeys, Goes, Exits, OthersKeep, panelVars, workerVars, attemptVars,
        hostVars, brokerVars, TypeOK, WorkerTypes, BrokerTypes, Connected, Welcome,
        Early, Busy, Released
  <1>37. ASSUME NEW a \in Attempts, GraceEnds(a)
        PROVE  Released'
    BY <1>37
    DEF GraceEnds, Exits, OthersKeep, panelVars, workerVars, attemptVars, hostVars,
        brokerVars, TypeOK, WorkerTypes, BrokerTypes, Connected, Welcome, Early,
        Busy, Released
  <1>38. ASSUME NEW a \in Attempts, BrokerDies(a)
        PROVE  Released'
    BY <1>38
    DEF BrokerDies, Exits, OthersKeep, Faulty, panelVars, workerVars, attemptVars,
        hostVars, brokerVars, TypeOK, WorkerTypes, BrokerTypes, Connected, Welcome,
        Early, Busy, Released
  <1>39. ASSUME NEW a \in Attempts, NEW r \in displays[a], DisplayDies(a, r)
        PROVE  Released'
    BY <1>39
    DEF DisplayDies, OthersKeep, Faulty, panelVars, workerVars, attemptVars,
        hostVars, brokerVars, TypeOK, WorkerTypes, BrokerTypes, Connected, Welcome,
        Early, Busy, Released
  <1>40. CASE UNCHANGED vars
    BY <1>40
    DEF vars, panelVars, workerVars, attemptVars, hostVars, brokerVars, TypeOK,
        WorkerTypes, BrokerTypes, Connected, Welcome, Early, Busy, Released
  <1>41. CASE DropsHost
    BY <1>41
    DEF DropsHost, Aside, panelVars, workerVars, attemptVars, hostVars,
        brokerVars, TypeOK, WorkerTypes, BrokerTypes, Connected, Welcome, Early,
        Busy, Released
  <1>42. CASE DropsLink
    BY <1>42
    DEF DropsLink, LinksEnd, panelVars, workerVars, attemptVars, hostVars,
        brokerVars, TypeOK, WorkerTypes, BrokerTypes, Connected, Welcome, Early,
        Busy, Released
  <1>43. CASE SocketCloses
    BY <1>43
    DEF SocketCloses, LinksEnd, panelVars, workerVars, attemptVars, hostVars,
        brokerVars, TypeOK, WorkerTypes, BrokerTypes, Connected, Welcome, Early,
        Busy, Released
  <1> QED
    BY <1>1, <1>2, <1>3, <1>4, <1>5, <1>6, <1>7, <1>8, <1>9, <1>10, <1>11, <1>12,
        <1>13, <1>14, <1>15, <1>16, <1>17, <1>18, <1>19, <1>20, <1>21, <1>22, <1>23,
        <1>24, <1>25, <1>26, <1>27, <1>28, <1>29, <1>30, <1>31, <1>32, <1>33, <1>34,
        <1>35, <1>36, <1>37, <1>38, <1>39, <1>40, <1>41, <1>42, <1>43
    DEF Next, PersonStep, WindowStep, WorkerStep, BrokerStep, Mishap

\* The tick of the window.
LEMMA TickingStep ==
    ASSUME TypeOK, Connected, Busy, Told, Ticking, [Next]_vars
    PROVE  Ticking'
  <1>1. CASE Start
    BY <1>1, BoundsAssumption
    DEF Start, panelVars, workerVars, attemptVars, hostVars, brokerVars, TypeOK,
        WindowTypes, WorkerTypes, QueueTypes, Attempts, Connected, Busy, Told,
        Panicked, Unread, Read, Endings, NoEnding, Ticking
  <1>2. CASE StopButton
    BY <1>2, BoundsAssumption
    DEF StopButton, StopWorker, panelVars, workerVars, attemptVars, hostVars,
        brokerVars, TypeOK, WindowTypes, WorkerTypes, QueueTypes, Attempts,
        Connected, Busy, Told, Panicked, Unread, Read, Endings, NoEnding, Ticking
  <1>3. CASE Close
    BY <1>3, BoundsAssumption
    DEF Close, StopWorker, panelVars, workerVars, attemptVars, hostVars, brokerVars,
        TypeOK, WindowTypes, WorkerTypes, QueueTypes, Attempts, Connected, Busy,
        Told, Panicked, Unread, Read, Endings, NoEnding, Ticking
  <1>4. CASE TickBegins
    BY <1>4, BoundsAssumption
    DEF TickBegins, panelVars, workerVars, attemptVars, hostVars, brokerVars,
        TypeOK, WindowTypes, WorkerTypes, QueueTypes, Attempts, Connected, Busy,
        Told, Panicked, Unread, Read, Endings, NoEnding, Ticking
  <1>5. CASE AppliesEvent
    BY <1>5, BoundsAssumption
    DEF AppliesEvent, Update, panelVars, workerVars, attemptVars, hostVars,
        brokerVars, TypeOK, WindowTypes, WorkerTypes, QueueTypes, Attempts,
        Connected, Busy, Told, Panicked, Unread, Read, Endings, NoEnding, Ticking
  <1>6. CASE Drained
    BY <1>6, BoundsAssumption
    DEF Drained, TickEnds, panelVars, workerVars, attemptVars, hostVars, brokerVars,
        TypeOK, WindowTypes, WorkerTypes, QueueTypes, Attempts, Connected, Busy,
        Told, Panicked, Unread, Read, Endings, NoEnding, Ticking
  <1>7. CASE Checks
    BY <1>7, BoundsAssumption
    DEF Checks, TickEnds, panelVars, workerVars, attemptVars, hostVars, brokerVars,
        TypeOK, WindowTypes, WorkerTypes, QueueTypes, Attempts, Connected, Busy,
        Told, Panicked, Unread, Read, Endings, NoEnding, Ticking
  <1>8. CASE DrainedAgain
    BY <1>8, BoundsAssumption
    DEF DrainedAgain, TickEnds, panelVars, workerVars, attemptVars, hostVars,
        brokerVars, TypeOK, WindowTypes, WorkerTypes, QueueTypes, Attempts,
        Connected, Busy, Told, Panicked, Unread, Read, Endings, NoEnding, Ticking
  <1>9. CASE Killed
    BY <1>9, BoundsAssumption
    DEF Killed, panelVars, workerVars, attemptVars, hostVars, brokerVars, TypeOK,
        WindowTypes, WorkerTypes, QueueTypes, Attempts, Connected, Busy, Told,
        Panicked, Unread, Read, Endings, NoEnding, Ticking
  <1>10. CASE SetupFails
    BY <1>10, BoundsAssumption
    DEF SetupFails, Aside, panelVars, workerVars, attemptVars, hostVars, brokerVars,
        TypeOK, WindowTypes, WorkerTypes, QueueTypes, Attempts, Connected, Busy,
        Told, Panicked, Unread, Read, Endings, NoEnding, Ticking
  <1>11. CASE PreflightFails
    BY <1>11, BoundsAssumption
    DEF PreflightFails, Aside, Ends, panelVars, workerVars, attemptVars, hostVars,
        brokerVars, TypeOK, WindowTypes, WorkerTypes, QueueTypes, Attempts,
        Connected, Busy, Told, Panicked, Unread, Read, Endings, NoEnding, Ticking
  <1>12. CASE Asks
    BY <1>12, BoundsAssumption
    DEF Asks, Aside, Ends, panelVars, workerVars, attemptVars, hostVars, brokerVars,
        TypeOK, WindowTypes, WorkerTypes, QueueTypes, Attempts, Connected, Busy,
        Told, Panicked, Unread, Read, Endings, NoEnding, Ticking
  <1>13. CASE AskEnds
    BY <1>13, BoundsAssumption
    DEF AskEnds, Aside, Ends, CloseListener, panelVars, workerVars, attemptVars,
        hostVars, brokerVars, TypeOK, WindowTypes, WorkerTypes, QueueTypes,
        Attempts, Connected, Busy, Told, Panicked, Unread, Read, Endings, NoEnding,
        Ticking
  <1>14. ASSUME NEW a \in Attempts, Accepts(a)
        PROVE  Ticking'
    BY <1>14, BoundsAssumption
    DEF Accepts, Aside, CloseListener, panelVars, workerVars, attemptVars, hostVars,
        brokerVars, TypeOK, WindowTypes, WorkerTypes, QueueTypes, Attempts,
        Connected, Busy, Told, Panicked, Unread, Read, Endings, NoEnding, Ticking
  <1>15. CASE BrokerReady
    BY <1>15, BoundsAssumption
    DEF BrokerReady, Aside, BrokerByte, panelVars, workerVars, attemptVars,
        hostVars, brokerVars, TypeOK, WindowTypes, WorkerTypes, QueueTypes,
        Attempts, Connected, Busy, Told, Panicked, Unread, Read, Endings, NoEnding,
        Ticking
  <1>16. CASE WaitEnds
    BY <1>16, BoundsAssumption
    DEF WaitEnds, Aside, Ends, BrokerByte, panelVars, workerVars, attemptVars,
        hostVars, brokerVars, TypeOK, WindowTypes, WorkerTypes, QueueTypes,
        Attempts, Connected, Busy, Told, Panicked, Unread, Read, Endings, NoEnding,
        Ticking
  <1>17. CASE SpawnsHost
    BY <1>17, BoundsAssumption
    DEF SpawnsHost, Aside, Ends, panelVars, workerVars, attemptVars, hostVars,
        brokerVars, TypeOK, WindowTypes, WorkerTypes, QueueTypes, Attempts,
        Connected, Busy, Told, Panicked, Unread, Read, Endings, NoEnding, Ticking
  <1>18. CASE ReadsLine
    BY <1>18, BoundsAssumption
    DEF ReadsLine, panelVars, workerVars, attemptVars, hostVars, brokerVars, TypeOK,
        WindowTypes, WorkerTypes, QueueTypes, Attempts, Connected, Busy, Told,
        Panicked, Unread, Read, Endings, NoEnding, Ticking
  <1>19. CASE TailEnds
    BY <1>19, BoundsAssumption
    DEF TailEnds, Aside, Ends, BrokerGone, panelVars, workerVars, attemptVars,
        hostVars, brokerVars, TypeOK, WindowTypes, WorkerTypes, QueueTypes,
        Attempts, Connected, Busy, Told, Panicked, Unread, Read, Endings, NoEnding,
        Ticking
  <1>20. CASE Panics
    BY <1>20, BoundsAssumption
    DEF Panics, Aside, CloseListener, panelVars, workerVars, attemptVars,
        hostVars, brokerVars, TypeOK, WindowTypes, WorkerTypes, QueueTypes,
        Attempts, Connected, Busy, Told, Panicked, Unread, Read, Endings,
        NoEnding, Ticking
  <1>21. CASE StopsHost
    BY <1>21, BoundsAssumption
    DEF StopsHost, Aside, panelVars, workerVars, attemptVars, hostVars, brokerVars,
        TypeOK, WindowTypes, WorkerTypes, QueueTypes, Attempts, Connected, Busy,
        Told, Panicked, Unread, Read, Endings, NoEnding, Ticking
  <1>22. CASE HostIsOver
    BY <1>22, BoundsAssumption
    DEF HostIsOver, Aside, panelVars, workerVars, attemptVars, hostVars, brokerVars,
        TypeOK, WindowTypes, WorkerTypes, QueueTypes, Attempts, Connected, Busy,
        Told, Panicked, Unread, Read, Endings, NoEnding, Ticking
  <1>23. CASE StopsBroker
    BY <1>23, BoundsAssumption
    DEF StopsBroker, Aside, panelVars, workerVars, attemptVars, hostVars,
        brokerVars, TypeOK, WindowTypes, WorkerTypes, QueueTypes, Attempts,
        Connected, Busy, Told, Panicked, Unread, Read, Endings, NoEnding, Ticking
  <1>24. CASE BrokerIsOver
    BY <1>24, BoundsAssumption
    DEF BrokerIsOver, Aside, panelVars, workerVars, attemptVars, hostVars,
        brokerVars, TypeOK, WindowTypes, WorkerTypes, QueueTypes, Attempts,
        Connected, Busy, Told, Panicked, Unread, Read, Endings, NoEnding, Ticking
  <1>25. CASE Reports
    BY <1>25, BoundsAssumption
    DEF Reports, Aside, panelVars, workerVars, attemptVars, hostVars, brokerVars,
        TypeOK, WindowTypes, WorkerTypes, QueueTypes, Attempts, Connected, Busy,
        Told, Panicked, Unread, Read, Endings, NoEnding, Ticking
  <1>26. CASE ThreadEnds
    BY <1>26, BoundsAssumption
    DEF ThreadEnds, Aside, panelVars, workerVars, attemptVars, hostVars, brokerVars,
        TypeOK, WindowTypes, WorkerTypes, QueueTypes, Attempts, Connected, Busy,
        Told, Panicked, Unread, Read, Endings, NoEnding, Ticking
  <1>27. CASE HostWrites
    BY <1>27, BoundsAssumption
    DEF HostWrites, panelVars, workerVars, attemptVars, hostVars, brokerVars,
        TypeOK, WindowTypes, WorkerTypes, QueueTypes, Attempts, Connected, Busy,
        Told, Panicked, Unread, Read, Endings, NoEnding, Ticking
  <1>28. CASE HostExits
    BY <1>28, BoundsAssumption
    DEF HostExits, panelVars, workerVars, attemptVars, hostVars, brokerVars, TypeOK,
        WindowTypes, WorkerTypes, QueueTypes, Attempts, Connected, Busy, Told,
        Panicked, Unread, Read, Endings, NoEnding, Ticking
  <1>29. ASSUME NEW a \in Attempts, Answers(a)
        PROVE  Ticking'
    BY <1>29, BoundsAssumption
    DEF Answers, Goes, Exits, OthersKeep, panelVars, workerVars, attemptVars,
        hostVars, brokerVars, TypeOK, WindowTypes, WorkerTypes, QueueTypes,
        Attempts, Connected, Busy, Told, Panicked, Unread, Read, Endings, NoEnding,
        Ticking
  <1>30. ASSUME NEW a \in Attempts, Dials(a)
        PROVE  Ticking'
    BY <1>30, BoundsAssumption
    DEF Dials, Goes, Exits, OthersKeep, panelVars, workerVars, attemptVars,
        hostVars, brokerVars, TypeOK, WindowTypes, WorkerTypes, QueueTypes,
        Attempts, Connected, Busy, Told, Panicked, Unread, Read, Endings, NoEnding,
        Ticking
  <1>31. ASSUME NEW a \in Attempts, Welcomed(a)
        PROVE  Ticking'
    BY <1>31, BoundsAssumption
    DEF Welcomed, Goes, Exits, OthersKeep, panelVars, workerVars, attemptVars,
        hostVars, brokerVars, TypeOK, WindowTypes, WorkerTypes, QueueTypes,
        Attempts, Connected, Busy, Told, Panicked, Unread, Read, Endings, NoEnding,
        Ticking
  <1>32. ASSUME NEW a \in Attempts, Configures(a)
        PROVE  Ticking'
    BY <1>32, BoundsAssumption
    DEF Configures, Goes, Exits, OthersKeep, Fails, Faulty, panelVars, workerVars,
        attemptVars, hostVars, brokerVars, TypeOK, WindowTypes, WorkerTypes,
        QueueTypes, Attempts, Connected, Busy, Told, Panicked, Unread, Read,
        Endings, NoEnding, Ticking
  <1>33. ASSUME NEW a \in Attempts, SpawnsDisplays(a)
        PROVE  Ticking'
    BY <1>33, BoundsAssumption
    DEF SpawnsDisplays, Exits, OthersKeep, Fails, Faulty, panelVars, workerVars,
        attemptVars, hostVars, brokerVars, TypeOK, WindowTypes, WorkerTypes,
        QueueTypes, Attempts, Connected, Busy, Told, Panicked, Unread, Read,
        Endings, NoEnding, Ticking
  <1>34. ASSUME NEW a \in Attempts, SaysReady(a)
        PROVE  Ticking'
    BY <1>34, BoundsAssumption
    DEF SaysReady, Goes, Exits, OthersKeep, Fails, Faulty, panelVars, workerVars,
        attemptVars, hostVars, brokerVars, TypeOK, WindowTypes, WorkerTypes,
        QueueTypes, Attempts, Connected, Busy, Told, Panicked, Unread, Read,
        Endings, NoEnding, Ticking
  <1>35. ASSUME NEW a \in Attempts, LosesDisplay(a)
        PROVE  Ticking'
    BY <1>35, BoundsAssumption
    DEF LosesDisplay, Exits, OthersKeep, Fails, Faulty, panelVars, workerVars,
        attemptVars, hostVars, brokerVars, TypeOK, WindowTypes, WorkerTypes,
        QueueTypes, Attempts, Connected, Busy, Told, Panicked, Unread, Read,
        Endings, NoEnding, Ticking
  <1>36. ASSUME NEW a \in Attempts, Obeys(a)
        PROVE  Ticking'
    BY <1>36, BoundsAssumption
    DEF Obeys, Goes, Exits, OthersKeep, panelVars, workerVars, attemptVars,
        hostVars, brokerVars, TypeOK, WindowTypes, WorkerTypes, QueueTypes,
        Attempts, Connected, Busy, Told, Panicked, Unread, Read, Endings, NoEnding,
        Ticking
  <1>37. ASSUME NEW a \in Attempts, GraceEnds(a)
        PROVE  Ticking'
    BY <1>37, BoundsAssumption
    DEF GraceEnds, Exits, OthersKeep, panelVars, workerVars, attemptVars, hostVars,
        brokerVars, TypeOK, WindowTypes, WorkerTypes, QueueTypes, Attempts,
        Connected, Busy, Told, Panicked, Unread, Read, Endings, NoEnding, Ticking
  <1>38. ASSUME NEW a \in Attempts, BrokerDies(a)
        PROVE  Ticking'
    BY <1>38, BoundsAssumption
    DEF BrokerDies, Exits, OthersKeep, Faulty, panelVars, workerVars, attemptVars,
        hostVars, brokerVars, TypeOK, WindowTypes, WorkerTypes, QueueTypes,
        Attempts, Connected, Busy, Told, Panicked, Unread, Read, Endings, NoEnding,
        Ticking
  <1>39. ASSUME NEW a \in Attempts, NEW r \in displays[a], DisplayDies(a, r)
        PROVE  Ticking'
    BY <1>39, BoundsAssumption
    DEF DisplayDies, OthersKeep, Faulty, panelVars, workerVars, attemptVars,
        hostVars, brokerVars, TypeOK, WindowTypes, WorkerTypes, QueueTypes,
        Attempts, Connected, Busy, Told, Panicked, Unread, Read, Endings, NoEnding,
        Ticking
  <1>40. CASE UNCHANGED vars
    BY <1>40, BoundsAssumption
    DEF vars, panelVars, workerVars, attemptVars, hostVars, brokerVars, TypeOK,
        WindowTypes, WorkerTypes, QueueTypes, Attempts, Connected, Busy, Told,
        Panicked, Unread, Read, Endings, NoEnding, Ticking
  <1>41. CASE DropsHost
    BY <1>41, BoundsAssumption
    DEF DropsHost, Aside, panelVars, workerVars, attemptVars, hostVars,
        brokerVars, TypeOK, WindowTypes, WorkerTypes, QueueTypes, Attempts,
        Connected, Busy, Told, Panicked, Unread, Read, Endings, NoEnding, Ticking
  <1>42. CASE DropsLink
    BY <1>42, BoundsAssumption
    DEF DropsLink, LinksEnd, panelVars, workerVars, attemptVars, hostVars,
        brokerVars, TypeOK, WindowTypes, WorkerTypes, QueueTypes, Attempts,
        Connected, Busy, Told, Panicked, Unread, Read, Endings, NoEnding, Ticking
  <1>43. CASE SocketCloses
    BY <1>43, BoundsAssumption
    DEF SocketCloses, LinksEnd, panelVars, workerVars, attemptVars, hostVars,
        brokerVars, TypeOK, WindowTypes, WorkerTypes, QueueTypes, Attempts,
        Connected, Busy, Told, Panicked, Unread, Read, Endings, NoEnding, Ticking
  <1> QED
    BY <1>1, <1>2, <1>3, <1>4, <1>5, <1>6, <1>7, <1>8, <1>9, <1>10, <1>11, <1>12,
        <1>13, <1>14, <1>15, <1>16, <1>17, <1>18, <1>19, <1>20, <1>21, <1>22, <1>23,
        <1>24, <1>25, <1>26, <1>27, <1>28, <1>29, <1>30, <1>31, <1>32, <1>33, <1>34,
        <1>35, <1>36, <1>37, <1>38, <1>39, <1>40, <1>41, <1>42, <1>43
    DEF Next, PersonStep, WindowStep, WorkerStep, BrokerStep, Mishap

\* A sequence of events that grows or is read.
LEMMA EventsGrow ==
    ASSUME NEW S, NEW s \in Seq(S), NEW e \in S
    PROVE  /\ Append(s, e) \in Seq(S) /\ Len(Append(s, e)) = Len(s) + 1
           /\ \A i \in 1 .. Len(s) : Append(s, e)[i] = s[i]
           /\ Append(s, e)[Len(s) + 1] = e
           /\ Len(s) \in Nat
  OBVIOUS

LEMMA EventsRead ==
    ASSUME NEW S, NEW s \in Seq(S), s # <<>>
    PROVE  /\ Tail(s) \in Seq(S) /\ Len(Tail(s)) = Len(s) - 1
           /\ \A i \in 1 .. Len(s) - 1 : Tail(s)[i] = s[i + 1]
           /\ Head(s) = s[1] /\ Head(s) \in S
           /\ Len(s) \in Nat \ {0}
  BY HeadTailProperties

\* The worker reports only in its last steps.
LEMMA BusyStep ==
    ASSUME TypeOK, Unstarted, Connected, Busy, Told, Ticking, [Next]_vars
    PROVE  Busy'
  <1>1. CASE Start
    BY <1>1, BoundsAssumption
    DEF Start, panelVars, workerVars, attemptVars, hostVars, brokerVars, TypeOK,
        WindowTypes, WorkerTypes, QueueTypes, Attempts, Unstarted, Connected, Busy,
        Endings, NoEnding, Ticking
  <1>2. CASE StopButton
    BY <1>2, BoundsAssumption
    DEF StopButton, StopWorker, panelVars, workerVars, attemptVars, hostVars,
        brokerVars, TypeOK, WindowTypes, WorkerTypes, QueueTypes, Attempts,
        Unstarted, Connected, Busy, Endings, NoEnding, Ticking
  <1>3. CASE Close
    BY <1>3, BoundsAssumption
    DEF Close, StopWorker, panelVars, workerVars, attemptVars, hostVars, brokerVars,
        TypeOK, WindowTypes, WorkerTypes, QueueTypes, Attempts, Unstarted,
        Connected, Busy, Endings, NoEnding, Ticking
  <1>4. CASE TickBegins
    BY <1>4, BoundsAssumption
    DEF TickBegins, panelVars, workerVars, attemptVars, hostVars, brokerVars,
        TypeOK, WindowTypes, WorkerTypes, QueueTypes, Attempts, Unstarted,
        Connected, Busy, Endings, NoEnding, Ticking
  <1>5. CASE AppliesEvent
    BY <1>5, BoundsAssumption
    DEF AppliesEvent, Update, panelVars, workerVars, attemptVars, hostVars,
        brokerVars, TypeOK, WindowTypes, WorkerTypes, QueueTypes, Attempts,
        Unstarted, Connected, Busy, Endings, NoEnding, Ticking
  <1>6. CASE Drained
    BY <1>6, BoundsAssumption
    DEF Drained, TickEnds, panelVars, workerVars, attemptVars, hostVars, brokerVars,
        TypeOK, WindowTypes, WorkerTypes, QueueTypes, Attempts, Unstarted,
        Connected, Busy, Endings, NoEnding, Ticking
  <1>7. CASE Checks
    BY <1>7, BoundsAssumption
    DEF Checks, TickEnds, panelVars, workerVars, attemptVars, hostVars, brokerVars,
        TypeOK, WindowTypes, WorkerTypes, QueueTypes, Attempts, Unstarted,
        Connected, Busy, Endings, NoEnding, Ticking
  <1>8. CASE DrainedAgain
    BY <1>8, BoundsAssumption
    DEF DrainedAgain, TickEnds, panelVars, workerVars, attemptVars, hostVars,
        brokerVars, TypeOK, WindowTypes, WorkerTypes, QueueTypes, Attempts,
        Unstarted, Connected, Busy, Endings, NoEnding, Ticking
  <1>9. CASE Killed
    BY <1>9, BoundsAssumption
    DEF Killed, panelVars, workerVars, attemptVars, hostVars, brokerVars, TypeOK,
        WindowTypes, WorkerTypes, QueueTypes, Attempts, Unstarted, Connected, Busy,
        Endings, NoEnding, Ticking
  <1>10. CASE SetupFails
    BY <1>10, BoundsAssumption
    DEF SetupFails, Aside, panelVars, workerVars, attemptVars, hostVars, brokerVars,
        TypeOK, WindowTypes, WorkerTypes, QueueTypes, Attempts, Unstarted,
        Connected, Busy, Endings, NoEnding, Ticking
  <1>11. CASE PreflightFails
    BY <1>11, BoundsAssumption
    DEF PreflightFails, Aside, Ends, panelVars, workerVars, attemptVars, hostVars,
        brokerVars, TypeOK, WindowTypes, WorkerTypes, QueueTypes, Attempts,
        Unstarted, Connected, Busy, Endings, NoEnding, Ticking
  <1>12. CASE Asks
    BY <1>12, BoundsAssumption
    DEF Asks, Aside, Ends, panelVars, workerVars, attemptVars, hostVars, brokerVars,
        TypeOK, WindowTypes, WorkerTypes, QueueTypes, Attempts, Unstarted,
        Connected, Busy, Endings, NoEnding, Ticking
  <1>13. CASE AskEnds
    BY <1>13, BoundsAssumption
    DEF AskEnds, Aside, Ends, CloseListener, panelVars, workerVars, attemptVars,
        hostVars, brokerVars, TypeOK, WindowTypes, WorkerTypes, QueueTypes,
        Attempts, Unstarted, Connected, Busy, Endings, NoEnding, Ticking
  <1>14. ASSUME NEW a \in Attempts, Accepts(a)
        PROVE  Busy'
    BY <1>14, BoundsAssumption
    DEF Accepts, Aside, CloseListener, panelVars, workerVars, attemptVars, hostVars,
        brokerVars, TypeOK, WindowTypes, WorkerTypes, QueueTypes, Attempts,
        Unstarted, Connected, Busy, Endings, NoEnding, Ticking
  <1>15. CASE BrokerReady
    BY <1>15, BoundsAssumption
    DEF BrokerReady, Aside, BrokerByte, panelVars, workerVars, attemptVars,
        hostVars, brokerVars, TypeOK, WindowTypes, WorkerTypes, QueueTypes,
        Attempts, Unstarted, Connected, Busy, Endings, NoEnding, Ticking
  <1>16. CASE WaitEnds
    BY <1>16, BoundsAssumption
    DEF WaitEnds, Aside, Ends, BrokerByte, panelVars, workerVars, attemptVars,
        hostVars, brokerVars, TypeOK, WindowTypes, WorkerTypes, QueueTypes,
        Attempts, Unstarted, Connected, Busy, Endings, NoEnding, Ticking
  <1>17. CASE SpawnsHost
    <2>1. ASSUME events' = Append(events, "hostStarting"), NoEnding
          PROVE  NoEnding'
      <3>1. /\ Len(events') = Len(events) + 1 /\ Len(events) \in Nat
            /\ \A i \in 1 .. Len(events) : events'[i] = events[i]
            /\ events'[Len(events) + 1] = "hostStarting"
        BY <2>1, EventsGrow DEF TypeOK, QueueTypes
      <3> QED
        BY <2>1, <3>1 DEF NoEnding, Endings
    <2>2. NoEnding => NoEnding'
      <3>1. events' = events \/ events' = Append(events, "hostStarting")
        BY <1>17 DEF SpawnsHost
      <3> QED
        BY <2>1, <3>1 DEF NoEnding
    <2>3. /\ worker = "spawn"
          /\ UNCHANGED <<ui, present, noticed, tick, shown, verdict, n, panicked>>
      BY <1>17 DEF SpawnsHost, Aside, panelVars
    <2> QED
      BY <2>2, <2>3 DEF Busy
  <1>18. CASE ReadsLine
    BY <1>18, BoundsAssumption
    DEF ReadsLine, panelVars, workerVars, attemptVars, hostVars, brokerVars, TypeOK,
        WindowTypes, WorkerTypes, QueueTypes, Attempts, Unstarted, Connected, Busy,
        Endings, NoEnding, Ticking
  <1>19. CASE TailEnds
    BY <1>19, BoundsAssumption
    DEF TailEnds, Aside, Ends, BrokerGone, panelVars, workerVars, attemptVars,
        hostVars, brokerVars, TypeOK, WindowTypes, WorkerTypes, QueueTypes,
        Attempts, Unstarted, Connected, Busy, Endings, NoEnding, Ticking
  <1>20. CASE Panics
    BY <1>20, BoundsAssumption
    DEF Panics, Aside, CloseListener, panelVars, workerVars, attemptVars,
        hostVars, brokerVars, TypeOK, WindowTypes, WorkerTypes, QueueTypes,
        Attempts, Unstarted, Connected, Busy, Endings, NoEnding, Ticking
  <1>21. CASE StopsHost
    BY <1>21, BoundsAssumption
    DEF StopsHost, Aside, panelVars, workerVars, attemptVars, hostVars, brokerVars,
        TypeOK, WindowTypes, WorkerTypes, QueueTypes, Attempts, Unstarted,
        Connected, Busy, Endings, NoEnding, Ticking
  <1>22. CASE HostIsOver
    BY <1>22, BoundsAssumption
    DEF HostIsOver, Aside, panelVars, workerVars, attemptVars, hostVars, brokerVars,
        TypeOK, WindowTypes, WorkerTypes, QueueTypes, Attempts, Unstarted,
        Connected, Busy, Endings, NoEnding, Ticking
  <1>23. CASE StopsBroker
    BY <1>23, BoundsAssumption
    DEF StopsBroker, Aside, panelVars, workerVars, attemptVars, hostVars,
        brokerVars, TypeOK, WindowTypes, WorkerTypes, QueueTypes, Attempts,
        Unstarted, Connected, Busy, Endings, NoEnding, Ticking
  <1>24. CASE BrokerIsOver
    BY <1>24, BoundsAssumption
    DEF BrokerIsOver, Aside, panelVars, workerVars, attemptVars, hostVars,
        brokerVars, TypeOK, WindowTypes, WorkerTypes, QueueTypes, Attempts,
        Unstarted, Connected, Busy, Endings, NoEnding, Ticking
  <1>25. CASE Reports
    BY <1>25, BoundsAssumption
    DEF Reports, Aside, panelVars, workerVars, attemptVars, hostVars, brokerVars,
        TypeOK, WindowTypes, WorkerTypes, QueueTypes, Attempts, Unstarted,
        Connected, Busy, Endings, NoEnding, Ticking
  <1>26. CASE ThreadEnds
    BY <1>26, BoundsAssumption
    DEF ThreadEnds, Aside, panelVars, workerVars, attemptVars, hostVars, brokerVars,
        TypeOK, WindowTypes, WorkerTypes, QueueTypes, Attempts, Unstarted,
        Connected, Busy, Endings, NoEnding, Ticking
  <1>27. CASE HostWrites
    BY <1>27, BoundsAssumption
    DEF HostWrites, panelVars, workerVars, attemptVars, hostVars, brokerVars,
        TypeOK, WindowTypes, WorkerTypes, QueueTypes, Attempts, Unstarted,
        Connected, Busy, Endings, NoEnding, Ticking
  <1>28. CASE HostExits
    BY <1>28, BoundsAssumption
    DEF HostExits, panelVars, workerVars, attemptVars, hostVars, brokerVars, TypeOK,
        WindowTypes, WorkerTypes, QueueTypes, Attempts, Unstarted, Connected, Busy,
        Endings, NoEnding, Ticking
  <1>29. ASSUME NEW a \in Attempts, Answers(a)
        PROVE  Busy'
    BY <1>29, BoundsAssumption
    DEF Answers, Goes, Exits, OthersKeep, panelVars, workerVars, attemptVars,
        hostVars, brokerVars, TypeOK, WindowTypes, WorkerTypes, QueueTypes,
        Attempts, Unstarted, Connected, Busy, Endings, NoEnding, Ticking
  <1>30. ASSUME NEW a \in Attempts, Dials(a)
        PROVE  Busy'
    BY <1>30, BoundsAssumption
    DEF Dials, Goes, Exits, OthersKeep, panelVars, workerVars, attemptVars,
        hostVars, brokerVars, TypeOK, WindowTypes, WorkerTypes, QueueTypes,
        Attempts, Unstarted, Connected, Busy, Endings, NoEnding, Ticking
  <1>31. ASSUME NEW a \in Attempts, Welcomed(a)
        PROVE  Busy'
    BY <1>31, BoundsAssumption
    DEF Welcomed, Goes, Exits, OthersKeep, panelVars, workerVars, attemptVars,
        hostVars, brokerVars, TypeOK, WindowTypes, WorkerTypes, QueueTypes,
        Attempts, Unstarted, Connected, Busy, Endings, NoEnding, Ticking
  <1>32. ASSUME NEW a \in Attempts, Configures(a)
        PROVE  Busy'
    BY <1>32, BoundsAssumption
    DEF Configures, Goes, Exits, OthersKeep, Fails, Faulty, panelVars, workerVars,
        attemptVars, hostVars, brokerVars, TypeOK, WindowTypes, WorkerTypes,
        QueueTypes, Attempts, Unstarted, Connected, Busy, Endings, NoEnding, Ticking
  <1>33. ASSUME NEW a \in Attempts, SpawnsDisplays(a)
        PROVE  Busy'
    BY <1>33, BoundsAssumption
    DEF SpawnsDisplays, Exits, OthersKeep, Fails, Faulty, panelVars, workerVars,
        attemptVars, hostVars, brokerVars, TypeOK, WindowTypes, WorkerTypes,
        QueueTypes, Attempts, Unstarted, Connected, Busy, Endings, NoEnding, Ticking
  <1>34. ASSUME NEW a \in Attempts, SaysReady(a)
        PROVE  Busy'
    BY <1>34, BoundsAssumption
    DEF SaysReady, Goes, Exits, OthersKeep, Fails, Faulty, panelVars, workerVars,
        attemptVars, hostVars, brokerVars, TypeOK, WindowTypes, WorkerTypes,
        QueueTypes, Attempts, Unstarted, Connected, Busy, Endings, NoEnding, Ticking
  <1>35. ASSUME NEW a \in Attempts, LosesDisplay(a)
        PROVE  Busy'
    BY <1>35, BoundsAssumption
    DEF LosesDisplay, Exits, OthersKeep, Fails, Faulty, panelVars, workerVars,
        attemptVars, hostVars, brokerVars, TypeOK, WindowTypes, WorkerTypes,
        QueueTypes, Attempts, Unstarted, Connected, Busy, Endings, NoEnding, Ticking
  <1>36. ASSUME NEW a \in Attempts, Obeys(a)
        PROVE  Busy'
    BY <1>36, BoundsAssumption
    DEF Obeys, Goes, Exits, OthersKeep, panelVars, workerVars, attemptVars,
        hostVars, brokerVars, TypeOK, WindowTypes, WorkerTypes, QueueTypes,
        Attempts, Unstarted, Connected, Busy, Endings, NoEnding, Ticking
  <1>37. ASSUME NEW a \in Attempts, GraceEnds(a)
        PROVE  Busy'
    BY <1>37, BoundsAssumption
    DEF GraceEnds, Exits, OthersKeep, panelVars, workerVars, attemptVars, hostVars,
        brokerVars, TypeOK, WindowTypes, WorkerTypes, QueueTypes, Attempts,
        Unstarted, Connected, Busy, Endings, NoEnding, Ticking
  <1>38. ASSUME NEW a \in Attempts, BrokerDies(a)
        PROVE  Busy'
    BY <1>38, BoundsAssumption
    DEF BrokerDies, Exits, OthersKeep, Faulty, panelVars, workerVars, attemptVars,
        hostVars, brokerVars, TypeOK, WindowTypes, WorkerTypes, QueueTypes,
        Attempts, Unstarted, Connected, Busy, Endings, NoEnding, Ticking
  <1>39. ASSUME NEW a \in Attempts, NEW r \in displays[a], DisplayDies(a, r)
        PROVE  Busy'
    BY <1>39, BoundsAssumption
    DEF DisplayDies, OthersKeep, Faulty, panelVars, workerVars, attemptVars,
        hostVars, brokerVars, TypeOK, WindowTypes, WorkerTypes, QueueTypes,
        Attempts, Unstarted, Connected, Busy, Endings, NoEnding, Ticking
  <1>40. CASE UNCHANGED vars
    BY <1>40, BoundsAssumption
    DEF vars, panelVars, workerVars, attemptVars, hostVars, brokerVars, TypeOK,
        WindowTypes, WorkerTypes, QueueTypes, Attempts, Unstarted, Connected, Busy,
        Endings, NoEnding, Ticking
  <1>41. CASE DropsHost
    BY <1>41, BoundsAssumption
    DEF DropsHost, Aside, panelVars, workerVars, attemptVars, hostVars,
        brokerVars, TypeOK, WindowTypes, WorkerTypes, QueueTypes, Attempts,
        Unstarted, Connected, Busy, Endings, NoEnding, Ticking
  <1>42. CASE DropsLink
    BY <1>42, BoundsAssumption
    DEF DropsLink, LinksEnd, panelVars, workerVars, attemptVars, hostVars,
        brokerVars, TypeOK, WindowTypes, WorkerTypes, QueueTypes, Attempts,
        Unstarted, Connected, Busy, Endings, NoEnding, Ticking
  <1>43. CASE SocketCloses
    BY <1>43, BoundsAssumption
    DEF SocketCloses, LinksEnd, panelVars, workerVars, attemptVars, hostVars,
        brokerVars, TypeOK, WindowTypes, WorkerTypes, QueueTypes, Attempts,
        Unstarted, Connected, Busy, Endings, NoEnding, Ticking
  <1> QED
    BY <1>1, <1>2, <1>3, <1>4, <1>5, <1>6, <1>7, <1>8, <1>9, <1>10, <1>11, <1>12,
        <1>13, <1>14, <1>15, <1>16, <1>17, <1>18, <1>19, <1>20, <1>21, <1>22, <1>23,
        <1>24, <1>25, <1>26, <1>27, <1>28, <1>29, <1>30, <1>31, <1>32, <1>33, <1>34,
        <1>35, <1>36, <1>37, <1>38, <1>39, <1>40, <1>41, <1>42, <1>43
    DEF Next, PersonStep, WindowStep, WorkerStep, BrokerStep, Mishap

\* The window reads the report, or finds the thread over without one.
LEMMA ToldStep ==
    ASSUME TypeOK, Unstarted, Connected, Busy, Told, Ticking, [Next]_vars
    PROVE  Told'
  <1>1. CASE Start
    BY <1>1, BoundsAssumption
    DEF Start, panelVars, workerVars, attemptVars, hostVars, brokerVars, TypeOK,
        WindowTypes, WorkerTypes, QueueTypes, Attempts, Unstarted, Connected, Busy,
        Told, Panicked, Unread, Read, Endings, NoEnding, Ticking
  <1>2. CASE StopButton
    BY <1>2, BoundsAssumption
    DEF StopButton, StopWorker, panelVars, workerVars, attemptVars, hostVars,
        brokerVars, TypeOK, WindowTypes, WorkerTypes, QueueTypes, Attempts,
        Unstarted, Connected, Busy, Told, Panicked, Unread, Read, Endings, NoEnding,
        Ticking
  <1>3. CASE Close
    BY <1>3, BoundsAssumption
    DEF Close, StopWorker, panelVars, workerVars, attemptVars, hostVars, brokerVars,
        TypeOK, WindowTypes, WorkerTypes, QueueTypes, Attempts, Unstarted,
        Connected, Busy, Told, Panicked, Unread, Read, Endings, NoEnding, Ticking
  <1>4. CASE TickBegins
    BY <1>4, BoundsAssumption
    DEF TickBegins, panelVars, workerVars, attemptVars, hostVars, brokerVars,
        TypeOK, WindowTypes, WorkerTypes, QueueTypes, Attempts, Unstarted,
        Connected, Busy, Told, Panicked, Unread, Read, Endings, NoEnding, Ticking
  <1>5. CASE AppliesEvent
    <2> SUFFICES ASSUME worker \in {"sent", "over"}, ui # "killed", n > 0
                 PROVE  Told'
      BY <1>5 DEF AppliesEvent, Told, attemptVars
    <2>1. /\ events' = Tail(events) /\ events # <<>>
          /\ UNCHANGED <<ui, present, worker, n, panicked, verdict>>
      BY <1>5 DEF AppliesEvent, attemptVars
    <2>2. /\ Len(events') = Len(events) - 1 /\ Len(events) \in Nat \ {0}
          /\ \A i \in 1 .. Len(events) - 1 : events'[i] = events[i + 1]
          /\ Head(events) = events[1]
          /\ Head(events) \in {"hostStarting", "streaming", "ok", "failed"}
      BY <2>1, EventsRead DEF TypeOK, QueueTypes
    <2>3. CASE panicked = n
      <3>1. Panicked
        BY <2>3 DEF Told
      <3>2. NoEnding' /\ Head(events) \notin Endings
        BY <2>2, <3>1 DEF Panicked, NoEnding
      <3>3. UNCHANGED <<failure, noticed>>
            /\ (shown' = shown \/ shown' \in {"hostStarting", "streaming"})
            /\ (shown = "stopped" => shown' = shown)
        BY <1>5, <2>2, <3>2 DEF AppliesEvent, Update, Endings
      <3> QED
        BY <2>1, <2>3, <3>1, <3>2, <3>3 DEF Told, Panicked
    <2>4. CASE panicked # n
      <3>1. Unread /\ verdict[n] # "none"
        BY <2>1, <2>4 DEF Told, Read
      <3>2. verdict[n] \in Endings
        BY <3>1, n \in Attempts DEF TypeOK, WorkerTypes, Endings, Attempts
      <3>3. CASE Head(events) \in Endings
        <4>1. Len(events) = 1
          BY <2>2, <3>1, <3>3 DEF Unread
        <4>2. events' = <<>> /\ Head(events) = verdict[n]
          BY <2>1, <2>2, <3>1, <4>1, EmptySeq DEF Unread, TypeOK, QueueTypes
        <4>3. /\ shown' = "stopped" /\ noticed' = TRUE
              /\ failure' = IF verdict[n] = "ok" THEN "none" ELSE "session"
          BY <1>5, <3>3, <4>2 DEF AppliesEvent, Endings
        <4> QED
          BY <2>1, <2>4, <3>1, <4>2, <4>3 DEF Told, Read
      <3>4. CASE Head(events) \notin Endings
        <4>1. Len(events) > 1
          BY <2>2, <3>1, <3>2, <3>4 DEF Unread
        <4>2. /\ events' # <<>> /\ events'[Len(events')] = verdict[n]
              /\ \A i \in 1 .. Len(events') : events'[i] \in Endings => i = Len(events')
          <5>1. events'[Len(events')] = verdict[n]
            BY <2>2, <3>1, <4>1 DEF Unread
          <5>2. ASSUME NEW i \in 1 .. Len(events'), events'[i] \in Endings
                PROVE  i = Len(events')
            BY <2>2, <3>1, <4>1, <5>2 DEF Unread
          <5>3. events' # <<>>
            BY <2>2, <4>1
          <5> QED
            BY <5>1, <5>2, <5>3
        <4>3. noticed' = noticed /\ shown' # "stopped"
          BY <1>5, <2>2, <3>1, <3>4 DEF AppliesEvent, Update, Endings, Unread
        <4> QED
          BY <2>1, <2>4, <3>1, <4>2, <4>3 DEF Told, Unread
      <3> QED
        BY <3>3, <3>4
    <2> QED
      BY <2>3, <2>4
  <1>6. CASE Drained
    BY <1>6, BoundsAssumption
    DEF Drained, TickEnds, panelVars, workerVars, attemptVars, hostVars, brokerVars,
        TypeOK, WindowTypes, WorkerTypes, QueueTypes, Attempts, Unstarted,
        Connected, Busy, Told, Panicked, Unread, Read, Endings, NoEnding, Ticking
  <1>7. CASE Checks
    BY <1>7, BoundsAssumption
    DEF Checks, TickEnds, panelVars, workerVars, attemptVars, hostVars, brokerVars,
        TypeOK, WindowTypes, WorkerTypes, QueueTypes, Attempts, Unstarted,
        Connected, Busy, Told, Panicked, Unread, Read, Endings, NoEnding, Ticking
  <1>8. CASE DrainedAgain
    BY <1>8, BoundsAssumption
    DEF DrainedAgain, TickEnds, panelVars, workerVars, attemptVars, hostVars,
        brokerVars, TypeOK, WindowTypes, WorkerTypes, QueueTypes, Attempts,
        Unstarted, Connected, Busy, Told, Panicked, Unread, Read, Endings, NoEnding,
        Ticking
  <1>9. CASE Killed
    <2>1. ui' = "killed"
      BY <1>9 DEF Killed
    <2> QED
      BY <2>1 DEF Told
  <1>10. CASE SetupFails
    BY <1>10, BoundsAssumption
    DEF SetupFails, Aside, panelVars, workerVars, attemptVars, hostVars, brokerVars,
        TypeOK, WindowTypes, WorkerTypes, QueueTypes, Attempts, Unstarted,
        Connected, Busy, Told, Panicked, Unread, Read, Endings, NoEnding, Ticking
  <1>11. CASE PreflightFails
    BY <1>11, BoundsAssumption
    DEF PreflightFails, Aside, Ends, panelVars, workerVars, attemptVars, hostVars,
        brokerVars, TypeOK, WindowTypes, WorkerTypes, QueueTypes, Attempts,
        Unstarted, Connected, Busy, Told, Panicked, Unread, Read, Endings, NoEnding,
        Ticking
  <1>12. CASE Asks
    BY <1>12, BoundsAssumption
    DEF Asks, Aside, Ends, panelVars, workerVars, attemptVars, hostVars, brokerVars,
        TypeOK, WindowTypes, WorkerTypes, QueueTypes, Attempts, Unstarted,
        Connected, Busy, Told, Panicked, Unread, Read, Endings, NoEnding, Ticking
  <1>13. CASE AskEnds
    BY <1>13, BoundsAssumption
    DEF AskEnds, Aside, Ends, CloseListener, panelVars, workerVars, attemptVars,
        hostVars, brokerVars, TypeOK, WindowTypes, WorkerTypes, QueueTypes,
        Attempts, Unstarted, Connected, Busy, Told, Panicked, Unread, Read, Endings,
        NoEnding, Ticking
  <1>14. ASSUME NEW a \in Attempts, Accepts(a)
        PROVE  Told'
    BY <1>14, BoundsAssumption
    DEF Accepts, Aside, CloseListener, panelVars, workerVars, attemptVars, hostVars,
        brokerVars, TypeOK, WindowTypes, WorkerTypes, QueueTypes, Attempts,
        Unstarted, Connected, Busy, Told, Panicked, Unread, Read, Endings, NoEnding,
        Ticking
  <1>15. CASE BrokerReady
    BY <1>15, BoundsAssumption
    DEF BrokerReady, Aside, BrokerByte, panelVars, workerVars, attemptVars,
        hostVars, brokerVars, TypeOK, WindowTypes, WorkerTypes, QueueTypes,
        Attempts, Unstarted, Connected, Busy, Told, Panicked, Unread, Read, Endings,
        NoEnding, Ticking
  <1>16. CASE WaitEnds
    BY <1>16, BoundsAssumption
    DEF WaitEnds, Aside, Ends, BrokerByte, panelVars, workerVars, attemptVars,
        hostVars, brokerVars, TypeOK, WindowTypes, WorkerTypes, QueueTypes,
        Attempts, Unstarted, Connected, Busy, Told, Panicked, Unread, Read, Endings,
        NoEnding, Ticking
  <1>17. CASE SpawnsHost
    BY <1>17, BoundsAssumption
    DEF SpawnsHost, Aside, Ends, panelVars, workerVars, attemptVars, hostVars,
        brokerVars, TypeOK, WindowTypes, WorkerTypes, QueueTypes, Attempts,
        Unstarted, Connected, Busy, Told, Panicked, Unread, Read, Endings, NoEnding,
        Ticking
  <1>18. CASE ReadsLine
    BY <1>18, BoundsAssumption
    DEF ReadsLine, panelVars, workerVars, attemptVars, hostVars, brokerVars, TypeOK,
        WindowTypes, WorkerTypes, QueueTypes, Attempts, Unstarted, Connected, Busy,
        Told, Panicked, Unread, Read, Endings, NoEnding, Ticking
  <1>19. CASE TailEnds
    BY <1>19, BoundsAssumption
    DEF TailEnds, Aside, Ends, BrokerGone, panelVars, workerVars, attemptVars,
        hostVars, brokerVars, TypeOK, WindowTypes, WorkerTypes, QueueTypes,
        Attempts, Unstarted, Connected, Busy, Told, Panicked, Unread, Read, Endings,
        NoEnding, Ticking
  <1>20. CASE Panics
    BY <1>20, BoundsAssumption
    DEF Panics, Aside, CloseListener, panelVars, workerVars, attemptVars,
        hostVars, brokerVars, TypeOK, WindowTypes, WorkerTypes, QueueTypes,
        Attempts, Unstarted, Connected, Busy, Told, Panicked, Unread, Read,
        Endings, NoEnding, Ticking
  <1>21. CASE StopsHost
    BY <1>21, BoundsAssumption
    DEF StopsHost, Aside, panelVars, workerVars, attemptVars, hostVars, brokerVars,
        TypeOK, WindowTypes, WorkerTypes, QueueTypes, Attempts, Unstarted,
        Connected, Busy, Told, Panicked, Unread, Read, Endings, NoEnding, Ticking
  <1>22. CASE HostIsOver
    BY <1>22, BoundsAssumption
    DEF HostIsOver, Aside, panelVars, workerVars, attemptVars, hostVars, brokerVars,
        TypeOK, WindowTypes, WorkerTypes, QueueTypes, Attempts, Unstarted,
        Connected, Busy, Told, Panicked, Unread, Read, Endings, NoEnding, Ticking
  <1>23. CASE StopsBroker
    BY <1>23, BoundsAssumption
    DEF StopsBroker, Aside, panelVars, workerVars, attemptVars, hostVars,
        brokerVars, TypeOK, WindowTypes, WorkerTypes, QueueTypes, Attempts,
        Unstarted, Connected, Busy, Told, Panicked, Unread, Read, Endings, NoEnding,
        Ticking
  <1>24. CASE BrokerIsOver
    BY <1>24, BoundsAssumption
    DEF BrokerIsOver, Aside, panelVars, workerVars, attemptVars, hostVars,
        brokerVars, TypeOK, WindowTypes, WorkerTypes, QueueTypes, Attempts,
        Unstarted, Connected, Busy, Told, Panicked, Unread, Read, Endings, NoEnding,
        Ticking
  <1>25. CASE Reports
    <2> SUFFICES ASSUME ui # "killed"
                 PROVE  Told'
      BY <1>25 DEF Reports, Aside, Told, panelVars
    <2> DEFINE result == IF outcome = "unclean" \/ (outcome = "failed" /\ ~cancel)
                         THEN "failed" ELSE "ok"
    <2>1. /\ n \in Attempts /\ verdict' = [verdict EXCEPT ![n] = result]
          /\ events' = Append(events, result) /\ worker' = "sent"
          /\ UNCHANGED <<ui, shown, failure, present, tick, noticed, n, panicked>>
      BY <1>25 DEF Reports, Aside, panelVars, Connected
    <2>2. /\ panicked # n /\ present /\ ~noticed /\ shown # "stopped" /\ NoEnding
      BY <1>25 DEF Reports, Busy
    <2>3. result \in Endings /\ verdict'[n] = result
      BY <2>1 DEF Endings, TypeOK, WorkerTypes
    <2> HIDE DEF result
    <2>4. /\ Len(events') = Len(events) + 1 /\ Len(events) \in Nat
          /\ \A i \in 1 .. Len(events) : events'[i] = events[i]
          /\ events'[Len(events) + 1] = result
      <3>1. result \in {"hostStarting", "streaming", "ok", "failed"}
        BY <2>3 DEF Endings
      <3> QED
        BY <2>1, <3>1, EventsGrow DEF TypeOK, QueueTypes
    <2>5. /\ events' # <<>> /\ events'[Len(events')] = verdict'[n]
          /\ \A i \in 1 .. Len(events') : events'[i] \in Endings => i = Len(events')
      BY <2>2, <2>3, <2>4 DEF NoEnding
    <2>6. verdict'[n] # "none"
      BY <2>3 DEF Endings
    <2> QED
      BY <2>1, <2>2, <2>5, <2>6 DEF Told, Unread
  <1>26. CASE ThreadEnds
    BY <1>26, BoundsAssumption
    DEF ThreadEnds, Aside, panelVars, workerVars, attemptVars, hostVars, brokerVars,
        TypeOK, WindowTypes, WorkerTypes, QueueTypes, Attempts, Unstarted,
        Connected, Busy, Told, Panicked, Unread, Read, Endings, NoEnding, Ticking
  <1>27. CASE HostWrites
    BY <1>27, BoundsAssumption
    DEF HostWrites, panelVars, workerVars, attemptVars, hostVars, brokerVars,
        TypeOK, WindowTypes, WorkerTypes, QueueTypes, Attempts, Unstarted,
        Connected, Busy, Told, Panicked, Unread, Read, Endings, NoEnding, Ticking
  <1>28. CASE HostExits
    BY <1>28, BoundsAssumption
    DEF HostExits, panelVars, workerVars, attemptVars, hostVars, brokerVars, TypeOK,
        WindowTypes, WorkerTypes, QueueTypes, Attempts, Unstarted, Connected, Busy,
        Told, Panicked, Unread, Read, Endings, NoEnding, Ticking
  <1>29. ASSUME NEW a \in Attempts, Answers(a)
        PROVE  Told'
    BY <1>29, BoundsAssumption
    DEF Answers, Goes, Exits, OthersKeep, panelVars, workerVars, attemptVars,
        hostVars, brokerVars, TypeOK, WindowTypes, WorkerTypes, QueueTypes,
        Attempts, Unstarted, Connected, Busy, Told, Panicked, Unread, Read, Endings,
        NoEnding, Ticking
  <1>30. ASSUME NEW a \in Attempts, Dials(a)
        PROVE  Told'
    BY <1>30, BoundsAssumption
    DEF Dials, Goes, Exits, OthersKeep, panelVars, workerVars, attemptVars,
        hostVars, brokerVars, TypeOK, WindowTypes, WorkerTypes, QueueTypes,
        Attempts, Unstarted, Connected, Busy, Told, Panicked, Unread, Read, Endings,
        NoEnding, Ticking
  <1>31. ASSUME NEW a \in Attempts, Welcomed(a)
        PROVE  Told'
    BY <1>31, BoundsAssumption
    DEF Welcomed, Goes, Exits, OthersKeep, panelVars, workerVars, attemptVars,
        hostVars, brokerVars, TypeOK, WindowTypes, WorkerTypes, QueueTypes,
        Attempts, Unstarted, Connected, Busy, Told, Panicked, Unread, Read, Endings,
        NoEnding, Ticking
  <1>32. ASSUME NEW a \in Attempts, Configures(a)
        PROVE  Told'
    BY <1>32, BoundsAssumption
    DEF Configures, Goes, Exits, OthersKeep, Fails, Faulty, panelVars, workerVars,
        attemptVars, hostVars, brokerVars, TypeOK, WindowTypes, WorkerTypes,
        QueueTypes, Attempts, Unstarted, Connected, Busy, Told, Panicked, Unread,
        Read, Endings, NoEnding, Ticking
  <1>33. ASSUME NEW a \in Attempts, SpawnsDisplays(a)
        PROVE  Told'
    BY <1>33, BoundsAssumption
    DEF SpawnsDisplays, Exits, OthersKeep, Fails, Faulty, panelVars, workerVars,
        attemptVars, hostVars, brokerVars, TypeOK, WindowTypes, WorkerTypes,
        QueueTypes, Attempts, Unstarted, Connected, Busy, Told, Panicked, Unread,
        Read, Endings, NoEnding, Ticking
  <1>34. ASSUME NEW a \in Attempts, SaysReady(a)
        PROVE  Told'
    BY <1>34, BoundsAssumption
    DEF SaysReady, Goes, Exits, OthersKeep, Fails, Faulty, panelVars, workerVars,
        attemptVars, hostVars, brokerVars, TypeOK, WindowTypes, WorkerTypes,
        QueueTypes, Attempts, Unstarted, Connected, Busy, Told, Panicked, Unread,
        Read, Endings, NoEnding, Ticking
  <1>35. ASSUME NEW a \in Attempts, LosesDisplay(a)
        PROVE  Told'
    BY <1>35, BoundsAssumption
    DEF LosesDisplay, Exits, OthersKeep, Fails, Faulty, panelVars, workerVars,
        attemptVars, hostVars, brokerVars, TypeOK, WindowTypes, WorkerTypes,
        QueueTypes, Attempts, Unstarted, Connected, Busy, Told, Panicked, Unread,
        Read, Endings, NoEnding, Ticking
  <1>36. ASSUME NEW a \in Attempts, Obeys(a)
        PROVE  Told'
    BY <1>36, BoundsAssumption
    DEF Obeys, Goes, Exits, OthersKeep, panelVars, workerVars, attemptVars,
        hostVars, brokerVars, TypeOK, WindowTypes, WorkerTypes, QueueTypes,
        Attempts, Unstarted, Connected, Busy, Told, Panicked, Unread, Read, Endings,
        NoEnding, Ticking
  <1>37. ASSUME NEW a \in Attempts, GraceEnds(a)
        PROVE  Told'
    BY <1>37, BoundsAssumption
    DEF GraceEnds, Exits, OthersKeep, panelVars, workerVars, attemptVars, hostVars,
        brokerVars, TypeOK, WindowTypes, WorkerTypes, QueueTypes, Attempts,
        Unstarted, Connected, Busy, Told, Panicked, Unread, Read, Endings, NoEnding,
        Ticking
  <1>38. ASSUME NEW a \in Attempts, BrokerDies(a)
        PROVE  Told'
    BY <1>38, BoundsAssumption
    DEF BrokerDies, Exits, OthersKeep, Faulty, panelVars, workerVars, attemptVars,
        hostVars, brokerVars, TypeOK, WindowTypes, WorkerTypes, QueueTypes,
        Attempts, Unstarted, Connected, Busy, Told, Panicked, Unread, Read, Endings,
        NoEnding, Ticking
  <1>39. ASSUME NEW a \in Attempts, NEW r \in displays[a], DisplayDies(a, r)
        PROVE  Told'
    BY <1>39, BoundsAssumption
    DEF DisplayDies, OthersKeep, Faulty, panelVars, workerVars, attemptVars,
        hostVars, brokerVars, TypeOK, WindowTypes, WorkerTypes, QueueTypes,
        Attempts, Unstarted, Connected, Busy, Told, Panicked, Unread, Read, Endings,
        NoEnding, Ticking
  <1>40. CASE UNCHANGED vars
    BY <1>40, BoundsAssumption
    DEF vars, panelVars, workerVars, attemptVars, hostVars, brokerVars, TypeOK,
        WindowTypes, WorkerTypes, QueueTypes, Attempts, Unstarted, Connected, Busy,
        Told, Panicked, Unread, Read, Endings, NoEnding, Ticking
  <1>41. CASE DropsHost
    BY <1>41, BoundsAssumption
    DEF DropsHost, Aside, panelVars, workerVars, attemptVars, hostVars,
        brokerVars, TypeOK, WindowTypes, WorkerTypes, QueueTypes, Attempts,
        Unstarted, Connected, Busy, Told, Panicked, Unread, Read, Endings,
        NoEnding, Ticking
  <1>42. CASE DropsLink
    BY <1>42, BoundsAssumption
    DEF DropsLink, LinksEnd, panelVars, workerVars, attemptVars, hostVars,
        brokerVars, TypeOK, WindowTypes, WorkerTypes, QueueTypes, Attempts,
        Unstarted, Connected, Busy, Told, Panicked, Unread, Read, Endings,
        NoEnding, Ticking
  <1>43. CASE SocketCloses
    BY <1>43, BoundsAssumption
    DEF SocketCloses, LinksEnd, panelVars, workerVars, attemptVars, hostVars,
        brokerVars, TypeOK, WindowTypes, WorkerTypes, QueueTypes, Attempts,
        Unstarted, Connected, Busy, Told, Panicked, Unread, Read, Endings,
        NoEnding, Ticking
  <1> QED
    BY <1>1, <1>2, <1>3, <1>4, <1>5, <1>6, <1>7, <1>8, <1>9, <1>10, <1>11, <1>12,
        <1>13, <1>14, <1>15, <1>16, <1>17, <1>18, <1>19, <1>20, <1>21, <1>22, <1>23,
        <1>24, <1>25, <1>26, <1>27, <1>28, <1>29, <1>30, <1>31, <1>32, <1>33, <1>34,
        <1>35, <1>36, <1>37, <1>38, <1>39, <1>40, <1>41, <1>42, <1>43
    DEF Next, PersonStep, WindowStep, WorkerStep, BrokerStep, Mishap

-----------------------------------------------------------------------------
(* The theorems *)

\* The inductive invariant.
SessionInv ==
    /\ TypeOK /\ Unstarted /\ Connected /\ Welcome /\ Ready /\ Released
    /\ Busy /\ Told /\ Ticking

LEMMA SessionInit == Init => SessionInv
  <1> SUFFICES ASSUME Init
               PROVE  SessionInv
    OBVIOUS
  <1>1. TypeOK
    BY TypesInit
  <1>2. Unstarted /\ Connected /\ Welcome /\ Released
    BY DEF Init, Unstarted, Connected, Welcome, Released, Early
  <1>3. Ready /\ Busy /\ Told /\ Ticking
    BY DEF Init, Ready, Busy, Told, Ticking
  <1> QED
    BY <1>1, <1>2, <1>3 DEF SessionInv

LEMMA SessionStep == SessionInv /\ [Next]_vars => SessionInv'
  BY TypeStep, UnstartedStep, ConnectedStep, WelcomeStep, ReadyStep, ReleasedStep,
     TickingStep, BusyStep, ToldStep
  DEF SessionInv

LEMMA SessionAlways == Spec => []SessionInv
  BY SessionInit, SessionStep, PTL DEF Spec

\* The types, for any number of sessions.
THEOREM TypeCorrect == Spec => []TypeOK
  <1>1. SessionInv => TypeOK
    BY DEF SessionInv
  <1> QED
    BY <1>1, SessionAlways, PTL

\* No host outlives the brokers of its display (session.rs:136): the worker that
\* may still have a host has an open connection to a manager that said R and has
\* its displays, or that failed.
THEOREM HostIsFirst == Spec => []HostEndsFirst
  <1>1. SessionInv => HostEndsFirst
    BY DEF SessionInv, HostEndsFirst, Ready, Held
  <1> QED
    BY <1>1, SessionAlways, PTL

\* A session that ended well left nothing elevated, and a prompt that is answered
\* too late starts nothing (broker.rs:62).
THEOREM NothingElevated == Spec => []NothingIsLeft
  <1>1. SessionInv => NothingIsLeft
    BY DEF SessionInv, NothingIsLeft, Released, Early
  <1> QED
    BY <1>1, SessionAlways, PTL

\* What the panel says of the end of a session is true, and final (ui.rs:79):
\* the last event of a worker is its verdict, and the window lets it go only when
\* it has read it or found the thread over without one.
THEOREM EndIsTold == Spec => []PanelTellsTheEnd
  <1>1. ASSUME SessionInv, ui # "killed", shown = "stopped", n > 0
        PROVE  host # "running" /\ worker \in {"sent", "over"} /\ failure = Ending(n)
    <2>1. worker \in {"sent", "over"}
      BY <1>1 DEF SessionInv, Busy
    <2>2. host # "running"
      BY <2>1, <1>1 DEF SessionInv, Connected
    <2>3. failure = Ending(n)
      <3>1. n \in Attempts /\ verdict[n] \in {"none", "ok", "failed"}
        BY <1>1 DEF SessionInv, TypeOK, WorkerTypes, Attempts
      <3>2. CASE panicked = n
        BY <1>1, <2>1, <3>2 DEF SessionInv, Told, Panicked, Ending
      <3>3. CASE panicked # n
        <4>1. Read /\ verdict[n] \in {"ok", "failed"}
          BY <1>1, <2>1, <3>1, <3>3 DEF SessionInv, Told, Unread
        <4> QED
          BY <3>3, <4>1 DEF Read, Ending
      <3> QED
        BY <3>2, <3>3
    <2> QED
      BY <2>1, <2>2, <2>3
  <1>2. SessionInv => PanelTellsTheEnd
    BY <1>1 DEF PanelTellsTheEnd
  <1> QED
    BY <1>2, SessionAlways, PTL

=============================================================================
