------------------------- MODULE FrameExchangeProofs ------------------------
(***************************************************************************)
(* Proofs about FrameExchange for any number of slots, frames and swap     *)
(* chains and both routes: the types, who holds which slot, and that a     *)
(* picture is of one frame.                                                *)
(***************************************************************************)
EXTENDS FrameExchange, TLAPS

-----------------------------------------------------------------------------
(* The strengthening *)

\* A slot in the hand of either side says so, whatever failed before.
Grasp ==
    /\ into # None => slot[into].state = "Writing"
    /\ \A i \in mine : slot[i].state = "Reading"

\* The writer has a slot from its claim to the publication.
WorkerAt ==
    /\ into # None <=> worker \in {"lock", "upper", "lower", "unlock", "publish"}
    /\ route = "gpu" => worker # "claimReady"
    /\ route = "cpu" => worker \notin {"lock", "unlock"}
    /\ worker \in {"claimReady", "lock"} => tries < SlotCount

\* The reader claims on its way up and gives back on its way up: on the CPU route
\* it holds the best so far and the one it weighs, on the GPU route all from `at'
\* on.
ReaderAt ==
    /\ route = "cpu" => reader \notin {"lock", "unlock", "give"}
    /\ route = "gpu" => reader \notin {"weigh", "free"}
    /\ reader \in {"sleep", "over"} => mine = {}
    /\ reader = "scan" => \A i \in mine : i < at
    /\ reader = "weigh" => at \in mine /\ \A i \in mine : i <= at
    /\ route = "cpu" /\ reader = "scan" => mine = {selected} \ {None}
    /\ route = "cpu" /\ reader = "weigh" =>
          selected # at /\ mine = ({selected} \ {None}) \cup {at}
    /\ route = "cpu" /\ reader \in {"upper", "lower", "free"} =>
          selected # None /\ mine = {selected}
    /\ reader \in {"lock", "unlock", "give"} => \A i \in mine : at <= i
    /\ reader \in {"unlock", "give"} => at \in mine
    /\ route = "gpu" /\ reader \in {"upper", "lower"} =>
          selected = at /\ at \in mine /\ \A i \in mine : at <= i

\* Whose the mutex of a slot is, and for whom it is next.
Held(i) ==
    IF reader \in {"upper", "lower", "unlock"} /\ i = at THEN "reader" ELSE "none"
KeyOf(i) ==
    CASE slot[i].state = "Free" -> 0
      [] slot[i].state = "Writing" -> IF worker = "publish" THEN 1 ELSE 0
      [] slot[i].state = "Reading" /\ reader = "give" /\ i = at -> 0
      [] OTHER -> 1
OwnerOf(i) ==
    CASE slot[i].state = "Writing" ->
             IF worker \in {"upper", "lower", "unlock"} THEN "writer" ELSE "none"
      [] slot[i].state = "Reading" -> Held(i)
      [] OTHER -> "none"

\* Until something fails no slot says that it is held when it is not, and the
\* mutexes agree.
Keys ==
    reader # "over" /\ ~error => \A i \in Slots :
        /\ slot[i].state = "Reading" => i \in mine
        /\ slot[i].state = "Writing" => i = into
        /\ slot[i].key = IF route = "cpu" THEN 0 ELSE KeyOf(i)
        /\ slot[i].owner = IF route = "cpu" THEN "none" ELSE OwnerOf(i)

\* What was published is one frame, and so is what is being published, as far as
\* it goes.
Whole ==
    /\ \A i \in Slots : slot[i].state \in {"Ready", "Reading"} =>
          slot[i].upper = slot[i].frame /\ slot[i].lower = slot[i].frame
    /\ worker = "lower" => slot[into].upper = hand
    /\ worker \in {"unlock", "publish"} => slot[into].upper = hand
    /\ worker \in {"unlock", "publish"} => slot[into].lower = hand
    /\ reader = "lower" => picture.upper = slot[selected].frame
    /\ PicturesAreWhole

-----------------------------------------------------------------------------
(* The steps *)

\* The slot that ClaimWriter tries.
LEMMA SlotOfRest ==
    ASSUME NEW a \in Nat
    PROVE  a % SlotCount \in Slots
  BY SlotsAssumption DEF Slots

LEMMA TargetIsSlot ==
    ASSUME TypeOK
    PROVE  Target \in Slots
  <1>1. cursor + tries \in Nat
    BY SlotsAssumption DEF TypeOK, WorkerTypes, Slots
  <1> QED
    BY <1>1, SlotOfRest DEF Target

\* The types, one part of the state at a time.
LEMMA DesktopStepTypes ==
    ASSUME TypeOK, WorkerAt, [Next]_vars
    PROVE  DesktopTypes'
  <1>1. CASE DesktopChanges
    BY <1>1
    DEF DesktopChanges, sharedVars, desktopVars, publisherVars, drainVars,
        workerVars, readerVars, TypeOK, DesktopTypes
  <1>2. CASE Draws
    <2>1. drawn' \in Nat
      BY <1>2 DEF Draws, TypeOK, CopyTypes
    <2> QED
      BY <1>2, <2>1 DEF Draws, TypeOK, DesktopTypes, sharedVars, desktopVars
  <1>3. CASE Ages
    BY <1>3
    DEF Ages, sharedVars, desktopVars, publisherVars, drainVars, workerVars,
        readerVars, TypeOK, DesktopTypes
  <1>4. CASE WorkerStarts
    <2>1. chains' \in 0 .. MaxChains
      BY <1>4, BoundsAssumption DEF WorkerStarts, TypeOK, DesktopTypes
    <2> QED
      BY <1>4, <2>1 DEF WorkerStarts, TypeOK, DesktopTypes, desktopVars
  <1>5. CASE WorkerEnds
    BY <1>5
    DEF WorkerEnds, sharedVars, desktopVars, publisherVars, drainVars, workerVars,
        readerVars, TypeOK, DesktopTypes
  <1>6. CASE DrainBegins
    BY <1>6
    DEF DrainBegins, OthersKeep, sharedVars, desktopVars, publisherVars, drainVars,
        workerVars, readerVars, TypeOK, DesktopTypes
  <1>7. CASE StillDrawing
    BY <1>7
    DEF StillDrawing, OthersKeep, sharedVars, desktopVars, publisherVars, drainVars,
        workerVars, readerVars, TypeOK, DesktopTypes
  <1>8. CASE TakesCopy
    BY <1>8
    DEF TakesCopy, OthersKeep, sharedVars, desktopVars, publisherVars, drainVars,
        workerVars, readerVars, TypeOK, DesktopTypes
  <1>9. CASE Acquires
    <2>1. frame' \in Nat
      BY <1>9 DEF Acquires, TypeOK, DesktopTypes, desktopVars
    <2> QED
      BY <1>9, <2>1
      DEF Acquires, OthersKeep, TypeOK, DesktopTypes, desktopVars, publisherVars
  <1>10. CASE WaitEnds
    BY <1>10
    DEF WaitEnds, OthersKeep, sharedVars, desktopVars, publisherVars, drainVars,
        workerVars, readerVars, TypeOK, DesktopTypes
  <1>11. CASE Submits
    BY <1>11
    DEF Submits, OthersKeep, sharedVars, desktopVars, publisherVars, drainVars,
        workerVars, readerVars, TypeOK, DesktopTypes
  <1>12. CASE ClaimsFree
    BY <1>12
    DEF ClaimsFree, OthersKeep, SetState, Target, sharedVars, desktopVars,
        publisherVars, drainVars, workerVars, readerVars, TypeOK, DesktopTypes
  <1>13. CASE ClaimsReady
    BY <1>13
    DEF ClaimsReady, OthersKeep, SetState, Target, sharedVars, desktopVars,
        publisherVars, drainVars, workerVars, readerVars, TypeOK, DesktopTypes
  <1>14. CASE Skips
    BY <1>14
    DEF Skips, OthersKeep, Afterwards, sharedVars, desktopVars, publisherVars,
        drainVars, workerVars, readerVars, TypeOK, DesktopTypes
  <1>15. CASE LocksSlot
    BY <1>15
    DEF LocksSlot, OthersKeep, SetState, sharedVars, desktopVars, publisherVars,
        drainVars, workerVars, readerVars, TypeOK, DesktopTypes
  <1>16. CASE Upper
    BY <1>16
    DEF Upper, OthersKeep, sharedVars, desktopVars, publisherVars, drainVars,
        workerVars, readerVars, TypeOK, DesktopTypes
  <1>17. CASE Lower
    BY <1>17
    DEF Lower, OthersKeep, sharedVars, desktopVars, publisherVars, drainVars,
        workerVars, readerVars, TypeOK, DesktopTypes
  <1>18. CASE UnlocksSlot
    BY <1>18
    DEF UnlocksSlot, OthersKeep, sharedVars, desktopVars, publisherVars, drainVars,
        workerVars, readerVars, TypeOK, DesktopTypes
  <1>19. CASE Publishes
    BY <1>19
    DEF Publishes, OthersKeep, Afterwards, sharedVars, desktopVars, publisherVars,
        drainVars, workerVars, readerVars, TypeOK, DesktopTypes
  <1>20. CASE Wakes
    BY <1>20
    DEF Wakes, WriterKeeps, sharedVars, desktopVars, publisherVars, drainVars,
        workerVars, readerVars, TypeOK, DesktopTypes
  <1>21. CASE Claims
    BY <1>21
    DEF Claims, WriterKeeps, SetState, sharedVars, desktopVars, publisherVars,
        drainVars, workerVars, readerVars, TypeOK, DesktopTypes
  <1>22. CASE Chooses
    BY <1>22
    DEF Chooses, WriterKeeps, sharedVars, desktopVars, publisherVars, drainVars,
        workerVars, readerVars, TypeOK, DesktopTypes
  <1>23. CASE ScanEnds
    BY <1>23
    DEF ScanEnds, WriterKeeps, ToLock, sharedVars, desktopVars, publisherVars,
        drainVars, workerVars, readerVars, TypeOK, DesktopTypes
  <1>24. CASE CopiesUpper
    BY <1>24
    DEF CopiesUpper, WriterKeeps, sharedVars, desktopVars, publisherVars, drainVars,
        workerVars, readerVars, TypeOK, DesktopTypes
  <1>25. CASE CopiesLower
    BY <1>25
    DEF CopiesLower, WriterKeeps, sharedVars, desktopVars, publisherVars, drainVars,
        workerVars, readerVars, TypeOK, DesktopTypes
  <1>26. CASE FreesSlot
    BY <1>26
    DEF FreesSlot, WriterKeeps, SetState, sharedVars, desktopVars, publisherVars,
        drainVars, workerVars, readerVars, TypeOK, DesktopTypes
  <1>27. CASE UnlocksFrame
    BY <1>27
    DEF UnlocksFrame, WriterKeeps, sharedVars, desktopVars, publisherVars,
        drainVars, workerVars, readerVars, TypeOK, DesktopTypes
  <1>28. CASE Weighs
    BY <1>28
    DEF Weighs, WriterKeeps, SetState, sharedVars, desktopVars, publisherVars,
        drainVars, workerVars, readerVars, TypeOK, DesktopTypes
  <1>29. ASSUME NEW i \in mine, LocksFrame(i)
        PROVE  DesktopTypes'
    BY <1>29
    DEF LocksFrame, WriterKeeps, SetState, NextToLock, ToLock, sharedVars,
        desktopVars, publisherVars, drainVars, workerVars, readerVars, TypeOK,
        DesktopTypes
  <1>30. CASE ReaderEnds
    BY <1>30
    DEF ReaderEnds, WriterKeeps, sharedVars, desktopVars, publisherVars, drainVars,
        workerVars, readerVars, TypeOK, DesktopTypes
  <1>31. CASE MapFails
    BY <1>31
    DEF MapFails, OthersKeep, sharedVars, desktopVars, publisherVars, drainVars,
        workerVars, readerVars, TypeOK, DesktopTypes
  <1>32. CASE SubmitFails
    BY <1>32
    DEF SubmitFails, OthersKeep, sharedVars, desktopVars, publisherVars, drainVars,
        workerVars, readerVars, TypeOK, DesktopTypes
  <1>33. CASE LockFails
    BY <1>33
    DEF LockFails, OthersKeep, SetState, sharedVars, desktopVars, publisherVars,
        drainVars, workerVars, readerVars, TypeOK, DesktopTypes
  <1>34. CASE UnlockFails
    BY <1>34
    DEF UnlockFails, OthersKeep, sharedVars, desktopVars, publisherVars, drainVars,
        workerVars, readerVars, TypeOK, DesktopTypes
  <1>35. ASSUME NEW i \in mine, ReaderLockFails(i)
        PROVE  DesktopTypes'
    BY <1>35
    DEF ReaderLockFails, WriterKeeps, SetState, NextToLock, ToLock, sharedVars,
        desktopVars, publisherVars, drainVars, workerVars, readerVars, TypeOK,
        DesktopTypes
  <1>36. CASE UNCHANGED vars
    BY <1>36
    DEF vars, sharedVars, desktopVars, publisherVars, drainVars, workerVars,
        readerVars, TypeOK, DesktopTypes
  <1>37. CASE GivesBack
    BY <1>37
    DEF GivesBack, WriterKeeps, SetState, sharedVars, desktopVars, publisherVars,
        drainVars, workerVars, readerVars, TypeOK, DesktopTypes
  <1>38. CASE UnlockFrameFails
    BY <1>38
    DEF UnlockFrameFails, WriterKeeps, SetState, sharedVars, desktopVars,
        publisherVars, drainVars, workerVars, readerVars, TypeOK, DesktopTypes
  <1> QED
    BY <1>1, <1>2, <1>3, <1>4, <1>5, <1>6, <1>7, <1>8, <1>9, <1>10, <1>11, <1>12,
        <1>13, <1>14, <1>15, <1>16, <1>17, <1>18, <1>19, <1>20, <1>21, <1>22, <1>23,
        <1>24, <1>25, <1>26, <1>27, <1>28, <1>29, <1>30, <1>31, <1>32, <1>33, <1>34,
        <1>35, <1>36, <1>37, <1>38
    DEF Next, WorkerStep, ReaderStep, Mishap

\* The thread of the driver.
LEMMA WorkerStepTypes ==
    ASSUME TypeOK, WorkerAt, [Next]_vars
    PROVE  WorkerTypes'
  <1>1. CASE DesktopChanges
    BY <1>1
    DEF DesktopChanges, sharedVars, desktopVars, publisherVars, drainVars,
        workerVars, readerVars, TypeOK, WorkerTypes
  <1>2. CASE Draws
    BY <1>2
    DEF Draws, sharedVars, desktopVars, publisherVars, drainVars, workerVars,
        readerVars, TypeOK, WorkerTypes
  <1>3. CASE Ages
    BY <1>3
    DEF Ages, sharedVars, desktopVars, publisherVars, drainVars, workerVars,
        readerVars, TypeOK, WorkerTypes
  <1>4. CASE WorkerStarts
    <2>1. 0 \in Slots
      BY SlotsAssumption DEF Slots
    <2> QED
      BY <1>4, <2>1 DEF WorkerStarts, TypeOK, WorkerTypes, drainVars
  <1>5. CASE WorkerEnds
    BY <1>5
    DEF WorkerEnds, sharedVars, desktopVars, publisherVars, drainVars, workerVars,
        readerVars, TypeOK, WorkerTypes
  <1>6. CASE DrainBegins
    BY <1>6
    DEF DrainBegins, OthersKeep, sharedVars, desktopVars, publisherVars, drainVars,
        workerVars, readerVars, TypeOK, WorkerTypes
  <1>7. CASE StillDrawing
    BY <1>7
    DEF StillDrawing, OthersKeep, sharedVars, desktopVars, publisherVars, drainVars,
        workerVars, readerVars, TypeOK, WorkerTypes
  <1>8. CASE TakesCopy
    <2>1. hand' \in Nat /\ 0 \in 0 .. SlotCount
      BY <1>8, SlotsAssumption DEF TakesCopy, TypeOK, CopyTypes
    <2> QED
      BY <1>8, <2>1 DEF TakesCopy, TypeOK, WorkerTypes
  <1>9. CASE Acquires
    BY <1>9
    DEF Acquires, OthersKeep, sharedVars, desktopVars, publisherVars, drainVars,
        workerVars, readerVars, TypeOK, WorkerTypes
  <1>10. CASE WaitEnds
    BY <1>10
    DEF WaitEnds, OthersKeep, sharedVars, desktopVars, publisherVars, drainVars,
        workerVars, readerVars, TypeOK, WorkerTypes
  <1>11. CASE Submits
    <2>1. frame \in Nat /\ 0 \in 0 .. SlotCount
      BY SlotsAssumption DEF TypeOK, DesktopTypes
    <2> QED
      BY <1>11, <2>1 DEF Submits, TypeOK, WorkerTypes
  <1>12. CASE ClaimsFree
    <2>1. into' \in Slots \cup {None}
      BY <1>12, TargetIsSlot DEF ClaimsFree, TypeOK, WorkerTypes
    <2>2. tries' \in 0 .. SlotCount
      BY <1>12, SlotsAssumption DEF ClaimsFree, TypeOK, WorkerTypes, WorkerAt
    <2> QED
      BY <1>12, <2>1, <2>2 DEF ClaimsFree, TypeOK, WorkerTypes, publisherVars
  <1>13. CASE ClaimsReady
    <2>1. into' \in Slots \cup {None}
      BY <1>13, TargetIsSlot DEF ClaimsReady, TypeOK, WorkerTypes
    <2>2. tries' \in 0 .. SlotCount
      BY <1>13, SlotsAssumption DEF ClaimsReady, TypeOK, WorkerTypes, WorkerAt
    <2> QED
      BY <1>13, <2>1, <2>2 DEF ClaimsReady, TypeOK, WorkerTypes, publisherVars
  <1>14. CASE Skips
    <2>1. cursor' \in Slots
      <3>1. cursor + 1 \in Nat /\ (into \in Slots => into + 1 \in Nat)
        BY SlotsAssumption DEF TypeOK, WorkerTypes, Slots
      <3> QED
        BY <1>14, <3>1, SlotOfRest DEF Skips, TypeOK, WorkerTypes
    <2> QED
      BY <1>14, <2>1 DEF Skips, TypeOK, WorkerTypes, Afterwards, publisherVars
  <1>15. CASE LocksSlot
    <2>1. into' \in Slots \cup {None}
      BY <1>15, TargetIsSlot DEF LocksSlot, TypeOK, WorkerTypes
    <2>2. tries' \in 0 .. SlotCount
      BY <1>15, SlotsAssumption DEF LocksSlot, TypeOK, WorkerTypes, WorkerAt
    <2> QED
      BY <1>15, <2>1, <2>2 DEF LocksSlot, TypeOK, WorkerTypes, publisherVars
  <1>16. CASE Upper
    BY <1>16
    DEF Upper, OthersKeep, sharedVars, desktopVars, publisherVars, drainVars,
        workerVars, readerVars, TypeOK, WorkerTypes
  <1>17. CASE Lower
    BY <1>17
    DEF Lower, OthersKeep, sharedVars, desktopVars, publisherVars, drainVars,
        workerVars, readerVars, TypeOK, WorkerTypes
  <1>18. CASE UnlocksSlot
    BY <1>18
    DEF UnlocksSlot, OthersKeep, sharedVars, desktopVars, publisherVars, drainVars,
        workerVars, readerVars, TypeOK, WorkerTypes
  <1>19. CASE Publishes
    <2>1. cursor' \in Slots
      <3>1. cursor + 1 \in Nat /\ (into \in Slots => into + 1 \in Nat)
        BY SlotsAssumption DEF TypeOK, WorkerTypes, Slots
      <3> QED
        BY <1>19, <3>1, SlotOfRest DEF Publishes, TypeOK, WorkerTypes, WorkerAt
    <2>2. sequence' \in Nat
      BY <1>19 DEF Publishes, TypeOK, WorkerTypes
    <2> QED
      BY <1>19, <2>1, <2>2 DEF Publishes, TypeOK, WorkerTypes, Afterwards, publisherVars
  <1>20. CASE Wakes
    BY <1>20
    DEF Wakes, WriterKeeps, sharedVars, desktopVars, publisherVars, drainVars,
        workerVars, readerVars, TypeOK, WorkerTypes
  <1>21. CASE Claims
    BY <1>21
    DEF Claims, WriterKeeps, SetState, sharedVars, desktopVars, publisherVars,
        drainVars, workerVars, readerVars, TypeOK, WorkerTypes
  <1>22. CASE Chooses
    BY <1>22
    DEF Chooses, WriterKeeps, sharedVars, desktopVars, publisherVars, drainVars,
        workerVars, readerVars, TypeOK, WorkerTypes
  <1>23. CASE ScanEnds
    BY <1>23
    DEF ScanEnds, WriterKeeps, ToLock, sharedVars, desktopVars, publisherVars,
        drainVars, workerVars, readerVars, TypeOK, WorkerTypes
  <1>24. CASE CopiesUpper
    BY <1>24
    DEF CopiesUpper, WriterKeeps, sharedVars, desktopVars, publisherVars, drainVars,
        workerVars, readerVars, TypeOK, WorkerTypes
  <1>25. CASE CopiesLower
    BY <1>25
    DEF CopiesLower, WriterKeeps, sharedVars, desktopVars, publisherVars, drainVars,
        workerVars, readerVars, TypeOK, WorkerTypes
  <1>26. CASE FreesSlot
    BY <1>26
    DEF FreesSlot, WriterKeeps, SetState, sharedVars, desktopVars, publisherVars,
        drainVars, workerVars, readerVars, TypeOK, WorkerTypes
  <1>27. CASE UnlocksFrame
    BY <1>27
    DEF UnlocksFrame, WriterKeeps, sharedVars, desktopVars, publisherVars,
        drainVars, workerVars, readerVars, TypeOK, WorkerTypes
  <1>28. CASE Weighs
    BY <1>28
    DEF Weighs, WriterKeeps, SetState, sharedVars, desktopVars, publisherVars,
        drainVars, workerVars, readerVars, TypeOK, WorkerTypes
  <1>29. ASSUME NEW i \in mine, LocksFrame(i)
        PROVE  WorkerTypes'
    BY <1>29
    DEF LocksFrame, WriterKeeps, SetState, NextToLock, ToLock, sharedVars,
        desktopVars, publisherVars, drainVars, workerVars, readerVars, TypeOK,
        WorkerTypes
  <1>30. CASE ReaderEnds
    BY <1>30
    DEF ReaderEnds, WriterKeeps, sharedVars, desktopVars, publisherVars, drainVars,
        workerVars, readerVars, TypeOK, WorkerTypes
  <1>31. CASE MapFails
    BY <1>31
    DEF MapFails, OthersKeep, sharedVars, desktopVars, publisherVars, drainVars,
        workerVars, readerVars, TypeOK, WorkerTypes
  <1>32. CASE SubmitFails
    BY <1>32
    DEF SubmitFails, OthersKeep, sharedVars, desktopVars, publisherVars, drainVars,
        workerVars, readerVars, TypeOK, WorkerTypes
  <1>33. CASE LockFails
    BY <1>33
    DEF LockFails, OthersKeep, SetState, sharedVars, desktopVars, publisherVars,
        drainVars, workerVars, readerVars, TypeOK, WorkerTypes
  <1>34. CASE UnlockFails
    BY <1>34
    DEF UnlockFails, OthersKeep, sharedVars, desktopVars, publisherVars, drainVars,
        workerVars, readerVars, TypeOK, WorkerTypes
  <1>35. ASSUME NEW i \in mine, ReaderLockFails(i)
        PROVE  WorkerTypes'
    BY <1>35
    DEF ReaderLockFails, WriterKeeps, SetState, NextToLock, ToLock, sharedVars,
        desktopVars, publisherVars, drainVars, workerVars, readerVars, TypeOK,
        WorkerTypes
  <1>36. CASE UNCHANGED vars
    BY <1>36
    DEF vars, sharedVars, desktopVars, publisherVars, drainVars, workerVars,
        readerVars, TypeOK, WorkerTypes
  <1>37. CASE GivesBack
    BY <1>37
    DEF GivesBack, WriterKeeps, SetState, sharedVars, desktopVars, publisherVars,
        drainVars, workerVars, readerVars, TypeOK, WorkerTypes
  <1>38. CASE UnlockFrameFails
    BY <1>38
    DEF UnlockFrameFails, WriterKeeps, SetState, sharedVars, desktopVars,
        publisherVars, drainVars, workerVars, readerVars, TypeOK, WorkerTypes
  <1> QED
    BY <1>1, <1>2, <1>3, <1>4, <1>5, <1>6, <1>7, <1>8, <1>9, <1>10, <1>11, <1>12,
        <1>13, <1>14, <1>15, <1>16, <1>17, <1>18, <1>19, <1>20, <1>21, <1>22, <1>23,
        <1>24, <1>25, <1>26, <1>27, <1>28, <1>29, <1>30, <1>31, <1>32, <1>33, <1>34,
        <1>35, <1>36, <1>37, <1>38
    DEF Next, WorkerStep, ReaderStep, Mishap

LEMMA CopyLeaves ==
    ASSUME NEW s \in Seq(Nat), Len(s) <= 2, NEW f
    PROVE  Without(s, f) \in Seq(Nat) /\ Len(Without(s, f)) <= 2
  <1>1. SubSeq(s, 2, Len(s)) \in Seq(Nat) /\ Len(SubSeq(s, 2, Len(s))) <= 2
    OBVIOUS
  <1>2. SubSeq(s, 1, Len(s) - 1) \in Seq(Nat) /\ Len(SubSeq(s, 1, Len(s) - 1)) <= 2
    OBVIOUS
  <1> QED
    BY <1>1, <1>2 DEF Without

\* The copies that were queued.
LEMMA CopyStepTypes ==
    ASSUME TypeOK, WorkerAt, [Next]_vars
    PROVE  CopyTypes'
  <1>1. CASE DesktopChanges
    BY <1>1
    DEF DesktopChanges, sharedVars, desktopVars, publisherVars, drainVars,
        workerVars, readerVars, TypeOK, CopyTypes, DesktopTypes
  <1>2. CASE Draws
    BY <1>2
    DEF Draws, sharedVars, desktopVars, publisherVars, drainVars, workerVars,
        readerVars, TypeOK, CopyTypes, DesktopTypes
  <1>3. CASE Ages
    BY <1>3
    DEF Ages, sharedVars, desktopVars, publisherVars, drainVars, workerVars,
        readerVars, TypeOK, CopyTypes, DesktopTypes
  <1>4. CASE WorkerStarts
    BY <1>4
    DEF WorkerStarts, sharedVars, desktopVars, publisherVars, drainVars, workerVars,
        readerVars, TypeOK, CopyTypes, DesktopTypes
  <1>5. CASE WorkerEnds
    BY <1>5
    DEF WorkerEnds, sharedVars, desktopVars, publisherVars, drainVars, workerVars,
        readerVars, TypeOK, CopyTypes, DesktopTypes
  <1>6. CASE DrainBegins
    BY <1>6
    DEF DrainBegins, OthersKeep, sharedVars, desktopVars, publisherVars, drainVars,
        workerVars, readerVars, TypeOK, CopyTypes, DesktopTypes
  <1>7. CASE StillDrawing
    BY <1>7
    DEF StillDrawing, OthersKeep, sharedVars, desktopVars, publisherVars, drainVars,
        workerVars, readerVars, TypeOK, CopyTypes, DesktopTypes
  <1>8. CASE TakesCopy
    <2>1. pending' \in Seq(Nat) /\ Len(pending') <= 2
      BY <1>8, CopyLeaves DEF TakesCopy, TypeOK, CopyTypes
    <2>2. left' \in Seq(Nat)
      BY <1>8 DEF TakesCopy, TypeOK, CopyTypes
    <2> QED
      BY <2>1, <2>2 DEF CopyTypes
  <1>9. CASE Acquires
    BY <1>9
    DEF Acquires, OthersKeep, sharedVars, desktopVars, publisherVars, drainVars,
        workerVars, readerVars, TypeOK, CopyTypes, DesktopTypes
  <1>10. CASE WaitEnds
    BY <1>10
    DEF WaitEnds, OthersKeep, sharedVars, desktopVars, publisherVars, drainVars,
        workerVars, readerVars, TypeOK, CopyTypes, DesktopTypes
  <1>11. CASE Submits
    BY <1>11
    DEF Submits, OthersKeep, sharedVars, desktopVars, publisherVars, drainVars,
        workerVars, readerVars, TypeOK, CopyTypes, DesktopTypes
  <1>12. CASE ClaimsFree
    BY <1>12
    DEF ClaimsFree, OthersKeep, SetState, Target, sharedVars, desktopVars,
        publisherVars, drainVars, workerVars, readerVars, TypeOK, CopyTypes,
        DesktopTypes
  <1>13. CASE ClaimsReady
    BY <1>13
    DEF ClaimsReady, OthersKeep, SetState, Target, sharedVars, desktopVars,
        publisherVars, drainVars, workerVars, readerVars, TypeOK, CopyTypes,
        DesktopTypes
  <1>14. CASE Skips
    BY <1>14
    DEF Skips, OthersKeep, Afterwards, sharedVars, desktopVars, publisherVars,
        drainVars, workerVars, readerVars, TypeOK, CopyTypes, DesktopTypes
  <1>15. CASE LocksSlot
    BY <1>15
    DEF LocksSlot, OthersKeep, SetState, sharedVars, desktopVars, publisherVars,
        drainVars, workerVars, readerVars, TypeOK, CopyTypes, DesktopTypes
  <1>16. CASE Upper
    BY <1>16
    DEF Upper, OthersKeep, sharedVars, desktopVars, publisherVars, drainVars,
        workerVars, readerVars, TypeOK, CopyTypes, DesktopTypes
  <1>17. CASE Lower
    BY <1>17
    DEF Lower, OthersKeep, sharedVars, desktopVars, publisherVars, drainVars,
        workerVars, readerVars, TypeOK, CopyTypes, DesktopTypes
  <1>18. CASE UnlocksSlot
    BY <1>18
    DEF UnlocksSlot, OthersKeep, sharedVars, desktopVars, publisherVars, drainVars,
        workerVars, readerVars, TypeOK, CopyTypes, DesktopTypes
  <1>19. CASE Publishes
    BY <1>19
    DEF Publishes, OthersKeep, Afterwards, sharedVars, desktopVars, publisherVars,
        drainVars, workerVars, readerVars, TypeOK, CopyTypes, DesktopTypes
  <1>20. CASE Wakes
    BY <1>20
    DEF Wakes, WriterKeeps, sharedVars, desktopVars, publisherVars, drainVars,
        workerVars, readerVars, TypeOK, CopyTypes, DesktopTypes
  <1>21. CASE Claims
    BY <1>21
    DEF Claims, WriterKeeps, SetState, sharedVars, desktopVars, publisherVars,
        drainVars, workerVars, readerVars, TypeOK, CopyTypes, DesktopTypes
  <1>22. CASE Chooses
    BY <1>22
    DEF Chooses, WriterKeeps, sharedVars, desktopVars, publisherVars, drainVars,
        workerVars, readerVars, TypeOK, CopyTypes, DesktopTypes
  <1>23. CASE ScanEnds
    BY <1>23
    DEF ScanEnds, WriterKeeps, ToLock, sharedVars, desktopVars, publisherVars,
        drainVars, workerVars, readerVars, TypeOK, CopyTypes, DesktopTypes
  <1>24. CASE CopiesUpper
    BY <1>24
    DEF CopiesUpper, WriterKeeps, sharedVars, desktopVars, publisherVars, drainVars,
        workerVars, readerVars, TypeOK, CopyTypes, DesktopTypes
  <1>25. CASE CopiesLower
    BY <1>25
    DEF CopiesLower, WriterKeeps, sharedVars, desktopVars, publisherVars, drainVars,
        workerVars, readerVars, TypeOK, CopyTypes, DesktopTypes
  <1>26. CASE FreesSlot
    BY <1>26
    DEF FreesSlot, WriterKeeps, SetState, sharedVars, desktopVars, publisherVars,
        drainVars, workerVars, readerVars, TypeOK, CopyTypes, DesktopTypes
  <1>27. CASE UnlocksFrame
    BY <1>27
    DEF UnlocksFrame, WriterKeeps, sharedVars, desktopVars, publisherVars,
        drainVars, workerVars, readerVars, TypeOK, CopyTypes, DesktopTypes
  <1>28. CASE Weighs
    BY <1>28
    DEF Weighs, WriterKeeps, SetState, sharedVars, desktopVars, publisherVars,
        drainVars, workerVars, readerVars, TypeOK, CopyTypes, DesktopTypes
  <1>29. ASSUME NEW i \in mine, LocksFrame(i)
        PROVE  CopyTypes'
    BY <1>29
    DEF LocksFrame, WriterKeeps, SetState, NextToLock, ToLock, sharedVars,
        desktopVars, publisherVars, drainVars, workerVars, readerVars, TypeOK,
        CopyTypes, DesktopTypes
  <1>30. CASE ReaderEnds
    BY <1>30
    DEF ReaderEnds, WriterKeeps, sharedVars, desktopVars, publisherVars, drainVars,
        workerVars, readerVars, TypeOK, CopyTypes, DesktopTypes
  <1>31. CASE MapFails
    <2>1. pending' \in Seq(Nat) /\ Len(pending') <= 2
      BY <1>31, CopyLeaves DEF MapFails, TypeOK, CopyTypes
    <2>2. left' \in Seq(Nat)
      BY <1>31 DEF MapFails, TypeOK, CopyTypes
    <2> QED
      BY <2>1, <2>2 DEF CopyTypes
  <1>32. CASE SubmitFails
    BY <1>32
    DEF SubmitFails, OthersKeep, sharedVars, desktopVars, publisherVars, drainVars,
        workerVars, readerVars, TypeOK, CopyTypes, DesktopTypes
  <1>33. CASE LockFails
    BY <1>33
    DEF LockFails, OthersKeep, SetState, sharedVars, desktopVars, publisherVars,
        drainVars, workerVars, readerVars, TypeOK, CopyTypes, DesktopTypes
  <1>34. CASE UnlockFails
    BY <1>34
    DEF UnlockFails, OthersKeep, sharedVars, desktopVars, publisherVars, drainVars,
        workerVars, readerVars, TypeOK, CopyTypes, DesktopTypes
  <1>35. ASSUME NEW i \in mine, ReaderLockFails(i)
        PROVE  CopyTypes'
    BY <1>35
    DEF ReaderLockFails, WriterKeeps, SetState, NextToLock, ToLock, sharedVars,
        desktopVars, publisherVars, drainVars, workerVars, readerVars, TypeOK,
        CopyTypes, DesktopTypes
  <1>36. CASE UNCHANGED vars
    BY <1>36
    DEF vars, sharedVars, desktopVars, publisherVars, drainVars, workerVars,
        readerVars, TypeOK, CopyTypes, DesktopTypes
  <1>37. CASE GivesBack
    BY <1>37
    DEF GivesBack, WriterKeeps, SetState, sharedVars, desktopVars, publisherVars,
        drainVars, workerVars, readerVars, TypeOK, CopyTypes, DesktopTypes
  <1>38. CASE UnlockFrameFails
    BY <1>38
    DEF UnlockFrameFails, WriterKeeps, SetState, sharedVars, desktopVars,
        publisherVars, drainVars, workerVars, readerVars, TypeOK, CopyTypes,
        DesktopTypes
  <1> QED
    BY <1>1, <1>2, <1>3, <1>4, <1>5, <1>6, <1>7, <1>8, <1>9, <1>10, <1>11, <1>12,
        <1>13, <1>14, <1>15, <1>16, <1>17, <1>18, <1>19, <1>20, <1>21, <1>22, <1>23,
        <1>24, <1>25, <1>26, <1>27, <1>28, <1>29, <1>30, <1>31, <1>32, <1>33, <1>34,
        <1>35, <1>36, <1>37, <1>38
    DEF Next, WorkerStep, ReaderStep, Mishap

\* The reader.
LEMMA ReaderStepTypes ==
    ASSUME TypeOK, WorkerAt, ReaderAt, [Next]_vars
    PROVE  ReaderTypes'
  <1>1. CASE DesktopChanges
    BY <1>1
    DEF DesktopChanges, sharedVars, desktopVars, publisherVars, drainVars,
        workerVars, readerVars, TypeOK, ReaderTypes
  <1>2. CASE Draws
    BY <1>2
    DEF Draws, sharedVars, desktopVars, publisherVars, drainVars, workerVars,
        readerVars, TypeOK, ReaderTypes
  <1>3. CASE Ages
    BY <1>3
    DEF Ages, sharedVars, desktopVars, publisherVars, drainVars, workerVars,
        readerVars, TypeOK, ReaderTypes
  <1>4. CASE WorkerStarts
    BY <1>4
    DEF WorkerStarts, sharedVars, desktopVars, publisherVars, drainVars, workerVars,
        readerVars, TypeOK, ReaderTypes
  <1>5. CASE WorkerEnds
    BY <1>5
    DEF WorkerEnds, sharedVars, desktopVars, publisherVars, drainVars, workerVars,
        readerVars, TypeOK, ReaderTypes
  <1>6. CASE DrainBegins
    BY <1>6
    DEF DrainBegins, OthersKeep, sharedVars, desktopVars, publisherVars, drainVars,
        workerVars, readerVars, TypeOK, ReaderTypes
  <1>7. CASE StillDrawing
    BY <1>7
    DEF StillDrawing, OthersKeep, sharedVars, desktopVars, publisherVars, drainVars,
        workerVars, readerVars, TypeOK, ReaderTypes
  <1>8. CASE TakesCopy
    BY <1>8
    DEF TakesCopy, OthersKeep, sharedVars, desktopVars, publisherVars, drainVars,
        workerVars, readerVars, TypeOK, ReaderTypes
  <1>9. CASE Acquires
    BY <1>9
    DEF Acquires, OthersKeep, sharedVars, desktopVars, publisherVars, drainVars,
        workerVars, readerVars, TypeOK, ReaderTypes
  <1>10. CASE WaitEnds
    BY <1>10
    DEF WaitEnds, OthersKeep, sharedVars, desktopVars, publisherVars, drainVars,
        workerVars, readerVars, TypeOK, ReaderTypes
  <1>11. CASE Submits
    BY <1>11
    DEF Submits, OthersKeep, sharedVars, desktopVars, publisherVars, drainVars,
        workerVars, readerVars, TypeOK, ReaderTypes
  <1>12. CASE ClaimsFree
    BY <1>12
    DEF ClaimsFree, OthersKeep, SetState, Target, sharedVars, desktopVars,
        publisherVars, drainVars, workerVars, readerVars, TypeOK, ReaderTypes
  <1>13. CASE ClaimsReady
    BY <1>13
    DEF ClaimsReady, OthersKeep, SetState, Target, sharedVars, desktopVars,
        publisherVars, drainVars, workerVars, readerVars, TypeOK, ReaderTypes
  <1>14. CASE Skips
    BY <1>14
    DEF Skips, OthersKeep, Afterwards, sharedVars, desktopVars, publisherVars,
        drainVars, workerVars, readerVars, TypeOK, ReaderTypes
  <1>15. CASE LocksSlot
    BY <1>15
    DEF LocksSlot, OthersKeep, SetState, sharedVars, desktopVars, publisherVars,
        drainVars, workerVars, readerVars, TypeOK, ReaderTypes
  <1>16. CASE Upper
    BY <1>16
    DEF Upper, OthersKeep, sharedVars, desktopVars, publisherVars, drainVars,
        workerVars, readerVars, TypeOK, ReaderTypes
  <1>17. CASE Lower
    <2>1. since' \subseteq Slots
      BY <1>17 DEF Lower, TypeOK, WorkerTypes, ReaderTypes, WorkerAt
    <2> QED
      BY <1>17, <2>1 DEF Lower, OthersKeep, TypeOK, ReaderTypes, readerVars
  <1>18. CASE UnlocksSlot
    BY <1>18
    DEF UnlocksSlot, OthersKeep, sharedVars, desktopVars, publisherVars, drainVars,
        workerVars, readerVars, TypeOK, ReaderTypes
  <1>19. CASE Publishes
    BY <1>19 DEF Publishes, OthersKeep, TypeOK, ReaderTypes, readerVars
  <1>20. CASE Wakes
    <2>1. 0 \in 0 .. SlotCount
      BY SlotsAssumption
    <2> QED
      BY <1>20, <2>1 DEF Wakes, TypeOK, ReaderTypes
  <1>21. CASE Claims
    <2>1. at \in Slots /\ at + 1 \in 0 .. SlotCount
      BY <1>21, SlotsAssumption DEF Claims, TypeOK, ReaderTypes, Slots
    <2> QED
      BY <1>21, <2>1 DEF Claims, TypeOK, ReaderTypes
  <1>22. CASE Chooses
    <2>1. at' \in 0 .. SlotCount
      BY <1>22, SlotsAssumption DEF Chooses, TypeOK, ReaderTypes, ReaderAt, Slots
    <2>2. mine' \subseteq Slots /\ selected' \in Slots \cup {None}
      BY <1>22 DEF Chooses, TypeOK, ReaderTypes, ReaderAt, Slots
    <2> QED
      BY <1>22, <2>1, <2>2 DEF Chooses, TypeOK, ReaderTypes
  <1>23. CASE ScanEnds
    <2>1. 0 \in 0 .. SlotCount
      BY SlotsAssumption
    <2> QED
      BY <1>23, <2>1 DEF ScanEnds, TypeOK, ReaderTypes
  <1>24. CASE CopiesUpper
    <2>1. selected \in Slots
      BY <1>24 DEF CopiesUpper, TypeOK, ReaderTypes, ReaderAt, DesktopTypes
    <2>2. slot[selected] \in SlotType
      BY <2>1 DEF TypeOK, SlotTypes
    <2>3. picture' \in [frame : Nat, upper : Nat, lower : Nat]
      BY <1>24, <2>2 DEF CopiesUpper, TypeOK, ReaderTypes, SlotType
    <2> QED
      BY <1>24, <2>3 DEF CopiesUpper, TypeOK, ReaderTypes
  <1>25. CASE CopiesLower
    <2>1. selected \in Slots
      BY <1>25 DEF CopiesLower, TypeOK, ReaderTypes, ReaderAt, DesktopTypes
    <2>2. slot[selected] \in SlotType
      BY <2>1 DEF TypeOK, SlotTypes
    <2>3. picture' \in [frame : Nat, upper : Nat, lower : Nat] /\ previous' \in Nat
      BY <1>25, <2>2 DEF CopiesLower, TypeOK, ReaderTypes, SlotType
    <2> QED
      BY <1>25, <2>3 DEF CopiesLower, TypeOK, ReaderTypes
  <1>26. CASE FreesSlot
    BY <1>26
    DEF FreesSlot, WriterKeeps, SetState, sharedVars, desktopVars, publisherVars,
        drainVars, workerVars, readerVars, TypeOK, ReaderTypes
  <1>27. CASE UnlocksFrame
    BY <1>27 DEF UnlocksFrame, TypeOK, ReaderTypes
  <1>28. CASE Weighs
    <2>1. at' \in 0 .. SlotCount
      BY <1>28, SlotsAssumption DEF Weighs, TypeOK, ReaderTypes, ReaderAt, Slots
    <2>2. mine' \subseteq Slots /\ selected' \in Slots \cup {None}
      BY <1>28 DEF Weighs, TypeOK, ReaderTypes, ReaderAt, Slots
    <2> QED
      BY <1>28, <2>1, <2>2 DEF Weighs, TypeOK, ReaderTypes
  <1>29. ASSUME NEW i \in mine, LocksFrame(i)
        PROVE  ReaderTypes'
    <2>1. at' \in 0 .. SlotCount
      BY <1>29, SlotsAssumption DEF LocksFrame, TypeOK, ReaderTypes, ReaderAt, Slots, NextToLock, ToLock
    <2>2. mine' \subseteq Slots /\ selected' \in Slots \cup {None}
      BY <1>29 DEF LocksFrame, TypeOK, ReaderTypes, ReaderAt, Slots, NextToLock, ToLock
    <2> QED
      BY <1>29, <2>1, <2>2 DEF LocksFrame, TypeOK, ReaderTypes
  <1>30. CASE ReaderEnds
    BY <1>30
    DEF ReaderEnds, WriterKeeps, sharedVars, desktopVars, publisherVars, drainVars,
        workerVars, readerVars, TypeOK, ReaderTypes
  <1>31. CASE MapFails
    BY <1>31
    DEF MapFails, OthersKeep, sharedVars, desktopVars, publisherVars, drainVars,
        workerVars, readerVars, TypeOK, ReaderTypes
  <1>32. CASE SubmitFails
    BY <1>32
    DEF SubmitFails, OthersKeep, sharedVars, desktopVars, publisherVars, drainVars,
        workerVars, readerVars, TypeOK, ReaderTypes
  <1>33. CASE LockFails
    BY <1>33
    DEF LockFails, OthersKeep, SetState, sharedVars, desktopVars, publisherVars,
        drainVars, workerVars, readerVars, TypeOK, ReaderTypes
  <1>34. CASE UnlockFails
    BY <1>34
    DEF UnlockFails, OthersKeep, sharedVars, desktopVars, publisherVars, drainVars,
        workerVars, readerVars, TypeOK, ReaderTypes
  <1>35. ASSUME NEW i \in mine, ReaderLockFails(i)
        PROVE  ReaderTypes'
    BY <1>35
    DEF ReaderLockFails, WriterKeeps, SetState, NextToLock, ToLock, sharedVars,
        desktopVars, publisherVars, drainVars, workerVars, readerVars, TypeOK,
        ReaderTypes
  <1>36. CASE UNCHANGED vars
    BY <1>36
    DEF vars, sharedVars, desktopVars, publisherVars, drainVars, workerVars,
        readerVars, TypeOK, ReaderTypes
  <1>37. CASE GivesBack
    <2>1. at' \in 0 .. SlotCount
      BY <1>37, SlotsAssumption DEF GivesBack, TypeOK, ReaderTypes, ReaderAt, Slots
    <2>2. mine' \subseteq Slots
      BY <1>37 DEF GivesBack, TypeOK, ReaderTypes
    <2> QED
      BY <1>37, <2>1, <2>2 DEF GivesBack, TypeOK, ReaderTypes
  <1>38. CASE UnlockFrameFails
    BY <1>38
    DEF UnlockFrameFails, WriterKeeps, SetState, sharedVars, desktopVars,
        publisherVars, drainVars, workerVars, readerVars, TypeOK, ReaderTypes
  <1> QED
    BY <1>1, <1>2, <1>3, <1>4, <1>5, <1>6, <1>7, <1>8, <1>9, <1>10, <1>11, <1>12,
        <1>13, <1>14, <1>15, <1>16, <1>17, <1>18, <1>19, <1>20, <1>21, <1>22, <1>23,
        <1>24, <1>25, <1>26, <1>27, <1>28, <1>29, <1>30, <1>31, <1>32, <1>33, <1>34,
        <1>35, <1>36, <1>37, <1>38
    DEF Next, WorkerStep, ReaderStep, Mishap

\* The slots.
LEMMA SlotStepTypes ==
    ASSUME TypeOK, [Next]_vars
    PROVE  SlotTypes'
  <1>1. CASE DesktopChanges
    BY <1>1
    DEF DesktopChanges, sharedVars, desktopVars, publisherVars, drainVars,
        workerVars, readerVars, TypeOK, SlotTypes, SlotType
  <1>2. CASE Draws
    BY <1>2
    DEF Draws, sharedVars, desktopVars, publisherVars, drainVars, workerVars,
        readerVars, TypeOK, SlotTypes, SlotType
  <1>3. CASE Ages
    BY <1>3
    DEF Ages, sharedVars, desktopVars, publisherVars, drainVars, workerVars,
        readerVars, TypeOK, SlotTypes, SlotType
  <1>4. CASE WorkerStarts
    BY <1>4
    DEF WorkerStarts, sharedVars, desktopVars, publisherVars, drainVars, workerVars,
        readerVars, TypeOK, SlotTypes, SlotType
  <1>5. CASE WorkerEnds
    BY <1>5
    DEF WorkerEnds, sharedVars, desktopVars, publisherVars, drainVars, workerVars,
        readerVars, TypeOK, SlotTypes, SlotType
  <1>6. CASE DrainBegins
    BY <1>6
    DEF DrainBegins, OthersKeep, sharedVars, desktopVars, publisherVars, drainVars,
        workerVars, readerVars, TypeOK, SlotTypes, SlotType
  <1>7. CASE StillDrawing
    BY <1>7
    DEF StillDrawing, OthersKeep, sharedVars, desktopVars, publisherVars, drainVars,
        workerVars, readerVars, TypeOK, SlotTypes, SlotType
  <1>8. CASE TakesCopy
    BY <1>8
    DEF TakesCopy, OthersKeep, sharedVars, desktopVars, publisherVars, drainVars,
        workerVars, readerVars, TypeOK, SlotTypes, SlotType
  <1>9. CASE Acquires
    BY <1>9
    DEF Acquires, OthersKeep, sharedVars, desktopVars, publisherVars, drainVars,
        workerVars, readerVars, TypeOK, SlotTypes, SlotType
  <1>10. CASE WaitEnds
    BY <1>10
    DEF WaitEnds, OthersKeep, sharedVars, desktopVars, publisherVars, drainVars,
        workerVars, readerVars, TypeOK, SlotTypes, SlotType
  <1>11. CASE Submits
    BY <1>11
    DEF Submits, OthersKeep, sharedVars, desktopVars, publisherVars, drainVars,
        workerVars, readerVars, TypeOK, SlotTypes, SlotType
  <1>12. CASE ClaimsFree
    BY <1>12
    DEF ClaimsFree, OthersKeep, SetState, Target, sharedVars, desktopVars,
        publisherVars, drainVars, workerVars, readerVars, TypeOK, SlotTypes,
        SlotType
  <1>13. CASE ClaimsReady
    BY <1>13
    DEF ClaimsReady, OthersKeep, SetState, Target, sharedVars, desktopVars,
        publisherVars, drainVars, workerVars, readerVars, TypeOK, SlotTypes,
        SlotType
  <1>14. CASE Skips
    BY <1>14
    DEF Skips, OthersKeep, Afterwards, sharedVars, desktopVars, publisherVars,
        drainVars, workerVars, readerVars, TypeOK, SlotTypes, SlotType
  <1>15. CASE LocksSlot
    BY <1>15
    DEF LocksSlot, OthersKeep, SetState, sharedVars, desktopVars, publisherVars,
        drainVars, workerVars, readerVars, TypeOK, SlotTypes, SlotType
  <1>16. CASE Upper
    <2>1. hand \in Nat
      BY DEF TypeOK, WorkerTypes
    <2> QED
      BY <1>16, <2>1 DEF Upper, TypeOK, SlotTypes, SlotType
  <1>17. CASE Lower
    <2>1. hand \in Nat
      BY DEF TypeOK, WorkerTypes
    <2> QED
      BY <1>17, <2>1 DEF Lower, TypeOK, SlotTypes, SlotType
  <1>18. CASE UnlocksSlot
    <2>1. ASSUME NEW s \in SlotType
          PROVE  [s EXCEPT !.owner = "none", !.key = 1] \in SlotType
      BY DEF SlotType
    <2> QED
      BY <1>18, <2>1 DEF UnlocksSlot, TypeOK, SlotTypes
  <1>19. CASE Publishes
    <2>1. hand \in Nat /\ sequence + 1 \in Nat
      BY DEF TypeOK, WorkerTypes
    <2>2. ASSUME NEW s \in SlotType
          PROVE  [s EXCEPT !.sequence = sequence + 1, !.frame = hand, !.state = "Ready"]
                    \in SlotType
      BY <2>1 DEF SlotType
    <2> QED
      BY <1>19, <2>2 DEF Publishes, TypeOK, SlotTypes
  <1>20. CASE Wakes
    BY <1>20
    DEF Wakes, WriterKeeps, sharedVars, desktopVars, publisherVars, drainVars,
        workerVars, readerVars, TypeOK, SlotTypes, SlotType
  <1>21. CASE Claims
    BY <1>21
    DEF Claims, WriterKeeps, SetState, sharedVars, desktopVars, publisherVars,
        drainVars, workerVars, readerVars, TypeOK, SlotTypes, SlotType
  <1>22. CASE Chooses
    BY <1>22
    DEF Chooses, WriterKeeps, sharedVars, desktopVars, publisherVars, drainVars,
        workerVars, readerVars, TypeOK, SlotTypes, SlotType
  <1>23. CASE ScanEnds
    BY <1>23
    DEF ScanEnds, WriterKeeps, ToLock, sharedVars, desktopVars, publisherVars,
        drainVars, workerVars, readerVars, TypeOK, SlotTypes, SlotType
  <1>24. CASE CopiesUpper
    BY <1>24
    DEF CopiesUpper, WriterKeeps, sharedVars, desktopVars, publisherVars, drainVars,
        workerVars, readerVars, TypeOK, SlotTypes, SlotType
  <1>25. CASE CopiesLower
    BY <1>25
    DEF CopiesLower, WriterKeeps, sharedVars, desktopVars, publisherVars, drainVars,
        workerVars, readerVars, TypeOK, SlotTypes, SlotType
  <1>26. CASE FreesSlot
    BY <1>26
    DEF FreesSlot, WriterKeeps, SetState, sharedVars, desktopVars, publisherVars,
        drainVars, workerVars, readerVars, TypeOK, SlotTypes, SlotType
  <1>27. CASE UnlocksFrame
    <2>1. ASSUME NEW s \in SlotType
          PROVE  [s EXCEPT !.owner = "none", !.key = 0] \in SlotType
      BY DEF SlotType
    <2> QED
      BY <1>27, <2>1 DEF UnlocksFrame, TypeOK, SlotTypes
  <1>28. CASE Weighs
    BY <1>28
    DEF Weighs, WriterKeeps, SetState, sharedVars, desktopVars, publisherVars,
        drainVars, workerVars, readerVars, TypeOK, SlotTypes, SlotType
  <1>29. ASSUME NEW i \in mine, LocksFrame(i)
        PROVE  SlotTypes'
    BY <1>29
    DEF LocksFrame, WriterKeeps, SetState, NextToLock, ToLock, sharedVars,
        desktopVars, publisherVars, drainVars, workerVars, readerVars, TypeOK,
        SlotTypes, SlotType
  <1>30. CASE ReaderEnds
    BY <1>30
    DEF ReaderEnds, WriterKeeps, sharedVars, desktopVars, publisherVars, drainVars,
        workerVars, readerVars, TypeOK, SlotTypes, SlotType
  <1>31. CASE MapFails
    BY <1>31
    DEF MapFails, OthersKeep, sharedVars, desktopVars, publisherVars, drainVars,
        workerVars, readerVars, TypeOK, SlotTypes, SlotType
  <1>32. CASE SubmitFails
    BY <1>32
    DEF SubmitFails, OthersKeep, sharedVars, desktopVars, publisherVars, drainVars,
        workerVars, readerVars, TypeOK, SlotTypes, SlotType
  <1>33. CASE LockFails
    BY <1>33
    DEF LockFails, OthersKeep, SetState, sharedVars, desktopVars, publisherVars,
        drainVars, workerVars, readerVars, TypeOK, SlotTypes, SlotType
  <1>34. CASE UnlockFails
    BY <1>34
    DEF UnlockFails, OthersKeep, sharedVars, desktopVars, publisherVars, drainVars,
        workerVars, readerVars, TypeOK, SlotTypes, SlotType
  <1>35. ASSUME NEW i \in mine, ReaderLockFails(i)
        PROVE  SlotTypes'
    BY <1>35
    DEF ReaderLockFails, WriterKeeps, SetState, NextToLock, ToLock, sharedVars,
        desktopVars, publisherVars, drainVars, workerVars, readerVars, TypeOK,
        SlotTypes, SlotType
  <1>36. CASE UNCHANGED vars
    BY <1>36
    DEF vars, sharedVars, desktopVars, publisherVars, drainVars, workerVars,
        readerVars, TypeOK, SlotTypes, SlotType
  <1>37. CASE GivesBack
    BY <1>37
    DEF GivesBack, WriterKeeps, SetState, sharedVars, desktopVars, publisherVars,
        drainVars, workerVars, readerVars, TypeOK, SlotTypes, SlotType
  <1>38. CASE UnlockFrameFails
    BY <1>38
    DEF UnlockFrameFails, WriterKeeps, SetState, sharedVars, desktopVars,
        publisherVars, drainVars, workerVars, readerVars, TypeOK, SlotTypes,
        SlotType
  <1> QED
    BY <1>1, <1>2, <1>3, <1>4, <1>5, <1>6, <1>7, <1>8, <1>9, <1>10, <1>11, <1>12,
        <1>13, <1>14, <1>15, <1>16, <1>17, <1>18, <1>19, <1>20, <1>21, <1>22, <1>23,
        <1>24, <1>25, <1>26, <1>27, <1>28, <1>29, <1>30, <1>31, <1>32, <1>33, <1>34,
        <1>35, <1>36, <1>37, <1>38
    DEF Next, WorkerStep, ReaderStep, Mishap

\* What a change of a slot's state leaves alone.
LEMMA StateSet ==
    ASSUME TypeOK, NEW i \in Slots, NEW s, SetState(i, s)
    PROVE  /\ \A j \in Slots : j # i => slot'[j] = slot[j]
           /\ slot'[i].state = s
           /\ slot'[i].key = slot[i].key /\ slot'[i].owner = slot[i].owner
           /\ slot'[i].frame = slot[i].frame /\ slot'[i].upper = slot[i].upper
           /\ slot'[i].lower = slot[i].lower
  BY DEF SetState, TypeOK, SlotTypes, SlotType

\* The writer holds a slot between its claim and the publication.
LEMMA WorkerAtStep ==
    ASSUME TypeOK, WorkerAt, ReaderAt, [Next]_vars
    PROVE  WorkerAt'
  <1>1. CASE DesktopChanges
    BY <1>1
    DEF DesktopChanges, sharedVars, desktopVars, publisherVars, drainVars,
        workerVars, readerVars, WorkerAt
  <1>2. CASE Draws
    BY <1>2
    DEF Draws, sharedVars, desktopVars, publisherVars, drainVars, workerVars,
        readerVars, WorkerAt
  <1>3. CASE Ages
    BY <1>3
    DEF Ages, sharedVars, desktopVars, publisherVars, drainVars, workerVars,
        readerVars, WorkerAt
  <1>4. CASE WorkerStarts
    BY <1>4
    DEF WorkerStarts, sharedVars, desktopVars, publisherVars, drainVars, workerVars,
        readerVars, WorkerAt
  <1>5. CASE WorkerEnds
    BY <1>5
    DEF WorkerEnds, sharedVars, desktopVars, publisherVars, drainVars, workerVars,
        readerVars, WorkerAt
  <1>6. CASE DrainBegins
    BY <1>6
    DEF DrainBegins, OthersKeep, sharedVars, desktopVars, publisherVars, drainVars,
        workerVars, readerVars, WorkerAt
  <1>7. CASE StillDrawing
    BY <1>7
    DEF StillDrawing, OthersKeep, sharedVars, desktopVars, publisherVars, drainVars,
        workerVars, readerVars, WorkerAt
  <1>8. CASE TakesCopy
    BY <1>8
    DEF TakesCopy, OthersKeep, sharedVars, desktopVars, publisherVars, drainVars,
        workerVars, readerVars, WorkerAt
  <1>9. CASE Acquires
    BY <1>9
    DEF Acquires, OthersKeep, sharedVars, desktopVars, publisherVars, drainVars,
        workerVars, readerVars, WorkerAt
  <1>10. CASE WaitEnds
    BY <1>10
    DEF WaitEnds, OthersKeep, sharedVars, desktopVars, publisherVars, drainVars,
        workerVars, readerVars, WorkerAt
  <1>11. CASE Submits
    BY <1>11
    DEF Submits, OthersKeep, sharedVars, desktopVars, publisherVars, drainVars,
        workerVars, readerVars, WorkerAt
  <1>12. CASE ClaimsFree
    <2>1. Target # None
      BY TargetIsSlot, SlotsAssumption DEF Slots, None
    <2> QED
      BY <1>12, <2>1
      DEF ClaimsFree, OthersKeep, WorkerAt
  <1>13. CASE ClaimsReady
    <2>1. Target # None
      BY TargetIsSlot, SlotsAssumption DEF Slots, None
    <2> QED
      BY <1>13, <2>1
      DEF ClaimsReady, OthersKeep, WorkerAt
  <1>14. CASE Skips
    BY <1>14
    DEF Skips, OthersKeep, Afterwards, sharedVars, desktopVars, publisherVars,
        drainVars, workerVars, readerVars, WorkerAt
  <1>15. CASE LocksSlot
    BY <1>15
    DEF LocksSlot, OthersKeep, SetState, sharedVars, desktopVars, publisherVars,
        drainVars, workerVars, readerVars, WorkerAt
  <1>16. CASE Upper
    BY <1>16
    DEF Upper, OthersKeep, sharedVars, desktopVars, publisherVars, drainVars,
        workerVars, readerVars, WorkerAt
  <1>17. CASE Lower
    BY <1>17
    DEF Lower, OthersKeep, sharedVars, desktopVars, publisherVars, drainVars,
        workerVars, readerVars, WorkerAt
  <1>18. CASE UnlocksSlot
    BY <1>18
    DEF UnlocksSlot, OthersKeep, sharedVars, desktopVars, publisherVars, drainVars,
        workerVars, readerVars, WorkerAt
  <1>19. CASE Publishes
    BY <1>19
    DEF Publishes, OthersKeep, Afterwards, sharedVars, desktopVars, publisherVars,
        drainVars, workerVars, readerVars, WorkerAt
  <1>20. CASE Wakes
    BY <1>20
    DEF Wakes, WriterKeeps, sharedVars, desktopVars, publisherVars, drainVars,
        workerVars, readerVars, WorkerAt
  <1>21. CASE Claims
    BY <1>21
    DEF Claims, WriterKeeps, SetState, sharedVars, desktopVars, publisherVars,
        drainVars, workerVars, readerVars, WorkerAt
  <1>22. CASE Chooses
    BY <1>22
    DEF Chooses, WriterKeeps, sharedVars, desktopVars, publisherVars, drainVars,
        workerVars, readerVars, WorkerAt
  <1>23. CASE ScanEnds
    BY <1>23
    DEF ScanEnds, WriterKeeps, ToLock, sharedVars, desktopVars, publisherVars,
        drainVars, workerVars, readerVars, WorkerAt
  <1>24. CASE CopiesUpper
    BY <1>24
    DEF CopiesUpper, WriterKeeps, sharedVars, desktopVars, publisherVars, drainVars,
        workerVars, readerVars, WorkerAt
  <1>25. CASE CopiesLower
    BY <1>25
    DEF CopiesLower, WriterKeeps, sharedVars, desktopVars, publisherVars, drainVars,
        workerVars, readerVars, WorkerAt
  <1>26. CASE FreesSlot
    BY <1>26
    DEF FreesSlot, WriterKeeps, SetState, sharedVars, desktopVars, publisherVars,
        drainVars, workerVars, readerVars, WorkerAt
  <1>27. CASE UnlocksFrame
    BY <1>27
    DEF UnlocksFrame, WriterKeeps, sharedVars, desktopVars, publisherVars,
        drainVars, workerVars, readerVars, WorkerAt
  <1>28. CASE Weighs
    BY <1>28
    DEF Weighs, WriterKeeps, SetState, sharedVars, desktopVars, publisherVars,
        drainVars, workerVars, readerVars, WorkerAt
  <1>29. ASSUME NEW i \in mine, LocksFrame(i)
        PROVE  WorkerAt'
    BY <1>29
    DEF LocksFrame, WriterKeeps, SetState, NextToLock, ToLock, sharedVars,
        desktopVars, publisherVars, drainVars, workerVars, readerVars, WorkerAt
  <1>30. CASE ReaderEnds
    BY <1>30
    DEF ReaderEnds, WriterKeeps, sharedVars, desktopVars, publisherVars, drainVars,
        workerVars, readerVars, WorkerAt
  <1>31. CASE MapFails
    BY <1>31
    DEF MapFails, OthersKeep, sharedVars, desktopVars, publisherVars, drainVars,
        workerVars, readerVars, WorkerAt
  <1>32. CASE SubmitFails
    BY <1>32
    DEF SubmitFails, OthersKeep, sharedVars, desktopVars, publisherVars, drainVars,
        workerVars, readerVars, WorkerAt
  <1>33. CASE LockFails
    BY <1>33
    DEF LockFails, OthersKeep, SetState, sharedVars, desktopVars, publisherVars,
        drainVars, workerVars, readerVars, WorkerAt
  <1>34. CASE UnlockFails
    BY <1>34
    DEF UnlockFails, OthersKeep, sharedVars, desktopVars, publisherVars, drainVars,
        workerVars, readerVars, WorkerAt
  <1>35. ASSUME NEW i \in mine, ReaderLockFails(i)
        PROVE  WorkerAt'
    BY <1>35
    DEF ReaderLockFails, WriterKeeps, SetState, NextToLock, ToLock, sharedVars,
        desktopVars, publisherVars, drainVars, workerVars, readerVars, WorkerAt
  <1>36. CASE UNCHANGED vars
    BY <1>36
    DEF vars, sharedVars, desktopVars, publisherVars, drainVars, workerVars,
        readerVars, WorkerAt
  <1>37. CASE GivesBack
    BY <1>37
    DEF GivesBack, WriterKeeps, SetState, sharedVars, desktopVars, publisherVars,
        drainVars, workerVars, readerVars, WorkerAt
  <1>38. CASE UnlockFrameFails
    BY <1>38
    DEF UnlockFrameFails, WriterKeeps, SetState, sharedVars, desktopVars,
        publisherVars, drainVars, workerVars, readerVars, WorkerAt
  <1> QED
    BY <1>1, <1>2, <1>3, <1>4, <1>5, <1>6, <1>7, <1>8, <1>9, <1>10, <1>11, <1>12,
        <1>13, <1>14, <1>15, <1>16, <1>17, <1>18, <1>19, <1>20, <1>21, <1>22, <1>23,
        <1>24, <1>25, <1>26, <1>27, <1>28, <1>29, <1>30, <1>31, <1>32, <1>33, <1>34,
        <1>35, <1>36, <1>37, <1>38
    DEF Next, WorkerStep, ReaderStep, Mishap

\* What one side holds the other cannot claim, nor set free.
LEMMA GraspStep ==
    ASSUME TypeOK, WorkerAt, ReaderAt, Grasp, [Next]_vars
    PROVE  Grasp'
  <1>1. CASE DesktopChanges
    BY <1>1
    DEF DesktopChanges, sharedVars, desktopVars, publisherVars, drainVars,
        workerVars, readerVars, TypeOK, SlotTypes, WorkerTypes, ReaderTypes,
        WorkerAt, ReaderAt, Grasp
  <1>2. CASE Draws
    BY <1>2
    DEF Draws, sharedVars, desktopVars, publisherVars, drainVars, workerVars,
        readerVars, TypeOK, SlotTypes, WorkerTypes, ReaderTypes, WorkerAt, ReaderAt,
        Grasp
  <1>3. CASE Ages
    BY <1>3
    DEF Ages, sharedVars, desktopVars, publisherVars, drainVars, workerVars,
        readerVars, TypeOK, SlotTypes, WorkerTypes, ReaderTypes, WorkerAt, ReaderAt,
        Grasp
  <1>4. CASE WorkerStarts
    BY <1>4
    DEF WorkerStarts, sharedVars, desktopVars, publisherVars, drainVars, workerVars,
        readerVars, TypeOK, SlotTypes, WorkerTypes, ReaderTypes, WorkerAt, ReaderAt,
        Grasp
  <1>5. CASE WorkerEnds
    BY <1>5
    DEF WorkerEnds, sharedVars, desktopVars, publisherVars, drainVars, workerVars,
        readerVars, TypeOK, SlotTypes, WorkerTypes, ReaderTypes, WorkerAt, ReaderAt,
        Grasp
  <1>6. CASE DrainBegins
    BY <1>6
    DEF DrainBegins, OthersKeep, sharedVars, desktopVars, publisherVars, drainVars,
        workerVars, readerVars, TypeOK, SlotTypes, WorkerTypes, ReaderTypes,
        WorkerAt, ReaderAt, Grasp
  <1>7. CASE StillDrawing
    BY <1>7
    DEF StillDrawing, OthersKeep, sharedVars, desktopVars, publisherVars, drainVars,
        workerVars, readerVars, TypeOK, SlotTypes, WorkerTypes, ReaderTypes,
        WorkerAt, ReaderAt, Grasp
  <1>8. CASE TakesCopy
    BY <1>8
    DEF TakesCopy, OthersKeep, sharedVars, desktopVars, publisherVars, drainVars,
        workerVars, readerVars, TypeOK, SlotTypes, WorkerTypes, ReaderTypes,
        WorkerAt, ReaderAt, Grasp
  <1>9. CASE Acquires
    BY <1>9
    DEF Acquires, OthersKeep, sharedVars, desktopVars, publisherVars, drainVars,
        workerVars, readerVars, TypeOK, SlotTypes, WorkerTypes, ReaderTypes,
        WorkerAt, ReaderAt, Grasp
  <1>10. CASE WaitEnds
    BY <1>10
    DEF WaitEnds, OthersKeep, sharedVars, desktopVars, publisherVars, drainVars,
        workerVars, readerVars, TypeOK, SlotTypes, WorkerTypes, ReaderTypes,
        WorkerAt, ReaderAt, Grasp
  <1>11. CASE Submits
    BY <1>11
    DEF Submits, OthersKeep, sharedVars, desktopVars, publisherVars, drainVars,
        workerVars, readerVars, TypeOK, SlotTypes, WorkerTypes, ReaderTypes,
        WorkerAt, ReaderAt, Grasp
  <1>12. CASE ClaimsFree
    <2>1. Target \in Slots /\ mine \subseteq Slots
      BY TargetIsSlot DEF TypeOK, ReaderTypes
    <2>2. CASE slot[Target].state = "Free"
      <3>1. SetState(Target, "Writing") /\ into' = Target /\ mine' = mine
        BY <1>12, <2>2 DEF ClaimsFree, OthersKeep, readerVars
      <3> QED
        BY <2>1, <2>2, <3>1, StateSet DEF Grasp
    <2>3. CASE slot[Target].state # "Free"
      BY <1>12, <2>3 DEF ClaimsFree, OthersKeep, readerVars, Grasp
    <2> QED
      BY <2>2, <2>3
  <1>13. CASE ClaimsReady
    <2>1. Target \in Slots /\ mine \subseteq Slots
      BY TargetIsSlot DEF TypeOK, ReaderTypes
    <2>2. CASE slot[Target].state = "Ready"
      <3>1. SetState(Target, "Writing") /\ into' = Target /\ mine' = mine
        BY <1>13, <2>2 DEF ClaimsReady, OthersKeep, readerVars
      <3> QED
        BY <2>1, <2>2, <3>1, StateSet DEF Grasp
    <2>3. CASE slot[Target].state # "Ready"
      BY <1>13, <2>3 DEF ClaimsReady, OthersKeep, readerVars, Grasp
    <2> QED
      BY <2>2, <2>3
  <1>14. CASE Skips
    BY <1>14
    DEF Skips, OthersKeep, Afterwards, sharedVars, desktopVars, publisherVars,
        drainVars, workerVars, readerVars, TypeOK, SlotTypes, WorkerTypes,
        ReaderTypes, WorkerAt, ReaderAt, Grasp
  <1>15. CASE LocksSlot
    <2>1. into \in Slots /\ mine \subseteq Slots
      BY <1>15 DEF LocksSlot, WorkerAt, TypeOK, ReaderTypes, WorkerTypes
    <2>2. CASE slot[into].owner = "none" /\ slot[into].key = 0
      <3>1. \A i \in Slots : slot'[i].state = slot[i].state
        BY <1>15, <2>2 DEF LocksSlot, TypeOK, SlotTypes, SlotType
      <3> QED
        BY <1>15, <2>1, <2>2, <3>1 DEF LocksSlot, OthersKeep, readerVars, Grasp
    <2>3. CASE ~(slot[into].owner = "none" /\ slot[into].key = 0)
      <3>1. SetState(into, "Free") /\ into' = None /\ mine' = mine
        BY <1>15, <2>3 DEF LocksSlot, OthersKeep, readerVars
      <3>2. \A i \in mine : i # into
        BY <2>1 DEF Grasp, None, Slots
      <3> QED
        BY <2>1, <3>1, <3>2, StateSet DEF Grasp
    <2> QED
      BY <2>2, <2>3
  <1>16. CASE Upper
    BY <1>16
    DEF Upper, OthersKeep, sharedVars, desktopVars, publisherVars, drainVars,
        workerVars, readerVars, TypeOK, SlotTypes, WorkerTypes, ReaderTypes,
        WorkerAt, ReaderAt, Grasp
  <1>17. CASE Lower
    BY <1>17
    DEF Lower, OthersKeep, sharedVars, desktopVars, publisherVars, drainVars,
        workerVars, readerVars, TypeOK, SlotTypes, WorkerTypes, ReaderTypes,
        WorkerAt, ReaderAt, Grasp
  <1>18. CASE UnlocksSlot
    BY <1>18
    DEF UnlocksSlot, OthersKeep, sharedVars, desktopVars, publisherVars, drainVars,
        workerVars, readerVars, TypeOK, SlotTypes, WorkerTypes, ReaderTypes,
        WorkerAt, ReaderAt, Grasp
  <1>19. CASE Publishes
    BY <1>19
    DEF Publishes, OthersKeep, Afterwards, sharedVars, desktopVars, publisherVars,
        drainVars, workerVars, readerVars, TypeOK, SlotTypes, WorkerTypes,
        ReaderTypes, WorkerAt, ReaderAt, Grasp
  <1>20. CASE Wakes
    BY <1>20
    DEF Wakes, WriterKeeps, sharedVars, desktopVars, publisherVars, drainVars,
        workerVars, readerVars, TypeOK, SlotTypes, WorkerTypes, ReaderTypes,
        WorkerAt, ReaderAt, Grasp
  <1>21. CASE Claims
    <2>1. at \in Slots /\ mine \subseteq Slots /\ into' = into
      <3>1. at \in Slots
        BY <1>21, SlotsAssumption DEF Claims, TypeOK, ReaderTypes, Slots
      <3> QED
        BY <1>21, <3>1 DEF Claims, WriterKeeps, workerVars, drainVars, TypeOK, ReaderTypes
    <2>2. into \in Slots \cup {None}
      BY DEF TypeOK, WorkerTypes
    <2>3. CASE slot[at].state = "Ready"
      <3>1. SetState(at, "Reading") /\ mine' = mine \cup {at}
        BY <1>21, <2>3 DEF Claims
      <3> QED
        BY <2>1, <2>2, <2>3, <3>1, StateSet DEF Grasp
    <2>4. CASE slot[at].state # "Ready"
      BY <1>21, <2>1, <2>4 DEF Claims, Grasp
    <2> QED
      BY <2>3, <2>4
  <1>22. CASE Chooses
    BY <1>22
    DEF Chooses, WriterKeeps, sharedVars, desktopVars, publisherVars, drainVars,
        workerVars, readerVars, TypeOK, SlotTypes, WorkerTypes, ReaderTypes,
        WorkerAt, ReaderAt, Grasp
  <1>23. CASE ScanEnds
    BY <1>23
    DEF ScanEnds, WriterKeeps, ToLock, sharedVars, desktopVars, publisherVars,
        drainVars, workerVars, readerVars, TypeOK, SlotTypes, WorkerTypes,
        ReaderTypes, WorkerAt, ReaderAt, Grasp
  <1>24. CASE CopiesUpper
    BY <1>24
    DEF CopiesUpper, WriterKeeps, sharedVars, desktopVars, publisherVars, drainVars,
        workerVars, readerVars, TypeOK, SlotTypes, WorkerTypes, ReaderTypes,
        WorkerAt, ReaderAt, Grasp
  <1>25. CASE CopiesLower
    BY <1>25
    DEF CopiesLower, WriterKeeps, sharedVars, desktopVars, publisherVars, drainVars,
        workerVars, readerVars, TypeOK, SlotTypes, WorkerTypes, ReaderTypes,
        WorkerAt, ReaderAt, Grasp
  <1>26. CASE FreesSlot
    <2>1. selected \in mine /\ mine \subseteq Slots /\ into' = into
      BY <1>26
      DEF FreesSlot, WriterKeeps, workerVars, drainVars, TypeOK, ReaderTypes, ReaderAt,
          DesktopTypes
    <2>2. into \in Slots \cup {None}
      BY DEF TypeOK, WorkerTypes
    <2>3. SetState(selected, "Free") /\ mine' = mine \ {selected}
      BY <1>26 DEF FreesSlot
    <2> QED
      BY <2>1, <2>2, <2>3, StateSet DEF Grasp
  <1>27. CASE UnlocksFrame
    BY <1>27
    DEF UnlocksFrame, WriterKeeps, sharedVars, desktopVars, publisherVars,
        drainVars, workerVars, readerVars, TypeOK, SlotTypes, WorkerTypes,
        ReaderTypes, WorkerAt, ReaderAt, Grasp
  <1>28. CASE Weighs
    <2>1. mine \subseteq Slots /\ into' = into
      BY <1>28 DEF Weighs, WriterKeeps, workerVars, drainVars, TypeOK, ReaderTypes
    <2>2. into \in Slots \cup {None}
      BY DEF TypeOK, WorkerTypes
    <2>3. CASE UNCHANGED <<slot, mine>>
      BY <2>1, <2>3 DEF Grasp
    <2>4. CASE \E d \in {at, selected} :
                  d # None /\ SetState(d, "Free") /\ mine' = mine \ {d}
      <3>1. PICK d \in mine : SetState(d, "Free") /\ mine' = mine \ {d}
        BY <1>28, <2>4 DEF Weighs, TypeOK, DesktopTypes, ReaderAt
      <3> QED
        BY <2>1, <2>2, <3>1, StateSet DEF Grasp
    <2> QED
      BY <1>28, <2>3, <2>4 DEF Weighs
  <1>29. ASSUME NEW i \in mine, LocksFrame(i)
        PROVE  Grasp'
    <2>1. i \in Slots /\ mine \subseteq Slots /\ into' = into
      BY <1>29 DEF LocksFrame, WriterKeeps, workerVars, drainVars, TypeOK, ReaderTypes
    <2>2. into \in Slots \cup {None}
      BY DEF TypeOK, WorkerTypes
    <2>3. CASE slot[i].owner = "none" /\ slot[i].key = 1
      <3>1. \A j \in Slots : slot'[j].state = slot[j].state
        BY <1>29, <2>3 DEF LocksFrame, TypeOK, SlotTypes, SlotType
      <3> QED
        BY <1>29, <2>1, <2>2, <2>3, <3>1 DEF LocksFrame, Grasp
    <2>4. CASE ~(slot[i].owner = "none" /\ slot[i].key = 1)
      <3>1. SetState(i, "Ready") /\ mine' = mine \ {i}
        BY <1>29, <2>4 DEF LocksFrame
      <3> QED
        BY <2>1, <2>2, <3>1, StateSet DEF Grasp
    <2> QED
      BY <2>3, <2>4
  <1>30. CASE ReaderEnds
    BY <1>30
    DEF ReaderEnds, WriterKeeps, sharedVars, desktopVars, publisherVars, drainVars,
        workerVars, readerVars, TypeOK, SlotTypes, WorkerTypes, ReaderTypes,
        WorkerAt, ReaderAt, Grasp
  <1>31. CASE MapFails
    BY <1>31
    DEF MapFails, OthersKeep, sharedVars, desktopVars, publisherVars, drainVars,
        workerVars, readerVars, TypeOK, SlotTypes, WorkerTypes, ReaderTypes,
        WorkerAt, ReaderAt, Grasp
  <1>32. CASE SubmitFails
    BY <1>32
    DEF SubmitFails, OthersKeep, sharedVars, desktopVars, publisherVars, drainVars,
        workerVars, readerVars, TypeOK, SlotTypes, WorkerTypes, ReaderTypes,
        WorkerAt, ReaderAt, Grasp
  <1>33. CASE LockFails
    BY <1>33
    DEF LockFails, OthersKeep, SetState, sharedVars, desktopVars, publisherVars,
        drainVars, workerVars, readerVars, TypeOK, SlotTypes, WorkerTypes,
        ReaderTypes, WorkerAt, ReaderAt, Grasp
  <1>34. CASE UnlockFails
    BY <1>34
    DEF UnlockFails, OthersKeep, sharedVars, desktopVars, publisherVars, drainVars,
        workerVars, readerVars, TypeOK, SlotTypes, WorkerTypes, ReaderTypes,
        WorkerAt, ReaderAt, Grasp
  <1>35. ASSUME NEW i \in mine, ReaderLockFails(i)
        PROVE  Grasp'
    BY <1>35
    DEF ReaderLockFails, WriterKeeps, SetState, NextToLock, ToLock, sharedVars,
        desktopVars, publisherVars, drainVars, workerVars, readerVars, TypeOK,
        SlotTypes, WorkerTypes, ReaderTypes, WorkerAt, ReaderAt, Grasp
  <1>36. CASE UNCHANGED vars
    BY <1>36
    DEF vars, sharedVars, desktopVars, publisherVars, drainVars, workerVars,
        readerVars, TypeOK, SlotTypes, WorkerTypes, ReaderTypes, WorkerAt, ReaderAt,
        Grasp
  <1>37. CASE GivesBack
    BY <1>37
    DEF GivesBack, WriterKeeps, SetState, sharedVars, desktopVars, publisherVars,
        drainVars, workerVars, readerVars, TypeOK, SlotTypes, WorkerTypes,
        ReaderTypes, WorkerAt, ReaderAt, Grasp
  <1>38. CASE UnlockFrameFails
    BY <1>38
    DEF UnlockFrameFails, WriterKeeps, SetState, sharedVars, desktopVars,
        publisherVars, drainVars, workerVars, readerVars, TypeOK, SlotTypes,
        WorkerTypes, ReaderTypes, WorkerAt, ReaderAt, Grasp
  <1> QED
    BY <1>1, <1>2, <1>3, <1>4, <1>5, <1>6, <1>7, <1>8, <1>9, <1>10, <1>11, <1>12,
        <1>13, <1>14, <1>15, <1>16, <1>17, <1>18, <1>19, <1>20, <1>21, <1>22, <1>23,
        <1>24, <1>25, <1>26, <1>27, <1>28, <1>29, <1>30, <1>31, <1>32, <1>33, <1>34,
        <1>35, <1>36, <1>37, <1>38
    DEF Next, WorkerStep, ReaderStep, Mishap

\* The slots of the reader, on its way through them.
LEMMA ReaderAtStep ==
    ASSUME TypeOK, WorkerAt, ReaderAt, [Next]_vars
    PROVE  ReaderAt'
  <1>1. CASE DesktopChanges
    BY <1>1
    DEF DesktopChanges, sharedVars, desktopVars, publisherVars, drainVars,
        workerVars, readerVars, TypeOK, ReaderTypes, DesktopTypes, ReaderAt, Slots
  <1>2. CASE Draws
    BY <1>2
    DEF Draws, sharedVars, desktopVars, publisherVars, drainVars, workerVars,
        readerVars, TypeOK, ReaderTypes, DesktopTypes, ReaderAt, Slots
  <1>3. CASE Ages
    BY <1>3
    DEF Ages, sharedVars, desktopVars, publisherVars, drainVars, workerVars,
        readerVars, TypeOK, ReaderTypes, DesktopTypes, ReaderAt, Slots
  <1>4. CASE WorkerStarts
    BY <1>4
    DEF WorkerStarts, sharedVars, desktopVars, publisherVars, drainVars, workerVars,
        readerVars, TypeOK, ReaderTypes, DesktopTypes, ReaderAt, Slots
  <1>5. CASE WorkerEnds
    BY <1>5
    DEF WorkerEnds, sharedVars, desktopVars, publisherVars, drainVars, workerVars,
        readerVars, TypeOK, ReaderTypes, DesktopTypes, ReaderAt, Slots
  <1>6. CASE DrainBegins
    BY <1>6
    DEF DrainBegins, OthersKeep, sharedVars, desktopVars, publisherVars, drainVars,
        workerVars, readerVars, TypeOK, ReaderTypes, DesktopTypes, ReaderAt, Slots
  <1>7. CASE StillDrawing
    BY <1>7
    DEF StillDrawing, OthersKeep, sharedVars, desktopVars, publisherVars, drainVars,
        workerVars, readerVars, TypeOK, ReaderTypes, DesktopTypes, ReaderAt, Slots
  <1>8. CASE TakesCopy
    BY <1>8
    DEF TakesCopy, OthersKeep, sharedVars, desktopVars, publisherVars, drainVars,
        workerVars, readerVars, TypeOK, ReaderTypes, DesktopTypes, ReaderAt, Slots
  <1>9. CASE Acquires
    BY <1>9
    DEF Acquires, OthersKeep, sharedVars, desktopVars, publisherVars, drainVars,
        workerVars, readerVars, TypeOK, ReaderTypes, DesktopTypes, ReaderAt, Slots
  <1>10. CASE WaitEnds
    BY <1>10
    DEF WaitEnds, OthersKeep, sharedVars, desktopVars, publisherVars, drainVars,
        workerVars, readerVars, TypeOK, ReaderTypes, DesktopTypes, ReaderAt, Slots
  <1>11. CASE Submits
    BY <1>11
    DEF Submits, OthersKeep, sharedVars, desktopVars, publisherVars, drainVars,
        workerVars, readerVars, TypeOK, ReaderTypes, DesktopTypes, ReaderAt, Slots
  <1>12. CASE ClaimsFree
    BY <1>12
    DEF ClaimsFree, OthersKeep, SetState, Target, sharedVars, desktopVars,
        publisherVars, drainVars, workerVars, readerVars, TypeOK, ReaderTypes,
        DesktopTypes, ReaderAt, Slots
  <1>13. CASE ClaimsReady
    BY <1>13
    DEF ClaimsReady, OthersKeep, SetState, Target, sharedVars, desktopVars,
        publisherVars, drainVars, workerVars, readerVars, TypeOK, ReaderTypes,
        DesktopTypes, ReaderAt, Slots
  <1>14. CASE Skips
    BY <1>14
    DEF Skips, OthersKeep, Afterwards, sharedVars, desktopVars, publisherVars,
        drainVars, workerVars, readerVars, TypeOK, ReaderTypes, DesktopTypes,
        ReaderAt, Slots
  <1>15. CASE LocksSlot
    BY <1>15
    DEF LocksSlot, OthersKeep, SetState, sharedVars, desktopVars, publisherVars,
        drainVars, workerVars, readerVars, TypeOK, ReaderTypes, DesktopTypes,
        ReaderAt, Slots
  <1>16. CASE Upper
    BY <1>16
    DEF Upper, OthersKeep, sharedVars, desktopVars, publisherVars, drainVars,
        workerVars, readerVars, TypeOK, ReaderTypes, DesktopTypes, ReaderAt, Slots
  <1>17. CASE Lower
    BY <1>17
    DEF Lower, OthersKeep, sharedVars, desktopVars, publisherVars, drainVars,
        workerVars, readerVars, TypeOK, ReaderTypes, DesktopTypes, ReaderAt, Slots
  <1>18. CASE UnlocksSlot
    BY <1>18
    DEF UnlocksSlot, OthersKeep, sharedVars, desktopVars, publisherVars, drainVars,
        workerVars, readerVars, TypeOK, ReaderTypes, DesktopTypes, ReaderAt, Slots
  <1>19. CASE Publishes
    BY <1>19
    DEF Publishes, OthersKeep, Afterwards, sharedVars, desktopVars, publisherVars,
        drainVars, workerVars, readerVars, TypeOK, ReaderTypes, DesktopTypes,
        ReaderAt, Slots
  <1>20. CASE Wakes
    BY <1>20
    DEF Wakes, WriterKeeps, sharedVars, desktopVars, publisherVars, drainVars,
        workerVars, readerVars, TypeOK, ReaderTypes, DesktopTypes, ReaderAt, Slots
  <1>21. CASE Claims
    <2>1. at \in Slots /\ at # None
      BY <1>21, SlotsAssumption DEF Claims, TypeOK, ReaderTypes, Slots, None
    <2>2. UNCHANGED <<route, selected>> /\ reader = "scan"
      BY <1>21 DEF Claims, WriterKeeps
    <2>3. \A i \in mine : i < at /\ i # at
      BY <2>1, <2>2 DEF ReaderAt, TypeOK, ReaderTypes, Slots
    <2>4. at' = at \/ at' = at + 1
      BY <1>21 DEF Claims
    <2>5. at < at + 1 /\ at <= at /\ \A i \in mine : i < at + 1 /\ i <= at
      BY <2>1, <2>3 DEF TypeOK, ReaderTypes, Slots
    <2>6. CASE slot[at].state = "Ready"
      <3>1. CASE route = "cpu"
        <4>1. reader' = "weigh" /\ at' = at /\ mine' = mine \cup {at}
          BY <1>21, <2>6, <3>1 DEF Claims
        <4>2. mine = {selected} \ {None}
          BY <2>2, <3>1 DEF ReaderAt
        <4>3. selected # at
          BY <2>1, <2>3, <4>2
        <4> QED
          BY <2>2, <2>5, <3>1, <4>1, <4>2, <4>3 DEF ReaderAt
      <3>2. CASE route = "gpu"
        <4>1. reader' = "scan" /\ at' = at + 1 /\ mine' = mine \cup {at}
          BY <1>21, <2>6, <3>2, <2>2 DEF Claims
        <4> QED
          BY <2>2, <2>5, <3>2, <4>1 DEF ReaderAt
      <3> QED
        BY <3>1, <3>2 DEF TypeOK, DesktopTypes
    <2>7. CASE slot[at].state # "Ready"
      <3>1. reader' = "scan" /\ at' = at + 1 /\ mine' = mine
        BY <1>21, <2>2, <2>7 DEF Claims
      <3> QED
        BY <2>2, <2>5, <3>1 DEF ReaderAt
    <2> QED
      BY <2>6, <2>7
  <1>22. CASE Chooses
    BY <1>22
    DEF Chooses, WriterKeeps, sharedVars, desktopVars, publisherVars, drainVars,
        workerVars, readerVars, TypeOK, ReaderTypes, DesktopTypes, ReaderAt, Slots
  <1>23. CASE ScanEnds
    BY <1>23
    DEF ScanEnds, WriterKeeps, ToLock, sharedVars, desktopVars, publisherVars,
        drainVars, workerVars, readerVars, TypeOK, ReaderTypes, DesktopTypes,
        ReaderAt, Slots
  <1>24. CASE CopiesUpper
    BY <1>24
    DEF CopiesUpper, WriterKeeps, sharedVars, desktopVars, publisherVars, drainVars,
        workerVars, readerVars, TypeOK, ReaderTypes, DesktopTypes, ReaderAt, Slots
  <1>25. CASE CopiesLower
    BY <1>25
    DEF CopiesLower, WriterKeeps, sharedVars, desktopVars, publisherVars, drainVars,
        workerVars, readerVars, TypeOK, ReaderTypes, DesktopTypes, ReaderAt, Slots
  <1>26. CASE FreesSlot
    BY <1>26
    DEF FreesSlot, WriterKeeps, SetState, sharedVars, desktopVars, publisherVars,
        drainVars, workerVars, readerVars, TypeOK, ReaderTypes, DesktopTypes,
        ReaderAt, Slots
  <1>27. CASE UnlocksFrame
    BY <1>27
    DEF UnlocksFrame, WriterKeeps, sharedVars, desktopVars, publisherVars,
        drainVars, workerVars, readerVars, TypeOK, ReaderTypes, DesktopTypes,
        ReaderAt, Slots
  <1>28. CASE Weighs
    <2>1. /\ route = "cpu" /\ route' = route /\ reader' = "scan" /\ at' = at + 1
          /\ at \in mine /\ selected # at /\ mine = ({selected} \ {None}) \cup {at}
          /\ at # None
      <3>1. at # None
        BY <1>28, SlotsAssumption DEF Weighs, TypeOK, ReaderTypes, ReaderAt, Slots, None
      <3> QED
        BY <1>28, <3>1 DEF Weighs, WriterKeeps, ReaderAt, TypeOK, DesktopTypes
    <2>2. mine' = {selected'} \ {None}
      BY <1>28, <2>1 DEF Weighs
    <2>3. \A i \in mine' : i < at'
      <3>1. mine' \subseteq mine
        BY <1>28 DEF Weighs
      <3> QED
        BY <1>28, <2>1, <3>1 DEF Weighs, ReaderAt, TypeOK, ReaderTypes, Slots
    <2> QED
      BY <2>1, <2>2, <2>3 DEF ReaderAt
  <1>29. ASSUME NEW i \in mine, LocksFrame(i)
        PROVE  ReaderAt'
    BY <1>29
    DEF LocksFrame, WriterKeeps, SetState, NextToLock, ToLock, sharedVars,
        desktopVars, publisherVars, drainVars, workerVars, readerVars, TypeOK,
        ReaderTypes, DesktopTypes, ReaderAt, Slots
  <1>30. CASE ReaderEnds
    BY <1>30
    DEF ReaderEnds, WriterKeeps, sharedVars, desktopVars, publisherVars, drainVars,
        workerVars, readerVars, TypeOK, ReaderTypes, DesktopTypes, ReaderAt, Slots
  <1>31. CASE MapFails
    BY <1>31
    DEF MapFails, OthersKeep, sharedVars, desktopVars, publisherVars, drainVars,
        workerVars, readerVars, TypeOK, ReaderTypes, DesktopTypes, ReaderAt, Slots
  <1>32. CASE SubmitFails
    BY <1>32
    DEF SubmitFails, OthersKeep, sharedVars, desktopVars, publisherVars, drainVars,
        workerVars, readerVars, TypeOK, ReaderTypes, DesktopTypes, ReaderAt, Slots
  <1>33. CASE LockFails
    BY <1>33
    DEF LockFails, OthersKeep, SetState, sharedVars, desktopVars, publisherVars,
        drainVars, workerVars, readerVars, TypeOK, ReaderTypes, DesktopTypes,
        ReaderAt, Slots
  <1>34. CASE UnlockFails
    BY <1>34
    DEF UnlockFails, OthersKeep, sharedVars, desktopVars, publisherVars, drainVars,
        workerVars, readerVars, TypeOK, ReaderTypes, DesktopTypes, ReaderAt, Slots
  <1>35. ASSUME NEW i \in mine, ReaderLockFails(i)
        PROVE  ReaderAt'
    BY <1>35
    DEF ReaderLockFails, WriterKeeps, SetState, NextToLock, ToLock, sharedVars,
        desktopVars, publisherVars, drainVars, workerVars, readerVars, TypeOK,
        ReaderTypes, DesktopTypes, ReaderAt, Slots
  <1>36. CASE UNCHANGED vars
    BY <1>36
    DEF vars, sharedVars, desktopVars, publisherVars, drainVars, workerVars,
        readerVars, TypeOK, ReaderTypes, DesktopTypes, ReaderAt, Slots
  <1>37. CASE GivesBack
    BY <1>37
    DEF GivesBack, WriterKeeps, SetState, sharedVars, desktopVars, publisherVars,
        drainVars, workerVars, readerVars, TypeOK, ReaderTypes, DesktopTypes,
        ReaderAt, Slots
  <1>38. CASE UnlockFrameFails
    BY <1>38
    DEF UnlockFrameFails, WriterKeeps, SetState, sharedVars, desktopVars,
        publisherVars, drainVars, workerVars, readerVars, TypeOK, ReaderTypes,
        DesktopTypes, ReaderAt, Slots
  <1> QED
    BY <1>1, <1>2, <1>3, <1>4, <1>5, <1>6, <1>7, <1>8, <1>9, <1>10, <1>11, <1>12,
        <1>13, <1>14, <1>15, <1>16, <1>17, <1>18, <1>19, <1>20, <1>21, <1>22, <1>23,
        <1>24, <1>25, <1>26, <1>27, <1>28, <1>29, <1>30, <1>31, <1>32, <1>33, <1>34,
        <1>35, <1>36, <1>37, <1>38
    DEF Next, WorkerStep, ReaderStep, Mishap

\* The states and the mutexes change together.
LEMMA KeysStep ==
    ASSUME TypeOK, WorkerAt, ReaderAt, Grasp, Keys, [Next]_vars
    PROVE  Keys'
  <1>1. CASE DesktopChanges
    BY <1>1
    DEF DesktopChanges, sharedVars, desktopVars, publisherVars, drainVars,
        workerVars, readerVars, TypeOK, SlotTypes, SlotType, WorkerTypes,
        ReaderTypes, DesktopTypes, WorkerAt, ReaderAt, Grasp, Keys, KeyOf, OwnerOf,
        Held
  <1>2. CASE Draws
    BY <1>2
    DEF Draws, sharedVars, desktopVars, publisherVars, drainVars, workerVars,
        readerVars, TypeOK, SlotTypes, SlotType, WorkerTypes, ReaderTypes,
        DesktopTypes, WorkerAt, ReaderAt, Grasp, Keys, KeyOf, OwnerOf, Held
  <1>3. CASE Ages
    BY <1>3
    DEF Ages, sharedVars, desktopVars, publisherVars, drainVars, workerVars,
        readerVars, TypeOK, SlotTypes, SlotType, WorkerTypes, ReaderTypes,
        DesktopTypes, WorkerAt, ReaderAt, Grasp, Keys, KeyOf, OwnerOf, Held
  <1>4. CASE WorkerStarts
    BY <1>4
    DEF WorkerStarts, sharedVars, desktopVars, publisherVars, drainVars, workerVars,
        readerVars, TypeOK, SlotTypes, SlotType, WorkerTypes, ReaderTypes,
        DesktopTypes, WorkerAt, ReaderAt, Grasp, Keys, KeyOf, OwnerOf, Held
  <1>5. CASE WorkerEnds
    BY <1>5
    DEF WorkerEnds, sharedVars, desktopVars, publisherVars, drainVars, workerVars,
        readerVars, TypeOK, SlotTypes, SlotType, WorkerTypes, ReaderTypes,
        DesktopTypes, WorkerAt, ReaderAt, Grasp, Keys, KeyOf, OwnerOf, Held
  <1>6. CASE DrainBegins
    BY <1>6
    DEF DrainBegins, OthersKeep, sharedVars, desktopVars, publisherVars, drainVars,
        workerVars, readerVars, TypeOK, SlotTypes, SlotType, WorkerTypes,
        ReaderTypes, DesktopTypes, WorkerAt, ReaderAt, Grasp, Keys, KeyOf, OwnerOf,
        Held
  <1>7. CASE StillDrawing
    BY <1>7
    DEF StillDrawing, OthersKeep, sharedVars, desktopVars, publisherVars, drainVars,
        workerVars, readerVars, TypeOK, SlotTypes, SlotType, WorkerTypes,
        ReaderTypes, DesktopTypes, WorkerAt, ReaderAt, Grasp, Keys, KeyOf, OwnerOf,
        Held
  <1>8. CASE TakesCopy
    BY <1>8
    DEF TakesCopy, OthersKeep, sharedVars, desktopVars, publisherVars, drainVars,
        workerVars, readerVars, TypeOK, SlotTypes, SlotType, WorkerTypes,
        ReaderTypes, DesktopTypes, WorkerAt, ReaderAt, Grasp, Keys, KeyOf, OwnerOf,
        Held
  <1>9. CASE Acquires
    BY <1>9
    DEF Acquires, OthersKeep, sharedVars, desktopVars, publisherVars, drainVars,
        workerVars, readerVars, TypeOK, SlotTypes, SlotType, WorkerTypes,
        ReaderTypes, DesktopTypes, WorkerAt, ReaderAt, Grasp, Keys, KeyOf, OwnerOf,
        Held
  <1>10. CASE WaitEnds
    BY <1>10
    DEF WaitEnds, OthersKeep, sharedVars, desktopVars, publisherVars, drainVars,
        workerVars, readerVars, TypeOK, SlotTypes, SlotType, WorkerTypes,
        ReaderTypes, DesktopTypes, WorkerAt, ReaderAt, Grasp, Keys, KeyOf, OwnerOf,
        Held
  <1>11. CASE Submits
    BY <1>11
    DEF Submits, OthersKeep, sharedVars, desktopVars, publisherVars, drainVars,
        workerVars, readerVars, TypeOK, SlotTypes, SlotType, WorkerTypes,
        ReaderTypes, DesktopTypes, WorkerAt, ReaderAt, Grasp, Keys, KeyOf, OwnerOf,
        Held
  <1>12. CASE ClaimsFree
    <2>1. Target \in Slots /\ UNCHANGED <<reader, error, mine, route, at>>
      BY <1>12, TargetIsSlot DEF ClaimsFree, OthersKeep, readerVars
    <2>2. worker \notin {"lock", "upper", "lower", "unlock", "publish"} /\ into = None
      BY <1>12 DEF ClaimsFree, WorkerAt
    <2>3. None \notin Slots
      BY SlotsAssumption DEF Slots, None
    <2>4. CASE slot[Target].state = "Free"
      <3>1. /\ SetState(Target, "Writing") /\ into' = Target
            /\ worker' = IF route = "cpu" THEN "upper" ELSE "lock"
        BY <1>12, <2>4 DEF ClaimsFree, WorkerAt, TypeOK, DesktopTypes
      <3> SUFFICES ASSUME reader # "over", ~error, NEW i \in Slots
                   PROVE  /\ slot'[i].state = "Reading" => i \in mine
                          /\ slot'[i].state = "Writing" => i = into'
                          /\ slot'[i].key = IF route = "cpu" THEN 0 ELSE KeyOf(i)'
                          /\ slot'[i].owner = IF route = "cpu" THEN "none"
                                                              ELSE OwnerOf(i)'
        BY <2>1 DEF Keys
      <3>2. CASE i = Target
        BY <2>1, <2>4, <3>1, <3>2, StateSet DEF Keys, KeyOf, OwnerOf
      <3>3. CASE i # Target
        <4>1. slot'[i] = slot[i] /\ slot[i].state # "Writing"
          BY <2>1, <2>2, <2>3, <3>1, <3>3, StateSet DEF Keys
        <4> QED
          BY <2>1, <3>1, <4>1 DEF Keys, KeyOf, OwnerOf, Held
      <3> QED
        BY <3>2, <3>3
    <2>5. CASE slot[Target].state # "Free"
      <3>1. /\ slot' = slot /\ into' = into
            /\ worker' \in {"claim", "claimReady"}
        BY <1>12, <2>5 DEF ClaimsFree
      <3> QED
        BY <2>1, <2>2, <2>3, <3>1 DEF Keys, KeyOf, OwnerOf, Held
    <2> QED
      BY <2>4, <2>5
  <1>13. CASE ClaimsReady
    <2>1. Target \in Slots /\ UNCHANGED <<reader, error, mine, route, at>>
      BY <1>13, TargetIsSlot DEF ClaimsReady, OthersKeep, readerVars
    <2>2. worker \notin {"lock", "upper", "lower", "unlock", "publish"} /\ into = None
      BY <1>13 DEF ClaimsReady, WorkerAt
    <2>3. None \notin Slots
      BY SlotsAssumption DEF Slots, None
    <2>4. CASE slot[Target].state = "Ready"
      <3>1. /\ SetState(Target, "Writing") /\ into' = Target
            /\ worker' = IF route = "cpu" THEN "upper" ELSE "lock"
        BY <1>13, <2>4 DEF ClaimsReady, WorkerAt, TypeOK, DesktopTypes
      <3> SUFFICES ASSUME reader # "over", ~error, NEW i \in Slots
                   PROVE  /\ slot'[i].state = "Reading" => i \in mine
                          /\ slot'[i].state = "Writing" => i = into'
                          /\ slot'[i].key = IF route = "cpu" THEN 0 ELSE KeyOf(i)'
                          /\ slot'[i].owner = IF route = "cpu" THEN "none"
                                                              ELSE OwnerOf(i)'
        BY <2>1 DEF Keys
      <3>2. CASE i = Target
        <4>1. route = "cpu"
          BY <1>13 DEF ClaimsReady, WorkerAt, TypeOK, DesktopTypes
        <4> QED
          BY <2>1, <2>4, <3>1, <3>2, <4>1, StateSet DEF Keys
      <3>3. CASE i # Target
        <4>1. slot'[i] = slot[i] /\ slot[i].state # "Writing"
          BY <2>1, <2>2, <2>3, <3>1, <3>3, StateSet DEF Keys
        <4> QED
          BY <2>1, <3>1, <4>1 DEF Keys, KeyOf, OwnerOf, Held
      <3> QED
        BY <3>2, <3>3
    <2>5. CASE slot[Target].state # "Ready"
      <3>1. /\ slot' = slot /\ into' = into
            /\ worker' \in {"claim", "claimReady"}
        BY <1>13, <2>5 DEF ClaimsReady
      <3> QED
        BY <2>1, <2>2, <2>3, <3>1 DEF Keys, KeyOf, OwnerOf, Held
    <2> QED
      BY <2>4, <2>5
  <1>14. CASE Skips
    BY <1>14
    DEF Skips, OthersKeep, Afterwards, sharedVars, desktopVars, publisherVars,
        drainVars, workerVars, readerVars, TypeOK, SlotTypes, SlotType, WorkerTypes,
        ReaderTypes, DesktopTypes, WorkerAt, ReaderAt, Grasp, Keys, KeyOf, OwnerOf,
        Held
  <1>15. CASE LocksSlot
    BY <1>15
    DEF LocksSlot, OthersKeep, SetState, sharedVars, desktopVars, publisherVars,
        drainVars, workerVars, readerVars, TypeOK, SlotTypes, SlotType, WorkerTypes,
        ReaderTypes, DesktopTypes, WorkerAt, ReaderAt, Grasp, Keys, KeyOf, OwnerOf,
        Held
  <1>16. CASE Upper
    BY <1>16
    DEF Upper, OthersKeep, sharedVars, desktopVars, publisherVars, drainVars,
        workerVars, readerVars, TypeOK, SlotTypes, SlotType, WorkerTypes,
        ReaderTypes, DesktopTypes, WorkerAt, ReaderAt, Grasp, Keys, KeyOf, OwnerOf,
        Held
  <1>17. CASE Lower
    BY <1>17
    DEF Lower, OthersKeep, sharedVars, desktopVars, publisherVars, drainVars,
        workerVars, readerVars, TypeOK, SlotTypes, SlotType, WorkerTypes,
        ReaderTypes, DesktopTypes, WorkerAt, ReaderAt, Grasp, Keys, KeyOf, OwnerOf,
        Held
  <1>18. CASE UnlocksSlot
    BY <1>18
    DEF UnlocksSlot, OthersKeep, sharedVars, desktopVars, publisherVars, drainVars,
        workerVars, readerVars, TypeOK, SlotTypes, SlotType, WorkerTypes,
        ReaderTypes, DesktopTypes, WorkerAt, ReaderAt, Grasp, Keys, KeyOf, OwnerOf,
        Held
  <1>19. CASE Publishes
    BY <1>19
    DEF Publishes, OthersKeep, Afterwards, sharedVars, desktopVars, publisherVars,
        drainVars, workerVars, readerVars, TypeOK, SlotTypes, SlotType, WorkerTypes,
        ReaderTypes, DesktopTypes, WorkerAt, ReaderAt, Grasp, Keys, KeyOf, OwnerOf,
        Held
  <1>20. CASE Wakes
    BY <1>20
    DEF Wakes, WriterKeeps, sharedVars, desktopVars, publisherVars, drainVars,
        workerVars, readerVars, TypeOK, SlotTypes, SlotType, WorkerTypes,
        ReaderTypes, DesktopTypes, WorkerAt, ReaderAt, Grasp, Keys, KeyOf, OwnerOf,
        Held
  <1>21. CASE Claims
    BY <1>21
    DEF Claims, WriterKeeps, SetState, sharedVars, desktopVars, publisherVars,
        drainVars, workerVars, readerVars, TypeOK, SlotTypes, SlotType, WorkerTypes,
        ReaderTypes, DesktopTypes, WorkerAt, ReaderAt, Grasp, Keys, KeyOf, OwnerOf,
        Held
  <1>22. CASE Chooses
    BY <1>22
    DEF Chooses, WriterKeeps, sharedVars, desktopVars, publisherVars, drainVars,
        workerVars, readerVars, TypeOK, SlotTypes, SlotType, WorkerTypes,
        ReaderTypes, DesktopTypes, WorkerAt, ReaderAt, Grasp, Keys, KeyOf, OwnerOf,
        Held
  <1>23. CASE ScanEnds
    BY <1>23
    DEF ScanEnds, WriterKeeps, ToLock, sharedVars, desktopVars, publisherVars,
        drainVars, workerVars, readerVars, TypeOK, SlotTypes, SlotType, WorkerTypes,
        ReaderTypes, DesktopTypes, WorkerAt, ReaderAt, Grasp, Keys, KeyOf, OwnerOf,
        Held
  <1>24. CASE CopiesUpper
    BY <1>24
    DEF CopiesUpper, WriterKeeps, sharedVars, desktopVars, publisherVars, drainVars,
        workerVars, readerVars, TypeOK, SlotTypes, SlotType, WorkerTypes,
        ReaderTypes, DesktopTypes, WorkerAt, ReaderAt, Grasp, Keys, KeyOf, OwnerOf,
        Held
  <1>25. CASE CopiesLower
    BY <1>25
    DEF CopiesLower, WriterKeeps, sharedVars, desktopVars, publisherVars, drainVars,
        workerVars, readerVars, TypeOK, SlotTypes, SlotType, WorkerTypes,
        ReaderTypes, DesktopTypes, WorkerAt, ReaderAt, Grasp, Keys, KeyOf, OwnerOf,
        Held
  <1>26. CASE FreesSlot
    BY <1>26
    DEF FreesSlot, WriterKeeps, SetState, sharedVars, desktopVars, publisherVars,
        drainVars, workerVars, readerVars, TypeOK, SlotTypes, SlotType, WorkerTypes,
        ReaderTypes, DesktopTypes, WorkerAt, ReaderAt, Grasp, Keys, KeyOf, OwnerOf,
        Held
  <1>27. CASE UnlocksFrame
    BY <1>27
    DEF UnlocksFrame, WriterKeeps, sharedVars, desktopVars, publisherVars,
        drainVars, workerVars, readerVars, TypeOK, SlotTypes, SlotType, WorkerTypes,
        ReaderTypes, DesktopTypes, WorkerAt, ReaderAt, Grasp, Keys, KeyOf, OwnerOf,
        Held
  <1>28. CASE Weighs
    BY <1>28
    DEF Weighs, WriterKeeps, SetState, sharedVars, desktopVars, publisherVars,
        drainVars, workerVars, readerVars, TypeOK, SlotTypes, SlotType, WorkerTypes,
        ReaderTypes, DesktopTypes, WorkerAt, ReaderAt, Grasp, Keys, KeyOf, OwnerOf,
        Held
  <1>29. ASSUME NEW i \in mine, LocksFrame(i)
        PROVE  Keys'
    BY <1>29
    DEF LocksFrame, WriterKeeps, SetState, NextToLock, ToLock, sharedVars,
        desktopVars, publisherVars, drainVars, workerVars, readerVars, TypeOK,
        SlotTypes, SlotType, WorkerTypes, ReaderTypes, DesktopTypes, WorkerAt,
        ReaderAt, Grasp, Keys, KeyOf, OwnerOf, Held
  <1>30. CASE ReaderEnds
    BY <1>30
    DEF ReaderEnds, WriterKeeps, sharedVars, desktopVars, publisherVars, drainVars,
        workerVars, readerVars, TypeOK, SlotTypes, SlotType, WorkerTypes,
        ReaderTypes, DesktopTypes, WorkerAt, ReaderAt, Grasp, Keys, KeyOf, OwnerOf,
        Held
  <1>31. CASE MapFails
    BY <1>31
    DEF MapFails, OthersKeep, sharedVars, desktopVars, publisherVars, drainVars,
        workerVars, readerVars, TypeOK, SlotTypes, SlotType, WorkerTypes,
        ReaderTypes, DesktopTypes, WorkerAt, ReaderAt, Grasp, Keys, KeyOf, OwnerOf,
        Held
  <1>32. CASE SubmitFails
    BY <1>32
    DEF SubmitFails, OthersKeep, sharedVars, desktopVars, publisherVars, drainVars,
        workerVars, readerVars, TypeOK, SlotTypes, SlotType, WorkerTypes,
        ReaderTypes, DesktopTypes, WorkerAt, ReaderAt, Grasp, Keys, KeyOf, OwnerOf,
        Held
  <1>33. CASE LockFails
    BY <1>33
    DEF LockFails, OthersKeep, SetState, sharedVars, desktopVars, publisherVars,
        drainVars, workerVars, readerVars, TypeOK, SlotTypes, SlotType, WorkerTypes,
        ReaderTypes, DesktopTypes, WorkerAt, ReaderAt, Grasp, Keys, KeyOf, OwnerOf,
        Held
  <1>34. CASE UnlockFails
    BY <1>34
    DEF UnlockFails, OthersKeep, sharedVars, desktopVars, publisherVars, drainVars,
        workerVars, readerVars, TypeOK, SlotTypes, SlotType, WorkerTypes,
        ReaderTypes, DesktopTypes, WorkerAt, ReaderAt, Grasp, Keys, KeyOf, OwnerOf,
        Held
  <1>35. ASSUME NEW i \in mine, ReaderLockFails(i)
        PROVE  Keys'
    BY <1>35
    DEF ReaderLockFails, WriterKeeps, SetState, NextToLock, ToLock, sharedVars,
        desktopVars, publisherVars, drainVars, workerVars, readerVars, TypeOK,
        SlotTypes, SlotType, WorkerTypes, ReaderTypes, DesktopTypes, WorkerAt,
        ReaderAt, Grasp, Keys, KeyOf, OwnerOf, Held
  <1>36. CASE UNCHANGED vars
    BY <1>36
    DEF vars, sharedVars, desktopVars, publisherVars, drainVars, workerVars,
        readerVars, TypeOK, SlotTypes, SlotType, WorkerTypes, ReaderTypes,
        DesktopTypes, WorkerAt, ReaderAt, Grasp, Keys, KeyOf, OwnerOf, Held
  <1>37. CASE GivesBack
    BY <1>37
    DEF GivesBack, WriterKeeps, SetState, sharedVars, desktopVars, publisherVars,
        drainVars, workerVars, readerVars, TypeOK, SlotTypes, SlotType,
        WorkerTypes, ReaderTypes, DesktopTypes, WorkerAt, ReaderAt, Grasp, Keys,
        KeyOf, OwnerOf, Held
  <1>38. CASE UnlockFrameFails
    BY <1>38
    DEF UnlockFrameFails, WriterKeeps, SetState, sharedVars, desktopVars,
        publisherVars, drainVars, workerVars, readerVars, TypeOK, SlotTypes,
        SlotType, WorkerTypes, ReaderTypes, DesktopTypes, WorkerAt, ReaderAt,
        Grasp, Keys, KeyOf, OwnerOf, Held
  <1> QED
    BY <1>1, <1>2, <1>3, <1>4, <1>5, <1>6, <1>7, <1>8, <1>9, <1>10, <1>11, <1>12,
        <1>13, <1>14, <1>15, <1>16, <1>17, <1>18, <1>19, <1>20, <1>21, <1>22, <1>23,
        <1>24, <1>25, <1>26, <1>27, <1>28, <1>29, <1>30, <1>31, <1>32, <1>33, <1>34,
        <1>35, <1>36, <1>37, <1>38
    DEF Next, WorkerStep, ReaderStep, Mishap

\* Pixels are written only in a slot that nobody reads.
LEMMA WholeStep ==
    ASSUME TypeOK, WorkerAt, ReaderAt, Grasp, Whole, [Next]_vars
    PROVE  Whole'
  <1>1. CASE DesktopChanges
    BY <1>1
    DEF DesktopChanges, sharedVars, desktopVars, publisherVars, drainVars,
        workerVars, readerVars, TypeOK, SlotTypes, SlotType, WorkerTypes,
        ReaderTypes, DesktopTypes, WorkerAt, ReaderAt, Grasp, Whole,
        PicturesAreWhole
  <1>2. CASE Draws
    BY <1>2
    DEF Draws, sharedVars, desktopVars, publisherVars, drainVars, workerVars,
        readerVars, TypeOK, SlotTypes, SlotType, WorkerTypes, ReaderTypes,
        DesktopTypes, WorkerAt, ReaderAt, Grasp, Whole, PicturesAreWhole
  <1>3. CASE Ages
    BY <1>3
    DEF Ages, sharedVars, desktopVars, publisherVars, drainVars, workerVars,
        readerVars, TypeOK, SlotTypes, SlotType, WorkerTypes, ReaderTypes,
        DesktopTypes, WorkerAt, ReaderAt, Grasp, Whole, PicturesAreWhole
  <1>4. CASE WorkerStarts
    BY <1>4
    DEF WorkerStarts, sharedVars, desktopVars, publisherVars, drainVars, workerVars,
        readerVars, TypeOK, SlotTypes, SlotType, WorkerTypes, ReaderTypes,
        DesktopTypes, WorkerAt, ReaderAt, Grasp, Whole, PicturesAreWhole
  <1>5. CASE WorkerEnds
    BY <1>5
    DEF WorkerEnds, sharedVars, desktopVars, publisherVars, drainVars, workerVars,
        readerVars, TypeOK, SlotTypes, SlotType, WorkerTypes, ReaderTypes,
        DesktopTypes, WorkerAt, ReaderAt, Grasp, Whole, PicturesAreWhole
  <1>6. CASE DrainBegins
    BY <1>6
    DEF DrainBegins, OthersKeep, sharedVars, desktopVars, publisherVars, drainVars,
        workerVars, readerVars, TypeOK, SlotTypes, SlotType, WorkerTypes,
        ReaderTypes, DesktopTypes, WorkerAt, ReaderAt, Grasp, Whole,
        PicturesAreWhole
  <1>7. CASE StillDrawing
    BY <1>7
    DEF StillDrawing, OthersKeep, sharedVars, desktopVars, publisherVars, drainVars,
        workerVars, readerVars, TypeOK, SlotTypes, SlotType, WorkerTypes,
        ReaderTypes, DesktopTypes, WorkerAt, ReaderAt, Grasp, Whole,
        PicturesAreWhole
  <1>8. CASE TakesCopy
    BY <1>8
    DEF TakesCopy, OthersKeep, sharedVars, desktopVars, publisherVars, drainVars,
        workerVars, readerVars, TypeOK, SlotTypes, SlotType, WorkerTypes,
        ReaderTypes, DesktopTypes, WorkerAt, ReaderAt, Grasp, Whole,
        PicturesAreWhole
  <1>9. CASE Acquires
    BY <1>9
    DEF Acquires, OthersKeep, sharedVars, desktopVars, publisherVars, drainVars,
        workerVars, readerVars, TypeOK, SlotTypes, SlotType, WorkerTypes,
        ReaderTypes, DesktopTypes, WorkerAt, ReaderAt, Grasp, Whole,
        PicturesAreWhole
  <1>10. CASE WaitEnds
    BY <1>10
    DEF WaitEnds, OthersKeep, sharedVars, desktopVars, publisherVars, drainVars,
        workerVars, readerVars, TypeOK, SlotTypes, SlotType, WorkerTypes,
        ReaderTypes, DesktopTypes, WorkerAt, ReaderAt, Grasp, Whole,
        PicturesAreWhole
  <1>11. CASE Submits
    BY <1>11
    DEF Submits, OthersKeep, sharedVars, desktopVars, publisherVars, drainVars,
        workerVars, readerVars, TypeOK, SlotTypes, SlotType, WorkerTypes,
        ReaderTypes, DesktopTypes, WorkerAt, ReaderAt, Grasp, Whole,
        PicturesAreWhole
  <1>12. CASE ClaimsFree
    BY <1>12
    DEF ClaimsFree, OthersKeep, SetState, Target, sharedVars, desktopVars,
        publisherVars, drainVars, workerVars, readerVars, TypeOK, SlotTypes,
        SlotType, WorkerTypes, ReaderTypes, DesktopTypes, WorkerAt, ReaderAt, Grasp,
        Whole, PicturesAreWhole
  <1>13. CASE ClaimsReady
    BY <1>13
    DEF ClaimsReady, OthersKeep, SetState, Target, sharedVars, desktopVars,
        publisherVars, drainVars, workerVars, readerVars, TypeOK, SlotTypes,
        SlotType, WorkerTypes, ReaderTypes, DesktopTypes, WorkerAt, ReaderAt, Grasp,
        Whole, PicturesAreWhole
  <1>14. CASE Skips
    BY <1>14
    DEF Skips, OthersKeep, Afterwards, sharedVars, desktopVars, publisherVars,
        drainVars, workerVars, readerVars, TypeOK, SlotTypes, SlotType, WorkerTypes,
        ReaderTypes, DesktopTypes, WorkerAt, ReaderAt, Grasp, Whole,
        PicturesAreWhole
  <1>15. CASE LocksSlot
    BY <1>15
    DEF LocksSlot, OthersKeep, SetState, sharedVars, desktopVars, publisherVars,
        drainVars, workerVars, readerVars, TypeOK, SlotTypes, SlotType, WorkerTypes,
        ReaderTypes, DesktopTypes, WorkerAt, ReaderAt, Grasp, Whole,
        PicturesAreWhole
  <1>16. CASE Upper
    BY <1>16
    DEF Upper, OthersKeep, sharedVars, desktopVars, publisherVars, drainVars,
        workerVars, readerVars, TypeOK, SlotTypes, SlotType, WorkerTypes,
        ReaderTypes, DesktopTypes, WorkerAt, ReaderAt, Grasp, Whole,
        PicturesAreWhole
  <1>17. CASE Lower
    BY <1>17
    DEF Lower, OthersKeep, sharedVars, desktopVars, publisherVars, drainVars,
        workerVars, readerVars, TypeOK, SlotTypes, SlotType, WorkerTypes,
        ReaderTypes, DesktopTypes, WorkerAt, ReaderAt, Grasp, Whole,
        PicturesAreWhole
  <1>18. CASE UnlocksSlot
    BY <1>18
    DEF UnlocksSlot, OthersKeep, sharedVars, desktopVars, publisherVars, drainVars,
        workerVars, readerVars, TypeOK, SlotTypes, SlotType, WorkerTypes,
        ReaderTypes, DesktopTypes, WorkerAt, ReaderAt, Grasp, Whole,
        PicturesAreWhole
  <1>19. CASE Publishes
    BY <1>19
    DEF Publishes, OthersKeep, Afterwards, sharedVars, desktopVars, publisherVars,
        drainVars, workerVars, readerVars, TypeOK, SlotTypes, SlotType, WorkerTypes,
        ReaderTypes, DesktopTypes, WorkerAt, ReaderAt, Grasp, Whole,
        PicturesAreWhole
  <1>20. CASE Wakes
    BY <1>20
    DEF Wakes, WriterKeeps, sharedVars, desktopVars, publisherVars, drainVars,
        workerVars, readerVars, TypeOK, SlotTypes, SlotType, WorkerTypes,
        ReaderTypes, DesktopTypes, WorkerAt, ReaderAt, Grasp, Whole,
        PicturesAreWhole
  <1>21. CASE Claims
    BY <1>21
    DEF Claims, WriterKeeps, SetState, sharedVars, desktopVars, publisherVars,
        drainVars, workerVars, readerVars, TypeOK, SlotTypes, SlotType, WorkerTypes,
        ReaderTypes, DesktopTypes, WorkerAt, ReaderAt, Grasp, Whole,
        PicturesAreWhole
  <1>22. CASE Chooses
    BY <1>22
    DEF Chooses, WriterKeeps, sharedVars, desktopVars, publisherVars, drainVars,
        workerVars, readerVars, TypeOK, SlotTypes, SlotType, WorkerTypes,
        ReaderTypes, DesktopTypes, WorkerAt, ReaderAt, Grasp, Whole,
        PicturesAreWhole
  <1>23. CASE ScanEnds
    BY <1>23
    DEF ScanEnds, WriterKeeps, ToLock, sharedVars, desktopVars, publisherVars,
        drainVars, workerVars, readerVars, TypeOK, SlotTypes, SlotType, WorkerTypes,
        ReaderTypes, DesktopTypes, WorkerAt, ReaderAt, Grasp, Whole,
        PicturesAreWhole
  <1>24. CASE CopiesUpper
    BY <1>24
    DEF CopiesUpper, WriterKeeps, sharedVars, desktopVars, publisherVars, drainVars,
        workerVars, readerVars, TypeOK, SlotTypes, SlotType, WorkerTypes,
        ReaderTypes, DesktopTypes, WorkerAt, ReaderAt, Grasp, Whole,
        PicturesAreWhole
  <1>25. CASE CopiesLower
    BY <1>25
    DEF CopiesLower, WriterKeeps, sharedVars, desktopVars, publisherVars, drainVars,
        workerVars, readerVars, TypeOK, SlotTypes, SlotType, WorkerTypes,
        ReaderTypes, DesktopTypes, WorkerAt, ReaderAt, Grasp, Whole,
        PicturesAreWhole
  <1>26. CASE FreesSlot
    BY <1>26
    DEF FreesSlot, WriterKeeps, SetState, sharedVars, desktopVars, publisherVars,
        drainVars, workerVars, readerVars, TypeOK, SlotTypes, SlotType, WorkerTypes,
        ReaderTypes, DesktopTypes, WorkerAt, ReaderAt, Grasp, Whole,
        PicturesAreWhole
  <1>27. CASE UnlocksFrame
    BY <1>27
    DEF UnlocksFrame, WriterKeeps, sharedVars, desktopVars, publisherVars,
        drainVars, workerVars, readerVars, TypeOK, SlotTypes, SlotType, WorkerTypes,
        ReaderTypes, DesktopTypes, WorkerAt, ReaderAt, Grasp, Whole,
        PicturesAreWhole
  <1>28. CASE Weighs
    BY <1>28
    DEF Weighs, WriterKeeps, SetState, sharedVars, desktopVars, publisherVars,
        drainVars, workerVars, readerVars, TypeOK, SlotTypes, SlotType, WorkerTypes,
        ReaderTypes, DesktopTypes, WorkerAt, ReaderAt, Grasp, Whole,
        PicturesAreWhole
  <1>29. ASSUME NEW i \in mine, LocksFrame(i)
        PROVE  Whole'
    BY <1>29
    DEF LocksFrame, WriterKeeps, SetState, NextToLock, ToLock, sharedVars,
        desktopVars, publisherVars, drainVars, workerVars, readerVars, TypeOK,
        SlotTypes, SlotType, WorkerTypes, ReaderTypes, DesktopTypes, WorkerAt,
        ReaderAt, Grasp, Whole, PicturesAreWhole
  <1>30. CASE ReaderEnds
    BY <1>30
    DEF ReaderEnds, WriterKeeps, sharedVars, desktopVars, publisherVars, drainVars,
        workerVars, readerVars, TypeOK, SlotTypes, SlotType, WorkerTypes,
        ReaderTypes, DesktopTypes, WorkerAt, ReaderAt, Grasp, Whole,
        PicturesAreWhole
  <1>31. CASE MapFails
    BY <1>31
    DEF MapFails, OthersKeep, sharedVars, desktopVars, publisherVars, drainVars,
        workerVars, readerVars, TypeOK, SlotTypes, SlotType, WorkerTypes,
        ReaderTypes, DesktopTypes, WorkerAt, ReaderAt, Grasp, Whole,
        PicturesAreWhole
  <1>32. CASE SubmitFails
    BY <1>32
    DEF SubmitFails, OthersKeep, sharedVars, desktopVars, publisherVars, drainVars,
        workerVars, readerVars, TypeOK, SlotTypes, SlotType, WorkerTypes,
        ReaderTypes, DesktopTypes, WorkerAt, ReaderAt, Grasp, Whole,
        PicturesAreWhole
  <1>33. CASE LockFails
    BY <1>33
    DEF LockFails, OthersKeep, SetState, sharedVars, desktopVars, publisherVars,
        drainVars, workerVars, readerVars, TypeOK, SlotTypes, SlotType, WorkerTypes,
        ReaderTypes, DesktopTypes, WorkerAt, ReaderAt, Grasp, Whole,
        PicturesAreWhole
  <1>34. CASE UnlockFails
    BY <1>34
    DEF UnlockFails, OthersKeep, sharedVars, desktopVars, publisherVars, drainVars,
        workerVars, readerVars, TypeOK, SlotTypes, SlotType, WorkerTypes,
        ReaderTypes, DesktopTypes, WorkerAt, ReaderAt, Grasp, Whole,
        PicturesAreWhole
  <1>35. ASSUME NEW i \in mine, ReaderLockFails(i)
        PROVE  Whole'
    BY <1>35
    DEF ReaderLockFails, WriterKeeps, SetState, NextToLock, ToLock, sharedVars,
        desktopVars, publisherVars, drainVars, workerVars, readerVars, TypeOK,
        SlotTypes, SlotType, WorkerTypes, ReaderTypes, DesktopTypes, WorkerAt,
        ReaderAt, Grasp, Whole, PicturesAreWhole
  <1>36. CASE UNCHANGED vars
    BY <1>36
    DEF vars, sharedVars, desktopVars, publisherVars, drainVars, workerVars,
        readerVars, TypeOK, SlotTypes, SlotType, WorkerTypes, ReaderTypes,
        DesktopTypes, WorkerAt, ReaderAt, Grasp, Whole, PicturesAreWhole
  <1>37. CASE GivesBack
    BY <1>37
    DEF GivesBack, WriterKeeps, SetState, sharedVars, desktopVars, publisherVars,
        drainVars, workerVars, readerVars, TypeOK, SlotTypes, SlotType,
        WorkerTypes, ReaderTypes, DesktopTypes, WorkerAt, ReaderAt, Grasp, Whole,
        PicturesAreWhole
  <1>38. CASE UnlockFrameFails
    BY <1>38
    DEF UnlockFrameFails, WriterKeeps, SetState, sharedVars, desktopVars,
        publisherVars, drainVars, workerVars, readerVars, TypeOK, SlotTypes,
        SlotType, WorkerTypes, ReaderTypes, DesktopTypes, WorkerAt, ReaderAt,
        Grasp, Whole, PicturesAreWhole
  <1> QED
    BY <1>1, <1>2, <1>3, <1>4, <1>5, <1>6, <1>7, <1>8, <1>9, <1>10, <1>11, <1>12,
        <1>13, <1>14, <1>15, <1>16, <1>17, <1>18, <1>19, <1>20, <1>21, <1>22, <1>23,
        <1>24, <1>25, <1>26, <1>27, <1>28, <1>29, <1>30, <1>31, <1>32, <1>33, <1>34,
        <1>35, <1>36, <1>37, <1>38
    DEF Next, WorkerStep, ReaderStep, Mishap

LEMMA TypesInit == Init => TypeOK
  <1> SUFFICES ASSUME Init
               PROVE  TypeOK
    OBVIOUS
  <1>1. 0 \in Slots /\ 0 \in 0 .. SlotCount /\ 0 \in 0 .. MaxChains
    BY SlotsAssumption, BoundsAssumption DEF Slots
  <1>2. Blank \in SlotType
    BY DEF Blank, SlotType
  <1>3. DesktopTypes /\ WorkerTypes /\ ReaderTypes
    BY <1>1, RoutesAssumption DEF Init, DesktopTypes, WorkerTypes, ReaderTypes
  <1>4. CopyTypes
    <2>1. <<>> \in Seq(Nat) /\ Len(<<>>) = 0
      OBVIOUS
    <2> QED
      BY <2>1 DEF Init, CopyTypes
  <1>5. SlotTypes
    BY <1>2 DEF Init, SlotTypes
  <1> QED
    BY <1>3, <1>4, <1>5 DEF TypeOK

-----------------------------------------------------------------------------
(* The theorems *)

\* The inductive invariant.
ExchangeInv == TypeOK /\ WorkerAt /\ ReaderAt /\ Grasp /\ Keys /\ Whole

LEMMA ExchangeInit == Init => ExchangeInv
  <1> SUFFICES ASSUME Init
               PROVE  ExchangeInv
    OBVIOUS
  <1>1. \A i \in Slots : slot[i] = Blank
    BY DEF Init
  <1>2. WorkerAt /\ ReaderAt /\ Grasp
    BY DEF Init, WorkerAt, ReaderAt, Grasp
  <1>3. Keys
    BY <1>1 DEF Keys, KeyOf, OwnerOf, Blank
  <1>4. Whole
    BY <1>1 DEF Init, Whole, PicturesAreWhole, Blank
  <1> QED
    BY <1>2, <1>3, <1>4, TypesInit DEF ExchangeInv

LEMMA ExchangeStep == ExchangeInv /\ [Next]_vars => ExchangeInv'
  <1> SUFFICES ASSUME ExchangeInv, [Next]_vars
               PROVE  ExchangeInv'
    OBVIOUS
  <1>1. TypeOK'
    BY DesktopStepTypes, WorkerStepTypes, CopyStepTypes, ReaderStepTypes, SlotStepTypes
    DEF ExchangeInv, TypeOK
  <1> QED
    BY <1>1, WorkerAtStep, ReaderAtStep, GraspStep, KeysStep, WholeStep DEF ExchangeInv

LEMMA ExchangeAlways == Spec => []ExchangeInv
  BY ExchangeInit, ExchangeStep, PTL DEF Spec

\* The types, for any number of slots.
THEOREM TypeCorrect == Spec => []TypeOK
  <1>1. ExchangeInv => TypeOK
    BY DEF ExchangeInv
  <1> QED
    BY <1>1, ExchangeAlways, PTL

\* Neither side writes what the other reads: every picture that the host has is one
\* frame, also when mutexes failed or the swap chain was replaced.
THEOREM WholePictures == Spec => []PicturesAreWhole
  <1>1. ExchangeInv => PicturesAreWhole
    BY DEF ExchangeInv, Whole
  <1> QED
    BY <1>1, ExchangeAlways, PTL

\* No slot and no mutex is lost between the two (GpuFrames.h), for any number of
\* slots and any interleaving.
THEOREM OwnedSlots == Spec => []SlotsAreOwned
  <1>1. ASSUME ExchangeInv, reader # "over", ~error
        PROVE  /\ {i \in Slots : slot[i].state = "Reading"} = mine
               /\ {i \in Slots : slot[i].state = "Writing"} = {into} \ {None}
               /\ \A i \in Slots :
                     /\ slot[i].state = "Free" => slot[i].key = 0 /\ slot[i].owner = "none"
                     /\ route = "gpu" /\ slot[i].state = "Ready" =>
                            slot[i].key = 1 /\ slot[i].owner = "none"
    <2>1. mine \subseteq Slots /\ into \in Slots \cup {None} /\ None \notin Slots
      BY <1>1, SlotsAssumption
      DEF ExchangeInv, TypeOK, ReaderTypes, WorkerTypes, Slots, None
    <2>2. \A i \in Slots : slot[i].state = "Reading" <=> i \in mine
      BY <1>1 DEF ExchangeInv, Keys, Grasp
    <2>3. \A i \in Slots : slot[i].state = "Writing" <=> i = into
      BY <1>1, <2>1 DEF ExchangeInv, Keys, Grasp
    <2>4. \A i \in Slots :
             /\ slot[i].state = "Free" => slot[i].key = 0 /\ slot[i].owner = "none"
             /\ route = "gpu" /\ slot[i].state = "Ready" =>
                    slot[i].key = 1 /\ slot[i].owner = "none"
      BY <1>1 DEF ExchangeInv, Keys, KeyOf, OwnerOf
    <2> QED
      BY <2>1, <2>2, <2>3, <2>4
  <1>2. ExchangeInv => SlotsAreOwned
    BY <1>1 DEF SlotsAreOwned
  <1> QED
    BY <1>2, ExchangeAlways, PTL

=============================================================================
