---------------------------- MODULE FrameExchange ----------------------------
(***************************************************************************)
(* The frames of the virtual display, from the driver to the host          *)
(* (driver/windows-idd/FramePublisher.h, FrameExchange.h, Driver.cpp): the *)
(* thread that owns the swap chain publishes into slots of shared memory,  *)
(* and a reader of another process takes them without either ever waiting  *)
(* for the other.  On the CPU route the reader is StreamCpuFrames          *)
(* (FrameProbe.h), and on the GPU route the encoder's Capture              *)
(* (windowdeck-media/native/encoder.cpp), where a keyed mutex goes with    *)
(* each slot.  Frames are numbered in the order in which Windows gave them *)
(* and their pixels are two halves, so that a copy takes two steps.        *)
(***************************************************************************)
EXTENDS Integers, Sequences

CONSTANTS
    SlotCount,      \* slots of the shared memory
    Routes,         \* the routes of this instance: "cpu", "gpu"
    MaxFrames,      \* bound: frames that Windows gives
    MaxChains       \* bound: swap chains of the lease

ASSUME SlotsAssumption == SlotCount \in Nat \ {0}
ASSUME RoutesAssumption == Routes \subseteq {"cpu", "gpu"}
ASSUME BoundsAssumption == MaxFrames \in Nat /\ MaxChains \in Nat

VARIABLES
    route,      \* of this lease: Shared.version
    slot,       \* Shared.slots, with the keyed mutex of each
    error,      \* Shared.error
    active,     \* Shared.active
    chains,     \* swap chains so far
    due,        \* Windows has a frame that was not acquired
    frame,      \* the last frame acquired
    worker,     \* where the thread of the swap chain is
    ready,      \* FramePublisher.ready
    pending,    \* FramePublisher.pending: frames whose copy was queued
    drawn,      \* the GPU has finished the copies up to this one
    left,       \* the pending frames that Drain has still to look at
    hand,       \* the frame being published
    tries,      \* slots that were tried for it
    into,       \* the slot it goes to
    cursor, sequence,
    reader,     \* where the reader is
    at,         \* the slot it looks at
    mine,       \* the slots it holds
    selected,   \* the slot whose frame it will show
    since,      \* the slots stamped as published since it read the clock
    previous,   \* the sequence of the last frame it took
    picture,    \* the frame it has: number and halves
    expired     \* the frames up to this one are older than 50 ms

sharedVars == <<slot, error, active>>
desktopVars == <<due, frame>>
publisherVars == <<ready, pending, drawn, cursor, sequence>>
drainVars == <<left, hand, tries, into>>
workerVars == <<worker, publisherVars, drainVars>>
readerVars == <<reader, at, mine, selected, previous, picture>>
vars == <<route, chains, sharedVars, desktopVars, workerVars, readerVars, since,
          expired>>

Slots == 0 .. SlotCount - 1
None == -1
Frames == 0 .. MaxFrames

\* A slot starts free, with its mutex at key 0, which the writer takes.
Blank == [state |-> "Free", key |-> 0, owner |-> "none", sequence |-> 0,
          frame |-> 0, upper |-> 0, lower |-> 0]

Init ==
    /\ route \in Routes
    /\ slot = [i \in Slots |-> Blank]
    /\ error = FALSE /\ active = FALSE /\ chains = 0
    /\ due = FALSE /\ frame = 0
    /\ worker = "off" /\ ready = FALSE
    /\ pending = <<>> /\ drawn = 0 /\ cursor = 0 /\ sequence = 0
    /\ left = <<>> /\ hand = 0 /\ tries = 0 /\ into = None
    /\ reader = "sleep" /\ at = 0 /\ mine = {} /\ selected = None
    /\ since = {} /\ previous = 0
    /\ picture = [frame |-> 0, upper |-> 0, lower |-> 0]
    /\ expired = 0

SetState(i, s) == slot' = [slot EXCEPT ![i].state = s]

-----------------------------------------------------------------------------
(* Windows *)

\* The desktop changes.
DesktopChanges ==
    /\ ~due /\ frame < MaxFrames
    /\ due' = TRUE
    /\ UNCHANGED <<route, chains, frame, sharedVars, workerVars, readerVars, since>>
    /\ UNCHANGED expired

\* The GPU finishes the oldest copy it has not finished.
Draws ==
    /\ \E k \in 1 .. Len(pending) :
          /\ pending[k] > drawn
          /\ \A j \in 1 .. k - 1 : pending[j] <= drawn
          /\ drawn' = pending[k]
    /\ UNCHANGED <<route, chains, sharedVars, desktopVars, worker, ready, pending>>
    /\ UNCHANGED <<cursor, sequence, drainVars, readerVars, since, expired>>

\* AssignSwapChain: a publisher of its own for each swap chain.  The GPU route
\* has one per lease: another finds its generation taken.
WorkerStarts ==
    /\ worker = "off" /\ chains < MaxChains
    /\ chains' = chains + 1
    /\ worker' = "top"
    /\ pending' = <<>> /\ drawn' = frame /\ cursor' = 0 /\ sequence' = 0
    /\ IF route = "gpu" /\ chains > 0
       THEN ready' = FALSE /\ error' = TRUE /\ UNCHANGED active
       ELSE ready' = TRUE /\ active' = TRUE /\ UNCHANGED error
    /\ UNCHANGED <<route, slot, desktopVars, drainVars, readerVars, since>>
    /\ UNCHANGED expired

\* The loop ends between two frames: the stop event, or a swap chain that is no
\* more.  The copies under way are forgotten.
WorkerEnds ==
    /\ worker \in {"top", "wait"} \/ (worker = "drain" /\ left = <<>>)
    /\ worker' = "off"
    /\ active' = FALSE
    /\ pending' = <<>> /\ ready' = FALSE
    /\ UNCHANGED <<route, chains, slot, error, desktopVars, drawn, cursor, sequence>>
    /\ UNCHANGED <<drainVars, readerVars, since, expired>>

-----------------------------------------------------------------------------
(* Drain and Submit *)

\* Everything but the worker, its publisher and the frame in its hand.
OthersKeep == UNCHANGED <<route, chains, active, readerVars, expired>>

\* A copy of the two that there may be leaves.
Without(s, f) ==
    IF f = Head(s) THEN SubSeq(s, 2, Len(s)) ELSE SubSeq(s, 1, Len(s) - 1)

\* The loop's head: Drain looks at the copies, the older first.
DrainBegins ==
    /\ worker = "top"
    /\ left' = IF ready /\ route = "cpu" THEN pending ELSE <<>>
    /\ worker' = "drain"
    /\ OthersKeep
    /\ UNCHANGED <<slot, error, desktopVars, publisherVars, hand, tries, into, since>>

\* A copy that is still being drawn stays for another time.
StillDrawing ==
    /\ worker = "drain" /\ left # <<>> /\ Head(left) > drawn
    /\ left' = Tail(left)
    /\ OthersKeep
    /\ UNCHANGED <<slot, error, desktopVars, worker, publisherVars, hand, tries>>
    /\ UNCHANGED <<into, since>>

\* A copy that is ready leaves the queue and goes for a slot.
TakesCopy ==
    /\ worker = "drain" /\ left # <<>> /\ Head(left) <= drawn
    /\ hand' = Head(left) /\ left' = Tail(left)
    /\ pending' = Without(pending, Head(left))
    /\ worker' = "claim" /\ tries' = 0
    /\ OthersKeep
    /\ UNCHANGED <<slot, error, desktopVars, ready, drawn, cursor, sequence, into>>
    /\ UNCHANGED since

\* Map fails for another reason.
MapFails ==
    /\ worker = "drain" /\ left # <<>>
    /\ error' = TRUE
    /\ left' = Tail(left)
    /\ pending' = Without(pending, Head(left))
    /\ OthersKeep
    /\ UNCHANGED <<slot, desktopVars, worker, ready, drawn, cursor, sequence>>
    /\ UNCHANGED <<hand, tries, into, since>>

\* ReleaseAndAcquireBuffer gives a frame or has none.
Acquires ==
    /\ worker = "drain" /\ left = <<>>
    /\ IF due THEN worker' = "acquire" /\ frame' = frame + 1 /\ due' = FALSE
              ELSE worker' = "wait" /\ UNCHANGED desktopVars
    /\ OthersKeep
    /\ UNCHANGED <<slot, error, publisherVars, drainVars, since>>

\* Variant: the thread sleeps until there is another frame.
WaitEndsWithFrame ==
    /\ worker = "wait"
    /\ due
    /\ worker' = "top"
    /\ OthersKeep
    /\ UNCHANGED <<slot, error, desktopVars, publisherVars, drainVars, since>>

\* It sleeps until there is one, or for 2 ms while a copy is pending.
WaitEnds ==
    /\ worker = "wait"
    /\ due \/ pending # <<>>
    /\ worker' = "top"
    /\ OthersKeep
    /\ UNCHANGED <<slot, error, desktopVars, publisherVars, drainVars, since>>

\* Submit: a copy is queued while there are less than two, the GPU route goes
\* for a slot at once.
Submits ==
    /\ worker = "acquire"
    /\ IF ready /\ route = "gpu"
       THEN worker' = "claim" /\ hand' = frame /\ tries' = 0 /\ UNCHANGED pending
       ELSE /\ worker' = "top"
            /\ pending' = IF ready /\ Len(pending) < 2 THEN Append(pending, frame)
                                                       ELSE pending
            /\ UNCHANGED <<hand, tries>>
    /\ OthersKeep
    /\ UNCHANGED <<slot, error, desktopVars, ready, drawn, cursor, sequence>>
    /\ UNCHANGED <<left, into, since>>

\* The surface is none that Submit knows how to copy.
SubmitFails ==
    /\ worker = "acquire" /\ ready
    /\ error' = TRUE
    /\ worker' = "top"
    /\ OthersKeep
    /\ UNCHANGED <<slot, desktopVars, publisherVars, drainVars, since>>

Target == (cursor + tries) % SlotCount

\* Where the publication of a frame leaves the thread.
Afterwards == IF route = "cpu" THEN "drain" ELSE "top"

\* The first exchange of ClaimWriter, and the only one of the GPU route.
ClaimsFree ==
    /\ worker = "claim" /\ tries < SlotCount
    /\ \/ /\ slot[Target].state = "Free"
          /\ SetState(Target, "Writing")
          /\ into' = Target
          /\ worker' = IF route = "cpu" THEN "upper" ELSE "lock"
          /\ UNCHANGED tries
       \/ /\ slot[Target].state # "Free"
          /\ worker' = IF route = "cpu" THEN "claimReady" ELSE "claim"
          /\ tries' = IF route = "cpu" THEN tries ELSE tries + 1
          /\ UNCHANGED <<slot, into>>
    /\ OthersKeep
    /\ UNCHANGED <<error, desktopVars, publisherVars, left, hand, since>>

\* Variant: it takes a slot that the reader holds.
ClaimsAny ==
    /\ worker = "claimReady"
    /\ IF slot[Target].state # "Writing"
       THEN /\ SetState(Target, "Writing")
            /\ into' = Target /\ worker' = "upper"
            /\ UNCHANGED tries
       ELSE tries' = tries + 1 /\ worker' = "claim" /\ UNCHANGED <<slot, into>>
    /\ OthersKeep
    /\ UNCHANGED <<error, desktopVars, publisherVars, left, hand, since>>

\* The second exchange: a frame that nobody read is replaced.
ClaimsReady ==
    /\ worker = "claimReady"
    /\ IF slot[Target].state = "Ready"
       THEN /\ SetState(Target, "Writing")
            /\ into' = Target /\ worker' = "upper"
            /\ UNCHANGED tries
       ELSE tries' = tries + 1 /\ worker' = "claim" /\ UNCHANGED <<slot, into>>
    /\ OthersKeep
    /\ UNCHANGED <<error, desktopVars, publisherVars, left, hand, since>>

\* No slot: the frame is skipped.
Skips ==
    /\ worker = "claim" /\ tries = SlotCount
    /\ worker' = Afterwards
    /\ cursor' = IF route = "cpu" THEN (cursor + 1) % SlotCount ELSE cursor
    /\ hand' = 0
    /\ OthersKeep
    /\ UNCHANGED <<slot, error, desktopVars, ready, pending, drawn, sequence, left>>
    /\ UNCHANGED <<tries, into, since>>

\* AcquireSync(0, 0) of the slot's mutex: one that is not to be had is left.
LocksSlot ==
    /\ worker = "lock"
    /\ IF slot[into].owner = "none" /\ slot[into].key = 0
       THEN /\ slot' = [slot EXCEPT ![into].owner = "writer"]
            /\ worker' = "upper"
            /\ UNCHANGED <<tries, into>>
       ELSE /\ SetState(into, "Free")
            /\ worker' = "claim" /\ tries' = tries + 1 /\ into' = None
    /\ OthersKeep
    /\ UNCHANGED <<error, desktopVars, publisherVars, left, hand, since>>

\* The mutex fails: the slot is given back and the publisher stops.
LockFails ==
    /\ worker = "lock"
    /\ SetState(into, "Free")
    /\ error' = TRUE /\ ready' = FALSE
    /\ worker' = "top" /\ into' = None /\ hand' = 0
    /\ OthersKeep
    /\ UNCHANGED <<desktopVars, pending, drawn, cursor, sequence, left, tries, since>>

\* The pixels: a row of a half is as good as all of them.
Upper ==
    /\ worker = "upper"
    /\ slot' = [slot EXCEPT ![into].upper = hand]
    /\ worker' = "lower"
    /\ OthersKeep
    /\ UNCHANGED <<error, desktopVars, publisherVars, drainVars, since>>

\* The CPU route reads the clock after the last row: `since' is then what the
\* reader will find published after its own look at the clock, however late the
\* slot is ready.
Lower ==
    /\ worker = "lower"
    /\ slot' = [slot EXCEPT ![into].lower = hand]
    /\ since' = IF reader = "sleep" THEN since ELSE since \cup {into}
    /\ worker' = IF route = "cpu" THEN "publish" ELSE "unlock"
    /\ OthersKeep
    /\ UNCHANGED <<error, desktopVars, publisherVars, drainVars>>

\* ReleaseSync(1): the reader is next.
UnlocksSlot ==
    /\ worker = "unlock"
    /\ slot' = [slot EXCEPT ![into] = [@ EXCEPT !.owner = "none", !.key = 1]]
    /\ worker' = "publish"
    /\ OthersKeep
    /\ UNCHANGED <<error, desktopVars, publisherVars, drainVars, since>>

\* The release fails: the slot stays as it is and the publisher stops.
UnlockFails ==
    /\ worker = "unlock"
    /\ error' = TRUE /\ ready' = FALSE
    /\ worker' = "top" /\ into' = None /\ hand' = 0
    /\ OthersKeep
    /\ UNCHANGED <<slot, desktopVars, pending, drawn, cursor, sequence, left, tries>>
    /\ UNCHANGED since

\* The packet, and the slot is ready.
Publishes ==
    /\ worker = "publish"
    /\ sequence' = sequence + 1
    /\ slot' = [slot EXCEPT ![into] = [@ EXCEPT !.sequence = sequence + 1,
                                              !.frame = hand, !.state = "Ready"]]
    /\ cursor' = IF route = "cpu" THEN (cursor + 1) % SlotCount ELSE (into + 1) % SlotCount
    /\ worker' = Afterwards
    /\ hand' = 0 /\ into' = None
    /\ OthersKeep
    /\ UNCHANGED <<error, desktopVars, ready, pending, drawn, left, tries, since>>

-----------------------------------------------------------------------------
(* The reader *)

WriterKeeps == UNCHANGED <<route, chains, error, active, desktopVars, workerVars, expired>>

\* The loop's head: the clock, and the slots from the first one.
Wakes ==
    /\ reader = "sleep" /\ ~error
    /\ route = "gpu" => active \/ previous = 0
    /\ reader' = "scan" /\ at' = 0 /\ since' = {} /\ selected' = None
    /\ WriterKeeps
    /\ UNCHANGED <<slot, mine, previous, picture>>

\* The host goes, or nothing comes for 8 s, or the stream cannot be written; a
\* host that goes ends the helper wherever it is (WatchStreamHost).
ReaderEnds ==
    /\ reader # "over"
    /\ reader = "sleep" \/ route = "cpu"
    /\ reader' = "over" /\ mine' = {}
    /\ WriterKeeps
    /\ UNCHANGED <<slot, at, selected, since, previous, picture>>

\* Variant: the scan ends at the first frame.
ClaimsOne ==
    /\ reader = "scan" /\ at < SlotCount
    /\ IF slot[at].state = "Ready"
       THEN /\ SetState(at, "Reading")
            /\ mine' = mine \cup {at}
            /\ IF route = "cpu" THEN reader' = "weigh" /\ UNCHANGED at
                                ELSE at' = SlotCount /\ UNCHANGED reader
       ELSE at' = SlotCount /\ UNCHANGED <<slot, mine, reader>>
    /\ WriterKeeps
    /\ UNCHANGED <<selected, since, previous, picture>>

\* The exchange that claims a ready slot.  The CPU route weighs each one at
\* once, the GPU route when it has them all.
Claims ==
    /\ reader = "scan" /\ at < SlotCount
    /\ IF slot[at].state = "Ready"
       THEN /\ SetState(at, "Reading")
            /\ mine' = mine \cup {at}
            /\ IF route = "cpu" THEN reader' = "weigh" /\ UNCHANGED at
                                ELSE at' = at + 1 /\ UNCHANGED reader
       ELSE at' = at + 1 /\ UNCHANGED <<slot, mine, reader>>
    /\ WriterKeeps
    /\ UNCHANGED <<selected, since, previous, picture>>

\* The last 50 ms: a frame that was acquired before is too old.
Old(i) == slot[i].frame <= expired

\* Time passes.
Ages ==
    /\ expired < frame
    /\ expired' = expired + 1
    /\ UNCHANGED <<route, chains, sharedVars, desktopVars, workerVars, readerVars>>
    /\ UNCHANGED since

\* StreamCpuFrames keeps the highest sequence that is new, published before the
\* clock was read and not too old, and frees the others.
Weighs ==
    /\ reader = "weigh"
    /\ LET valid == slot[at].sequence > previous /\ at \notin since /\ ~Old(at)
           better == valid /\ (selected = None \/ slot[at].sequence > slot[selected].sequence)
           dropped == IF better THEN selected ELSE at
       IN  /\ selected' = IF better THEN at ELSE selected
           /\ IF dropped = None
              THEN UNCHANGED <<slot, mine>>
              ELSE /\ SetState(dropped, "Free")
                   /\ mine' = mine \ {dropped}
    /\ at' = at + 1 /\ reader' = "scan"
    /\ WriterKeeps
    /\ UNCHANGED <<since, previous, picture>>

\* The scan is over: the CPU route has one frame at most, the GPU route shows the
\* newest of those it claimed.
Chooses ==
    /\ reader = "scan" /\ at = SlotCount
    /\ at' = 0
    /\ \/ /\ route = "cpu"
          /\ reader' = IF selected = None THEN "sleep" ELSE "upper"
          /\ UNCHANGED selected
       \/ /\ route = "gpu" /\ mine = {}
          /\ reader' = "sleep"
          /\ UNCHANGED selected
       \/ /\ route = "gpu"
          /\ selected' \in mine
          /\ \A j \in mine : slot[j].sequence <= slot[selected'].sequence
          /\ reader' = "lock"
    /\ WriterKeeps
    /\ UNCHANGED <<slot, mine, since, previous, picture>>

\* The slots that Capture has still to go through, from `at' on.
ToLock == {i \in mine : i >= at}

NextToLock(i) == i \in ToLock /\ \A j \in ToLock : i <= j

\* AcquireSync(1, 0).  One that is not to be had goes back; the newest frame is
\* copied, if it is new and not too old, and the key of the others is consumed.
LocksFrame(i) ==
    /\ reader = "lock" /\ NextToLock(i)
    /\ LET valid == i = selected /\ slot[i].sequence > previous /\ ~Old(i) IN
       IF slot[i].owner = "none" /\ slot[i].key = 1
       THEN /\ slot' = [slot EXCEPT ![i].owner = "reader"]
            /\ at' = i /\ reader' = IF valid THEN "upper" ELSE "unlock"
            /\ UNCHANGED mine
       ELSE /\ SetState(i, "Ready")
            /\ mine' = mine \ {i} /\ at' = i + 1
            /\ UNCHANGED reader
    /\ WriterKeeps
    /\ UNCHANGED <<selected, since, previous, picture>>

\* The mutex is lost: the slot is given back and the encoder ends.
ReaderLockFails(i) ==
    /\ reader = "lock" /\ NextToLock(i)
    /\ reader' = "over" /\ mine' = {}
    /\ SetState(i, "Free")
    /\ WriterKeeps
    /\ UNCHANGED <<at, selected, since, previous, picture>>

ScanEnds ==
    /\ reader = "lock" /\ ToLock = {}
    /\ reader' = "sleep" /\ selected' = None /\ at' = 0
    /\ WriterKeeps
    /\ UNCHANGED <<slot, mine, since, previous, picture>>

\* The selected pixels.
CopiesUpper ==
    /\ reader = "upper"
    /\ picture' = [picture EXCEPT !.upper = slot[selected].upper]
    /\ reader' = "lower"
    /\ WriterKeeps
    /\ UNCHANGED <<slot, at, mine, selected, since, previous>>

CopiesLower ==
    /\ reader = "lower"
    /\ picture' = [picture EXCEPT !.lower = slot[selected].lower,
                                  !.frame = slot[selected].frame]
    /\ previous' = slot[selected].sequence
    /\ reader' = IF route = "cpu" THEN "free" ELSE "unlock"
    /\ WriterKeeps
    /\ UNCHANGED <<slot, at, mine, selected, since>>

\* The slot of the CPU route is free again, and the picture is written, and
\* written again until there is another.
FreesSlot ==
    /\ reader = "free"
    /\ SetState(selected, "Free")
    /\ mine' = mine \ {selected} /\ selected' = None
    /\ reader' = "sleep"
    /\ WriterKeeps
    /\ UNCHANGED <<at, since, previous, picture>>

\* Variant: the key of a dropped frame is not consumed.
UnlocksOnlyShown ==
    /\ reader = "unlock"
    /\ slot' = IF at = selected
               THEN [slot EXCEPT ![at].owner = "none", ![at].key = 0]
               ELSE [slot EXCEPT ![at].owner = "none"]
    /\ reader' = "give"
    /\ WriterKeeps
    /\ UNCHANGED <<at, mine, selected, since, previous, picture>>

\* ReleaseSync(0): the writer is next.
UnlocksFrame ==
    /\ reader = "unlock"
    /\ slot' = [slot EXCEPT ![at] = [@ EXCEPT !.owner = "none", !.key = 0]]
    /\ reader' = "give"
    /\ WriterKeeps
    /\ UNCHANGED <<at, mine, selected, since, previous, picture>>

\* The slot of the GPU route is free, and the scan goes on.
GivesBack ==
    /\ reader = "give"
    /\ SetState(at, "Free")
    /\ mine' = mine \ {at} /\ at' = at + 1
    /\ reader' = "lock"
    /\ WriterKeeps
    /\ UNCHANGED <<selected, since, previous, picture>>

\* The release fails: the slot is given back all the same, with the mutex as it
\* was, and the encoder ends.
UnlockFrameFails ==
    /\ reader = "unlock"
    /\ reader' = "over" /\ mine' = {}
    /\ SetState(at, "Free")
    /\ WriterKeeps
    /\ UNCHANGED <<at, selected, since, previous, picture>>

-----------------------------------------------------------------------------
WorkerStep ==
    \/ DrainBegins \/ StillDrawing \/ TakesCopy \/ Acquires \/ WaitEnds \/ Submits
    \/ ClaimsFree \/ ClaimsReady \/ Skips \/ LocksSlot \/ Upper \/ Lower
    \/ UnlocksSlot \/ Publishes

ReaderStep ==
    \/ Wakes \/ Claims \/ Chooses \/ ScanEnds \/ CopiesUpper \/ CopiesLower
    \/ FreesSlot \/ UnlocksFrame \/ GivesBack
    \/ Weighs \/ \E i \in mine : LocksFrame(i)

Mishap ==
    \/ MapFails \/ SubmitFails \/ LockFails \/ UnlockFails \/ UnlockFrameFails
    \/ \E i \in mine : ReaderLockFails(i)

Next ==
    \/ DesktopChanges \/ Draws \/ Ages \/ WorkerStarts \/ WorkerEnds
    \/ WorkerStep \/ ReaderStep \/ ReaderEnds \/ Mishap

Spec == Init /\ [][Next]_vars

\* The threads are scheduled and the GPU ends its copies.
FairSpec == Spec /\ WF_vars(WorkerStep) /\ WF_vars(ReaderStep) /\ WF_vars(Draws)

-----------------------------------------------------------------------------
SlotType == [state : {"Free", "Writing", "Ready", "Reading"}, key : {0, 1},
             owner : {"none", "writer", "reader"}, sequence : Nat, frame : Nat,
             upper : Nat, lower : Nat]

DesktopTypes ==
    /\ route \in {"cpu", "gpu"} /\ error \in BOOLEAN /\ active \in BOOLEAN
    /\ chains \in 0 .. MaxChains /\ due \in BOOLEAN /\ frame \in Nat
    /\ ready \in BOOLEAN /\ drawn \in Nat /\ expired \in Nat

WorkerTypes ==
    /\ worker \in {"off", "top", "drain", "acquire", "wait", "claim", "claimReady",
                   "lock", "upper", "lower", "unlock", "publish"}
    /\ hand \in Nat /\ tries \in 0 .. SlotCount /\ into \in Slots \cup {None}
    /\ cursor \in Slots /\ sequence \in Nat

CopyTypes == pending \in Seq(Nat) /\ Len(pending) <= 2 /\ left \in Seq(Nat)

ReaderTypes ==
    /\ reader \in {"sleep", "scan", "weigh", "lock", "upper", "lower", "free", "unlock",
                   "give", "over"}
    /\ at \in 0 .. SlotCount /\ mine \subseteq Slots /\ selected \in Slots \cup {None}
    /\ since \subseteq Slots /\ previous \in Nat
    /\ picture \in [frame : Nat, upper : Nat, lower : Nat]

SlotTypes == slot \in [Slots -> SlotType]

\* The type invariant.
TypeOK == DesktopTypes /\ WorkerTypes /\ CopyTypes /\ ReaderTypes /\ SlotTypes

\* A picture is never made of two frames, and it is the frame that its packet
\* says (ADR 0011: a slot reserved by a reader is not written).
PicturesAreWhole ==
    reader \notin {"lower", "over"} =>
        picture.upper = picture.frame /\ picture.lower = picture.frame

\* No slot is lost: those that say so are the writer's and the reader's, the
\* others may be written, and their mutexes never disagree with them, so that
\* neither side meets one it cannot take (GpuFrames.h: keys alternate writer=0,
\* reader=1).
SlotsAreOwned ==
    reader # "over" /\ ~error =>
        /\ {i \in Slots : slot[i].state = "Reading"} = mine
        /\ {i \in Slots : slot[i].state = "Writing"} = {into} \ {None}
        /\ \A i \in Slots :
              /\ slot[i].state = "Free" => slot[i].key = 0 /\ slot[i].owner = "none"
              /\ route = "gpu" /\ slot[i].state = "Ready" =>
                     slot[i].key = 1 /\ slot[i].owner = "none"

\* A copy that was queued is published or skipped even if the desktop then
\* stays the same.
CopiesLeave ==
    \A f \in 1 .. MaxFrames :
        (\E k \in 1 .. Len(pending) : pending[k] = f) ~>
            ~(\E k \in 1 .. Len(pending) : pending[k] = f)

\* A published frame does not stay in its slot, shown or dropped for another, unless
\* the reader ends or the driver reports an error.
PublishedIsTaken ==
    \A f \in 1 .. MaxFrames :
        (\E i \in Slots : slot[i].state = "Ready" /\ slot[i].frame = f) ~>
            \/ \A i \in Slots : slot[i].state = "Ready" => slot[i].frame # f
            \/ reader = "over" \/ error
            \/ route = "gpu" /\ ~active
=============================================================================
