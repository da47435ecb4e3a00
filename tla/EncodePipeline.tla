--------------------------- MODULE EncodePipeline ---------------------------
(***************************************************************************)
(* One stream of video that ffmpeg encodes (stream_h264_input of           *)
(* crates/windowdeck-host/src/capture.rs): the process, the thread that    *)
(* reads its pipe into a bounded queue, the thread of the session, which   *)
(* takes the queue apart and writes to the client, and the watchdog, which *)
(* kills the process when the person stops, the client closes or the       *)
(* monitor goes.  The output of ffmpeg is a row of pieces; `starts' has    *)
(* the positions of those that open an access unit (the delimiters that    *)
(* ffmpeg is told to insert).                                              *)
(***************************************************************************)
EXTENDS Integers, Sequences

CONSTANTS
    Transports,  \* subset of BOOLEAN: TRUE sends access units, FALSE MPEG-TS
    CAPACITY,    \* chunks in the queue (queue.rs: 2)
    PipeRoom,    \* bound: pieces that the pipe holds
    ReadRoom,    \* bound: pieces in one read of the pipe
    MaxPieces    \* bound: pieces that ffmpeg encodes

ASSUME TransportsAssumption == Transports \subseteq BOOLEAN
ASSUME CapacityAssumption == CAPACITY \in Nat \ {0}
ASSUME RoomAssumption == PipeRoom \in Nat \ {0} /\ ReadRoom \in Nat \ {0}
ASSUME MaxPiecesAssumption == MaxPieces \in Nat

VARIABLES
    framed,    \* the session sends access units
    asked,     \* the stop file is there
    lost,      \* the client closed, or the monitor was removed or changed
    ffmpeg,    \* "running", "exited" (by itself) or "killed"
    made,      \* pieces written to the pipe
    starts,    \* those that open an access unit
    taken,     \* pieces read from the pipe
    reader,    \* the reading thread: "read", "send", "done" or "failed"
    hand,      \* the chunk it is about to queue
    queue,     \* the chunks between the two threads
    sender,    \* where the thread of the session is
    ended,     \* EncodedQueue::ended: the end of the pipe was accepted
    pending,   \* Units::pending: pieces not yet made into a unit
    next,      \* the result of next_unit: "unit", "end" or "error"
    unit,      \* the pieces of that unit
    number,    \* the number of the next unit or chunk
    out,       \* messages of the unit still to write
    wire,      \* video messages written to the client
    stopSent,  \* Message::Stop was written
    watch,     \* the watchdog: "poll", "kill" or "done"
    result     \* of the stream: "none", "sent", "ok" or "failed"

pipeVars == <<ffmpeg, made, starts, taken>>
queueVars == <<reader, hand, queue>>
unitVars == <<ended, pending, next, unit>>
wireVars == <<number, out, wire, stopSent>>
world == <<framed, asked, lost>>
vars == <<world, pipeVars, queueVars, sender, unitVars, wireVars, watch, result>>

\* What one read of the pipe returned: pieces from .. to - 1, none at its end.
Chunk(from, to) == [from |-> from, to |-> to]
IsEnd(chunk) == chunk.from = chunk.to
NoChunk == Chunk(0, 0)
Pieces(chunk) == [i \in 1 .. chunk.to - chunk.from |-> chunk.from + i - 1]

\* Message::VideoChunk: one of the `count' fragments of unit `n'.
Fragment(n, index, count, from, to) ==
    [number |-> n, index |-> index, count |-> count, from |-> from, to |-> to]

Init ==
    /\ framed \in Transports
    /\ asked = FALSE /\ lost = FALSE
    /\ ffmpeg = "running" /\ made = 0 /\ starts = {} /\ taken = 0
    /\ reader = "read" /\ hand = NoChunk /\ queue = <<>>
    /\ sender = IF framed THEN "top" ELSE "next"
    /\ ended = FALSE /\ pending = <<>> /\ next = "end" /\ unit = <<>>
    /\ number = 0 /\ out = <<>> /\ wire = <<>> /\ stopSent = FALSE
    /\ watch = "poll"
    /\ result = "none"

-----------------------------------------------------------------------------
(* ffmpeg and the world around the host.                                   *)

\* The panel writes the stop file; it stays while this host runs.
AskStop ==
    /\ ~asked
    /\ asked' = TRUE
    /\ UNCHANGED <<framed, lost, pipeVars, queueVars, sender, unitVars,
                   wireVars, watch, result>>

\* The two losses that the watchdog looks for, for the rest of the session.
ClientOrMonitorGoes ==
    /\ ~lost
    /\ lost' = TRUE
    /\ UNCHANGED <<framed, asked, pipeVars, queueVars, sender, unitVars,
                   wireVars, watch, result>>

\* One more piece in the pipe, a delimiter or not: that ffmpeg was told to insert
\* them is all that is known.
Encodes(opens) ==
    /\ ffmpeg = "running"
    /\ made < MaxPieces
    /\ made - taken < PipeRoom
    /\ opens => framed
    /\ made' = made + 1
    /\ starts' = IF opens THEN starts \cup {made} ELSE starts
    /\ UNCHANGED <<world, ffmpeg, taken, queueVars, sender, unitVars, wireVars,
                   watch, result>>

\* It ends by itself, in the middle of a unit or not, with any status.
EncoderExits ==
    /\ ffmpeg = "running"
    /\ ffmpeg' = "exited"
    /\ UNCHANGED <<world, made, starts, taken, queueVars, sender, unitVars,
                   wireVars, watch, result>>

\* Child::kill: what is in the pipe can still be read.
Killed == ffmpeg' = IF ffmpeg = "running" THEN "killed" ELSE ffmpeg

-----------------------------------------------------------------------------
(* read_encoded_output, the thread that empties the pipe.                  *)

ReaderReads(n) ==
    /\ reader = "read"
    /\ taken + n <= made
    /\ taken' = taken + n
    /\ hand' = Chunk(taken, taken + n)
    /\ reader' = "send"
    /\ UNCHANGED <<world, ffmpeg, made, starts, queue, sender, unitVars, wireVars,
                   watch, result>>

ReaderMeetsEnd ==
    /\ reader = "read"
    /\ ffmpeg # "running" /\ taken = made
    /\ hand' = Chunk(taken, taken)
    /\ reader' = "send"
    /\ UNCHANGED <<world, pipeVars, queue, sender, unitVars, wireVars, watch, result>>

\* The queue's receiver lives as long as the function that sends.
Receiving == sender \in {"top", "next", "judge", "write", "stop"}

\* Variant: the queue takes one chunk more than it has room for.
ReaderQueuesOneMore ==
    /\ reader = "send"
    /\ Receiving
    /\ Len(queue) <= CAPACITY
    /\ queue' = Append(queue, hand)
    /\ reader' = IF IsEnd(hand) THEN "done" ELSE "read"
    /\ hand' = NoChunk
    /\ UNCHANGED <<world, pipeVars, sender, unitVars, wireVars, watch, result>>

\* send_with_timeout: the empty chunk of the end is queued as any other.
ReaderQueues ==
    /\ reader = "send"
    /\ Receiving
    /\ Len(queue) < CAPACITY
    /\ queue' = Append(queue, hand)
    /\ reader' = IF IsEnd(hand) THEN "done" ELSE "read"
    /\ hand' = NoChunk
    /\ UNCHANGED <<world, pipeVars, sender, unitVars, wireVars, watch, result>>

\* Variant: a full queue costs the chunk and not the session.
ReaderDropsChunk ==
    /\ reader = "send"
    /\ Receiving
    /\ Len(queue) = CAPACITY
    /\ reader' = "read"
    /\ hand' = NoChunk
    /\ UNCHANGED <<world, pipeVars, queue, sender, unitVars, wireVars, watch, result>>

\* The consumer stalled: the chunk is lost and with it the session.
ReaderTimesOut ==
    /\ reader = "send"
    /\ Receiving
    /\ Len(queue) = CAPACITY
    /\ reader' = "failed"
    /\ hand' = NoChunk
    /\ UNCHANGED <<world, pipeVars, queue, sender, unitVars, wireVars, watch, result>>

ReaderDisconnected ==
    /\ reader = "send"
    /\ ~Receiving
    /\ reader' = "failed"
    /\ hand' = NoChunk
    /\ UNCHANGED <<world, pipeVars, queue, sender, unitVars, wireVars, watch, result>>

-----------------------------------------------------------------------------
(* The thread of the session: annex_b::send with Units, or                 *)
(* send_h264_stream, over EncodedQueue.                                    *)

\* The stop file is looked at before each unit, not before each chunk.
Top ==
    /\ sender = "top"
    /\ sender' = IF asked THEN "stop" ELSE "next"
    /\ UNCHANGED <<world, pipeVars, queueVars, unitVars, wireVars, watch, result>>

\* A second delimiter is in sight: the pieces before it are a unit.
Cuts == {k \in 2 .. Len(pending) : pending[k] \in starts}

\* next_unit returned something to annex_b::send.
Yields(what) ==
    /\ next' = what
    /\ sender' = "judge"

\* Pieces before the first delimiter are no unit.
HasStray == framed /\ pending # <<>> /\ pending[1] \notin starts

RefusesStray ==
    /\ sender = "next"
    /\ HasStray
    /\ Yields("error")
    /\ UNCHANGED <<world, pipeVars, queueVars, ended, pending, unit, wireVars, watch, result>>

\* take_unit: the unit must have a picture beside its delimiter.
TakesUnit(last) ==
    /\ IF last < 2
       THEN Yields("error") /\ UNCHANGED <<pending, unit>>
       ELSE /\ Yields("unit")
            /\ unit' = SubSeq(pending, 1, last)
            /\ pending' = SubSeq(pending, last + 1, Len(pending))
    /\ UNCHANGED <<world, pipeVars, queueVars, ended, wireVars, watch, result>>

SplitsUnit ==
    /\ sender = "next"
    /\ ~HasStray
    /\ framed
    /\ \E k \in Cuts :
        /\ \A j \in Cuts : k <= j
        /\ TakesUnit(k - 1)

\* At the accepted end of the pipe, what is pending passes for a unit.
SplitsLast ==
    /\ sender = "next"
    /\ framed /\ ended /\ Cuts = {}
    /\ ~HasStray
    /\ pending # <<>>
    /\ TakesUnit(Len(pending))

NothingLeft ==
    /\ sender = "next"
    /\ framed /\ ended /\ pending = <<>>
    /\ Yields("end")
    /\ UNCHANGED <<world, pipeVars, queueVars, ended, pending, unit, wireVars, watch, result>>

\* The next read goes to the queue.
Wants == sender = "next" /\ ~ended /\ (framed => Cuts = {} /\ ~HasStray)

\* The stream function returns an error, which drops the queue's receiver.
Fails ==
    /\ sender' = "reap"
    /\ result' = "failed"

\* An error of EncodedQueue reaches annex_b::send through next_unit.
ReadError ==
    IF framed
    THEN Yields("error") /\ UNCHANGED result
    ELSE Fails /\ UNCHANGED next

TakesChunk ==
    /\ Wants
    /\ queue # <<>> /\ ~IsEnd(Head(queue))
    /\ queue' = Tail(queue)
    /\ IF framed
       THEN /\ pending' = pending \o Pieces(Head(queue))
            /\ UNCHANGED <<sender, out>>
       ELSE /\ out' = <<Fragment(number, 0, 1, Head(queue).from, Head(queue).to)>>
            /\ sender' = "write"
            /\ UNCHANGED pending
    /\ UNCHANGED <<world, pipeVars, reader, hand, ended, next, unit, number, wire,
                   stopSent, watch, result>>

\* Variant: any end of the pipe is the end of the video.
TakesAnyEnd ==
    /\ Wants
    /\ queue # <<>> /\ IsEnd(Head(queue))
    /\ queue' = Tail(queue)
    /\ IF TRUE
       THEN /\ ended' = TRUE
            /\ sender' = IF framed THEN "next" ELSE "stop"
            /\ UNCHANGED <<next, result>>
       ELSE /\ ReadError
            /\ UNCHANGED ended
    /\ UNCHANGED <<world, pipeVars, reader, hand, pending, unit, wireVars, watch>>

\* Only an explicit stop turns the end of the pipe into the end of the video.
TakesEnd ==
    /\ Wants
    /\ queue # <<>> /\ IsEnd(Head(queue))
    /\ queue' = Tail(queue)
    /\ IF asked
       THEN /\ ended' = TRUE
            /\ sender' = IF framed THEN "next" ELSE "stop"
            /\ UNCHANGED <<next, result>>
       ELSE /\ ReadError
            /\ UNCHANGED ended
    /\ UNCHANGED <<world, pipeVars, reader, hand, pending, unit, wireVars, watch>>

\* No chunk for ten seconds (recv_timeout), or one that is too old.
ReadTimesOut ==
    /\ Wants
    /\ ReadError
    /\ queue' = IF queue = <<>> THEN queue ELSE Tail(queue)
    /\ UNCHANGED <<world, pipeVars, reader, hand, ended, pending, unit, wireVars, watch>>

ReadDisconnected ==
    /\ Wants
    /\ queue = <<>> /\ reader \in {"done", "failed"}
    /\ ReadError
    /\ UNCHANGED <<world, pipeVars, queueVars, ended, pending, unit, wireVars, watch>>

\* Variant: the stop is not looked at after next_unit.
JudgeOnce ==
    /\ sender = "judge"
    /\ \/ /\ (asked /\ next = "error") \/ next = "end"
          /\ sender' = "stop"
          /\ UNCHANGED <<out, result>>
       \/ /\ ~asked /\ next = "error"
          /\ Fails
          /\ UNCHANGED out
       \/ /\ next = "unit"
          /\ out' = [i \in 1 .. Len(unit) |->
                        Fragment(number, i - 1, Len(unit), unit[i], unit[i] + 1)]
          /\ sender' = "write"
          /\ UNCHANGED result
    /\ next' = "end" /\ unit' = <<>>
    /\ UNCHANGED <<world, pipeVars, queueVars, ended, pending, number, wire, stopSent, watch>>

\* The stop is looked at again: the watchdog can kill ffmpeg halfway through
\* its last write.
Judge ==
    /\ sender = "judge"
    /\ \/ /\ asked \/ next = "end"
          /\ sender' = "stop"
          /\ UNCHANGED <<out, result>>
       \/ /\ ~asked /\ next = "error"
          /\ Fails
          /\ UNCHANGED out
       \/ /\ ~asked /\ next = "unit"
          /\ out' = [i \in 1 .. Len(unit) |->
                        Fragment(number, i - 1, Len(unit), unit[i], unit[i] + 1)]
          /\ sender' = "write"
          /\ UNCHANGED result
    /\ next' = "end" /\ unit' = <<>>
    /\ UNCHANGED <<world, pipeVars, queueVars, ended, pending, number, wire, stopSent, watch>>

\* write_message of a fragment; a write to a client that closed may still
\* succeed, in the buffers of the socket.
WritesFragment ==
    /\ sender = "write" /\ out # <<>>
    /\ wire' = Append(wire, Head(out))
    /\ out' = Tail(out)
    /\ IF Tail(out) = <<>>
       THEN /\ number' = number + 1
            /\ sender' = IF framed THEN "top" ELSE "next"
       ELSE UNCHANGED <<number, sender>>
    /\ UNCHANGED <<world, pipeVars, queueVars, unitVars, stopSent, watch, result>>

WritesStop ==
    /\ sender = "stop"
    /\ stopSent' = TRUE
    /\ sender' = "reap"
    /\ result' = "sent"
    /\ UNCHANGED <<world, pipeVars, queueVars, unitVars, number, out, wire, watch>>

\* The client closed, or the write or the whole unit took too long.
WriteFails ==
    /\ sender \in {"write", "stop"}
    /\ Fails
    /\ UNCHANGED <<world, pipeVars, queueVars, unitVars, wireVars, watch>>

\* What the stream function held is gone; ffmpeg is killed and waited for
\* before the threads are joined.
Reap ==
    /\ sender = "reap"
    /\ Killed
    /\ sender' = "join"
    /\ queue' = <<>> /\ pending' = <<>> /\ out' = <<>>
    /\ UNCHANGED <<world, made, starts, taken, reader, hand, ended, next, unit,
                   number, wire, stopSent, watch, result>>

\* The errors are looked at in this order: the sender's, the reader's, then
\* the status of ffmpeg.
Join ==
    /\ sender = "join"
    /\ reader \in {"done", "failed"}
    /\ result' \in IF result = "sent" /\ reader = "done" /\ ffmpeg = "exited"
                    THEN {"ok", "failed"} ELSE {"failed"}
    /\ sender' = "drop"
    /\ UNCHANGED <<world, pipeVars, queueVars, unitVars, wireVars, watch>>

\* EncoderProcess::drop waits for the watchdog.
Drop ==
    /\ sender = "drop"
    /\ watch = "done"
    /\ sender' = "over"
    /\ UNCHANGED <<world, pipeVars, queueVars, unitVars, wireVars, watch, result>>

-----------------------------------------------------------------------------
(* The watchdog.  Between what it saw and its kill the rest goes on.       *)

\* Variant: the watchdog does not look for the stop.
WatchSeesLoss ==
    /\ watch = "poll"
    /\ lost
    /\ watch' = "kill"
    /\ UNCHANGED <<world, pipeVars, queueVars, sender, unitVars, wireVars, result>>

WatchSees ==
    /\ watch = "poll"
    /\ asked \/ lost
    /\ watch' = "kill"
    /\ UNCHANGED <<world, pipeVars, queueVars, sender, unitVars, wireVars, result>>

\* Nothing was read from ffmpeg for ten seconds.
WatchStalls ==
    /\ watch = "poll"
    /\ watch' = "kill"
    /\ UNCHANGED <<world, pipeVars, queueVars, sender, unitVars, wireVars, result>>

WatchKills ==
    /\ watch = "kill"
    /\ Killed
    /\ watch' = "done"
    /\ UNCHANGED <<world, made, starts, taken, queueVars, sender, unitVars,
                   wireVars, result>>

WatchCancelled ==
    /\ watch = "poll"
    /\ sender = "drop"
    /\ watch' = "done"
    /\ UNCHANGED <<world, pipeVars, queueVars, sender, unitVars, wireVars, result>>

-----------------------------------------------------------------------------
World == AskStop \/ ClientOrMonitorGoes

Encoder ==
    \/ \E opens \in BOOLEAN : Encodes(opens)
    \/ EncoderExits

ReaderStep ==
    \/ \E n \in 1 .. ReadRoom : ReaderReads(n)
    \/ ReaderMeetsEnd
    \/ ReaderQueues
    \/ ReaderDisconnected

SenderStep ==
    \/ Top
    \/ RefusesStray
    \/ SplitsUnit
    \/ SplitsLast
    \/ NothingLeft
    \/ TakesChunk
    \/ TakesEnd
    \/ ReadDisconnected
    \/ Judge
    \/ WritesFragment
    \/ WritesStop
    \/ Reap
    \/ Join
    \/ Drop

WatchStep == WatchSees \/ WatchKills \/ WatchCancelled

\* The time-outs stand apart: no liveness property needs them.
TimeOut == ReaderTimesOut \/ ReadTimesOut \/ WriteFails \/ WatchStalls

Next == World \/ Encoder \/ ReaderStep \/ SenderStep \/ WatchStep \/ TimeOut

Spec == Init /\ [][Next]_vars

\* The three threads of the host run; nothing is assumed of ffmpeg.
FairSpec ==
    /\ Spec
    /\ WF_vars(ReaderStep)
    /\ WF_vars(SenderStep)
    /\ WF_vars(WatchStep)

-----------------------------------------------------------------------------
Chunks == [from : Nat, to : Nat]
Fragments == [number : Nat, index : Nat, count : Nat, from : Nat, to : Nat]

FlagsTypeOK ==
    /\ framed \in BOOLEAN /\ asked \in BOOLEAN /\ lost \in BOOLEAN
    /\ ended \in BOOLEAN /\ stopSent \in BOOLEAN

ThreadsTypeOK ==
    /\ ffmpeg \in {"running", "exited", "killed"}
    /\ reader \in {"read", "send", "done", "failed"}
    /\ sender \in {"top", "next", "judge", "write", "stop", "reap", "join", "drop", "over"}
    /\ next \in {"unit", "end", "error"}
    /\ watch \in {"poll", "kill", "done"}
    /\ result \in {"none", "sent", "ok", "failed"}

DataTypeOK ==
    /\ made \in Nat /\ taken \in Nat /\ starts \subseteq 0 .. made - 1
    /\ hand \in Chunks
    /\ queue \in Seq(Chunks) /\ Len(queue) <= CAPACITY
    /\ pending \in Seq(Nat) /\ unit \in Seq(Nat)
    /\ number \in Nat
    /\ out \in Seq(Fragments) /\ wire \in Seq(Fragments)

\* The types of the state of the process, of the queue and of the threads.
TypeOK == FlagsTypeOK /\ ThreadsTypeOK /\ DataTypeOK

\* "Overflow expires the session; it never drops a dependent H.264 fragment
\* and continues feeding a corrupted bitstream" (queue.rs:1): what the client
\* got is a prefix of what ffmpeg wrote, whatever was late, full or killed.
StreamIsIntact ==
    \A i \in 1 .. Len(wire) :
        /\ wire[i].from = IF i = 1 THEN 0 ELSE wire[i - 1].to
        /\ wire[i].from < wire[i].to /\ wire[i].to <= made

\* The pieces of the unit of a fragment go from a delimiter to the next one.
OfWholeUnit(m) ==
    LET first == m.from - m.index
        after == first + m.count
    IN  /\ first \in starts /\ after \in starts
        /\ \A k \in first + 1 .. after - 1 : k \notin starts

\* A capture that changes or dies "must discard its final AU"
\* (capture.rs:1036), and a stop never passes a unit that ffmpeg was killed
\* in the middle of (annex_b.rs:139): a fragment is sent only of a unit that
\* begins at a delimiter, ends at the next one and was whole when it was cut.
UnitsAreWhole == framed => \A i \in 1 .. Len(wire) : OfWholeUnit(wire[i])

\* "Only an explicit stop may turn pipe EOF into Message::Stop"
\* (capture.rs:1034): a client that is told to stop, and so does not come
\* back, was told so because a person stopped the host.
StopIsExplicit == stopSent => asked

\* A stop, a closed client or a removed monitor ends the stream, and a stream
\* that ended for any reason returns: the threads are joined and ffmpeg is
\* dead, without the help of any time-out.
StreamEnds == (asked \/ lost \/ sender = "reap") ~> sender = "over"
=============================================================================
