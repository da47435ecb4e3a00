# Verification of WindowDeck

WindowDeck turns a second computer into a monitor of a Windows PC. A *host* on
the PC creates a virtual display, encodes it and streams it; a *client* on the
other device shows it; a *launcher* (the panel) starts and stops the host. This
directory holds TLA+ models of that program, the TLC configurations that check
them on small instances and proofs, checked by TLAPS, of what matters most for
every instance. Paths such as `secure.rs` are those of `src/crates/windowdeck-*`.

1. [The system](#the-system)
2. [Modules and what they model](#modules-and-what-they-model)
3. [Runs, bounds and fairness](#runs-bounds-and-fairness)
4. [Proofs](#proofs)
5. [Where the code and its documents disagree](#where-the-code-and-its-documents-disagree)
6. [Not modelled](#not-modelled)
7. [Plan](#plan)

## The system

| Component | State | Operations | What is hard |
|---|---|---|---|
| Admission and pairing: `transport/secure.rs`, `pairing.rs`, `host/security.rs`, `client/pairing.rs`, `client/main.rs` | the connection served, the two verdicts of a ceremony, the failure budget, the windows' clicks, both trust lists | hello, the policy of the host, commit, nonce, reveal, verdicts, refuse and linger, store, retry | two people and two programs decide at once, either may stop, two minutes expire on one side only |
| Panel: `launcher/model.rs`, `ui.rs` | the host's state, the request on screen, the answer file | start, stop, finish, read a line, answer | answers of an earlier request, lines read late |
| Trust store: `transport/trust.rs` | `identity.txt` and `peers.txt`, a temporary file per process | identity, devices, is_paired, add, remove, clear | several processes without a lock, crashes, loss of power |
| Server loop: `host/main.rs`, `protocol/connection.rs` | the phase of the session, `SessionHealth`, the published state, the stop file | accept, negotiate, validate, activate, stream, end, halt | every deadline, a stop at any point, an error that stands for several causes |
| Display lease and encoder: `host/capture.rs` | the lease's process or the CPU source, ffmpeg and its watchdog | acquire, spawn, kill, reap, release | scopes of two files decide the order of release |
| Encode pipeline: `capture.rs`, `annex_b.rs`, `protocol/queue.rs` | a queue of two elements, the reader thread, the sender, the watchdog | read, enqueue, send, expire, stop | a kill between two halves of a unit |
| Secure channel: `transport/secure.rs` | sequence numbers, partial record, the `failed` mark | read, peek, write, shutdown | time-outs inside a record |
| Native client: `client/main.rs`, `native.rs` | player, queue of events, watched socket, retry delay | receive, lose, retry, close, recover | who publishes the new socket; packets of the old session |
| Legacy clients: `client/main.rs` | worker, player or window, last frame, watched socket | forward or draw, announce, reconnect, close | errors that stand for a closing; closing while it reconnects |
| Launcher session and broker: `launcher/ui.rs`, `launcher/platform/` | the window's state, the worker, the host it owns, an elevated manager per session and its brokers of the display | start, stop, close, ask, welcome, spawn, clean up, report | an answer that comes after its session, panics, the order of cleanup, the death of the panel |
| Driver and readers of its frames: `driver/windows-idd/`, `windowdeck-media/native/encoder.cpp` | three slots shared with the host, the copies that the GPU has not finished | claim, copy, publish, read, give back | a reader and a writer of two processes that never wait for each other |
| Pure algorithms: `protocol/video.rs`, `quality.rs`, `lib.rs`, `annex_b.rs` | fragments being assembled, NAL units | push, split, fit, encode | boundaries |


**Interactions.** The client dials the host and both run the secure handshake;
the host's policy admits it, refuses it or starts a ceremony, whose request goes
to the panel as a line of the host's output and whose answer comes back in a
file named by the request's random id. An admitted client negotiates
(`Hello`, `Capabilities`, `SessionConfig`), is probed (eight bursts, each
acknowledged), and only then the host takes the display, sends `Start` and
streams. The host serves one connection at a time, in one thread; the panel stops
it with a file that the host polls; trust lists are files that several programs
read and write without a lock. For the modes that add a display the panel first
starts, behind a UAC prompt, an elevated manager which connects back to it and owns
the brokers of the display; the driver of that display leaves its frames in
shared memory, from which the host takes them.

**What makes each part correct.** Pairing: no key without both people, a
rejection is final, honest ends never meet a protocol error, the screen cannot
be used without bound, the serial host always comes back. Trust store: readers
never see a partial list, operations are atomic, an identity is never replaced
under a running program. Server loop: nothing is activated before the probe
passed, the display outlives the encoder and nothing else, the counter of
failures stops what it must and nothing more, a stop is always obeyed, a lost
client's display is freed. Pipeline and channel: what is delivered is a prefix of
what was sent, no unit is torn, `Stop` means that the user stopped. Clients:
recovery touches only its own session, closing never waits for the network,
a lost connection is not a failure of the client. Launcher: the host ends before
the display, nothing elevated stays behind, the panel tells the truth about the end,
closing always ends it. Driver: a picture is of one frame, no slot is lost, a
change that was copied does arrive.

## Modules and what they model

**`Pairing`** models one host, its panel and any set of clients. A connection
`<<c, n>>` (dial `n` of client `c`) stands for the Noise transcript, the six
digits and the request's id, all fresh per connection. `hostPhase` follows
`Security::admit`, `decide` and `pair` and the loops of `pair_as_host`,
`confirm` and `refuse`; `phase` and `stage` follow `connect`, `pair_as_client`
and `connect_paired`. One action is one message read or written with everything
the code does around it (`HostReadsYes` takes a verdict and, if the local one is
there, stores). `HostFinish` is the tail of `Security::pair` (count, report,
return to the loop). The panel reads the host's lines late and in order
(`hostOut`) and answers through `decisionFile`. Both programs may end in any
phase; frames to a closed end are lost. `log` and `misses` are history: a
revocation marks in `log` the pairings it undoes, and `Standing(c)` are those that
nobody has undone. A change of the list is one step here; two that overlap are
`TrustStore`'s subject.

**`TrustStore`** models the directory of one role as used by several processes,
one file system call at a time: `ReadPeers`/`ReadIdentity`, then `write_private`
as `Open` (`create_new`, after removing leftovers), `Fill`, `Sync`, `Check`,
`Rename`. A file is a set of lines with the state of its bytes (absent, torn,
cached, synced); `medium` is what a loss of power would leave. A key that cannot be sealed is an error of
`identity` (`SealFails`); that the sealed form of a key in use cannot be written is not (`WriteFails`). The file system
itself (`Commit`, `PowerLoss`, `Survives`) is external. **`TrustList`** is the
abstract specification: every operation takes effect at once or not at all.
`TrustStore` implements it with `list <- Peers`, the answers as results.

**`HostSession`** models `run_server`, `serve`, `connection::validate`,
`SessionHealth`, `startup_failure`, the owners of the display and the encoder,
and the handshake of the clients (`connect_observed`, `ProbeReceiver`). `phase`
is where the serial host is:

    accept -> hello -> capabilities -> (probe <-> pong) -> ready
      -> (display) -> start -> capture -> stream -> reap -> release -> ended -> accept

and `unstable`, `stopped` after the loop. Connections are queues of messages
in both directions with a window; a side that leaves is seen by the other unless
the network lost it (`lossy`). `Ends(why)` is a return of `serve`: Rust drops the
encoder's owner before the owner of the display, so it goes to `reap`, `release`
or `ended` by what is held. `Counts` is what `startup_failure` makes of the errors
that stand for a cause. `Route` is what the host was started to capture; `Old`
are clients without the probe and without access units, which get the CPU route
in place of the native one. Time is not modelled: a deadline may expire at any
point at which the code would notice it, and a session is `quick` or not by
choice.

**`EncodePipeline`** models one stream through ffmpeg (`stream_h264_input`) from the
spawn of the process to the joins: ffmpeg, `read_encoded_output`, the bounded queue of
`queue.rs`, `EncodedQueue::read`, and either `annex_b::send` with `Units` (`framed`) or
`send_h264_stream`, and the watchdog. The stream of bytes is a row of pieces, numbered;
`starts` has the pieces that are access unit delimiters, and ffmpeg puts them anywhere,
also never or not first, and may end between any two pieces. A chunk is the interval
that one read of the pipe returned, empty at its end. `sender` is where the thread of
the session is:

    top -> next -> judge -> write -> top    and from any of them    reap -> join -> drop -> over

with `stop` before `reap` on the paths that write `Message::Stop`. `top` and `judge` are
the two looks at the stop file around `next_unit`; a third is in `EncodedQueue::read`
(`TakesEnd`) and a fourth in the watchdog. A step of `next` takes one chunk from the
queue or cuts one unit, so that the stop, the watchdog's kill and the reader fall between
any two of them. What `HostSession` sees of this module is one unit sent, an error that
looks like the client's closing, or `Stop`.

**`NativeClient`** models the integrated client from its first connection on: the two
threads of `native.rs`, the queue between them, the assembler of access units, and what
`connect_observed` does to the shared state of both. `net` is where the receiver is and
`main` where the thread of the window is:

    check -> read -> push -> check        push (Lost) -> wait -> dial -> shake -> adopt -> push
    run -> stop -> shut -> drop -> join -> over

and `done` is the end of the receiver. Sockets are numbered in the order in which they are
opened, and a session has the number of its socket. A socket is `"reset"` when the window
shut it because it gave its session up, and `"shut"` for any other reason. `watched` is the
socket behind the lock, which closing shuts; `Attaches` publishes the new one or finds that
it comes too late, as the code does under the lock, and `Adopts` publishes it again after
the handshake. `push` is `send_with_timeout`: `Queues` when there is room, `QueueTimesOut`
after two seconds, `FindsQueueDropped` when the window left; what becomes of the event then
is `GivesUp`, by its kind. `fed` is history: the units that the decoder got since its last
reset. The host is external and honest (fragments in order, `Stop` between two units, new
counters in each session), as `EncodePipeline` and `HostSession` say of it; the network may
break any socket at any time.

**`ClientState`** declares the state that the three clients have in common (sockets, stream, receiver's
place, watched socket), and **`LegacyState`** adds that of the two older ones and what they promise of it.

**`SecureChannel`** models one direction of `SecureStream`: `write_sealed` in one
thread at one end, and at the other a thread that reads and the watchdog that peeks,
which share the receiver behind its mutex (`holder`). A record is a row of units on the wire, its
length and its sealed body; the network may deliver any part of it, alter a unit or break.
A write or a read may time out between any two units. `Fill`, `TooShort`, `Open`, `Refuse`,
`Timeout` and `Ends` are the paths of `next_record`; `Return` gives bytes to a read and only shows
them to a peek. **`BytePipe`** is the abstract specification: bytes come out as they
went in, and an end that failed moves no more. `SecureChannel` implements it (`Pipe`).

**`FrameExchange`** models the driver's thread for a swap chain (`FramePublisher`, the
loop of `Driver.cpp`), the slots of `FrameExchange.h` and the reader of the
other process: `StreamCpuFrames` (`FrameProbe.h`) on the CPU route, `Capture` of `encoder.cpp` on
the GPU route, whose slots have a keyed mutex each. `worker` is where the driver is and `reader`
where the host is:

    top -> drain -> acquire -> (wait) -> top     drain, acquire -> claim -> (claimReady) -> (lock) -> upper -> lower
    -> (unlock) -> publish -> drain, top
    sleep -> scan -> weigh -> upper -> lower -> free -> sleep          the CPU route
    sleep -> scan -> lock -> (upper -> lower ->) unlock -> give -> lock -> sleep    the GPU route

A picture is two halves, copied in two steps, so that a torn one would show. `Lower` is also where the
driver reads the clock (`since` are the slots stamped after the reader's own look at it), and `Publishes` the
exchange that makes the slot ready; the packet goes with it, because nobody reads it before. On the
GPU route `UnlocksFrame` returns the mutex and `GivesBack` the slot; a mutex that cannot be returned
ends the encoder (`UnlockFrameFails`). The reader may end
and the swap chain may be replaced; the GPU and Windows are external (`Draws`, `DesktopChanges`).

**`Launcher`** models a session of the panel. `tick` is the timer of the window (the two
looks at the events around the look at the thread), `worker` follows `session::run`, and
`broker[a]` the manager of attempt `a`, which may outlive its session:

    begin -> ask -> wait -> spawn -> tail -> stopHost -> waitHost -> stopBroker -> waitBroker -> report -> sent -> over
    (any of them before sent) -> unwind -> dropLink -> over
    asking -> dial -> hello -> firewall -> spawn -> run -> ready -> (grace) -> over

`link[a]` is the connection of the manager as the panel has it, and `"pending"` one that nobody
accepted. Every step may fail; the worker may panic anywhere, which drops the host and then the connection
(`DropsHost`, `DropsLink`), each process may die, and the panel may be killed: Windows then closes the job of the
host and the connection of the manager, in either order. The eight seconds that a manager waits after the
loss of its panel are taken to be more than Windows needs for that (`GraceEnds`).

**`LegacyClients`** models the other two clients: `play_legacy`, `forward_h264` and
`reconnect_h264` ("ffplay", an external player behind a pipe), and `receive_frames` with `App`
("rgb332", a window with a worker). `net` is where the worker is, `main` where the main thread is;
`Streaming`, `HostSends` and `HostEnds` are an honest host. `OpenFails` and `DrawFails` are a window or
surface that cannot be made and a frame that cannot be drawn (`App::resumed`, `App::redraw`). `Notifies`, `TakesEvent` and
`TakesFrame` are the announcement of a frame and the two steps in which the window takes it.

## Runs, bounds and fairness

| Run | Shows |
|---|---|
| `pairing_two` | two devices compete for the host: `TrustNeedsBoth`, `RejectionIsFinal` |
| `pairing_one` | one device over three connections, with revocations at any moment: `RevocationLasts`, `NoProtocolError`, `FailureBudget`, and under fairness `HostComesBack`, `RequestWithdrawn` |
| `trust_one_writer` | readers, one writer, crashes, a loss of power or a damaged identity: `RunsWithStored`, and the refinement `ImplementsTrustList` |
| `trust_revocation` | violation with two writers: `RevocationHolds` |
| `session_auto` | automatic route, a client of this version (two connections) and an older one: `ActivationIsValidated`, `DisplayCoversEncoder`, `HonestEndsAgree`, `PanelFollowsHost` |
| `session_native` | native route, four connections of one client: `StormIsHalted`, and under fairness `StopIsObeyed`, `GoneClientFreesDisplay` |
| `pipeline` | one stream, both transports: `StreamIsIntact`, `UnitsAreWhole`, `StopIsExplicit`, and under fairness `StreamEnds` |
| `native_client` | three connections of the integrated client: `DecoderNeverGuesses`, `NothingUnexpected`, `RecoveryIsOwn`, and under fairness `CloseEnds`, `RecoveryEnds` |
| `channel` | one direction of an encrypted stream: `HonestNeverFails`, `CleanEofIsComplete`, the refinement `ImplementsPipe`, and under fairness `AckedArrives` |
| `frames` | both routes from the driver to the host: `PicturesAreWhole`, `SlotsAreOwned`, and under fairness `CopiesLeave`, `PublishedIsTaken` |
| `launcher` | two sessions of the panel: `HostEndsFirst`, `NothingIsLeft`, `PanelTellsTheEnd`, and under fairness `ShutdownEnds` |
| `legacy_clients` | three connections of either client: `FailuresAreReal`, `NoFrameIsForgotten`, and under fairness `CloseEnds` |

The type invariants are not among the properties of the runs: they are proved (below).
The same goes for `ListIsReadable`, `PeekedIsNext` and `HaltIsEarned`, which are proved.

Every property of a passing run has a mutant: a definition of the code changed the
way a plausible bug would change it (variants stand before the definition they
vary), under which TLC finds the property violated.

**Bounds.** *Pairing*: three dials of one device cover "not paired, ceremony,
session", a second ceremony after a failed one, and a revocation before, during
or after a session, with the connection that follows it refused (a device that is
paired anew after one, and then has a session, takes five dials: the theorem covers it); with two devices each of them
meets the other's request and answer. `MaxFailed` is 1 or 2 in place of 3, which
reaches the budget in the dials there are. One unread click is enough for a
decision that comes too late. *TrustStore*: three operations are an add, a
removal and a reader, or two creations and a reader; one mishap is a loss of
power or a damage; more mishaps only repeat the first from another initial
state. *HostSession*: `Rounds` and `Burst` are 2 in place of 8, so that there is a
first, a last, a partial and a complete burst; `Window` is 3 messages, one less
than a `SessionConfig` that was not read yet with a burst and its Ping, so that the
host meets a full and an empty buffer in the probe and in the stream; four connections are three failures and one
more; two connections of a client and of another one show what a session
leaves to the next. *EncodePipeline*: the queue has its real capacity, 2; the pipe and a
read hold two pieces and ffmpeg writes five, which is two units and a torn third, or a
full queue behind a chunk in the reader's hand behind a full pipe. *SecureChannel*: four bytes are two
records of two, a write that is longer than one takes (3) and its rest; `MaxNonce` is 3, so that the
counter ends after them; a record has four units and the wire has room for three, so that every
record is on its way while a part of it was read and a part was not written; one alteration, because nothing is
read after it. *FrameExchange*: two slots in place of three, because with three frames two of them
are already one being read and one full, or both being read; a second swap chain repeats the first one with other initial slots and is
left out of the run (the theorems hold for any number of slots and of swap chains). *Launcher*: two sessions, so that the prompt and the manager of the first meet the
second; the mode with one broker of the display (the other modes have none or two of the same
kind); one unread event of a running worker. *LegacyClients*: three connections, two frames
in each and two messages on their way: a frame that replaces one which was not taken, and
a session lost before, between and after them. *NativeClient*: three
connections are a session, the one that replaces it, and one more that finds the leftovers of
both; three units of two fragments are a first unit, one that follows and one that is left
half read; the queue has its real capacity, 2, and three messages on the wire are more than
a unit.

**Fairness.** *Pairing*: weak fairness of the host's thread (each of its waits has
a time-out: the socket's, `POLL` or `TIMEOUT`) and of the panel's timer
(`PanelReads`, `PanelFinish`). People and clients are not fair. *HostSession*: weak
fairness of the serving thread. Every read and write of `serve` has a time-out
(ten seconds, then two, or the deadline of the probe), waits for children are
bounded (`DisplayLease`: nine and seven seconds), and each loop polls the stop
file or is ended by the watchdog that does. `SendUnit` has a fairness of its own:
an encoder produces, or is declared stalled after eight or ten seconds, which ends
the session (`EncoderFails`, `StartupFails` and `HostDeclines` are not assumed to
happen). A unit may still be sent after the stop file appears, any number of
times, so `StopIsObeyed` does not rest on its absence. Clients and the network
are not fair. *EncodePipeline*: weak fairness of the reader, of the session's thread and of
the watchdog, and of nothing else: ffmpeg may stop writing for ever, and no time-out is
needed for `StreamEnds` (those stand in `TimeOut`, outside of the fair steps). It holds
because each thread waits only for something that the others, or the kill, end: the
reader for the queue or the pipe, the session for the reader, the drop for the watchdog.
*NativeClient*: weak fairness of the receiver (`ReceiverStep`) and of the window
(`WindowStep`), which the operating system schedules. The host (`World`, `HostAnswers`), the
network and the time-outs of the queue and of packets (`Mishap`) are not fair, so closing
does not rest on any of them. `ReceiverStep` includes the end of the receiver's own bounded
waits: the retry delay, which polls `stopping`, and the time limit of dialling. The ten
seconds without a message on an open socket are part of `LinkFails` and not fair.
*SecureChannel*: a reader that keeps reading gets the mutex (strong fairness of its calls, as the
watchdog takes it too), and a call that holds the mutex goes on while it has something to do; the writer,
the watchdog and the network are not fair beyond that. *FrameExchange*: weak fairness of both threads
and of the GPU's copies; Windows need not give another frame, which is what `CopiesLeave` is
about. *Launcher*: weak fairness of the window's timer, of the worker and of each manager, whose
waits all have a deadline (two minutes for the prompt, 45 s for R, eight for the host, 13 for the
manager); a panic unwinds, and Windows closes what a killed panel had open. The person need not press a button nor answer a prompt, and the host, the brokers of the display and the
panel need not fail. *LegacyClients*: weak fairness of the worker and of the main thread, whose
dials and handshakes have time limits, and of ffplay, which exits at the end of its input. The host and a
player that does not read are not fair.

Deadlock is not checked: these systems may stop (bounds used up, everything off).

## Proofs

All proofs hold for any set of clients, processes or keys and any bounds.

* **`PairingProofs`** proves `TypeCorrect` and
  `BothPeopleAgreed` (`TrustNeedsBoth`): the invariant says that what each party
  knows is justified by the log, i.e. a "yes" in a queue, in a remote verdict, in
  the answer file or a local verdict goes back to the click of that person for
  that very connection. Safety alone is not inductive: a stored key is justified
  only through the message that carried the acceptance. `FailuresAreBounded` has
  its own invariant that relates the budget to the history.
  `RejectionStands` (`RejectionIsFinal`) needs to know that an end never says yes and no for one
  connection: `HostFinal` and `ClientFinal` say that once its yes is on its way, read or
  used (`HostGave`, `ClientGave`) the end is no longer open to decide, and that an end which rejected is
  lingering or gone; `Fresh` says that a connection has no trace before it is dialed, because
  the same connection may be accepted again after a failed handshake.
  `SessionsRestOnPairings` (`RevocationLasts`) uses both: that every device of the list has a pairing
  nobody has undone (`TrustStands`) is inductive only because a connection whose key has been stored is
  never served again, so a revoked pairing cannot be stored a second time.
  `AnswersAreExpected` (`NoProtocolError`) rests on `StepInv`: until the codes are on screen at most one message is
  on its way between the end that is served and the host, and it is the one that the other waits for
  (`InStep`); what a client has not read of a host that is gone was right when it was sent (`Unread`).
* **`TrustStoreProofs`** proves `ReadableList` (`ListIsReadable`) for any number of
  writers: whatever gets the list's name was synced under its temporary name, which
  belongs to one process. `Implementation` proves `Spec => ImplementsTrustList`
  under the assumption of a single writer, named in the theorem: each step maps to
  a step of `TrustList` or a stutter; the two facts it needs are that what a writer
  holds is its operation applied to the present list, and that only one holds any.
  `IdentityKept` (`RunsWithStored`) follows the identity through `write_private`, for
  any number of processes and on both systems. The creation of a key and the sealing of
  the 0.4.0 key are the two ways the file is replaced: `CreationInv` says that a
  creation is of a new key, never meets a sealing, and at its rename nobody runs
  with an old key unless that key is already marked as overlapped; `SealInv` that a sealing
  stores the key everybody runs with; `StoredInv` is the property with what makes it
  inductive (a file has one key, and when it is absent nobody runs with a kept one).
* **`HostSessionProofs`** proves `TypeCorrect`, `ActivatedAreValidated`,
  `DisplayCovers`, `PanelFollows` and `HaltsAreEarned`. `HostInv` says what each
  phase implies about the rest of the host (a phase after the probe implies that
  the client is old or the rounds are complete; an encoder exists exactly in
  `stream` and `reap`, and there the display is held). `ProbeInv` relates it to the
  client: a Pong on its way names a round its sender has acknowledged on this
  connection, so the host's rounds never exceed them; without it the count of the
  host would say nothing of the client. `HaltsAreEarned` assumes the native route
  and no old clients, because the other routes violate it (below).
  `EndsAgree` (`HonestEndsAgree`) needs the contents of the queues: `PathInv` says that the messages
  on their way to a client are a path of the client's own rules (`Takes`), from where it is to where the host
  believes it to be. Reading shortens the path at one end and writing lengthens it at the other, so
  the host may be any number of messages ahead, also across the end of its session.

* **`EncodePipelineProofs`** proves `TypeCorrect`, `StopsAreExplicit`, `StreamIntact` and
  `UnitsWhole` for any capacity, pipe and reads. `FlowInv` says where each piece is:
  while the sender goes on, what was written, the fragments to write, the unit that was
  cut, the pieces that wait for a unit, the queue and the chunk in the reader's hand
  follow each other without a gap (`Chain`; five positions, existentially quantified).
  It says nothing once the sender is about to end, because a chunk may then be lost:
  what is proved is that a lost chunk never goes before one that is sent. `Control` has
  what each place of the sender implies (an accepted end, and `stop`, imply that a person
  asked). `UnitsInv` adds that the unit in hand is a stretch between two delimiters
  *unless* a stop was asked: the torn unit of a killed ffmpeg exists in `unit`, and only
  the second look at the stop file withholds it. The lemmas on rows and runs (`RowsGrow`,
  `RowsShrink`, `RunsGrow`, `RunsSplit`) are what `Append`, `Tail`, `\o` and `SubSeq` do to
  consecutive intervals.

* **`NativeClientProofs`** proves `TypeCorrect`, `DecoderIsFedInOrder`
  (`DecoderNeverGuesses`), `HostIsUnderstood` (`NothingUnexpected`) and `RecoveriesAreOwn`
  for any capacity, number of connections and length of units and streams. `QueueInv` says
  that each event of the queue follows the one before it (`Follows`: a packet is the next of
  its session, or comes after the `Connected` of its session), that the first one fits what
  the window has taken, and that the event in the receiver's hand and the assembler continue
  the last. `DecoderNeverGuesses` is not inductive without it, because a packet is skipped,
  expired or decoded long after it was read. `DiscardInv` says that the session being decoded
  is not one that was given up, and `HandInv` that the event in hand is one before what the
  assembler expects. `WireInv` relates the host's place, the fragments on their way
  and the assembler; a reconnection sets all three anew, and `adopt` is the moment at which the
  host may already be writing to a socket that the receiver's assembler does not know.
  Its last sections are about `LegacyClients`, by an instance over the same state:
  `OldClientsFailForACause` (`FailuresAreReal`), `OldWindowIsTold` (`NoFrameIsForgotten`) and
  `OldClientsAreTyped` (its `TypeOK`), for either client and any bounds. The first needs
  `LegacyWire`: what is on its way is what the worker expects next, numbered from where it will be
  when it has done what is in its hand (`NextNumber`), and it has an error only if the host said one.

* **`SecureChannelProofs`** proves `TypeCorrect`, `ChannelIsPipe` (`ImplementsPipe`),
  `HonestChannel` (`HonestNeverFails`), `CleanEnd` (`CleanEofIsComplete`) and `PeekShowsNext` for any sizes of
  records, writes and reads. The refinement needs `OrderInv`: the sealed ranges follow each other
  (`InRow`), and what is decrypted and not read continues what was read (`Place`). That honest ends never
  fail needs to know every unit on its way: `Straight` says that, until something is altered, the units of
  the receiver's partial record, the wire and the sender's buffer are the units of the sealed records
  in a row, so that the receiver's counter and the unit it waits for agree. `CleanEnd` adds
  that an acknowledged byte is on the wire or beyond (`AckedOnWire`), which a mark of failure keeps true
  after an interrupted write.

* **`LauncherProofs`** proves `TypeCorrect`, `HostIsFirst` (`HostEndsFirst`), `NothingElevated` (`NothingIsLeft`) and
  `EndIsTold` (`PanelTellsTheEnd`) for any number of sessions and any modes. None of them is
  inductive. `Welcome` says that a manager goes beyond its hello only when the worker of its own attempt accepted
  it, and that no connection is open once that worker has stopped it; `Connected` ties the
  connection and the host to where the worker is, and says that a killed panel has no worker but what it owned, and `Ready` says that from R on the manager has its displays unless
  something failed. `Released` carries what `waitBroker` learnt to the report. For the panel, `Busy` says
  that a worker which has not reported has no ending among its events, and `Told` that afterwards either the
  last unread event is its verdict or the panel shows it, or the worker panicked and
  nothing is left to read; `Ticking` is what the three places of the timer imply.

* **`FrameExchangeProofs`** proves `TypeCorrect`, `WholePictures` (`PicturesAreWhole`) and `OwnedSlots`
  (`SlotsAreOwned`) for any number of slots, swap chains and frames, on both routes and with every failure. A slot
  has three witnesses of who has it, its state, its mutex and the local variables of the two sides, and
  no step changes all three. `Grasp` says that what a side holds has the state for it, `Keys` what the mutex is in
  each place of its holder (`KeyOf`, `OwnerOf`), and `WorkerAt` and `ReaderAt` which slots a side holds in each of
  its places: the reader claims and gives back in ascending order, so that what it holds is below or above its
  place. `Whole` says that a slot which is ready or being read has one frame, which is true only because nobody
  else writes it; `Grasp` gives that also after errors, when `Keys` says nothing any more.

The assumptions are the named `ASSUME`s of the modules (values that are not
clients or keys, non-empty probe, a queue with room), which TLC evaluates in every run, and those
that a theorem states. Every safety property of the passing runs is proved, the two refinements
included. Only model-checked is liveness under fairness, which is out of this prover's reach (it has no
rules for ENABLED): `HostComesBack`, `RequestWithdrawn`, `StopIsObeyed`, `GoneClientFreesDisplay`,
`StreamEnds`, both `CloseEnds`, `RecoveryEnds`, `AckedArrives`, `CopiesLeave`, `PublishedIsTaken` and
`ShutdownEnds`. `RevocationHolds` is false of the code, and a run shows it.

## Where the code and its documents disagree

One disagreement has a run:

* **`trust_revocation`.** `Trust` says that a revocation applies from the next
  connection on. `add` reads the list and stores it whole without a lock, so a
  pairing that overlaps `devices revoke` puts the revoked key back.

The following were met while modelling. The models contain them, and the
properties are stated so that they hold of the code as it is:

* **Cancelling a pairing.** The waiting screen offers *Cancelar*, but `confirm` reads
  the window only until its first decision: pressed before the PC accepts, it does
  not keep the device unpaired (`client/pairing.rs:276`).
* **First use.** `identity` says that the stored key is always the one used. The existence test
  and the rename of `write_private` are two steps; of two first uses one may run with a key which
  is no longer stored. `RunsWithStored` says so: it exempts the keys of overlapping creations
  (`raced`), and is proved for every other case.
* **A storm of failures.** ADR 0020 says that three failures of startup or by a stall
  stop the host. On the ffmpeg routes the death of the encoder reaches
  `startup_failure` as `UnexpectedEof`, which it takes for a client that closed;
  the counter is reset and each retry activates the display again. On the native
  route the property holds, and is proved. (The same routes may count a *stop*: the
  status of the ffmpeg that the watchdog killed is an error. It has no effect, as
  the host is stopping.)
* **A `Stop` that expires.** ADR 0014 says that an explicit `Stop` ends the session and causes no
  retries, and the loop of the window says that control events must never expire in its
  queue. The receiver queues `Stopped` with the time limit of a packet: if the window takes
  nothing for two seconds, the event is dropped as a failure of the network and the client
  connects again.
* **Closing the RGB332 window during a reconnection.** Its worker connects without an observer and does not
  look at `stopping` after `connect` (`client/main.rs:904-917`). A window that closes then
  shuts the old socket and joins a thread that reads the new one for as long as the host
  streams. `CloseEnds` of `LegacyClients` exempts this case and only this one.
* **The last change of a still desktop (CPU route).** `StreamCpuFrames` reads its clock before it looks at the
  slots (`FrameProbe.h:149`), so a frame that is published during the look seems to come from the future, is
  refused and freed; `Drain` may publish a newer copy before an older one; and a new
  swap chain starts its `sequence` at 0 while `previous` goes on. In each case the last change
  may not be shown until the next one, though the comment at `FrameProbe.h:173` counts on its being repeated.
  `PublishedIsTaken` says that the frame leaves its slot, not that it is shown.

## Not modelled

The bytes of messages and the cryptography (a connection is authenticated by
construction; what is checked is who decided what); the time inside deadlines (any may
expire where the code would notice it); the
console prompt of a host without a panel; in `EncodePipeline` the limits of size and the
parameter sets that `Units` checks (they end the stream as any other refused unit does),
the thread that reads ffmpeg's diagnostics, and the route by monitor index, which has no
watchdog and so notices a stop only with the next unit or chunk; the synthetic pattern and the RGB332
route of `serve` (its frames are in `LegacyClients`); the removal of a monitor by a person; the death of the host
while it holds the lease (the helper sees the end of its pipe); of `SecureChannel` the Noise
handshake itself; of `Launcher` the preflight's checks, the rules of the firewall, the repair of the driver and
a change of mode between two sessions; of `FrameExchange` the pacing by the clock and the set-up of the shared
section; of `LegacyClients` the drawing (`canvas.rs`) and the window in which an address is typed;
of the integrated client its first connection (with the window of the
pairing; `Pairing` and `HostSession` have its messages) and the length of the retry delay.

Components without a model: discovery through mDNS (a library and formatting); diagnostics
(a bounded log); FFmpeg, SDL and Media Foundation behind the C++ of `windowdeck-media`; IddCx and SetupAPI
callbacks of the driver; the geometry of monitors and the graphics capture; the byte-level algorithms (NAL splitting, the
encoding of messages, the choice of a quality), which are sequential and which unit tests
reach. `PROJECT.json` lists each component with its status.

## Plan

Done: `Pairing`, `TrustStore` and `TrustList`, `HostSession`, `EncodePipeline`, `NativeClient`,
`SecureChannel` and `BytePipe`, `FrameExchange`, `Launcher` and `LegacyClients`, with proofs of all.

What could follow: the refinement of `EncodePipeline`'s outcomes (unit, error, `Stop`) by which `HostSession` represents it; an abstract
specification of pairing ("a key enters a list only after two consents") that `Pairing`
implements; the limits of the assembler, the NAL splitter and `quality` against reference definitions.
