--------------------------- MODULE SecureChannel ----------------------------
(***************************************************************************)
(* One direction of SecureStream (crates/windowdeck-transport/src/         *)
(* secure.rs): a thread that writes at one end, a thread that reads and a  *)
(* watchdog that peeks at the other.  Both share the receiver behind its   *)
(* mutex.  A record is RecordUnits units on the wire: two of its length    *)
(* and two of its sealed body; bytes of the plaintext are named by their   *)
(* places in the stream.                                                   *)
(***************************************************************************)
EXTENDS Integers, Sequences

CONSTANTS
    MAX_RECORD_PLAINTEXT,   \* bytes of a record
    MAX_WRITE,              \* bytes that one write takes
    MaxNonce,               \* the last value of the counter (u64::MAX)
    MaxMessage,             \* bound: bytes handed to a write
    MaxBytes,               \* bound: bytes of the stream
    MaxWant,                \* bound: bytes that a read or a peek asks for
    WireRoom,               \* bound: units on their way
    MaxDamage               \* bound: units altered on their way

ASSUME SizesAssumption ==
    /\ MAX_RECORD_PLAINTEXT \in Nat \ {0}
    /\ MAX_WRITE \in Nat \ {0}
    /\ MaxNonce \in Nat
ASSUME BoundsAssumption ==
    /\ MaxMessage \in Nat /\ MaxBytes \in Nat /\ MaxWant \in Nat \ {0}
    /\ WireRoom \in Nat /\ MaxDamage \in Nat

VARIABLES
    nonce,      \* Sender: the counter of the next record
    sfailed,    \* Sender.failed
    buffer,     \* Sender.buffer: what write_all has still to write
    writing,    \* write_sealed is in write_all
    acked,      \* the bytes whose write returned Ok are the first `acked'
    sealed,     \* the plaintext of record n is sealed[n + 1], as [lo, hi]
    wire,       \* units between the two ends
    conn,       \* "open"; closed by "sender" or "receiver"; "reset"
    damage,     \* units altered so far
    rnonce,     \* Receiver: the counter of the next record
    rfailed,    \* Receiver.failed
    record,     \* Receiver.record[..filled]
    plain,      \* Receiver.plain, as [lo, hi]
    offset,     \* Receiver.offset
    holder,     \* the thread inside read_plain, which holds the mutex
    want,       \* the bytes it asked for
    got,        \* the bytes that read returned, in order
    seen,       \* what peek returned since the last read
    eof         \* a call returned Ok(0)

senderVars == <<nonce, sfailed, buffer, writing, acked, sealed>>
netVars == <<wire, conn, damage>>
receiverVars == <<rnonce, rfailed, record, plain, offset>>
callVars == <<holder, want, got, seen, eof>>
vars == <<senderVars, netVars, receiverVars, callVars>>

Threads == {"read", "watch"}
Nobody == -1
RecordUnits == 4

\* The p-th unit of the record sealed with counter n; the second one completes
\* the length, which says how many units the record has.
Unit(n, p) == [rec |-> n, part |-> p, need |-> RecordUnits]

\* The last byte handed over so far.
Bytes == IF sealed = <<>> THEN 0 ELSE sealed[Len(sealed)].hi

Least(a, b) == IF a < b THEN a ELSE b

Init ==
    /\ nonce = 0
    /\ sfailed = FALSE
    /\ buffer = <<>>
    /\ writing = FALSE
    /\ acked = 0
    /\ sealed = <<>>
    /\ wire = <<>>
    /\ conn = "open"
    /\ damage = 0
    /\ rnonce = 0
    /\ rfailed = FALSE
    /\ record = <<>>
    /\ plain = [lo |-> 1, hi |-> 0]
    /\ offset = 0
    /\ holder = "none"
    /\ want = 0
    /\ got = <<>>
    /\ seen = <<>>
    /\ eof = FALSE

-----------------------------------------------------------------------------
(* write_sealed *)

\* The chunks of the next m bytes.
Chunks(m) == (m + MAX_RECORD_PLAINTEXT - 1) \div MAX_RECORD_PLAINTEXT
Chunk(m, i) ==
    [lo |-> Bytes + (i - 1) * MAX_RECORD_PLAINTEXT + 1,
     hi |-> Bytes + Least(i * MAX_RECORD_PLAINTEXT, m)]

\* Variant: the counter is not checked.
WriteUnchecked(n) ==
    LET m == Least(n, MAX_WRITE) IN
    /\ ~writing
    /\ ~sfailed
    /\ Bytes + n <= MaxBytes
    /\ sealed' = sealed \o [i \in 1 .. Chunks(m) |-> Chunk(m, i)]
    /\ buffer' = [u \in 1 .. Chunks(m) * RecordUnits |->
                    Unit(nonce + (u - 1) \div RecordUnits,
                         ((u - 1) % RecordUnits) + 1)]
    /\ nonce' = nonce + Chunks(m)
    /\ writing' = TRUE
    /\ UNCHANGED <<sfailed, acked, netVars, receiverVars, callVars>>

\* The write of n bytes: those that fit are sealed, a record for each chunk.
\* A write on a failed sender is an error and changes nothing.
Write(n) ==
    LET m == Least(n, MAX_WRITE) IN
    /\ ~writing
    /\ ~sfailed
    /\ Bytes + n <= MaxBytes
    /\ nonce + Chunks(m) <= MaxNonce
    /\ sealed' = sealed \o [i \in 1 .. Chunks(m) |-> Chunk(m, i)]
    /\ buffer' = [u \in 1 .. Chunks(m) * RecordUnits |->
                    Unit(nonce + (u - 1) \div RecordUnits,
                         ((u - 1) % RecordUnits) + 1)]
    /\ nonce' = nonce + Chunks(m)
    /\ writing' = TRUE
    /\ UNCHANGED <<sfailed, acked, netVars, receiverVars, callVars>>

\* The counter runs out within the write: an error before anything is written.
WriteExhausted(n) ==
    /\ ~writing
    /\ ~sfailed
    /\ nonce + Chunks(Least(n, MAX_WRITE)) > MaxNonce
    /\ nonce' = MaxNonce
    /\ UNCHANGED <<sfailed, buffer, writing, acked, sealed>>
    /\ UNCHANGED <<netVars, receiverVars, callVars>>

\* write_all puts a unit on the wire; one that a peer which has closed never
\* reads is written all the same.
Put ==
    /\ buffer # <<>>
    /\ conn \in {"open", "receiver"}
    /\ Len(wire) < WireRoom
    /\ wire' = IF conn = "open" THEN Append(wire, Head(buffer)) ELSE wire
    /\ buffer' = Tail(buffer)
    /\ UNCHANGED <<nonce, sfailed, writing, acked, sealed, conn, damage>>
    /\ UNCHANGED <<receiverVars, callVars>>

WriteReturns ==
    /\ writing
    /\ buffer = <<>>
    /\ writing' = FALSE
    /\ acked' = Bytes
    /\ UNCHANGED <<nonce, sfailed, buffer, sealed>>
    /\ UNCHANGED <<netVars, receiverVars, callVars>>

\* Variant: part of the record on the wire is forgotten.
WriteInterruptedGoesOn ==
    /\ buffer # <<>>
    /\ sfailed' = sfailed
    /\ buffer' = <<>>
    /\ writing' = FALSE
    /\ UNCHANGED <<nonce, acked, sealed, netVars, receiverVars, callVars>>

\* write_all fails, on a timeout or because the connection ended.
WriteInterrupted ==
    /\ buffer # <<>>
    /\ sfailed' = TRUE
    /\ buffer' = <<>>
    /\ writing' = FALSE
    /\ UNCHANGED <<nonce, acked, sealed, netVars, receiverVars, callVars>>

-----------------------------------------------------------------------------
(* The connection *)

\* Either end shuts it: what the sender wrote before still arrives, and the
\* receiver that closes gives up what it has not read.
Shut(end) ==
    /\ conn = "open"
    /\ conn' = end
    /\ wire' = IF end = "sender" THEN wire ELSE <<>>
    /\ UNCHANGED <<senderVars, damage, receiverVars, callVars>>

Reset ==
    /\ conn \in {"open", "sender"}
    /\ conn' = "reset"
    /\ wire' = <<>>
    /\ UNCHANGED <<senderVars, damage, receiverVars, callVars>>

\* A unit arrives altered: another length, or a body that nobody sealed.
Damage(u) ==
    /\ damage < MaxDamage
    /\ damage' = damage + 1
    /\ \/ /\ wire[u].part = 2
          /\ \E need \in {2, 3, RecordUnits + 1} :
                wire' = [wire EXCEPT ![u].need = need]
       \/ /\ wire[u].part > 2
          /\ wire' = [wire EXCEPT ![u].rec = Nobody]
    /\ UNCHANGED <<senderVars, conn, receiverVars, callVars>>

-----------------------------------------------------------------------------
(* read_plain and next_record *)

Unread == plain.hi - plain.lo + 1 - offset

\* `needed': the length field first, then the whole record.
Needed == IF Len(record) < 2 THEN 2 ELSE record[2].need

\* The body opens with the counter that the receiver expects.
Opens ==
    /\ Len(record) = RecordUnits
    /\ record[3] = Unit(rnonce, 3)
    /\ record[4] = Unit(rnonce, 4)

\* A thread takes the mutex.  A call on a failed receiver is an error and
\* changes nothing.
Call(t, n) ==
    /\ holder = "none"
    /\ ~rfailed
    /\ holder' = t
    /\ want' = n
    /\ UNCHANGED <<got, seen, eof, senderVars, netVars, receiverVars>>

\* The call ends: the mutex is free.
Release == holder' = "none" /\ want' = 0

\* Inside next_record.
Filling == holder # "none" /\ Unread = 0

Fill ==
    /\ Filling
    /\ wire # <<>>
    /\ Len(record) < Needed
    /\ record' = Append(record, Head(wire))
    /\ wire' = Tail(wire)
    /\ UNCHANGED <<rnonce, rfailed, plain, offset, conn, damage>>
    /\ UNCHANGED <<senderVars, callVars>>

\* The length is too short for a record.
TooShort ==
    /\ Filling
    /\ Len(record) >= 2
    /\ Needed <= 2
    /\ rfailed' = TRUE
    /\ Release
    /\ UNCHANGED <<rnonce, record, plain, offset, got, seen, eof>>
    /\ UNCHANGED <<senderVars, netVars>>

\* Variant: the place in the plaintext survives the record it belongs to.
OpenKeepsOffset ==
    /\ Filling
    /\ Len(record) = Needed /\ Needed > 2
    /\ Opens
    /\ plain' = sealed[rnonce + 1]
    /\ offset' = Least(offset, plain'.hi - plain'.lo + 1)
    /\ record' = <<>>
    /\ rnonce' = rnonce + 1
    /\ UNCHANGED <<rfailed, holder, want>>
    /\ UNCHANGED <<got, seen, eof, senderVars, netVars>>

\* A complete record is opened; one with the last counter would be the end.
Open ==
    /\ Filling
    /\ Len(record) = Needed /\ Needed > 2
    /\ Opens
    /\ plain' = sealed[rnonce + 1]
    /\ offset' = 0
    /\ record' = <<>>
    /\ IF rnonce < MaxNonce
       THEN rnonce' = rnonce + 1 /\ UNCHANGED <<rfailed, holder, want>>
       ELSE rfailed' = TRUE /\ Release /\ UNCHANGED rnonce
    /\ UNCHANGED <<got, seen, eof, senderVars, netVars>>

\* A record that does not open.
Refuse ==
    /\ Filling
    /\ Len(record) = Needed /\ Needed > 2
    /\ ~Opens
    /\ rfailed' = TRUE
    /\ Release
    /\ UNCHANGED <<rnonce, record, plain, offset, got, seen, eof>>
    /\ UNCHANGED <<senderVars, netVars>>

Starved == Filling /\ wire = <<>> /\ Len(record) < Needed

\* Variant: the partial record is dropped.
TimeoutDropsRecord ==
    /\ Starved
    /\ conn = "open"
    /\ Release
    /\ record' = <<>>
    /\ UNCHANGED <<rnonce, rfailed, plain, offset>>
    /\ UNCHANGED <<got, seen, eof, senderVars, netVars>>

\* The read timeout: an error that keeps the partial record.
Timeout ==
    /\ Starved
    /\ conn = "open"
    /\ Release
    /\ UNCHANGED <<got, seen, eof, senderVars, netVars, receiverVars>>

\* Variant: an end inside a record passes for an end of the stream.
EndsAnywhere ==
    /\ Starved
    /\ conn # "open"
    /\ Release
    /\ eof' = (eof \/ conn # "reset")
    /\ UNCHANGED <<got, seen, senderVars, netVars, receiverVars>>

\* The connection ended: Ok(0) between records, an error inside one.
Ends ==
    /\ Starved
    /\ conn # "open"
    /\ Release
    /\ eof' = (eof \/ (record = <<>> /\ conn # "reset"))
    /\ UNCHANGED <<got, seen, senderVars, netVars, receiverVars>>

\* Variant: peek consumes what it returns.
ReturnConsumes ==
    LET count == Least(Unread, want)
        output == [i \in 1 .. count |-> plain.lo + offset + i - 1]
    IN
    /\ holder # "none"
    /\ Unread > 0
    /\ offset' = offset + count
    /\ \/ holder = "read" /\ got' = got \o output /\ seen' = <<>>
       \/ holder = "watch" /\ seen' = output /\ UNCHANGED got
    /\ Release
    /\ UNCHANGED <<rnonce, rfailed, record, plain, eof, senderVars, netVars>>

\* The call returns bytes; only read consumes them.
Return ==
    LET count == Least(Unread, want)
        output == [i \in 1 .. count |-> plain.lo + offset + i - 1]
    IN
    /\ holder # "none"
    /\ Unread > 0
    /\ \/ /\ holder = "read"
          /\ got' = got \o output
          /\ offset' = offset + count
          /\ seen' = <<>>
       \/ /\ holder = "watch"
          /\ seen' = output
          /\ UNCHANGED <<got, offset>>
    /\ Release
    /\ UNCHANGED <<rnonce, rfailed, record, plain, eof, senderVars, netVars>>

-----------------------------------------------------------------------------
Next ==
    \/ \E n \in 1 .. MaxMessage : Write(n) \/ WriteExhausted(n)
    \/ Put \/ WriteReturns \/ WriteInterrupted
    \/ \E end \in {"sender", "receiver"} : Shut(end)
    \/ Reset
    \/ \E u \in 1 .. Len(wire) : Damage(u)
    \/ \E t \in Threads, n \in 1 .. MaxWant : Call(t, n)
    \/ Fill \/ TooShort \/ Open \/ Refuse \/ Timeout \/ Ends \/ Return

Spec == Init /\ [][Next]_vars

\* A reader that keeps reading: it gets the mutex again and again, and a call
\* under way goes on while there is something to do.
Fairness ==
    /\ SF_vars(\E n \in 1 .. MaxWant : Call("read", n))
    /\ WF_vars(Fill) /\ WF_vars(Open) /\ WF_vars(Return)
    /\ WF_vars(TooShort \/ Refuse \/ Timeout \/ Ends)

FairSpec == Spec /\ Fairness

-----------------------------------------------------------------------------
UnitType == [rec : Nat \cup {Nobody}, part : 1 .. RecordUnits,
             need : 2 .. RecordUnits + 1]
RangeType == [lo : Nat, hi : Nat]

SenderOK ==
    /\ nonce \in 0 .. MaxNonce /\ acked \in Nat
    /\ sfailed \in BOOLEAN /\ writing \in BOOLEAN
    /\ buffer \in Seq(UnitType) /\ sealed \in Seq(RangeType)
NetOK ==
    /\ wire \in Seq(UnitType) /\ damage \in Nat
    /\ conn \in {"open", "sender", "receiver", "reset"}
ReceiverOK ==
    /\ rnonce \in 0 .. MaxNonce /\ rfailed \in BOOLEAN
    /\ record \in Seq(UnitType) /\ plain \in RangeType /\ offset \in Nat
CallOK ==
    /\ holder \in Threads \cup {"none"} /\ want \in 0 .. MaxWant
    /\ got \in Seq(Nat) /\ seen \in Seq(Nat) /\ eof \in BOOLEAN

\* The type invariant: of the sender, the network, the receiver and the calls.
TypeOK == SenderOK /\ NetOK /\ ReceiverOK /\ CallOK

\* Whether the records are cut, altered or cut off, the bytes come out in their
\* order, and neither end moves a byte after it failed (secure.rs, the comment on
\* SecureStream).  That a record is played again or out of turn is not modelled: its
\* nonce says it.
Pipe == INSTANCE BytePipe WITH
    sent <- Bytes, got <- got, sending <- ~sfailed, receiving <- ~rfailed
ImplementsPipe == Pipe!Spec

\* The receiver only fails when a record was altered on its way: neither the
\* timeouts, nor the short reads, nor an interrupted write of the sender may
\* make it take a good record for a manipulated one.
HonestNeverFails == damage = 0 => ~rfailed

\* A clean end of the stream, which the sender closed, comes after every byte
\* whose write returned Ok: a stream cut short inside a record is an error.
CleanEofIsComplete == (eof /\ conn = "sender") => Len(got) >= acked

\* What the watchdog saw is what the next read returns, from its first byte.
PeekedIsNext == \A i \in 1 .. Len(seen) : seen[i] = Len(got) + i

\* A byte whose write returned Ok reaches a reader that keeps reading, however
\* often the reads time out inside its record, unless the connection ends or
\* somebody altered it.
AckedArrives ==
    \A n \in 1 .. MaxBytes :
        (acked >= n) ~> (Len(got) >= n \/ conn # "open" \/ damage > 0)
=============================================================================
