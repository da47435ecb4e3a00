------------------------ MODULE EncodePipelineProofs ------------------------
(***************************************************************************)
(* Invariants of EncodePipeline, for any capacity of the queue, any pipe   *)
(* and any length of the reads and of the encoding.                        *)
(***************************************************************************)
EXTENDS EncodePipeline, SequenceTheorems, TLAPS

-----------------------------------------------------------------------------
(* Rows of chunks or fragments, and runs of pieces.                        *)

\* Each element of s goes on where the one before it ends, from a to b.
InRow(s, a, b) ==
    /\ \A i \in 1 .. Len(s) : /\ s[i].from = IF i = 1 THEN a ELSE s[i - 1].to
                              /\ s[i].from <= s[i].to
    /\ b = IF s = <<>> THEN a ELSE s[Len(s)].to

\* s is a, a + 1, ..., b - 1.
Run(s, a, b) ==
    /\ a \in Nat /\ b \in Nat
    /\ Len(s) = b - a
    /\ \A i \in 1 .. Len(s) : s[i] = a + i - 1

LEMMA RowsGrow ==
    ASSUME NEW S, \A m \in S : m.from \in Nat /\ m.to \in Nat,
           NEW s \in Seq(S), NEW m \in S,
           NEW a \in Nat, InRow(s, a, m.from), m.from <= m.to
    PROVE  InRow(Append(s, m), a, m.to)
  <1> DEFINE t == Append(s, m)
  <1>1. t \in Seq(S) /\ Len(t) = Len(s) + 1 /\ t[Len(s) + 1] = m /\ t # <<>>
    OBVIOUS
  <1>2. \A i \in 1 .. Len(s) : t[i] = s[i]
    OBVIOUS
  <1>3. Len(s) \in Nat
    OBVIOUS
  <1>4. ASSUME NEW i \in 1 .. Len(s) + 1
        PROVE  t[i].from = (IF i = 1 THEN a ELSE t[i - 1].to) /\ t[i].from <= t[i].to
    <2>1. CASE i \in 1 .. Len(s)
      BY <1>2, <1>3, <2>1 DEF InRow
    <2>2. CASE i = Len(s) + 1
      <3>1. CASE s = <<>>
        BY <1>1, <2>2, <3>1 DEF InRow
      <3>2. CASE s # <<>>
        <4>1. Len(s) \in 1 .. Len(s) /\ i # 1 /\ i - 1 = Len(s)
          BY <1>3, <2>2, <3>2
        <4> QED
          BY <1>1, <1>2, <2>2, <3>2, <4>1 DEF InRow
      <3> QED
        BY <3>1, <3>2
    <2> QED
      BY <2>1, <2>2, <1>3
  <1> QED
    BY <1>1, <1>4 DEF InRow

LEMMA RowsShrink ==
    ASSUME NEW S, \A m \in S : m.from \in Nat /\ m.to \in Nat,
           NEW s \in Seq(S), NEW a \in Nat, NEW b \in Nat,
           InRow(s, a, b), s # <<>>
    PROVE  /\ Head(s) \in S
           /\ Head(s).from = a
           /\ a <= Head(s).to
           /\ InRow(Tail(s), Head(s).to, b)
  <1> DEFINE t == Tail(s)
  <1>1. Len(s) \in Nat /\ Len(s) # 0 /\ Head(s) = s[1] /\ Head(s) \in S
    OBVIOUS
  <1>2. t \in Seq(S) /\ Len(t) = Len(s) - 1
    OBVIOUS
  <1>3. \A i \in 1 .. Len(t) : t[i] = s[i + 1]
    OBVIOUS
  <1>4. Head(s).from = a /\ a <= Head(s).to
    BY <1>1 DEF InRow
  <1>5. ASSUME NEW i \in 1 .. Len(t)
        PROVE  t[i].from = (IF i = 1 THEN Head(s).to ELSE t[i - 1].to) /\ t[i].from <= t[i].to
    <2>1. i + 1 \in 1 .. Len(s) /\ i + 1 # 1 /\ (i + 1) - 1 = i /\ t[i] = s[i + 1]
      BY <1>1, <1>2, <1>3
    <2>2. t[i].from = s[i].to /\ t[i].from <= t[i].to
      BY <2>1 DEF InRow
    <2>3. i # 1 => t[i - 1] = s[i]
      BY <1>1, <1>2, <1>3
    <2> QED
      BY <1>1, <2>2, <2>3
  <1>6. b = IF t = <<>> THEN Head(s).to ELSE t[Len(t)].to
    <2>1. CASE t = <<>>
      <3> HIDE DEF t
      <3>0. Len(t) = 0
        BY <2>1
      <3>1. Len(s) = 1
        BY <1>1, <1>2, <3>0
      <3> QED
        BY <1>1, <2>1, <3>1 DEF InRow
    <2>2. CASE t # <<>>
      <3>1. Len(t) \in 1 .. Len(t) /\ Len(t) + 1 = Len(s)
        BY <1>1, <1>2, <2>2
      <3>2. t[Len(t)] = s[Len(s)]
        BY <1>3, <3>1
      <3> QED
        BY <2>2, <3>2 DEF InRow
    <2> QED
      BY <2>1, <2>2
  <1> QED
    BY <1>1, <1>4, <1>5, <1>6 DEF InRow

LEMMA RunsGrow ==
    ASSUME NEW s \in Seq(Nat), NEW a \in Nat, NEW c \in Chunks, Run(s, a, c.from),
           c.from <= c.to
    PROVE  /\ s \o Pieces(c) \in Seq(Nat)
           /\ Run(s \o Pieces(c), a, c.to)
  <1> DEFINE n == c.to - c.from
             p == Pieces(c)
  <1>0. n \in Nat /\ c.from \in Nat /\ c.to \in Nat
    BY DEF Chunks
  <1>1. p = [i \in 1 .. n |-> c.from + i - 1]
    BY DEF Pieces
  <1>2. \A i \in 1 .. n : c.from + i - 1 \in Nat
    BY <1>0
  <1> HIDE DEF n, p
  <1>3. p \in Seq(Nat) /\ Len(p) = n /\ \A i \in 1 .. n : p[i] = c.from + i - 1
    BY <1>0, <1>1, <1>2
  <1>4. /\ s \o p \in Seq(Nat) /\ Len(s \o p) = Len(s) + n
        /\ \A i \in 1 .. Len(s) + n :
              (s \o p)[i] = IF i <= Len(s) THEN s[i] ELSE p[i - Len(s)]
    BY <1>3, ConcatProperties
  <1>5. Len(s) \in Nat /\ Len(s) = c.from - a
    BY DEF Run
  <1>6. ASSUME NEW i \in 1 .. Len(s) + n
        PROVE  (s \o p)[i] = a + i - 1
    <2>1. CASE i <= Len(s)
      <3>1. (s \o p)[i] = s[i]
        BY <1>4, <2>1
      <3>2. i \in 1 .. Len(s)
        BY <1>0, <1>5, <2>1
      <3> QED
        BY <3>1, <3>2 DEF Run
    <2>2. CASE i > Len(s)
      <3>1. i - Len(s) \in 1 .. n /\ ~(i <= Len(s))
        BY <1>0, <1>5, <2>2
      <3>2. p[i - Len(s)] = c.from + (i - Len(s)) - 1
        BY <1>3, <3>1
      <3>3. (s \o p)[i] = p[i - Len(s)]
        BY <1>4, <3>1
      <3>4. c.from + (i - Len(s)) - 1 = a + i - 1
        BY <1>0, <1>5
      <3> QED
        BY <3>2, <3>3, <3>4
    <2>3. i <= Len(s) \/ i > Len(s)
      BY <1>0, <1>5
    <2> QED
      BY <2>1, <2>2, <2>3, Zenon
  <1>7. Len(s) + n = c.to - a
    BY <1>0, <1>5 DEF n
  <1> QED
    BY <1>0, <1>4, <1>6, <1>7 DEF Run, p

LEMMA RunsSplit ==
    ASSUME NEW s \in Seq(Nat), NEW a \in Nat, NEW b \in Nat, Run(s, a, b),
           NEW k \in 0 .. Len(s)
    PROVE  /\ SubSeq(s, 1, k) \in Seq(Nat) /\ SubSeq(s, k + 1, Len(s)) \in Seq(Nat)
           /\ Run(SubSeq(s, 1, k), a, a + k)
           /\ Run(SubSeq(s, k + 1, Len(s)), a + k, b)
           /\ Len(SubSeq(s, 1, k)) = k
           /\ \A i \in 1 .. k : SubSeq(s, 1, k)[i] = s[i]
  <1>1. Len(s) \in Nat /\ Len(s) = b - a
    BY DEF Run
  <1>2. /\ SubSeq(s, 1, k) \in Seq(Nat) /\ Len(SubSeq(s, 1, k)) = k
        /\ \A i \in 1 .. k : SubSeq(s, 1, k)[i] = s[i]
    BY <1>1
  <1>3. /\ SubSeq(s, k + 1, Len(s)) \in Seq(Nat)
        /\ Len(SubSeq(s, k + 1, Len(s))) = Len(s) - k
        /\ \A i \in 1 .. Len(s) - k : SubSeq(s, k + 1, Len(s))[i] = s[k + i]
    BY <1>1
  <1>4. Run(SubSeq(s, 1, k), a, a + k)
    BY <1>1, <1>2 DEF Run
  <1>5. Run(SubSeq(s, k + 1, Len(s)), a + k, b)
    <2>1. ASSUME NEW i \in 1 .. Len(s) - k
          PROVE  SubSeq(s, k + 1, Len(s))[i] = (a + k) + i - 1
      <3>1. k + i \in 1 .. Len(s)
        BY <1>1
      <3> QED
        BY <1>1, <1>3, <3>1 DEF Run
    <2> QED
      BY <1>1, <1>3, <2>1 DEF Run
  <1> QED
    BY <1>2, <1>3, <1>4, <1>5

-----------------------------------------------------------------------------
(* The types.                                                              *)

LEMMA Messages ==
    /\ \A m \in Chunks : m.from \in Nat /\ m.to \in Nat
    /\ \A m \in Fragments : m.from \in Nat /\ m.to \in Nat /\ m.index \in Nat
                            /\ m.count \in Nat /\ m.number \in Nat
    /\ \A a \in Nat, b \in Nat : Chunk(a, b) \in Chunks
    /\ \A n \in Nat, i \in Nat, c \in Nat, a \in Nat, b \in Nat :
          Fragment(n, i, c, a, b) \in Fragments
    /\ NoChunk \in Chunks
  BY DEF Chunks, Fragments, Chunk, Fragment, NoChunk

LEMMA PiecesAreNumbers == \A c \in Chunks : Pieces(c) \in Seq(Nat)
  <1> SUFFICES ASSUME NEW c \in Chunks PROVE Pieces(c) \in Seq(Nat)
    OBVIOUS
  <1>1. c.from \in Nat /\ c.to \in Nat
    BY DEF Chunks
  <1>2. CASE c.from <= c.to
    <2>1. c.to - c.from \in Nat /\ \A i \in 1 .. c.to - c.from : c.from + i - 1 \in Nat
      BY <1>1, <1>2
    <2> QED
      BY <2>1 DEF Pieces
  <1>3. CASE c.from > c.to
    <2>1. 1 .. c.to - c.from = {}
      BY <1>1, <1>3
    <2>2. Pieces(c) = <<>>
      BY <2>1 DEF Pieces
    <2> QED
      BY <2>2
  <1> QED
    BY <1>1, <1>2, <1>3

\* What the steps of the sender leave in the queue and in the lists of pieces.
LEMMA DataOfTheSender ==
    ASSUME DataTypeOK
    PROVE  /\ queue # <<>> => /\ Head(queue) \in Chunks
                              /\ Tail(queue) \in Seq(Chunks)
                              /\ Len(Tail(queue)) <= CAPACITY
                              /\ pending \o Pieces(Head(queue)) \in Seq(Nat)
                              /\ <<Fragment(number, 0, 1, Head(queue).from, Head(queue).to)>>
                                    \in Seq(Fragments)
           /\ \A k \in 0 .. Len(pending) :
                 /\ SubSeq(pending, 1, k) \in Seq(Nat)
                 /\ SubSeq(pending, k + 1, Len(pending)) \in Seq(Nat)
           /\ [i \in 1 .. Len(unit) |-> Fragment(number, i - 1, Len(unit), unit[i], unit[i] + 1)]
                 \in Seq(Fragments)
           /\ out # <<>> => /\ Tail(out) \in Seq(Fragments)
                            /\ Append(wire, Head(out)) \in Seq(Fragments)
  <1> USE DEF DataTypeOK
  <1>1. ASSUME queue # <<>>
        PROVE  /\ Head(queue) \in Chunks
               /\ Tail(queue) \in Seq(Chunks)
               /\ Len(Tail(queue)) <= CAPACITY
               /\ pending \o Pieces(Head(queue)) \in Seq(Nat)
               /\ <<Fragment(number, 0, 1, Head(queue).from, Head(queue).to)>> \in Seq(Fragments)
    <2>1. /\ Head(queue) \in Chunks
          /\ Tail(queue) \in Seq(Chunks)
          /\ Len(Tail(queue)) <= CAPACITY
      BY <1>1, CapacityAssumption
    <2>2. pending \o Pieces(Head(queue)) \in Seq(Nat)
      BY <2>1, PiecesAreNumbers
    <2>3. Fragment(number, 0, 1, Head(queue).from, Head(queue).to) \in Fragments
      BY <2>1, Messages
    <2> QED
      BY <2>1, <2>2, <2>3
  <1>2. ASSUME NEW k \in 0 .. Len(pending)
        PROVE  SubSeq(pending, 1, k) \in Seq(Nat) /\ SubSeq(pending, k + 1, Len(pending)) \in Seq(Nat)
    OBVIOUS
  <1>3. [i \in 1 .. Len(unit) |-> Fragment(number, i - 1, Len(unit), unit[i], unit[i] + 1)]
           \in Seq(Fragments)
    <2>1. ASSUME NEW i \in 1 .. Len(unit)
          PROVE  Fragment(number, i - 1, Len(unit), unit[i], unit[i] + 1) \in Fragments
      <3>1. i - 1 \in Nat /\ Len(unit) \in Nat /\ unit[i] \in Nat /\ unit[i] + 1 \in Nat /\ number \in Nat
        OBVIOUS
      <3> QED
        BY <3>1, Messages
    <2>2. Len(unit) \in Nat
      OBVIOUS
    <2> QED
      BY <2>1, <2>2
  <1>4. ASSUME out # <<>>
        PROVE  Tail(out) \in Seq(Fragments) /\ Append(wire, Head(out)) \in Seq(Fragments)
    <2>1. Head(out) \in Fragments /\ Tail(out) \in Seq(Fragments)
      BY <1>4
    <2> QED
      BY <2>1
  <1> QED
    BY <1>1, <1>2, <1>3, <1>4

LEMMA FlagsStep == FlagsTypeOK /\ Next => FlagsTypeOK'
  <1> USE DEF FlagsTypeOK, world, pipeVars, queueVars, unitVars, wireVars
  <1> SUFFICES ASSUME FlagsTypeOK, Next PROVE FlagsTypeOK'
    OBVIOUS
  <1>1. CASE World
    BY <1>1, Zenon DEF World, AskStop, ClientOrMonitorGoes
  <1>2. CASE Encoder
    BY <1>2, Zenon DEF Encoder, Encodes, EncoderExits
  <1>3. CASE ReaderStep
    BY <1>3, Zenon DEF ReaderStep, ReaderReads, ReaderMeetsEnd, ReaderQueues, ReaderDisconnected
  <1>4. CASE SenderStep
    <2>1. TakesEnd => FlagsTypeOK'
      <3> SUFFICES ASSUME TakesEnd PROVE FlagsTypeOK'
        OBVIOUS
      <3>1. ended' \in BOOLEAN
        <4>1. CASE asked
          BY <4>1, Zenon DEF TakesEnd
        <4>2. CASE ~asked
          BY <4>2, Zenon DEF TakesEnd
        <4> QED
          BY <4>1, <4>2
      <3> QED
        BY <3>1, Zenon DEF TakesEnd
    <2>2. Top \/ RefusesStray \/ NothingLeft \/ TakesChunk \/ ReadDisconnected \/ Judge
              \/ WritesFragment \/ WritesStop \/ Reap \/ Join \/ Drop => FlagsTypeOK'
      BY Zenon DEF Top, RefusesStray, NothingLeft, TakesChunk, ReadDisconnected, Judge,
         WritesFragment, WritesStop, Reap, Join, Drop
    <2>3. SplitsUnit \/ SplitsLast => FlagsTypeOK'
      BY Zenon DEF SplitsUnit, SplitsLast, TakesUnit
    <2> QED
      BY <1>4, <2>1, <2>2, <2>3 DEF SenderStep
  <1>5. CASE WatchStep
    BY <1>5, Zenon DEF WatchStep, WatchSees, WatchKills, WatchCancelled
  <1>6. CASE TimeOut
    BY <1>6, Zenon DEF TimeOut, ReaderTimesOut, ReadTimesOut, WriteFails, WatchStalls
  <1> QED
    BY <1>1, <1>2, <1>3, <1>4, <1>5, <1>6 DEF Next

LEMMA ThreadsStep == ThreadsTypeOK /\ Next => ThreadsTypeOK'
  <1> USE DEF ThreadsTypeOK, pipeVars, queueVars, unitVars, wireVars
  <1> SUFFICES ASSUME ThreadsTypeOK, Next PROVE ThreadsTypeOK'
    OBVIOUS
  <1>1. CASE World
    BY <1>1 DEF World, AskStop, ClientOrMonitorGoes
  <1>2. CASE Encoder
    BY <1>2 DEF Encoder, Encodes, EncoderExits
  <1>3. CASE ReaderStep
    BY <1>3 DEF ReaderStep, ReaderReads, ReaderMeetsEnd, ReaderQueues, ReaderDisconnected
  <1>4. CASE SenderStep
    <2>1. Top \/ RefusesStray \/ NothingLeft \/ TakesChunk \/ WritesStop \/ Reap \/ Join \/ Drop
              => ThreadsTypeOK'
      BY DEF Top, RefusesStray, NothingLeft, TakesChunk, WritesStop, Reap, Join, Drop, Yields, Killed
    <2>2. TakesEnd \/ ReadDisconnected => ThreadsTypeOK'
      BY DEF TakesEnd, ReadDisconnected, ReadError, Yields, Fails
    <2>3. SplitsUnit \/ SplitsLast => ThreadsTypeOK'
      BY DEF SplitsUnit, SplitsLast, TakesUnit, Yields
    <2>4. Judge \/ WritesFragment => ThreadsTypeOK'
      BY DEF Judge, WritesFragment, Fails
    <2> QED
      BY <1>4, <2>1, <2>2, <2>3, <2>4 DEF SenderStep
  <1>5. CASE WatchStep
    BY <1>5 DEF WatchStep, WatchSees, WatchKills, WatchCancelled, Killed
  <1>6. CASE TimeOut
    BY <1>6 DEF TimeOut, ReaderTimesOut, ReadTimesOut, WriteFails, WatchStalls, ReadError, Yields, Fails
  <1> QED
    BY <1>1, <1>2, <1>3, <1>4, <1>5, <1>6 DEF Next

LEMMA DataStep == DataTypeOK /\ Next => DataTypeOK'
  <1> USE DEF DataTypeOK, pipeVars, queueVars, unitVars, wireVars
  <1> SUFFICES ASSUME DataTypeOK, Next PROVE DataTypeOK'
    OBVIOUS
  <1>1. CASE World
    BY <1>1 DEF World, AskStop, ClientOrMonitorGoes
  <1>2. CASE Encoder
    <2>1. ASSUME NEW opens \in BOOLEAN, Encodes(opens) PROVE DataTypeOK'
      <3>1. starts' \subseteq starts \cup {made}
        BY <2>1, Zenon DEF Encodes
      <3>2. starts' \subseteq 0 .. (made + 1) - 1
        BY <3>1
      <3> QED
        BY <2>1, <3>2 DEF Encodes
    <2>2. EncoderExits => DataTypeOK'
      BY DEF EncoderExits
    <2> QED
      BY <1>2, <2>1, <2>2 DEF Encoder
  <1>3. CASE ReaderStep
    <2>1. ASSUME NEW n \in 1 .. ReadRoom, ReaderReads(n) PROVE DataTypeOK'
      <3>1. taken + n \in Nat
        BY RoomAssumption
      <3> QED
        BY <2>1, <3>1, Messages DEF ReaderReads
    <2>2. ReaderQueues => DataTypeOK'
      <3> SUFFICES ASSUME ReaderQueues PROVE DataTypeOK'
        OBVIOUS
      <3>1. Append(queue, hand) \in Seq(Chunks) /\ Len(Append(queue, hand)) <= CAPACITY
        BY CapacityAssumption DEF ReaderQueues
      <3> QED
        BY <3>1, Messages DEF ReaderQueues
    <2>3. ReaderMeetsEnd \/ ReaderDisconnected => DataTypeOK'
      BY Messages DEF ReaderMeetsEnd, ReaderDisconnected
    <2> QED
      BY <1>3, <2>1, <2>2, <2>3 DEF ReaderStep
  <1>4. CASE SenderStep
    <2>1. ASSUME NEW k \in 0 .. Len(pending), TakesUnit(k) PROVE DataTypeOK'
      BY <2>1, DataOfTheSender DEF TakesUnit
    <2>2. SplitsUnit => DataTypeOK'
      <3> SUFFICES ASSUME SplitsUnit PROVE DataTypeOK'
        OBVIOUS
      <3>1. PICK k \in Cuts : TakesUnit(k - 1)
        BY DEF SplitsUnit
      <3>2. k - 1 \in 0 .. Len(pending)
        BY DEF Cuts
      <3> QED
        BY <2>1, <3>1, <3>2
    <2>3. SplitsLast => DataTypeOK'
      <3>1. Len(pending) \in 0 .. Len(pending)
        OBVIOUS
      <3> QED
        BY <2>1, <3>1 DEF SplitsLast
    <2>4. TakesChunk => DataTypeOK'
      BY DataOfTheSender DEF TakesChunk
    <2>5. TakesEnd \/ ReadDisconnected => DataTypeOK'
      BY DataOfTheSender DEF TakesEnd, ReadDisconnected, ReadError, Yields, Fails
    <2>6. Judge => DataTypeOK'
      <3> SUFFICES ASSUME Judge PROVE DataTypeOK'
        OBVIOUS
      <3>1. out' \in Seq(Fragments)
        BY DataOfTheSender DEF Judge
      <3> QED
        BY <3>1 DEF Judge
    <2>7. WritesFragment => DataTypeOK'
      BY DataOfTheSender DEF WritesFragment
    <2>8. Reap => DataTypeOK'
      BY CapacityAssumption DEF Reap
    <2>9. Top \/ RefusesStray \/ NothingLeft \/ WritesStop \/ Join \/ Drop => DataTypeOK'
      BY DEF Top, RefusesStray, NothingLeft, WritesStop, Join, Drop, Yields
    <2> QED
      BY <1>4, <2>2, <2>3, <2>4, <2>5, <2>6, <2>7, <2>8, <2>9 DEF SenderStep
  <1>5. CASE WatchStep
    BY <1>5 DEF WatchStep, WatchSees, WatchKills, WatchCancelled
  <1>6. CASE TimeOut
    BY <1>6, Messages, DataOfTheSender
    DEF TimeOut, ReaderTimesOut, ReadTimesOut, WriteFails, WatchStalls, ReadError, Yields, Fails
  <1> QED
    BY <1>1, <1>2, <1>3, <1>4, <1>5, <1>6 DEF Next

\* Every variable keeps its type: TypeOK holds in every state of stream_h264_input.
THEOREM TypeCorrect == Spec => []TypeOK
  <1>1. Init => TypeOK
    <2> SUFFICES ASSUME Init PROVE TypeOK
      OBVIOUS
    <2>1. FlagsTypeOK
      BY TransportsAssumption DEF Init, FlagsTypeOK
    <2>2. ThreadsTypeOK
      BY DEF Init, ThreadsTypeOK
    <2>3. DataTypeOK
      BY Messages, CapacityAssumption DEF Init, DataTypeOK
    <2> QED
      BY <2>1, <2>2, <2>3 DEF TypeOK
  <1>2. TypeOK /\ [Next]_vars => TypeOK'
    <2>1. TypeOK /\ UNCHANGED vars => TypeOK'
      BY DEF TypeOK, FlagsTypeOK, ThreadsTypeOK, DataTypeOK, vars, world, pipeVars,
         queueVars, unitVars, wireVars
    <2> QED
      BY <2>1, FlagsStep, ThreadsStep, DataStep DEF TypeOK
  <1> QED
    BY <1>1, <1>2, PTL DEF Spec

-----------------------------------------------------------------------------
(* Control: what the place of each thread says of the rest.                *)

Control ==
    /\ ~framed => unit = <<>> /\ pending = <<>> /\ sender \notin {"top", "judge"}
    /\ next # "end" => sender = "judge"
    /\ next = "unit" <=> unit # <<>>
    /\ sender \in {"top", "next", "judge"} => out = <<>>
    /\ ended => asked
    /\ sender = "judge" /\ next = "end" => asked
    /\ sender = "stop" => asked
    /\ stopSent => asked

LEMMA ControlInit == Init => Control
  BY DEF Init, Control

LEMMA ControlStep == TypeOK /\ Control /\ Next => Control'
  <1> SUFFICES ASSUME TypeOK, Control, Next PROVE Control'
    OBVIOUS
  <1> USE DEF Control, world, pipeVars, queueVars, unitVars, wireVars
  <1>1. CASE World
    BY <1>1 DEF World, AskStop, ClientOrMonitorGoes
  <1>2. CASE Encoder
    BY <1>2 DEF Encoder, Encodes, EncoderExits
  <1>3. CASE ReaderStep
    BY <1>3 DEF ReaderStep, ReaderReads, ReaderMeetsEnd, ReaderQueues, ReaderDisconnected
  <1>4. CASE SenderStep
    <2>1. Top \/ RefusesStray \/ NothingLeft \/ TakesChunk \/ WritesStop \/ Reap \/ Join \/ Drop
              => Control'
      BY DEF Top, RefusesStray, HasStray, NothingLeft, TakesChunk, WritesStop, Reap, Join, Drop,
         Yields, Wants
    <2>2. TakesEnd \/ ReadDisconnected => Control'
      BY DEF TakesEnd, ReadDisconnected, ReadError, Yields, Fails, Wants
    <2>3. ASSUME NEW k \in 0 .. Len(pending), TakesUnit(k), framed, sender = "next" PROVE Control'
      <3>1. unit = <<>> /\ next = "end"
        BY <2>3
      <3>2. CASE k < 2
        BY <2>3, <3>1, <3>2 DEF TakesUnit, Yields
      <3>3. CASE ~(k < 2)
        <4>1. unit' = SubSeq(pending, 1, k)
          BY <2>3, <3>3 DEF TakesUnit
        <4>2. Len(SubSeq(pending, 1, k)) = k
          BY DEF TypeOK, DataTypeOK
        <4>3. unit' # <<>>
          BY <3>3, <4>1, <4>2
        <4> QED
          BY <2>3, <3>3, <4>3 DEF TakesUnit, Yields
      <3> QED
        BY <3>2, <3>3
    <2>4. SplitsUnit => Control'
      <3> SUFFICES ASSUME SplitsUnit PROVE Control'
        OBVIOUS
      <3>1. PICK k \in Cuts : TakesUnit(k - 1)
        BY DEF SplitsUnit
      <3>2. k - 1 \in 0 .. Len(pending)
        BY DEF Cuts, TypeOK, DataTypeOK
      <3> QED
        BY <2>3, <3>1, <3>2 DEF SplitsUnit
    <2>5. SplitsLast => Control'
      <3>1. Len(pending) \in 0 .. Len(pending)
        BY DEF TypeOK, DataTypeOK
      <3> QED
        BY <2>3, <3>1 DEF SplitsLast
    <2>6. Judge => Control'
      BY DEF Judge, Fails
    <2>7. WritesFragment => Control'
      BY DEF WritesFragment
    <2> QED
      BY <1>4, <2>1, <2>2, <2>4, <2>5, <2>6, <2>7 DEF SenderStep
  <1>5. CASE WatchStep
    BY <1>5 DEF WatchStep, WatchSees, WatchKills, WatchCancelled
  <1>6. CASE TimeOut
    BY <1>6 DEF TimeOut, ReaderTimesOut, ReadTimesOut, WriteFails, WatchStalls, ReadError, Yields,
       Fails, Wants
  <1> QED
    BY <1>1, <1>2, <1>3, <1>4, <1>5, <1>6 DEF Next

LEMMA ControlKept == TypeOK /\ Control /\ [Next]_vars => Control'
  <1>1. Control /\ UNCHANGED vars => Control'
    BY DEF Control, vars, world, pipeVars, queueVars, unitVars, wireVars
  <1> QED
    BY <1>1, ControlStep

\* Message::Stop is sent only when a person stopped the host, whatever ended
\* ffmpeg and whatever the two threads and the watchdog were doing.
THEOREM StopsAreExplicit == Spec => []StopIsExplicit
  <1>1. Init => Control
    BY ControlInit
  <1>2. TypeOK /\ Control /\ [Next]_vars => Control'
    BY ControlKept
  <1>3. Control => StopIsExplicit
    BY DEF Control, StopIsExplicit
  <1> QED
    BY <1>1, <1>2, <1>3, TypeCorrect, PTL DEF Spec

-----------------------------------------------------------------------------
(* The way of the pieces from ffmpeg to the client.                        *)

\* The sender goes on with what it has; otherwise it is about to end.
Flowing == sender \in {"top", "next", "write"} \/ (sender = "judge" /\ next = "unit")

\* The wire ends at o, the fragments to write at u, the unit cut at p, the
\* pieces without a unit at g, and the queue at h.
Chain(o, u, p, g, h) ==
    /\ InRow(wire, 0, o)
    /\ InRow(out, o, u)
    /\ Run(unit, u, p)
    /\ Run(pending, p, g)
    /\ InRow(queue, g, h)
    /\ g <= taken
    /\ reader \in {"read", "done"} => h = taken
    /\ reader = "send" => h = hand.from

Bounds ==
    /\ taken <= made
    /\ reader = "send" => hand.from <= hand.to /\ hand.to = taken
    /\ \A i \in 1 .. Len(queue) : queue[i].to <= taken
    /\ \A i \in 1 .. Len(out) : out[i].from < out[i].to /\ out[i].to <= made

Flow == Flowing => \E o, u, p, g, h \in Nat : Chain(o, u, p, g, h)

FlowInv == Bounds /\ Flow /\ StreamIsIntact

LEMMA EmptyRows ==
    ASSUME NEW a \in Nat, NEW b \in Nat
    PROVE  /\ InRow(<<>>, a, b) <=> a = b
           /\ Run(<<>>, a, b) <=> a = b
  BY DEF InRow, Run

LEMMA FlowInit == Init => FlowInv
  <1> SUFFICES ASSUME Init PROVE FlowInv
    OBVIOUS
  <1>1. Bounds /\ StreamIsIntact
    BY DEF Init, Bounds, StreamIsIntact
  <1>2. Chain(0, 0, 0, 0, 0)
    BY EmptyRows DEF Init, Chain
  <1> QED
    BY <1>1, <1>2 DEF FlowInv, Flow

LEMMA Positions ==
    ASSUME TypeOK
    PROVE  /\ taken \in Nat /\ made \in Nat
           /\ \A i \in 1 .. Len(queue) : queue[i].from \in Nat /\ queue[i].to \in Nat
           /\ \A i \in 1 .. Len(out) : out[i].from \in Nat /\ out[i].to \in Nat
           /\ \A i \in 1 .. Len(wire) : wire[i].from \in Nat /\ wire[i].to \in Nat
  <1>1. /\ \A i \in 1 .. Len(queue) : queue[i] \in Chunks
        /\ \A i \in 1 .. Len(out) : out[i] \in Fragments
        /\ \A i \in 1 .. Len(wire) : wire[i] \in Fragments
    BY DEF TypeOK, DataTypeOK
  <1> QED
    BY <1>1, Messages DEF TypeOK, DataTypeOK

\* A step that moves no piece.
LEMMA NothingMoves ==
    ASSUME FlowInv, made' >= made, made \in Nat, made' \in Nat, TypeOK,
           UNCHANGED <<wire, out, unit, pending, queue, taken, reader, hand>>,
           Flowing' => Flowing
    PROVE  FlowInv'
  <1>1. Bounds'
    BY Positions DEF FlowInv, Bounds
  <1>2. StreamIsIntact'
    BY Positions DEF FlowInv, StreamIsIntact
  <1>3. Flow'
    BY DEF FlowInv, Flow, Chain
  <1> QED
    BY <1>1, <1>2, <1>3 DEF FlowInv

\* A step after which nothing more is sent of what is on the way.
LEMMA FlowEnds ==
    ASSUME FlowInv, UNCHANGED <<wire, made>>, ~Flowing', Bounds'
    PROVE  FlowInv'
  BY DEF FlowInv, Flow, StreamIsIntact

\* The reading thread.
LEMMA FlowOfReader ==
    ASSUME TypeOK, FlowInv, ReaderStep \/ ReaderTimesOut
    PROVE  FlowInv'
  <1> USE DEF pipeVars, queueVars, unitVars, wireVars
  <1>0. UNCHANGED <<wire, made, sender, next>>
    BY DEF ReaderStep, ReaderReads, ReaderMeetsEnd, ReaderQueues, ReaderDisconnected, ReaderTimesOut
  <1>1. StreamIsIntact'
    BY <1>0 DEF FlowInv, StreamIsIntact
  <1>2. Flowing' <=> Flowing
    BY <1>0 DEF Flowing
  <1>3. ASSUME NEW n \in 1 .. ReadRoom, ReaderReads(n)
        PROVE  Bounds' /\ Flow'
    <2>1. taken + n \in Nat /\ taken <= taken + n /\ taken + n <= made
      BY <1>3, RoomAssumption DEF ReaderReads, TypeOK, DataTypeOK
    <2>2. Bounds'
      <3>1. \A i \in 1 .. Len(queue) : queue[i].to <= taken + n
        BY <2>1, Positions DEF FlowInv, Bounds
      <3> QED
        BY <1>3, <2>1, <3>1, Positions DEF ReaderReads, FlowInv, Bounds, Chunk
    <2>3. ASSUME NEW o \in Nat, NEW u \in Nat, NEW p \in Nat, NEW g \in Nat, NEW h \in Nat,
                 Chain(o, u, p, g, h)
          PROVE  Chain(o, u, p, g, h)'
      BY <1>3, <2>1, <2>3 DEF ReaderReads, Chain, Chunk, TypeOK, DataTypeOK
    <2> QED
      BY <1>2, <2>2, <2>3 DEF FlowInv, Flow
  <1>4. ASSUME ReaderMeetsEnd
        PROVE  Bounds' /\ Flow'
    <2>1. Bounds'
      BY <1>4 DEF ReaderMeetsEnd, FlowInv, Bounds, Chunk, TypeOK, DataTypeOK
    <2>2. ASSUME NEW o \in Nat, NEW u \in Nat, NEW p \in Nat, NEW g \in Nat, NEW h \in Nat,
                 Chain(o, u, p, g, h)
          PROVE  Chain(o, u, p, g, h)'
      BY <1>4, <2>2 DEF ReaderMeetsEnd, Chain, Chunk
    <2> QED
      BY <1>2, <2>1, <2>2 DEF FlowInv, Flow
  <1>5. ASSUME ReaderQueues
        PROVE  Bounds' /\ Flow'
    <2>1. hand \in Chunks /\ queue \in Seq(Chunks) /\ queue' = Append(queue, hand)
      BY <1>5 DEF ReaderQueues, TypeOK, DataTypeOK
    <2>2. hand.from <= hand.to /\ hand.to = taken
      BY <1>5 DEF ReaderQueues, FlowInv, Bounds
    <2>3. \A i \in 1 .. Len(queue') : queue'[i] = hand \/ (i \in 1 .. Len(queue) /\ queue'[i] = queue[i])
      BY <2>1
    <2>4. reader' \in {"read", "done"} /\ UNCHANGED <<taken, out>>
      BY <1>5 DEF ReaderQueues
    <2>5. \A i \in 1 .. Len(queue') : queue'[i].to <= taken'
      BY <2>2, <2>3, <2>4 DEF FlowInv, Bounds, TypeOK, DataTypeOK
    <2>6. Bounds'
      BY <1>0, <2>4, <2>5 DEF FlowInv, Bounds
    <2>7. ASSUME NEW o \in Nat, NEW u \in Nat, NEW p \in Nat, NEW g \in Nat, NEW h \in Nat,
                 Chain(o, u, p, g, h)
          PROVE  Chain(o, u, p, g, taken)'
      <3>1. InRow(queue, g, hand.from)
        BY <1>5, <2>7 DEF ReaderQueues, Chain
      <3>2. InRow(Append(queue, hand), g, hand.to)
        BY <2>1, <2>2, <3>1, RowsGrow, Messages
      <3> QED
        BY <1>5, <2>1, <2>2, <2>4, <2>7, <3>2 DEF ReaderQueues, Chain
    <2>8. taken' \in Nat
      BY <2>4 DEF TypeOK, DataTypeOK
    <2> QED
      BY <1>2, <2>6, <2>7, <2>8 DEF FlowInv, Flow
  <1>6. ASSUME ReaderDisconnected \/ ReaderTimesOut
        PROVE  Bounds' /\ Flow'
    <2>1. Bounds'
      BY <1>6 DEF ReaderDisconnected, ReaderTimesOut, FlowInv, Bounds
    <2>2. ASSUME NEW o \in Nat, NEW u \in Nat, NEW p \in Nat, NEW g \in Nat, NEW h \in Nat,
                 Chain(o, u, p, g, h)
          PROVE  Chain(o, u, p, g, h)'
      BY <1>6, <2>2 DEF ReaderDisconnected, ReaderTimesOut, Chain
    <2> QED
      BY <1>2, <2>1, <2>2 DEF FlowInv, Flow
  <1> QED
    BY <1>1, <1>3, <1>4, <1>5, <1>6 DEF ReaderStep, FlowInv

\* A chunk goes from the queue to Units, or at once to a message.
LEMMA FlowOfChunk ==
    ASSUME TypeOK, Control, FlowInv, TakesChunk
    PROVE  FlowInv'
  <1> USE DEF pipeVars, queueVars, unitVars, wireVars
  <1>0. queue \in Seq(Chunks) /\ queue # <<>> /\ Head(queue) \in Chunks
    BY DEF TakesChunk, TypeOK, DataTypeOK
  <1>00. PICK c \in Chunks : c = Head(queue)
    BY <1>0
  <1>1. queue \in Seq(Chunks) /\ queue # <<>> /\ queue' = Tail(queue) /\ c.from # c.to
    BY <1>0, <1>00 DEF TakesChunk, IsEnd
  <1>2. UNCHANGED <<wire, made, taken, reader, hand, unit, next>> /\ sender = "next"
    BY DEF TakesChunk, Wants
  <1>3. Len(queue) \in Nat /\ Len(queue) # 0 /\ c = queue[1]
    BY <1>1, <1>00
  <1>4. \A i \in 1 .. Len(queue') : i + 1 \in 1 .. Len(queue) /\ queue'[i] = queue[i + 1]
    BY <1>1
  <1>5. c.to <= taken
    BY <1>3 DEF FlowInv, Bounds
  <1>6. \A i \in 1 .. Len(queue') : queue'[i].to <= taken'
    BY <1>2, <1>4 DEF FlowInv, Bounds
  <1>7. PICK o \in Nat, u \in Nat, p \in Nat, g \in Nat, h \in Nat : Chain(o, u, p, g, h)
    BY <1>2 DEF FlowInv, Flow, Flowing
  <1>8. c.from = g /\ g <= c.to /\ InRow(Tail(queue), c.to, h)
    BY <1>1, <1>7, <1>00, RowsShrink, Messages DEF Chain
  <1>9. c.from \in Nat /\ c.to \in Nat /\ g < c.to
    <2>1. c.from \in Nat /\ c.to \in Nat
      BY Messages
    <2> QED
      BY <1>1, <1>8, <2>1
  <1>10. unit = <<>> /\ out = <<>>
    BY <1>2 DEF Control
  <1>11. o = u /\ u = p
    BY <1>7, <1>10, EmptyRows DEF Chain
  <1>12. StreamIsIntact'
    BY <1>2 DEF FlowInv, StreamIsIntact
  <1>13. CASE framed
    <2>1. pending' = pending \o Pieces(c) /\ out' = out
      BY <1>13, <1>00 DEF TakesChunk
    <2>2. Run(pending', p, c.to)
      BY <1>3, <1>7, <1>8, <2>1, RunsGrow DEF Chain, TypeOK, DataTypeOK
    <2>3. Chain(o, u, p, c.to, h)'
      BY <1>1, <1>2, <1>5, <1>7, <1>8, <2>1, <2>2 DEF Chain
    <2>4. Bounds'
      BY <1>2, <1>6, <2>1 DEF FlowInv, Bounds
    <2> QED
      BY <1>9, <1>12, <2>3, <2>4 DEF FlowInv, Flow
  <1>14. CASE ~framed
    <2>1. out' = <<Fragment(number, 0, 1, c.from, c.to)>> /\ pending' = pending /\ pending = <<>>
      BY <1>14, <1>00 DEF TakesChunk, Control
    <2>2. p = g
      BY <1>7, <2>1, EmptyRows DEF Chain
    <2>3. Len(out') = 1 /\ out'[1].from = c.from /\ out'[1].to = c.to /\ out' # <<>>
      BY <2>1 DEF Fragment
    <2>4. InRow(out', o, c.to)
      BY <1>8, <1>9, <1>11, <2>2, <2>3 DEF InRow
    <2>5. Chain(o, c.to, c.to, c.to, h)'
      BY <1>1, <1>2, <1>5, <1>7, <1>8, <1>9, <1>10, <2>1, <2>4, EmptyRows DEF Chain
    <2>6. c.to <= made
      BY <1>5, <1>9 DEF FlowInv, Bounds, TypeOK, DataTypeOK
    <2>7. Bounds'
      BY <1>2, <1>6, <1>8, <1>9, <2>3, <2>6 DEF FlowInv, Bounds
    <2> QED
      BY <1>9, <1>12, <2>5, <2>7 DEF FlowInv, Flow
  <1> QED
    BY <1>13, <1>14

\* Units cuts a unit off its pending pieces, or refuses what it would cut.
LEMMA FlowOfCut ==
    ASSUME TypeOK, Control, FlowInv, framed, sender = "next",
           NEW last \in 0 .. Len(pending), TakesUnit(last)
    PROVE  FlowInv'
  <1> USE DEF pipeVars, queueVars, unitVars, wireVars
  <1>1. UNCHANGED <<wire, made, taken, reader, hand, queue, out>>
    BY DEF TakesUnit
  <1>2. Bounds' /\ StreamIsIntact'
    BY <1>1 DEF FlowInv, Bounds, StreamIsIntact
  <1>3. CASE last < 2
    <2>1. ~Flowing'
      BY <1>3 DEF TakesUnit, Yields, Flowing
    <2> QED
      BY <1>1, <1>2, <2>1, FlowEnds
  <1>4. CASE ~(last < 2)
    <2>1. /\ unit' = SubSeq(pending, 1, last)
          /\ pending' = SubSeq(pending, last + 1, Len(pending))
      BY <1>4 DEF TakesUnit
    <2>2. PICK o \in Nat, u \in Nat, p \in Nat, g \in Nat, h \in Nat : Chain(o, u, p, g, h)
      BY DEF FlowInv, Flow, Flowing
    <2>3. unit = <<>>
      BY DEF Control
    <2>4. u = p
      BY <2>2, <2>3, EmptyRows DEF Chain
    <2>5. pending \in Seq(Nat) /\ last \in Nat
      BY DEF TypeOK, DataTypeOK
    <2>6. Run(unit', u, p + last) /\ Run(pending', p + last, g)
      BY <2>1, <2>2, <2>4, <2>5, RunsSplit DEF Chain
    <2>7. Chain(o, u, p + last, g, h)'
      BY <1>1, <2>2, <2>6 DEF Chain
    <2>8. p + last \in Nat
      BY <2>5
    <2> QED
      BY <1>2, <2>7, <2>8 DEF FlowInv, Flow
  <1> QED
    BY <1>3, <1>4

\* The end of the pipe: accepted, it adds no piece; refused, it ends the stream.
LEMMA FlowOfEnd ==
    ASSUME TypeOK, Control, FlowInv, TakesEnd
    PROVE  FlowInv'
  <1> USE DEF pipeVars, queueVars, unitVars, wireVars
  <1>1. /\ queue \in Seq(Chunks) /\ queue # <<>> /\ queue' = Tail(queue)
        /\ Head(queue).from = Head(queue).to
    BY DEF TakesEnd, IsEnd, TypeOK, DataTypeOK
  <1>2. UNCHANGED <<wire, made, taken, reader, hand, unit, pending, out>> /\ sender = "next"
    BY DEF TakesEnd, Wants
  <1>3. \A i \in 1 .. Len(queue') : i + 1 \in 1 .. Len(queue) /\ queue'[i] = queue[i + 1]
    BY <1>1
  <1>4. Bounds'
    BY <1>2, <1>3 DEF FlowInv, Bounds
  <1>5. StreamIsIntact'
    BY <1>2 DEF FlowInv, StreamIsIntact
  <1>6. PICK o \in Nat, u \in Nat, p \in Nat, g \in Nat, h \in Nat : Chain(o, u, p, g, h)
    BY <1>2 DEF FlowInv, Flow, Flowing
  <1>7. InRow(Tail(queue), g, h)
    <2>1. InRow(queue, g, h)
      BY <1>6 DEF Chain
    <2>2. Head(queue).from = g /\ InRow(Tail(queue), Head(queue).to, h)
      BY <1>1, <2>1, RowsShrink, Messages
    <2> QED
      BY <1>1, <2>2
  <1>8. Chain(o, u, p, g, h)'
    BY <1>1, <1>2, <1>6, <1>7 DEF Chain
  <1> QED
    BY <1>4, <1>5, <1>8 DEF FlowInv, Flow

\* The unit that was cut becomes the fragments to write, unless it is withheld.
LEMMA FlowOfJudge ==
    ASSUME TypeOK, Control, FlowInv, Judge
    PROVE  FlowInv'
  <1> USE DEF pipeVars, queueVars, unitVars, wireVars
  <1>1. UNCHANGED <<wire, made, taken, reader, hand, queue, pending>> /\ unit' = <<>>
    BY DEF Judge
  <1>2. sender = "judge" /\ StreamIsIntact'
    BY <1>1 DEF Judge, FlowInv, StreamIsIntact
  <1>3. CASE sender' # "write"
    <2>1. UNCHANGED out /\ ~Flowing'
      BY <1>3 DEF Judge, Fails, Flowing
    <2>2. Bounds'
      BY <1>1, <2>1 DEF FlowInv, Bounds
    <2> QED
      BY <1>1, <2>1, <2>2, FlowEnds
  <1>4. CASE sender' = "write"
    <2>1. next = "unit" /\ unit # <<>> /\ out = <<>>
      BY <1>2, <1>4 DEF Judge, Fails, Control
    <2>2. out' = [i \in 1 .. Len(unit) |->
                     Fragment(number, i - 1, Len(unit), unit[i], unit[i] + 1)]
      BY <1>4 DEF Judge, Fails
    <2>3. PICK o \in Nat, u \in Nat, p \in Nat, g \in Nat, h \in Nat : Chain(o, u, p, g, h)
      BY <1>2, <2>1 DEF FlowInv, Flow, Flowing
    <2>4. Run(unit, u, p) /\ unit \in Seq(Nat) /\ Len(unit) \in Nat /\ Len(unit) # 0
      BY <2>1, <2>3 DEF Chain, TypeOK, DataTypeOK
    <2>5. out' \in Seq(Fragments) /\ Len(out') = Len(unit) /\ out' # <<>>
      BY <2>2, <2>4, DataOfTheSender DEF TypeOK
    <2>6. \A i \in 1 .. Len(unit) : out'[i].from = u + i - 1 /\ out'[i].to = u + i
      BY <2>2, <2>4 DEF Run, Fragment
    <2>7. p = u + Len(unit)
      BY <2>4 DEF Run
    <2>8. InRow(out', u, p)
      BY <2>4, <2>5, <2>6, <2>7 DEF InRow
    <2>9. o = u
      BY <2>1, <2>3, EmptyRows DEF Chain
    <2>10. Chain(o, p, p, g, h)'
      BY <1>1, <2>3, <2>8, <2>9, EmptyRows DEF Chain
    <2>11. p <= g /\ g <= made
      <3>1. Run(pending, p, g) /\ g <= taken /\ taken <= made
        BY <2>3 DEF Chain, FlowInv, Bounds
      <3>2. Len(pending) \in Nat /\ taken \in Nat /\ made \in Nat
        BY DEF TypeOK, DataTypeOK
      <3> QED
        BY <3>1, <3>2 DEF Run
    <2>12. Bounds'
      <3>1. \A i \in 1 .. Len(out') : out'[i].from < out'[i].to /\ out'[i].to <= made'
        BY <1>1, <2>4, <2>5, <2>6, <2>7, <2>11 DEF TypeOK, DataTypeOK
      <3> QED
        BY <1>1, <3>1 DEF FlowInv, Bounds
    <2> QED
      BY <1>2, <2>10, <2>12 DEF FlowInv, Flow
  <1> QED
    BY <1>3, <1>4

\* A fragment is written: the wire ends where the fragments still to write begin.
LEMMA FlowOfWrite ==
    ASSUME TypeOK, Control, FlowInv, WritesFragment
    PROVE  FlowInv'
  <1> USE DEF pipeVars, queueVars, unitVars, wireVars
  <1>1. /\ out \in Seq(Fragments) /\ out # <<>> /\ out' = Tail(out)
        /\ wire \in Seq(Fragments) /\ wire' = Append(wire, Head(out))
        /\ Head(out) \in Fragments /\ Head(out) = out[1] /\ Len(out) # 0
    BY DEF WritesFragment, TypeOK, DataTypeOK
  <1>2. UNCHANGED <<made, taken, reader, hand, queue, unit, pending>> /\ sender = "write"
    BY DEF WritesFragment
  <1>3. Head(out).from < Head(out).to /\ Head(out).to <= made
    BY <1>1 DEF FlowInv, Bounds
  <1>4. \A i \in 1 .. Len(out') : i + 1 \in 1 .. Len(out) /\ out'[i] = out[i + 1]
    BY <1>1
  <1>5. Bounds'
    BY <1>2, <1>4 DEF FlowInv, Bounds
  <1>6. PICK o \in Nat, u \in Nat, p \in Nat, g \in Nat, h \in Nat : Chain(o, u, p, g, h)
    BY <1>2 DEF FlowInv, Flow, Flowing
  <1>7. Head(out).from = o /\ InRow(out', Head(out).to, u) /\ Head(out).to \in Nat
    BY <1>1, <1>6, RowsShrink, Messages DEF Chain
  <1>8. InRow(wire', 0, Head(out).to)
    <2>1. InRow(wire, 0, Head(out).from) /\ Head(out).from <= Head(out).to
      <3>1. InRow(wire, 0, o) /\ Head(out).from = o
        BY <1>6, <1>7 DEF Chain
      <3> QED
        BY <1>3, <1>7, <3>1
    <2> QED
      BY <1>1, <2>1, RowsGrow, Messages
  <1>9. PICK w \in Nat : w = Head(out).to
    BY <1>7
  <1>10. Chain(w, u, p, g, h)'
    BY <1>2, <1>6, <1>7, <1>8, <1>9 DEF Chain
  <1>11. StreamIsIntact'
    <2>1. Len(wire) \in Nat /\ Len(wire') = Len(wire) + 1
      BY <1>1
    <2>2. \A i \in 1 .. Len(wire) : wire'[i] = wire[i]
      BY <1>1
    <2>3. wire'[Len(wire) + 1] = Head(out)
      BY <1>1
    <2>4. \A i \in 1 .. Len(wire') : wire'[i].from < wire'[i].to /\ wire'[i].to <= made'
      BY <1>2, <1>3, <2>1, <2>2, <2>3 DEF FlowInv, StreamIsIntact
    <2>5. \A i \in 1 .. Len(wire') : wire'[i].from = IF i = 1 THEN 0 ELSE wire'[i - 1].to
      BY <1>8 DEF InRow
    <2> QED
      BY <2>4, <2>5 DEF StreamIsIntact
  <1> QED
    BY <1>5, <1>10, <1>11 DEF FlowInv, Flow

LEMMA FlowStep == TypeOK /\ TypeOK' /\ Control /\ FlowInv /\ Next => FlowInv'
  <1> SUFFICES ASSUME TypeOK, TypeOK', Control, FlowInv, Next PROVE FlowInv'
    OBVIOUS
  <1> USE DEF world, pipeVars, queueVars, unitVars, wireVars
  <1>0. made \in Nat /\ made' \in Nat
    BY DEF TypeOK, DataTypeOK
  <1>1. CASE World \/ WatchStep \/ WatchStalls
    <2>1. UNCHANGED <<wire, out, unit, pending, queue, taken, reader, hand, made, sender, next>>
      BY <1>1 DEF World, AskStop, ClientOrMonitorGoes, WatchStep, WatchSees, WatchKills,
         WatchCancelled, WatchStalls
    <2> QED
      BY <1>0, <2>1, NothingMoves DEF Flowing
  <1>2. CASE Encoder
    <2>1. /\ UNCHANGED <<wire, out, unit, pending, queue, taken, reader, hand, sender, next>>
          /\ made' >= made
      BY <1>0, <1>2 DEF Encoder, Encodes, EncoderExits
    <2> QED
      BY <1>0, <2>1, NothingMoves DEF Flowing
  <1>3. CASE ReaderStep \/ ReaderTimesOut
    BY <1>3, FlowOfReader
  <1>4. CASE Top \/ WritesStop \/ Join \/ Drop
    <2>1. /\ UNCHANGED <<wire, out, unit, pending, queue, taken, reader, hand, made>>
          /\ Flowing' => Flowing
      BY <1>4 DEF Top, WritesStop, Join, Drop, Flowing
    <2> QED
      BY <1>0, <2>1, NothingMoves
  <1>5. CASE RefusesStray \/ NothingLeft \/ ReadDisconnected \/ WriteFails
    <2>1. UNCHANGED <<wire, made, out, queue, taken, reader, hand>>
      BY <1>5 DEF RefusesStray, NothingLeft, ReadDisconnected, WriteFails
    <2>2. ~Flowing'
      BY <1>5 DEF RefusesStray, NothingLeft, ReadDisconnected, WriteFails, ReadError, Yields, Fails,
         Flowing
    <2>3. Bounds'
      BY <2>1 DEF FlowInv, Bounds
    <2> QED
      BY <2>1, <2>2, <2>3, FlowEnds
  <1>6. CASE ReadTimesOut
    <2>1. /\ UNCHANGED <<wire, made, out, taken, reader, hand>> /\ ~Flowing'
          /\ queue' = IF queue = <<>> THEN queue ELSE Tail(queue)
      BY <1>6 DEF ReadTimesOut, ReadError, Yields, Fails, Flowing
    <2>2. queue \in Seq(Chunks)
      BY DEF TypeOK, DataTypeOK
    <2>3. \A i \in 1 .. Len(queue') : \E j \in 1 .. Len(queue) : queue'[i] = queue[j]
      <3>1. CASE queue = <<>>
        BY <2>1, <3>1
      <3>2. CASE queue # <<>>
        <4>1. \A i \in 1 .. Len(queue') : i + 1 \in 1 .. Len(queue) /\ queue'[i] = queue[i + 1]
          BY <2>1, <2>2, <3>2
        <4> QED
          BY <4>1
      <3> QED
        BY <3>1, <3>2
    <2>4. \A i \in 1 .. Len(queue') : queue'[i].to <= taken'
      BY <2>1, <2>3 DEF FlowInv, Bounds
    <2>5. Bounds'
      BY <2>1, <2>4 DEF FlowInv, Bounds
    <2> QED
      BY <2>1, <2>5, FlowEnds
  <1>7. CASE Reap
    <2>1. UNCHANGED <<wire, made, taken, reader, hand>> /\ ~Flowing' /\ queue' = <<>> /\ out' = <<>>
      BY <1>7 DEF Reap, Flowing
    <2>2. Bounds'
      BY <2>1 DEF FlowInv, Bounds
    <2> QED
      BY <2>1, <2>2, FlowEnds
  <1>8. CASE SplitsUnit
    <2>1. PICK k \in Cuts : TakesUnit(k - 1)
      BY <1>8 DEF SplitsUnit
    <2>2. k - 1 \in 0 .. Len(pending)
      BY DEF Cuts, TypeOK, DataTypeOK
    <2> QED
      BY <1>8, <2>1, <2>2, FlowOfCut DEF SplitsUnit
  <1>9. CASE SplitsLast
    <2>1. Len(pending) \in 0 .. Len(pending)
      BY DEF TypeOK, DataTypeOK
    <2> QED
      BY <1>9, <2>1, FlowOfCut DEF SplitsLast
  <1>10. CASE TakesChunk \/ TakesEnd \/ Judge \/ WritesFragment
    BY <1>10, FlowOfChunk, FlowOfEnd, FlowOfJudge, FlowOfWrite
  <1> QED
    BY <1>1, <1>2, <1>3, <1>4, <1>5, <1>6, <1>7, <1>8, <1>9, <1>10
    DEF Next, SenderStep, TimeOut

LEMMA FlowKept == TypeOK /\ TypeOK' /\ Control /\ FlowInv /\ [Next]_vars => FlowInv'
  <1>1. TypeOK /\ FlowInv /\ UNCHANGED vars => FlowInv'
    <2> SUFFICES ASSUME TypeOK, FlowInv, UNCHANGED vars PROVE FlowInv'
      OBVIOUS
    <2>1. /\ UNCHANGED <<wire, out, unit, pending, queue, taken, reader, hand, made, sender, next>>
          /\ made \in Nat
      BY DEF vars, world, pipeVars, queueVars, unitVars, wireVars, TypeOK, DataTypeOK
    <2> QED
      BY <2>1, NothingMoves DEF Flowing
  <1> QED
    BY <1>1, FlowStep

\* What the client got is the beginning of what ffmpeg wrote, without a gap or a
\* repetition, however full the queue, however the threads interleave and whoever
\* killed the process.
THEOREM StreamIntact == Spec => []StreamIsIntact
  <1>1. Init => FlowInv /\ Control
    BY FlowInit, ControlInit
  <1>2. TypeOK /\ TypeOK' /\ Control /\ FlowInv /\ [Next]_vars => (FlowInv /\ Control)'
    BY FlowKept, ControlKept
  <1>3. FlowInv => StreamIsIntact
    BY DEF FlowInv
  <1> QED
    BY <1>1, <1>2, <1>3, TypeCorrect, PTL DEF Spec

-----------------------------------------------------------------------------
(* The units that are cut and sent are whole.                              *)

\* Positions that open a unit are added at the end only.
LEMMA StartsGrow ==
    ASSUME TypeOK, Next
    PROVE  starts' = starts \/ starts' = starts \cup {made}
  <1> USE DEF world, pipeVars, queueVars, unitVars, wireVars
  <1>1. CASE World
    BY <1>1 DEF World, AskStop, ClientOrMonitorGoes
  <1>2. CASE Encoder
    BY <1>2 DEF Encoder, Encodes, EncoderExits
  <1>3. CASE ReaderStep
    BY <1>3 DEF ReaderStep, ReaderReads, ReaderMeetsEnd, ReaderQueues, ReaderDisconnected
  <1>4. CASE SenderStep
    BY <1>4 DEF SenderStep, Top, RefusesStray, SplitsUnit, SplitsLast, TakesUnit, NothingLeft,
       TakesChunk, TakesEnd, ReadDisconnected, Judge, WritesFragment, WritesStop, Reap, Join, Drop
  <1>5. CASE WatchStep
    BY <1>5 DEF WatchStep, WatchSees, WatchKills, WatchCancelled
  <1>6. CASE TimeOut
    BY <1>6 DEF TimeOut, ReaderTimesOut, ReadTimesOut, WriteFails, WatchStalls
  <1> QED
    BY <1>1, <1>2, <1>3, <1>4, <1>5, <1>6 DEF Next

\* The stretch from one opening to the next, and the unit of a fragment as one.
Stretch(S, first, after) ==
    /\ first \in S /\ after \in S
    /\ \A k \in first + 1 .. after - 1 : k \notin S

UnitOf(S, m) == Stretch(S, m.from - m.index, m.from - m.index + m.count)

\* What was sent, what is to be sent, and the unit that was cut, unless a stop
\* will withhold it.
UnitsInv ==
    framed =>
        /\ \A i \in 1 .. Len(wire) : UnitOf(starts, wire[i])
        /\ \A i \in 1 .. Len(out) : UnitOf(starts, out[i])
        /\ next = "unit" /\ ~asked => Stretch(starts, unit[1], unit[1] + Len(unit))

\* A stretch stays one: the next opening is beyond it.
LEMMA StretchStays ==
    ASSUME TypeOK, starts' = starts \/ starts' = starts \cup {made},
           NEW first, NEW after, Stretch(starts, first, after)
    PROVE  Stretch(starts', first, after)
  <1>1. made \in Nat /\ first \in 0 .. made - 1 /\ after \in 0 .. made - 1
    BY DEF TypeOK, DataTypeOK, Stretch
  <1>2. made \notin first + 1 .. after - 1
    BY <1>1
  <1> QED
    BY <1>2 DEF Stretch

\* It is enough that the stretches hold for the openings of before the step.
LEMMA UnitsStay ==
    ASSUME TypeOK, Next, framed' = framed,
           framed => /\ \A i \in 1 .. Len(wire') : UnitOf(starts, wire'[i])
                     /\ \A i \in 1 .. Len(out') : UnitOf(starts, out'[i])
                     /\ next' = "unit" /\ ~asked' => Stretch(starts, unit'[1], unit'[1] + Len(unit'))
    PROVE  UnitsInv'
  <1>1. starts' = starts \/ starts' = starts \cup {made}
    BY StartsGrow
  <1>2. \A m : UnitOf(starts, m) => UnitOf(starts', m)
    <2> SUFFICES ASSUME NEW m, UnitOf(starts, m) PROVE UnitOf(starts', m)
      OBVIOUS
    <2> QED
      BY <1>1, StretchStays DEF UnitOf
  <1>3. ASSUME framed, next' = "unit", ~asked'
        PROVE  Stretch(starts', unit'[1], unit'[1] + Len(unit'))
    <2>1. Stretch(starts, unit'[1], unit'[1] + Len(unit'))
      BY <1>3
    <2> HIDE DEF Stretch
    <2>2. ASSUME NEW x, NEW y, Stretch(starts, x, y) PROVE Stretch(starts', x, y)
      BY <1>1, <2>2, StretchStays
    <2> QED
      BY <2>1, <2>2
  <1> QED
    BY <1>2, <1>3 DEF UnitsInv

\* Between two delimiters in sight there is no other: the first was cut at.
LEMMA UnitsOfSplit ==
    ASSUME TypeOK, Control, FlowInv, UnitsInv, Next, SplitsUnit
    PROVE  UnitsInv'
  <1> USE DEF world, pipeVars, queueVars, unitVars, wireVars
  <1>1. PICK k \in Cuts : (\A j \in Cuts : k <= j) /\ TakesUnit(k - 1)
    BY DEF SplitsUnit
  <1>2. framed /\ UNCHANGED <<framed, asked, wire, out, starts>>
    BY <1>1 DEF SplitsUnit, TakesUnit
  <1>3. CASE k - 1 < 2
    <2>1. next' = "error"
      BY <1>1, <1>3 DEF TakesUnit, Yields
    <2> QED
      BY <1>2, <2>1, UnitsStay DEF UnitsInv
  <1>4. CASE ~(k - 1 < 2)
    <2>1. pending \in Seq(Nat) /\ Len(pending) \in Nat /\ k \in 2 .. Len(pending) /\ pending[k] \in starts
      BY DEF TypeOK, DataTypeOK, Cuts
    <2>2. pending # <<>> /\ pending[1] \in starts
      BY <1>2, <2>1 DEF SplitsUnit, HasStray
    <2>3. unit' = SubSeq(pending, 1, k - 1)
      BY <1>1, <1>4 DEF TakesUnit
    <2>4. PICK o \in Nat, u \in Nat, p \in Nat, g \in Nat, h \in Nat : Chain(o, u, p, g, h)
      BY DEF SplitsUnit, FlowInv, Flow, Flowing
    <2>5. \A i \in 1 .. Len(pending) : pending[i] = p + i - 1
      BY <2>4 DEF Chain, Run
    <2>6. Len(unit') = k - 1 /\ unit'[1] = pending[1]
      BY <1>4, <2>1, <2>3
    <2>7. pending[1] = p /\ pending[k] = p + k - 1
      BY <2>1, <2>5
    <2>8. ASSUME NEW x \in p + 1 .. p + k - 2, x \in starts
          PROVE  FALSE
      <3>1. x - p + 1 \in 2 .. Len(pending) /\ x - p + 1 < k
        BY <2>1
      <3>2. pending[x - p + 1] = x
        BY <2>1, <2>5, <3>1
      <3>3. x - p + 1 \in Cuts
        BY <2>8, <3>1, <3>2 DEF Cuts
      <3> QED
        BY <1>1, <2>1, <3>1, <3>3
    <2>9. Stretch(starts, unit'[1], unit'[1] + Len(unit'))
      <3>1. unit'[1] = p /\ unit'[1] + Len(unit') = p + k - 1 /\ (p + k - 1) - 1 = p + k - 2
        BY <2>1, <2>6, <2>7
      <3> QED
        BY <2>1, <2>2, <2>7, <2>8, <3>1 DEF Stretch
    <2> QED
      BY <1>2, <2>9, UnitsStay DEF UnitsInv
  <1> QED
    BY <1>3, <1>4

LEMMA UnitsOfJudge ==
    ASSUME TypeOK, Control, FlowInv, UnitsInv, Next, Judge
    PROVE  UnitsInv'
  <1> USE DEF world, pipeVars, queueVars, unitVars, wireVars
  <1>1. UNCHANGED <<framed, asked, wire, starts>> /\ next' = "end" /\ sender = "judge"
    BY DEF Judge
  <1>2. CASE sender' # "write"
    <2>1. UNCHANGED out
      BY <1>2 DEF Judge, Fails
    <2> QED
      BY <1>1, <2>1, UnitsStay DEF UnitsInv
  <1>3. CASE sender' = "write"
    <2>1. next = "unit" /\ ~asked
      BY <1>3 DEF Judge, Fails
    <2>2. out' = [i \in 1 .. Len(unit) |->
                     Fragment(number, i - 1, Len(unit), unit[i], unit[i] + 1)]
      BY <1>3 DEF Judge, Fails
    <2>3. PICK o \in Nat, u \in Nat, p \in Nat, g \in Nat, h \in Nat : Chain(o, u, p, g, h)
      BY <1>1, <2>1 DEF FlowInv, Flow, Flowing
    <2>4. unit # <<>> /\ unit \in Seq(Nat)
      BY <2>1 DEF Control, TypeOK, DataTypeOK
    <2>5. Len(unit) \in Nat /\ 1 \in 1 .. Len(unit) /\ Len(out') = Len(unit)
      BY <2>2, <2>4
    <2>6. \A i \in 1 .. Len(unit) : unit[i] = u + i - 1
      BY <2>3 DEF Chain, Run
    <2>7. ASSUME NEW i \in 1 .. Len(unit), framed
          PROVE  UnitOf(starts, out'[i])
      <3>1. /\ out'[i].from = u + i - 1 /\ out'[i].index = i - 1 /\ out'[i].count = Len(unit)
        BY <2>2, <2>6 DEF Fragment
      <3>2. out'[i].from - out'[i].index = u /\ unit[1] = u
        BY <2>5, <2>6, <3>1
      <3>3. Stretch(starts, unit[1], unit[1] + Len(unit))
        BY <2>1, <2>7 DEF UnitsInv
      <3> QED
        BY <3>1, <3>2, <3>3 DEF UnitOf
    <2> QED
      BY <1>1, <2>5, <2>7, UnitsStay DEF UnitsInv
  <1> QED
    BY <1>2, <1>3

LEMMA UnitsOfWrite ==
    ASSUME TypeOK, UnitsInv, Next, WritesFragment
    PROVE  UnitsInv'
  <1> USE DEF world, pipeVars, queueVars, unitVars, wireVars
  <1>1. UNCHANGED <<framed, asked, starts, next, unit>>
    BY DEF WritesFragment
  <1>2. /\ out \in Seq(Fragments) /\ out # <<>> /\ out' = Tail(out)
        /\ wire \in Seq(Fragments) /\ wire' = Append(wire, Head(out))
    BY DEF WritesFragment, TypeOK, DataTypeOK
  <1>3. \A i \in 1 .. Len(out') : i + 1 \in 1 .. Len(out) /\ out'[i] = out[i + 1]
    BY <1>2
  <1>4. \A i \in 1 .. Len(wire') :
           wire'[i] = out[1] \/ (i \in 1 .. Len(wire) /\ wire'[i] = wire[i])
    BY <1>2
  <1>5. 1 \in 1 .. Len(out)
    BY <1>2
  <1>6. ASSUME framed
        PROVE  /\ \A i \in 1 .. Len(wire') : UnitOf(starts, wire'[i])
               /\ \A i \in 1 .. Len(out') : UnitOf(starts, out'[i])
    BY <1>3, <1>4, <1>5, <1>6 DEF UnitsInv
  <1> QED
    BY <1>1, <1>6, UnitsStay DEF UnitsInv

LEMMA UnitsStep == TypeOK /\ Control /\ FlowInv /\ UnitsInv /\ Next => UnitsInv'
  <1> SUFFICES ASSUME TypeOK, Control, FlowInv, UnitsInv, Next PROVE UnitsInv'
    OBVIOUS
  <1> USE DEF world, pipeVars, queueVars, unitVars, wireVars
  <1>1. CASE World \/ Encoder \/ ReaderStep \/ WatchStep \/ ReaderTimesOut \/ WatchStalls
    <2>1. UNCHANGED <<framed, wire, out, next, unit>> /\ (asked => asked')
      <3>1. World \/ Encoder => UNCHANGED <<framed, wire, out, next, unit>> /\ (asked => asked')
        BY DEF World, AskStop, ClientOrMonitorGoes, Encoder, Encodes, EncoderExits
      <3>2. ReaderStep => UNCHANGED <<framed, wire, out, next, unit>> /\ (asked => asked')
        BY DEF ReaderStep, ReaderReads, ReaderMeetsEnd, ReaderQueues, ReaderDisconnected
      <3>3. WatchStep \/ ReaderTimesOut \/ WatchStalls
               => UNCHANGED <<framed, wire, out, next, unit>> /\ (asked => asked')
        BY DEF WatchStep, WatchSees, WatchKills, WatchCancelled, ReaderTimesOut, WatchStalls
      <3> QED
        BY <1>1, <3>1, <3>2, <3>3
    <2> QED
      BY <2>1, UnitsStay DEF UnitsInv
  <1>2. CASE RefusesStray \/ NothingLeft \/ TakesEnd \/ ReadDisconnected \/ ReadTimesOut
    <2>1. UNCHANGED <<framed, wire, out, asked>> /\ sender = "next"
      BY <1>2 DEF RefusesStray, NothingLeft, TakesEnd, ReadDisconnected, ReadTimesOut, Wants
    <2>2. next' # "unit"
      BY <1>2, <2>1 DEF RefusesStray, NothingLeft, TakesEnd, ReadDisconnected, ReadTimesOut, ReadError,
         Yields, Fails, Control
    <2> QED
      BY <2>1, <2>2, UnitsStay DEF UnitsInv
  <1>3. CASE Top \/ WritesStop \/ Join \/ Drop \/ WriteFails
    <2>1. UNCHANGED <<framed, wire, out, asked, next, unit>>
      BY <1>3 DEF Top, WritesStop, Join, Drop, WriteFails
    <2> QED
      BY <2>1, UnitsStay DEF UnitsInv
  <1>4. CASE TakesChunk
    <2>1. UNCHANGED <<framed, wire, asked, next, unit>> /\ (framed => UNCHANGED out)
      BY <1>4 DEF TakesChunk
    <2> QED
      BY <2>1, UnitsStay DEF UnitsInv
  <1>5. CASE Reap
    <2>1. UNCHANGED <<framed, wire, asked, next, unit>> /\ Len(out') = 0
      BY <1>5 DEF Reap
    <2> QED
      BY <2>1, UnitsStay DEF UnitsInv
  <1>6. CASE SplitsLast
    <2>1. UNCHANGED <<framed, wire, out, asked>> /\ asked
      BY <1>6 DEF SplitsLast, TakesUnit, Control
    <2> QED
      BY <2>1, UnitsStay DEF UnitsInv
  <1>7. CASE SplitsUnit \/ Judge \/ WritesFragment
    BY <1>7, UnitsOfSplit, UnitsOfJudge, UnitsOfWrite
  <1> QED
    BY <1>1, <1>2, <1>3, <1>4, <1>5, <1>6, <1>7 DEF Next, SenderStep, TimeOut

\* Every fragment sent is of a unit that ffmpeg had finished and that Units cut
\* at the right place, also when ffmpeg was killed in the middle of a unit.
THEOREM UnitsWhole == Spec => []UnitsAreWhole
  <1>1. Init => FlowInv /\ Control /\ UnitsInv
    BY FlowInit, ControlInit DEF Init, UnitsInv
  <1>2. TypeOK /\ TypeOK' /\ Control /\ FlowInv /\ UnitsInv /\ [Next]_vars
           => (Control /\ FlowInv /\ UnitsInv)'
    <2>1. UnitsInv /\ UNCHANGED vars => UnitsInv'
      BY DEF UnitsInv, vars, world, pipeVars, queueVars, unitVars, wireVars
    <2> QED
      BY <2>1, FlowKept, ControlKept, UnitsStep
  <1>3. UnitsInv => UnitsAreWhole
    BY DEF UnitsInv, UnitsAreWhole, OfWholeUnit, UnitOf, Stretch
  <1> QED
    BY <1>1, <1>2, <1>3, TypeCorrect, PTL DEF Spec
=============================================================================
