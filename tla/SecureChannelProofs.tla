------------------------- MODULE SecureChannelProofs -------------------------
(***************************************************************************)
(* Theorems about SecureChannel, for any size of a record and of a write,  *)
(* any limit of the counter, any network and any pattern of reads.         *)
(***************************************************************************)
EXTENDS SecureChannel, SequenceTheorems, TLAPS

-----------------------------------------------------------------------------
(* The chunks of a write *)

LEMMA LeastOfTwo ==
    ASSUME NEW a \in Int, NEW b \in Int
    PROVE  /\ Least(a, b) \in {a, b}
           /\ Least(a, b) <= a /\ Least(a, b) <= b
  BY DEF Least

LEMMA ChunksFit ==
    ASSUME NEW m \in Nat \ {0}
    PROVE  /\ Chunks(m) \in Nat \ {0}
           /\ (Chunks(m) - 1) * MAX_RECORD_PLAINTEXT < m
           /\ m <= Chunks(m) * MAX_RECORD_PLAINTEXT
  <1> DEFINE P == MAX_RECORD_PLAINTEXT
             c == (m + P - 1) \div P
             r == (m + P - 1) % P
  <1>1. P \in Nat /\ P >= 1 /\ m + P - 1 \in Nat /\ m + P - 1 >= P
    BY SizesAssumption
  <1>2. c \in Int /\ r \in 0 .. P - 1 /\ m + P - 1 = P * c + r
    <2> HIDE DEF P
    <2> QED
      BY <1>1
  <1>3. c >= 1
    <2> HIDE DEF P, c, r
    <2>1. ASSUME c <= 0 PROVE P * c <= 0
      BY <1>1, <1>2, <2>1
    <2> QED
      BY <1>1, <1>2, <2>1
  <1>4. P * c = c * P /\ (c - 1) * P = c * P - P
    <2> HIDE DEF P, c, r
    <2> QED
      BY <1>1, <1>2
  <1>5. Chunks(m) = c
    BY DEF Chunks
  <1> HIDE DEF P, c, r
  <1>6. c \in Nat \ {0} /\ (c - 1) * P < m /\ m <= c * P
    BY <1>1, <1>2, <1>3, <1>4
  <1> QED
    BY <1>5, <1>6 DEF P

LEMMA Monotone ==
    ASSUME NEW a \in Nat, NEW b \in Nat, NEW p \in Nat, a <= b
    PROVE  a * p <= b * p
  OBVIOUS

\* The chunks follow one another, from the first byte after `Bytes' to the last
\* of the write.
LEMMA ChunksInRow ==
    ASSUME NEW m \in Nat \ {0}, Bytes \in Nat, NEW i \in 1 .. Chunks(m)
    PROVE  /\ Chunk(m, i) \in RangeType
           /\ Bytes < Chunk(m, i).lo
           /\ Chunk(m, i).lo <= Chunk(m, i).hi
           /\ i = 1 => Chunk(m, i).lo = Bytes + 1
           /\ Chunk(m, i).hi <= Bytes + m
           /\ i = Chunks(m) => Chunk(m, i).hi = Bytes + m
           /\ \A j \in 1 .. Chunks(m) :
                 /\ j = i - 1 => Chunk(m, i).lo = Chunk(m, j).hi + 1
                 /\ j < i => Chunk(m, j).hi < Chunk(m, i).lo
  <1> DEFINE P == MAX_RECORD_PLAINTEXT
  <1>0. P \in Nat /\ P >= 1
    BY SizesAssumption
  <1>1. Chunks(m) \in Nat \ {0} /\ (Chunks(m) - 1) * P < m /\ m <= Chunks(m) * P
    BY ChunksFit
  <1>2. /\ Chunk(m, i).lo = Bytes + (i - 1) * P + 1
        /\ Chunk(m, i).hi = Bytes + Least(i * P, m)
        /\ Chunk(m, i) = [lo |-> Chunk(m, i).lo, hi |-> Chunk(m, i).hi]
    BY DEF Chunk
  <1>3. i \in Nat /\ i - 1 \in Nat /\ i - 1 <= Chunks(m) - 1 /\ Chunks(m) - 1 \in Nat
    BY <1>1
  <1>4. (i - 1) * P \in Nat /\ i * P \in Nat /\ i * P = (i - 1) * P + P
    <2> HIDE DEF P
    <2> QED
      BY <1>0, <1>3
  <1>5. (i - 1) * P < m
    <2>1. (Chunks(m) - 1) * P \in Int /\ (i - 1) * P <= (Chunks(m) - 1) * P
      <3> HIDE DEF P
      <3> QED
        BY <1>0, <1>3, Monotone
    <2> HIDE DEF P
    <2> QED
      BY <1>1, <1>4, <2>1
  <1>6. Least(i * P, m) \in Nat /\ (i - 1) * P < Least(i * P, m) /\ Least(i * P, m) <= m
    <2> HIDE DEF P
    <2> QED
      BY <1>0, <1>4, <1>5, LeastOfTwo
  <1>7. i = 1 => (i - 1) * P = 0
    <2> HIDE DEF P
    <2> QED
      BY <1>0
  <1>8. i = Chunks(m) => Least(i * P, m) = m
    <2> HIDE DEF P
    <2> QED
      BY <1>1, <1>4 DEF Least
  <1>9. ASSUME NEW j \in 1 .. Chunks(m), j < i
        PROVE  /\ Chunk(m, j).hi < Chunk(m, i).lo
               /\ j = i - 1 => Chunk(m, i).lo = Chunk(m, j).hi + 1
    <2>1. Chunk(m, j).hi = Bytes + Least(j * P, m)
      BY DEF Chunk
    <2>2. j \in Nat /\ j <= i - 1 /\ j * P \in Nat
      <3> HIDE DEF P
      <3> QED
        BY <1>0, <1>1, <1>9
    <2>3. j * P <= (i - 1) * P
      <3> HIDE DEF P
      <3> QED
        BY <1>0, <1>3, <2>2, Monotone
    <2> HIDE DEF P
    <2>4. Least(j * P, m) = j * P
      BY <1>4, <1>5, <2>2, <2>3 DEF Least
    <2> QED
      BY <1>2, <1>4, <2>1, <2>2, <2>3, <2>4
  <1> HIDE DEF P
  <1> QED
    BY <1>2, <1>3, <1>4, <1>6, <1>7, <1>8, <1>9 DEF RangeType

-----------------------------------------------------------------------------
(* Types *)

\* Every unit belongs to a record that was sealed.
Known(s) == \A i \in 1 .. Len(s) : s[i].rec < Len(sealed)

\* The counter numbers the records, until it has run out.
Counting == Len(sealed) <= nonce /\ (nonce # MaxNonce => nonce = Len(sealed))

TypeInv ==
    TypeOK /\ Counting /\ Known(buffer) /\ Known(wire) /\ Known(record)

LEMMA UnitsTyped ==
    ASSUME NEW n \in Nat, NEW p \in 1 .. RecordUnits
    PROVE  Unit(n, p) \in UnitType /\ Unit(n, p).rec = n
  BY DEF Unit, UnitType, RecordUnits

LEMMA BytesTyped ==
    ASSUME SenderOK
    PROVE  Bytes \in Nat
  <1>1. CASE sealed = <<>>
    BY <1>1 DEF Bytes
  <1>2. CASE sealed # <<>>
    <2>1. Len(sealed) \in 1 .. Len(sealed) /\ sealed[Len(sealed)] \in RangeType
      BY <1>2 DEF SenderOK
    <2> QED
      BY <1>2, <2>1 DEF Bytes, RangeType
  <1> QED
    BY <1>1, <1>2

\* A group of variables that no step touches keeps its types.
LEMMA PartsStay ==
    ASSUME TypeOK
    PROVE  /\ UNCHANGED senderVars => SenderOK'
           /\ UNCHANGED netVars => NetOK'
           /\ UNCHANGED receiverVars => ReceiverOK'
           /\ UNCHANGED callVars => CallOK'
  BY DEF TypeOK, SenderOK, NetOK, ReceiverOK, CallOK,
         senderVars, netVars, receiverVars, callVars

LEMMA EmptyTyped ==
    /\ <<>> \in Seq(UnitType) /\ <<>> \in Seq(RangeType) /\ <<>> \in Seq(Nat)
    /\ Len(<<>>) = 0
  OBVIOUS

LEMMA TypeInit == Init => TypeInv
  <1> SUFFICES ASSUME Init
               PROVE  TypeInv
    OBVIOUS
  <1>0. 0 \in Nat /\ 0 \in 0 .. MaxNonce /\ 0 \in 0 .. MaxWant /\ FALSE \in BOOLEAN
        /\ [lo |-> 1, hi |-> 0] \in RangeType
    BY SizesAssumption, BoundsAssumption DEF RangeType
  <1>1. SenderOK
    BY <1>0, EmptyTyped, Zenon DEF Init, SenderOK
  <1>2. NetOK
    BY <1>0, EmptyTyped, Zenon DEF Init, NetOK
  <1>3. ReceiverOK
    BY <1>0, EmptyTyped, Zenon DEF Init, ReceiverOK
  <1>4. CallOK
    BY <1>0, EmptyTyped, Zenon DEF Init, CallOK
  <1>5. Counting
    BY EmptyTyped DEF Init, Counting
  <1>6. Known(buffer) /\ Known(wire) /\ Known(record)
    BY EmptyTyped DEF Init, Known
  <1> QED
    BY <1>1, <1>2, <1>3, <1>4, <1>5, <1>6 DEF TypeInv, TypeOK

LEMMA UnitsNumbered ==
    ASSUME NEW s \in Seq(UnitType), NEW i \in 1 .. Len(s)
    PROVE  s[i] \in UnitType /\ s[i].rec \in Int
  <1>1. s[i] \in UnitType
    OBVIOUS
  <1> QED
    BY <1>1 DEF UnitType, Nobody

LEMMA KnownGrows ==
    ASSUME NEW s \in Seq(UnitType), Known(s), NEW n \in Int,
           Len(sealed) \in Int, Len(sealed) <= n
    PROVE  \A i \in 1 .. Len(s) : s[i].rec < n
  BY UnitsNumbered DEF Known

LEMMA TypeWrite ==
    ASSUME TypeInv, NEW n \in 1 .. MaxMessage, Write(n)
    PROVE  TypeInv'
  <1> DEFINE m == Least(n, MAX_WRITE)
             c == Chunks(m)
  <1>1. n \in Nat \ {0} /\ m \in Nat \ {0} /\ c \in Nat \ {0} /\ Bytes \in Nat
    <2>1. n \in Nat \ {0} /\ MAX_WRITE \in Nat \ {0} /\ n \in Int /\ MAX_WRITE \in Int
      BY SizesAssumption, BoundsAssumption
    <2>2. m \in Nat \ {0}
      <3>1. m \in {n, MAX_WRITE}
        BY <2>1, LeastOfTwo
      <3> QED
        BY <2>1, <3>1
    <2>3. c \in Nat \ {0}
      <3> HIDE DEF m
      <3> QED
        BY <2>2, ChunksFit
    <2> QED
      BY <2>1, <2>2, <2>3, BytesTyped DEF TypeInv, TypeOK
  <1>2. sealed' = sealed \o [i \in 1 .. c |-> Chunk(m, i)]
    BY DEF Write
  <1>3. [i \in 1 .. c |-> Chunk(m, i)] \in Seq(RangeType)
        /\ Len([i \in 1 .. c |-> Chunk(m, i)]) = c
    BY <1>1, ChunksInRow
  <1>4. sealed' \in Seq(RangeType) /\ Len(sealed') = Len(sealed) + c
    <2> HIDE DEF c, m
    <2> QED
      BY <1>1, <1>2, <1>3 DEF TypeInv, TypeOK, SenderOK
  <1>5. nonce' = nonce + c /\ nonce + c <= MaxNonce /\ nonce \in 0 .. MaxNonce /\ MaxNonce \in Nat
        /\ Len(sealed) \in Nat /\ Len(sealed) <= nonce
    BY SizesAssumption DEF Write, TypeInv, TypeOK, SenderOK, Counting
  <1>6. nonce = Len(sealed)
    <2> HIDE DEF c, m
    <2> QED
      BY <1>1, <1>5 DEF TypeInv, Counting
  <1>7. nonce' \in 0 .. MaxNonce /\ Counting'
    <2> HIDE DEF c, m
    <2> QED
      BY <1>1, <1>4, <1>5, <1>6 DEF Counting
  <1>8. buffer' = [u \in 1 .. c * RecordUnits |->
                     Unit(nonce + (u - 1) \div RecordUnits, ((u - 1) % RecordUnits) + 1)]
    BY DEF Write
  <1>9. ASSUME NEW u \in 1 .. c * RecordUnits
        PROVE  Unit(nonce + (u - 1) \div RecordUnits, ((u - 1) % RecordUnits) + 1) \in UnitType
               /\ nonce + (u - 1) \div RecordUnits < Len(sealed')
    <2> HIDE DEF c, m
    <2>1. (u - 1) \div 4 \in Nat /\ (u - 1) \div 4 < c /\ (u - 1) % 4 \in 0 .. 3
      BY <1>1 DEF RecordUnits
    <2>2. nonce + (u - 1) \div 4 \in Nat /\ nonce + (u - 1) \div 4 < Len(sealed')
          /\ ((u - 1) % 4) + 1 \in 1 .. 4
      BY <1>1, <1>4, <1>5, <1>6, <2>1
    <2> QED
      BY <2>2, UnitsTyped DEF RecordUnits
  <1>10. buffer' \in Seq(UnitType) /\ Len(buffer') = c * RecordUnits
    <2> HIDE DEF c, m
    <2>1. c * RecordUnits \in Nat
      BY <1>1 DEF RecordUnits
    <2> QED
      BY <1>8, <1>9, <2>1
  <1>11. Known(buffer)'
    <2> HIDE DEF c, m
    <2>1. \A u \in 1 .. Len(buffer') : buffer'[u].rec < Len(sealed')
      BY <1>8, <1>9, <1>10 DEF Unit
    <2> QED
      BY <2>1 DEF Known
  <1>12. UNCHANGED <<wire, record, netVars, receiverVars, callVars, sfailed, acked>>
         /\ writing' = TRUE
    BY DEF Write, netVars, receiverVars
  <1>13. Known(wire)' /\ Known(record)'
    <2> HIDE DEF c, m
    <2>1. Len(sealed) \in Int /\ Len(sealed') \in Int /\ Len(sealed) <= Len(sealed')
      BY <1>1, <1>4, <1>5
    <2>2. wire \in Seq(UnitType) /\ record \in Seq(UnitType) /\ Known(wire) /\ Known(record)
      BY DEF TypeInv, TypeOK, NetOK, ReceiverOK
    <2> QED
      BY <1>12, <2>1, <2>2, KnownGrows DEF Known
  <1>14. SenderOK'
    <2> HIDE DEF c, m
    <2> QED
      BY <1>4, <1>7, <1>10, <1>12 DEF TypeInv, TypeOK, SenderOK
  <1>15. NetOK' /\ ReceiverOK' /\ CallOK'
    <2> HIDE DEF c, m
    <2> QED
      BY <1>12, PartsStay DEF TypeInv
  <1> QED
    BY <1>7, <1>11, <1>13, <1>14, <1>15 DEF TypeInv, TypeOK

\* Units taken from the front of one sequence for the end of another.
LEMMA UnitMoves ==
    ASSUME NEW s \in Seq(UnitType), NEW t \in Seq(UnitType), s # <<>>,
           Known(s), Known(t)
    PROVE  /\ Tail(s) \in Seq(UnitType) /\ Known(Tail(s))
           /\ Append(t, Head(s)) \in Seq(UnitType) /\ Known(Append(t, Head(s)))
  <1>1. Len(s) \in Nat \ {0} /\ Head(s) = s[1] /\ Head(s) \in UnitType
    OBVIOUS
  <1>2. Tail(s) \in Seq(UnitType) /\ Len(Tail(s)) = Len(s) - 1
        /\ \A i \in 1 .. Len(Tail(s)) : Tail(s)[i] = s[i + 1]
    OBVIOUS
  <1>3. Append(t, Head(s)) \in Seq(UnitType) /\ Len(Append(t, Head(s))) = Len(t) + 1
        /\ \A i \in 1 .. Len(t) + 1 :
              Append(t, Head(s))[i] = IF i <= Len(t) THEN t[i] ELSE Head(s)
    BY <1>1
  <1>4. Head(s).rec < Len(sealed)
    BY <1>1 DEF Known
  <1>5. Known(Tail(s))
    BY <1>1, <1>2 DEF Known
  <1>6. Known(Append(t, Head(s)))
    BY <1>3, <1>4 DEF Known
  <1> QED
    BY <1>2, <1>3, <1>5, <1>6

LEMMA KnownStays ==
    ASSUME TypeInv, UNCHANGED <<nonce, sealed>>
    PROVE  /\ Counting'
           /\ buffer' \in {buffer, <<>>} => Known(buffer)'
           /\ wire' \in {wire, <<>>} => Known(wire)'
           /\ record' \in {record, <<>>} => Known(record)'
  BY DEF TypeInv, Counting, Known

\* What a thread that is filling may find in a record that opens.
LEMMA OpensKnown ==
    ASSUME TypeInv, Opens
    PROVE  rnonce < Len(sealed) /\ rnonce < MaxNonce
  <1>1. record[3].rec < Len(sealed) /\ record[3].rec = rnonce
    BY DEF TypeInv, Known, Opens, RecordUnits, Unit
  <1> QED
    BY <1>1, SizesAssumption DEF TypeInv, TypeOK, SenderOK, ReceiverOK, Counting

LEMMA TypeDamage ==
    ASSUME TypeInv, NEW u \in 1 .. Len(wire), Damage(u)
    PROVE  TypeInv'
  <1>1. wire \in Seq(UnitType) /\ wire[u] \in UnitType
    BY DEF TypeInv, TypeOK, NetOK
  <1>2. PICK v \in UnitType : wire' = [wire EXCEPT ![u] = v] /\ v.rec <= wire[u].rec
    <2>1. ASSUME NEW need \in {2, 3, RecordUnits + 1},
                 wire' = [wire EXCEPT ![u].need = need]
          PROVE  \E v \in UnitType : wire' = [wire EXCEPT ![u] = v] /\ v.rec <= wire[u].rec
      <3>1. [wire[u] EXCEPT !.need = need] \in UnitType
            /\ [wire[u] EXCEPT !.need = need].rec <= wire[u].rec
        BY <1>1 DEF UnitType, RecordUnits, Nobody
      <3> QED
        BY <2>1, <3>1
    <2>2. ASSUME wire' = [wire EXCEPT ![u].rec = Nobody]
          PROVE  \E v \in UnitType : wire' = [wire EXCEPT ![u] = v] /\ v.rec <= wire[u].rec
      <3>1. [wire[u] EXCEPT !.rec = Nobody] \in UnitType
            /\ [wire[u] EXCEPT !.rec = Nobody].rec <= wire[u].rec
        BY <1>1 DEF UnitType, RecordUnits, Nobody
      <3> QED
        BY <2>2, <3>1
    <2> QED
      BY <2>1, <2>2 DEF Damage
  <1>3. wire' \in Seq(UnitType) /\ Len(wire') = Len(wire)
        /\ \A i \in 1 .. Len(wire) : wire'[i] = IF i = u THEN v ELSE wire[i]
    BY <1>1, <1>2
  <1>4. UNCHANGED <<senderVars, receiverVars, callVars, conn>> /\ damage' = damage + 1
    BY DEF Damage
  <1>5. Known(wire)'
    <2>1. wire[u].rec \in Int /\ v.rec \in Int
      BY <1>1, <1>2, UnitsNumbered DEF UnitType, Nobody
    <2>2. Len(sealed) \in Int /\ sealed' = sealed /\ Known(wire)
      BY <1>4 DEF TypeInv, TypeOK, SenderOK, senderVars
    <2>3. v.rec < Len(sealed)
      BY <1>2, <2>1, <2>2 DEF Known
    <2> QED
      BY <1>3, <2>2, <2>3 DEF Known
  <1>6. NetOK'
    BY <1>3, <1>4 DEF TypeInv, TypeOK, NetOK
  <1>7. TypeOK'
    BY <1>4, <1>6, PartsStay DEF TypeInv, TypeOK
  <1>8. UNCHANGED <<nonce, sealed, buffer, record>>
    BY <1>4 DEF senderVars, receiverVars
  <1> QED
    BY <1>5, <1>7, <1>8, KnownStays DEF TypeInv

LEMMA TypeSender ==
    ASSUME TypeInv,
           \/ \E n \in 1 .. MaxMessage : WriteExhausted(n)
           \/ Put \/ WriteReturns \/ WriteInterrupted
    PROVE  TypeInv'
  <1> USE DEF TypeInv, TypeOK
  <1>1. CASE \E n \in 1 .. MaxMessage : WriteExhausted(n)
    <2>1. SenderOK' /\ Counting'
      BY <1>1, SizesAssumption DEF SenderOK, Counting, WriteExhausted
    <2>2. NetOK' /\ ReceiverOK' /\ CallOK'
      BY <1>1, PartsStay DEF WriteExhausted
    <2>3. UNCHANGED <<sealed, buffer, wire, record>>
      BY <1>1 DEF WriteExhausted, netVars, receiverVars
    <2> QED
      BY <2>1, <2>2, <2>3 DEF Known
  <1>2. CASE Put
    <2>1. Tail(buffer) \in Seq(UnitType) /\ Known(Tail(buffer))
          /\ Append(wire, Head(buffer)) \in Seq(UnitType) /\ Known(Append(wire, Head(buffer)))
      BY <1>2, UnitMoves DEF SenderOK, NetOK, Put
    <2>2. SenderOK' /\ NetOK'
      BY <1>2, <2>1 DEF SenderOK, NetOK, Put
    <2>3. ReceiverOK' /\ CallOK'
      BY <1>2, PartsStay DEF Put
    <2>4. Known(buffer)' /\ Known(wire)'
      BY <1>2, <2>1 DEF Known, Put
    <2>5. UNCHANGED <<nonce, sealed, record>>
      BY <1>2 DEF Put, receiverVars
    <2> QED
      BY <2>2, <2>3, <2>4, <2>5, KnownStays
  <1>3. CASE WriteReturns
    <2>1. SenderOK'
      BY <1>3, BytesTyped DEF SenderOK, WriteReturns
    <2>2. NetOK' /\ ReceiverOK' /\ CallOK'
      BY <1>3, PartsStay DEF WriteReturns
    <2>3. UNCHANGED <<nonce, sealed, buffer, wire, record>>
      BY <1>3 DEF WriteReturns, netVars, receiverVars
    <2> QED
      BY <2>1, <2>2, <2>3, KnownStays
  <1>4. CASE WriteInterrupted
    <2>1. SenderOK'
      BY <1>4, EmptyTyped DEF SenderOK, WriteInterrupted
    <2>2. NetOK' /\ ReceiverOK' /\ CallOK'
      BY <1>4, PartsStay DEF WriteInterrupted
    <2>3. buffer' = <<>> /\ UNCHANGED <<nonce, sealed, wire, record>>
      BY <1>4 DEF WriteInterrupted, netVars, receiverVars
    <2> QED
      BY <2>1, <2>2, <2>3, KnownStays
  <1> QED
    BY <1>1, <1>2, <1>3, <1>4

LEMMA TypeConnection ==
    ASSUME TypeInv, (\E end \in {"sender", "receiver"} : Shut(end)) \/ Reset
    PROVE  TypeInv'
  <1> USE DEF TypeInv, TypeOK
  <1>1. wire' \in {wire, <<>>} /\ conn' \in {"sender", "receiver", "reset"}
        /\ UNCHANGED <<senderVars, damage, receiverVars, callVars>>
    BY DEF Shut, Reset
  <1>2. NetOK'
    BY <1>1, EmptyTyped DEF NetOK
  <1>3. UNCHANGED <<nonce, sealed, buffer, record>>
    BY <1>1 DEF senderVars, receiverVars
  <1> QED
    BY <1>1, <1>2, <1>3, KnownStays, PartsStay

\* The bytes that a call returns.
Output == [i \in 1 .. Least(Unread, want) |-> plain.lo + offset + i - 1]

LEMMA OutputTyped ==
    ASSUME TypeInv, Unread > 0
    PROVE  /\ Output \in Seq(Nat)
           /\ Len(Output) = Least(Unread, want)
           /\ Least(Unread, want) \in Nat /\ Least(Unread, want) <= Unread
  <1>1. Unread \in Nat /\ want \in Nat /\ plain.lo \in Nat /\ offset \in Nat
    BY BoundsAssumption DEF TypeInv, TypeOK, ReceiverOK, CallOK, RangeType, Unread
  <1>2. Least(Unread, want) \in Nat /\ Least(Unread, want) <= Unread
    BY <1>1, LeastOfTwo
  <1> QED
    BY <1>1, <1>2 DEF Output

LEMMA TypeReceiver ==
    ASSUME TypeInv,
           \/ \E t \in Threads, n \in 1 .. MaxWant : Call(t, n)
           \/ Fill \/ TooShort \/ Open \/ Refuse \/ Timeout \/ Ends \/ Return
    PROVE  TypeInv'
  <1> USE DEF TypeInv, TypeOK
  <1>1. CASE \E t \in Threads, n \in 1 .. MaxWant : Call(t, n)
    <2>1. CallOK'
      BY <1>1, BoundsAssumption DEF CallOK, Call
    <2>2. UNCHANGED <<senderVars, netVars, receiverVars>>
      BY <1>1 DEF Call
    <2> QED
      BY <2>1, <2>2, PartsStay, KnownStays DEF senderVars, netVars, receiverVars
  <1>2. CASE Fill
    <2>1. Tail(wire) \in Seq(UnitType) /\ Known(Tail(wire))
          /\ Append(record, Head(wire)) \in Seq(UnitType) /\ Known(Append(record, Head(wire)))
      BY <1>2, UnitMoves DEF NetOK, ReceiverOK, Fill
    <2>2. NetOK' /\ ReceiverOK'
      BY <1>2, <2>1 DEF NetOK, ReceiverOK, Fill
    <2>3. SenderOK' /\ CallOK'
      BY <1>2, PartsStay DEF Fill
    <2>4. UNCHANGED <<nonce, sealed, buffer>>
      BY <1>2 DEF Fill, senderVars
    <2>5. Known(record)' /\ Known(wire)'
      BY <1>2, <2>1, <2>4 DEF Known, Fill
    <2> QED
      BY <2>2, <2>3, <2>4, <2>5, KnownStays
  <1>3. CASE TooShort \/ Refuse \/ Timeout \/ Ends
    <2>1. Release /\ UNCHANGED <<got, seen, rnonce, record, plain, offset, senderVars, netVars>>
          /\ rfailed' \in {rfailed, TRUE}
      BY <1>3 DEF TooShort, Refuse, Timeout, Ends, receiverVars
    <2>2. eof' = eof \/ eof' = (eof \/ (record = <<>> /\ conn # "reset"))
      BY <1>3 DEF TooShort, Refuse, Timeout, Ends
    <2>3. eof' \in BOOLEAN
      BY <2>2, Zenon DEF CallOK
    <2>4. CallOK'
      BY <2>1, <2>3, BoundsAssumption DEF CallOK, Release
    <2>5. ReceiverOK'
      BY <2>1 DEF ReceiverOK
    <2> QED
      BY <2>1, <2>4, <2>5, PartsStay, KnownStays DEF senderVars, netVars
  <1>4. CASE Open
    <2>1. rnonce < Len(sealed) /\ rnonce < MaxNonce
      BY <1>4, OpensKnown DEF Open
    <2>2. rnonce + 1 \in 0 .. MaxNonce /\ sealed[rnonce + 1] \in RangeType
      BY <2>1, SizesAssumption DEF SenderOK, ReceiverOK
    <2>3. plain' = sealed[rnonce + 1] /\ offset' = 0 /\ record' = <<>> /\ rnonce' = rnonce + 1
          /\ UNCHANGED <<rfailed, callVars, senderVars, netVars>>
      BY <1>4, <2>1 DEF Open, callVars
    <2>4. ReceiverOK'
      BY <2>2, <2>3, EmptyTyped DEF ReceiverOK
    <2> QED
      BY <2>3, <2>4, PartsStay, KnownStays DEF senderVars, netVars
  <1>5. CASE Return
    <2>1. Output \in Seq(Nat) /\ Least(Unread, want) \in Nat
      BY <1>5, OutputTyped DEF Return
    <2>2. Release /\ UNCHANGED <<rnonce, rfailed, record, plain, eof, senderVars, netVars>>
          /\ \/ got' = got \o Output /\ offset' = offset + Least(Unread, want) /\ seen' = <<>>
             \/ UNCHANGED <<got, offset>> /\ seen' = Output
      BY <1>5 DEF Return, Output
    <2>3. got' \in Seq(Nat) /\ seen' \in Seq(Nat) /\ offset' \in Nat
      <3>1. got \o Output \in Seq(Nat) /\ got \in Seq(Nat)
        BY <2>1 DEF CallOK
      <3>2. offset + Least(Unread, want) \in Nat /\ offset \in Nat
        BY <2>1 DEF ReceiverOK
      <3> QED
        BY <2>1, <2>2, <3>1, <3>2, EmptyTyped
    <2>4. CallOK' /\ ReceiverOK'
      BY <2>2, <2>3, BoundsAssumption DEF CallOK, ReceiverOK, Release
    <2> QED
      BY <2>2, <2>4, PartsStay, KnownStays DEF senderVars, netVars
  <1> QED
    BY <1>1, <1>2, <1>3, <1>4, <1>5

LEMMA TypeStep == TypeInv /\ [Next]_vars => TypeInv'
  <1>1. TypeInv /\ UNCHANGED vars => TypeInv'
    BY PartsStay, KnownStays
       DEF TypeInv, TypeOK, vars, senderVars, netVars, receiverVars
  <1> QED
    BY <1>1, TypeWrite, TypeSender, TypeConnection, TypeDamage, TypeReceiver DEF Next

\* Every variable of the channel keeps its type.
THEOREM TypeCorrect == Spec => []TypeOK
  <1>1. TypeInv => TypeOK
    BY DEF TypeInv
  <1> QED
    BY <1>1, TypeInit, TypeStep, PTL DEF Spec

-----------------------------------------------------------------------------
(* The order of the bytes *)

\* The records continue one another.
InRow ==
    \A i \in 1 .. Len(sealed) :
        /\ sealed[i].lo <= sealed[i].hi /\ sealed[i].hi <= Bytes
        /\ sealed[i].lo = IF i = 1 THEN 1 ELSE sealed[i - 1].hi + 1

\* The receiver's place in its last record is right after the bytes it returned.
Place ==
    /\ rnonce <= Len(sealed)
    /\ plain.hi = IF rnonce = 0 THEN 0 ELSE sealed[rnonce].hi
    /\ plain.lo + offset = Len(got) + 1
    /\ offset <= plain.hi - plain.lo + 1

\* A call that has the mutex found a receiver that had not failed.
Calling == holder # "none" => want > 0 /\ ~rfailed

OrderInv == TypeInv /\ InRow /\ Place /\ Calling /\ PeekedIsNext

LEMMA SealedGrows ==
    ASSUME TypeInv, NEW n \in 1 .. MaxMessage, Write(n)
    PROVE  \E m \in Nat \ {0} :
              /\ Chunks(m) \in Nat \ {0}
              /\ Len(sealed') = Len(sealed) + Chunks(m)
              /\ \A i \in 1 .. Len(sealed) : sealed'[i] = sealed[i]
              /\ \A i \in 1 .. Chunks(m) : sealed'[Len(sealed) + i] = Chunk(m, i)
  <1> DEFINE m == Least(n, MAX_WRITE)
             s == [i \in 1 .. Chunks(m) |-> Chunk(m, i)]
  <1>1. n \in Int /\ n > 0 /\ MAX_WRITE \in Nat \ {0}
    BY SizesAssumption, BoundsAssumption
  <1>2. m \in Nat \ {0}
    BY <1>1 DEF Least
  <1>3. Chunks(m) \in Nat \ {0} /\ Bytes \in Nat
    <2> HIDE DEF m
    <2> QED
      BY <1>2, ChunksFit, BytesTyped DEF TypeInv, TypeOK
  <1>4. \A i \in 1 .. Chunks(m) : Chunk(m, i) \in RangeType
    <2> HIDE DEF m
    <2> QED
      BY <1>2, <1>3, ChunksInRow
  <1>5. sealed \in Seq(RangeType) /\ s \in Seq(RangeType) /\ Len(s) = Chunks(m)
        /\ \A i \in 1 .. Chunks(m) : s[i] = Chunk(m, i)
    <2> HIDE DEF m
    <2> QED
      BY <1>3, <1>4 DEF TypeInv, TypeOK, SenderOK
  <1>6. sealed' = sealed \o s
    BY DEF Write
  <1>7. /\ Len(sealed') = Len(sealed) + Chunks(m)
        /\ \A i \in 1 .. Len(sealed) : sealed'[i] = sealed[i]
        /\ \A i \in 1 .. Chunks(m) : sealed'[Len(sealed) + i] = Chunk(m, i)
    <2> HIDE DEF m, s
    <2>1. Len(sealed \o s) = Len(sealed) + Len(s)
          /\ \A i \in 1 .. Len(sealed) + Len(s) :
                (sealed \o s)[i] = IF i <= Len(sealed) THEN sealed[i] ELSE s[i - Len(sealed)]
      BY <1>5, ConcatProperties
    <2>2. Len(sealed) \in Nat
      BY <1>5
    <2> QED
      BY <1>3, <1>5, <1>6, <2>1, <2>2
  <1> QED
    BY <1>2, <1>3, <1>7

LEMMA OrderWrite ==
    ASSUME OrderInv, NEW n \in 1 .. MaxMessage, Write(n)
    PROVE  InRow' /\ Place' /\ Calling' /\ PeekedIsNext' /\ Bytes' \in Nat /\ Bytes' > Bytes
  <1>1. PICK m \in Nat \ {0} :
              /\ Chunks(m) \in Nat \ {0}
              /\ Len(sealed') = Len(sealed) + Chunks(m)
              /\ \A i \in 1 .. Len(sealed) : sealed'[i] = sealed[i]
              /\ \A i \in 1 .. Chunks(m) : sealed'[Len(sealed) + i] = Chunk(m, i)
    BY SealedGrows DEF OrderInv
  <1>2. Bytes \in Nat /\ Len(sealed) \in Nat /\ sealed \in Seq(RangeType)
    BY BytesTyped DEF OrderInv, TypeInv, TypeOK, SenderOK
  <1>3. Bytes' = Bytes + m
    <2>1. sealed' # <<>> /\ Len(sealed') = Len(sealed) + Chunks(m)
      BY <1>1, <1>2
    <2>2. sealed'[Len(sealed')] = Chunk(m, Chunks(m))
      BY <1>1, <1>2
    <2> QED
      BY <1>1, <1>2, <2>1, <2>2, ChunksInRow DEF Bytes
  <1>4. ASSUME NEW i \in 1 .. Len(sealed)
        PROVE  /\ sealed'[i].lo <= sealed'[i].hi /\ sealed'[i].hi <= Bytes'
               /\ sealed'[i].lo = IF i = 1 THEN 1 ELSE sealed'[i - 1].hi + 1
    <2>1. sealed[i] \in RangeType /\ (i # 1 => i - 1 \in 1 .. Len(sealed))
      BY <1>2
    <2>2. sealed'[i] = sealed[i] /\ (i # 1 => sealed'[i - 1] = sealed[i - 1])
      BY <1>1, <2>1
    <2>3. sealed[i].lo <= sealed[i].hi /\ sealed[i].hi <= Bytes
          /\ sealed[i].lo = IF i = 1 THEN 1 ELSE sealed[i - 1].hi + 1
      BY DEF OrderInv, InRow
    <2>4. sealed[i].hi \in Nat /\ sealed[i].hi <= Bytes'
      BY <1>2, <1>3, <2>1, <2>3 DEF RangeType
    <2> QED
      BY <2>2, <2>3, <2>4
  <1>5. ASSUME NEW i \in 1 .. Chunks(m), NEW k \in Nat, k = Len(sealed) + i
        PROVE  /\ sealed'[k].lo <= sealed'[k].hi /\ sealed'[k].hi <= Bytes'
               /\ sealed'[k].lo = IF k = 1 THEN 1 ELSE sealed'[k - 1].hi + 1
    <2>1. sealed'[k] = Chunk(m, i) /\ Chunk(m, i) \in RangeType
          /\ Chunk(m, i).lo <= Chunk(m, i).hi /\ Chunk(m, i).hi <= Bytes + m
      BY <1>1, <1>2, <1>5, ChunksInRow
    <2>2. CASE i = 1 /\ Len(sealed) = 0
      <3>1. k = 1 /\ Bytes = 0 /\ Chunk(m, i).lo = Bytes + 1
        BY <1>1, <1>2, <1>5, <2>2, ChunksInRow DEF Bytes
      <3> QED
        BY <1>3, <2>1, <3>1
    <2>3. CASE i = 1 /\ Len(sealed) # 0
      <3>1. k - 1 = Len(sealed) /\ k # 1 /\ sealed # <<>> /\ Chunk(m, i).lo = Bytes + 1
        BY <1>1, <1>2, <1>5, <2>3, ChunksInRow
      <3>2. sealed'[k - 1].hi = Bytes
        BY <1>1, <1>2, <2>3, <3>1 DEF Bytes
      <3> QED
        BY <1>3, <2>1, <3>1, <3>2
    <2>4. CASE i # 1
      <3>1. i - 1 \in 1 .. Chunks(m) /\ k - 1 = Len(sealed) + (i - 1) /\ k # 1
        BY <1>1, <1>2, <1>5, <2>4
      <3>2. sealed'[k - 1] = Chunk(m, i - 1) /\ Chunk(m, i).lo = Chunk(m, i - 1).hi + 1
        BY <1>1, <1>2, <3>1, ChunksInRow
      <3> QED
        BY <1>3, <2>1, <3>1, <3>2
    <2> QED
      BY <1>2, <2>2, <2>3, <2>4
  <1>6. InRow'
    <2> SUFFICES ASSUME NEW j \in 1 .. Len(sealed')
                 PROVE  /\ sealed'[j].lo <= sealed'[j].hi /\ sealed'[j].hi <= Bytes'
                        /\ sealed'[j].lo = IF j = 1 THEN 1 ELSE sealed'[j - 1].hi + 1
      BY DEF InRow
    <2>1. CASE j <= Len(sealed)
      BY <1>1, <1>2, <1>4, <2>1
    <2>2. CASE j > Len(sealed)
      <3>1. j - Len(sealed) \in 1 .. Chunks(m) /\ j = Len(sealed) + (j - Len(sealed))
        BY <1>1, <1>2, <2>2
      <3>2. j \in Nat
        BY <1>1, <1>2
      <3> QED
        BY <1>5, <3>1, <3>2
    <2> QED
      BY <1>1, <1>2, <2>1, <2>2
  <1>7. UNCHANGED <<rnonce, plain, offset, got, seen, holder, want, rfailed>>
    BY DEF Write, receiverVars, callVars
  <1>8. Place'
    <2>1. rnonce \in Nat /\ rnonce <= Len(sealed) /\ rnonce <= Len(sealed')
          /\ (rnonce # 0 => sealed'[rnonce] = sealed[rnonce])
      BY <1>1, <1>2 DEF OrderInv, Place, TypeInv, TypeOK, ReceiverOK
    <2> QED
      BY <1>7, <2>1 DEF OrderInv, Place
  <1>9. Calling' /\ PeekedIsNext'
    BY <1>7 DEF OrderInv, Calling, PeekedIsNext
  <1> QED
    BY <1>2, <1>3, <1>6, <1>8, <1>9

\* The steps that touch neither the sealed records nor the receiver's place.
LEMMA OrderKept ==
    ASSUME OrderInv, UNCHANGED <<sealed, rnonce, plain, offset, got, seen>>
    PROVE  InRow' /\ Place' /\ PeekedIsNext' /\ Bytes' = Bytes
  BY DEF OrderInv, InRow, Place, PeekedIsNext, Bytes

LEMMA OrderOpen ==
    ASSUME OrderInv, Open
    PROVE  InRow' /\ Place' /\ Calling' /\ PeekedIsNext' /\ Bytes' = Bytes
           /\ UNCHANGED <<got, sfailed, rfailed>>
  <1>1. rnonce \in Nat /\ rnonce < Len(sealed) /\ rnonce < MaxNonce
    BY OpensKnown DEF OrderInv, Open, TypeInv, TypeOK, ReceiverOK
  <1>2. plain' = sealed[rnonce + 1] /\ offset' = 0 /\ rnonce' = rnonce + 1
        /\ UNCHANGED <<sealed, got, seen, holder, want, rfailed, sfailed>>
    BY <1>1 DEF Open, senderVars
  <1>3. Unread = 0
    BY DEF Open, Filling
  <1>4. plain.lo \in Nat /\ plain.hi \in Nat /\ offset \in Nat /\ Len(got) \in Nat
    BY DEF OrderInv, TypeInv, TypeOK, ReceiverOK, CallOK, RangeType
  <1>5. plain.hi = Len(got)
    BY <1>3, <1>4 DEF OrderInv, Place, Unread
  <1>6. rnonce + 1 \in 1 .. Len(sealed) /\ sealed[rnonce + 1] \in RangeType
    BY <1>1 DEF OrderInv, TypeInv, TypeOK, SenderOK
  <1>7. sealed[rnonce + 1].lo = Len(got) + 1 /\ sealed[rnonce + 1].lo <= sealed[rnonce + 1].hi
    <2>1. sealed[rnonce + 1].lo <= sealed[rnonce + 1].hi
          /\ sealed[rnonce + 1].lo = IF rnonce + 1 = 1 THEN 1 ELSE sealed[rnonce].hi + 1
      BY <1>1, <1>6 DEF OrderInv, InRow
    <2> QED
      BY <1>1, <1>4, <1>5, <2>1 DEF OrderInv, Place
  <1>8. Place'
    BY <1>1, <1>2, <1>4, <1>6, <1>7 DEF Place, RangeType
  <1> QED
    BY <1>2, <1>8 DEF OrderInv, InRow, Calling, PeekedIsNext, Bytes

LEMMA OrderReturn ==
    ASSUME OrderInv, Return
    PROVE  /\ InRow' /\ Place' /\ Calling' /\ PeekedIsNext' /\ Bytes' = Bytes
           /\ UNCHANGED <<sfailed, rfailed>> /\ ~rfailed
           /\ \/ UNCHANGED got
              \/ \E n \in 1 .. (Bytes - Len(got)) :
                    got' = got \o [i \in 1 .. n |-> Len(got) + i]
  <1> DEFINE count == Least(Unread, want)
  <1>1. plain.lo \in Nat /\ plain.hi \in Nat /\ offset \in Nat /\ Len(got) \in Nat
        /\ got \in Seq(Nat) /\ rnonce \in Nat /\ want \in Nat /\ Bytes \in Nat
    BY BytesTyped, BoundsAssumption
       DEF OrderInv, TypeInv, TypeOK, ReceiverOK, CallOK, RangeType
  <1>2. Unread > 0 /\ want > 0 /\ ~rfailed
    BY DEF Return, OrderInv, Calling
  <1>3. Unread = plain.hi - Len(got) /\ plain.hi <= Bytes
    <2>1. rnonce # 0 => rnonce \in 1 .. Len(sealed)
      BY <1>1 DEF OrderInv, Place
    <2>2. rnonce # 0 => sealed[rnonce].hi <= Bytes
      BY <2>1 DEF OrderInv, InRow
    <2>3. plain.hi <= Bytes
      BY <1>1, <2>2 DEF OrderInv, Place
    <2>4. plain.lo + offset = Len(got) + 1
      BY DEF OrderInv, Place
    <2> QED
      BY <1>1, <2>3, <2>4 DEF Unread
  <1>4. count \in Nat /\ count > 0 /\ count <= Unread
    BY <1>1, <1>2, <1>3 DEF Least
  <1>5. Output = [i \in 1 .. count |-> Len(got) + i]
    <2>1. \A i \in 1 .. count : plain.lo + offset + i - 1 = Len(got) + i
      BY <1>1, <1>4 DEF OrderInv, Place
    <2> HIDE DEF count
    <2> QED
      BY <2>1 DEF Output, count
  <1> HIDE DEF count
  <1>6. Output \in Seq(Nat) /\ Len(Output) = count /\ \A i \in 1 .. count : Output[i] = Len(got) + i
    BY <1>1, <1>4, <1>5
  <1>7. UNCHANGED <<sealed, plain, rnonce, sfailed, rfailed>> /\ holder' = "none"
    BY DEF Return, Release, senderVars
  <1>8. InRow' /\ Bytes' = Bytes /\ Calling'
    BY <1>7 DEF OrderInv, InRow, Bytes, Calling
  <1>9. CASE holder = "read" /\ got' = got \o Output /\ offset' = offset + count /\ seen' = <<>>
    <2>1. Len(got') = Len(got) + count
      BY <1>1, <1>6, <1>9, ConcatProperties
    <2>2. plain.lo + offset = Len(got) + 1 /\ Unread = plain.hi - plain.lo + 1 - offset
      BY DEF OrderInv, Place, Unread
    <2>3. plain.lo + offset' = Len(got') + 1 /\ offset' <= plain.hi - plain.lo + 1
      <3>1. offset' = offset + count
        BY <1>9
      <3>2. offset' <= plain.hi - plain.lo + 1
        BY <1>1, <1>4, <2>2, <3>1
      <3>3. plain.lo + offset' = Len(got') + 1
        <4>1. plain.lo \in Nat /\ offset \in Nat /\ Len(got) \in Nat /\ count \in Nat
          BY <1>1, <1>4
        <4>2. plain.lo + offset' = (plain.lo + offset) + count
          BY <3>1, <4>1
        <4>3. (plain.lo + offset) + count = (Len(got) + count) + 1
          BY <2>2, <4>1
        <4> QED
          BY <2>1, <4>2, <4>3
      <3> QED
        BY <3>2, <3>3
    <2>4. Place'
      BY <1>7, <2>3 DEF OrderInv, Place
    <2>5. PeekedIsNext'
      BY <1>9, EmptyTyped DEF PeekedIsNext
    <2>6. count \in 1 .. (Bytes - Len(got))
      BY <1>1, <1>3, <1>4
    <2> QED
      BY <1>2, <1>5, <1>7, <1>8, <1>9, <2>4, <2>5, <2>6
  <1>10. CASE seen' = Output /\ UNCHANGED <<got, offset>>
    <2>1. Place'
      BY <1>7, <1>10 DEF OrderInv, Place
    <2>2. PeekedIsNext'
      BY <1>6, <1>10 DEF PeekedIsNext
    <2> QED
      BY <1>2, <1>7, <1>8, <1>10, <2>1, <2>2
  <1> QED
    BY <1>9, <1>10 DEF Return, Output, count

LEMMA OrderOthers ==
    ASSUME OrderInv,
           \/ \E n \in 1 .. MaxMessage : WriteExhausted(n)
           \/ Put \/ WriteReturns \/ WriteInterrupted
           \/ \E end \in {"sender", "receiver"} : Shut(end)
           \/ Reset
           \/ \E u \in 1 .. Len(wire) : Damage(u)
           \/ \E t \in Threads, n \in 1 .. MaxWant : Call(t, n)
           \/ Fill \/ TooShort \/ Refuse \/ Timeout \/ Ends
           \/ UNCHANGED vars
    PROVE  /\ InRow' /\ Place' /\ Calling' /\ PeekedIsNext' /\ Bytes' = Bytes
           /\ UNCHANGED got
           /\ sfailed' \in {sfailed, TRUE} /\ rfailed' \in {rfailed, TRUE}
           /\ (sfailed' = sfailed \/ rfailed' = rfailed)
  <1>1. UNCHANGED <<sealed, rnonce, plain, offset, got, seen>>
        /\ sfailed' \in {sfailed, TRUE} /\ rfailed' \in {rfailed, TRUE}
        /\ (sfailed' = sfailed \/ rfailed' = rfailed)
    BY DEF vars, senderVars, netVars, receiverVars, callVars, WriteExhausted, Put,
           WriteReturns, WriteInterrupted, Shut, Reset, Damage, Call, Fill, TooShort,
           Refuse, Timeout, Ends
  <1>2. \/ UNCHANGED <<holder, want, rfailed>>
        \/ holder' = "none"
        \/ rfailed' = rfailed /\ ~rfailed /\ want' > 0
    BY DEF vars, senderVars, netVars, receiverVars, callVars, WriteExhausted, Put,
           WriteReturns, WriteInterrupted, Shut, Reset, Damage, Call, Fill, TooShort,
           Refuse, Timeout, Ends, Release
  <1>3. Calling'
    BY <1>2 DEF OrderInv, Calling
  <1> QED
    BY <1>1, <1>3, OrderKept

LEMMA OrderInit == Init => OrderInv /\ Bytes = 0
  BY TypeInit, EmptyTyped
     DEF Init, OrderInv, InRow, Place, Calling, PeekedIsNext, Bytes

LEMMA OrderStep == OrderInv /\ [Next]_vars => OrderInv'
  <1> SUFFICES ASSUME OrderInv, [Next]_vars
               PROVE  InRow' /\ Place' /\ Calling' /\ PeekedIsNext'
    BY TypeStep DEF OrderInv
  <1> QED
    BY OrderWrite, OrderOpen, OrderReturn, OrderOthers DEF Next

\* What peek returned is what the next read returns.
THEOREM PeekShowsNext == Spec => []PeekedIsNext
  <1>1. OrderInv => PeekedIsNext
    BY DEF OrderInv
  <1> QED
    BY <1>1, OrderInit, OrderStep, PTL DEF Spec

LEMMA PipeStep ==
    ASSUME OrderInv, [Next]_vars
    PROVE  [Pipe!Next]_(Pipe!vars)
  <1> USE DEF Pipe!Next, Pipe!vars
  <1>1. ASSUME NEW n \in 1 .. MaxMessage, Write(n)
        PROVE  Pipe!Send
    BY <1>1, OrderWrite DEF Pipe!Send, Write, receiverVars, callVars
  <1>2. CASE Open
    BY <1>2, OrderOpen
  <1>3. CASE Return
    <2>1. Bytes' = Bytes /\ UNCHANGED <<sfailed, rfailed>> /\ ~rfailed
          /\ \/ UNCHANGED got
             \/ \E n \in 1 .. (Bytes - Len(got)) :
                   got' = got \o [i \in 1 .. n |-> Len(got) + i]
      BY <1>3, OrderReturn
    <2> QED
      BY <2>1 DEF Pipe!Receive
  <1>4. ASSUME Bytes' = Bytes, UNCHANGED got,
               sfailed' \in {sfailed, TRUE}, rfailed' \in {rfailed, TRUE},
               sfailed' = sfailed \/ rfailed' = rfailed
        PROVE  [Pipe!Next]_(Pipe!vars)
    <2>1. sfailed \in BOOLEAN /\ rfailed \in BOOLEAN
      BY DEF OrderInv, TypeInv, TypeOK, SenderOK, ReceiverOK
    <2> QED
      BY <1>4, <2>1 DEF Pipe!SenderFails, Pipe!ReceiverFails
  <1> QED
    BY <1>1, <1>2, <1>3, <1>4, OrderOthers DEF Next

\* Every behaviour of the channel is one of the byte pipe.
THEOREM ChannelIsPipe == Spec => ImplementsPipe
  <1>1. Init => Pipe!Init
    BY OrderInit DEF Init, Pipe!Init
  <1> QED
    BY <1>1, OrderInit, OrderStep, PipeStep, PTL DEF Spec, ImplementsPipe, Pipe!Spec

-----------------------------------------------------------------------------
(* The units on their way *)

\* The k-th unit that the sender made.
At(k) == Unit((k - 1) \div RecordUnits, ((k - 1) % RecordUnits) + 1)

\* The units of s are those that come after the first b.
Aligned(s, b) == \A i \in 1 .. Len(s) : s[i] = At(b + i)

Before == RecordUnits * rnonce          \* units of the records already opened
Received == Before + Len(record)
Arrived == Received + Len(wire)

\* Between writes nothing waits, and write_all only goes on for a good sender.
Waiting == (~writing => buffer = <<>>) /\ (writing => ~sfailed)

\* While nothing was lost, every unit of the sealed records is in its place.
Counts ==
    conn \in {"open", "sender"} /\ ~sfailed =>
        Arrived + Len(buffer) = RecordUnits * Len(sealed)

\* Unaltered, the units are in the order in which they were made.
Straight ==
    /\ Aligned(record, Before) /\ Len(record) <= RecordUnits
    /\ Aligned(wire, Received)
    /\ conn = "open" => Aligned(buffer, Arrived)

FlowInv == TypeInv /\ Waiting /\ Counts
HonestInv == FlowInv /\ (damage = 0 => Straight /\ ~rfailed)

LEMMA AtWithin ==
    ASSUME NEW r \in Nat, NEW p \in 1 .. RecordUnits
    PROVE  At(RecordUnits * r + p) = Unit(r, p)
  <1>1. (4 * r + p - 1) \div 4 = r /\ (4 * r + p - 1) % 4 = p - 1
    BY DEF RecordUnits
  <1> QED
    BY <1>1 DEF At, RecordUnits

LEMMA FlowTyped ==
    ASSUME TypeInv
    PROVE  /\ rnonce \in Nat /\ nonce \in Nat
           /\ Len(record) \in Nat /\ Len(wire) \in Nat /\ Len(buffer) \in Nat
           /\ Len(sealed) \in Nat
           /\ Before \in Nat /\ Received \in Nat /\ Arrived \in Nat
           /\ Before = 4 * rnonce
           /\ record \in Seq(UnitType) /\ wire \in Seq(UnitType) /\ buffer \in Seq(UnitType)
  BY DEF TypeInv, TypeOK, SenderOK, NetOK, ReceiverOK, Before, Received, Arrived, RecordUnits

\* One unit more in t and one less in s.
LEMMA LengthMoves ==
    ASSUME NEW s \in Seq(UnitType), NEW t \in Seq(UnitType), s # <<>>
    PROVE  /\ Len(Tail(s)) = Len(s) - 1 /\ Len(Append(t, Head(s))) = Len(t) + 1
           /\ \A i \in 1 .. Len(s) - 1 : Tail(s)[i] = s[i + 1]
           /\ \A i \in 1 .. Len(t) : Append(t, Head(s))[i] = t[i]
           /\ Append(t, Head(s))[Len(t) + 1] = s[1]
           /\ Len(s) \in Nat \ {0} /\ Len(t) \in Nat
  OBVIOUS

LEMMA AlignedMoves ==
    ASSUME NEW s \in Seq(UnitType), NEW t \in Seq(UnitType), s # <<>>,
           NEW b \in Nat, Aligned(t, b), Aligned(s, b + Len(t))
    PROVE  /\ Aligned(Append(t, Head(s)), b)
           /\ Aligned(Tail(s), b + Len(t) + 1)
           /\ Head(s) = At(b + Len(t) + 1)
  <1>1. Aligned(Append(t, Head(s)), b)
    <2> SUFFICES ASSUME NEW i \in 1 .. Len(t) + 1
                 PROVE  Append(t, Head(s))[i] = At(b + i)
      BY LengthMoves DEF Aligned
    <2>1. CASE i = Len(t) + 1
      <3>1. s[1] = At(b + Len(t) + 1) /\ b + i = b + Len(t) + 1
        BY <2>1, LengthMoves DEF Aligned
      <3> QED
        BY <2>1, <3>1, LengthMoves
    <2>2. CASE i # Len(t) + 1
      <3>1. i \in 1 .. Len(t)
        BY <2>2, LengthMoves
      <3> QED
        BY <3>1, LengthMoves DEF Aligned
    <2> QED
      BY <2>1, <2>2
  <1>2. Aligned(Tail(s), b + Len(t) + 1)
    <2> SUFFICES ASSUME NEW i \in 1 .. Len(s) - 1
                 PROVE  Tail(s)[i] = At(b + Len(t) + 1 + i)
      BY LengthMoves DEF Aligned
    <2>1. i + 1 \in 1 .. Len(s) /\ b + Len(t) + (i + 1) = b + Len(t) + 1 + i
      BY LengthMoves
    <2>2. s[i + 1] = At(b + Len(t) + (i + 1))
      BY <2>1 DEF Aligned
    <2> QED
      BY <2>1, <2>2, LengthMoves
  <1>3. Head(s) = At(b + Len(t) + 1)
    <2>1. 1 \in 1 .. Len(s) /\ Head(s) = s[1]
      BY LengthMoves
    <2> QED
      BY <2>1 DEF Aligned
  <1> QED
    BY <1>1, <1>2, <1>3

LEMMA AlignedEmpty == \A b \in Nat : Aligned(<<>>, b)
  BY EmptyTyped DEF Aligned

LEMMA HonestInit == Init => HonestInv
  <1> SUFFICES ASSUME Init
               PROVE  HonestInv
    OBVIOUS
  <1>1. TypeInv /\ Len(record) = 0 /\ Len(wire) = 0 /\ Len(buffer) = 0 /\ Len(sealed) = 0
    BY TypeInit, EmptyTyped DEF Init
  <1>2. Waiting
    BY DEF Init, Waiting
  <1>3. Before = 0 /\ Received = 0 /\ Arrived = 0
    BY <1>1 DEF Init, Before, Received, Arrived, RecordUnits
  <1>4. Counts
    BY <1>1, <1>3 DEF Counts, RecordUnits
  <1>5. Straight
    BY <1>1, <1>3, AlignedEmpty DEF Init, Straight, RecordUnits
  <1> QED
    BY <1>1, <1>2, <1>4, <1>5 DEF HonestInv, FlowInv, Init

\* The records that a write makes are the next ones.
LEMMA FlowWrite ==
    ASSUME HonestInv, NEW n \in 1 .. MaxMessage, Write(n)
    PROVE  Waiting' /\ Counts' /\ (damage' = 0 => Straight' /\ ~rfailed')
  <1>1. PICK m \in Nat \ {0} :
              /\ Chunks(m) \in Nat \ {0}
              /\ Len(sealed') = Len(sealed) + Chunks(m)
              /\ nonce + Chunks(m) <= MaxNonce
              /\ buffer' = [u \in 1 .. Chunks(m) * RecordUnits |->
                              Unit(nonce + (u - 1) \div RecordUnits,
                                   ((u - 1) % RecordUnits) + 1)]
    <2> DEFINE m == Least(n, MAX_WRITE)
    <2>1. n \in Int /\ n > 0 /\ MAX_WRITE \in Nat \ {0}
      BY SizesAssumption, BoundsAssumption
    <2>2. m \in Nat \ {0}
      BY <2>1 DEF Least
    <2>3. Chunks(m) \in Nat \ {0}
      <3> HIDE DEF m
      <3> QED
        BY <2>2, ChunksFit
    <2>4. sealed' = sealed \o [i \in 1 .. Chunks(m) |-> Chunk(m, i)]
          /\ nonce + Chunks(m) <= MaxNonce
          /\ buffer' = [u \in 1 .. Chunks(m) * RecordUnits |->
                              Unit(nonce + (u - 1) \div RecordUnits,
                                   ((u - 1) % RecordUnits) + 1)]
      BY DEF Write
    <2>5. Len(sealed') = Len(sealed) + Chunks(m)
      <3> HIDE DEF m
      <3>1. Bytes \in Nat /\ sealed \in Seq(RangeType)
        BY BytesTyped DEF HonestInv, FlowInv, TypeInv, TypeOK, SenderOK
      <3>2. [i \in 1 .. Chunks(m) |-> Chunk(m, i)] \in Seq(RangeType)
            /\ Len([i \in 1 .. Chunks(m) |-> Chunk(m, i)]) = Chunks(m)
        BY <2>2, <2>3, <3>1, ChunksInRow
      <3> QED
        BY <2>4, <3>1, <3>2, ConcatProperties
    <2> HIDE DEF m
    <2> QED
      BY <2>2, <2>3, <2>4, <2>5
  <1>2. nonce = Len(sealed) /\ nonce \in Nat
    BY <1>1, SizesAssumption DEF HonestInv, FlowInv, TypeInv, TypeOK, SenderOK, Counting
  <1> DEFINE c == Chunks(m)
  <1> HIDE DEF c
  <1>3. c \in Nat \ {0} /\ c * 4 \in Nat /\ Len(sealed') = Len(sealed) + c
    BY <1>1 DEF c
  <1>4. \A u \in 1 .. c * 4 :
            Unit(nonce + (u - 1) \div 4, ((u - 1) % 4) + 1) = At(4 * Len(sealed) + u)
    <2> SUFFICES ASSUME NEW u \in 1 .. c * 4
                 PROVE  Unit(nonce + (u - 1) \div 4, ((u - 1) % 4) + 1) = At(4 * Len(sealed) + u)
      OBVIOUS
    <2>1. u \in Nat /\ u >= 1
      BY <1>3
    <2>2. (4 * nonce + u - 1) \div 4 = nonce + (u - 1) \div 4
          /\ (4 * nonce + u - 1) % 4 = (u - 1) % 4
      BY <1>2, <2>1
    <2> QED
      BY <1>2, <2>2 DEF At, RecordUnits
  <1>5. Len(buffer') = c * 4 /\ \A u \in 1 .. c * 4 : buffer'[u] = At(4 * Len(sealed) + u)
    BY <1>1, <1>3, <1>4 DEF c, RecordUnits
  <1>6. UNCHANGED <<rnonce, record, wire, conn, damage, rfailed, sfailed>> /\ ~sfailed
        /\ ~writing /\ writing'
    BY DEF Write, netVars, receiverVars
  <1>7. buffer = <<>> /\ Len(buffer) = 0
    BY <1>6, EmptyTyped DEF HonestInv, FlowInv, Waiting
  <1>8. UNCHANGED <<Before, Received, Arrived>>
    BY <1>6 DEF Before, Received, Arrived
  <1>9. conn \in {"open", "sender"} => Arrived = 4 * Len(sealed)
    BY <1>6, <1>7, FlowTyped DEF HonestInv, FlowInv, Counts, RecordUnits
  <1>10. Waiting'
    BY <1>6 DEF Waiting
  <1>11. Counts'
    BY <1>3, <1>5, <1>6, <1>8, <1>9, FlowTyped DEF HonestInv, FlowInv, Counts, RecordUnits
  <1>12. damage = 0 => Straight'
    <2>1. conn = "open" => Aligned(buffer, Arrived)'
      BY <1>5, <1>6, <1>8, <1>9 DEF Aligned
    <2> QED
      BY <1>6, <1>8, <2>1 DEF HonestInv, Straight, Aligned
  <1> QED
    BY <1>6, <1>10, <1>11, <1>12 DEF HonestInv

LEMMA FlowPut ==
    ASSUME HonestInv, Put
    PROVE  Waiting' /\ Counts' /\ (damage' = 0 => Straight' /\ ~rfailed')
  <1>1. buffer # <<>> /\ buffer' = Tail(buffer) /\ conn \in {"open", "receiver"}
        /\ wire' = (IF conn = "open" THEN Append(wire, Head(buffer)) ELSE wire)
        /\ UNCHANGED <<sfailed, writing, sealed, conn, damage, rnonce, rfailed, record>>
    BY DEF Put, receiverVars
  <1>2. UNCHANGED <<Before, Received>>
    BY <1>1 DEF Before, Received
  <1>3. Waiting'
    BY <1>1 DEF HonestInv, FlowInv, Waiting
  <1>4. CASE conn = "open"
    <2>1. Len(buffer') = Len(buffer) - 1 /\ Len(wire') = Len(wire) + 1
      BY <1>1, <1>4, FlowTyped, LengthMoves DEF HonestInv, FlowInv
    <2>2. Arrived' = Arrived + 1
      BY <1>1, <2>1, FlowTyped DEF HonestInv, FlowInv, Arrived, Received, Before, RecordUnits
    <2>3. Counts'
      BY <1>1, <2>1, <2>2, FlowTyped DEF HonestInv, FlowInv, Counts, RecordUnits
    <2>4. ASSUME damage = 0
          PROVE  Straight'
      <3>1. Aligned(wire, Received) /\ Aligned(buffer, Received + Len(wire))
        BY <1>4, <2>4 DEF HonestInv, Straight, Arrived
      <3>2. Aligned(wire', Received) /\ Aligned(buffer', Received + Len(wire) + 1)
        BY <1>1, <1>4, <3>1, FlowTyped, AlignedMoves DEF HonestInv, FlowInv
      <3>3. Received + Len(wire) + 1 = Arrived'
        BY <2>2 DEF Arrived
      <3> QED
        BY <1>1, <1>2, <2>4, <3>2, <3>3 DEF HonestInv, Straight, Aligned
    <2> QED
      BY <1>1, <1>3, <2>3, <2>4 DEF HonestInv
  <1>5. CASE conn = "receiver"
    BY <1>1, <1>2, <1>3, <1>5 DEF HonestInv, Counts, Straight, Aligned
  <1> QED
    BY <1>1, <1>4, <1>5

LEMMA FlowFill ==
    ASSUME HonestInv, Fill
    PROVE  Waiting' /\ Counts' /\ (damage' = 0 => Straight' /\ ~rfailed')
  <1>1. wire # <<>> /\ wire' = Tail(wire) /\ record' = Append(record, Head(wire))
        /\ UNCHANGED <<sfailed, writing, buffer, sealed, conn, damage, rnonce, rfailed>>
    BY DEF Fill, senderVars
  <1>2. Len(wire') = Len(wire) - 1 /\ Len(record') = Len(record) + 1
    BY <1>1, FlowTyped, LengthMoves DEF HonestInv, FlowInv
  <1>3. Before' = Before /\ Received' = Received + 1 /\ Arrived' = Arrived
    <2>1. Before' = Before
      BY <1>1 DEF Before
    <2>2. Received' = Received + 1
      BY <1>2, <2>1, FlowTyped DEF HonestInv, FlowInv, Received
    <2> QED
      BY <1>2, <2>1, <2>2, FlowTyped DEF HonestInv, FlowInv, Arrived
  <1>4. Waiting' /\ Counts'
    BY <1>1, <1>3 DEF HonestInv, FlowInv, Waiting, Counts
  <1>5. ASSUME damage = 0
        PROVE  Straight'
    <2>1. Aligned(record, Before) /\ Len(record) <= 4 /\ Aligned(wire, Before + Len(record))
      BY <1>5 DEF HonestInv, Straight, Received, RecordUnits
    <2>2. Aligned(record', Before) /\ Aligned(wire', Before + Len(record) + 1)
      BY <1>1, <2>1, FlowTyped, AlignedMoves DEF HonestInv, FlowInv
    <2>3. Before + Len(record) + 1 = Received'
      BY <1>3 DEF Received
    <2>4. Len(record) < 4
      <3>1. Len(record) >= 2 => record[2] = Unit(rnonce, 2)
        <4>1. Len(record) >= 2 => record[2] = At(Before + 2)
          BY <2>1, FlowTyped DEF HonestInv, FlowInv, Aligned
        <4>2. 2 \in 1 .. RecordUnits /\ rnonce \in Nat
          BY FlowTyped DEF HonestInv, FlowInv, RecordUnits
        <4> QED
          BY <4>1, <4>2, AtWithin DEF Before
      <3>2. Len(record) >= 2 => Needed = 4
        BY <3>1, FlowTyped DEF HonestInv, FlowInv, Needed, Unit, RecordUnits
      <3>3. Len(record) < Needed
        BY DEF Fill
      <3> QED
        BY <3>2, <3>3, FlowTyped DEF HonestInv, FlowInv
    <2>5. Len(record') <= 4
      BY <1>2, <2>4, FlowTyped DEF HonestInv, FlowInv
    <2> QED
      BY <1>1, <1>3, <1>5, <2>2, <2>3, <2>5 DEF HonestInv, Straight, Aligned, RecordUnits
  <1> QED
    BY <1>1, <1>4, <1>5 DEF HonestInv

LEMMA FlowOpen ==
    ASSUME HonestInv, Open
    PROVE  Waiting' /\ Counts' /\ (damage' = 0 => Straight' /\ ~rfailed')
  <1>1. rnonce < MaxNonce
    BY OpensKnown DEF HonestInv, FlowInv, Open
  <1>2. rnonce' = rnonce + 1 /\ record' = <<>> /\ Len(record) = 4
        /\ UNCHANGED <<sfailed, writing, buffer, sealed, conn, damage, wire, rfailed>>
    BY <1>1 DEF Open, Opens, RecordUnits, senderVars, netVars
  <1>3. Before' = Before + 4 /\ Received' = Received /\ Received = Before'
        /\ Arrived' = Arrived /\ Before' \in Nat
    BY <1>2, EmptyTyped, FlowTyped
       DEF HonestInv, FlowInv, Arrived, Received, Before, RecordUnits
  <1>4. Waiting' /\ Counts'
    BY <1>2, <1>3 DEF HonestInv, FlowInv, Waiting, Counts
  <1>5. ASSUME damage = 0
        PROVE  Straight'
    BY <1>2, <1>3, <1>5, AlignedEmpty, EmptyTyped
       DEF HonestInv, Straight, Aligned, RecordUnits
  <1> QED
    BY <1>2, <1>4, <1>5 DEF HonestInv

\* What the receiver would refuse is not what the sender made.
LEMMA RefusesNothing ==
    ASSUME HonestInv, TooShort \/ Refuse
    PROVE  damage # 0
  <1> SUFFICES ASSUME damage = 0
               PROVE  FALSE
    OBVIOUS
  <1>1. Aligned(record, Before) /\ Len(record) <= 4 /\ Before = 4 * rnonce /\ rnonce \in Nat
        /\ Len(record) \in Nat
    <2>1. TypeInv /\ Straight
      BY DEF HonestInv, FlowInv
    <2> QED
      BY <2>1, FlowTyped DEF Straight, RecordUnits
  <1>2. ASSUME NEW p \in 1 .. Len(record)
        PROVE  record[p] = Unit(rnonce, p)
    <2>1. p \in 1 .. RecordUnits /\ record[p] = At(Before + p)
      BY <1>1 DEF Aligned, RecordUnits
    <2> QED
      BY <1>1, <2>1, AtWithin DEF Before
  <1>3. Len(record) >= 2
    BY <1>1 DEF TooShort, Refuse, Needed
  <1>4. Needed = 4
    <2>1. 2 \in 1 .. Len(record) /\ ~(Len(record) < 2)
      BY <1>1, <1>3
    <2>2. record[2] = Unit(rnonce, 2)
      BY <1>2, <2>1
    <2> QED
      BY <2>1, <2>2 DEF Needed, Unit, RecordUnits
  <1>5. Refuse /\ Len(record) = 4
    BY <1>4 DEF TooShort, Refuse
  <1> QED
    BY <1>2, <1>5 DEF Refuse, Opens, RecordUnits

LEMMA FlowOthers ==
    ASSUME HonestInv,
           \/ \E n \in 1 .. MaxMessage : WriteExhausted(n)
           \/ WriteReturns \/ WriteInterrupted
           \/ \E end \in {"sender", "receiver"} : Shut(end)
           \/ Reset
           \/ \E u \in 1 .. Len(wire) : Damage(u)
           \/ \E t \in Threads, n \in 1 .. MaxWant : Call(t, n)
           \/ TooShort \/ Refuse \/ Timeout \/ Ends \/ Return
           \/ UNCHANGED vars
    PROVE  Waiting' /\ Counts' /\ (damage' = 0 => Straight' /\ ~rfailed')
  <1> USE DEF HonestInv, FlowInv
  <1>1. CASE WriteInterrupted
    <2>1. buffer' = <<>> /\ sfailed' = TRUE /\ writing' = FALSE
          /\ UNCHANGED <<conn, damage, wire, record, rnonce, rfailed>>
      BY <1>1 DEF WriteInterrupted, netVars, receiverVars
    <2>2. UNCHANGED <<Before, Received, Arrived>>
      BY <2>1 DEF Before, Received, Arrived
    <2> QED
      BY <2>1, <2>2, AlignedEmpty, FlowTyped DEF Waiting, Counts, Straight, Aligned
  <1>2. CASE \E u \in 1 .. Len(wire) : Damage(u)
    <2>1. damage' = damage + 1 /\ damage \in Nat /\ Len(wire') = Len(wire)
          /\ UNCHANGED <<sfailed, writing, buffer, sealed, conn, rnonce, record>>
      <3>1. PICK u \in 1 .. Len(wire) : Damage(u)
        BY <1>2
      <3>2. Len(wire') = Len(wire)
        BY <3>1, FlowTyped DEF Damage
      <3> QED
        BY <3>1, <3>2 DEF Damage, TypeInv, TypeOK, NetOK, senderVars, receiverVars
    <2>2. Arrived' = Arrived
      BY <2>1 DEF Arrived, Received, Before
    <2> QED
      BY <2>1, <2>2 DEF Waiting, Counts
  <1>3. CASE (\E end \in {"sender", "receiver"} : Shut(end)) \/ Reset
    <2>1. /\ UNCHANGED <<sfailed, writing, buffer, sealed, damage, rnonce, rfailed, record>>
          /\ conn' # "open"
          /\ \/ wire' = wire /\ conn = "open"
             \/ wire' = <<>> /\ conn' \notin {"open", "sender"}
      BY <1>3 DEF Shut, Reset, senderVars, receiverVars
    <2>2. UNCHANGED <<Before, Received>>
      BY <2>1 DEF Before, Received
    <2>3. wire' = wire => Arrived' = Arrived
      BY <2>1 DEF Arrived, Received, Before
    <2>4. Waiting' /\ Counts'
      BY <2>1, <2>3 DEF Waiting, Counts
    <2>5. damage = 0 => Straight'
      BY <2>1, <2>2, AlignedEmpty, FlowTyped DEF Straight, Aligned
    <2> QED
      BY <2>1, <2>4, <2>5
  <1>4. CASE TooShort \/ Refuse
    <2>1. damage # 0 /\ UNCHANGED <<sfailed, writing, buffer, sealed, damage, rnonce, record, wire, conn>>
      BY <1>4, RefusesNothing DEF TooShort, Refuse, senderVars, netVars
    <2>2. Arrived' = Arrived
      BY <2>1 DEF Arrived, Received, Before
    <2> QED
      BY <2>1, <2>2 DEF Waiting, Counts
  <1>5. CASE \/ \E n \in 1 .. MaxMessage : WriteExhausted(n)
             \/ WriteReturns
             \/ \E t \in Threads, n \in 1 .. MaxWant : Call(t, n)
             \/ Timeout \/ Ends \/ Return
             \/ UNCHANGED vars
    <2>1. UNCHANGED <<sfailed, buffer, sealed, damage, rnonce, rfailed, record, wire, conn>>
          /\ (writing' = writing \/ (writing' = FALSE /\ buffer = <<>>))
      BY <1>5 DEF vars, senderVars, netVars, receiverVars, callVars, WriteExhausted,
                  WriteReturns, Call, Timeout, Ends, Return
    <2>2. UNCHANGED <<Before, Received, Arrived>>
      BY <2>1 DEF Arrived, Received, Before
    <2> QED
      BY <2>1, <2>2 DEF Waiting, Counts, Straight, Aligned
  <1> QED
    BY <1>1, <1>2, <1>3, <1>4, <1>5

LEMMA HonestStep == HonestInv /\ [Next]_vars => HonestInv'
  <1> SUFFICES ASSUME HonestInv, [Next]_vars
               PROVE  Waiting' /\ Counts' /\ (damage' = 0 => Straight' /\ ~rfailed')
    BY TypeStep DEF HonestInv, FlowInv
  <1> QED
    BY FlowWrite, FlowPut, FlowFill, FlowOpen, FlowOthers DEF Next

\* Nothing but an altered record makes the receiver fail.
THEOREM HonestChannel == Spec => []HonestNeverFails
  <1>1. HonestInv => HonestNeverFails
    BY DEF HonestInv, HonestNeverFails
  <1> QED
    BY <1>1, HonestInit, HonestStep, PTL DEF Spec

-----------------------------------------------------------------------------
(* The end of the stream *)

Rising ==
    \A i, j \in 1 .. Len(sealed) : i <= j => sealed[i].hi <= sealed[j].hi

\* What was acknowledged ends with a record all of whose units are under way or
\* were received.
AckedOnWire ==
    conn \in {"open", "sender"} =>
        \E k \in 0 .. Len(sealed) :
            /\ acked = IF k = 0 THEN 0 ELSE sealed[k].hi
            /\ RecordUnits * k <= Arrived

\* A clean end leaves nothing to read.
EofDone ==
    /\ eof => conn # "open"
    /\ eof /\ conn = "sender" => Arrived = Before /\ Unread = 0

EndInv == OrderInv /\ HonestInv /\ Rising /\ AckedOnWire /\ EofDone

LEMMA RisingWrite ==
    ASSUME EndInv, NEW n \in 1 .. MaxMessage, Write(n)
    PROVE  Rising' /\ AckedOnWire' /\ EofDone'
  <1>1. PICK m \in Nat \ {0} :
              /\ Chunks(m) \in Nat \ {0}
              /\ Len(sealed') = Len(sealed) + Chunks(m)
              /\ \A i \in 1 .. Len(sealed) : sealed'[i] = sealed[i]
              /\ \A i \in 1 .. Chunks(m) : sealed'[Len(sealed) + i] = Chunk(m, i)
    BY SealedGrows DEF EndInv, OrderInv
  <1>2. Bytes \in Nat /\ Len(sealed) \in Nat /\ sealed \in Seq(RangeType)
    BY BytesTyped DEF EndInv, OrderInv, TypeInv, TypeOK, SenderOK
  <1>3. ASSUME NEW i \in 1 .. Len(sealed'), NEW j \in 1 .. Len(sealed'), i <= j
        PROVE  sealed'[i].hi <= sealed'[j].hi
    <2>1. CASE j <= Len(sealed)
      BY <1>1, <1>2, <1>3, <2>1 DEF EndInv, Rising
    <2> DEFINE a == i - Len(sealed)
               b == j - Len(sealed)
    <2>2. ASSUME j > Len(sealed)
          PROVE  b \in 1 .. Chunks(m) /\ sealed'[j] = Chunk(m, b)
                 /\ Chunk(m, b) \in RangeType /\ Bytes < Chunk(m, b).lo
                 /\ Chunk(m, b).lo <= Chunk(m, b).hi
      <3>1. b \in 1 .. Chunks(m) /\ j = Len(sealed) + b
        BY <1>1, <1>2, <2>2
      <3> HIDE DEF b
      <3> QED
        BY <1>1, <1>2, <3>1, ChunksInRow
    <2>3. CASE j > Len(sealed) /\ i <= Len(sealed)
      <3>1. sealed'[i] = sealed[i] /\ sealed[i].hi <= Bytes /\ sealed[i] \in RangeType
        BY <1>1, <1>2, <2>3 DEF EndInv, OrderInv, InRow
      <3> HIDE DEF b
      <3> QED
        BY <1>2, <2>2, <2>3, <3>1 DEF RangeType
    <2>4. CASE i > Len(sealed)
      <3>1. a \in 1 .. Chunks(m) /\ i = Len(sealed) + a /\ j > Len(sealed) /\ a <= b
        BY <1>1, <1>2, <1>3, <2>4
      <3> HIDE DEF a, b
      <3>2. sealed'[i] = Chunk(m, a) /\ Chunk(m, a) \in RangeType
        BY <1>1, <1>2, <3>1, ChunksInRow
      <3>3. a < b => Chunk(m, a).hi < Chunk(m, b).lo
        BY <1>2, <2>2, <3>1, ChunksInRow
      <3>4. a = b \/ a < b
        BY <2>2, <3>1
      <3> QED
        BY <2>2, <3>1, <3>2, <3>3, <3>4 DEF RangeType
    <2> QED
      BY <1>1, <1>2, <1>3, <2>1, <2>3, <2>4
  <1>4. UNCHANGED <<acked, rnonce, record, wire, conn, eof, plain, offset>>
    BY DEF Write, netVars, receiverVars, callVars
  <1>5. UNCHANGED <<Before, Received, Arrived, Unread>>
    BY <1>4 DEF Before, Received, Arrived, Unread
  <1>6. AckedOnWire'
    <2> SUFFICES ASSUME conn \in {"open", "sender"}
                 PROVE  \E k \in 0 .. Len(sealed') :
                          /\ acked = IF k = 0 THEN 0 ELSE sealed'[k].hi
                          /\ RecordUnits * k <= Arrived
      BY <1>4, <1>5 DEF AckedOnWire
    <2>1. PICK k \in 0 .. Len(sealed) :
            acked = (IF k = 0 THEN 0 ELSE sealed[k].hi) /\ RecordUnits * k <= Arrived
      BY DEF EndInv, AckedOnWire
    <2>2. k \in 0 .. Len(sealed') /\ (k # 0 => sealed'[k] = sealed[k])
      BY <1>1, <1>2
    <2> QED
      BY <2>1, <2>2
  <1> QED
    BY <1>3, <1>4, <1>5, <1>6 DEF Rising, EndInv, EofDone

LEMMA AckedReturns ==
    ASSUME EndInv, WriteReturns
    PROVE  Rising' /\ AckedOnWire' /\ EofDone'
  <1>1. writing /\ buffer = <<>> /\ acked' = Bytes
        /\ UNCHANGED <<sealed, rnonce, record, wire, conn, eof, plain, offset>>
    BY DEF WriteReturns, netVars, receiverVars, callVars
  <1>2. UNCHANGED <<Before, Received, Arrived, Unread>>
    BY <1>1 DEF Before, Received, Arrived, Unread
  <1>3. ASSUME conn \in {"open", "sender"}
        PROVE  Len(sealed) \in 0 .. Len(sealed) /\ RecordUnits * Len(sealed) <= Arrived
               /\ Bytes = IF Len(sealed) = 0 THEN 0 ELSE sealed[Len(sealed)].hi
    <2>1. Arrived + Len(buffer) = RecordUnits * Len(sealed) /\ Len(buffer) = 0
      BY <1>1, <1>3, EmptyTyped DEF EndInv, HonestInv, FlowInv, Waiting, Counts
    <2>2. Len(sealed) \in Nat /\ Arrived \in Nat /\ sealed \in Seq(RangeType)
      BY FlowTyped DEF EndInv, HonestInv, FlowInv, TypeInv, TypeOK, SenderOK
    <2>3. Len(sealed) = 0 <=> sealed = <<>>
      BY <2>2
    <2> QED
      BY <2>1, <2>2, <2>3 DEF Bytes, RecordUnits
  <1>4. AckedOnWire'
    BY <1>1, <1>2, <1>3 DEF AckedOnWire
  <1> QED
    BY <1>1, <1>2, <1>4 DEF EndInv, Rising, EofDone

LEMMA AckedKept ==
    ASSUME EndInv, UNCHANGED <<sealed, acked>>,
           conn' \in {"open", "sender"} =>
                conn \in {"open", "sender"} /\ Arrived' \in Nat /\ Arrived <= Arrived'
    PROVE  Rising' /\ AckedOnWire'
  <1>1. AckedOnWire'
    <2> SUFFICES ASSUME conn' \in {"open", "sender"}
                 PROVE  \E k \in 0 .. Len(sealed) :
                          /\ acked = IF k = 0 THEN 0 ELSE sealed[k].hi
                          /\ RecordUnits * k <= Arrived'
      BY DEF AckedOnWire
    <2>1. PICK k \in 0 .. Len(sealed) :
            acked = (IF k = 0 THEN 0 ELSE sealed[k].hi) /\ RecordUnits * k <= Arrived
      BY DEF EndInv, AckedOnWire
    <2>2. k \in Nat /\ Arrived \in Nat
      BY FlowTyped DEF EndInv, HonestInv, FlowInv
    <2>3. RecordUnits * k <= Arrived'
      BY <2>1, <2>2 DEF RecordUnits
    <2> QED
      BY <2>1, <2>3
  <1> QED
    BY <1>1 DEF EndInv, Rising

LEMMA EndMoves ==
    ASSUME EndInv, Put \/ Fill \/ Open
    PROVE  Rising' /\ AckedOnWire' /\ EofDone'
  <1>0. TypeInv /\ Before \in Nat /\ Received \in Nat /\ Arrived \in Nat
        /\ Len(record) \in Nat /\ Len(wire) \in Nat
    BY FlowTyped DEF EndInv, HonestInv, FlowInv
  <1>1. CASE Put
    <2>1. buffer # <<>> /\ conn \in {"open", "receiver"}
          /\ wire' = (IF conn = "open" THEN Append(wire, Head(buffer)) ELSE wire)
          /\ UNCHANGED <<sealed, acked, conn, rnonce, record, eof>>
      BY <1>1 DEF Put, receiverVars, callVars
    <2>2. conn = "open" => Len(wire') = Len(wire) + 1
      BY <1>0, <2>1, FlowTyped, LengthMoves
    <2>3. Received' = Received
      BY <2>1 DEF Received, Before
    <2>4. conn = "open" => Arrived' = Arrived + 1
      BY <1>0, <2>2, <2>3 DEF Arrived
    <2> QED
      BY <1>0, <2>1, <2>4, AckedKept DEF EndInv, EofDone
  <1>2. CASE Fill
    <2>1. wire # <<>> /\ wire' = Tail(wire) /\ record' = Append(record, Head(wire))
          /\ UNCHANGED <<sealed, acked, conn, rnonce, eof>>
      BY <1>2 DEF Fill, senderVars, callVars
    <2>2. Len(wire') = Len(wire) - 1 /\ Len(record') = Len(record) + 1 /\ Len(wire) > 0
      BY <1>0, <2>1, FlowTyped, LengthMoves
    <2>3. Arrived' = Arrived
      <3>1. Received' = Received + 1
        BY <1>0, <2>1, <2>2 DEF Received, Before
      <3> QED
        BY <1>0, <2>2, <3>1 DEF Arrived
    <2>4. Arrived # Before
      BY <1>0, <2>2 DEF Arrived, Received
    <2> QED
      BY <1>0, <2>1, <2>3, <2>4, AckedKept DEF EndInv, EofDone
  <1>3. CASE Open
    <2>1. rnonce < MaxNonce
      BY <1>0, <1>3, OpensKnown DEF Open
    <2>2. rnonce' = rnonce + 1 /\ record' = <<>> /\ Len(record) = 4
          /\ UNCHANGED <<sealed, acked, conn, wire, eof>>
      BY <1>3, <2>1 DEF Open, Opens, RecordUnits, senderVars, netVars
    <2>3. Arrived' = Arrived
      <3>1. Before' = Before + 4
        BY <1>0, <2>2, FlowTyped DEF Before, RecordUnits
      <3>2. Received' = Received
        BY <1>0, <2>2, <3>1, EmptyTyped DEF Received
      <3> QED
        BY <2>2, <3>2 DEF Arrived
    <2>4. Arrived # Before
      BY <1>0, <2>2 DEF Arrived, Received
    <2> QED
      BY <1>0, <2>2, <2>3, <2>4, AckedKept DEF EndInv, EofDone
  <1> QED
    BY <1>1, <1>2, <1>3

LEMMA EndOthers ==
    ASSUME EndInv,
           \/ \E n \in 1 .. MaxMessage : WriteExhausted(n)
           \/ WriteInterrupted
           \/ \E end \in {"sender", "receiver"} : Shut(end)
           \/ Reset
           \/ \E u \in 1 .. Len(wire) : Damage(u)
           \/ \E t \in Threads, n \in 1 .. MaxWant : Call(t, n)
           \/ TooShort \/ Refuse \/ Timeout \/ Ends \/ Return
           \/ UNCHANGED vars
    PROVE  Rising' /\ AckedOnWire' /\ EofDone'
  <1>0. TypeInv /\ Before \in Nat /\ Received \in Nat /\ Arrived \in Nat
        /\ Len(record) \in Nat /\ Len(wire) \in Nat
    BY FlowTyped DEF EndInv, HonestInv, FlowInv
  <1>1. CASE Reset \/ \E end \in {"sender", "receiver"} : Shut(end)
    <2>1. UNCHANGED <<sealed, acked, rnonce, record, eof>>
          /\ conn' # "open"
          /\ (conn' = "sender" => conn = "open" /\ wire' = wire)
      BY <1>1 DEF Reset, Shut, senderVars, receiverVars, callVars
    <2>2. wire' = wire => Arrived' = Arrived
      BY <2>1 DEF Arrived, Received, Before
    <2> QED
      BY <1>0, <2>1, <2>2, AckedKept DEF EndInv, EofDone
  <1>2. CASE \E u \in 1 .. Len(wire) : Damage(u)
    <2>1. Len(wire') = Len(wire)
          /\ UNCHANGED <<sealed, acked, rnonce, record, eof, conn, plain, offset>>
      <3>1. PICK u \in 1 .. Len(wire) : Damage(u)
        BY <1>2
      <3>2. Len(wire') = Len(wire)
        BY <1>0, <3>1, FlowTyped DEF Damage
      <3> QED
        BY <3>1, <3>2 DEF Damage, senderVars, receiverVars, callVars
    <2>2. UNCHANGED <<Arrived, Before, Unread>>
      BY <2>1 DEF Arrived, Received, Before, Unread
    <2> QED
      BY <1>0, <2>1, <2>2, AckedKept DEF EndInv, EofDone
  <1>3. CASE Ends
    <2>1. UNCHANGED <<sealed, acked, rnonce, record, wire, conn, plain, offset>>
          /\ wire = <<>> /\ Unread = 0 /\ conn # "open"
          /\ eof' = (eof \/ (record = <<>> /\ conn # "reset"))
      BY <1>3 DEF Ends, Starved, Filling, senderVars, netVars, receiverVars
    <2>2. UNCHANGED <<Arrived, Before, Unread>>
      BY <2>1 DEF Arrived, Received, Before, Unread
    <2>3. record = <<>> => Arrived = Before
      BY <1>0, <2>1, EmptyTyped DEF Arrived, Received
    <2>4. eof' /\ conn = "sender" => Arrived = Before
      BY <2>1, <2>3, Zenon DEF EndInv, EofDone
    <2>5. EofDone'
      BY <2>1, <2>2, <2>4 DEF EofDone
    <2>6. Rising' /\ AckedOnWire'
      BY <1>0, <2>1, <2>2, AckedKept
    <2> QED
      BY <2>5, <2>6
  <1>4. CASE Return
    <2>1. UNCHANGED <<sealed, acked, rnonce, record, wire, conn, plain, eof>> /\ Unread > 0
      BY <1>4 DEF Return, senderVars, netVars
    <2>2. UNCHANGED <<Arrived, Before>>
      BY <2>1 DEF Arrived, Received, Before
    <2> QED
      BY <1>0, <2>1, <2>2, AckedKept DEF EndInv, EofDone
  <1>5. CASE \/ \E n \in 1 .. MaxMessage : WriteExhausted(n)
             \/ WriteInterrupted
             \/ \E t \in Threads, n \in 1 .. MaxWant : Call(t, n)
             \/ TooShort \/ Refuse \/ Timeout
             \/ UNCHANGED vars
    <2>1. UNCHANGED <<sealed, acked, rnonce, record, wire, conn, plain, offset, eof>>
      BY <1>5 DEF vars, senderVars, netVars, receiverVars, callVars, WriteExhausted,
                  WriteInterrupted, Call, TooShort, Refuse, Timeout
    <2>2. UNCHANGED <<Arrived, Before, Unread>>
      BY <2>1 DEF Arrived, Received, Before, Unread
    <2> QED
      BY <1>0, <2>1, <2>2, AckedKept DEF EndInv, EofDone
  <1> QED
    BY <1>1, <1>2, <1>3, <1>4, <1>5

LEMMA EndInit == Init => EndInv
  <1> SUFFICES ASSUME Init
               PROVE  EndInv
    OBVIOUS
  <1>1. OrderInv /\ HonestInv /\ Len(sealed) = 0
    BY OrderInit, HonestInit, EmptyTyped DEF Init
  <1>2. Rising
    BY <1>1 DEF Rising
  <1>3. AckedOnWire
    <2>1. Arrived \in Nat
      BY <1>1, FlowTyped DEF OrderInv
    <2>2. 0 \in 0 .. Len(sealed) /\ acked = 0 /\ RecordUnits * 0 <= Arrived
      BY <1>1, <2>1 DEF Init, RecordUnits
    <2> QED
      BY <2>2 DEF AckedOnWire
  <1> QED
    BY <1>1, <1>2, <1>3 DEF EndInv, EofDone, Init

LEMMA EndStep == EndInv /\ [Next]_vars => EndInv'
  <1> SUFFICES ASSUME EndInv, [Next]_vars
               PROVE  Rising' /\ AckedOnWire' /\ EofDone'
    BY OrderStep, HonestStep DEF EndInv
  <1> QED
    BY RisingWrite, AckedReturns, EndMoves, EndOthers DEF Next

\* A clean end of the stream comes after every acknowledged byte.
THEOREM CleanEnd == Spec => []CleanEofIsComplete
  <1>1. EndInv => CleanEofIsComplete
    <2> SUFFICES ASSUME EndInv, eof, conn = "sender"
                 PROVE  Len(got) >= acked
      BY DEF CleanEofIsComplete
    <2>1. PICK k \in 0 .. Len(sealed) :
            acked = (IF k = 0 THEN 0 ELSE sealed[k].hi) /\ RecordUnits * k <= Arrived
      BY DEF EndInv, AckedOnWire
    <2>2. Arrived = RecordUnits * rnonce /\ Unread = 0
      BY DEF EndInv, EofDone, Before
    <2>3. rnonce \in Nat /\ k \in Nat /\ plain.lo \in Nat /\ plain.hi \in Nat /\ offset \in Nat
          /\ Len(got) \in Nat /\ sealed \in Seq(RangeType)
      BY DEF EndInv, OrderInv, TypeInv, TypeOK, SenderOK, ReceiverOK, CallOK, RangeType
    <2>4. k <= rnonce
      BY <2>1, <2>2, <2>3 DEF RecordUnits
    <2>5. Len(got) = plain.hi /\ rnonce <= Len(sealed)
          /\ plain.hi = IF rnonce = 0 THEN 0 ELSE sealed[rnonce].hi
      <3>1. Place
        BY DEF EndInv, OrderInv
      <3>2. plain.lo + offset = Len(got) + 1 /\ plain.hi - plain.lo + 1 - offset = 0
        BY <2>2, <3>1 DEF Place, Unread
      <3>3. Len(got) = plain.hi
        BY <2>3, <3>2
      <3> QED
        BY <3>1, <3>3 DEF Place
    <2>6. CASE k = 0
      BY <2>1, <2>3, <2>6
    <2>7. CASE k # 0
      <3>1. k \in 1 .. Len(sealed) /\ rnonce \in 1 .. Len(sealed) /\ k <= rnonce /\ rnonce # 0
        BY <2>3, <2>4, <2>5, <2>7
      <3>2. sealed[k].hi <= sealed[rnonce].hi
        BY <3>1 DEF EndInv, Rising
      <3> QED
        BY <2>1, <2>5, <2>7, <3>1, <3>2
    <2> QED
      BY <2>6, <2>7
  <1> QED
    BY <1>1, EndInit, EndStep, PTL DEF Spec
=============================================================================
