------------------------- MODULE MessageSplitProofs -------------------------
(***************************************************************************)
(* Proofs about MessageSplit for every chunk size, count limit, set of     *)
(* lengths and index space that SplitAssumption admits.  The arithmetic of *)
(* cutting comes first, then what one chunk adds to the assembly, then the *)
(* types.  What keeps messages intact is a map from each part in the queue *)
(* to its place among the messages sent (Tracks).                          *)
(***************************************************************************)
EXTENDS MessageSplit, SequenceTheorems, TLAPS

-----------------------------------------------------------------------------
(* Cutting a message. *)

\* MessageCount is the length divided by ChunkSize, rounded up.
LEMMA MessageCountFacts ==
    ASSUME NEW length \in Nat
    PROVE  /\ MessageCount(length) \in Nat
           /\ length <= MessageCount(length) * ChunkSize
           /\ (MessageCount(length) - 1) * ChunkSize < length \/ length = 0
<1> DEFINE x == length + ChunkSize - 1
           q == x \div ChunkSize
<1>1. ChunkSize \in Nat /\ ChunkSize > 0 /\ x \in Nat
  BY SplitAssumption
<1>2. q \in Int /\ x = ChunkSize * q + (x % ChunkSize) /\ x % ChunkSize \in 0..(ChunkSize - 1)
  BY <1>1, SMT
<1>3. q >= 0
  BY <1>1, <1>2, SMT
<1>4. MessageCount(length) = q
  BY DEF MessageCount
<1> HIDE DEF q
<1>5. (q - 1) * ChunkSize = q * ChunkSize - ChunkSize
  BY <1>1, <1>2, SMT
<1>6. QED
  BY <1>1, <1>2, <1>3, <1>4, <1>5, SMT

\* Where a chunk begins and ends in its message.
ChunkStart(c) == (c - 1) * ChunkSize
ChunkEnd(bytes, c) ==
    IF ChunkStart(c) + ChunkSize < Len(bytes) THEN ChunkStart(c) + ChunkSize ELSE Len(bytes)

\* The chunks lie one behind the other and cover the message.
LEMMA ChunkBounds ==
    ASSUME NEW S, NEW bytes \in Seq(S), NEW c \in 1..MessageCount(Len(bytes))
    PROVE  /\ ChunkStart(c) \in Nat
           /\ ChunkEnd(bytes, c) \in Nat
           /\ ChunkStart(c) < ChunkEnd(bytes, c)
           /\ ChunkEnd(bytes, c) <= Len(bytes)
           /\ c < MessageCount(Len(bytes)) =>
                 ChunkEnd(bytes, c) = ChunkStart(c + 1)
           /\ c = MessageCount(Len(bytes)) => ChunkEnd(bytes, c) = Len(bytes)
<1> DEFINE n == Len(bytes)
           q == MessageCount(n)
<1>1. /\ n \in Nat /\ q \in Nat /\ c \in 1..q
      /\ n <= q * ChunkSize
      /\ (q - 1) * ChunkSize < n \/ n = 0
      /\ ChunkSize \in Nat /\ ChunkSize > 0
  <2>1. n \in Nat
    OBVIOUS
  <2>2. QED
    BY <2>1, MessageCountFacts, SplitAssumption
<1>2. n # 0
  <2>1. SUFFICES ASSUME n = 0 PROVE FALSE
    OBVIOUS
  <2>2. q = (ChunkSize - 1) \div ChunkSize
    BY <2>1, <1>1 DEF MessageCount
  <2>3. (ChunkSize - 1) \div ChunkSize = 0
    BY <1>1, SMT
  <2>4. QED
    BY <1>1, <2>2, <2>3
<1> HIDE DEF q, n
<1>3. (c - 1) * ChunkSize <= (q - 1) * ChunkSize /\ (c - 1) * ChunkSize \in Nat
  BY <1>1, SMT
<1>4. c < q => c * ChunkSize <= (q - 1) * ChunkSize
  BY <1>1, SMT
<1>5. c * ChunkSize = (c - 1) * ChunkSize + ChunkSize
  BY <1>1, SMT
<1>6. ChunkStart(c + 1) = c * ChunkSize
  BY <1>1 DEF ChunkStart
<1>7. QED
  BY <1>1, <1>2, <1>3, <1>4, <1>5, <1>6, SMT DEF ChunkStart, ChunkEnd, n, q

\* A chunk is numbered by its place, holds the bytes of its place, and fits
\* the fields of a part.
LEMMA ChunkFacts ==
    ASSUME NEW S, NEW bytes \in Seq(S), NEW c \in 1..MessageCount(Len(bytes))
    PROVE  /\ Chunks(bytes)[c] =
                 [isControl |-> TRUE, number |-> (c - 1) % CountLimit,
                  size |-> ChunkEnd(bytes, c) - ChunkStart(c),
                  bytes |-> SubSeq(bytes, ChunkStart(c) + 1, ChunkEnd(bytes, c))]
           /\ Chunks(bytes)[c].bytes \in Seq(S)
           /\ Len(Chunks(bytes)[c].bytes) = ChunkEnd(bytes, c) - ChunkStart(c)
           /\ \A b \in 1..Len(Chunks(bytes)[c].bytes) :
                 Chunks(bytes)[c].bytes[b] = bytes[ChunkStart(c) + b]
<1>1. Chunks(bytes)[c] =
          [isControl |-> TRUE, number |-> (c - 1) % CountLimit,
           size |-> ChunkEnd(bytes, c) - ChunkStart(c),
           bytes |-> SubSeq(bytes, ChunkStart(c) + 1, ChunkEnd(bytes, c))]
  BY DEF Chunks, ChunkStart, ChunkEnd
<1> DEFINE from == ChunkStart(c)
           to == ChunkEnd(bytes, c)
<1>2. from \in Nat /\ to \in Nat /\ from < to /\ to <= Len(bytes)
  BY ChunkBounds
<1> HIDE DEF from, to
<1>3. /\ SubSeq(bytes, from + 1, to) \in Seq(S)
      /\ Len(SubSeq(bytes, from + 1, to)) = to - from
      /\ \A b \in 1..(to - from) : SubSeq(bytes, from + 1, to)[b] = bytes[from + b]
  BY <1>2
<1>4. QED
  BY <1>1, <1>3 DEF from, to

LEMMA NumberFits ==
    ASSUME NEW n \in Nat
    PROVE  /\ n % CountLimit \in 0..(CountLimit - 1)
           /\ n < CountLimit => n % CountLimit = n
BY SplitAssumption, SMT

LEMMA Prepended ==
    ASSUME NEW S, NEW head \in Seq(S), NEW rest \in Seq(S), Len(head) = 1
    PROVE  /\ head \o rest \in Seq(S)
           /\ Len(head \o rest) = 1 + Len(rest)
           /\ (head \o rest)[1] = head[1]
           /\ \A c \in 1..Len(rest) : (head \o rest)[c + 1] = rest[c]
<1>1. head \o rest \in Seq(S)
  BY ConcatProperties
<1>2. Len(head \o rest) = 1 + Len(rest)
  <2>1. Len(head \o rest) = Len(head) + Len(rest)
    BY ConcatProperties
  <2>2. QED
    BY <2>1
<1>3. (head \o rest)[1] = head[1]
  <2>1. 1 \in 1..(Len(head) + Len(rest)) /\ 1 <= Len(head)
    OBVIOUS
  <2>2. QED
    BY <2>1, ConcatProperties
<1>4. ASSUME NEW c \in 1..Len(rest) PROVE (head \o rest)[c + 1] = rest[c]
  <2>1. /\ c + 1 \in 1..(Len(head) + Len(rest))
        /\ ~(c + 1 <= Len(head))
        /\ (c + 1) - Len(head) = c
    OBVIOUS
  <2>2. QED
    BY <2>1, ConcatProperties
<1>5. QED
  BY <1>1, <1>2, <1>3, <1>4

\* What Send hands to the layer below: one whole part, or the announcement
\* and then the chunks.
LEMMA PartsFacts ==
    ASSUME NEW bytes \in Seq(Byte)
    PROVE  /\ Parts(bytes) \in Seq(Part)
           /\ MessageCount(Len(bytes)) <= 1 =>
                 /\ Len(Parts(bytes)) = 1
                 /\ Parts(bytes)[1] = Whole(bytes)[1]
           /\ MessageCount(Len(bytes)) > 1 =>
                 /\ Len(Parts(bytes)) = MessageCount(Len(bytes)) + 1
                 /\ Parts(bytes)[1] = Announce(bytes)[1]
                 /\ \A c \in 1..MessageCount(Len(bytes)) :
                       Parts(bytes)[c + 1] = Chunks(bytes)[c]
<1> DEFINE q == MessageCount(Len(bytes))
<1>1. q \in Nat /\ Len(bytes) \in Nat
  BY MessageCountFacts
<1>2. Whole(bytes) \in Seq(Part)
  BY SplitAssumption DEF Whole, Part
<1>3. Announce(bytes) \in Seq(Part)
  <2>1. q % CountLimit \in 0..(CountLimit - 1)
    BY <1>1, NumberFits
  <2>2. <<>> \in Seq(Byte)
    OBVIOUS
  <2>3. Announce(bytes)[1] \in Part
    BY <1>1, <2>1, <2>2 DEF Announce, Part
  <2>4. QED
    BY <2>3 DEF Announce
<1>4. Chunks(bytes) \in Seq(Part) /\ Len(Chunks(bytes)) = q
  <2>1. ASSUME NEW c \in 1..q PROVE Chunks(bytes)[c] \in Part
    <3>0. c - 1 \in Nat
      BY <1>1
    <3>1. (c - 1) % CountLimit \in 0..(CountLimit - 1)
      BY NumberFits, <3>0
    <3>2. ChunkEnd(bytes, c) - ChunkStart(c) \in Nat
      BY ChunkBounds
    <3>3. /\ Chunks(bytes)[c] =
                [isControl |-> TRUE, number |-> (c - 1) % CountLimit,
                 size |-> ChunkEnd(bytes, c) - ChunkStart(c),
                 bytes |-> SubSeq(bytes, ChunkStart(c) + 1, ChunkEnd(bytes, c))]
          /\ Chunks(bytes)[c].bytes \in Seq(Byte)
      BY ChunkFacts
    <3>4. SubSeq(bytes, ChunkStart(c) + 1, ChunkEnd(bytes, c)) \in Seq(Byte)
      BY <3>3
    <3>5. QED
      BY <3>1, <3>2, <3>3, <3>4 DEF Part
  <2>2. Chunks(bytes) = [c \in 1..q |-> Chunks(bytes)[c]]
    BY DEF Chunks
  <2>3. QED
    BY <1>1, <2>1, <2>2
<1>5. Len(Whole(bytes)) = 1 /\ Len(Announce(bytes)) = 1
  BY DEF Whole, Announce
<1> HIDE DEF q
<1>6. CASE q > 1
  <2>1. Parts(bytes) = Announce(bytes) \o Chunks(bytes)
    BY <1>6 DEF Parts, q
  <2>2. /\ Announce(bytes) \o Chunks(bytes) \in Seq(Part)
        /\ Len(Announce(bytes) \o Chunks(bytes)) = 1 + q
        /\ (Announce(bytes) \o Chunks(bytes))[1] = Announce(bytes)[1]
        /\ \A c \in 1..q : (Announce(bytes) \o Chunks(bytes))[c + 1] = Chunks(bytes)[c]
    <3> DEFINE head == Announce(bytes)
               rest == Chunks(bytes)
    <3>1. /\ head \in Seq(Part) /\ rest \in Seq(Part)
          /\ Len(head) = 1 /\ Len(rest) = q
      BY <1>3, <1>4, <1>5
    <3> HIDE DEF head, rest
    <3>2. /\ head \o rest \in Seq(Part)
          /\ Len(head \o rest) = 1 + q
          /\ (head \o rest)[1] = head[1]
          /\ \A c \in 1..q : (head \o rest)[c + 1] = rest[c]
      BY <1>1, <3>1, Prepended
    <3>3. QED
      BY <3>2 DEF head, rest
  <2>3. Parts(bytes) \in Seq(Part) /\ Parts(bytes)[1] = Announce(bytes)[1]
    BY <2>1, <2>2
  <2>4. Len(Parts(bytes)) = q + 1
    BY <1>1, <2>1, <2>2
  <2>5. \A c \in 1..q : Parts(bytes)[c + 1] = Chunks(bytes)[c]
    BY <2>1, <2>2
  <2>6. ~(q <= 1)
    BY <1>1, <1>6
  <2>7. QED
    BY <2>3, <2>4, <2>5, <2>6 DEF q
<1>7. CASE q <= 1
  BY <1>1, <1>2, <1>5, <1>7 DEF Parts, q
<1>8. QED
  BY <1>1, <1>6, <1>7

-----------------------------------------------------------------------------
(* The types. *)

LEMMA BytesType ==
    ASSUME NEW mask \in Masks, NEW k \in Nat, NEW length \in Nat
    PROVE  /\ Bytes(<<mask, k>>, length) \in Seq(Byte)
           /\ Len(Bytes(<<mask, k>>, length)) = length
<1>1. \A b \in 1..length : <<<<mask, k>>, b>> \in Byte
  BY DEF Byte
<1>2. QED
  BY <1>1 DEF Bytes

LEMMA ResizeType ==
    ASSUME NEW buffer \in Seq(Byte), NEW length \in Nat
    PROVE  Resize(buffer, length) \in Seq(Byte) /\ Len(Resize(buffer, length)) = length
<1>1. Zero \in Byte
  BY DEF Zero, Byte, Masks
<1>2. \A b \in 1..length : (IF b <= Len(buffer) THEN buffer[b] ELSE Zero) \in Byte
  BY <1>1
<1>3. QED
  BY <1>2 DEF Resize

LEMMA OverlayType ==
    ASSUME NEW buffer \in Seq(Byte), NEW at \in Nat, NEW bytes \in Seq(Byte)
    PROVE  /\ Overlay(buffer, at, bytes) \in Seq(Byte)
           /\ Len(Overlay(buffer, at, bytes)) = Len(buffer)
<1>1. \A b \in 1..Len(buffer) :
          (IF b \in (at + 1)..(at + Len(bytes)) THEN bytes[b - at] ELSE buffer[b]) \in Byte
  OBVIOUS
<1>2. QED
  BY <1>1 DEF Overlay

ReceiverTypeOK ==
    /\ pendingCount \in 0..(CountLimit - 1)
    /\ assembly \in Seq(Byte)
    /\ received \in [Masks -> Seq(Seq(Byte))]
    /\ smashed \in BOOLEAN

\* Recv keeps the receiver's types whichever part it is given.
LEMMA RecvTypes ==
    ASSUME ReceiverTypeOK, NEW part \in Part, NEW mask \in Masks,
           Recv(part, mask)
    PROVE  ReceiverTypeOK'
<1>1. part.bytes \in Seq(Byte) /\ part.number \in 0..(CountLimit - 1) /\ part.size \in Nat
  BY DEF Part
<1>2. CASE RecvWhole(part, mask)
  BY <1>1, <1>2 DEF RecvWhole, ReceiverTypeOK
<1>3. CASE RecvAnnounce(part)
  BY <1>1, <1>3, ResizeType DEF RecvAnnounce, ReceiverTypeOK
<1>4. CASE RecvChunk(part, mask)
  <2> DEFINE filled == Overlay(assembly, part.number * ChunkSize, part.bytes)
  <2>1. part.number * ChunkSize \in Nat
    BY <1>1, SplitAssumption
  <2>2. filled \in Seq(Byte)
    BY <1>1, <2>1, OverlayType DEF ReceiverTypeOK
  <2>3. /\ smashed' \in BOOLEAN
        /\ received' = [received EXCEPT ![mask] =
              IF part.number = pendingCount - 1 THEN Append(@, filled) ELSE @]
        /\ pendingCount' \in {0, pendingCount}
        /\ assembly' \in {<<>>, filled}
    BY <1>4 DEF RecvChunk, Astray
  <2> HIDE DEF filled
  <2>4. received' \in [Masks -> Seq(Seq(Byte))]
    BY <2>2, <2>3 DEF ReceiverTypeOK
  <2>5. pendingCount' \in 0..(CountLimit - 1)
    BY <2>3, SplitAssumption DEF ReceiverTypeOK
  <2>6. assembly' \in Seq(Byte)
    <3>1. <<>> \in Seq(Byte)
      OBVIOUS
    <3>2. QED
      BY <2>2, <2>3, <3>1
  <2>7. QED
    BY <2>3, <2>4, <2>5, <2>6 DEF ReceiverTypeOK
<1>5. QED
  BY <1>2, <1>3, <1>4 DEF Recv

LEMMA SendTypes ==
    ASSUME TypeOK, NEW length \in Lengths, NEW mask \in Masks, Send(length, mask)
    PROVE  TypeOK'
<1> DEFINE bytes == Bytes(<<mask, Len(sent[mask]) + 1>>, length)
<1>1. bytes \in Seq(Byte)
  BY BytesType, SplitAssumption DEF TypeOK
<1>2. Parts(bytes) \in Seq(Part)
  BY <1>1, PartsFacts
<1>3. /\ sent' = [sent EXCEPT ![mask] = Append(@, bytes)]
      /\ UNCHANGED receiver
      /\ \/ queue' = queue \o Parts(bytes) /\ UNCHANGED unreliable
         \/ U!SendUnreliable(Parts(bytes)) /\ UNCHANGED queue
  BY DEF Send
<1> HIDE DEF bytes
<1>4. sent' \in [Masks -> Seq(Seq(Byte))]
  BY <1>1, <1>3 DEF TypeOK
<1>5. CASE queue' = queue \o Parts(bytes) /\ UNCHANGED unreliable
  <2>1. queue' \in Seq(Part)
    BY <1>2, <1>5, ConcatProperties DEF TypeOK
  <2>2. QED
    BY <1>3, <1>4, <1>5, <2>1 DEF TypeOK, receiver, unreliable
<1>6. CASE U!SendUnreliable(Parts(bytes)) /\ UNCHANGED queue
  <2>1. PICK kept \in 0..Len(Parts(bytes)) :
          unrelNet' = unrelNet \cup
              {[index |-> (FirstUnreliable + unrelSent + i - 1) % Modulus,
                payload |-> Parts(bytes)[i]] : i \in 1..kept}
    BY <1>6 DEF U!SendUnreliable
  <2>2. Len(Parts(bytes)) \in Nat /\ unrelSent \in Nat /\ FirstUnreliable \in Nat
    BY <1>2, SplitAssumption DEF TypeOK
  <2>3. ASSUME NEW i \in 1..kept
        PROVE  /\ (FirstUnreliable + unrelSent + i - 1) % Modulus \in 0..(Modulus - 1)
               /\ Parts(bytes)[i] \in Part
    <3>1. FirstUnreliable + unrelSent + i - 1 \in Nat /\ i \in 1..Len(Parts(bytes))
      BY <2>2
    <3>2. QED
      BY <1>2, <3>1, SplitAssumption
  <2>4. \A m \in unrelNet' : m.index \in 0..(Modulus - 1) /\ m.payload \in Part
    BY <2>1, <2>3 DEF TypeOK
  <2>5. unrelSent' \in Nat /\ inUnrel' = inUnrel
    BY <1>6, <2>2 DEF U!SendUnreliable
  <2>6. QED
    BY <1>3, <1>4, <1>6, <2>4, <2>5 DEF TypeOK, receiver
<1>7. QED
  BY <1>3, <1>5, <1>6

LEMMA InitTypes == Init => TypeOK
<1> SUFFICES ASSUME Init PROVE TypeOK
  OBVIOUS
<1>1. /\ sent \in [Masks -> Seq(Seq(Byte))] /\ received \in [Masks -> Seq(Seq(Byte))]
      /\ queue \in Seq(Part) /\ assembly \in Seq(Byte)
  BY DEF Init
<1>2. unrelNet = {} /\ unrelSent \in Nat /\ inUnrel \in 0..(Modulus - 1)
  BY SplitAssumption DEF Init, U!InitUnreliable
<1>3. pendingCount \in 0..(CountLimit - 1)
  BY SplitAssumption DEF Init
<1>4. smashed \in BOOLEAN
  BY DEF Init
<1>5. QED
  BY <1>1, <1>2, <1>3, <1>4 DEF TypeOK

LEMMA NextTypes == TypeOK /\ [Next]_vars => TypeOK'
<1> SUFFICES ASSUME TypeOK, [Next]_vars PROVE TypeOK'
  OBVIOUS
<1>1. ASSUME NEW length \in Lengths, NEW mask \in Masks, Send(length, mask)
      PROVE  TypeOK'
  BY <1>1, SendTypes
<1>2. CASE RecvReliable
  <2>1. Head(queue) \in Part /\ Tail(queue) \in Seq(Part)
    BY <1>2 DEF RecvReliable, TypeOK
  <2>2. ReceiverTypeOK'
    BY <1>2, <2>1, RecvTypes DEF RecvReliable, TypeOK, ReceiverTypeOK, Masks
  <2>3. QED
    BY <1>2, <2>1, <2>2 DEF RecvReliable, TypeOK, ReceiverTypeOK, unreliable
<1>3. ASSUME NEW m \in unrelNet, RecvUnreliable(m) PROVE TypeOK'
  <2>1. ReceiverTypeOK'
    <3>1. CASE U!PassedOn(m)
      BY <1>3, <3>1, RecvTypes DEF RecvUnreliable, TypeOK, ReceiverTypeOK, Masks
    <3>2. CASE ~U!PassedOn(m)
      BY <1>3, <3>2 DEF RecvUnreliable, TypeOK, ReceiverTypeOK, receiver
    <3>3. QED
      BY <3>1, <3>2
  <2>2. inUnrel' \in 0..(Modulus - 1)
    <3>1. m.index + 1 \in Nat
      BY <1>3 DEF TypeOK
    <3>2. (m.index + 1) % Modulus \in 0..(Modulus - 1)
      BY <3>1, SplitAssumption
    <3>3. inUnrel' = IF U!PassedOn(m) THEN (m.index + 1) % Modulus ELSE inUnrel
      BY <1>3 DEF RecvUnreliable, U!RecvUnreliable
    <3>4. QED
      BY <3>2, <3>3 DEF TypeOK
  <2>3. unrelNet' \subseteq unrelNet /\ unrelSent' = unrelSent /\ UNCHANGED <<sent, queue>>
    BY <1>3 DEF RecvUnreliable, U!RecvUnreliable
  <2>4. QED
    BY <2>1, <2>2, <2>3 DEF TypeOK, ReceiverTypeOK
<1>4. CASE LoseUnreliable
  BY <1>4 DEF LoseUnreliable, U!LoseUnreliable, TypeOK, receiver
<1>5. CASE UNCHANGED vars
  BY <1>5 DEF vars, receiver, unreliable, TypeOK
<1>6. QED
  BY <1>1, <1>2, <1>3, <1>4, <1>5 DEF Next

\* Whatever is sent, lost, repeated or mixed up, the counters stay within the
\* fields that hold them.
THEOREM TypeCorrect == Spec => []TypeOK
BY InitTypes, NextTypes, PTL DEF Spec

-----------------------------------------------------------------------------
(* Messages stay whole. *)

\* A place names a part of what was sent reliably: which message, which part.
Places == (Nat \ {0}) \X (Nat \ {0})

SentParts(k) == Parts(sent.reliable[k])

HoldsPlace(part, place) ==
    /\ place[1] \in 1..Len(sent.reliable)
    /\ place[2] \in 1..Len(SentParts(place[1]))
    /\ part = SentParts(place[1])[place[2]]

\* The place of the part that is sent next.
After(place) ==
    IF place[2] < Len(SentParts(place[1])) THEN <<place[1], place[2] + 1>>
                                           ELSE <<place[1] + 1, 1>>

\* The parts in the queue are what was sent, from the place of the first on;
\* behind the last comes the first part of the message to be sent next.
Tracks(places) ==
    /\ places \in [1..(Len(queue) + 1) -> Places]
    /\ \A i \in 1..Len(queue) :
          HoldsPlace(queue[i], places[i]) /\ places[i + 1] = After(places[i])
    /\ places[Len(queue) + 1] = <<Len(sent.reliable) + 1, 1>>

\* The receiver has passed on the messages before the place, and assembled the
\* chunks before it.
ReceiverAt(place) ==
    /\ place[1] = Len(received.reliable) + 1
    /\ place[2] = 1 => pendingCount = 0
    /\ place[2] > 1 =>
          LET bytes == sent.reliable[place[1]]
          IN  /\ pendingCount = MessageCount(Len(bytes))
              /\ pendingCount > 1
              /\ Len(assembly) = Len(bytes)
              /\ \A b \in 1..ChunkStart(place[2] - 1) : assembly[b] = bytes[b]

PassedOnInOrder ==
    /\ Len(received.reliable) <= Len(sent.reliable)
    /\ \A i \in 1..Len(received.reliable) : received.reliable[i] = sent.reliable[i]

UnreliableWhole ==
    /\ \A m \in unrelNet : ~m.payload.isControl /\ m.payload.bytes \in Range(sent.unreliable)
    /\ \A i \in 1..Len(received.unreliable) : received.unreliable[i] \in Range(sent.unreliable)

\* While nothing unreliable is split and the counts fit, what the transcoders
\* hold is in order.
InOrder ==
    /\ ~smashed
    /\ PassedOnInOrder
    /\ UnreliableWhole
    /\ \E places : Tracks(places) /\ ReceiverAt(places[1])

IInv ==
    /\ TypeOK
    /\ ~UnreliableSplit /\ CountsFit => InOrder

\* A chunk that is copied over a buffer that holds the chunks before it makes it
\* hold this one too, and stays within it.
LEMMA OverlayFacts ==
    ASSUME NEW bytes \in Seq(Byte), NEW c \in 1..MessageCount(Len(bytes)),
           NEW buffer \in Seq(Byte), Len(buffer) = Len(bytes),
           \A b \in 1..ChunkStart(c) : buffer[b] = bytes[b],
           NEW filled, filled = Overlay(buffer, ChunkStart(c), Chunks(bytes)[c].bytes)
    PROVE  /\ filled \in Seq(Byte)
           /\ Len(filled) = Len(bytes)
           /\ \A b \in 1..ChunkEnd(bytes, c) : filled[b] = bytes[b]
           /\ ChunkStart(c) + Len(Chunks(bytes)[c].bytes) <= Len(buffer)
           /\ c = MessageCount(Len(bytes)) => filled = bytes
<1> DEFINE part == Chunks(bytes)[c].bytes
           from == ChunkStart(c)
           to == ChunkEnd(bytes, c)
<1>1. /\ from \in Nat /\ to \in Nat /\ from < to /\ to <= Len(bytes)
      /\ c = MessageCount(Len(bytes)) => to = Len(bytes)
  BY ChunkBounds
<1>2. /\ part \in Seq(Byte) /\ Len(part) = to - from
      /\ \A b \in 1..Len(part) : part[b] = bytes[from + b]
  BY ChunkFacts
<1>3. filled = Overlay(buffer, from, part) /\ \A b \in 1..from : buffer[b] = bytes[b]
  OBVIOUS
<1> HIDE DEF part, from, to
<1>4. filled \in Seq(Byte) /\ Len(filled) = Len(bytes)
  BY <1>1, <1>2, <1>3, OverlayType
<1>5. ASSUME NEW b \in 1..to PROVE filled[b] = bytes[b]
  <2>1. b \in 1..Len(buffer) /\ b \in Nat
    BY <1>1
  <2>2. filled[b] = IF b \in (from + 1)..(from + Len(part)) THEN part[b - from] ELSE buffer[b]
    BY <1>3, <2>1 DEF Overlay
  <2>3. CASE b <= from
    BY <1>1, <1>2, <1>3, <2>1, <2>2, <2>3
  <2>4. CASE b > from
    <3>1. b \in (from + 1)..(from + Len(part)) /\ b - from \in 1..Len(part)
      BY <1>1, <1>2, <2>4
    <3>2. part[b - from] = bytes[from + (b - from)] /\ from + (b - from) = b
      BY <1>1, <1>2, <3>1
    <3>3. QED
      BY <2>2, <3>1, <3>2
  <2>5. QED
    BY <1>1, <2>1, <2>3, <2>4
<1>6. c = MessageCount(Len(bytes)) => filled = bytes
  BY <1>1, <1>4, <1>5, SeqEqual
<1>7. QED
  BY <1>1, <1>2, <1>4, <1>5, <1>6 DEF part, from, to

\* A reliable part whose place the receiver has reached brings it to the next
\* place, whether it is whole, an announcement or a chunk.
LEMMA RecvInPlace ==
    ASSUME CountsFit, IInv, ~UnreliableSplit, NEW place \in Places, NEW part,
           HoldsPlace(part, place), ReceiverAt(place),
           Recv(part, "reliable"), UNCHANGED sent
    PROVE  /\ ~smashed'
           /\ PassedOnInOrder'
           /\ received'.unreliable = received.unreliable
           /\ ReceiverAt(After(place))'
<1> DEFINE k == place[1]
           c == place[2]
           bytes == sent.reliable[k]
           q == MessageCount(Len(bytes))
<1>1. /\ k \in 1..Len(sent.reliable) /\ c \in 1..Len(Parts(bytes))
      /\ part = Parts(bytes)[c]
      /\ k \in Nat /\ c \in Nat /\ c >= 1
  <2>1. k \in Nat /\ c \in Nat /\ c >= 1
    BY DEF Places
  <2>2. k \in 1..Len(sent.reliable) /\ c \in 1..Len(Parts(bytes)) /\ part = Parts(bytes)[c]
    BY DEF HoldsPlace, SentParts
  <2>3. QED
    BY <2>1, <2>2
<1>2. bytes \in Seq(Byte) /\ Len(bytes) \in Nat /\ q \in Nat /\ q < CountLimit
  <2>1. bytes \in Seq(Byte)
    <3>1. sent.reliable \in Seq(Seq(Byte))
      BY DEF IInv, TypeOK, Masks
    <3>2. QED
      BY <1>1, <3>1
  <2>2. Len(bytes) \in Nat /\ MessageCount(Len(bytes)) < CountLimit
    <3>1. sent.reliable \in Seq(Seq(Byte))
      BY DEF IInv, TypeOK, Masks
    <3>2. QED
      BY <1>1, <2>1, <3>1 DEF CountsFit
  <2>3. QED
    BY <2>1, <2>2, MessageCountFacts
<1>3. /\ k = Len(received.reliable) + 1
      /\ Len(received.reliable) \in Nat
      /\ received \in [Masks -> Seq(Seq(Byte))]
      /\ ~smashed /\ PassedOnInOrder
  <2>1. TypeOK /\ ~smashed /\ PassedOnInOrder
    BY DEF IInv, InOrder
  <2>2. received \in [Masks -> Seq(Seq(Byte))]
    BY <2>1 DEF TypeOK
  <2>3. received.reliable \in Seq(Seq(Byte))
    BY <2>2 DEF Masks
  <2>4. k = Len(received.reliable) + 1
    BY DEF ReceiverAt
  <2>5. QED
    BY <2>1, <2>2, <2>3, <2>4
<1>4. After(place) = IF c < Len(Parts(bytes)) THEN <<k, c + 1>> ELSE <<k + 1, 1>>
  BY DEF After, SentParts
<1>5. After(place)' = After(place)
  BY DEF After, SentParts
<1> HIDE DEF k, c, q, bytes
<1>6. ASSUME received' = [received EXCEPT !.reliable = Append(@, bytes)]
      PROVE  /\ PassedOnInOrder' /\ received'.unreliable = received.unreliable
             /\ Len(received'.reliable) + 1 = k + 1
  <2>1. /\ received'.reliable = Append(received.reliable, bytes)
        /\ received'.unreliable = received.unreliable
    BY <1>3, <1>6 DEF Masks
  <2>2. /\ Len(received'.reliable) = Len(received.reliable) + 1
        /\ \A i \in 1..Len(received.reliable) : received'.reliable[i] = received.reliable[i]
        /\ received'.reliable[k] = bytes
    <3> DEFINE before == received.reliable
    <3>1. before \in Seq(Seq(Byte)) /\ k = Len(before) + 1
      BY <1>3 DEF Masks
    <3> HIDE DEF before
    <3>2. /\ Len(Append(before, bytes)) = Len(before) + 1
          /\ \A i \in 1..Len(before) : Append(before, bytes)[i] = before[i]
          /\ Append(before, bytes)[k] = bytes
      BY <3>1, <1>2, AppendProperties
    <3>3. QED
      BY <2>1, <3>2 DEF before
  <2>3. Len(received'.reliable) = k /\ k <= Len(sent.reliable)
    <3>1. Len(sent.reliable) \in Nat
      BY DEF IInv, TypeOK, Masks
    <3>2. QED
      BY <1>1, <1>3, <2>2, <3>1
  <2>4. ASSUME NEW i \in 1..k PROVE received'.reliable[i] = sent.reliable[i]
    <3>1. CASE i = k
      BY <2>2, <3>1 DEF bytes
    <3>2. CASE i # k
      <4>1. i \in 1..Len(received.reliable)
        BY <1>3, <3>2
      <4>2. received'.reliable[i] = received.reliable[i]
        BY <2>2, <4>1
      <4>3. received.reliable[i] = sent.reliable[i]
        BY <1>3, <4>1 DEF PassedOnInOrder
      <4>4. QED
        BY <4>2, <4>3
    <3>3. QED
      BY <3>1, <3>2
  <2>5. PassedOnInOrder'
    BY <2>3, <2>4 DEF PassedOnInOrder
  <2>6. QED
    BY <1>1, <2>1, <2>3, <2>5
<1>7. CASE q <= 1
  <2>1. Len(Parts(bytes)) = 1 /\ part = Whole(bytes)[1] /\ c = 1
    BY <1>1, <1>2, <1>7, PartsFacts DEF q
  <2>2. ~part.isControl /\ part.bytes = bytes
    BY <2>1 DEF Whole
  <2>3. RecvWhole(part, "reliable")
    BY <2>2 DEF Recv, RecvAnnounce, RecvChunk
  <2>4. /\ received' = [received EXCEPT !.reliable = Append(@, bytes)]
        /\ smashed' = smashed /\ pendingCount' = pendingCount
    BY <2>2, <2>3 DEF RecvWhole
  <2>5. After(place) = <<k + 1, 1>> /\ pendingCount = 0
    BY <1>4, <2>1 DEF ReceiverAt, c
  <2>6. QED
    BY <1>3, <1>5, <1>6, <2>4, <2>5 DEF ReceiverAt
<1>8. CASE q > 1 /\ c = 1
  <2>1. part = Announce(bytes)[1] /\ Len(Parts(bytes)) = q + 1
    BY <1>1, <1>2, <1>8, PartsFacts DEF q
  <2>2. part.isControl /\ part.number = q % CountLimit /\ part.size = Len(bytes)
    BY <2>1 DEF Announce, q
  <2>3. part.number = q
    BY <1>2, <2>2, NumberFits
  <2>4. pendingCount = 0
    BY <1>8 DEF ReceiverAt, c
  <2>5. RecvAnnounce(part)
    BY <2>2, <2>4 DEF Recv, RecvWhole, RecvChunk
  <2>6. /\ pendingCount' = q /\ assembly' = Resize(assembly, Len(bytes))
        /\ received' = received /\ smashed' = smashed
    BY <2>2, <2>3, <2>5 DEF RecvAnnounce
  <2>7. Len(assembly') = Len(bytes)
    BY <1>2, <2>6, ResizeType DEF IInv, TypeOK
  <2>8. After(place) = <<k, 2>>
    BY <1>2, <1>4, <1>8, <2>1
  <2>9. ChunkStart(2 - 1) = 0
    BY SplitAssumption DEF ChunkStart
  <2>10. PassedOnInOrder'
    BY <1>3, <2>6 DEF PassedOnInOrder
  <2>11. ReceiverAt(After(place))'
    BY <1>3, <1>5, <1>8, <2>6, <2>7, <2>8, <2>9 DEF ReceiverAt, q, bytes
  <2>12. QED
    BY <1>3, <2>6, <2>10, <2>11
<1>9. CASE q > 1 /\ c > 1
  <2> DEFINE d == c - 1
             filled == Overlay(assembly, ChunkStart(d), Chunks(bytes)[d].bytes)
  <2>1. /\ Len(Parts(bytes)) = q + 1
        /\ d \in 1..q /\ d \in Nat /\ c = d + 1
        /\ part = Chunks(bytes)[d]
    <3>1. Len(Parts(bytes)) = q + 1
      BY <1>2, <1>9, PartsFacts DEF q
    <3>2. d \in 1..q /\ c = d + 1
      BY <1>1, <1>2, <1>9, <3>1
    <3>3. Parts(bytes)[d + 1] = Chunks(bytes)[d]
      BY <1>2, <1>9, <3>2, PartsFacts DEF q
    <3>4. QED
      BY <1>1, <3>1, <3>2, <3>3
  <2> HIDE DEF d
  <2>2. /\ part.isControl /\ part.number = (d - 1) % CountLimit
        /\ part.size = Len(Chunks(bytes)[d].bytes)
    <3>1. d \in 1..MessageCount(Len(bytes))
      BY <2>1 DEF q
    <3>2. part = [isControl |-> TRUE, number |-> (d - 1) % CountLimit,
                  size |-> ChunkEnd(bytes, d) - ChunkStart(d),
                  bytes |-> SubSeq(bytes, ChunkStart(d) + 1, ChunkEnd(bytes, d))]
      BY <1>2, <2>1, <3>1, ChunkFacts
    <3>3. Len(Chunks(bytes)[d].bytes) = ChunkEnd(bytes, d) - ChunkStart(d)
      BY <1>2, <3>1, ChunkFacts
    <3>4. QED
      BY <3>2, <3>3
  <2>3. part.number = d - 1
    <3>1. d - 1 \in Nat /\ d - 1 < CountLimit
      BY <1>2, <2>1, SplitAssumption
    <3>2. QED
      BY <2>2, <3>1, NumberFits
  <2>4. /\ pendingCount = q
        /\ Len(assembly) = Len(bytes)
        /\ \A b \in 1..ChunkStart(d) : assembly[b] = bytes[b]
    BY <1>9 DEF ReceiverAt, q, bytes, k, c, d
  <2>5. /\ Len(filled) = Len(bytes)
        /\ \A b \in 1..ChunkEnd(bytes, d) : filled[b] = bytes[b]
        /\ ChunkStart(d) + Len(Chunks(bytes)[d].bytes) <= Len(assembly)
        /\ d = q => filled = bytes
    <3>1. assembly \in Seq(Byte)
      BY DEF IInv, TypeOK
    <3>2. d \in 1..MessageCount(Len(bytes))
      BY <2>1 DEF q
    <3>3. filled = Overlay(assembly, ChunkStart(d), Chunks(bytes)[d].bytes)
      OBVIOUS
    <3> HIDE DEF filled
    <3>4. /\ Len(filled) = Len(bytes)
          /\ \A b \in 1..ChunkEnd(bytes, d) : filled[b] = bytes[b]
          /\ ChunkStart(d) + Len(Chunks(bytes)[d].bytes) <= Len(assembly)
          /\ d = MessageCount(Len(bytes)) => filled = bytes
      <4>1. bytes \in Seq(Byte)
        BY <1>2
      <4>2. Len(assembly) = Len(bytes) /\ \A b \in 1..ChunkStart(d) : assembly[b] = bytes[b]
        BY <2>4
      <4>3. QED
        BY <3>1, <3>2, <3>3, <4>1, <4>2, OverlayFacts
    <3>5. QED
      BY <3>4 DEF q
  <2>6. part.number * ChunkSize = ChunkStart(d)
    BY <2>3 DEF ChunkStart
  <2>7. RecvChunk(part, "reliable")
    BY <1>9, <2>2, <2>4 DEF Recv, RecvWhole, RecvAnnounce
  <2>8. part.number = pendingCount - 1 <=> d = q
    BY <1>2, <2>1, <2>3, <2>4
  <2>9. /\ smashed' = Astray(part)
        /\ received' = [received EXCEPT !.reliable = IF d = q THEN Append(@, filled) ELSE @]
        /\ pendingCount' = IF d = q THEN 0 ELSE pendingCount
        /\ assembly' = IF d = q THEN <<>> ELSE filled
    BY <2>1, <2>6, <2>7, <2>8 DEF RecvChunk
  <2>10. ~smashed'
    <3>1. /\ Len(Chunks(bytes)[d].bytes) \in Nat /\ ChunkStart(d) \in Nat
          /\ Len(assembly) \in Nat
      BY <1>2, <2>1, <2>4, ChunkFacts, ChunkBounds DEF q
    <3>2. part.size = Len(part.bytes) /\ part.bytes = Chunks(bytes)[d].bytes
      BY <2>1, <2>2
    <3>3. ~(part.number * ChunkSize + part.size > Len(assembly))
      BY <2>5, <2>6, <3>1, <3>2
    <3>4. QED
      BY <2>9, <3>2, <3>3 DEF Astray
  <2> HIDE DEF filled
  <2>11. CASE d = q
    <3>1. received' = [received EXCEPT !.reliable = Append(@, bytes)] /\ pendingCount' = 0
      BY <2>5, <2>9, <2>11
    <3>2. After(place) = <<k + 1, 1>>
      BY <1>2, <1>4, <2>1, <2>11
    <3>3. ReceiverAt(After(place))'
      BY <1>3, <1>5, <1>6, <3>1, <3>2 DEF ReceiverAt
    <3>4. QED
      BY <1>6, <2>10, <3>1, <3>3
  <2>12. CASE d # q
    <3>1. /\ received' = received /\ pendingCount' = q /\ assembly' = filled
      BY <1>3, <2>4, <2>9, <2>12
    <3>2. After(place) = <<k, c + 1>> /\ (c + 1) - 1 = c /\ c + 1 > 1 /\ c + 1 # 1
      BY <1>1, <1>2, <1>4, <2>1, <2>12
    <3>3. ChunkEnd(bytes, d) = ChunkStart(c)
      BY <1>2, <2>1, <2>12, ChunkBounds DEF q
    <3>4. ReceiverAt(After(place))'
      <4>1. /\ ReceiverAt(<<k, c + 1>>)' <=>
                  /\ k = Len(received'.reliable) + 1
                  /\ pendingCount' = q
                  /\ pendingCount' > 1
                  /\ Len(assembly') = Len(bytes)
                  /\ \A b \in 1..ChunkStart(c) : assembly'[b] = bytes[b]
        BY <3>2 DEF ReceiverAt, q, bytes
      <4>2. QED
        BY <1>3, <1>5, <1>9, <2>5, <3>1, <3>2, <3>3, <4>1
    <3>5. PassedOnInOrder'
      BY <1>3, <3>1 DEF PassedOnInOrder
    <3>6. QED
      BY <2>10, <3>1, <3>4, <3>5
  <2>13. QED
    BY <2>11, <2>12
<1>10. QED
  BY <1>1, <1>2, <1>7, <1>8, <1>9

\* What is appended to the messages sent reliably leaves the places of the
\* others as they were.
LEMMA PlacesStay ==
    ASSUME NEW bytes \in Seq(Byte), sent.reliable \in Seq(Seq(Byte)),
           sent'.reliable = Append(sent.reliable, bytes),
           NEW place \in Places, place[1] \in 1..Len(sent.reliable)
    PROVE  /\ sent'.reliable[place[1]] = sent.reliable[place[1]]
           /\ \A part : HoldsPlace(part, place) => HoldsPlace(part, place)'
           /\ After(place)' = After(place)
<1>1. /\ sent'.reliable[place[1]] = sent.reliable[place[1]]
      /\ Len(sent'.reliable) = Len(sent.reliable) + 1
      /\ Len(sent.reliable) \in Nat
  BY AppendProperties
<1>2. SentParts(place[1])' = SentParts(place[1])
  BY <1>1 DEF SentParts
<1>3. place[1] \in 1..Len(sent'.reliable)
  BY <1>1
<1>4. QED
  BY <1>1, <1>2, <1>3 DEF HoldsPlace, After

\* Send puts the places of the new parts behind those of the old.
LEMMA SendTracks ==
    ASSUME TypeOK, NEW places, Tracks(places), NEW bytes \in Seq(Byte),
           sent'.reliable = Append(sent.reliable, bytes),
           queue' = queue \o Parts(bytes)
    PROVE  \E after : Tracks(after)' /\ after[1] = places[1]
<1>0. PICK n, m, k : n = Len(queue) /\ m = Len(Parts(bytes)) /\ k = Len(sent.reliable) + 1
  OBVIOUS
<1> DEFINE after == [i \in 1..(n + m + 1) |->
                        IF i <= n THEN places[i]
                        ELSE IF i <= n + m THEN <<k, i - n>> ELSE <<k + 1, 1>>]
<1>1. /\ queue \in Seq(Part) /\ n \in Nat
      /\ Parts(bytes) \in Seq(Part) /\ m \in Nat /\ m >= 1
      /\ sent.reliable \in Seq(Seq(Byte)) /\ k \in Nat /\ k >= 1
  <2>1. queue \in Seq(Part) /\ sent.reliable \in Seq(Seq(Byte))
    BY DEF TypeOK, Masks
  <2>2. Parts(bytes) \in Seq(Part) /\ Len(Parts(bytes)) >= 1
    <3>1. MessageCount(Len(bytes)) \in Nat
      BY MessageCountFacts
    <3>2. CASE MessageCount(Len(bytes)) <= 1
      BY <3>2, PartsFacts
    <3>3. CASE MessageCount(Len(bytes)) > 1
      BY <3>1, <3>3, PartsFacts
    <3>4. QED
      BY <3>1, <3>2, <3>3
  <2>3. QED
    BY <1>0, <2>1, <2>2
<1>2. /\ Len(sent'.reliable) = k /\ sent'.reliable[k] = bytes
  BY <1>0, <1>1, AppendProperties
<1>3. SentParts(k)' = Parts(bytes)
  BY <1>2 DEF SentParts
<1>4. /\ Len(queue') = n + m
      /\ \A i \in 1..n : queue'[i] = queue[i]
      /\ \A i \in 1..m : queue'[n + i] = Parts(bytes)[i]
  <2> DEFINE old == queue
             new == Parts(bytes)
  <2>1. old \in Seq(Part) /\ new \in Seq(Part) /\ n = Len(old) /\ m = Len(new)
    BY <1>0, <1>1
  <2>2. queue' = old \o new
    OBVIOUS
  <2> HIDE DEF old, new
  <2>3. Len(old \o new) = n + m
    BY <2>1, ConcatProperties
  <2>4. ASSUME NEW i \in 1..n PROVE (old \o new)[i] = old[i]
    BY <1>1, <2>1, ConcatProperties
  <2>5. ASSUME NEW i \in 1..m PROVE (old \o new)[n + i] = new[i]
    <3>1. n + i \in 1..(Len(old) + Len(new)) /\ ~(n + i <= Len(old)) /\ (n + i) - Len(old) = i
      BY <1>1, <2>1
    <3>2. QED
      BY <2>1, <3>1, ConcatProperties
  <2>6. QED
    BY <2>2, <2>3, <2>4, <2>5 DEF old, new
<1>5. /\ places \in [1..(n + 1) -> Places]
      /\ \A i \in 1..n : HoldsPlace(queue[i], places[i]) /\ places[i + 1] = After(places[i])
      /\ places[n + 1] = <<k, 1>>
  BY <1>0 DEF Tracks
<1>6. /\ \A i \in 1..n : after[i] = places[i]
      /\ \A i \in 1..m : after[n + i] = <<k, i>>
      /\ after[n + m + 1] = <<k + 1, 1>>
  BY <1>1
<1>7. after[n + 1] = places[n + 1]
  BY <1>1, <1>5, <1>6
<1>8. after \in [1..(n + m + 1) -> Places]
  <2>1. ASSUME NEW i \in 1..(n + m + 1) PROVE after[i] \in Places
    <3>1. CASE i <= n
      BY <1>1, <1>5, <3>1
    <3>2. CASE i > n /\ i <= n + m
      <4>1. after[i] = <<k, i - n>> /\ i - n \in Nat \ {0}
        BY <1>1, <3>2
      <4>2. QED
        BY <1>1, <4>1 DEF Places
    <3>3. CASE i = n + m + 1
      <4>1. after[i] = <<k + 1, 1>>
        BY <1>6, <3>3
      <4>2. k + 1 \in Nat \ {0} /\ 1 \in Nat \ {0}
        BY <1>1
      <4>3. <<k + 1, 1>> \in Places
        BY <4>2 DEF Places
      <4>4. QED
        BY <4>1, <4>3
    <3>4. i <= n \/ (i > n /\ i <= n + m) \/ i = n + m + 1
      BY <1>1
    <3>5. QED
      BY <3>1, <3>2, <3>3, <3>4
  <2>2. QED
    BY <2>1
<1> HIDE DEF after
<1>9. ASSUME NEW i \in 1..n
      PROVE  HoldsPlace(queue[i], after[i])' /\ after[i + 1] = After(after[i])'
  <2>1. /\ places[i] \in Places /\ HoldsPlace(queue[i], places[i])
        /\ places[i + 1] = After(places[i])
    BY <1>1, <1>5
  <2>2. places[i][1] \in 1..Len(sent.reliable)
    BY <2>1 DEF HoldsPlace
  <2>3. PICK part : part = queue[i]
    OBVIOUS
  <2>31. HoldsPlace(part, places[i])' /\ After(places[i])' = After(places[i])
    BY <1>1, <2>1, <2>2, <2>3, PlacesStay
  <2>4. after[i] = places[i] /\ after[i + 1] = places[i + 1]
    <3>1. CASE i < n
      BY <1>1, <1>6, <3>1
    <3>2. CASE i = n
      BY <1>6, <1>7, <3>2
    <3>3. QED
      BY <1>1, <3>1, <3>2
  <2>5. queue'[i] = queue[i]
    BY <1>4
  <2>6. QED
    BY <2>1, <2>3, <2>31, <2>4, <2>5
<1>10. ASSUME NEW i \in 1..m
       PROVE  HoldsPlace(queue[n + i], after[n + i])' /\ after[n + i + 1] = After(after[n + i])'
  <2>1. after[n + i] = <<k, i>> /\ queue'[n + i] = Parts(bytes)[i]
    BY <1>4, <1>6
  <2>2. HoldsPlace(queue[n + i], <<k, i>>)'
    <3>1. k \in 1..Len(sent'.reliable) /\ i \in 1..Len(Parts(bytes))
      BY <1>0, <1>1, <1>2
    <3>2. QED
      BY <1>3, <2>1, <3>1 DEF HoldsPlace
  <2>3. After(<<k, i>>)' = IF i < m THEN <<k, i + 1>> ELSE <<k + 1, 1>>
    BY <1>0, <1>3 DEF After
  <2>4. after[n + i + 1] = IF i < m THEN <<k, i + 1>> ELSE <<k + 1, 1>>
    <3>1. CASE i < m
      <4>1. i + 1 \in 1..m /\ n + (i + 1) = n + i + 1
        BY <1>1, <3>1
      <4>2. after[n + (i + 1)] = <<k, i + 1>>
        BY <1>6, <4>1
      <4>3. QED
        BY <3>1, <4>1, <4>2
    <3>2. CASE i = m
      <4>1. ~(i < m) /\ n + i + 1 = n + m + 1
        BY <1>1, <3>2
      <4>2. QED
        BY <1>6, <4>1
    <3>3. QED
      BY <1>1, <3>1, <3>2
  <2>5. QED
    BY <2>1, <2>2, <2>3, <2>4
<1>11. ASSUME NEW i \in 1..Len(queue')
       PROVE  HoldsPlace(queue[i], after[i])' /\ after[i + 1] = After(after[i])'
  <2>1. CASE i <= n
    BY <1>1, <1>9, <2>1
  <2>2. CASE i > n
    <3>1. i - n \in 1..m /\ n + (i - n) = i
      BY <1>1, <1>4, <2>2
    <3>2. QED
      BY <1>10, <3>1
  <2>3. QED
    BY <1>1, <1>4, <2>1, <2>2
<1>12. after[1] = places[1]
  BY <1>1, <1>6, <1>7
<1>13. Tracks(after)'
  BY <1>1, <1>2, <1>4, <1>6, <1>8, <1>11 DEF Tracks
<1>14. QED
  BY <1>12, <1>13

LEMMA SendKeeps ==
    ASSUME IInv, NEW length \in Lengths, NEW mask \in Masks, Send(length, mask)
    PROVE  IInv'
<1>1. PICK bytes : bytes = Bytes(<<mask, Len(sent[mask]) + 1>>, length)
  OBVIOUS
<1>2. TypeOK /\ TypeOK'
  BY SendTypes DEF IInv
<1>3. /\ sent.reliable \in Seq(Seq(Byte)) /\ sent.unreliable \in Seq(Seq(Byte))
      /\ sent \in [Masks -> Seq(Seq(Byte))]
      /\ sent[mask] \in Seq(Seq(Byte))
  BY <1>2 DEF TypeOK, Masks
<1>4. bytes \in Seq(Byte) /\ Len(bytes) = length
  BY <1>1, <1>3, BytesType, SplitAssumption
<1>5. /\ sent' = [sent EXCEPT ![mask] = Append(@, bytes)]
      /\ UNCHANGED receiver
  BY <1>1 DEF Send
<1>6. \/ mask = "reliable" /\ queue' = queue \o Parts(bytes) /\ UNCHANGED unreliable
      \/ mask = "unreliable" /\ U!SendUnreliable(Parts(bytes)) /\ UNCHANGED queue
  BY <1>1 DEF Send
<1>7. SUFFICES ASSUME ~UnreliableSplit', CountsFit' PROVE InOrder'
  BY <1>2 DEF IInv
<1>8. CASE mask = "reliable"
  <2>1. /\ sent'.reliable = Append(sent.reliable, bytes)
        /\ sent'.unreliable = sent.unreliable
        /\ queue' = queue \o Parts(bytes)
        /\ UNCHANGED unreliable
    BY <1>3, <1>5, <1>6, <1>8 DEF Masks
  <2>2. CountsFit
    <3>1. /\ DOMAIN sent.reliable \subseteq DOMAIN sent'.reliable
          /\ \A i \in DOMAIN sent.reliable : sent'.reliable[i] = sent.reliable[i]
      BY <1>3, <1>4, <2>1, AppendProperties
    <3>2. QED
      BY <1>7, <3>1 DEF CountsFit
  <2>3. InOrder
    BY <1>7, <2>1, <2>2 DEF IInv, UnreliableSplit
  <2>4. ~smashed' /\ UnreliableWhole'
    BY <1>5, <2>1, <2>3 DEF InOrder, receiver, unreliable, UnreliableWhole
  <2>5. PassedOnInOrder'
    <3>1. /\ Len(sent'.reliable) = Len(sent.reliable) + 1 /\ Len(sent.reliable) \in Nat
          /\ \A i \in 1..Len(sent.reliable) : sent'.reliable[i] = sent.reliable[i]
      BY <1>3, <1>4, <2>1, AppendProperties
    <3>2. received' = received /\ Len(received.reliable) \in Nat
      BY <1>2, <1>5 DEF receiver, TypeOK, Masks
    <3>3. QED
      BY <2>3, <3>1, <3>2 DEF InOrder, PassedOnInOrder
  <2>6. PICK places : Tracks(places) /\ ReceiverAt(places[1])
    BY <2>3 DEF InOrder
  <2>7. PICK after : Tracks(after)' /\ after[1] = places[1]
    BY <1>2, <1>4, <2>1, <2>6, SendTracks
  <2>8. PICK place : place = places[1]
    OBVIOUS
  <2>9. ReceiverAt(place)'
    <3>1. place \in Places /\ place[1] \in Nat /\ place[2] \in Nat
      <4>1. Len(queue) \in Nat
        BY <1>2 DEF TypeOK
      <4>2. QED
        BY <2>6, <2>8, <4>1 DEF Tracks, Places
    <3>2. CASE place[2] = 1
      BY <1>5, <2>6, <2>8, <3>2 DEF ReceiverAt, receiver
    <3>3. CASE place[2] > 1
      <4>1. place[1] \in 1..Len(sent.reliable)
        <5>1. Len(queue) \in Nat
          BY <1>2 DEF TypeOK
        <5>2. queue # <<>> /\ 1 \in 1..Len(queue)
          BY <1>2, <2>6, <2>8, <3>3, <5>1 DEF Tracks
        <5>3. QED
          BY <2>6, <2>8, <5>2 DEF Tracks, HoldsPlace
      <4>2. sent'.reliable[place[1]] = sent.reliable[place[1]]
        BY <1>3, <1>4, <2>1, <3>1, <4>1, PlacesStay
      <4>3. QED
        BY <1>5, <2>6, <2>8, <3>1, <4>2 DEF ReceiverAt, receiver
    <3>4. QED
      BY <3>1, <3>2, <3>3 DEF Places
  <2>10. QED
    BY <2>4, <2>5, <2>7, <2>8, <2>9 DEF InOrder
<1>9. CASE mask = "unreliable"
  <2>1. /\ sent'.unreliable = Append(sent.unreliable, bytes)
        /\ sent'.reliable = sent.reliable
        /\ U!SendUnreliable(Parts(bytes)) /\ UNCHANGED queue
    BY <1>3, <1>5, <1>6, <1>9 DEF Masks
  <2>2. CountsFit
    BY <1>7, <2>1 DEF CountsFit
  <2>3. /\ Len(sent'.unreliable) = Len(sent.unreliable) + 1 /\ Len(sent.unreliable) \in Nat
        /\ \A i \in 1..Len(sent.unreliable) : sent'.unreliable[i] = sent.unreliable[i]
        /\ sent'.unreliable[Len(sent.unreliable) + 1] = bytes
        /\ DOMAIN sent.unreliable = 1..Len(sent.unreliable)
        /\ DOMAIN sent'.unreliable = 1..Len(sent'.unreliable)
    BY <1>3, <1>4, <2>1, AppendProperties
  <2>4. ~UnreliableSplit /\ ~(MessageCount(Len(bytes)) > 1)
    <3>1. \A i \in 1..Len(sent'.unreliable) : ~(MessageCount(Len(sent'.unreliable[i])) > 1)
      BY <1>7, <2>3 DEF UnreliableSplit
    <3>2. \A i \in 1..Len(sent.unreliable) : ~(MessageCount(Len(sent.unreliable[i])) > 1)
      BY <2>3, <3>1
    <3>3. QED
      BY <2>3, <3>1, <3>2 DEF UnreliableSplit
  <2>5. InOrder
    BY <2>2, <2>4 DEF IInv
  <2>6. Range(sent.unreliable) \subseteq Range(sent'.unreliable)
        /\ bytes \in Range(sent'.unreliable)
    BY <2>3 DEF Range
  <2>7. Len(Parts(bytes)) = 1 /\ Parts(bytes)[1] = Whole(bytes)[1]
    <3>1. MessageCount(Len(bytes)) \in Nat
      BY <1>4, MessageCountFacts
    <3>2. QED
      BY <1>4, <2>4, <3>1, PartsFacts
  <2>8. \A m \in unrelNet' :
           m \in unrelNet \/ (~m.payload.isControl /\ m.payload.bytes = bytes)
    <3>1. PICK kept \in 0..Len(Parts(bytes)) :
            unrelNet' = unrelNet \cup
                {[index |-> (FirstUnreliable + unrelSent + i - 1) % Modulus,
                  payload |-> Parts(bytes)[i]] : i \in 1..kept}
      BY <2>1 DEF U!SendUnreliable
    <3>2. \A i \in 1..kept : i = 1
      BY <2>7
    <3>3. QED
      BY <2>7, <3>1, <3>2 DEF Whole
  <2>9. UnreliableWhole'
    BY <1>5, <2>5, <2>6, <2>8 DEF InOrder, UnreliableWhole, receiver
  <2>10. PICK places : Tracks(places) /\ ReceiverAt(places[1])
    BY <2>5 DEF InOrder
  <2>11. Tracks(places)' /\ ReceiverAt(places[1])'
    BY <1>5, <2>1, <2>10
       DEF Tracks, HoldsPlace, After, SentParts, ReceiverAt, receiver
  <2>12. ~smashed' /\ PassedOnInOrder'
    BY <1>5, <2>1, <2>5 DEF InOrder, PassedOnInOrder, receiver
  <2>13. QED
    BY <2>9, <2>11, <2>12 DEF InOrder
<1>10. QED
  BY <1>8, <1>9 DEF Masks

LEMMA RecvReliableKeeps ==
    ASSUME IInv, TypeOK', RecvReliable
    PROVE  IInv'
<1>1. /\ UNCHANGED <<sent, unreliable>> /\ queue' = Tail(queue) /\ queue # <<>>
      /\ Recv(Head(queue), "reliable")
  BY DEF RecvReliable
<1>2. UnreliableSplit' = UnreliableSplit /\ CountsFit' = CountsFit
  BY <1>1 DEF UnreliableSplit, CountsFit
<1>3. SUFFICES ASSUME ~UnreliableSplit, CountsFit PROVE InOrder'
  BY <1>2 DEF IInv
<1>4. InOrder /\ TypeOK
  BY <1>3 DEF IInv
<1>5. PICK places : Tracks(places) /\ ReceiverAt(places[1])
  BY <1>4 DEF InOrder
<1>6. PICK n : n = Len(queue)
  OBVIOUS
<1>7. /\ n \in Nat /\ n >= 1 /\ Len(queue') = n - 1
      /\ Head(queue) = queue[1]
      /\ \A i \in 1..(n - 1) : queue'[i] = queue[i + 1]
  <2>1. queue \in Seq(Part)
    BY <1>4 DEF TypeOK
  <2>2. QED
    BY <1>1, <1>6, <2>1, HeadTailProperties
<1>8. /\ places \in [1..(n + 1) -> Places]
      /\ \A i \in 1..n : HoldsPlace(queue[i], places[i]) /\ places[i + 1] = After(places[i])
      /\ places[n + 1] = <<Len(sent.reliable) + 1, 1>>
  BY <1>5, <1>6 DEF Tracks
<1>9. PICK place : place = places[1]
  OBVIOUS
<1>10. /\ ~smashed' /\ PassedOnInOrder'
       /\ received'.unreliable = received.unreliable
       /\ ReceiverAt(After(place))'
  <2>1. HoldsPlace(Head(queue), place) /\ ReceiverAt(place) /\ place \in Places
    BY <1>5, <1>7, <1>8, <1>9
  <2>2. QED
    BY <1>1, <1>3, <2>1, RecvInPlace
<1>11. UnreliableWhole'
  BY <1>1, <1>4, <1>10 DEF InOrder, UnreliableWhole, unreliable
<1> DEFINE after == [i \in 1..n |-> places[i + 1]]
<1>12. Tracks(after)'
  <2>1. after \in [1..n -> Places]
    BY <1>7, <1>8
  <2>2. ASSUME NEW i \in 1..(n - 1)
        PROVE  HoldsPlace(queue[i], after[i])' /\ after[i + 1] = After(after[i])'
    <3>1. i + 1 \in 1..n /\ i \in 1..n
      BY <1>7
    <3>2. after[i] = places[i + 1] /\ after[i + 1] = places[i + 1 + 1]
      BY <3>1
    <3>3. HoldsPlace(queue[i + 1], places[i + 1]) /\ places[i + 1 + 1] = After(places[i + 1])
      BY <1>8, <3>1
    <3>4. queue'[i] = queue[i + 1]
      BY <1>7
    <3>5. HoldsPlace(queue[i], places[i + 1])' /\ After(places[i + 1])' = After(places[i + 1])
      BY <1>1, <3>3, <3>4 DEF HoldsPlace, SentParts, After
    <3> HIDE DEF after
    <3>6. QED
      BY <3>2, <3>3, <3>5
  <2>3. after[n] = <<Len(sent'.reliable) + 1, 1>>
    BY <1>1, <1>7, <1>8
  <2> HIDE DEF after
  <2>4. Len(queue') + 1 = n
    BY <1>7
  <2>5. QED
    BY <1>7, <2>1, <2>2, <2>3, <2>4 DEF Tracks
<1>13. ReceiverAt(after[1])'
  <2>1. after[1] = After(place) /\ After(place)' = After(place)
    <3>1. 1 \in 1..n
      BY <1>7
    <3>2. after[1] = places[1 + 1] /\ places[1 + 1] = After(places[1])
      BY <1>8, <3>1
    <3>3. After(place)' = After(place)
      BY <1>1 DEF After, SentParts
    <3>4. QED
      BY <1>9, <3>2, <3>3
  <2>2. PICK next : next = After(place)
    OBVIOUS
  <2>3. ReceiverAt(next)'
    BY <1>10, <2>1, <2>2 DEF ReceiverAt
  <2>4. QED
    BY <2>1, <2>2, <2>3
<1> HIDE DEF after
<1>14. QED
  BY <1>10, <1>11, <1>12, <1>13 DEF InOrder

LEMMA RecvUnreliableKeeps ==
    ASSUME IInv, TypeOK', NEW m \in unrelNet, RecvUnreliable(m)
    PROVE  IInv'
<1>1. /\ UNCHANGED <<sent, queue>> /\ unrelNet' \subseteq unrelNet
      /\ IF U!PassedOn(m) THEN Recv(m.payload, "unreliable") ELSE UNCHANGED receiver
  BY DEF RecvUnreliable, U!RecvUnreliable
<1>2. UnreliableSplit' = UnreliableSplit /\ CountsFit' = CountsFit
  BY <1>1 DEF UnreliableSplit, CountsFit
<1>3. SUFFICES ASSUME ~UnreliableSplit, CountsFit PROVE InOrder'
  BY <1>2 DEF IInv
<1>4. InOrder /\ TypeOK
  BY <1>3 DEF IInv
<1>5. ~m.payload.isControl /\ m.payload.bytes \in Range(sent.unreliable)
  BY <1>4 DEF InOrder, UnreliableWhole
<1>6. /\ \/ received' = received
         \/ received' = [received EXCEPT !["unreliable"] = Append(@, m.payload.bytes)]
      /\ UNCHANGED <<pendingCount, assembly, smashed>>
  <2>1. CASE U!PassedOn(m)
    BY <1>1, <1>5, <2>1 DEF Recv, RecvWhole, RecvAnnounce, RecvChunk
  <2>2. CASE ~U!PassedOn(m)
    BY <1>1, <2>2 DEF receiver
  <2>3. QED
    BY <2>1, <2>2
<1>7. received'.reliable = received.reliable
  BY <1>4, <1>6 DEF TypeOK, Masks
<1>8. \A i \in 1..Len(received'.unreliable) : received'.unreliable[i] \in Range(sent.unreliable)
  <2>1. received.unreliable \in Seq(Seq(Byte)) /\ m.payload.bytes \in Seq(Byte)
    BY <1>4 DEF TypeOK, Part, Masks
  <2>2. \A i \in 1..Len(received.unreliable) : received.unreliable[i] \in Range(sent.unreliable)
    BY <1>4 DEF InOrder, UnreliableWhole
  <2>3. CASE received' = received
    BY <2>2, <2>3
  <2>4. CASE received' = [received EXCEPT !["unreliable"] = Append(@, m.payload.bytes)]
    <3>1. received'.unreliable = Append(received.unreliable, m.payload.bytes)
      BY <1>4, <2>4 DEF TypeOK, Masks
    <3>2. \A i \in 1..Len(received'.unreliable) :
             \/ i \in 1..Len(received.unreliable) /\ received'.unreliable[i] = received.unreliable[i]
             \/ received'.unreliable[i] = m.payload.bytes
      BY <2>1, <3>1, AppendProperties
    <3>3. QED
      BY <1>5, <2>2, <3>2
  <2>5. QED
    BY <1>6, <2>3, <2>4
<1>9. UnreliableWhole'
  BY <1>1, <1>4, <1>8 DEF InOrder, UnreliableWhole
<1>10. ~smashed' /\ PassedOnInOrder'
  BY <1>1, <1>4, <1>6, <1>7 DEF InOrder, PassedOnInOrder
<1>11. PICK places : Tracks(places) /\ ReceiverAt(places[1])
  BY <1>4 DEF InOrder
<1>12. Tracks(places)' /\ ReceiverAt(places[1])'
  BY <1>1, <1>6, <1>7, <1>11 DEF Tracks, HoldsPlace, After, SentParts, ReceiverAt
<1>13. QED
  BY <1>9, <1>10, <1>12 DEF InOrder

LEMMA Invariance ==
    Spec => []IInv
<1>1. Init => IInv
  <2> SUFFICES ASSUME Init, TypeOK PROVE IInv
    BY InitTypes
  <2>1. /\ sent.reliable = <<>> /\ sent.unreliable = <<>> /\ queue = <<>>
        /\ received.reliable = <<>> /\ received.unreliable = <<>>
        /\ sent = [mask \in Masks |-> <<>>]
        /\ unrelNet = {} /\ pendingCount = 0 /\ smashed = FALSE
    BY DEF Init, U!InitUnreliable, Masks
  <2>3. ~smashed /\ PassedOnInOrder /\ UnreliableWhole
    BY <2>1 DEF PassedOnInOrder, UnreliableWhole
  <2> DEFINE start == [i \in 1..1 |-> <<1, 1>>]
  <2>4. Tracks(start) /\ ReceiverAt(start[1])
    BY <2>1 DEF Tracks, ReceiverAt, Places
  <2>5. QED
    BY <2>3, <2>4 DEF IInv, InOrder
<1>2. IInv /\ [Next]_vars => IInv'
  <2> SUFFICES ASSUME IInv, [Next]_vars PROVE IInv'
    OBVIOUS
  <2>1. TypeOK'
    BY NextTypes DEF IInv
  <2>2. ASSUME NEW length \in Lengths, NEW mask \in Masks, Send(length, mask)
        PROVE  IInv'
    BY <2>2, SendKeeps
  <2>3. CASE RecvReliable
    BY <2>1, <2>3, RecvReliableKeeps
  <2>4. ASSUME NEW m \in unrelNet, RecvUnreliable(m) PROVE IInv'
    BY <2>1, <2>4, RecvUnreliableKeeps
  <2>5. CASE LoseUnreliable
    <3>1. unrelNet' \subseteq unrelNet /\ UNCHANGED <<sent, queue, receiver>>
      BY <2>5 DEF LoseUnreliable, U!LoseUnreliable
    <3>2. QED
      BY <2>1, <3>1
         DEF IInv, CountsFit, UnreliableSplit, InOrder, PassedOnInOrder, UnreliableWhole,
             Tracks, HoldsPlace, After, SentParts, ReceiverAt, receiver
  <2>6. CASE UNCHANGED vars
    BY <2>1, <2>6
       DEF IInv, CountsFit, UnreliableSplit, InOrder, PassedOnInOrder, UnreliableWhole,
           Tracks, HoldsPlace, After, SentParts, ReceiverAt, receiver, unreliable, vars
  <2>7. QED
    BY <2>2, <2>3, <2>4, <2>5, <2>6 DEF Next
<1>3. QED
  BY <1>1, <1>2, PTL DEF Spec

-----------------------------------------------------------------------------
(* What the invariant gives. *)

\* While no unreliable message is split and the counts of the messages sent fit
\* MsgCountOrIndex, what is passed on as reliable is the messages sent so, whole
\* and in order, and what is passed on as unreliable was sent so.
THEOREM MessagesStayIntact == Spec => [](CountsFit => MessagesIntact)
<1>1. IInv => (CountsFit => MessagesIntact)
  <2> SUFFICES ASSUME IInv, CountsFit, ~UnreliableSplit
               PROVE  /\ IsPrefix(received.reliable, sent.reliable)
                      /\ Range(received.unreliable) \subseteq Range(sent.unreliable)
    BY DEF MessagesIntact
  <2>1. TypeOK /\ PassedOnInOrder /\ UnreliableWhole
    BY DEF IInv, InOrder
  <2>2. /\ received.reliable \in Seq(Seq(Byte)) /\ sent.reliable \in Seq(Seq(Byte))
        /\ received.unreliable \in Seq(Seq(Byte))
    BY <2>1 DEF TypeOK, Masks
  <2>3. IsPrefix(received.reliable, sent.reliable)
    <3> DEFINE s == received.reliable
               t == sent.reliable
    <3>1. s \in Seq(Seq(Byte)) /\ t \in Seq(Seq(Byte)) /\ Len(s) <= Len(t)
          /\ \A i \in 1..Len(s) : s[i] = t[i]
      BY <2>1, <2>2 DEF PassedOnInOrder
    <3> HIDE DEF s, t
    <3>2. SubSeq(s, 1, Len(s)) = SubSeq(t, 1, Len(s))
      <4>1. Len(s) \in Nat /\ Len(t) \in Nat
        BY <3>1
      <4>2. /\ SubSeq(s, 1, Len(s)) = [i \in 1..Len(s) |-> s[i]]
            /\ SubSeq(t, 1, Len(s)) = [i \in 1..Len(s) |-> t[i]]
        BY <3>1, <4>1
      <4>3. [i \in 1..Len(s) |-> s[i]] = [i \in 1..Len(s) |-> t[i]]
        BY <3>1
      <4>4. QED
        BY <4>2, <4>3
    <3>3. QED
      BY <3>1, <3>2 DEF IsPrefix, s, t
  <2>4. Range(received.unreliable) \subseteq Range(sent.unreliable)
    <3>1. DOMAIN received.unreliable = 1..Len(received.unreliable)
      BY <2>2
    <3>2. QED
      BY <2>1, <3>1 DEF UnreliableWhole, Range
  <2>5. QED
    BY <2>3, <2>4
<1>2. QED
  BY <1>1, Invariance, PTL

\* Under the same conditions no copy goes astray, and an empty ordered channel
\* leaves nothing half assembled.
THEOREM NothingLeftBehind == Spec => []AllDeliveredWhenDrained
<1>1. IInv => AllDeliveredWhenDrained
  <2> SUFFICES ASSUME IInv, ~UnreliableSplit, CountsFit, queue = <<>> \/ smashed
               PROVE  Len(received.reliable) = Len(sent.reliable) /\ pendingCount = 0
    BY DEF AllDeliveredWhenDrained, Drained, AllPassed
  <2>1. InOrder /\ TypeOK
    BY DEF IInv
  <2>2. queue = <<>> /\ Len(queue) = 0
    BY <2>1 DEF InOrder
  <2>3. PICK places : Tracks(places) /\ ReceiverAt(places[1])
    BY <2>1 DEF InOrder
  <2>4. places[1] = <<Len(sent.reliable) + 1, 1>>
    BY <2>2, <2>3 DEF Tracks
  <2>5. Len(sent.reliable) \in Nat /\ Len(received.reliable) \in Nat
    BY <2>1 DEF TypeOK, Masks
  <2>6. QED
    BY <2>3, <2>4, <2>5 DEF ReceiverAt
<1>2. QED
  BY <1>1, Invariance, PTL
=============================================================================
