---------------------------- MODULE MessageSplit ---------------------------
(***************************************************************************)
(* MessageSplitTranscoder on top of ReliabilityTranscoder: a message       *)
(* longer than IDEAL_NETWORK_MESSAGE_SIZE is announced by a control part   *)
(* and cut into numbered chunks, which the other end copies into one       *)
(* assembly buffer.  Reliable parts travel in an ordered queue, which is   *)
(* what ReliableTranscoder is shown to provide; unreliable ones travel     *)
(* through UnreliableTranscoder.  Both end in the same assembly buffer.    *)
(*                                                                         *)
(* A byte is known by the message and the place it came from.              *)
(***************************************************************************)
EXTENDS Integers, Sequences, SequencesExt

CONSTANTS ChunkSize,        \* IDEAL_NETWORK_MESSAGE_SIZE, 1024 in the code
          CountLimit,       \* 2^15: PackedMessage.MsgCountOrIndex has 15 bits
          Lengths,          \* lengths of the messages the application sends
          MaxMessages,      \* bound: messages sent in a behaviour
          MaxReceived,      \* bound: unreliable messages received, repeated ones too
          Modulus, FirstUnreliable, MaxUnreliable

ASSUME SplitAssumption ==
    /\ ChunkSize \in Nat \ {0}
    /\ CountLimit \in Nat \ {0}
    /\ Lengths \subseteq Nat
    /\ Modulus \in Nat \ {0}
    /\ FirstUnreliable \in 0..(Modulus - 1)

VARIABLES
    sent,           \* messages sent, by whether reliably, in the order of Send
    queue,          \* reliable parts on their way, in order
    unrelSent, unrelNet, inUnrel,
    pendingCount,   \* receiver: _pendingMessageCount
    assembly,       \* receiver: _pendingAssembly
    received,       \* receiver: what was passed on, by whether reliably
    smashed         \* receiver: a copy went astray, or an assertion stopped it

\* The value of IS_RELIABLE in the MsgMaskInfo a message is sent and received with.
Masks == {"reliable", "unreliable"}

unreliable == <<unrelSent, unrelNet, inUnrel>>
receiver   == <<pendingCount, assembly, received, smashed>>
vars       == <<sent, queue, unreliable, receiver>>

U == INSTANCE UnreliableTranscoder WITH Payloads <- {}

Init ==
    /\ sent = [mask \in Masks |-> <<>>] /\ queue = <<>>
    /\ U!InitUnreliable
    /\ pendingCount = 0 /\ assembly = <<>> /\ smashed = FALSE
    /\ received = [mask \in Masks |-> <<>>]

-----------------------------------------------------------------------------
(* Send. *)

\* SE_ASSERT(DataLength < MAX_MESSAGE_SIZE).
MaxMessageSize == ChunkSize * CountLimit

Bytes(id, length) == [b \in 1..length |-> <<id, b>>]

MessageCount(length) == (length + ChunkSize - 1) \div ChunkSize

\* The parts of a message; number is MsgCountOrIndex, cut to its width.
Whole(bytes) == <<[isControl |-> FALSE, number |-> 0, size |-> 0, bytes |-> bytes]>>

Announce(bytes) ==
    <<[isControl |-> TRUE, number |-> MessageCount(Len(bytes)) % CountLimit,
       size |-> Len(bytes), bytes |-> <<>>]>>

FaultyChunks(bytes) ==
    LET count == MessageCount(Len(bytes))
    IN  [c \in 1..count |->
            LET from == (count - c) * ChunkSize
                to   == IF from + ChunkSize < Len(bytes) THEN from + ChunkSize ELSE Len(bytes)
            IN  [isControl |-> TRUE, number |-> (count - c) % CountLimit,
                 size |-> to - from, bytes |-> SubSeq(bytes, from + 1, to)]]

Chunks(bytes) ==
    [c \in 1..MessageCount(Len(bytes)) |->
        LET from == (c - 1) * ChunkSize
            to   == IF from + ChunkSize < Len(bytes) THEN from + ChunkSize ELSE Len(bytes)
        IN  [isControl |-> TRUE, number |-> (c - 1) % CountLimit,
             size |-> to - from, bytes |-> SubSeq(bytes, from + 1, to)]]

Parts(bytes) ==
    IF MessageCount(Len(bytes)) > 1 THEN Announce(bytes) \o Chunks(bytes) ELSE Whole(bytes)

Send(length, mask) ==
    /\ Len(sent.reliable) + Len(sent.unreliable) < MaxMessages
    /\ length < MaxMessageSize
    /\ LET bytes == Bytes(<<mask, Len(sent[mask]) + 1>>, length)
       IN  /\ sent' = [sent EXCEPT ![mask] = Append(@, bytes)]
           /\ \/ /\ mask = "reliable"
                 /\ queue' = queue \o Parts(bytes)
                 /\ UNCHANGED unreliable
              \/ /\ mask = "unreliable"
                 /\ U!SendUnreliable(Parts(bytes))
                 /\ UNCHANGED queue
    /\ UNCHANGED receiver

-----------------------------------------------------------------------------
(* Recv.  MsgMaskInfo, whether the part came reliably, is handed on with what  *)
(* it completes.                                                               *)

\* std::vector::resize keeps what fits of the old content and fills with zeros.
Zero == <<<<"reliable", 0>>, 0>>

Resize(buffer, length) ==
    [b \in 1..length |-> IF b <= Len(buffer) THEN buffer[b] ELSE Zero]

RecvWhole(part, mask) ==
    /\ ~part.isControl
    /\ received' = [received EXCEPT ![mask] = Append(@, part.bytes)]
    /\ UNCHANGED <<pendingCount, assembly, smashed>>

\* With no message pending, a control part announces one.
RecvAnnounce(part) ==
    /\ part.isControl
    /\ pendingCount = 0
    /\ pendingCount' = part.number
    /\ assembly' = Resize(assembly, part.size)
    /\ UNCHANGED <<received, smashed>>

Overlay(buffer, at, bytes) ==
    [b \in 1..Len(buffer) |->
        IF b \in (at + 1)..(at + Len(bytes)) THEN bytes[b - at] ELSE buffer[b]]

\* A chunk is read with the size that it states.  An announcement states more
\* bytes than it carries, and MemoryView::Read asserts that they are there.
Astray(part) ==
    \/ part.size # Len(part.bytes)
    \/ part.number * ChunkSize + part.size > Len(assembly)

FaultyRecvChunk(part, mask) ==
    /\ part.isControl
    /\ pendingCount # 0
    /\ LET at     == part.number * ChunkSize
           filled == Overlay(assembly, at, part.bytes)
           last   == part.number = pendingCount - 1
       IN  /\ smashed' = Astray(part)
           /\ received' = [received EXCEPT ![mask] =
                               IF last THEN Append(@, filled) ELSE @]
           /\ UNCHANGED pendingCount
           /\ assembly' = IF last THEN <<>> ELSE filled

\* Otherwise it is taken for a chunk of the pending one: its bytes are copied
\* to their place, and the chunk with the last number completes the message.
RecvChunk(part, mask) ==
    /\ part.isControl
    /\ pendingCount # 0
    /\ LET at     == part.number * ChunkSize
           filled == Overlay(assembly, at, part.bytes)
           last   == part.number = pendingCount - 1
       IN  /\ smashed' = Astray(part)
           /\ received' = [received EXCEPT ![mask] =
                               IF last THEN Append(@, filled) ELSE @]
           /\ pendingCount' = IF last THEN 0 ELSE pendingCount
           /\ assembly' = IF last THEN <<>> ELSE filled

\* Nothing is said of the program after a copy that went astray.
Recv(part, mask) ==
    /\ ~smashed
    /\ RecvWhole(part, mask) \/ RecvAnnounce(part) \/ RecvChunk(part, mask)

RecvReliable ==
    /\ queue # <<>>
    /\ Recv(Head(queue), "reliable")
    /\ queue' = Tail(queue)
    /\ UNCHANGED <<sent, unreliable>>

RecvUnreliable(m) ==
    /\ Len(received.unreliable) < MaxReceived
    /\ U!RecvUnreliable(m)
    /\ IF U!PassedOn(m) THEN Recv(m.payload, "unreliable") ELSE UNCHANGED receiver
    /\ UNCHANGED <<sent, queue>>

LoseUnreliable ==
    /\ U!LoseUnreliable
    /\ UNCHANGED <<sent, queue, receiver>>

Next ==
    \/ \E length \in Lengths, mask \in Masks : Send(length, mask)
    \/ RecvReliable
    \/ \E m \in unrelNet : RecvUnreliable(m)
    \/ LoseUnreliable

Spec == Init /\ [][Next]_vars

-----------------------------------------------------------------------------
(* Properties. *)

Byte == (Masks \X Nat) \X Nat

Part == [isControl : BOOLEAN, number : 0..(CountLimit - 1),
         size : Nat, bytes : Seq(Byte)]

\* The counters hold what their fields can hold: the numbers of parts and
\* _pendingMessageCount 15 bits, the awaited index 16.
TypeOK ==
    /\ sent \in [Masks -> Seq(Seq(Byte))]
    /\ queue \in Seq(Part)
    /\ \A m \in unrelNet : m.index \in 0..(Modulus - 1) /\ m.payload \in Part
    /\ unrelSent \in Nat
    /\ inUnrel \in 0..(Modulus - 1)
    /\ pendingCount \in 0..(CountLimit - 1)
    /\ assembly \in Seq(Byte)
    /\ received \in [Masks -> Seq(Seq(Byte))]
    /\ smashed \in BOOLEAN

UnreliableSplit == \E i \in DOMAIN sent.unreliable : MessageCount(Len(sent.unreliable[i])) > 1

\* As long as no unreliable message is split, reliable messages arrive whole,
\* unmixed and in order, whatever unreliable messages come between their
\* chunks, and what is passed on as unreliable is a message that was sent so.
MessagesIntact ==
    ~UnreliableSplit =>
        /\ IsPrefix(received.reliable, sent.reliable)
        /\ Range(received.unreliable) \subseteq Range(sent.unreliable)

\* The counts of the messages sent reliably fit MsgCountOrIndex.
CountsFit ==
    \A i \in DOMAIN sent.reliable : MessageCount(Len(sent.reliable[i])) < CountLimit

Drained   == queue = <<>> \/ smashed
AllPassed == Len(received.reliable) = Len(sent.reliable) /\ pendingCount = 0

\* Under the same condition, and while every count fits its field, nothing is
\* left half assembled: when the ordered channel is empty, or a copy went
\* astray, every message it carried has been passed on.
AllDeliveredWhenDrained == ~UnreliableSplit /\ CountsFit /\ Drained => AllPassed

\* "SE_ASSERT(DataLength < MAX_MESSAGE_SIZE)": every message that Send lets
\* through arrives, also one of the largest number of chunks.
AdmittedLengthsArrive == ~UnreliableSplit /\ Drained => AllPassed
=============================================================================
