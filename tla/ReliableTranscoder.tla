------------------------ MODULE ReliableTranscoder -------------------------
(***************************************************************************)
(* One direction of the reliable channel between two ReliabilityTranscoder *)
(* objects (SPPNetworking/SPPNetworkMessenger.cpp): a sender that keeps    *)
(* every message until it is acknowledged, a receiver that delivers in     *)
(* index order and stores what arrives early, and a datagram network that  *)
(* loses, duplicates and reorders.  The other direction is the mirror.     *)
(*                                                                         *)
(* A message is known by its number: the n-th reliable Send makes message  *)
(* n.  The code sees only the 16-bit index Wire(n), and every decision     *)
(* below is taken on wire indices through DistanceToIndex.  Both of the    *)
(* code's lists are kept in index order, so they are sets here; the        *)
(* lists and the loops that walk them are module ReliabilityLists, which   *)
(* refines this one.                                                       *)
(***************************************************************************)
EXTENDS Integers, FiniteSets

CONSTANTS Modulus,          \* 2^16 in the code: indices are uint16_t
          FirstIndex,       \* 65500 in the code
          BehindThreshold,  \* RELIABLE_BEHIND_THRESHOLD, 17000 in the code
          Window,           \* environment: the span of messages in flight
          Lag,              \* environment: how stale a datagram may arrive
          MaxMessages,      \* bound: messages sent in a behaviour
          MaxAcks           \* bound: acknowledgements in the network

\* The largest distance DistanceToIndex tells from its negative:
\* std::numeric_limits< uint16_t >::max() / 2.
HalfRange == (Modulus - 1) \div 2

\* The code has no send window: the comment above DistanceToIndex hopes that
\* the peers are never 32k messages apart.  Window and Lag state that hope.
ASSUME ConstantsAssumption ==
    /\ Modulus \in Nat \ {0, 1}
    /\ FirstIndex \in 0..(Modulus - 1)
    /\ BehindThreshold \in Nat
    /\ Window \in 1..HalfRange
    /\ Lag \in 0..HalfRange
    /\ MaxMessages \in Nat
    /\ MaxAcks \in Nat

VARIABLES
    next,       \* sender: number of the next message; _outGoingIndices.Reliable
    unacked,    \* sender: messages in _outgoingReliableMessages
    hasSent,    \* sender: those of them with bHasSent
    overdue,    \* sender: those sent more than 300 ms ago
    dataNet,    \* network: messages in flight
    ackNet,     \* network: acknowledgements in flight
    expected,   \* receiver: number awaited; _incomingIndices.Reliable
    stored,     \* receiver: messages in _incomingReliableMessages
    delivered,  \* receiver: what was passed to the transcoder above, in order
    open        \* receiver: its connection has not closed down

sender   == <<next, unacked, hasSent, overdue>>
receiver == <<expected, stored, delivered, open>>
network  == <<dataNet, ackNet>>
vars     == <<sender, receiver, network>>

-----------------------------------------------------------------------------
(* Definitions named Faulty... are a slip the code might have had in place  *)
(* of the definition that follows; with it, a property below must fail.    *)

FaultyWire(n) == (FirstIndex + n - 1) % (Modulus \div 2)

\* The index message n carries; n = 0 is the index before the first.
Wire(n) == (FirstIndex + n - 1) % Modulus

DistanceToIndex(new, cur) ==
    LET ahead == new - cur
        down  == IF ahead > HalfRange THEN ahead - Modulus ELSE ahead
    IN  IF down < -HalfRange THEN down + Modulus ELSE down

Init ==
    /\ next = 1
    /\ unacked = {} /\ hasSent = {} /\ overdue = {}
    /\ dataNet = {} /\ ackNet = {}
    /\ expected = 1
    /\ stored = {}
    /\ delivered = [k \in 1..0 |-> k]
    /\ open = TRUE

-----------------------------------------------------------------------------
(* Sender. *)

\* ReliabilityTranscoder::Send of a reliable message: it is only queued, the
\* next Update puts it on the wire.
Send ==
    /\ next <= MaxMessages
    /\ \A n \in unacked : next - n < Window
    /\ next' = next + 1
    /\ unacked' = unacked \cup {next}
    /\ UNCHANGED <<hasSent, overdue, network, receiver>>

\* Update sends the messages without bHasSent in list order and breaks off
\* when the connection is saturated, which may be before the first.
SendUpdate(batch) ==
    /\ batch \subseteq unacked \ hasSent
    /\ \A n \in batch, m \in unacked \ hasSent : m < n => m \in batch
    /\ dataNet' = dataNet \cup batch
    /\ hasSent' = hasSent \cup batch
    /\ UNCHANGED <<next, unacked, overdue, ackNet, receiver>>

\* More than 300 ms have gone by since each message of the group was sent.
PassTime(group) ==
    /\ group # {}
    /\ group \subseteq hasSent \ overdue
    /\ overdue' = overdue \cup group
    /\ UNCHANGED <<next, unacked, hasSent, network, receiver>>

Delta(n) == DistanceToIndex(Wire(n), Wire(next))

\* The loop over _outgoingReliableMessages compares with the cumulative index
\* first.  It erases a covered message and then steps over the one after it,
\* because erase already returned that one.
FaultyCovered(last) == {n \in unacked : Delta(n) <= Delta(last) + 1}
Covered(last) == {n \in unacked : Delta(n) <= Delta(last)}
Rank(n) == Cardinality({m \in unacked : m <= n})
FaultyCleared(last) == {n \in unacked : Delta(n) < Delta(last)}
Cleared(last) == {n \in Covered(last) : Rank(n) % 2 = 1}

\* The indices after the cumulative one are read while more than one index
\* remains in the message, so the furthest stored index is never read.
Listed(have) == {h \in have : \E g \in have : h < g}
IsListed(n, have) == \E h \in Listed(have) : Wire(h) = Wire(n)

\* The messages the loop compares with listed indices: those not covered,
\* except that the same step passes over the first of them when the last
\* covered message was erased without being the cumulative index itself.
StepsOver(last) ==
    /\ Cardinality(Covered(last)) % 2 = 1
    /\ \A n \in unacked : Wire(n) # Wire(last)
Walked(last) ==
    {n \in unacked \ Covered(last) :
        StepsOver(last) => \E m \in unacked \ Covered(last) : m < n}

\* Walked messages that lie before a listed index are to be sent again, and
\* so is the first one behind the last listed index if that index is missing.
Skipped(last, have) ==
    {n \in Walked(last) :
        /\ ~IsListed(n, have)
        /\ \E h \in Listed(have) :
              \/ Delta(n) < Delta(h)
              \/ /\ \A m \in Walked(last) :
                       Wire(m) # Wire(h) /\ (Delta(h) < Delta(m) => n <= m)
                 /\ \A g \in Listed(have) : g <= h}

Acknowledged(a) ==
    Cleared(a.last) \cup {n \in Walked(a.last) : IsListed(n, a.have)}

FaultyRecvAckNoTimer(a) ==
    /\ a \in ackNet
    /\ next - a.last <= Lag
    /\ unacked' = unacked \ Acknowledged(a)
    /\ hasSent' = (hasSent \cap unacked') \ Skipped(a.last, a.have)
    /\ overdue' = overdue \cap hasSent'
    /\ ackNet' \in {ackNet, ackNet \ {a}}
    /\ UNCHANGED <<next, dataNet, receiver>>

FaultyRecvAckKeepsSent(a) ==
    /\ a \in ackNet
    /\ next - a.last <= Lag
    /\ unacked' = unacked \ Acknowledged(a)
    /\ hasSent' = hasSent \ (Skipped(a.last, a.have) \cup overdue)
    /\ overdue' = {}
    /\ ackNet' \in {ackNet, ackNet \ {a}}
    /\ UNCHANGED <<next, dataNet, receiver>>

\* The ack branch of ReliabilityTranscoder::Recv.
RecvAck(a) ==
    /\ a \in ackNet
    /\ next - a.last <= Lag
    /\ unacked' = unacked \ Acknowledged(a)
    /\ hasSent' = (hasSent \cap unacked') \ (Skipped(a.last, a.have) \cup overdue)
    /\ overdue' = {}
    /\ ackNet' \in {ackNet, ackNet \ {a}}
    /\ UNCHANGED <<next, dataNet, receiver>>

-----------------------------------------------------------------------------
(* Receiver. *)

\* Message n reaches ReliabilityTranscoder::Recv; a datagram that stays in
\* the network is a duplicate still to come.
Arrives(n) ==
    /\ n \in dataNet
    /\ open
    /\ next - n <= Lag
    /\ dataNet' \in {dataNet, dataNet \ {n}}

ArrivalDelta(n) == DistanceToIndex(Wire(n), Wire(expected))

IsStored(k) == \E m \in stored : Wire(m) = Wire(k)
StoredAt(k) == CHOOSE m \in stored : Wire(m) = Wire(k)

FaultyDrainEnd(k) == k

\* The index at which the walk over the stored messages stops.
DrainEnd(k) ==
    CHOOSE d \in k..(k + Cardinality(stored)) :
        ~IsStored(d) /\ \A c \in k..(d - 1) : IsStored(c)

\* The awaited message is delivered, and behind it the stored messages that
\* follow it without a gap.
RecvExpected(n) ==
    /\ Arrives(n)
    /\ ArrivalDelta(n) = 0
    /\ LET end == DrainEnd(expected + 1)
       IN  /\ delivered' = [k \in 1..(end - 1) |->
                               IF k < expected THEN delivered[k]
                               ELSE IF k = expected THEN n ELSE StoredAt(k)]
           /\ stored' = {m \in stored : \A k \in (expected + 1)..(end - 1) : m # StoredAt(k)}
           /\ expected' = end
    /\ UNCHANGED <<open, ackNet, sender>>

FaultyRecvTooFar(n) ==
    /\ Arrives(n)
    /\ ArrivalDelta(n) \notin -(BehindThreshold \div 2)..(BehindThreshold \div 2)
    /\ open' = FALSE
    /\ UNCHANGED <<expected, stored, delivered, ackNet, sender>>

\* More than RELIABLE_BEHIND_THRESHOLD away: InConnection->CloseDown.
RecvTooFar(n) ==
    /\ Arrives(n)
    /\ ArrivalDelta(n) \notin -BehindThreshold..BehindThreshold
    /\ open' = FALSE
    /\ UNCHANGED <<expected, stored, delivered, ackNet, sender>>

FaultyRecvNewer(n) ==
    /\ Arrives(n)
    /\ ArrivalDelta(n) > 0
    /\ stored' = IF IsStored(n) THEN stored ELSE stored \cup {n}
    /\ UNCHANGED <<expected, delivered, open, ackNet, sender>>

\* A newer message is stored once.
RecvNewer(n) ==
    /\ Arrives(n)
    /\ ArrivalDelta(n) \in 1..BehindThreshold
    /\ stored' = IF IsStored(n) THEN stored ELSE stored \cup {n}
    /\ UNCHANGED <<expected, delivered, open, ackNet, sender>>

\* A message delivered before is dropped.
RecvOld(n) ==
    /\ Arrives(n)
    /\ ArrivalDelta(n) \in -BehindThreshold..(-1)
    /\ UNCHANGED <<receiver, ackNet, sender>>

FaultyRecvUpdate ==
    /\ open
    /\ Cardinality(ackNet) < MaxAcks
    /\ ackNet' = ackNet \cup {[last |-> expected, have |-> stored]}
    /\ UNCHANGED <<dataNet, receiver, sender>>

\* The acknowledgement part of Update, on every Tick of the receiver.
RecvUpdate ==
    /\ open
    /\ Cardinality(ackNet) < MaxAcks
    /\ ackNet' = ackNet \cup {[last |-> expected - 1, have |-> stored]}
    /\ UNCHANGED <<dataNet, receiver, sender>>

-----------------------------------------------------------------------------
(* Network. *)

LoseData(n) ==
    /\ n \in dataNet
    /\ dataNet' = dataNet \ {n}
    /\ UNCHANGED <<ackNet, receiver, sender>>

LoseAck(a) ==
    /\ a \in ackNet
    /\ ackNet' = ackNet \ {a}
    /\ UNCHANGED <<dataNet, receiver, sender>>

-----------------------------------------------------------------------------
Recv(n) == RecvExpected(n) \/ RecvTooFar(n) \/ RecvNewer(n) \/ RecvOld(n)

Next ==
    \/ Send
    \/ \E batch \in SUBSET (unacked \ hasSent) : SendUpdate(batch)
    \/ \E group \in SUBSET (hasSent \ overdue) : PassTime(group)
    \/ \E a \in ackNet : RecvAck(a)
    \/ \E n \in dataNet : RecvExpected(n)
    \/ \E n \in dataNet : RecvTooFar(n)
    \/ \E n \in dataNet : RecvNewer(n)
    \/ \E n \in dataNet : RecvOld(n)
    \/ RecvUpdate
    \/ \E n \in dataNet : LoseData(n)
    \/ \E a \in ackNet : LoseAck(a)

Spec == Init /\ [][Next]_vars

-----------------------------------------------------------------------------
(* Properties. *)

\* The variables hold what the code's fields can hold.
TypeOK ==
    /\ next \in Nat \ {0}
    /\ unacked \in SUBSET {n \in 1..(next - 1) : next - n <= Window}
    /\ hasSent \in SUBSET unacked
    /\ overdue \in SUBSET hasSent
    /\ dataNet \in SUBSET (1..(next - 1))
    /\ ackNet \in SUBSET [last : Nat, have : SUBSET (1..(next - 1))]
    /\ expected \in 1..next
    /\ stored \in SUBSET (1..(next - 1))
    /\ delivered \in [1..(expected - 1) -> 1..(next - 1)]
    /\ open \in BOOLEAN

\* What was passed up is message 1, 2, ... without a gap, a repetition or an
\* exchange, although indices wrap and the network repeats old datagrams.
InOrder == delivered = [k \in 1..(expected - 1) |-> k]

\* An acknowledgement clears nothing the receiver does not have: a message is
\* delivered, stored at the receiver, or still held by the sender.
NoMessageLost ==
    \A n \in 1..(next - 1) : n < expected \/ n \in stored \/ n \in unacked

\* The drain loop of Recv leaves no message behind that is next in line; one
\* left there would wait until another datagram happens to arrive.
NothingStuck == ~IsStored(expected)

\* The stored messages are newer than the awaited one, within the threshold
\* and without repetition, which bounds the size of an acknowledgement.
StoredWindow ==
    /\ \A m \in stored : m > expected /\ m - expected <= BehindThreshold
    /\ Cardinality(stored) <= BehindThreshold

\* What an acknowledgement says of the receiver stays true however late it
\* arrives: what it names was delivered, or is stored until it is.
AcksTruthful ==
    \A a \in ackNet :
        /\ a.last < expected
        /\ \A h \in a.have : h > a.last /\ (h < expected \/ h \in stored)

\* With the peers and the network inside the threshold, the receiver never
\* closes the connection over a reliable index.
NoSpuriousClose == (Window <= BehindThreshold /\ Lag <= BehindThreshold) => open

\* The channel implements in-order, exactly-once delivery.
OD == INSTANCE OrderedDelivery WITH accepted <- next - 1
ImplementsOrderedDelivery == OD!Spec

-----------------------------------------------------------------------------
(* Progress.  Tick runs Update on both peers again and again; the rate     *)
(* control of NetworkConnection::_UpdateNetworkFlow keeps a minimum rate,  *)
(* so a queue that stays unsent is sent; time passes; no datagram stays in *)
(* the network for ever; and one that is sent again and again arrives.     *)

SendAll == unacked \ hasSent # {} /\ SendUpdate(unacked \ hasSent)
AckLeaves == \E a \in ackNet : (RecvAck(a) \/ LoseAck(a)) /\ ackNet' = ackNet \ {a}
FreshAckArrives == \E a \in ackNet : a.last = expected - 1 /\ RecvAck(a)
DataArrives(n) == n \in dataNet /\ Recv(n)

FairSpec ==
    /\ Spec
    /\ WF_vars(SendAll)
    /\ SF_vars(RecvUpdate)
    /\ WF_vars(AckLeaves)
    /\ WF_vars(PassTime(hasSent \ overdue))
    /\ \A n \in 1..MaxMessages : SF_vars(DataArrives(n))
    /\ SF_vars(FreshAckArrives)

\* Every accepted message is delivered unless the connection closes, although
\* the only trigger of a retransmission is the arrival of an acknowledgement.
EventuallyDelivered ==
    \A n \in 1..MaxMessages : next > n ~> expected > n \/ ~open

\* The sender's list drains once the application stops sending: the loop that
\* steps over messages it should clear does not keep one forever.
EventuallyCleared == unacked # {} ~> unacked = {} \/ ~open
=============================================================================
