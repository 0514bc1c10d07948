-------------------------- MODULE ReliabilityLists -------------------------
(***************************************************************************)
(* ReliabilityTranscoder with the data it really keeps: uint16_t indices   *)
(* that count modulo Modulus, the two linked lists, and the loops of Recv  *)
(* and Update that walk them.  It refines ReliableTranscoder, where lists  *)
(* are sets and loops are closed formulas.  Unreliable messages share no   *)
(* state with this and are module UnreliableTranscoder.                    *)
(*                                                                         *)
(* Field "id" of a message is its payload, numbered as it was sent; field  *)
(* "ghost" of an acknowledgement is what ReliableTranscoder calls it.  No  *)
(* guard or assignment of the code's variables reads either.               *)
(***************************************************************************)
EXTENDS Integers, Sequences, SequencesExt, FiniteSets

CONSTANTS Modulus, FirstIndex, BehindThreshold, Window, Lag, MaxMessages, MaxAcks

HalfRange == (Modulus - 1) \div 2

\* As in ReliableTranscoder.
ASSUME ListsAssumption ==
    /\ Modulus \in Nat \ {0, 1}
    /\ FirstIndex \in 0..(Modulus - 1)
    /\ BehindThreshold \in Nat
    /\ Window \in 1..HalfRange
    /\ Lag \in 0..HalfRange
    /\ MaxMessages \in Nat
    /\ MaxAcks \in Nat

VARIABLES
    sentCount,   \* reliable messages accepted so far (payload of the last one)
    outIndex,    \* _outGoingIndices.Reliable
    outList,     \* _outgoingReliableMessages
    dataNet, ackNet,
    inIndex,     \* _incomingIndices.Reliable
    inList,      \* _incomingReliableMessages
    delivered,   \* payloads passed to the next transcoder
    open         \* the receiving connection has not closed down

reliableSender   == <<sentCount, outIndex, outList>>
reliableReceiver == <<inIndex, inList, delivered, open>>
vars == <<reliableSender, dataNet, ackNet, reliableReceiver>>

DistanceToIndex(new, cur) ==
    LET ahead == new - cur
        down  == IF ahead > HalfRange THEN ahead - Modulus ELSE ahead
    IN  IF down < -HalfRange THEN down + Modulus ELSE down

Successor(index) == (index + 1) % Modulus

Init ==
    /\ sentCount = 0 /\ outIndex = FirstIndex /\ outList = <<>>
    /\ dataNet = {} /\ ackNet = {}
    /\ inIndex = FirstIndex /\ inList = <<>> /\ delivered = <<>> /\ open = TRUE

-----------------------------------------------------------------------------
(* Sender. *)

SendReliable ==
    /\ sentCount < MaxMessages
    /\ \A i \in DOMAIN outList : sentCount + 1 - outList[i].id < Window
    /\ sentCount' = sentCount + 1
    /\ outList' = Append(outList, [index |-> outIndex, id |-> sentCount + 1,
                                   hasSent |-> FALSE, overdue |-> FALSE])
    /\ outIndex' = Successor(outIndex)
    /\ UNCHANGED <<dataNet, ackNet, reliableReceiver>>

\* Update: the unsent messages before place "end" go out, where IsSaturated
\* answers true or the list ends.
SendUpdate(end) ==
    LET batch == {i \in 1..end : ~outList[i].hasSent}
    IN  /\ outList' = [i \in DOMAIN outList |->
                          IF i \in batch THEN [outList[i] EXCEPT !.hasSent = TRUE]
                                         ELSE outList[i]]
        /\ dataNet' = dataNet \cup
               {[index |-> outList[i].index, id |-> outList[i].id] : i \in batch}
    /\ UNCHANGED <<sentCount, outIndex, ackNet, reliableReceiver>>

PassTime(group) ==
    /\ group # {}
    /\ \A i \in group : outList[i].hasSent /\ ~outList[i].overdue
    /\ outList' = [i \in DOMAIN outList |->
                      IF i \in group THEN [outList[i] EXCEPT !.overdue = TRUE] ELSE outList[i]]
    /\ UNCHANGED <<sentCount, outIndex, dataNet, ackNet, reliableReceiver>>

\* One round of the loop over _outgoingReliableMessages: at is the iterator,
\* ack the index in hand, rest the indices of the message not read yet.  The
\* loop is over when at is past the list, and break moves it there.
Round(s) ==
    LET entry    == s.list[s.at]
        ackDelta == DistanceToIndex(s.ack, outIndex)
        idxDelta == DistanceToIndex(entry.index, outIndex)
        erases   == (s.first /\ idxDelta <= ackDelta) \/ entry.index = s.ack
        walked   == IF erases THEN RemoveAt(s.list, s.at)
                    ELSE IF s.first THEN s.list
                    ELSE [s.list EXCEPT ![s.at] = [entry EXCEPT !.hasSent = FALSE]]
    IN  IF s.at > Len(s.list) THEN s
        ELSE IF ackDelta > idxDelta THEN [s EXCEPT !.list = walked, !.at = s.at + 1]
        ELSE IF Len(s.rest) > 1
        THEN [list |-> walked, at |-> s.at, ack |-> Head(s.rest),
              rest |-> Tail(s.rest), first |-> FALSE]
        ELSE [s EXCEPT !.list = walked, !.at = Len(walked) + 1]

\* Every round moves at or reads an index, so this many are enough.
Rounds(a) == Len(outList) + Len(a.have)

AckLoop(a) ==
    LET walk[n \in 0..Rounds(a)] ==
            IF n = 0 THEN [list |-> outList, at |-> 1, ack |-> a.index,
                           rest |-> a.have, first |-> TRUE]
            ELSE Round(walk[n - 1])
    IN  walk[Rounds(a)].list

\* Messages sent more than 300 ms ago are to be sent again.
ResendOverdue(list) ==
    [i \in DOMAIN list |->
        [list[i] EXCEPT !.hasSent = @ /\ ~list[i].overdue, !.overdue = FALSE]]

RecvAck(a) ==
    /\ a \in ackNet
    /\ sentCount + 1 - a.ghost.last <= Lag
    /\ outList' = ResendOverdue(AckLoop(a))
    /\ ackNet' = ackNet \ {a}
    /\ UNCHANGED <<sentCount, outIndex, dataNet, reliableReceiver>>

-----------------------------------------------------------------------------
(* Receiver. *)

\* The loop that delivers stored messages while the front one is awaited:
\* entry i meets the index in hand after i - 1 deliveries.
Follows(i) == DistanceToIndex(inList[i].index, (inIndex + i) % Modulus) = 0

FaultyDrained == IF inList # <<>> /\ Follows(1) THEN 1 ELSE 0

\* How many it delivers.
Drained == CHOOSE k \in 0..Len(inList) :
    /\ \A i \in 1..k : Follows(i)
    /\ k < Len(inList) => ~Follows(k + 1)

\* The loop that looks for the place of a newer message.
Place(delta) == CHOOSE p \in 1..(Len(inList) + 1) :
    /\ \A i \in 1..(p - 1) : DistanceToIndex(inList[i].index, inIndex) < delta
    /\ p <= Len(inList) => delta <= DistanceToIndex(inList[p].index, inIndex)

FaultyStore(m) == Append(inList, m)

Store(m) ==
    LET delta == DistanceToIndex(m.index, inIndex)
        p     == Place(delta)
    IN  IF p <= Len(inList) /\ DistanceToIndex(inList[p].index, inIndex) = delta
        THEN inList
        ELSE InsertAt(inList, p, m)

Magnitude(x) == IF x < 0 THEN -x ELSE x

RecvReliable(m) ==
    /\ m \in dataNet
    /\ open
    /\ sentCount + 1 - m.id <= Lag
    /\ dataNet' = dataNet \ {m}
    /\ LET delta == DistanceToIndex(m.index, inIndex)
       IN  \/ /\ delta = 0
              /\ delivered' = Append(delivered, m.id)
                                 \o [i \in 1..Drained |-> inList[i].id]
              /\ inList' = SubSeq(inList, Drained + 1, Len(inList))
              /\ inIndex' = (inIndex + 1 + Drained) % Modulus
              /\ UNCHANGED open
           \/ /\ delta # 0
              /\ Magnitude(delta) > BehindThreshold
              /\ open' = FALSE
              /\ UNCHANGED <<inIndex, inList, delivered>>
           \/ /\ delta \in 1..BehindThreshold
              /\ inList' = Store(m)
              /\ UNCHANGED <<inIndex, delivered, open>>
           \/ /\ delta < 0
              /\ Magnitude(delta) <= BehindThreshold
              /\ UNCHANGED reliableReceiver
    /\ UNCHANGED <<reliableSender, ackNet>>

RecvUpdate ==
    /\ open
    /\ Cardinality(ackNet) < MaxAcks
    /\ ackNet' = ackNet \cup
          {[index |-> (inIndex - 1) % Modulus,
            have  |-> [i \in DOMAIN inList |-> inList[i].index],
            ghost |-> [last |-> Len(delivered),
                       have |-> {inList[i].id : i \in DOMAIN inList}]]}
    /\ UNCHANGED <<dataNet, reliableSender, reliableReceiver>>

-----------------------------------------------------------------------------
(* Network. *)

Lose ==
    /\ \/ \E m \in dataNet : dataNet' = dataNet \ {m} /\ UNCHANGED ackNet
       \/ \E a \in ackNet : ackNet' = ackNet \ {a} /\ UNCHANGED dataNet
    /\ UNCHANGED <<reliableSender, reliableReceiver>>

Next ==
    \/ SendReliable
    \/ \E end \in 0..Len(outList) : SendUpdate(end)
    \/ \E group \in SUBSET DOMAIN outList : PassTime(group)
    \/ \E a \in ackNet : RecvAck(a)
    \/ \E m \in dataNet : RecvReliable(m)
    \/ RecvUpdate
    \/ Lose

Spec == Init /\ [][Next]_vars

-----------------------------------------------------------------------------
(* Properties. *)

\* Both lists stay in strictly ascending index order around the wrap: the
\* loops stop at the first entry past the index they look for and rely on it.
ListsSorted ==
    /\ \A i, j \in DOMAIN outList :
          i < j => DistanceToIndex(outList[i].index, outIndex)
                       < DistanceToIndex(outList[j].index, outIndex)
    /\ \A i, j \in DOMAIN inList :
          i < j => DistanceToIndex(inList[i].index, inIndex)
                       < DistanceToIndex(inList[j].index, inIndex)

\* The loops over the lists do what ReliableTranscoder says in closed form.
Entries == {outList[i] : i \in DOMAIN outList}
RT == INSTANCE ReliableTranscoder WITH
          next     <- sentCount + 1,
          unacked  <- {e.id : e \in Entries},
          hasSent  <- {e.id : e \in {f \in Entries : f.hasSent}},
          overdue  <- {e.id : e \in {f \in Entries : f.overdue}},
          dataNet  <- {m.id : m \in dataNet},
          ackNet   <- {a.ghost : a \in ackNet},
          expected <- Len(delivered) + 1,
          stored   <- {inList[i].id : i \in DOMAIN inList}
ImplementsReliableTranscoder == RT!Spec
=============================================================================
