---------------------- MODULE ReliableTranscoderProofs ----------------------
(***************************************************************************)
(* Proofs about ReliableTranscoder for every index space, threshold,       *)
(* window and lag that ConstantsAssumption admits.  Index arithmetic comes *)
(* first: within half the index space DistanceToIndex is a subtraction.    *)
(* Then the drain loop, the inductive invariant, and what follows from it. *)
(***************************************************************************)
EXTENDS ReliableTranscoder, FiniteSetTheorems, TLAPS

-----------------------------------------------------------------------------
(* Index arithmetic. *)

\* An integer is a multiple of m and its remainder.
LEMMA Remainder ==
    ASSUME NEW m \in Nat \ {0}, NEW x \in Int
    PROVE  x % m \in 0..(m - 1) /\ \E q \in Int : x = m * q + (x % m)
<1>1. /\ x % m \in 0..(m - 1)
      /\ x \div m \in Int
      /\ x = m * (x \div m) + (x % m)
  BY SMT
<1>2. QED
  BY <1>1

\* A multiple of m strictly between -m and m is zero, and one between 0 and
\* 2m is m itself.
LEMMA SmallMultiple ==
    ASSUME NEW m \in Nat \ {0}, NEW q \in Int
    PROVE  /\ m * q < m => q <= 0
           /\ m * q > -m => q >= 0
           /\ m * q < 2 * m => q <= 1
           /\ m * q > -(2 * m) => q >= -1
<1>1. q >= 1 => m * q >= m
  BY SMT
<1>2. q <= -1 => m * q <= -m
  BY SMT
<1>3. q >= 2 => m * q >= 2 * m
  BY SMT
<1>4. q <= -2 => m * q <= -(2 * m)
  BY SMT
<1>5. QED
  BY <1>1, <1>2, <1>3, <1>4

\* The half range leaves room on both sides of an index.
LEMMA HalfRangeBound ==
    /\ HalfRange \in Nat
    /\ 2 * HalfRange < Modulus
    /\ Modulus \in Nat \ {0}
BY ConstantsAssumption DEF HalfRange

\* Wire indices differ from message numbers by a multiple of the modulus.
LEMMA WireDifference ==
    ASSUME NEW a \in Int, NEW b \in Int
    PROVE  /\ Wire(a) \in 0..(Modulus - 1)
           /\ Wire(b) \in 0..(Modulus - 1)
           /\ \E q \in Int : a - b = Modulus * q + (Wire(a) - Wire(b))
<1> DEFINE x == FirstIndex + a - 1
           y == FirstIndex + b - 1
<1>1. /\ x \in Int /\ y \in Int /\ a - b = x - y
      /\ Modulus \in Nat \ {0}
  BY ConstantsAssumption
<1>2. PICK p \in Int : x = Modulus * p + (x % Modulus)
  BY <1>1, Remainder
<1>3. PICK r \in Int : y = Modulus * r + (y % Modulus)
  BY <1>1, Remainder
<1>4. x % Modulus \in 0..(Modulus - 1) /\ y % Modulus \in 0..(Modulus - 1)
  BY <1>1, Remainder
<1>5. p - r \in Int /\ Modulus * (p - r) = Modulus * p - Modulus * r
  BY <1>1, SMT
<1> HIDE DEF x, y
<1>6. a - b = Modulus * (p - r) + ((x % Modulus) - (y % Modulus))
  <2> DEFINE u == Modulus * p
             v == Modulus * r
  <2>1. u \in Int /\ v \in Int
    BY <1>1, SMT
  <2>2. Modulus * (p - r) = u - v
    BY <1>5
  <2>3. x = u + (x % Modulus) /\ y = v + (y % Modulus)
    BY <1>2, <1>3
  <2> HIDE DEF u, v
  <2>4. QED
    BY <1>1, <1>4, <2>1, <2>2, <2>3
<1>7. QED
  BY <1>4, <1>5, <1>6 DEF Wire, x, y

\* DistanceToIndex tells how far apart two messages are as long as they are
\* at most half the index space apart.
LEMMA DistanceIsDifference ==
    ASSUME NEW a \in Int, NEW b \in Int,
           a - b <= HalfRange, a - b >= -HalfRange
    PROVE  DistanceToIndex(Wire(a), Wire(b)) = a - b
<1>1. PICK q \in Int : a - b = Modulus * q + (Wire(a) - Wire(b))
  BY WireDifference
<1>2. Wire(a) \in 0..(Modulus - 1) /\ Wire(b) \in 0..(Modulus - 1)
  BY WireDifference
<1>3. HalfRange \in Nat /\ 2 * HalfRange < Modulus /\ Modulus \in Nat \ {0}
  BY HalfRangeBound
<1> DEFINE mult == Modulus * q
<1>4. mult \in Int /\ a - b = mult + (Wire(a) - Wire(b))
  BY <1>1, <1>3, SMT
<1>5. q \in {-1, 0, 1}
  <2>1. mult < 2 * Modulus /\ mult > -(2 * Modulus)
    <3> HIDE DEF mult
    <3> QED BY <1>2, <1>3, <1>4
  <2>2. QED
    BY <2>1, <1>3, SmallMultiple
<1>6. (q = 0 => mult = 0) /\ (q = 1 => mult = Modulus) /\ (q = -1 => mult = -Modulus)
  BY <1>3, SMT
<1> HIDE DEF mult
<1>7. QED
  BY <1>2, <1>3, <1>4, <1>5, <1>6 DEF DistanceToIndex

\* Messages less than the index space apart have different indices.
LEMMA WireInjective ==
    ASSUME NEW a \in Int, NEW b \in Int,
           a - b < Modulus, a - b > -Modulus,
           Wire(a) = Wire(b)
    PROVE  a = b
<1>1. PICK q \in Int : a - b = Modulus * q + (Wire(a) - Wire(b))
  BY WireDifference
<1>2. Wire(a) \in Int /\ Modulus \in Nat \ {0}
  BY WireDifference, HalfRangeBound
<1> DEFINE mult == Modulus * q
<1>3. mult \in Int /\ a - b = mult
  BY <1>1, <1>2, SMT
<1>4. q = 0
  BY <1>2, <1>3, SmallMultiple
<1>5. mult = 0
  BY <1>2, <1>4, SMT
<1>6. QED
  BY <1>3, <1>5

-----------------------------------------------------------------------------
(* The drain loop. *)

\* A set of numbers leaves out a least number at or above k, when it leaves
\* out one at all.
LEMMA LeastMissing ==
    ASSUME NEW k \in Nat, NEW S, NEW top \in Nat, top >= k, top \notin S
    PROVE  \E d \in k..top : d \notin S /\ k..(d - 1) \subseteq S
<1> DEFINE Missing == {d \in Nat : d >= k /\ d \notin S}
<1>1. top \in Missing
  OBVIOUS
<1>2. PICK d \in Missing : \A c \in Missing : <<c, d>> \notin OpToRel(<, Nat)
  BY <1>1, NatLessThanWellFounded, WFMin
<1>3. \A c \in Missing : ~(c < d)
  BY <1>2 DEF OpToRel
<1>4. d <= top
  BY <1>1, <1>3
<1>5. \A c \in k..(d - 1) : c \in S
  BY <1>3
<1>6. QED
  BY <1>4, <1>5

\* The loop delivers exactly the stored messages that follow the awaited one
\* without a gap: it stops at the first message that is not stored.
LEMMA DrainEndIsFirstMissing ==
    ASSUME expected \in 1..(next - 1), next \in Nat,
           next - expected <= HalfRange,
           stored \subseteq (expected + 1)..(next - 1)
    PROVE  LET end == DrainEnd(expected + 1)
           IN  /\ end \in (expected + 1)..next
               /\ end \notin stored
               /\ ~IsStored(end)
               /\ (expected + 1)..(end - 1) \subseteq stored
<1> DEFINE k == expected + 1
           size == Cardinality(stored)
<1> USE HalfRangeBound
<1>1. k \in Nat /\ next \in Nat /\ k <= next /\ next \notin stored
  OBVIOUS
<1>2. PICK d \in k..next : d \notin stored /\ k..(d - 1) \subseteq stored
  BY <1>1, LeastMissing
<1>3. d - k <= size /\ size \in Nat
  <2>1. IsFiniteSet(k..(next - 1))
    BY <1>1, FS_Interval
  <2>2. IsFiniteSet(stored) /\ size \in Nat
    BY <2>1, FS_Subset, FS_CardinalityType
  <2>3. Cardinality(k..(d - 1)) <= size
    BY <1>2, <2>2, FS_Subset
  <2>4. Cardinality(k..(d - 1)) = d - k
    BY <1>1, <1>2, FS_Interval
  <2>5. QED
    BY <2>2, <2>3, <2>4
<1>4. \A c \in k..next : IsStored(c) => c \in stored
  <2>1. SUFFICES ASSUME NEW c \in k..next, NEW m \in stored, Wire(m) = Wire(c)
                 PROVE  c = m
    BY DEF IsStored
  <2>2. m - c < Modulus /\ m - c > -Modulus /\ m \in Int /\ c \in Int
    BY <1>1
  <2>3. QED
    BY <2>1, <2>2, WireInjective
<1>5. \A c \in stored : IsStored(c)
  BY DEF IsStored
<1>6. d \in k..(k + size) /\ ~IsStored(d) /\ \A c \in k..(d - 1) : IsStored(c)
  BY <1>1, <1>2, <1>3, <1>4, <1>5
<1> DEFINE end == DrainEnd(k)
<1>7. end \in k..(k + size) /\ ~IsStored(end) /\ \A c \in k..(end - 1) : IsStored(c)
  BY <1>6 DEF DrainEnd
<1>8. end = d
  <2>1. ~(end < d)
    BY <1>1, <1>2, <1>5, <1>7
  <2>2. ~(d < end)
    BY <1>1, <1>6, <1>7
  <2>3. QED
    BY <1>1, <1>2, <1>3, <1>7, <2>1, <2>2
<1>9. QED
  BY <1>2, <1>6, <1>8

\* Of the messages that may be stored, only message k has its index.
LEMMA StoredAtIsTheMessage ==
    ASSUME next \in Nat, expected \in 1..next,
           next - expected <= HalfRange,
           stored \subseteq (expected + 1)..(next - 1),
           NEW k \in stored
    PROVE  StoredAt(k) = k
<1>1. \A m \in stored : Wire(m) = Wire(k) => m = k
  <2>1. SUFFICES ASSUME NEW m \in stored, Wire(m) = Wire(k)
                 PROVE  m = k
    OBVIOUS
  <2>2. m - k < Modulus /\ m - k > -Modulus /\ m \in Int /\ k \in Int
    BY HalfRangeBound
  <2>3. QED
    BY <2>1, <2>2, WireInjective
<1>2. QED
  BY <1>1 DEF StoredAt

-----------------------------------------------------------------------------
(* The inductive invariant.  None of the properties is inductive alone: an  *)
(* acknowledgement is harmless because it is truthful and the sender's      *)
(* window keeps index comparisons exact; the window bounds the receiver     *)
(* because no message is lost; and no message is lost because               *)
(* acknowledgements are harmless.                                           *)

IInv ==
    /\ TypeOK
    /\ InOrder
    /\ NoMessageLost
    /\ NothingStuck
    /\ StoredWindow
    /\ AcksTruthful

\* The receiver is at most the sender's window behind, what it stores is on
\* its way to it, and the index of a datagram that is not too stale tells
\* exactly how far the message is from the awaited one.
LEMMA ReceiverBounds ==
    ASSUME TypeOK, NoMessageLost, StoredWindow
    PROVE  /\ next - expected <= Window /\ next - expected <= HalfRange
           /\ stored \subseteq (expected + 1)..(next - 1)
           /\ \A n \in dataNet :
                 next - n <= Lag =>
                     /\ ArrivalDelta(n) = n - expected
                     /\ n - expected <= Window /\ n - expected >= -Lag
<1>1. /\ Window \in Nat /\ Window <= HalfRange
      /\ Lag \in Nat /\ Lag <= HalfRange
      /\ HalfRange \in Nat
  BY ConstantsAssumption, HalfRangeBound
<1>2. next \in Nat /\ expected \in 1..next
  BY DEF TypeOK
<1>3. next - expected <= Window
  <2>1. CASE expected = next
    BY <1>1, <1>2, <2>1
  <2>2. CASE expected < next
    <3>1. expected \in 1..(next - 1)
      BY <1>2, <2>2
    <3>2. expected \notin stored
      BY <1>2 DEF StoredWindow
    <3>3. expected \in unacked
      BY <1>2, <3>1, <3>2 DEF NoMessageLost
    <3>4. QED
      BY <3>3 DEF TypeOK
  <2>3. QED
    BY <1>2, <2>1, <2>2
<1>4. stored \subseteq (expected + 1)..(next - 1)
  BY <1>2 DEF TypeOK, StoredWindow
<1>5. ASSUME NEW n \in dataNet, next - n <= Lag
      PROVE  /\ ArrivalDelta(n) = n - expected
             /\ n - expected <= Window /\ n - expected >= -Lag
  <2>1. n \in 1..(next - 1)
    BY DEF TypeOK
  <2>2. n - expected <= Window /\ n - expected >= -Lag
    BY <1>1, <1>2, <1>3, <1>5, <2>1
  <2>3. n \in Int /\ expected \in Int /\ n - expected <= HalfRange /\ n - expected >= -HalfRange
    BY <1>1, <1>2, <2>1, <2>2
  <2>4. DistanceToIndex(Wire(n), Wire(expected)) = n - expected
    BY <2>3, DistanceIsDifference
  <2>5. QED
    BY <2>2, <2>4 DEF ArrivalDelta
<1>6. QED
  BY <1>1, <1>2, <1>3, <1>4, <1>5

\* An acknowledgement clears only what the receiver has.
LEMMA AcknowledgedIsReceived ==
    ASSUME TypeOK, AcksTruthful, NEW a \in ackNet, next - a.last <= Lag
    PROVE  \A n \in Acknowledged(a) : n < expected \/ n \in stored
<1>1. /\ Window \in Nat /\ Window <= HalfRange
      /\ Lag \in Nat /\ Lag <= HalfRange
      /\ HalfRange \in Nat /\ 2 * HalfRange < Modulus /\ Modulus \in Nat
  BY ConstantsAssumption, HalfRangeBound
<1>2. next \in Nat /\ expected \in 1..next
  BY DEF TypeOK
<1>3. a.last \in Nat /\ a.last < expected /\ a.have \subseteq 1..(next - 1)
  BY DEF TypeOK, AcksTruthful
<1>4. \A n \in unacked : n \in 1..(next - 1) /\ next - n <= Window
  BY DEF TypeOK
<1>5. ASSUME NEW n \in Covered(a.last)
      PROVE  n < expected
  <2>1. n \in unacked /\ Delta(n) <= Delta(a.last)
    BY <1>5 DEF Covered
  <2>2. Delta(n) = n - next
    <3>1. n \in Int /\ next \in Int /\ n - next <= HalfRange /\ n - next >= -HalfRange
      BY <1>1, <1>2, <1>4, <2>1
    <3>2. QED
      BY <3>1, DistanceIsDifference DEF Delta
  <2>3. Delta(a.last) = a.last - next
    <3>1. /\ a.last \in Int /\ next \in Int
          /\ a.last - next <= HalfRange /\ a.last - next >= -HalfRange
      BY <1>1, <1>2, <1>3
    <3>2. QED
      BY <3>1, DistanceIsDifference DEF Delta
  <2>4. n \in Int
    BY <1>4, <2>1
  <2>5. QED
    BY <1>2, <1>3, <2>1, <2>2, <2>3, <2>4
<1>6. ASSUME NEW n \in unacked, IsListed(n, a.have)
      PROVE  n < expected \/ n \in stored
  <2>1. PICK h \in a.have : Wire(h) = Wire(n)
    BY <1>6 DEF IsListed, Listed
  <2>2. h > a.last /\ (h < expected \/ h \in stored)
    BY DEF AcksTruthful
  <2>3. h \in Int /\ n \in Int /\ h - n < Modulus /\ h - n > -Modulus
    BY <1>1, <1>2, <1>3, <1>4, <2>2
  <2>4. h = n
    BY <2>1, <2>3, WireInjective
  <2>5. QED
    BY <2>2, <2>4
<1>7. QED
  BY <1>5, <1>6 DEF Acknowledged, Cleared, Walked

-----------------------------------------------------------------------------
(* The steps, one lemma for each that does more than take something away. *)

LEMMA InitEstablishesIInv == Init => IInv
<1> SUFFICES ASSUME Init PROVE IInv
  OBVIOUS
<1>1. TypeOK
  BY DEF Init, TypeOK
<1>2. InOrder /\ NoMessageLost /\ NothingStuck /\ AcksTruthful
  BY DEF Init, InOrder, NoMessageLost, NothingStuck, IsStored, AcksTruthful
<1>3. StoredWindow
  BY FS_EmptySet, ConstantsAssumption DEF Init, StoredWindow
<1>4. QED
  BY <1>1, <1>2, <1>3 DEF IInv

LEMMA SendPreserves == IInv /\ Send => IInv'
<1> SUFFICES ASSUME IInv, Send PROVE IInv'
  OBVIOUS
<1> USE DEF IInv, Send, receiver, network
<1>1. next \in Nat \ {0} /\ expected \in 1..next
  BY DEF TypeOK
<1>2. /\ \A n \in unacked : n \in 1..(next - 1) /\ next - n < Window
      /\ HalfRange \in Nat /\ Window \in 1..HalfRange
  BY ConstantsAssumption, HalfRangeBound DEF TypeOK
<1>3. TypeOK'
  <2>1. 1..(next - 1) \subseteq 1..(next' - 1)
    BY <1>1
  <2>2. next' - 1 = next
    BY <1>1
  <2>3. next' \in Nat \ {0} /\ expected' \in 1..next'
    BY <1>1
  <2>4. unacked' \in SUBSET {n \in 1..(next' - 1) : next' - n <= Window}
    <3>1. \A n \in unacked : n \in 1..(next' - 1) /\ next' - n <= Window
      BY <1>1, <1>2
    <3>2. next \in 1..(next' - 1) /\ next' - next <= Window
      BY <1>1, <1>2
    <3>3. QED
      BY <3>1, <3>2
  <2>5. /\ hasSent' \in SUBSET unacked' /\ overdue' \in SUBSET hasSent'
        /\ dataNet' \in SUBSET (1..(next' - 1)) /\ stored' \in SUBSET (1..(next' - 1))
        /\ open' \in BOOLEAN
    BY <2>1 DEF TypeOK
  <2>6. ackNet' \in SUBSET [last : Nat, have : SUBSET (1..(next' - 1))]
    <3>1. \A a \in ackNet : a \in [last : Nat, have : SUBSET (1..(next' - 1))]
      BY <2>1 DEF TypeOK
    <3>2. QED
      BY <3>1
  <2>7. delivered' \in [1..(expected' - 1) -> 1..(next' - 1)]
    BY <2>1 DEF TypeOK
  <2>8. QED
    BY <2>3, <2>4, <2>5, <2>6, <2>7 DEF TypeOK
<1>4. NoMessageLost'
  BY <1>1 DEF NoMessageLost
<1>5. InOrder' /\ NothingStuck' /\ StoredWindow' /\ AcksTruthful'
  BY DEF InOrder, NothingStuck, IsStored, StoredWindow, AcksTruthful
<1>6. QED
  BY <1>3, <1>4, <1>5

LEMMA SendUpdatePreserves ==
    ASSUME NEW batch \in SUBSET (unacked \ hasSent), IInv, SendUpdate(batch)
    PROVE  IInv'
<1> USE DEF IInv, SendUpdate, receiver
<1>1. TypeOK'
  BY DEF TypeOK
<1>2. /\ InOrder' /\ NoMessageLost' /\ NothingStuck'
      /\ StoredWindow' /\ AcksTruthful'
  BY DEF InOrder, NoMessageLost, NothingStuck, IsStored, StoredWindow, AcksTruthful
<1>3. QED
  BY <1>1, <1>2

LEMMA PassTimePreserves ==
    ASSUME NEW group \in SUBSET (hasSent \ overdue), IInv, PassTime(group)
    PROVE  IInv'
<1> USE DEF IInv, PassTime, receiver, network
<1>1. TypeOK'
  BY DEF TypeOK
<1>2. /\ InOrder' /\ NoMessageLost' /\ NothingStuck'
      /\ StoredWindow' /\ AcksTruthful'
  BY DEF InOrder, NoMessageLost, NothingStuck, IsStored, StoredWindow, AcksTruthful
<1>3. QED
  BY <1>1, <1>2

LEMMA RecvAckPreserves ==
    ASSUME NEW a \in ackNet, IInv, RecvAck(a)
    PROVE  IInv'
<1> USE DEF IInv, RecvAck, receiver
<1>1. TypeOK'
  BY DEF TypeOK
<1>2. NoMessageLost'
  <2>1. \A n \in Acknowledged(a) : n < expected \/ n \in stored
    BY AcknowledgedIsReceived
  <2>2. QED
    BY <2>1 DEF NoMessageLost
<1>3. InOrder' /\ NothingStuck' /\ StoredWindow' /\ AcksTruthful'
  BY DEF InOrder, NothingStuck, IsStored, StoredWindow, AcksTruthful
<1>4. QED
  BY <1>1, <1>2, <1>3

LEMMA RecvExpectedPreserves ==
    ASSUME NEW n \in dataNet, IInv, RecvExpected(n)
    PROVE  IInv' /\ n = expected /\ expected' \in (expected + 1)..next
<1> USE DEF IInv
<1> DEFINE end == DrainEnd(expected + 1)
<1>1. next \in Nat \ {0} /\ expected \in 1..next /\ n \in 1..(next - 1)
  BY DEF TypeOK
<1>2. /\ next - expected <= HalfRange
      /\ stored \subseteq (expected + 1)..(next - 1)
      /\ ArrivalDelta(n) = n - expected
  BY ReceiverBounds DEF RecvExpected, Arrives
<1>3. n = expected
  BY <1>1, <1>2 DEF RecvExpected
<1>4. /\ end \in (expected + 1)..next
      /\ end \notin stored
      /\ ~IsStored(end)
      /\ (expected + 1)..(end - 1) \subseteq stored
  BY <1>1, <1>2, <1>3, DrainEndIsFirstMissing
<1>5. \A k \in stored : StoredAt(k) = k
  BY <1>1, <1>2, StoredAtIsTheMessage
<1>6. expected' = end
  BY DEF RecvExpected
<1>7. stored' = stored \ ((expected + 1)..(end - 1))
  BY <1>4, <1>5 DEF RecvExpected
<1>8. delivered' = [k \in 1..(end - 1) |-> k]
  <2>1. delivered = [k \in 1..(expected - 1) |-> k]
    BY DEF InOrder
  <2>2. \A k \in 1..(end - 1) :
           (IF k < expected THEN delivered[k]
            ELSE IF k = expected THEN n ELSE StoredAt(k)) = k
    <3>1. TAKE k \in 1..(end - 1)
    <3>2. CASE k < expected
      BY <1>1, <2>1, <3>2
    <3>3. CASE k = expected
      BY <1>1, <1>3, <3>3
    <3>4. CASE k > expected
      <4>1. k \in stored
        BY <1>1, <1>4, <3>4
      <4>2. QED
        BY <1>1, <1>5, <3>4, <4>1
    <3>5. QED
      BY <1>1, <1>4, <3>2, <3>3, <3>4
  <2>3. delivered' = [k \in 1..(end - 1) |->
                        IF k < expected THEN delivered[k]
                        ELSE IF k = expected THEN n ELSE StoredAt(k)]
    BY DEF RecvExpected
  <2>4. QED
    BY <2>2, <2>3
<1>9. UNCHANGED <<open, ackNet, next, unacked, hasSent, overdue>> /\ dataNet' \subseteq dataNet
  BY DEF RecvExpected, Arrives, sender
<1> HIDE DEF end
<1>10. TypeOK'
  <2>1. expected' \in 1..next' /\ stored' \subseteq stored
    BY <1>1, <1>4, <1>6, <1>7, <1>9
  <2>2. delivered' \in [1..(expected' - 1) -> 1..(next' - 1)]
    BY <1>1, <1>4, <1>6, <1>8, <1>9
  <2>3. QED
    BY <1>9, <2>1, <2>2 DEF TypeOK
<1>11. InOrder'
  BY <1>6, <1>8 DEF InOrder
<1>12. NoMessageLost'
  BY <1>1, <1>4, <1>6, <1>7, <1>9 DEF NoMessageLost
<1>13. NothingStuck'
  BY <1>4, <1>6, <1>7 DEF NothingStuck, IsStored
<1>14. StoredWindow'
  <2>1. BehindThreshold \in Nat
    BY ConstantsAssumption
  <2>2. \A m \in stored' : m > expected' /\ m - expected' <= BehindThreshold
    <3>1. TAKE m \in stored'
    <3>2. m \in stored /\ m \notin (expected + 1)..(end - 1) /\ m # end
      BY <1>4, <1>7
    <3>3. m \in (expected + 1)..(next - 1) /\ m - expected <= BehindThreshold
      BY <1>2, <3>2 DEF StoredWindow
    <3>4. QED
      BY <1>1, <1>4, <1>6, <2>1, <3>2, <3>3
  <2>3. Cardinality(stored') <= Cardinality(stored) /\ Cardinality(stored') \in Nat
        /\ Cardinality(stored) \in Nat
    <3>1. IsFiniteSet((expected + 1)..(next - 1))
      BY <1>1, FS_Interval
    <3>2. IsFiniteSet(stored) /\ stored' \subseteq stored
      BY <1>2, <1>7, <3>1, FS_Subset
    <3>3. QED
      BY <3>2, FS_Subset, FS_CardinalityType
  <2>4. QED
    BY <2>1, <2>2, <2>3 DEF StoredWindow
<1>15. AcksTruthful'
  <2>1. SUFFICES ASSUME NEW a \in ackNet
                 PROVE  /\ a.last < expected'
                        /\ \A h \in a.have : h > a.last /\ (h < expected' \/ h \in stored')
    BY <1>9 DEF AcksTruthful
  <2>2. a.last \in Nat /\ a.have \subseteq 1..(next - 1)
    BY DEF TypeOK
  <2>3. /\ a.last < expected
        /\ \A h \in a.have : h > a.last /\ (h < expected \/ h \in stored)
    BY DEF AcksTruthful
  <2>4. QED
    BY <1>1, <1>2, <1>4, <1>6, <1>7, <2>2, <2>3
<1>16. QED
  BY <1>3, <1>4, <1>6, <1>10, <1>11, <1>12, <1>13, <1>14, <1>15

LEMMA RecvTooFarPreserves ==
    ASSUME NEW n \in dataNet, IInv, RecvTooFar(n)
    PROVE  IInv'
<1> USE DEF IInv, RecvTooFar, Arrives, sender
<1>1. TypeOK'
  BY DEF TypeOK
<1>2. /\ InOrder' /\ NoMessageLost' /\ NothingStuck'
      /\ StoredWindow' /\ AcksTruthful'
  BY DEF InOrder, NoMessageLost, NothingStuck, IsStored, StoredWindow, AcksTruthful
<1>3. QED
  BY <1>1, <1>2

LEMMA RecvNewerPreserves ==
    ASSUME NEW n \in dataNet, IInv, RecvNewer(n)
    PROVE  IInv'
<1> USE DEF IInv
<1>1. next \in Nat \ {0} /\ expected \in 1..next /\ n \in 1..(next - 1)
  BY DEF TypeOK
<1>2. /\ next - expected <= HalfRange
      /\ stored \subseteq (expected + 1)..(next - 1)
      /\ ArrivalDelta(n) = n - expected
  BY ReceiverBounds DEF RecvNewer, Arrives
<1>3. BehindThreshold \in Nat /\ HalfRange \in Nat /\ HalfRange < Modulus /\ Modulus \in Nat
  BY ConstantsAssumption, HalfRangeBound
<1>4. n > expected /\ n - expected <= BehindThreshold
  BY <1>1, <1>2, <1>3 DEF RecvNewer
<1>5. /\ UNCHANGED <<expected, delivered, open, ackNet, next, unacked, hasSent, overdue>>
      /\ dataNet' \subseteq dataNet
  BY DEF RecvNewer, Arrives, sender
<1>6. stored \subseteq stored' /\ stored' \subseteq stored \cup {n}
  BY DEF RecvNewer
<1>7. TypeOK'
  BY <1>1, <1>5, <1>6 DEF TypeOK
<1>8. InOrder' /\ NoMessageLost' /\ AcksTruthful'
  BY <1>5, <1>6 DEF InOrder, NoMessageLost, AcksTruthful
<1>9. NothingStuck'
  <2>1. SUFFICES ASSUME NEW m \in stored', Wire(m) = Wire(expected)
                 PROVE  FALSE
    BY <1>5 DEF NothingStuck, IsStored, Wire
  <2>2. m # n
    <3>1. n - expected < Modulus /\ n - expected > -Modulus
      BY <1>1, <1>2, <1>3, <1>4
    <3>2. QED
      BY <1>1, <1>4, <2>1, <3>1, WireInjective
  <2>3. m \in stored
    BY <1>6, <2>2
  <2>4. QED
    BY <2>1, <2>3 DEF NothingStuck, IsStored
<1>10. StoredWindow'
  <2>1. \A m \in stored' : m > expected' /\ m - expected' <= BehindThreshold
    BY <1>4, <1>5, <1>6 DEF StoredWindow
  <2>2. stored' \subseteq (expected + 1)..(expected + BehindThreshold)
    <3>1. SUFFICES ASSUME NEW m \in stored'
                   PROVE  m \in (expected + 1)..(expected + BehindThreshold)
      OBVIOUS
    <3>2. m \in Int
      BY <1>1, <1>2, <1>6
    <3>3. m > expected /\ m - expected <= BehindThreshold
      BY <1>5, <2>1
    <3>4. QED
      BY <1>1, <1>3, <3>2, <3>3
  <2>3. Cardinality(stored') <= BehindThreshold
    <3>1. /\ IsFiniteSet((expected + 1)..(expected + BehindThreshold))
          /\ Cardinality((expected + 1)..(expected + BehindThreshold)) = BehindThreshold
      BY <1>1, <1>3, FS_Interval
    <3>2. QED
      BY <2>2, <3>1, FS_Subset
  <2>4. QED
    BY <2>1, <2>3 DEF StoredWindow
<1>11. QED
  BY <1>7, <1>8, <1>9, <1>10

LEMMA RecvOldPreserves ==
    ASSUME NEW n \in dataNet, IInv, RecvOld(n)
    PROVE  IInv'
<1> USE DEF IInv, RecvOld, Arrives, sender, receiver
<1>1. TypeOK'
  BY DEF TypeOK
<1>2. /\ InOrder' /\ NoMessageLost' /\ NothingStuck'
      /\ StoredWindow' /\ AcksTruthful'
  BY DEF InOrder, NoMessageLost, NothingStuck, IsStored, StoredWindow, AcksTruthful
<1>3. QED
  BY <1>1, <1>2

LEMMA RecvUpdatePreserves == IInv /\ RecvUpdate => IInv'
<1> SUFFICES ASSUME IInv, RecvUpdate PROVE IInv'
  OBVIOUS
<1> USE DEF IInv, RecvUpdate, sender, receiver
<1> DEFINE a == [last |-> expected - 1, have |-> stored]
<1>1. expected \in Nat \ {0} /\ stored \subseteq 1..(next - 1)
  BY DEF TypeOK
<1>2. a.last < expected /\ a.have = stored /\ a.last \in Nat
  BY <1>1
<1>3. TypeOK'
  <2>1. a \in [last : Nat, have : SUBSET (1..(next - 1))]
    BY <1>1
  <2>2. ackNet' = ackNet \cup {a}
    OBVIOUS
  <2> HIDE DEF a
  <2>3. ackNet' \in SUBSET [last : Nat, have : SUBSET (1..(next - 1))]
    BY <2>1, <2>2 DEF TypeOK
  <2>4. QED
    BY <2>3 DEF TypeOK
<1>4. InOrder' /\ NoMessageLost' /\ NothingStuck' /\ StoredWindow'
  BY DEF InOrder, NoMessageLost, NothingStuck, IsStored, StoredWindow
<1>5. AcksTruthful'
  <2>1. SUFFICES ASSUME NEW b \in ackNet'
                 PROVE  /\ b.last < expected
                        /\ \A h \in b.have : h > b.last /\ (h < expected \/ h \in stored)
    BY DEF AcksTruthful
  <2>2. CASE b \in ackNet
    BY <2>2 DEF AcksTruthful
  <2>3. CASE b = a
    <3>1. \A h \in stored : h > expected - 1
      BY <1>1 DEF StoredWindow
    <3>2. QED
      BY <1>2, <2>3, <3>1
  <2>4. QED
    BY <2>2, <2>3
<1>6. QED
  BY <1>3, <1>4, <1>5

LEMMA LossPreserves ==
    ASSUME IInv, (\E n \in dataNet : LoseData(n)) \/ (\E a \in ackNet : LoseAck(a))
    PROVE  IInv'
<1> USE DEF IInv, LoseData, LoseAck, sender, receiver
<1>1. TypeOK'
  BY DEF TypeOK
<1>2. /\ InOrder' /\ NoMessageLost' /\ NothingStuck'
      /\ StoredWindow' /\ AcksTruthful'
  BY DEF InOrder, NoMessageLost, NothingStuck, IsStored, StoredWindow, AcksTruthful
<1>3. QED
  BY <1>1, <1>2

LEMMA StutterPreserves == IInv /\ UNCHANGED vars => IInv'
BY DEF IInv, vars, sender, receiver, network, TypeOK, InOrder, NoMessageLost,
       NothingStuck, IsStored, StoredWindow, AcksTruthful

LEMMA NextPreserves == IInv /\ [Next]_vars => IInv'
BY SendPreserves, SendUpdatePreserves, PassTimePreserves, RecvAckPreserves,
   RecvExpectedPreserves, RecvTooFarPreserves, RecvNewerPreserves,
   RecvOldPreserves, RecvUpdatePreserves, LossPreserves, StutterPreserves
   DEF Next

-----------------------------------------------------------------------------
(* What follows for every behaviour. *)

\* The invariant holds of every state the two transcoders can reach.
THEOREM Invariance == Spec => []IInv
BY InitEstablishesIInv, NextPreserves, PTL DEF Spec

\* The fields hold values of their types, whatever the network does.
THEOREM TypeCorrect == Spec => []TypeOK
<1>1. IInv => TypeOK
  BY DEF IInv
<1>2. QED
  BY <1>1, Invariance, PTL

\* ReliabilityTranscoder::Recv passes messages up in the order they were sent,
\* each once, across any number of wraps of the 16-bit index.
THEOREM DeliveryInOrder == Spec => []InOrder
<1>1. IInv => InOrder
  BY DEF IInv
<1>2. QED
  BY <1>1, Invariance, PTL

\* The sender gives up no message the receiver does not have.
THEOREM NothingIsLost == Spec => []NoMessageLost
<1>1. IInv => NoMessageLost
  BY DEF IInv
<1>2. QED
  BY <1>1, Invariance, PTL

\* The drain loop never leaves the awaited message among the stored ones.
THEOREM DrainIsComplete == Spec => []NothingStuck
<1>1. IInv => NothingStuck
  BY DEF IInv
<1>2. QED
  BY <1>1, Invariance, PTL

\* The stored messages, and with them an acknowledgement, stay bounded.
THEOREM StoredIsBounded == Spec => []StoredWindow
<1>1. IInv => StoredWindow
  BY DEF IInv
<1>2. QED
  BY <1>1, Invariance, PTL

\* A late acknowledgement is never wrong about the receiver.
THEOREM AcksStayTruthful == Spec => []AcksTruthful
<1>1. IInv => AcksTruthful
  BY DEF IInv
<1>2. QED
  BY <1>1, Invariance, PTL

\* While the sender's window and the age of datagrams stay within
\* RELIABLE_BEHIND_THRESHOLD, CloseDown is never called over an index.
THEOREM NeverClosedInWindow == Spec => []NoSpuriousClose
<1>1. Init => NoSpuriousClose
  BY DEF Init, NoSpuriousClose
<1>2. IInv /\ NoSpuriousClose /\ [Next]_vars => NoSpuriousClose'
  <2>1. SUFFICES ASSUME IInv, open, [Next]_vars,
                        Window <= BehindThreshold, Lag <= BehindThreshold
                 PROVE  open'
    BY DEF NoSpuriousClose
  <2>2. ASSUME NEW n \in dataNet, RecvTooFar(n)
        PROVE  FALSE
    <3>1. next - n <= Lag
      BY <2>2 DEF RecvTooFar, Arrives
    <3>2. /\ ArrivalDelta(n) = n - expected
          /\ n - expected <= Window /\ n - expected >= -Lag
      BY <2>1, <3>1, ReceiverBounds DEF IInv
    <3>3. n \in Int /\ expected \in Int
      BY <2>1 DEF IInv, TypeOK
    <3>4. Window \in Nat /\ Lag \in Nat /\ BehindThreshold \in Nat
      BY ConstantsAssumption, HalfRangeBound
    <3>5. ArrivalDelta(n) \in -BehindThreshold..BehindThreshold
      BY <2>1, <3>2, <3>3, <3>4
    <3>6. QED
      BY <2>2, <3>5 DEF RecvTooFar
  <2>3. QED
    BY <2>1, <2>2 DEF Next, Send, SendUpdate, PassTime, RecvAck, RecvExpected,
       RecvNewer, RecvOld, RecvUpdate, LoseData, LoseAck, vars, receiver
<1>3. QED
  BY <1>1, <1>2, Invariance, PTL DEF Spec

-----------------------------------------------------------------------------
(* Refinement. *)

LEMMA StepRefines == IInv /\ [Next]_vars => [OD!Next]_(OD!vars)
<1> SUFFICES ASSUME IInv, [Next]_vars
             PROVE  [OD!Next]_(OD!vars)
  OBVIOUS
<1>1. next \in Nat \ {0} /\ expected \in 1..next
  BY DEF IInv, TypeOK
<1>2. CASE Send
  <2>1. next' - 1 = (next - 1) + 1 /\ UNCHANGED <<delivered, open>>
    BY <1>1, <1>2 DEF Send, receiver
  <2>2. QED
    BY <2>1 DEF OD!Next, OD!Accept
<1>3. ASSUME NEW n \in dataNet, RecvExpected(n)
      PROVE  OD!Deliver
  <2>1. IInv' /\ n = expected /\ expected' \in (expected + 1)..next
    BY <1>3, RecvExpectedPreserves
  <2>2. open /\ UNCHANGED <<next, open>>
    BY <1>3 DEF RecvExpected, Arrives, sender
  <2>3. delivered = OD!Prefix(expected - 1) /\ delivered' = OD!Prefix(expected' - 1)
    BY <2>1 DEF IInv, InOrder, OD!Prefix
  <2>4. PICK end \in (expected + 1)..next : expected' = end
    BY <2>1
  <2>5. /\ expected - 1 \in 0..(next - 1) /\ end - 1 \in 0..(next - 1)
        /\ expected - 1 < end - 1
    BY <1>1
  <2>6. QED
    BY <2>2, <2>3, <2>4, <2>5 DEF OD!Deliver
<1>4. ASSUME NEW n \in dataNet, RecvTooFar(n)
      PROVE  OD!Close
  BY <1>4 DEF RecvTooFar, Arrives, sender, OD!Close
<1>5. CASE \/ \E batch \in SUBSET (unacked \ hasSent) : SendUpdate(batch)
           \/ \E group \in SUBSET (hasSent \ overdue) : PassTime(group)
           \/ \E a \in ackNet : RecvAck(a)
           \/ \E n \in dataNet : RecvNewer(n)
           \/ \E n \in dataNet : RecvOld(n)
           \/ RecvUpdate
           \/ \E n \in dataNet : LoseData(n)
           \/ \E a \in ackNet : LoseAck(a)
           \/ UNCHANGED vars
  <2>1. UNCHANGED <<next, delivered, open>>
    BY <1>5 DEF SendUpdate, PassTime, RecvAck, RecvNewer, RecvOld, RecvUpdate,
       LoseData, LoseAck, vars, sender, receiver
  <2>2. QED
    BY <2>1 DEF OD!vars
<1>6. QED
  BY <1>2, <1>3, <1>4, <1>5 DEF Next, OD!Next

\* The sender's list, the receiver's list, the acknowledgements and a network
\* that loses, repeats and reorders together are an ordered channel.
THEOREM Refinement == Spec => ImplementsOrderedDelivery
<1>1. Init => OD!Init
  BY DEF Init, OD!Init, OD!Prefix
<1>2. IInv /\ [Next]_vars => [OD!Next]_(OD!vars)
  BY StepRefines
<1>3. QED
  BY <1>1, <1>2, Invariance, PTL DEF Spec, OD!Spec, ImplementsOrderedDelivery
=============================================================================
