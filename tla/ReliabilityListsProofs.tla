---------------------- MODULE ReliabilityListsProofs -----------------------
(***************************************************************************)
(* Proofs that the lists refine ReliableTranscoder, for every index space, *)
(* window and lag that ListsAssumption admits; ReliableTranscoderProofs,   *)
(* through the mapping (P), says what the mapped state satisfies.          *)
(*                                                                         *)
(* LInv is Shape (what the lists look like: ordered, each index that of    *)
(* its number) with the invariant of ReliableTranscoder.  In a half of the *)
(* index space DistanceToIndex compares numbers, so the loops that deliver *)
(* and store stop at the first position where the numbers say so.  The     *)
(* loop over an acknowledgement is followed round by round: it clears what *)
(* is up to its first index (Clearing), compares each further entry with   *)
(* the next index that was received (Comparing), and is Over.              *)
(***************************************************************************)
EXTENDS ReliabilityLists, FiniteSetTheorems, SequenceTheorems, TLAPS

P == INSTANCE ReliableTranscoderProofs WITH
          next     <- sentCount + 1,
          unacked  <- {e.id : e \in Entries},
          hasSent  <- {e.id : e \in {f \in Entries : f.hasSent}},
          overdue  <- {e.id : e \in {f \in Entries : f.overdue}},
          dataNet  <- {m.id : m \in dataNet},
          ackNet   <- {a.ghost : a \in ackNet},
          expected <- Len(delivered) + 1,
          stored   <- {inList[i].id : i \in DOMAIN inList}

Wire(n) == (FirstIndex + n - 1) % Modulus

\* The assumption on the constants is that of ReliableTranscoder.
LEMMA Constants == P!ConstantsAssumption
BY ListsAssumption DEF P!ConstantsAssumption, P!HalfRange, HalfRange

\* Half the index space, rounded down.
LEMMA HalfRangeBound ==
    /\ HalfRange \in Nat
    /\ 2 * HalfRange < Modulus
    /\ Modulus \in Nat \ {0}
BY Constants, P!HalfRangeBound DEF P!HalfRange, HalfRange

\* The index of a message number.
LEMMA WireType ==
    ASSUME NEW n \in Int
    PROVE  Wire(n) \in 0..(Modulus - 1)
BY Constants, P!WireDifference DEF P!Wire, Wire

\* Within half the index space DistanceToIndex of indices is the difference of numbers.
LEMMA WireDistance ==
    ASSUME NEW a \in Int, NEW b \in Int,
           a - b <= HalfRange, a - b >= -HalfRange
    PROVE  DistanceToIndex(Wire(a), Wire(b)) = a - b
BY Constants, P!DistanceIsDifference
   DEF P!DistanceToIndex, DistanceToIndex, P!Wire, Wire, P!HalfRange, HalfRange

\* Numbers less than the index space apart have different indices.
LEMMA WireInjective ==
    ASSUME NEW a \in Int, NEW b \in Int,
           a - b < Modulus, a - b > -Modulus, Wire(a) = Wire(b)
    PROVE  a = b
BY Constants, P!WireInjective DEF P!Wire, Wire

\* Counting on by k indices.
LEMMA WireSteps ==
    ASSUME NEW n \in Int, NEW k \in Int
    PROVE  (Wire(n) + k) % Modulus = Wire(n + k)
<1> DEFINE x == FirstIndex + n - 1
           r == x % Modulus
           u == (r + k) % Modulus
           v == (x + k) % Modulus
<1>1. x \in Int /\ Modulus \in Nat \ {0} /\ FirstIndex \in Int
  BY ListsAssumption
<1> HIDE DEF x
<1>2. PICK p \in Int : r \in 0..(Modulus - 1) /\ x = Modulus * p + r
  BY <1>1, P!Remainder, Constants
<1> HIDE DEF r
<1>3. PICK q \in Int : u \in 0..(Modulus - 1) /\ r + k = Modulus * q + u
  <2>1. r + k \in Int
    BY <1>1, <1>2
  <2>2. QED
    BY <2>1, <1>1, P!Remainder, Constants
<1>4. PICK w \in Int : v \in 0..(Modulus - 1) /\ x + k = Modulus * w + v
  <2>1. x + k \in Int
    BY <1>1
  <2>2. QED
    BY <2>1, <1>1, P!Remainder, Constants
<1> HIDE DEF u, v
<1>5. Modulus * (w - p - q) = u - v
  <2>1. Modulus * (w - p - q) = Modulus * w - Modulus * p - Modulus * q
    BY <1>1, SMT
  <2>2. PICK a, b, c \in Int : a = Modulus * w /\ b = Modulus * p /\ c = Modulus * q
    BY <1>1
  <2>3. x = b + r /\ r + k = c + u /\ x + k = a + v
    BY <2>2, <1>2, <1>3, <1>4
  <2>4. a - b - c = u - v
    BY <2>3, <1>1, <1>2, <1>3, <1>4
  <2>5. QED
    BY <2>1, <2>2, <2>4
<1>6. w - p - q = 0
  <2>1. Modulus * (w - p - q) < Modulus /\ Modulus * (w - p - q) > -Modulus
    BY <1>1, <1>3, <1>4, <1>5
  <2>2. w - p - q <= 0 /\ w - p - q >= 0
    BY <2>1, <1>1, P!SmallMultiple, Constants
  <2>3. QED
    BY <2>2
<1>7. u = v
  <2>1. Modulus * 0 = 0
    BY <1>1
  <2>2. QED
    BY <2>1, <1>3, <1>4, <1>5, <1>6
<1>8. Wire(n) = r /\ Wire(n + k) = v
  <2>1. FirstIndex + (n + k) - 1 = x + k
    BY <1>1 DEF x
  <2>2. QED
    BY <2>1 DEF Wire, r, v, x
<1>9. QED
  BY <1>7, <1>8 DEF u

\* The instance through the proofs (P) has the steps of the one that the
\* property names (RT).
LEMMA SameNext == P!Next = RT!Next
<1>1. \A S : P!Cardinality(S) = RT!Cardinality(S)
  BY DEF P!Cardinality, RT!Cardinality
<1>2. P!HalfRange = RT!HalfRange
  BY DEF P!HalfRange, RT!HalfRange
<1>3. \A n : P!Wire(n) = RT!Wire(n)
  BY DEF P!Wire, RT!Wire
<1>4. \A m, n : P!DistanceToIndex(m, n) = RT!DistanceToIndex(m, n)
  BY <1>2 DEF P!DistanceToIndex, RT!DistanceToIndex
<1>5. \A n : P!Delta(n) = RT!Delta(n)
  BY <1>3, <1>4 DEF P!Delta, RT!Delta
<1>6. \A n : P!ArrivalDelta(n) = RT!ArrivalDelta(n)
  BY <1>3, <1>4 DEF P!ArrivalDelta, RT!ArrivalDelta
<1>7. \A n : P!Covered(n) = RT!Covered(n)
  BY <1>5 DEF P!Covered, RT!Covered
<1>8. \A n : P!Rank(n) = RT!Rank(n)
  BY <1>1 DEF P!Rank, RT!Rank
<1>9. \A s : P!Listed(s) = RT!Listed(s)
  BY DEF P!Listed, RT!Listed
<1>10. \A n : P!Cleared(n) = RT!Cleared(n)
  BY <1>7, <1>8 DEF P!Cleared, RT!Cleared
<1>11. \A n, s : P!IsListed(n, s) = RT!IsListed(n, s)
  BY <1>3, <1>9 DEF P!IsListed, RT!IsListed
<1>12. \A n : P!StepsOver(n) = RT!StepsOver(n)
  BY <1>1, <1>3, <1>7 DEF P!StepsOver, RT!StepsOver
<1>13. \A n : P!Walked(n) = RT!Walked(n)
  BY <1>7, <1>12 DEF P!Walked, RT!Walked
<1>14. \A n, s : P!Skipped(n, s) = RT!Skipped(n, s)
  BY <1>3, <1>5, <1>9, <1>11, <1>13 DEF P!Skipped, RT!Skipped
<1>15. \A a : P!Acknowledged(a) = RT!Acknowledged(a)
  BY <1>10, <1>11, <1>13 DEF P!Acknowledged, RT!Acknowledged
<1>16. \A k : P!IsStored(k) = RT!IsStored(k)
  BY <1>3 DEF P!IsStored, RT!IsStored
<1>17. \A k : P!StoredAt(k) = RT!StoredAt(k)
  BY <1>3 DEF P!StoredAt, RT!StoredAt
<1>18. \A k : P!DrainEnd(k) = RT!DrainEnd(k)
  BY <1>1, <1>16 DEF P!DrainEnd, RT!DrainEnd
<1>19. \A n : P!Arrives(n) = RT!Arrives(n)
  BY DEF P!Arrives, RT!Arrives
<1>20. P!Send = RT!Send
  BY DEF P!Send, RT!Send, P!sender, RT!sender, P!receiver, RT!receiver, P!network, RT!network
<1>21. \A batch : P!SendUpdate(batch) = RT!SendUpdate(batch)
  BY DEF P!SendUpdate, RT!SendUpdate, P!sender, RT!sender, P!receiver, RT!receiver, P!network, RT!network
<1>22. \A group : P!PassTime(group) = RT!PassTime(group)
  BY DEF P!PassTime, RT!PassTime, P!sender, RT!sender, P!receiver, RT!receiver, P!network, RT!network
<1>23. P!RecvUpdate = RT!RecvUpdate
  BY <1>1 DEF P!RecvUpdate, RT!RecvUpdate, P!sender, RT!sender, P!receiver, RT!receiver, P!network, RT!network
<1>24. \A n : P!LoseData(n) = RT!LoseData(n)
  BY DEF P!LoseData, RT!LoseData, P!sender, RT!sender, P!receiver, RT!receiver, P!network, RT!network
<1>25. \A a : P!LoseAck(a) = RT!LoseAck(a)
  BY DEF P!LoseAck, RT!LoseAck, P!sender, RT!sender, P!receiver, RT!receiver, P!network, RT!network
<1>26. \A a : P!RecvAck(a) = RT!RecvAck(a)
  BY <1>15, <1>14 DEF P!RecvAck, RT!RecvAck, P!sender, RT!sender, P!receiver, RT!receiver, P!network, RT!network
<1>27. \A n : P!RecvExpected(n) = RT!RecvExpected(n)
  BY <1>19, <1>6, <1>18, <1>17 DEF P!RecvExpected, RT!RecvExpected, P!sender, RT!sender, P!receiver, RT!receiver, P!network, RT!network
<1>28. \A n : P!RecvTooFar(n) = RT!RecvTooFar(n)
  BY <1>19, <1>6 DEF P!RecvTooFar, RT!RecvTooFar, P!sender, RT!sender, P!receiver, RT!receiver, P!network, RT!network
<1>29. \A n : P!RecvNewer(n) = RT!RecvNewer(n)
  BY <1>19, <1>6, <1>16 DEF P!RecvNewer, RT!RecvNewer, P!sender, RT!sender, P!receiver, RT!receiver, P!network, RT!network
<1>30. \A n : P!RecvOld(n) = RT!RecvOld(n)
  BY <1>19, <1>6 DEF P!RecvOld, RT!RecvOld, P!sender, RT!sender, P!receiver, RT!receiver, P!network, RT!network
<1>31. QED
  BY <1>20, <1>21, <1>22, <1>23, <1>24, <1>25, <1>26, <1>27, <1>28, <1>29, <1>30 DEF P!Next, RT!Next

-----------------------------------------------------------------------------
(* Lists. *)

\* The first k entries of a list, and the entries behind the first k.
LEMMA Ends ==
    ASSUME NEW S, NEW s \in Seq(S), NEW k \in 0..Len(s)
    PROVE  /\ SubSeq(s, 1, k) \in Seq(S) /\ Len(SubSeq(s, 1, k)) = k
           /\ \A i \in 1..k : SubSeq(s, 1, k)[i] = s[i]
           /\ SubSeq(s, k + 1, Len(s)) \in Seq(S)
           /\ Len(SubSeq(s, k + 1, Len(s))) = Len(s) - k
           /\ \A i \in 1..(Len(s) - k) : SubSeq(s, k + 1, Len(s))[i] = s[i + k]
<1>1. /\ Len(s) \in Nat /\ k \in Nat /\ k <= Len(s)
      /\ \A i \in 1..Len(s) : s[i] \in S
  OBVIOUS
<1> DEFINE a == SubSeq(s, 1, k)
           b == SubSeq(s, k + 1, Len(s))
<1>2. /\ a \in Seq(S) /\ Len(a) = IF 1 <= k THEN k - 1 + 1 ELSE 0
      /\ \A i \in 1..(k - 1 + 1) : a[i] = s[1 + i - 1]
  <2>1. 1 \in Int /\ k \in Int /\ \A i \in 1..k : s[i] \in S
    BY <1>1
  <2>2. QED
    BY <2>1, SubSeqProperties
<1>3. /\ b \in Seq(S)
      /\ Len(b) = IF k + 1 <= Len(s) THEN Len(s) - (k + 1) + 1 ELSE 0
      /\ \A i \in 1..(Len(s) - (k + 1) + 1) : b[i] = s[(k + 1) + i - 1]
  <2>1. k + 1 \in Int /\ Len(s) \in Int /\ \A i \in (k + 1)..Len(s) : s[i] \in S
    BY <1>1
  <2>2. QED
    BY <2>1, SubSeqProperties
<1> HIDE DEF a, b
<1>4. Len(a) = k /\ \A i \in 1..k : a[i] = s[i]
  <2>1. Len(a) = k /\ k - 1 + 1 = k
    BY <1>1, <1>2
  <2>2. ASSUME NEW i \in 1..k PROVE a[i] = s[i]
    <3>1. 1 + i - 1 = i
      BY <1>1
    <3>2. QED
      BY <2>1, <3>1, <1>2
  <2>3. QED
    BY <2>1, <2>2
<1>5. Len(b) = Len(s) - k /\ \A i \in 1..(Len(s) - k) : b[i] = s[i + k]
  <2>1. Len(b) = Len(s) - k /\ Len(s) - (k + 1) + 1 = Len(s) - k
    BY <1>1, <1>3
  <2>2. ASSUME NEW i \in 1..(Len(s) - k) PROVE b[i] = s[i + k]
    <3>1. (k + 1) + i - 1 = i + k
      BY <1>1
    <3>2. QED
      BY <2>1, <3>1, <1>3
  <2>3. QED
    BY <2>1, <2>2
<1>6. QED
  BY <1>2, <1>3, <1>4, <1>5 DEF a, b

\* One sequence after another.
LEMMA Joined ==
    ASSUME NEW S, NEW s \in Seq(S), NEW t \in Seq(S)
    PROVE  /\ s \o t \in Seq(S) /\ Len(s \o t) = Len(s) + Len(t)
           /\ \A i \in 1..Len(s) : (s \o t)[i] = s[i]
           /\ \A i \in 1..Len(t) : (s \o t)[Len(s) + i] = t[i]
<1>1. /\ s \o t \in Seq(S) /\ Len(s \o t) = Len(s) + Len(t)
      /\ \A i \in 1..(Len(s) + Len(t)) :
            (s \o t)[i] = IF i <= Len(s) THEN s[i] ELSE t[i - Len(s)]
  BY ConcatProperties
<1>2. Len(s) \in Nat /\ Len(t) \in Nat
  OBVIOUS
<1>3. ASSUME NEW i \in 1..Len(s) PROVE (s \o t)[i] = s[i]
  <2>1. i \in 1..(Len(s) + Len(t)) /\ i <= Len(s)
    BY <1>2
  <2>2. QED
    BY <2>1, <1>1
<1>4. ASSUME NEW i \in 1..Len(t) PROVE (s \o t)[Len(s) + i] = t[i]
  <2>1. /\ Len(s) + i \in 1..(Len(s) + Len(t)) /\ ~(Len(s) + i <= Len(s))
        /\ (Len(s) + i) - Len(s) = i
    BY <1>2
  <2>2. QED
    BY <2>1, <1>1
<1>5. QED
  BY <1>1, <1>3, <1>4

\* The same for numbers.
LEMMA JoinedNumbers ==
    ASSUME NEW s \in Seq(Nat), NEW t \in Seq(Nat)
    PROVE  /\ s \o t \in Seq(Nat) /\ Len(s \o t) = Len(s) + Len(t)
           /\ \A i \in 1..Len(s) : (s \o t)[i] = s[i]
           /\ \A i \in 1..Len(t) : (s \o t)[Len(s) + i] = t[i]
BY Joined

\* A sequence without its entry at place k.
LEMMA RemovedAt ==
    ASSUME NEW S, NEW s \in Seq(S), NEW k \in 1..Len(s)
    PROVE  LET r == RemoveAt(s, k)
           IN  /\ r \in Seq(S) /\ Len(r) = Len(s) - 1
               /\ \A i \in 1..(k - 1) : r[i] = s[i]
               /\ \A i \in k..(Len(s) - 1) : r[i] = s[i + 1]
<1> DEFINE a == SubSeq(s, 1, k - 1)
           b == SubSeq(s, k + 1, Len(s))
<1>1. Len(s) \in Nat /\ k \in Nat /\ k >= 1 /\ k <= Len(s) /\ k - 1 \in 0..Len(s) /\ k \in 0..Len(s)
  OBVIOUS
<1>2. a \in Seq(S) /\ Len(a) = k - 1 /\ \A i \in 1..(k - 1) : a[i] = s[i]
  BY <1>1, Ends
<1>3. b \in Seq(S) /\ Len(b) = Len(s) - k /\ \A i \in 1..(Len(s) - k) : b[i] = s[i + k]
  BY <1>1, Ends
<1>4. RemoveAt(s, k) = a \o b
  BY DEF RemoveAt
<1> HIDE DEF a, b
<1>5. /\ a \o b \in Seq(S) /\ Len(a \o b) = (k - 1) + (Len(s) - k)
      /\ \A i \in 1..(k - 1) : (a \o b)[i] = a[i]
      /\ \A i \in 1..(Len(s) - k) : (a \o b)[(k - 1) + i] = b[i]
  <2>1. /\ a \o b \in Seq(S) /\ Len(a \o b) = Len(a) + Len(b)
        /\ \A i \in 1..Len(a) : (a \o b)[i] = a[i]
        /\ \A i \in 1..Len(b) : (a \o b)[Len(a) + i] = b[i]
    <3>1. a \in Seq(S) /\ b \in Seq(S)
      BY <1>2, <1>3
    <3>2. QED
      BY <3>1, Joined
  <2>2. Len(a) = k - 1 /\ Len(b) = Len(s) - k
    BY <1>2, <1>3
  <2>3. QED
    BY <2>1, <2>2
<1>6. ASSUME NEW i \in k..(Len(s) - 1) PROVE (a \o b)[i] = s[i + 1]
  <2>1. PICK j \in 1..(Len(s) - k) : (k - 1) + j = i /\ j + k = i + 1
    <3>1. i - (k - 1) \in 1..(Len(s) - k) /\ (k - 1) + (i - (k - 1)) = i
          /\ (i - (k - 1)) + k = i + 1
      BY <1>1
    <3>2. QED
      BY <3>1
  <2>2. (a \o b)[(k - 1) + j] = b[j] /\ b[j] = s[j + k]
    BY <1>3, <1>5
  <2>3. QED
    BY <2>1, <2>2
<1>7. (k - 1) + (Len(s) - k) = Len(s) - 1
  BY <1>1
<1>8. QED
  BY <1>2, <1>4, <1>5, <1>6, <1>7

\* A sequence with a new entry at place k.
LEMMA InsertedAt ==
    ASSUME NEW S, NEW s \in Seq(S), NEW k \in 1..(Len(s) + 1), NEW e \in S
    PROVE  LET r == InsertAt(s, k, e)
           IN  /\ r \in Seq(S) /\ Len(r) = Len(s) + 1
               /\ \A i \in 1..(k - 1) : r[i] = s[i]
               /\ r[k] = e
               /\ \A i \in k..Len(s) : r[i + 1] = s[i]
<1> DEFINE a == SubSeq(s, 1, k - 1)
           b == SubSeq(s, (k - 1) + 1, Len(s))
           c == <<e>>
<1>1. Len(s) \in Nat /\ k \in Nat /\ k >= 1 /\ k <= Len(s) + 1 /\ k - 1 \in 0..Len(s) /\ (k - 1) + 1 = k
  OBVIOUS
<1>2. a \in Seq(S) /\ Len(a) = k - 1 /\ \A i \in 1..(k - 1) : a[i] = s[i]
  BY <1>1, Ends
<1>3. b \in Seq(S) /\ Len(b) = Len(s) - (k - 1) /\ \A i \in 1..(Len(s) - (k - 1)) : b[i] = s[i + (k - 1)]
  BY <1>1, Ends
<1>4. c \in Seq(S) /\ Len(c) = 1 /\ c[1] = e
  OBVIOUS
<1>5. InsertAt(s, k, e) = (a \o c) \o b
  BY <1>1 DEF InsertAt
<1> HIDE DEF a, b, c
<1>6. /\ a \o c \in Seq(S) /\ Len(a \o c) = (k - 1) + 1
      /\ \A i \in 1..(k - 1) : (a \o c)[i] = a[i]
      /\ \A i \in 1..1 : (a \o c)[(k - 1) + i] = c[i]
  <2>1. /\ a \o c \in Seq(S) /\ Len(a \o c) = Len(a) + Len(c)
        /\ \A i \in 1..Len(a) : (a \o c)[i] = a[i]
        /\ \A i \in 1..Len(c) : (a \o c)[Len(a) + i] = c[i]
    <3>1. a \in Seq(S) /\ c \in Seq(S)
      BY <1>2, <1>4
    <3>2. QED
      BY <3>1, Joined
  <2>2. Len(a) = k - 1 /\ Len(c) = 1
    BY <1>2, <1>4
  <2>3. QED
    BY <2>1, <2>2
<1> DEFINE d == a \o c
<1>7. d \in Seq(S) /\ Len(d) = k /\ (\A i \in 1..(k - 1) : d[i] = s[i]) /\ d[k] = e
  BY <1>1, <1>2, <1>4, <1>6
<1> HIDE DEF d
<1>8. /\ d \o b \in Seq(S) /\ Len(d \o b) = k + (Len(s) - (k - 1))
      /\ \A i \in 1..k : (d \o b)[i] = d[i]
      /\ \A i \in 1..(Len(s) - (k - 1)) : (d \o b)[k + i] = b[i]
  <2>1. /\ d \o b \in Seq(S) /\ Len(d \o b) = Len(d) + Len(b)
        /\ \A i \in 1..Len(d) : (d \o b)[i] = d[i]
        /\ \A i \in 1..Len(b) : (d \o b)[Len(d) + i] = b[i]
    <3>1. d \in Seq(S) /\ b \in Seq(S)
      BY <1>3, <1>7
    <3>2. QED
      BY <3>1, Joined
  <2>2. Len(d) = k /\ Len(b) = Len(s) - (k - 1)
    BY <1>3, <1>7
  <2>3. QED
    BY <2>1, <2>2
<1>9. ASSUME NEW i \in k..Len(s) PROVE (d \o b)[i + 1] = s[i]
  <2>1. PICK j \in 1..(Len(s) - (k - 1)) : k + j = i + 1 /\ j + (k - 1) = i
    <3>1. /\ i - (k - 1) \in 1..(Len(s) - (k - 1)) /\ k + (i - (k - 1)) = i + 1
          /\ (i - (k - 1)) + (k - 1) = i
      BY <1>1
    <3>2. QED
      BY <3>1
  <2>2. (d \o b)[k + j] = b[j] /\ b[j] = s[j + (k - 1)]
    BY <1>3, <1>8
  <2>3. QED
    BY <2>1, <2>2
<1>10. k + (Len(s) - (k - 1)) = Len(s) + 1
  BY <1>1
<1>11. ASSUME NEW i \in 1..(k - 1) PROVE (d \o b)[i] = s[i]
  <2>1. i \in 1..k
    BY <1>1
  <2>2. QED
    BY <2>1, <1>7, <1>8
<1>12. (d \o b)[k] = e
  BY <1>1, <1>7, <1>8
<1>13. QED
  BY <1>5, <1>8, <1>9, <1>10, <1>11, <1>12 DEF d


-----------------------------------------------------------------------------
(* The inductive invariant. *)

Entry == [index : 0..(Modulus - 1), id : Nat \ {0}, hasSent : BOOLEAN, overdue : BOOLEAN]
Msg == [index : 0..(Modulus - 1), id : Nat \ {0}]

Wired(s) == \A i \in DOMAIN s : s[i].index = Wire(s[i].id)
Ascending(s) == \A i, j \in DOMAIN s : i < j => s[i].id < s[j].id

Counters ==
    /\ sentCount \in Nat
    /\ outIndex = Wire(sentCount + 1)
    /\ delivered \in Seq(Nat)
    /\ inIndex = Wire(Len(delivered) + 1)
    /\ open \in BOOLEAN

SenderList ==
    /\ outList \in Seq(Entry)
    /\ Wired(outList)
    /\ Ascending(outList)
    /\ \A i \in DOMAIN outList : outList[i].overdue => outList[i].hasSent

ReceiverList ==
    /\ inList \in Seq(Msg)
    /\ Wired(inList)
    /\ Ascending(inList)

Datagrams ==
    /\ dataNet \in SUBSET Msg
    /\ \A m \in dataNet : m.index = Wire(m.id)

\* The numbers of S in ascending order.
Enumerates(s, S) ==
    /\ s \in Seq(Nat)
    /\ \A i, j \in DOMAIN s : i < j => s[i] < s[j]
    /\ S = {s[i] : i \in DOMAIN s}

Acknowledgements ==
    /\ IsFiniteSet(ackNet)
    /\ \A a \in ackNet :
          /\ a.index = Wire(a.ghost.last)
          /\ \E s : /\ Enumerates(s, a.ghost.have)
                    /\ a.have = [i \in 1..Len(s) |-> Wire(s[i])]

Shape == Counters /\ SenderList /\ ReceiverList /\ Datagrams /\ Acknowledgements

LInv == Shape /\ P!IInv

\* What ReliableTranscoder's invariant says of the lists.
LEMMA Bounds ==
    ASSUME LInv
    PROVE  /\ sentCount \in Nat /\ Len(delivered) \in Nat
           /\ Len(delivered) <= sentCount
           /\ sentCount - Len(delivered) <= Window
           /\ \A i \in DOMAIN outList : /\ outList[i].id \in 1..sentCount
                                        /\ sentCount + 1 - outList[i].id <= Window
           /\ \A i \in DOMAIN inList : inList[i].id \in (Len(delivered) + 2)..sentCount
<1>1. P!TypeOK /\ P!NoMessageLost /\ P!StoredWindow
  BY DEF LInv, P!IInv
<1>2. sentCount \in Nat /\ Len(delivered) \in Nat
  BY DEF LInv, Shape, Counters
<1>3. Len(delivered) + 1 \in 1..(sentCount + 1)
  BY <1>1 DEF P!TypeOK
<1>4. (sentCount + 1) - (Len(delivered) + 1) <= Window
  BY <1>1, P!ReceiverBounds, Constants
<1>5. ASSUME NEW i \in DOMAIN outList
      PROVE  outList[i].id \in 1..sentCount /\ sentCount + 1 - outList[i].id <= Window
  <2>1. outList[i].id \in {e.id : e \in Entries}
    BY DEF Entries
  <2>2. outList[i].id \in {n \in 1..((sentCount + 1) - 1) : (sentCount + 1) - n <= Window}
    BY <1>1, <2>1 DEF P!TypeOK
  <2>3. QED
    BY <2>2, <1>2
<1>6. ASSUME NEW i \in DOMAIN inList
      PROVE  inList[i].id \in (Len(delivered) + 2)..sentCount
  <2>1. inList[i].id \in {inList[j].id : j \in DOMAIN inList}
    OBVIOUS
  <2>2. {inList[j].id : j \in DOMAIN inList}
            \subseteq ((Len(delivered) + 1) + 1)..((sentCount + 1) - 1)
    BY <1>1, P!ReceiverBounds, Constants
  <2>3. inList[i].id \in ((Len(delivered) + 1) + 1)..((sentCount + 1) - 1)
    BY <2>1, <2>2
  <2>4. QED
    BY <2>3, <1>2
<1>7. QED
  BY <1>2, <1>3, <1>4, <1>5, <1>6, ListsAssumption

\* The distances that the loops compute are differences of message numbers.
LEMMA ListDistances ==
    ASSUME LInv
    PROVE  /\ \A i \in DOMAIN outList :
                 DistanceToIndex(outList[i].index, outIndex) = outList[i].id - (sentCount + 1)
           /\ \A i \in DOMAIN inList :
                 DistanceToIndex(inList[i].index, inIndex) = inList[i].id - (Len(delivered) + 1)
<1>1. Window \in Nat /\ Window <= HalfRange /\ HalfRange \in Nat
  BY ListsAssumption, HalfRangeBound
<1>2. Shape
  BY DEF LInv
<1>3. ASSUME NEW i \in DOMAIN outList
      PROVE  DistanceToIndex(outList[i].index, outIndex) = outList[i].id - (sentCount + 1)
  <2>1. outList[i].index = Wire(outList[i].id) /\ outIndex = Wire(sentCount + 1)
    BY <1>2 DEF Shape, SenderList, Wired, Counters
  <2>2. PICK n, m \in Int : n = outList[i].id /\ m = sentCount + 1
    BY Bounds
  <2>3. n - m <= HalfRange /\ n - m >= -HalfRange
    BY <1>1, <2>2, Bounds
  <2>4. QED
    BY <2>1, <2>2, <2>3, WireDistance
<1>4. ASSUME NEW i \in DOMAIN inList
      PROVE  DistanceToIndex(inList[i].index, inIndex) = inList[i].id - (Len(delivered) + 1)
  <2>1. inList[i].index = Wire(inList[i].id) /\ inIndex = Wire(Len(delivered) + 1)
    BY <1>2 DEF Shape, ReceiverList, Wired, Counters
  <2>2. PICK n, m \in Int : n = inList[i].id /\ m = Len(delivered) + 1
    BY Bounds
  <2>3. n - m <= HalfRange /\ n - m >= -HalfRange
    BY <1>1, <2>2, Bounds
  <2>4. QED
    BY <2>1, <2>2, <2>3, WireDistance
<1>5. QED
  BY <1>3, <1>4

\* The shape has both lists in ascending index order.
LEMMA InvariantSorts == LInv => ListsSorted
<1> SUFFICES ASSUME LInv PROVE ListsSorted
  OBVIOUS
<1>1. Ascending(outList) /\ Ascending(inList)
  BY DEF LInv, Shape, SenderList, ReceiverList
<1>2. ASSUME NEW i \in DOMAIN outList, NEW j \in DOMAIN outList, i < j
      PROVE  DistanceToIndex(outList[i].index, outIndex)
                < DistanceToIndex(outList[j].index, outIndex)
  <2>1. PICK n, m, k \in Int : n = outList[i].id /\ m = outList[j].id /\ k = sentCount + 1
    BY Bounds
  <2>2. n < m
    BY <1>1, <1>2, <2>1 DEF Ascending
  <2>3. n - k < m - k
    BY <2>2
  <2>4. QED
    BY <2>1, <2>3, ListDistances
<1>3. ASSUME NEW i \in DOMAIN inList, NEW j \in DOMAIN inList, i < j
      PROVE  DistanceToIndex(inList[i].index, inIndex)
                < DistanceToIndex(inList[j].index, inIndex)
  <2>1. PICK n, m, k \in Int : n = inList[i].id /\ m = inList[j].id /\ k = Len(delivered) + 1
    BY Bounds
  <2>2. n < m
    BY <1>1, <1>3, <2>1 DEF Ascending
  <2>3. n - k < m - k
    BY <2>2
  <2>4. QED
    BY <2>1, <2>3, ListDistances
<1>4. QED
  BY <1>2, <1>3 DEF ListsSorted


-----------------------------------------------------------------------------
(* Each action maps to an action of ReliableTranscoder. *)

Ids(s) == {s[i].id : i \in DOMAIN s}
SentIds(s) == {s[i].id : i \in {j \in DOMAIN s : s[j].hasSent}}
OverdueIds(s) == {s[i].id : i \in {j \in DOMAIN s : s[j].overdue}}

\* The mapped sets are those of the lists.
LEMMA Mapping ==
    /\ {e.id : e \in Entries} = Ids(outList)
    /\ {e.id : e \in {f \in Entries : f.hasSent}} = SentIds(outList)
    /\ {e.id : e \in {f \in Entries : f.overdue}} = OverdueIds(outList)
    /\ {inList[i].id : i \in DOMAIN inList} = Ids(inList)
BY DEF Entries, Ids, SentIds, OverdueIds

\* And so they are after a step.
LEMMA MappingNext ==
    /\ {e.id : e \in Entries}' = Ids(outList')
    /\ {e.id : e \in {f \in Entries : f.hasSent}}' = SentIds(outList')
    /\ {e.id : e \in {f \in Entries : f.overdue}}' = OverdueIds(outList')
    /\ {inList[i].id : i \in DOMAIN inList}' = Ids(inList')
BY DEF Entries, Ids, SentIds, OverdueIds

\* The initial state has the invariant.
LEMMA Initially == Init => LInv
<1> SUFFICES ASSUME Init PROVE LInv
  OBVIOUS
<1>1. P!Init
  <2>1. DOMAIN outList = {} /\ DOMAIN inList = {} /\ Len(delivered) = 0
    BY DEF Init
  <2>2. /\ Ids(outList) = {} /\ SentIds(outList) = {} /\ OverdueIds(outList) = {}
        /\ Ids(inList) = {}
    BY <2>1 DEF Ids, SentIds, OverdueIds
  <2>3. delivered = [k \in 1..0 |-> k]
    BY DEF Init
  <2>4. /\ sentCount + 1 = 1 /\ Len(delivered) + 1 = 1 /\ open = TRUE
        /\ {m.id : m \in dataNet} = {} /\ {a.ghost : a \in ackNet} = {}
    BY <2>1 DEF Init
  <2>5. QED
    BY <2>2, <2>3, <2>4, Mapping DEF P!Init
<1>2. P!IInv
  BY <1>1, P!InitEstablishesIInv, Constants
<1>3. Wire(1) = FirstIndex
  BY ListsAssumption DEF Wire
<1>4. Shape
  <2>1. IsFiniteSet(ackNet)
    BY FS_EmptySet DEF Init
  <2>2. QED
    BY <1>3, <2>1 DEF Init, Shape, Counters, SenderList, ReceiverList, Datagrams,
       Acknowledgements, Wired, Ascending
<1>5. QED
  BY <1>2, <1>4 DEF LInv

\* Send appends a message: it is Send.
LEMMA SendRefines ==
    ASSUME LInv, SendReliable
    PROVE  Shape' /\ P!Send
<1> DEFINE new == [index |-> outIndex, id |-> sentCount + 1,
                   hasSent |-> FALSE, overdue |-> FALSE]
           n == Len(outList)
<1>1. Shape
  BY DEF LInv
<1>2. /\ outList' = Append(outList, new) /\ sentCount' = sentCount + 1
      /\ outIndex' = Successor(outIndex)
      /\ UNCHANGED <<dataNet, ackNet, inIndex, inList, delivered, open>>
  BY DEF SendReliable, reliableReceiver
<1>3. /\ sentCount \in Nat /\ outIndex = Wire(sentCount + 1) /\ outList \in Seq(Entry)
      /\ n \in Nat /\ DOMAIN outList = 1..n
  BY <1>1 DEF Shape, Counters, SenderList
<1>4. new \in Entry
  BY <1>3, WireType DEF Entry
<1>5. outIndex' = Wire(sentCount' + 1)
  BY <1>2, <1>3, WireSteps DEF Successor
<1> HIDE DEF new, n
<1>6. /\ outList' \in Seq(Entry) /\ Len(outList') = n + 1 /\ DOMAIN outList' = 1..(n + 1)
      /\ \A i \in 1..n : outList'[i] = outList[i]
      /\ outList'[n + 1] = new
  BY <1>2, <1>3, <1>4 DEF n
<1>7. /\ new.id = sentCount + 1 /\ new.index = Wire(new.id) /\ ~new.hasSent /\ ~new.overdue
  BY <1>3 DEF new
<1>8. \A i \in 1..n : outList[i].id < sentCount + 1 /\ outList[i].id \in Nat
  <2>1. \A i \in DOMAIN outList : outList[i].id \in 1..sentCount
    BY Bounds
  <2>2. \A i \in 1..n : outList[i].id \in 1..sentCount
    BY <2>1, <1>3, Zenon
  <2>3. QED
    BY <2>2, <1>3
<1>9. SenderList'
  <2>1. Wired(outList')
    BY <1>1, <1>3, <1>6, <1>7 DEF Shape, SenderList, Wired
  <2>2. Ascending(outList')
    BY <1>1, <1>3, <1>6, <1>7, <1>8 DEF Shape, SenderList, Ascending
  <2>3. \A i \in DOMAIN outList' : outList'[i].overdue => outList'[i].hasSent
    BY <1>1, <1>3, <1>6, <1>7 DEF Shape, SenderList
  <2>4. QED
    BY <1>6, <2>1, <2>2, <2>3 DEF SenderList
<1>10. Shape'
  <2>1. Counters'
    BY <1>1, <1>2, <1>3, <1>5 DEF Shape, Counters
  <2>2. ReceiverList' /\ Datagrams' /\ Acknowledgements'
    BY <1>1, <1>2 DEF Shape, ReceiverList, Datagrams, Acknowledgements
  <2>3. QED
    BY <1>9, <2>1, <2>2 DEF Shape
<1>11. /\ Ids(outList') = Ids(outList) \cup {sentCount + 1}
       /\ SentIds(outList') = SentIds(outList)
       /\ OverdueIds(outList') = OverdueIds(outList)
  BY <1>3, <1>6, <1>7 DEF Ids, SentIds, OverdueIds
<1>12. sentCount + 1 <= MaxMessages
  BY <1>3, ListsAssumption DEF SendReliable
<1>13. ASSUME NEW m \in Ids(outList) PROVE (sentCount + 1) - m < Window
  <2>1. PICK i \in DOMAIN outList : m = outList[i].id
    BY DEF Ids
  <2>2. sentCount + 1 - outList[i].id < Window
    BY DEF SendReliable
  <2>3. sentCount \in Nat /\ outList[i].id \in Int
    BY <1>3, Bounds
  <2>4. QED
    BY <2>1, <2>2, <2>3
<1>14. P!Send
  BY <1>2, <1>11, <1>12, <1>13, Mapping, MappingNext DEF P!Send, P!network, P!receiver
<1>15. QED
  BY <1>10, <1>14

\* Time passes for the same messages.
LEMMA PassTimeRefines ==
    ASSUME LInv, NEW group \in SUBSET DOMAIN outList, PassTime(group)
    PROVE  Shape' /\ \E g \in SUBSET (SentIds(outList) \ OverdueIds(outList)) : P!PassTime(g)
<1>1. Shape
  BY DEF LInv
<1>2. /\ outList \in Seq(Entry) /\ Ascending(outList)
      /\ \A i \in DOMAIN outList : outList[i] \in Entry
  BY <1>1 DEF Shape, SenderList
<1>3. /\ DOMAIN outList' = DOMAIN outList
      /\ \A i \in DOMAIN outList :
            outList'[i] = IF i \in group THEN [outList[i] EXCEPT !.overdue = TRUE]
                                         ELSE outList[i]
      /\ \A i \in group : outList[i].hasSent /\ ~outList[i].overdue
      /\ group # {}
      /\ UNCHANGED <<sentCount, outIndex, dataNet, ackNet, inIndex, inList, delivered, open>>
  BY DEF PassTime, reliableReceiver
<1>4. \A i \in DOMAIN outList :
         /\ outList'[i] \in Entry
         /\ outList'[i].id = outList[i].id /\ outList'[i].index = outList[i].index
         /\ outList'[i].hasSent <=> outList[i].hasSent
         /\ outList'[i].overdue <=> outList[i].overdue \/ i \in group
  <2>1. SUFFICES ASSUME NEW i \in DOMAIN outList
                 PROVE  /\ outList'[i] \in Entry
                        /\ outList'[i].id = outList[i].id
                        /\ outList'[i].index = outList[i].index
                        /\ outList'[i].hasSent <=> outList[i].hasSent
                        /\ outList'[i].overdue <=> outList[i].overdue \/ i \in group
    OBVIOUS
  <2>2. outList[i] \in Entry
    BY <1>2
  <2>3. CASE i \in group
    <3>1. outList'[i] = [outList[i] EXCEPT !.overdue = TRUE]
      BY <2>3, <1>3
    <3>2. QED
      BY <2>2, <2>3, <3>1 DEF Entry
  <2>4. CASE i \notin group
    <3>1. outList'[i] = outList[i]
      BY <2>4, <1>3
    <3>2. QED
      BY <2>2, <2>4, <3>1
  <2>5. QED
    BY <2>3, <2>4
<1>5. outList' \in Seq(Entry)
  <2>1. DOMAIN outList = 1..Len(outList) /\ Len(outList) \in Nat
    BY <1>2
  <2>2. outList' = [i \in 1..Len(outList) |-> outList'[i]]
    BY <2>1 DEF PassTime
  <2>3. \A i \in 1..Len(outList) : outList'[i] \in Entry
    BY <2>1, <1>4
  <2>4. QED
    BY <2>1, <2>2, <2>3
<1>6. SenderList'
  BY <1>1, <1>3, <1>4, <1>5 DEF Shape, SenderList, Wired, Ascending
<1>7. Shape'
  BY <1>1, <1>3, <1>6 DEF Shape, Counters, ReceiverList, Datagrams, Acknowledgements
<1>0. PICK g : g = {outList[i].id : i \in group}
  OBVIOUS
<1>8. /\ Ids(outList') = Ids(outList)
      /\ SentIds(outList') = SentIds(outList)
      /\ OverdueIds(outList') = OverdueIds(outList) \cup g
  <2>1. DOMAIN outList' = DOMAIN outList /\ group \subseteq DOMAIN outList
    BY <1>3
  <2>2. Ids(outList') = Ids(outList)
    BY <2>1, <1>4 DEF Ids
  <2>3. SentIds(outList') = SentIds(outList)
    <3>1. {j \in DOMAIN outList' : outList'[j].hasSent} = {j \in DOMAIN outList : outList[j].hasSent}
      BY <2>1, <1>4
    <3>2. QED
      BY <3>1, <1>4 DEF SentIds
  <2>4. OverdueIds(outList') = OverdueIds(outList) \cup g
    <3>1. {j \in DOMAIN outList' : outList'[j].overdue}
            = {j \in DOMAIN outList : outList[j].overdue} \cup group
      BY <2>1, <1>4
    <3>2. \A i \in DOMAIN outList : outList'[i].id = outList[i].id
      BY <1>4
    <3>3. QED
      BY <3>1, <3>2, <1>0 DEF OverdueIds
  <2>5. QED
    BY <2>2, <2>3, <2>4
<1>9. g \subseteq SentIds(outList) \ OverdueIds(outList)
  <2>1. ASSUME NEW i \in group, NEW j \in DOMAIN outList, outList[i].id = outList[j].id
        PROVE  i = j
    <3>1. i \in DOMAIN outList /\ DOMAIN outList \subseteq Int
      BY <1>2
    <3>2. outList[i].id \in Nat /\ outList[j].id \in Nat
      BY <3>1, <1>2 DEF Entry
    <3>3. ~(i < j) /\ ~(j < i)
      BY <2>1, <3>1, <3>2, <1>2 DEF Ascending
    <3>4. QED
      BY <3>1, <3>3
  <2>2. QED
    BY <2>1, <1>0, <1>3 DEF SentIds, OverdueIds
<1>10. g # {}
  BY <1>0, <1>3
<1>11. P!PassTime(g)
  <2>1. UNCHANGED <<P!network, P!receiver>> /\ (sentCount + 1)' = sentCount + 1
    BY <1>3 DEF P!network, P!receiver
  <2>2. {e.id : e \in {f \in Entries : f.overdue}}'
           = {e.id : e \in {f \in Entries : f.overdue}} \cup g
    BY <1>8, Mapping, MappingNext
  <2>3. UNCHANGED <<{e.id : e \in Entries}, {e.id : e \in {f \in Entries : f.hasSent}}>>
    BY <1>8, Mapping, MappingNext
  <2>4. g \subseteq {e.id : e \in {f \in Entries : f.hasSent}}
                        \ {e.id : e \in {f \in Entries : f.overdue}}
    BY <1>9, Mapping
  <2>5. QED
    BY <2>1, <2>2, <2>3, <2>4, <1>10 DEF P!PassTime
<1>12. QED
  BY <1>7, <1>9, <1>11


\* In an ascending list the order of numbers is the order of places.
LEMMA AscendingOrder ==
    ASSUME NEW s, NEW n \in Nat, DOMAIN s = 1..n, \A i \in 1..n : s[i].id \in Nat,
           Ascending(s), NEW i \in 1..n, NEW j \in 1..n
    PROVE  /\ s[i].id < s[j].id <=> i < j
           /\ s[i].id = s[j].id <=> i = j
<1>1. i < j => s[i].id < s[j].id
  BY DEF Ascending
<1>2. j < i => s[j].id < s[i].id
  BY DEF Ascending
<1>3. s[i].id \in Nat /\ s[j].id \in Nat /\ i \in Nat /\ j \in Nat
  OBVIOUS
<1>4. QED
  BY <1>1, <1>2, <1>3

\* Update sends what is unsent before the place where it stopped: a set of
\* messages that SendUpdate may choose.
LEMMA SendUpdateRefines ==
    ASSUME LInv, NEW end \in 0..Len(outList), SendUpdate(end)
    PROVE  Shape' /\ \E b \in SUBSET (Ids(outList) \ SentIds(outList)) : P!SendUpdate(b)
<1> DEFINE n == Len(outList)
           batch == {i \in 1..end : ~outList[i].hasSent}
<1>0. PICK b : b = {outList[i].id : i \in batch}
  OBVIOUS
<1>1. Shape
  BY DEF LInv
<1>2. /\ outList \in Seq(Entry) /\ Ascending(outList) /\ Wired(outList)
      /\ n \in Nat /\ DOMAIN outList = 1..n /\ end \in Nat /\ end <= n
      /\ \A i \in 1..n : outList[i] \in Entry
  BY <1>1 DEF Shape, SenderList
<1>3. /\ DOMAIN outList' = 1..n
      /\ \A i \in 1..n :
            outList'[i] = IF i \in batch THEN [outList[i] EXCEPT !.hasSent = TRUE]
                                         ELSE outList[i]
      /\ dataNet' = dataNet \cup
            {[index |-> outList[i].index, id |-> outList[i].id] : i \in batch}
      /\ UNCHANGED <<sentCount, outIndex, ackNet, inIndex, inList, delivered, open>>
  BY <1>2 DEF SendUpdate, reliableReceiver
<1>4. batch \subseteq 1..n /\ \A i \in batch : i <= end /\ ~outList[i].hasSent
  BY <1>2
<1>5. \A i \in 1..n : i <= end /\ ~outList[i].hasSent => i \in batch
  BY <1>2
<1>6. outList' = [i \in 1..n |-> outList'[i]]
  BY <1>2 DEF SendUpdate
<1> HIDE DEF batch
<1>7. \A i \in 1..n :
         /\ outList'[i] \in Entry
         /\ outList'[i].id = outList[i].id /\ outList'[i].index = outList[i].index
         /\ outList'[i].hasSent <=> outList[i].hasSent \/ i \in batch
         /\ outList'[i].overdue <=> outList[i].overdue
  <2>1. SUFFICES ASSUME NEW i \in 1..n
                 PROVE  /\ outList'[i] \in Entry
                        /\ outList'[i].id = outList[i].id
                        /\ outList'[i].index = outList[i].index
                        /\ outList'[i].hasSent <=> outList[i].hasSent \/ i \in batch
                        /\ outList'[i].overdue <=> outList[i].overdue
    OBVIOUS
  <2>2. outList[i] \in Entry
    BY <1>2
  <2>3. CASE i \in batch
    <3>1. outList'[i] = [outList[i] EXCEPT !.hasSent = TRUE]
      BY <2>3, <1>3
    <3>2. QED
      BY <2>2, <2>3, <3>1 DEF Entry
  <2>4. CASE i \notin batch
    <3>1. outList'[i] = outList[i]
      BY <2>4, <1>3
    <3>2. QED
      BY <2>2, <2>4, <3>1
  <2>5. QED
    BY <2>3, <2>4
<1>8. outList' \in Seq(Entry)
  BY <1>2, <1>6, <1>7
<1>9. SenderList'
  BY <1>1, <1>2, <1>3, <1>7, <1>8 DEF Shape, SenderList, Wired, Ascending
<1>10. Datagrams'
  <2>1. ASSUME NEW i \in batch
        PROVE  LET m == [index |-> outList[i].index, id |-> outList[i].id]
               IN  m \in Msg /\ m.index = Wire(m.id)
    BY <1>2, <1>4 DEF Entry, Msg, Wired
  <2>2. QED
    BY <2>1, <1>1, <1>3 DEF Shape, Datagrams
<1>11. Shape'
  BY <1>1, <1>3, <1>9, <1>10 DEF Shape, Counters, ReceiverList, Acknowledgements
<1>12. /\ Ids(outList') = Ids(outList)
       /\ SentIds(outList') = SentIds(outList) \cup b
       /\ OverdueIds(outList') = OverdueIds(outList)
  <2>1. Ids(outList') = Ids(outList)
    BY <1>2, <1>3, <1>7 DEF Ids
  <2>2. SentIds(outList') = SentIds(outList) \cup b
    <3>1. {j \in DOMAIN outList' : outList'[j].hasSent}
             = {j \in DOMAIN outList : outList[j].hasSent} \cup batch
      BY <1>2, <1>3, <1>4, <1>7
    <3>2. \A i \in DOMAIN outList : outList'[i].id = outList[i].id
      BY <1>2, <1>7
    <3>3. QED
      BY <3>1, <3>2, <1>0, <1>2, <1>4 DEF SentIds
  <2>3. OverdueIds(outList') = OverdueIds(outList)
    <3>1. {j \in DOMAIN outList' : outList'[j].overdue}
             = {j \in DOMAIN outList : outList[j].overdue}
      BY <1>2, <1>3, <1>7
    <3>2. QED
      BY <3>1, <1>2, <1>7 DEF OverdueIds
  <2>4. QED
    BY <2>1, <2>2, <2>3
<1>13. \A i, j \in 1..n : /\ outList[i].id < outList[j].id <=> i < j
                          /\ outList[i].id = outList[j].id <=> i = j
  <2>1. n \in Nat /\ DOMAIN outList = 1..n /\ Ascending(outList)
    BY <1>2
  <2>2. \A i \in 1..n : outList[i].id \in Nat
    BY <1>2 DEF Entry
  <2>3. QED
    BY <2>1, <2>2, AscendingOrder
<1>14. b \subseteq Ids(outList) \ SentIds(outList)
  BY <1>0, <1>2, <1>4, <1>13 DEF Ids, SentIds
<1>15. ASSUME NEW p \in b, NEW m \in Ids(outList) \ SentIds(outList), m < p
       PROVE  m \in b
  <2>1. PICK i \in batch : p = outList[i].id
    BY <1>0
  <2>2. PICK j \in 1..n : m = outList[j].id /\ ~outList[j].hasSent
    BY <1>2 DEF Ids, SentIds
  <2>3. j < i
    BY <2>1, <2>2, <1>4, <1>13, <1>15
  <2>4. j \in batch
    BY <2>1, <2>2, <2>3, <1>2, <1>4, <1>5
  <2>5. QED
    BY <2>2, <2>4, <1>0
<1>16. {m.id : m \in dataNet'} = {m.id : m \in dataNet} \cup b
  <2> DEFINE msg(i) == [index |-> outList[i].index, id |-> outList[i].id]
  <2>1. \A i \in batch : msg(i) \in dataNet' /\ msg(i).id = outList[i].id /\ msg(i).id \in b
    BY <1>0, <1>3
  <2>2. \A m \in dataNet' : m \in dataNet \/ \E i \in batch : m = msg(i)
    BY <1>3
  <2>3. dataNet \subseteq dataNet'
    BY <1>3
  <2> HIDE DEF msg
  <2>4. QED
    BY <2>1, <2>2, <2>3, <1>0
<1>17. P!SendUpdate(b)
  <2>1. /\ UNCHANGED P!receiver /\ (sentCount + 1)' = sentCount + 1
        /\ UNCHANGED {a.ghost : a \in ackNet}
    BY <1>3 DEF P!receiver
  <2>2. QED
    BY <2>1, <1>12, <1>14, <1>15, <1>16, Mapping, MappingNext DEF P!SendUpdate
<1>18. QED
  BY <1>11, <1>14, <1>17

\* The acknowledgement names the awaited index and those of the stored
\* messages: it is RecvUpdate.
LEMMA RecvUpdateRefines ==
    ASSUME LInv, RecvUpdate
    PROVE  Shape' /\ P!RecvUpdate
<1> DEFINE s == [i \in DOMAIN inList |-> inList[i].id]
           new == [index |-> (inIndex - 1) % Modulus,
                   have  |-> [i \in DOMAIN inList |-> inList[i].index],
                   ghost |-> [last |-> Len(delivered),
                              have |-> {inList[i].id : i \in DOMAIN inList}]]
<1>1. Shape
  BY DEF LInv
<1>2. /\ ackNet' = ackNet \cup {new} /\ open /\ Cardinality(ackNet) < MaxAcks
      /\ UNCHANGED <<sentCount, outIndex, outList, dataNet, inIndex, inList, delivered, open>>
  BY DEF RecvUpdate, reliableReceiver, reliableSender
<1>3. /\ inList \in Seq(Msg) /\ Ascending(inList) /\ Wired(inList)
      /\ DOMAIN inList = 1..Len(inList) /\ Len(inList) \in Nat
      /\ inIndex = Wire(Len(delivered) + 1) /\ Len(delivered) \in Nat
      /\ IsFiniteSet(ackNet)
  BY <1>1 DEF Shape, Counters, ReceiverList, Acknowledgements
<1>4. new.index = Wire(new.ghost.last)
  <2>1. (Wire(Len(delivered) + 1) + (-1)) % Modulus = Wire((Len(delivered) + 1) + (-1))
    BY <1>3, WireSteps
  <2>2. (Len(delivered) + 1) + (-1) = Len(delivered) /\ inIndex \in Int
    BY <1>3, WireType
  <2>3. inIndex + (-1) = inIndex - 1
    BY <2>2
  <2>4. QED
    BY <2>1, <2>2, <2>3, <1>3
<1>5. Enumerates(s, new.ghost.have)
  <2>1. \A i \in 1..Len(inList) : inList[i].id \in Nat
    <3>1. \A i \in 1..Len(inList) : inList[i] \in Msg
      BY <1>3
    <3>2. QED
      BY <3>1 DEF Msg
  <2>2. s \in Seq(Nat) /\ DOMAIN s = 1..Len(inList)
    BY <2>1, <1>3
  <2>3. \A i, j \in DOMAIN s : i < j => s[i] < s[j]
    BY <1>3 DEF Ascending
  <2>4. new.ghost.have = {s[i] : i \in DOMAIN s}
    OBVIOUS
  <2>5. QED
    BY <2>2, <2>3, <2>4 DEF Enumerates
<1>6. new.have = [i \in 1..Len(s) |-> Wire(s[i])]
  BY <1>3 DEF Wired
<1>7. new.ghost = [last |-> Len(delivered), have |-> Ids(inList)]
  BY DEF Ids
<1> HIDE DEF s, new
<1>8. Acknowledgements'
  <2>1. IsFiniteSet(ackNet')
    BY <1>2, <1>3, FS_AddElement
  <2>2. \A a \in ackNet' :
           /\ a.index = Wire(a.ghost.last)
           /\ \E t : /\ Enumerates(t, a.ghost.have)
                     /\ a.have = [i \in 1..Len(t) |-> Wire(t[i])]
    BY <1>1, <1>2, <1>4, <1>5, <1>6 DEF Shape, Acknowledgements
  <2>3. QED
    BY <2>1, <2>2 DEF Acknowledgements
<1>9. Shape'
  BY <1>1, <1>2, <1>8 DEF Shape, Counters, SenderList, ReceiverList, Datagrams
<1>10. P!Cardinality({a.ghost : a \in ackNet}) < MaxAcks
  <2> DEFINE f == [a \in ackNet |-> a.ghost]
             T == {a.ghost : a \in ackNet}
  <2>1. f \in Surjection(ackNet, T)
    BY DEF Surjection
  <2>2. IsFiniteSet(T) /\ Cardinality(T) <= Cardinality(ackNet)
    BY <2>1, <1>3, FS_Surjection
  <2>3. Cardinality(T) \in Nat /\ Cardinality(ackNet) \in Nat
    BY <2>2, <1>3, FS_CardinalityType
  <2>4. P!Cardinality(T) = Cardinality(T)
    BY DEF P!Cardinality, Cardinality
  <2> HIDE DEF T
  <2>5. P!Cardinality(T) < MaxAcks
    BY <2>2, <2>3, <2>4, <1>2, ListsAssumption
  <2>6. QED
    BY <2>5 DEF T
<1>11. {a.ghost : a \in ackNet'} = {a.ghost : a \in ackNet} \cup {new.ghost}
  BY <1>2
<1>12. P!RecvUpdate
  <2>1. /\ UNCHANGED <<P!receiver, P!sender>>
        /\ UNCHANGED {m.id : m \in dataNet}
    BY <1>2 DEF P!receiver, P!sender, Entries
  <2>2. new.ghost = [last |-> (Len(delivered) + 1) - 1,
                     have |-> {inList[i].id : i \in DOMAIN inList}]
    <3>1. (Len(delivered) + 1) - 1 = Len(delivered)
      BY <1>3
    <3>2. QED
      BY <3>1, <1>7, Mapping
  <2>3. QED
    BY <2>1, <2>2, <1>2, <1>10, <1>11 DEF P!RecvUpdate
<1>13. QED
  BY <1>9, <1>12

\* A loss is LoseData or LoseAck, or a stutter if the same numbers were sent twice.
LEMMA LoseRefines ==
    ASSUME LInv, Lose
    PROVE  /\ Shape'
           /\ \/ \E n \in {m.id : m \in dataNet} : P!LoseData(n)
              \/ \E g \in {a.ghost : a \in ackNet} : P!LoseAck(g)
              \/ UNCHANGED P!vars
<1>1. Shape
  BY DEF LInv
<1>2. UNCHANGED <<sentCount, outIndex, outList, inIndex, inList, delivered, open>>
  BY DEF Lose, reliableReceiver, reliableSender
<1>3. UNCHANGED <<P!receiver, P!sender>>
  BY <1>2 DEF P!receiver, P!sender, Entries
<1>4. ASSUME NEW d \in dataNet, dataNet' = dataNet \ {d}, UNCHANGED ackNet
      PROVE  Shape' /\ P!LoseData(d.id)
  <2>1. Shape'
    BY <1>1, <1>2, <1>4
       DEF Shape, Counters, SenderList, ReceiverList, Datagrams, Acknowledgements
  <2>2. \A m \in dataNet : m.id = d.id => m = d
    BY <1>1 DEF Shape, Datagrams, Msg
  <2>3. {m.id : m \in dataNet'} = {m.id : m \in dataNet} \ {d.id}
    BY <1>4, <2>2
  <2>4. P!LoseData(d.id)
    BY <1>3, <1>4, <2>3 DEF P!LoseData
  <2>5. QED
    BY <2>1, <2>4
<1>5. ASSUME NEW d \in ackNet, ackNet' = ackNet \ {d}, UNCHANGED dataNet
      PROVE  Shape' /\ (P!LoseAck(d.ghost) \/ UNCHANGED P!vars)
  <2>1. IsFiniteSet(ackNet')
    BY <1>1, <1>5, FS_Subset DEF Shape, Acknowledgements
  <2>2. Shape'
    BY <1>1, <1>2, <1>5, <2>1
       DEF Shape, Counters, SenderList, ReceiverList, Datagrams, Acknowledgements
  <2>3. CASE \E a \in ackNet' : a.ghost = d.ghost
    <3>1. {a.ghost : a \in ackNet'} = {a.ghost : a \in ackNet}
      BY <1>5, <2>3
    <3>2. UNCHANGED P!vars
      BY <1>3, <1>5, <3>1 DEF P!vars, P!network
    <3>3. QED
      BY <2>2, <3>2
  <2>4. CASE \A a \in ackNet' : a.ghost # d.ghost
    <3>1. {a.ghost : a \in ackNet'} = {a.ghost : a \in ackNet} \ {d.ghost}
      BY <1>5, <2>4
    <3>2. P!LoseAck(d.ghost)
      BY <1>3, <1>5, <3>1 DEF P!LoseAck
    <3>3. QED
      BY <2>2, <3>2
  <2>5. QED
    BY <2>3, <2>4
<1>6. CASE \E d \in dataNet : dataNet' = dataNet \ {d} /\ UNCHANGED ackNet
  BY <1>4, <1>6
<1>7. CASE \E d \in ackNet : ackNet' = ackNet \ {d} /\ UNCHANGED dataNet
  BY <1>5, <1>7
<1>8. QED
  BY <1>6, <1>7 DEF Lose


\* A datagram that is not too stale tells how far its message is from the
\* awaited one, and it arrives in ReliableTranscoder as well.
LEMMA Arrival ==
    ASSUME LInv, NEW m \in dataNet, RecvReliable(m)
    PROVE  /\ m \in Msg /\ m.index = Wire(m.id) /\ m.id \in 1..sentCount
           /\ sentCount + 1 - m.id <= Lag
           /\ DistanceToIndex(m.index, inIndex) = m.id - (Len(delivered) + 1)
           /\ P!ArrivalDelta(m.id) = m.id - (Len(delivered) + 1)
           /\ P!Arrives(m.id)
           /\ UNCHANGED <<sentCount, outIndex, outList, ackNet>>
           /\ SenderList' /\ Datagrams' /\ Acknowledgements'
<1>1. Shape /\ P!TypeOK /\ P!NoMessageLost /\ P!StoredWindow
  BY DEF LInv, P!IInv
<1>2. /\ m \in Msg /\ m.index = Wire(m.id)
      /\ \A d \in dataNet : m.id = d.id => m = d
  BY <1>1 DEF Shape, Datagrams, Msg
<1>3. sentCount \in Nat /\ Len(delivered) \in Nat /\ inIndex = Wire(Len(delivered) + 1)
  BY <1>1, Bounds DEF Shape, Counters
<1>4. m.id \in 1..sentCount
  <2>1. m.id \in 1..((sentCount + 1) - 1)
    BY <1>1 DEF P!TypeOK
  <2>2. QED
    BY <2>1, <1>3
<1>5. (sentCount + 1) - m.id <= Lag /\ sentCount + 1 - m.id <= Lag
  BY <1>3, <1>4 DEF RecvReliable
<1>6. P!ArrivalDelta(m.id) = m.id - (Len(delivered) + 1)
  <2>1. m.id \in {d.id : d \in dataNet}
    OBVIOUS
  <2>2. QED
    BY <2>1, <1>1, <1>5, P!ReceiverBounds, Constants
<1>7. DistanceToIndex(m.index, inIndex) = m.id - (Len(delivered) + 1)
  BY <1>2, <1>3, <1>6
     DEF P!ArrivalDelta, P!DistanceToIndex, DistanceToIndex, P!HalfRange, HalfRange, P!Wire, Wire
<1>8. /\ dataNet' = dataNet \ {m} /\ open
      /\ UNCHANGED <<sentCount, outIndex, outList, ackNet>>
  BY DEF RecvReliable, reliableSender
<1>9. {d.id : d \in dataNet'} = {d.id : d \in dataNet} \ {m.id}
  BY <1>2, <1>8
<1>10. P!Arrives(m.id)
  BY <1>5, <1>8, <1>9 DEF P!Arrives
<1>11. SenderList' /\ Datagrams' /\ Acknowledgements'
  BY <1>1, <1>8 DEF Shape, SenderList, Datagrams, Acknowledgements
<1>12. QED
  BY <1>2, <1>4, <1>5, <1>6, <1>7, <1>8, <1>10, <1>11

\* Where the search for the place of a message stops.
LEMMA PlaceFound ==
    ASSUME LInv, NEW k \in Int
    PROVE  LET p == Place(k - (Len(delivered) + 1))
           IN  /\ p \in 1..(Len(inList) + 1)
               /\ \A i \in 1..(p - 1) : inList[i].id < k
               /\ p <= Len(inList) => k <= inList[p].id
<1> DEFINE n == Len(inList)
           x == Len(delivered) + 1
           d == k - x
           Below == {i \in 1..n : inList[i].id < k}
<1>1. /\ n \in Nat /\ x \in Nat /\ d \in Int
      /\ \A i \in 1..n : /\ inList[i].id \in Int
                         /\ DistanceToIndex(inList[i].index, inIndex) = inList[i].id - x
  <2>1. inList \in Seq(Msg) /\ DOMAIN inList = 1..n
    BY DEF LInv, Shape, ReceiverList
  <2>2. QED
    BY <2>1, Bounds, ListDistances
<1> HIDE DEF n, x
<1>2. \A i \in 1..n : /\ DistanceToIndex(inList[i].index, inIndex) < d <=> inList[i].id < k
                      /\ d <= DistanceToIndex(inList[i].index, inIndex) <=> k <= inList[i].id
  BY <1>1
<1> DEFINE Stops(p) ==
              /\ \A i \in 1..(p - 1) : DistanceToIndex(inList[i].index, inIndex) < d
              /\ p <= n => d <= DistanceToIndex(inList[p].index, inIndex)
<1> HIDE DEF d
<1>3. PICK p \in 1..(n + 1) : p \notin Below /\ 1..(p - 1) \subseteq Below
  <2>1. 1 \in Nat /\ n + 1 \in Nat /\ n + 1 >= 1 /\ n + 1 \notin Below
    BY <1>1
  <2> HIDE DEF Below
  <2>2. QED
    BY <2>1, P!LeastMissing, Constants
<1>4. Stops(p)
  <2>1. \A i \in 1..(p - 1) : i \in 1..n /\ inList[i].id < k
    BY <1>3
  <2>2. p <= n => p \in 1..n /\ ~(inList[p].id < k)
    BY <1>1, <1>3
  <2>3. p <= n => k <= inList[p].id
    BY <2>2, <1>1
  <2>4. QED
    BY <2>1, <2>2, <2>3, <1>2
<1>5. Place(d) = CHOOSE q \in 1..(n + 1) : Stops(q)
  BY DEF Place, n
<1> DEFINE q == Place(d)
<1>6. q \in 1..(n + 1) /\ Stops(q)
  <2> HIDE DEF Stops
  <2>1. \E r \in 1..(n + 1) : Stops(r)
    BY <1>4
  <2>2. QED
    BY <2>1, <1>5
<1> HIDE DEF q
<1>7. \A i \in 1..(q - 1) : inList[i].id < k
  <2>1. ASSUME NEW i \in 1..(q - 1) PROVE i \in 1..n
    BY <1>1, <1>6
  <2>2. QED
    BY <2>1, <1>2, <1>6
<1>8. q <= n => k <= inList[q].id
  <2>1. q <= n => q \in 1..n
    BY <1>1, <1>6
  <2>2. QED
    BY <2>1, <1>2, <1>6
<1>9. QED
  BY <1>6, <1>7, <1>8 DEF q, d, n, x


\* Whether a message is stored is decided by its index as by its number.
LEMMA StoredByNumber ==
    ASSUME LInv, NEW k \in 1..sentCount, sentCount + 1 - k <= Lag
    PROVE  P!IsStored(k) <=> k \in Ids(inList)
<1>1. ASSUME NEW j \in Ids(inList), P!Wire(j) = P!Wire(k)
      PROVE  j = k
  <2>1. PICK i \in DOMAIN inList : j = inList[i].id
    BY DEF Ids
  <2>2. /\ j \in (Len(delivered) + 2)..sentCount /\ sentCount - Len(delivered) <= Window
        /\ sentCount \in Nat /\ Len(delivered) \in Nat
    BY <2>1, Bounds
  <2>3. /\ Window \in Nat /\ Window <= HalfRange /\ Lag \in Nat /\ Lag <= HalfRange
        /\ HalfRange \in Nat /\ 2 * HalfRange < Modulus /\ Modulus \in Nat
    BY ListsAssumption, HalfRangeBound
  <2>4. j - k < Modulus /\ j - k > -Modulus /\ j \in Int /\ k \in Int
    BY <2>2, <2>3
  <2>5. Wire(j) = Wire(k)
    BY <1>1 DEF P!Wire, Wire
  <2>6. QED
    BY <2>4, <2>5, WireInjective
<1>2. QED
  BY <1>1, Mapping DEF P!IsStored

\* A newer message is put at its place unless its index is there: RecvNewer.
LEMMA StoreRefines ==
    ASSUME LInv, NEW m \in dataNet, RecvReliable(m),
           LET delta == DistanceToIndex(m.index, inIndex)
           IN  delta \in 1..BehindThreshold,
           inList' = Store(m), UNCHANGED <<inIndex, delivered, open>>
    PROVE  Shape' /\ P!RecvNewer(m.id)
<1> DEFINE n == Len(inList)
           x == Len(delivered) + 1
           k == m.id
           p == Place(k - x)
<1>1. /\ inList \in Seq(Msg) /\ Wired(inList) /\ Ascending(inList)
      /\ n \in Nat /\ DOMAIN inList = 1..n /\ x \in Nat
      /\ \A i \in 1..n : inList[i] \in Msg /\ inList[i].id \in Nat
  <2>1. inList \in Seq(Msg) /\ Wired(inList) /\ Ascending(inList) /\ x \in Nat
    BY DEF LInv, Shape, ReceiverList, Counters
  <2>2. n \in Nat /\ DOMAIN inList = 1..n /\ \A i \in 1..n : inList[i] \in Msg
    BY <2>1
  <2>3. QED
    BY <2>1, <2>2 DEF Msg
<1>2. /\ m \in Msg /\ m.index = Wire(k) /\ k \in 1..sentCount /\ k \in Int
      /\ sentCount + 1 - k <= Lag
      /\ DistanceToIndex(m.index, inIndex) = k - x
      /\ P!ArrivalDelta(k) = k - x /\ P!Arrives(k)
  BY Arrival
<1>3. /\ UNCHANGED <<sentCount, outIndex, outList, ackNet>>
      /\ SenderList' /\ Datagrams' /\ Acknowledgements'
  BY Arrival
<1>4. \A i \in 1..n : DistanceToIndex(inList[i].index, inIndex) = inList[i].id - x
  BY <1>1, ListDistances
<1>5. /\ p \in 1..(n + 1)
      /\ \A i \in 1..(p - 1) : inList[i].id < k
      /\ p <= n => k <= inList[p].id
  BY <1>2, PlaceFound
<1>6. inList' = IF p <= n /\ DistanceToIndex(inList[p].index, inIndex) = k - x
                THEN inList ELSE InsertAt(inList, p, m)
  BY <1>2 DEF Store
<1> HIDE DEF n, x, p
<1>7. ReceiverList' /\ Ids(inList') = IF k \in Ids(inList) THEN Ids(inList)
                                      ELSE Ids(inList) \cup {k}
  <2>1. CASE p <= n /\ inList[p].id = k
    <3>1. p \in 1..n
      BY <2>1, <1>1, <1>5
    <3>2. inList' = inList
      BY <2>1, <3>1, <1>4, <1>6
    <3>3. k \in Ids(inList)
      BY <2>1, <3>1, <1>1 DEF Ids
    <3>4. QED
      BY <3>2, <3>3, <1>1 DEF ReceiverList
  <2>2. CASE ~(p <= n /\ inList[p].id = k)
    <3>1. inList' = InsertAt(inList, p, m)
      <4>1. CASE p <= n
        <5>1. p \in 1..n
          BY <4>1, <1>1, <1>5
        <5>2. inList[p].id - x # k - x
          BY <5>1, <4>1, <2>2, <1>1, <1>2
        <5>3. QED
          BY <5>1, <5>2, <1>4, <1>6
      <4>2. CASE ~(p <= n)
        BY <4>2, <1>6
      <4>3. QED
        BY <4>1, <4>2
    <3>2. /\ inList' \in Seq(Msg) /\ Len(inList') = n + 1
          /\ \A i \in 1..(p - 1) : inList'[i] = inList[i]
          /\ inList'[p] = m
          /\ \A i \in p..n : inList'[i + 1] = inList[i]
      <4>1. p \in 1..(Len(inList) + 1) /\ m \in Msg /\ inList \in Seq(Msg)
        BY <1>1, <1>2, <1>5 DEF n
      <4>2. /\ InsertAt(inList, p, m) \in Seq(Msg)
            /\ Len(InsertAt(inList, p, m)) = Len(inList) + 1
            /\ \A i \in 1..(p - 1) : InsertAt(inList, p, m)[i] = inList[i]
            /\ InsertAt(inList, p, m)[p] = m
            /\ \A i \in p..Len(inList) : InsertAt(inList, p, m)[i + 1] = inList[i]
        <5>1. \A s \in Seq(Msg) : \A q \in 1..(Len(s) + 1) : \A e \in Msg :
                 /\ InsertAt(s, q, e) \in Seq(Msg)
                 /\ Len(InsertAt(s, q, e)) = Len(s) + 1
                 /\ \A i \in 1..(q - 1) : InsertAt(s, q, e)[i] = s[i]
                 /\ InsertAt(s, q, e)[q] = e
                 /\ \A i \in q..Len(s) : InsertAt(s, q, e)[i + 1] = s[i]
          BY InsertedAt
        <5>2. QED
          BY <4>1, <5>1
      <4>3. QED
        BY <3>1, <4>2 DEF n
    <3>3. DOMAIN inList' = 1..(n + 1)
      BY <3>2
    <3>4. \A i \in 1..n : i < p => inList[i].id < k
      BY <1>1, <1>5
    <3>5. \A i \in 1..n : i >= p => inList[i].id > k
      <4>1. SUFFICES ASSUME NEW i \in 1..n, i >= p PROVE inList[i].id > k
        OBVIOUS
      <4>2. p \in 1..n /\ inList[p].id > k
        BY <4>1, <2>2, <1>1, <1>2, <1>5
      <4>3. inList[p].id <= inList[i].id
        BY <4>1, <4>2, <1>1, AscendingOrder
      <4>4. QED
        BY <4>2, <4>3, <1>1, <1>2
    <3>6. \A i \in 1..(n + 1) : \/ i < p /\ i \in 1..n /\ inList'[i] = inList[i]
                                \/ i = p /\ inList'[i] = m
                                \/ i > p /\ i - 1 \in 1..n /\ inList'[i] = inList[i - 1]
      <4>1. SUFFICES ASSUME NEW i \in 1..(n + 1)
                     PROVE  \/ i < p /\ i \in 1..n /\ inList'[i] = inList[i]
                            \/ i = p /\ inList'[i] = m
                            \/ i > p /\ i - 1 \in 1..n /\ inList'[i] = inList[i - 1]
        OBVIOUS
      <4>2. CASE i < p
        BY <4>2, <3>2, <1>1, <1>5
      <4>3. CASE i = p
        BY <4>3, <3>2
      <4>4. CASE i > p
        <5>1. PICK j \in p..n : j + 1 = i /\ i - 1 = j
          <6>1. i - 1 \in p..n /\ (i - 1) + 1 = i
            BY <4>4, <1>1, <1>5
          <6>2. QED
            BY <6>1
        <5>2. j \in 1..n
          BY <1>5
        <5>3. QED
          BY <4>4, <5>1, <5>2, <3>2
      <4>5. QED
        BY <4>2, <4>3, <4>4, <1>1, <1>5
    <3>7. Wired(inList')
      BY <3>3, <3>6, <1>1, <1>2 DEF Wired
    <3>8. Ascending(inList')
      <4>1. SUFFICES ASSUME NEW i \in 1..(n + 1), NEW j \in 1..(n + 1), i < j
                     PROVE  inList'[i].id < inList'[j].id
        BY <3>3 DEF Ascending
      <4>2. \A a, b \in 1..n : a < b => inList[a].id < inList[b].id
        BY <1>1 DEF Ascending
      <4>3. CASE i < p /\ j < p
        <5>1. i \in 1..n /\ inList'[i] = inList[i]
          BY <4>3, <3>6, <1>1, <1>5
        <5>2. j \in 1..n /\ inList'[j] = inList[j]
          BY <4>3, <3>6, <1>1, <1>5
        <5>3. QED
          BY <4>1, <4>2, <5>1, <5>2
      <4>4. CASE i < p /\ j = p
        BY <4>4, <3>4, <3>6
      <4>5. CASE i < p /\ j > p
        <5>1. inList'[i].id < k /\ inList[j - 1].id > k /\ inList'[j].id = inList[j - 1].id
          <6>1. /\ i \in 1..n /\ inList'[i] = inList[i]
                /\ j - 1 \in 1..n /\ inList'[j] = inList[j - 1] /\ j - 1 >= p
            BY <4>5, <3>6, <1>1, <1>5
          <6>2. QED
            BY <6>1, <4>5, <3>4, <3>5
        <5>2. inList'[i].id \in Nat /\ inList'[j].id \in Nat
          <6>1. \A c \in 1..(n + 1) : inList'[c] \in Msg
            BY <3>2
          <6>2. inList'[i] \in Msg /\ inList'[j] \in Msg
            BY <6>1, <4>1
          <6>3. QED
            BY <6>2 DEF Msg
        <5>3. QED
          BY <5>1, <5>2, <1>2
      <4>6. CASE i = p /\ j > p
        <5>1. j - 1 \in 1..n /\ inList'[j] = inList[j - 1] /\ j - 1 >= p /\ inList'[i] = m
          BY <4>6, <3>6, <1>1, <1>5
        <5>2. QED
          BY <5>1, <3>5
      <4>7. CASE i > p /\ j > p
        <5>1. /\ i - 1 \in 1..n /\ inList'[i] = inList[i - 1]
              /\ j - 1 \in 1..n /\ inList'[j] = inList[j - 1]
              /\ i - 1 < j - 1
          BY <4>1, <4>7, <3>6, <1>1, <1>5
        <5>2. QED
          BY <5>1, <4>2
      <4>8. QED
        BY <4>1, <4>3, <4>4, <4>5, <4>6, <4>7, <1>1, <1>5
    <3>9. k \notin Ids(inList)
      <4>1. \A i \in 1..n : inList[i].id # k
        BY <3>4, <3>5, <1>1, <1>2, <1>5
      <4>2. QED
        BY <4>1, <1>1 DEF Ids
    <3>10. Ids(inList') = Ids(inList) \cup {k}
      <4>1. \A i \in 1..(n + 1) : inList'[i].id \in Ids(inList) \cup {k}
        BY <3>6, <1>1 DEF Ids
      <4>2. \A i \in 1..n : \E j \in 1..(n + 1) : inList'[j].id = inList[i].id
        <5>1. SUFFICES ASSUME NEW i \in 1..n
                       PROVE  \E j \in 1..(n + 1) : inList'[j].id = inList[i].id
          OBVIOUS
        <5>2. CASE i < p
          <6>1. i \in 1..(p - 1) /\ i \in 1..(n + 1)
            BY <5>2, <1>1, <1>5
          <6>2. inList'[i] = inList[i]
            BY <6>1, <3>2
          <6>3. QED
            BY <6>1, <6>2
        <5>3. CASE i >= p
          <6>1. i \in p..n /\ i + 1 \in 1..(n + 1)
            BY <5>3, <1>1, <1>5
          <6>2. inList'[i + 1] = inList[i]
            BY <6>1, <3>2
          <6>3. QED
            BY <6>1, <6>2
        <5>4. QED
          BY <5>2, <5>3, <1>1, <1>5
      <4>3. p \in 1..(n + 1) /\ inList'[p].id = k
        BY <3>2, <1>5
      <4>4. Ids(inList') \subseteq Ids(inList) \cup {k}
        BY <4>1, <3>3 DEF Ids
      <4>5. Ids(inList) \subseteq Ids(inList')
        BY <4>2, <3>3, <1>1 DEF Ids
      <4>6. k \in Ids(inList')
        BY <4>3, <3>3 DEF Ids
      <4>7. QED
        BY <4>4, <4>5, <4>6
    <3>11. QED
      BY <3>2, <3>7, <3>8, <3>9, <3>10 DEF ReceiverList
  <2>3. QED
    BY <2>1, <2>2
<1>8. Shape'
  BY <1>3, <1>7 DEF LInv, Shape, Counters
<1>9. P!IsStored(k) <=> k \in Ids(inList)
  BY <1>2, StoredByNumber
<1>10. P!RecvNewer(k)
  <2>1. P!ArrivalDelta(k) \in 1..BehindThreshold
    BY <1>2
  <2>2. /\ UNCHANGED <<Len(delivered) + 1, delivered, open>>
        /\ UNCHANGED {a.ghost : a \in ackNet} /\ UNCHANGED P!sender
    BY <1>3 DEF P!sender, Entries
  <2>3. {inList[i].id : i \in DOMAIN inList}'
           = IF P!IsStored(k) THEN {inList[i].id : i \in DOMAIN inList}
             ELSE {inList[i].id : i \in DOMAIN inList} \cup {k}
    BY <1>7, <1>9, Mapping, MappingNext
  <2>4. QED
    BY <1>2, <2>1, <2>2, <2>3 DEF P!RecvNewer
<1>11. QED
  BY <1>8, <1>10

\* A message out of range closes, an old one is dropped: RecvTooFar, RecvOld.
LEMMA RefusalRefines ==
    ASSUME LInv, NEW m \in dataNet, RecvReliable(m), UNCHANGED <<inIndex, inList, delivered>>,
           LET delta == DistanceToIndex(m.index, inIndex)
           IN  \/ delta # 0 /\ Magnitude(delta) > BehindThreshold /\ open' = FALSE
               \/ delta < 0 /\ Magnitude(delta) <= BehindThreshold /\ UNCHANGED open
    PROVE  Shape' /\ (P!RecvTooFar(m.id) \/ P!RecvOld(m.id))
<1> DEFINE delta == DistanceToIndex(m.index, inIndex)
<1>1. /\ delta = P!ArrivalDelta(m.id) /\ P!Arrives(m.id)
      /\ delta \in Int
      /\ UNCHANGED <<sentCount, outIndex, outList, ackNet>>
      /\ SenderList' /\ Datagrams' /\ Acknowledgements'
  <2>1. m.id \in Int /\ Len(delivered) \in Int
    BY Arrival, Bounds
  <2>2. QED
    BY <2>1, Arrival
<1>2. BehindThreshold \in Nat
  BY ListsAssumption
<1>3. /\ UNCHANGED <<Len(delivered) + 1, delivered>>
      /\ UNCHANGED {inList[i].id : i \in DOMAIN inList}
      /\ UNCHANGED {a.ghost : a \in ackNet} /\ UNCHANGED P!sender
  BY <1>1 DEF P!sender, Entries
<1> HIDE DEF delta
<1>4. CASE delta # 0 /\ Magnitude(delta) > BehindThreshold /\ open' = FALSE
  <2>1. Shape'
    BY <1>1, <1>4 DEF LInv, Shape, Counters, ReceiverList
  <2>2. delta \notin -BehindThreshold..BehindThreshold
    BY <1>1, <1>2, <1>4 DEF Magnitude
  <2>3. P!RecvTooFar(m.id)
    BY <1>1, <1>3, <1>4, <2>2 DEF P!RecvTooFar
  <2>4. QED
    BY <2>1, <2>3
<1>5. CASE delta < 0 /\ Magnitude(delta) <= BehindThreshold /\ UNCHANGED open
  <2>1. Shape'
    BY <1>1, <1>5 DEF LInv, Shape, Counters, ReceiverList
  <2>2. delta \in -BehindThreshold..(-1)
    BY <1>1, <1>2, <1>5 DEF Magnitude
  <2>3. P!RecvOld(m.id)
    BY <1>1, <1>3, <1>5, <2>2 DEF P!RecvOld, P!receiver
  <2>4. QED
    BY <2>1, <2>3
<1>6. QED
  BY <1>4, <1>5 DEF delta



\* Behind the awaited message a stored one follows without a gap just when
\* its place in the list is its distance.
LEMMA FollowsIsNext ==
    ASSUME LInv
    PROVE  \A i \in 1..Len(inList) :
              /\ inList[i].id >= (Len(delivered) + 1) + i
              /\ Follows(i) <=> inList[i].id = (Len(delivered) + 1) + i
<1> DEFINE n == Len(inList)
           x == Len(delivered) + 1
           S == {i \in 1..n : inList[i].id >= x + i}
<1>1. /\ Wired(inList) /\ Ascending(inList)
      /\ n \in Nat /\ DOMAIN inList = 1..n /\ x \in Nat /\ inIndex = Wire(x)
      /\ sentCount \in Nat /\ sentCount + 1 - x <= Window
      /\ \A i \in 1..n : inList[i].id \in (x + 1)..sentCount
  <2>1. inList \in Seq(Msg) /\ Wired(inList) /\ Ascending(inList) /\ inIndex = Wire(x)
    BY DEF LInv, Shape, ReceiverList, Counters
  <2>2. /\ sentCount \in Nat /\ Len(delivered) \in Nat /\ sentCount - Len(delivered) <= Window
        /\ \A i \in DOMAIN inList : inList[i].id \in (Len(delivered) + 2)..sentCount
    BY Bounds
  <2>3. sentCount + 1 - x <= Window /\ Len(delivered) + 2 = x + 1
    BY <2>2, ListsAssumption
  <2>4. n \in Nat /\ DOMAIN inList = 1..n
    BY <2>1
  <2>5. QED
    BY <2>1, <2>2, <2>3, <2>4
<1> HIDE DEF n, x
<1>2. PICK d \in 1..(n + 1) : d \notin S /\ 1..(d - 1) \subseteq S
  <2>1. 1 \in Nat /\ n + 1 \in Nat /\ n + 1 >= 1 /\ n + 1 \notin S
    BY <1>1
  <2> HIDE DEF S
  <2>2. QED
    BY <2>1, P!LeastMissing, Constants
<1>3. d = n + 1
  <2>1. SUFFICES ASSUME d \in 1..n PROVE FALSE
    BY <1>1, <1>2
  <2>2. inList[d].id \in Int /\ inList[d].id < x + d /\ inList[d].id >= x + 1
    BY <1>1, <1>2, <2>1
  <2>3. d - 1 \in 1..n /\ d - 1 \in S
    BY <1>1, <1>2, <2>1, <2>2
  <2>4. inList[d - 1].id >= x + (d - 1) /\ inList[d - 1].id \in Int
    BY <1>1, <2>3
  <2>5. inList[d - 1].id < inList[d].id
    BY <1>1, <2>1, <2>3 DEF Ascending
  <2>6. QED
    BY <1>1, <2>1, <2>2, <2>4, <2>5
<1>4. \A i \in 1..n : inList[i].id >= x + i
  <2>1. 1..n \subseteq S
    BY <1>1, <1>2, <1>3
  <2>2. QED
    BY <2>1
<1>5. ASSUME NEW i \in 1..n PROVE Follows(i) <=> inList[i].id = x + i
  <2>1. PICK k \in Int : k = inList[i].id /\ k \in (x + 1)..sentCount /\ k >= x + i
    BY <1>1, <1>4
  <2>2. inList[i].index = Wire(k)
    BY <1>1, <2>1 DEF Wired
  <2>3. (inIndex + i) % Modulus = Wire(x + i)
    BY <1>1, WireSteps
  <2>4. k - (x + i) <= HalfRange /\ k - (x + i) >= -HalfRange /\ x + i \in Int
    BY <1>1, <2>1, ListsAssumption, HalfRangeBound
  <2>5. DistanceToIndex(Wire(k), Wire(x + i)) = k - (x + i)
    <3>1. PICK y \in Int : y = x + i
      BY <1>1
    <3>2. k - y <= HalfRange /\ k - y >= -HalfRange /\ k \in Int
      BY <2>1, <2>4, <3>1
    <3>3. DistanceToIndex(Wire(k), Wire(y)) = k - y
      BY <3>2, WireDistance
    <3>4. QED
      BY <3>1, <3>3, Zenon
  <2>6. k - (x + i) = 0 <=> k = x + i
    <3>1. PICK y \in Int : y = x + i
      BY <1>1
    <3>2. k - y = 0 <=> k = y
      BY <2>1, <3>1
    <3>3. QED
      BY <3>1, <3>2
  <2>7. QED
    BY <2>1, <2>2, <2>3, <2>5, <2>6 DEF Follows
<1>6. QED
  BY <1>4, <1>5 DEF n, x

\* The loop delivers the stored messages up to the first gap.
LEMMA DrainedToGap ==
    ASSUME LInv
    PROVE  LET x == Len(delivered) + 1
           IN  /\ Drained \in 0..Len(inList)
               /\ \A i \in 1..Drained : inList[i].id = x + i
               /\ \A i \in (Drained + 1)..Len(inList) : inList[i].id > x + (Drained + 1)
<1> DEFINE n == Len(inList)
           x == Len(delivered) + 1
           S == {i \in 1..n : Follows(i)}
           Stops(k) == /\ \A i \in 1..k : Follows(i)
                       /\ k < n => ~Follows(k + 1)
           q == Drained
<1>1. /\ Ascending(inList) /\ n \in Nat /\ DOMAIN inList = 1..n /\ x \in Nat
      /\ \A i \in 1..n : inList[i].id \in Nat
  <2>1. inList \in Seq(Msg) /\ Ascending(inList) /\ Len(delivered) \in Nat
    BY DEF LInv, Shape, ReceiverList, Counters
  <2>2. n \in Nat /\ DOMAIN inList = 1..n /\ \A i \in 1..n : inList[i] \in Msg
    BY <2>1
  <2>3. QED
    BY <2>1, <2>2 DEF Msg
<1>2. \A i \in 1..n : /\ inList[i].id >= x + i
                      /\ Follows(i) <=> inList[i].id = x + i
  BY FollowsIsNext
<1>3. q = CHOOSE k \in 0..n : Stops(k)
  BY DEF Drained
<1> HIDE DEF n, x, q
<1>4. PICK d \in 1..(n + 1) : d \notin S /\ 1..(d - 1) \subseteq S
  <2>1. 1 \in Nat /\ n + 1 \in Nat /\ n + 1 >= 1 /\ n + 1 \notin S
    BY <1>1
  <2> HIDE DEF S
  <2>2. QED
    BY <2>1, P!LeastMissing, Constants
<1>5. d - 1 \in 0..n /\ Stops(d - 1)
  <2>1. d - 1 \in 0..n /\ (d - 1) + 1 = d
    BY <1>1, <1>4
  <2>2. \A i \in 1..(d - 1) : Follows(i)
    BY <1>4
  <2>3. d - 1 < n => ~Follows(d)
    BY <1>1, <1>4
  <2>4. QED
    BY <2>1, <2>2, <2>3
<1>6. q \in 0..n /\ Stops(q)
  <2> HIDE DEF Stops
  <2>1. QED
    BY <1>3, <1>5
<1>7. \A i \in 1..q : inList[i].id = x + i
  <2>1. \A i \in 1..q : i \in 1..n
    BY <1>1, <1>6
  <2>2. QED
    BY <2>1, <1>2, <1>6
<1>8. ASSUME NEW i \in (q + 1)..n PROVE inList[i].id > x + (q + 1)
  <2>1. q + 1 \in 1..n /\ q < n /\ i \in 1..n /\ q + 1 <= i
    BY <1>1, <1>6
  <2>2. inList[q + 1].id >= x + (q + 1) /\ inList[q + 1].id # x + (q + 1)
    BY <2>1, <1>2, <1>6
  <2>3. inList[q + 1].id <= inList[i].id
    BY <2>1, <1>1, AscendingOrder
  <2>4. inList[i].id \in Nat /\ inList[q + 1].id \in Nat /\ x + (q + 1) \in Int
    BY <1>1, <1>6, <2>1
  <2>5. QED
    BY <2>2, <2>3, <2>4
<1>9. QED
  BY <1>6, <1>7, <1>8 DEF n, x, q

\* The awaited message is delivered with those that follow it, which the
\* loop finds at the front of the list: RecvExpected.
LEMMA DrainRefines ==
    ASSUME LInv, NEW m \in dataNet, RecvReliable(m),
           DistanceToIndex(m.index, inIndex) = 0,
           delivered' = Append(delivered, m.id) \o [i \in 1..Drained |-> inList[i].id],
           inList' = SubSeq(inList, Drained + 1, Len(inList)),
           inIndex' = (inIndex + 1 + Drained) % Modulus,
           UNCHANGED open
    PROVE  Shape' /\ P!RecvExpected(m.id)
<1> DEFINE n == Len(inList)
           x == Len(delivered) + 1
           d == Drained
           end == P!DrainEnd(x + 1)
           tail == [i \in 1..d |-> inList[i].id]
           head == Append(delivered, m.id)
<1>1. /\ inList \in Seq(Msg) /\ Wired(inList) /\ Ascending(inList)
      /\ n \in Nat /\ DOMAIN inList = 1..n /\ x \in Nat /\ x >= 1
      /\ inIndex = Wire(x) /\ delivered \in Seq(Nat) /\ open \in BOOLEAN
      /\ \A i \in 1..n : inList[i] \in Msg /\ inList[i].id \in Nat
  <2>1. /\ inList \in Seq(Msg) /\ Wired(inList) /\ Ascending(inList)
        /\ inIndex = Wire(x) /\ delivered \in Seq(Nat) /\ open \in BOOLEAN
    BY DEF LInv, Shape, ReceiverList, Counters
  <2>2. n \in Nat /\ DOMAIN inList = 1..n /\ \A i \in 1..n : inList[i] \in Msg
    BY <2>1
  <2>3. x \in Nat /\ x >= 1
    BY <2>1
  <2>4. QED
    BY <2>1, <2>2, <2>3 DEF Msg
<1>2. /\ m.id = x /\ P!ArrivalDelta(m.id) = 0 /\ P!Arrives(m.id)
      /\ UNCHANGED <<sentCount, outIndex, outList, ackNet>>
      /\ SenderList' /\ Datagrams' /\ Acknowledgements'
      /\ x \in 1..sentCount /\ sentCount \in Nat
  <2>1. DistanceToIndex(m.index, inIndex) = m.id - x /\ P!ArrivalDelta(m.id) = m.id - x
        /\ m.id \in 1..sentCount
    BY Arrival
  <2>2. m.id = x /\ m.id - x = 0
    BY <1>1, <2>1
  <2>3. QED
    BY <2>1, <2>2, Arrival, Bounds
<1>3. /\ d \in 0..n
      /\ \A i \in 1..d : inList[i].id = x + i
      /\ \A i \in (d + 1)..n : inList[i].id > x + (d + 1)
  BY DrainedToGap
<1>4. Ids(inList) \subseteq (x + 1)..sentCount /\ sentCount + 1 - x <= HalfRange
  <2>1. /\ \A i \in DOMAIN inList : inList[i].id \in (Len(delivered) + 2)..sentCount
        /\ sentCount - Len(delivered) <= Window /\ Len(delivered) \in Nat
    BY Bounds
  <2>2. Len(delivered) + 2 = x + 1 /\ sentCount + 1 - x <= HalfRange
    BY <1>2, <2>1, ListsAssumption, HalfRangeBound
  <2>3. QED
    BY <2>1, <2>2 DEF Ids
<1>5. /\ end \in (x + 1)..(sentCount + 1) /\ end \notin Ids(inList)
      /\ (x + 1)..(end - 1) \subseteq Ids(inList)
  <2>1. /\ x \in 1..((sentCount + 1) - 1) /\ sentCount + 1 \in Nat
        /\ (sentCount + 1) - x <= HalfRange
        /\ {inList[i].id : i \in DOMAIN inList} \subseteq (x + 1)..((sentCount + 1) - 1)
    <3>1. (sentCount + 1) - 1 = sentCount
      BY <1>2
    <3>2. QED
      BY <3>1, <1>1, <1>2, <1>4, Mapping
  <2>2. P!HalfRange = HalfRange
    BY DEF P!HalfRange, HalfRange
  <2>3. /\ end \in (x + 1)..(sentCount + 1)
        /\ end \notin {inList[i].id : i \in DOMAIN inList}
        /\ (x + 1)..(end - 1) \subseteq {inList[i].id : i \in DOMAIN inList}
    BY <2>1, <2>2, P!DrainEndIsFirstMissing, Constants
  <2>4. QED
    BY <2>3, Mapping
<1>6. \A k \in Ids(inList) : P!StoredAt(k) = k
  <2>1. /\ x \in 1..(sentCount + 1) /\ sentCount + 1 \in Nat
        /\ (sentCount + 1) - x <= HalfRange
        /\ {inList[i].id : i \in DOMAIN inList} \subseteq (x + 1)..((sentCount + 1) - 1)
    <3>1. (sentCount + 1) - 1 = sentCount
      BY <1>2
    <3>2. QED
      BY <3>1, <1>1, <1>2, <1>4, Mapping
  <2>2. P!HalfRange = HalfRange
    BY DEF P!HalfRange, HalfRange
  <2>3. \A k \in {inList[i].id : i \in DOMAIN inList} : P!StoredAt(k) = k
    BY <2>1, <2>2, P!StoredAtIsTheMessage, Constants
  <2>4. QED
    BY <2>3, Mapping
<1>7. /\ inList' \in Seq(Msg) /\ Len(inList') = n - d
      /\ \A i \in 1..(n - d) : inList'[i] = inList[i + d]
  <2>1. inList \in Seq(Msg) /\ d \in 0..Len(inList)
    BY <1>1, <1>3
  <2>2. inList' = SubSeq(inList, d + 1, Len(inList))
    OBVIOUS
  <2> HIDE DEF d
  <2>3. /\ SubSeq(inList, d + 1, Len(inList)) \in Seq(Msg)
        /\ Len(SubSeq(inList, d + 1, Len(inList))) = Len(inList) - d
        /\ \A i \in 1..(Len(inList) - d) :
              SubSeq(inList, d + 1, Len(inList))[i] = inList[i + d]
    BY <2>1, Ends
  <2>4. QED
    BY <2>2, <2>3, Zenon
<1>8. /\ head \in Seq(Nat) /\ Len(head) = x
      /\ \A k \in 1..x : k < x => head[k] = delivered[k]
      /\ head[x] = x
  <2>1. \A s \in Seq(Nat) : \A e \in Nat :
           /\ Append(s, e) \in Seq(Nat) /\ Len(Append(s, e)) = Len(s) + 1
           /\ \A k \in 1..Len(s) : Append(s, e)[k] = s[k]
           /\ Append(s, e)[Len(s) + 1] = e
    OBVIOUS
  <2>2. delivered \in Seq(Nat) /\ Len(delivered) \in Nat /\ m.id = x /\ x \in Nat
    BY <1>1, <1>2
  <2>3. /\ head \in Seq(Nat) /\ Len(head) = Len(delivered) + 1
        /\ \A k \in 1..Len(delivered) : head[k] = delivered[k]
        /\ head[Len(delivered) + 1] = m.id
    BY <2>1, <2>2
  <2> HIDE DEF head
  <2>4. QED
    BY <2>2, <2>3
<1>9. tail \in Seq(Nat) /\ Len(tail) = d /\ \A i \in 1..d : tail[i] = x + i
  <2>1. \A i \in 1..d : inList[i].id = x + i /\ x + i \in Nat
    BY <1>1, <1>3
  <2>2. d \in Nat
    BY <1>1, <1>3
  <2> HIDE DEF d
  <2>3. \A i \in 1..d : tail[i] = x + i
    BY <2>1
  <2>4. tail \in [1..d -> Nat]
    BY <2>1
  <2>5. \A k \in Nat : \A f \in [1..k -> Nat] : f \in Seq(Nat) /\ Len(f) = k
    OBVIOUS
  <2> HIDE DEF tail
  <2>6. QED
    BY <2>2, <2>3, <2>4, <2>5
<1>10. delivered' = head \o tail /\ inIndex' = (inIndex + 1 + d) % Modulus
  OBVIOUS
<1> HIDE DEF n, x, d, end, head, tail
<1>0. x \in Nat /\ n \in Nat /\ d \in Nat /\ d <= n /\ x >= 1
  BY <1>1, <1>3
<1>11. \A k \in 1..n : \/ k <= d /\ inList[k].id = x + k
                       \/ k > d /\ inList[k].id > x + (d + 1)
  BY <1>1, <1>3
<1>12. end = x + 1 + d
  <2>1. x + 1 + d \notin Ids(inList)
    <3>1. SUFFICES ASSUME NEW k \in 1..n, inList[k].id = x + 1 + d PROVE FALSE
      BY <1>1 DEF Ids
    <3>2. \/ k <= d /\ inList[k].id = x + k
          \/ k > d /\ inList[k].id > x + (d + 1)
      BY <1>11
    <3>3. QED
      BY <3>1, <3>2, <1>0
  <2>2. \A k \in (x + 1)..(x + d) : k \in Ids(inList)
    <3>1. SUFFICES ASSUME NEW k \in (x + 1)..(x + d) PROVE k \in Ids(inList)
      OBVIOUS
    <3>2. k - x \in 1..d /\ k - x \in 1..n /\ x + (k - x) = k
      BY <1>1, <1>3
    <3>3. inList[k - x].id = k
      BY <3>2, <1>3
    <3>4. QED
      BY <3>2, <3>3, <1>1 DEF Ids
  <2>3. ~(end < x + 1 + d)
    BY <1>1, <1>2, <1>3, <1>5, <2>2
  <2>4. ~(end > x + 1 + d)
    BY <1>1, <1>2, <1>3, <1>5, <2>1
  <2>5. QED
    BY <1>1, <1>2, <1>3, <1>5, <2>3, <2>4
<1>13. /\ delivered' \in Seq(Nat) /\ Len(delivered') = x + d
       /\ \A k \in 1..x : k < x => delivered'[k] = delivered[k]
       /\ delivered'[x] = x
       /\ \A i \in 1..d : delivered'[x + i] = x + i
  <2>1. /\ head \o tail \in Seq(Nat) /\ Len(head \o tail) = Len(head) + Len(tail)
        /\ \A i \in 1..Len(head) : (head \o tail)[i] = head[i]
        /\ \A i \in 1..Len(tail) : (head \o tail)[Len(head) + i] = tail[i]
    <3>1. head \in Seq(Nat) /\ tail \in Seq(Nat)
      BY <1>8, <1>9
    <3>2. QED
      BY <3>1, JoinedNumbers
  <2>2. \A k \in 1..x : delivered'[k] = head[k]
    BY <2>1, <1>8, <1>10
  <2>3. x \in 1..x
    BY <1>1
  <2>4. \A i \in 1..d : delivered'[x + i] = x + i
    BY <2>1, <1>8, <1>9, <1>10
  <2>5. QED
    BY <2>1, <2>2, <2>3, <2>4, <1>8, <1>9, <1>10
<1>14. inIndex' = Wire(Len(delivered') + 1)
  <2>1. (Wire(x) + (1 + d)) % Modulus = Wire(x + (1 + d))
    BY <1>1, <1>3, WireSteps
  <2>2. Wire(x) + (1 + d) = Wire(x) + 1 + d /\ x + (1 + d) = (x + d) + 1
    <3>1. Wire(x) \in Int
      BY <1>1, WireType
    <3>2. QED
      BY <3>1, <1>1, <1>3
  <2>3. QED
    BY <2>1, <2>2, <1>1, <1>10, <1>13
<1>14a. DOMAIN inList' = 1..(n - d)
  <2>1. \A s \in Seq(Msg) : DOMAIN s = 1..Len(s)
    OBVIOUS
  <2>2. inList' \in Seq(Msg) /\ Len(inList') = n - d
    BY <1>7
  <2>3. QED
    BY <2>1, <2>2, Zenon
<1>15. ReceiverList'
  <2>1. DOMAIN inList' = 1..(n - d)
    BY <1>14a
  <2>2. \A i \in 1..(n - d) : i + d \in 1..n
    BY <1>1, <1>3
  <2>3. Wired(inList')
    <3>1. SUFFICES ASSUME NEW i \in 1..(n - d)
                   PROVE  inList'[i].index = Wire(inList'[i].id)
      BY <2>1 DEF Wired
    <3>2. PICK j \in 1..n : inList'[i] = inList[j]
      BY <2>2, <1>7
    <3>3. inList[j].index = Wire(inList[j].id)
      BY <1>1 DEF Wired
    <3>4. QED
      BY <3>2, <3>3, Zenon
  <2>4. Ascending(inList')
    <3>1. SUFFICES ASSUME NEW i \in 1..(n - d), NEW j \in 1..(n - d), i < j
                   PROVE  inList'[i].id < inList'[j].id
      BY <2>1 DEF Ascending
    <3>2. i + d < j + d
      BY <3>1, <1>1, <1>3
    <3>3. QED
      BY <3>1, <3>2, <2>2, <1>1, <1>7 DEF Ascending
  <2>5. QED
    BY <1>7, <2>3, <2>4 DEF ReceiverList
<1>16. Shape'
  BY <1>1, <1>2, <1>13, <1>14, <1>15 DEF LInv, Shape, Counters
<1>17. delivered' = [k \in 1..(end - 1) |-> IF k < x THEN delivered[k]
                                            ELSE IF k = x THEN x ELSE P!StoredAt(k)]
  <2>1. end - 1 = x + d
    BY <1>1, <1>3, <1>12
  <2>2. delivered' = [k \in 1..(x + d) |-> delivered'[k]]
    <3>1. x + d \in Nat
      BY <1>0
    <3>2. delivered' \in Seq(Nat) /\ Len(delivered') = x + d
      BY <1>13
    <3>3. \A s \in Seq(Nat) : s = [k \in 1..Len(s) |-> s[k]]
      OBVIOUS
    <3>4. delivered' = [k \in 1..Len(delivered') |-> delivered'[k]]
      BY <3>2, <3>3
    <3>5. QED
      BY <3>2, <3>4
  <2>3. ASSUME NEW k \in 1..(x + d)
        PROVE  delivered'[k] = IF k < x THEN delivered[k]
                               ELSE IF k = x THEN x ELSE P!StoredAt(k)
    <3>0. CASE k < x
      <4>1. k \in 1..x
        BY <3>0, <1>1, <1>3
      <4>2. QED
        BY <3>0, <4>1, <1>13
    <3>1. CASE k = x
      <4>1. ~(k < x)
        BY <3>1, <1>1
      <4>2. QED
        BY <3>1, <4>1, <1>13
    <3>2. CASE k > x
      <4>1. PICK i \in 1..d : x + i = k
        <5>1. k - x \in 1..d /\ x + (k - x) = k
          BY <3>2, <1>1, <1>3
        <5>2. QED
          BY <5>1
      <4>2. k \in (x + 1)..(end - 1)
        BY <3>2, <2>1, <1>1, <1>3
      <4>3. P!StoredAt(k) = k
        BY <4>2, <1>5, <1>6
      <4>4. delivered'[k] = k
        BY <4>1, <1>13
      <4>5. ~(k < x) /\ k # x
        BY <3>2, <1>1, <1>3
      <4>6. QED
        BY <4>3, <4>4, <4>5
    <3>3. QED
      <4>1. k < x \/ k = x \/ k > x
        BY <1>0
      <4>2. QED
        BY <3>0, <3>1, <3>2, <4>1, Zenon
  <2>4. QED
    BY <2>1, <2>2, <2>3
<1>18. Ids(inList') = {j \in Ids(inList) : \A k \in (x + 1)..(end - 1) : j # P!StoredAt(k)}
  <2>1. \A k \in (x + 1)..(end - 1) : P!StoredAt(k) = k
    BY <1>5, <1>6
  <2>2. DOMAIN inList' = 1..(n - d)
    BY <1>14a
  <2>3. ASSUME NEW i \in 1..(n - d)
        PROVE  inList'[i].id \in Ids(inList) /\ inList'[i].id \notin (x + 1)..(end - 1)
    <3>1. PICK k \in 1..n : k = i + d /\ k > d
      BY <1>0
    <3>2. inList'[i] = inList[k]
      BY <3>1, <1>7
    <3>3. inList[k].id > x + (d + 1)
      BY <3>1, <1>0, <1>11
    <3>4. inList[k].id \in Nat
      BY <1>1
    <3>5. inList[k].id \notin (x + 1)..(end - 1)
      <4>1. end - 1 = x + d /\ x \in Nat /\ d \in Nat /\ end \in Int
        BY <1>0, <1>12
      <4>2. ~(inList[k].id <= x + d)
        BY <3>3, <3>4, <4>1
      <4>3. QED
        BY <3>4, <4>1, <4>2
    <3>6. QED
      BY <3>2, <3>5, <1>1 DEF Ids
  <2>4. ASSUME NEW j \in Ids(inList), j \notin (x + 1)..(end - 1)
        PROVE  j \in Ids(inList')
    <3>1. PICK k \in 1..n : j = inList[k].id
      BY <1>1 DEF Ids
    <3>2. ~(k <= d)
      <4>1. SUFFICES ASSUME k <= d PROVE FALSE
        OBVIOUS
      <4>2. j = x + k
        BY <3>1, <4>1, <1>3
      <4>3. QED
        BY <4>1, <4>2, <2>4, <1>1, <1>3, <1>12
    <3>3. k - d \in 1..(n - d) /\ (k - d) + d = k
      BY <3>2, <1>1, <1>3
    <3>4. inList'[k - d] = inList[k]
      BY <3>3, <1>7
    <3>5. QED
      BY <3>1, <3>3, <3>4, <2>2 DEF Ids
  <2>5. Ids(inList') \subseteq {j \in Ids(inList) : j \notin (x + 1)..(end - 1)}
    <3>1. SUFFICES ASSUME NEW j \in Ids(inList')
                   PROVE  j \in Ids(inList) /\ j \notin (x + 1)..(end - 1)
      OBVIOUS
    <3>2. PICK i \in 1..(n - d) : j = inList'[i].id
      BY <2>2 DEF Ids
    <3>3. QED
      BY <3>2, <2>3
  <2>6. Ids(inList') = {j \in Ids(inList) : j \notin (x + 1)..(end - 1)}
    BY <2>4, <2>5
  <2>7. ASSUME NEW j
        PROVE  j \in (x + 1)..(end - 1)
                  <=> \E k \in (x + 1)..(end - 1) : j = P!StoredAt(k)
    BY <2>1
  <2>8. QED
    <3>1. {j \in Ids(inList) : j \notin (x + 1)..(end - 1)}
             = {j \in Ids(inList) : \A k \in (x + 1)..(end - 1) : j # P!StoredAt(k)}
      <4>1. SUFFICES ASSUME NEW j \in Ids(inList)
                     PROVE  j \notin (x + 1)..(end - 1)
                               <=> \A k \in (x + 1)..(end - 1) : j # P!StoredAt(k)
        OBVIOUS
      <4>2. QED
        BY <2>7
    <3>2. QED
      BY <2>6, <3>1
<1>19. P!RecvExpected(m.id)
  <2>1. Len(delivered') + 1 = end
    <3>1. (x + d) + 1 = end
      BY <1>0, <1>12
    <3>2. Len(delivered') = x + d
      BY <1>13
    <3>3. QED
      BY <3>1, <3>2
  <2>2. /\ UNCHANGED open /\ UNCHANGED {a.ghost : a \in ackNet} /\ UNCHANGED P!sender
    BY <1>2 DEF P!sender, Entries
  <2>3. {inList[i].id : i \in DOMAIN inList}'
           = {j \in {inList[i].id : i \in DOMAIN inList} :
                 \A k \in (x + 1)..(end - 1) : j # P!StoredAt(k)}
    BY <1>18, Mapping, MappingNext
  <2>4. QED
    BY <1>2, <1>17, <2>1, <2>2, <2>3 DEF P!RecvExpected, x, end
<1>20. QED
  BY <1>16, <1>19

\* RecvReliable is one of the four ways a message is received.
LEMMA RecvReliableRefines ==
    ASSUME LInv, NEW m \in dataNet, RecvReliable(m)
    PROVE  /\ Shape'
           /\ \/ P!RecvExpected(m.id) \/ P!RecvTooFar(m.id)
              \/ P!RecvNewer(m.id) \/ P!RecvOld(m.id)
<1> DEFINE delta == DistanceToIndex(m.index, inIndex)
<1>1. \/ /\ delta = 0
         /\ delivered' = Append(delivered, m.id) \o [i \in 1..Drained |-> inList[i].id]
         /\ inList' = SubSeq(inList, Drained + 1, Len(inList))
         /\ inIndex' = (inIndex + 1 + Drained) % Modulus
         /\ UNCHANGED open
      \/ /\ UNCHANGED <<inIndex, inList, delivered>>
         /\ delta # 0 /\ Magnitude(delta) > BehindThreshold /\ open' = FALSE
      \/ /\ delta \in 1..BehindThreshold
         /\ inList' = Store(m)
         /\ UNCHANGED <<inIndex, delivered, open>>
      \/ /\ UNCHANGED <<inIndex, inList, delivered>>
         /\ delta < 0 /\ Magnitude(delta) <= BehindThreshold /\ UNCHANGED open
  BY DEF RecvReliable, reliableReceiver
<1>2. QED
  BY <1>1, DrainRefines, StoreRefines, RefusalRefines


-----------------------------------------------------------------------------
(* What a step of the acknowledgement loop does to the list. *)

\* An ascending list of entries with their indices.
Listing(s) == s \in Seq(Entry) /\ Ascending(s) /\ Wired(s)

\* Places and numbers of a listing are in the same order.
LEMMA ListingOrder ==
    ASSUME NEW s, Listing(s)
    PROVE  /\ Len(s) \in Nat /\ DOMAIN s = 1..Len(s)
           /\ \A i \in 1..Len(s) : /\ s[i] \in Entry /\ s[i].id \in Nat
                                   /\ s[i].index = Wire(s[i].id)
           /\ \A i, j \in 1..Len(s) : /\ s[i].id < s[j].id <=> i < j
                                      /\ s[i].id = s[j].id <=> i = j
<1>1. s \in Seq(Entry) /\ Ascending(s) /\ Wired(s)
  BY DEF Listing
<1>2. Len(s) \in Nat /\ DOMAIN s = 1..Len(s) /\ \A i \in 1..Len(s) : s[i] \in Entry
  BY <1>1
<1>3. \A i \in 1..Len(s) : s[i].id \in Nat /\ s[i].index = Wire(s[i].id)
  BY <1>1, <1>2 DEF Entry, Wired
<1>4. QED
  BY <1>1, <1>2, <1>3, AscendingOrder

\* A listing without its entry at place k.
LEMMA Erasing ==
    ASSUME NEW s, Listing(s), NEW k \in 1..Len(s), NEW r, r = RemoveAt(s, k)
    PROVE  /\ Listing(r) /\ Len(r) = Len(s) - 1
           /\ \A i \in k..(Len(s) - 1) : r[i] = s[i + 1]
           /\ Ids(r) = Ids(s) \ {s[k].id}
           /\ SentIds(r) = SentIds(s) \ {s[k].id}
           /\ OverdueIds(r) = OverdueIds(s) \ {s[k].id}
<1> DEFINE n == Len(s)
<1>1. /\ n \in Nat /\ DOMAIN s = 1..n /\ k \in 1..n /\ k \in Nat
      /\ \A i \in 1..n : /\ s[i] \in Entry /\ s[i].id \in Nat
                         /\ s[i].index = Wire(s[i].id)
      /\ \A i, j \in 1..n : /\ s[i].id < s[j].id <=> i < j
                            /\ s[i].id = s[j].id <=> i = j
  BY ListingOrder
<1>2. /\ r \in Seq(Entry) /\ Len(r) = n - 1
      /\ \A i \in 1..(k - 1) : r[i] = s[i]
      /\ \A i \in k..(n - 1) : r[i] = s[i + 1]
  BY RemovedAt DEF Listing
<1>3. DOMAIN r = 1..(n - 1)
  BY <1>2
<1> HIDE DEF n
<1>4. \A i \in 1..(n - 1) : \/ i < k /\ i \in 1..n /\ r[i] = s[i]
                            \/ i >= k /\ i + 1 \in 1..n /\ r[i] = s[i + 1]
  BY <1>1, <1>2
<1>5. ASSUME NEW i \in 1..(n - 1)
      PROVE  \E j \in 1..n : j # k /\ r[i] = s[j]
  BY <1>1, <1>4
<1>6. ASSUME NEW j \in 1..n, j # k
      PROVE  \E i \in 1..(n - 1) : r[i] = s[j]
  <2>1. CASE j < k
    <3>1. j \in 1..(k - 1) /\ j \in 1..(n - 1)
      BY <2>1, <1>1
    <3>2. QED
      BY <3>1, <1>2
  <2>2. CASE j > k
    <3>1. j - 1 \in k..(n - 1) /\ j - 1 \in 1..(n - 1) /\ (j - 1) + 1 = j
      BY <2>2, <1>1
    <3>2. QED
      BY <3>1, <1>2
  <2>3. QED
    BY <2>1, <2>2, <1>1, <1>6
<1>7. Ascending(r)
  <2>1. SUFFICES ASSUME NEW i \in 1..(n - 1), NEW j \in 1..(n - 1), i < j
                 PROVE  r[i].id < r[j].id
    BY <1>3 DEF Ascending
  <2>2. PICK a \in 1..n : r[i] = s[a] /\ ((a = i /\ i < k) \/ (a = i + 1 /\ i >= k))
    <3>1. CASE i < k /\ i \in 1..n /\ r[i] = s[i]
      BY <3>1
    <3>2. CASE i >= k /\ i + 1 \in 1..n /\ r[i] = s[i + 1]
      BY <3>2
    <3>3. QED
      BY <3>1, <3>2, <1>4
  <2>3. PICK b \in 1..n : r[j] = s[b] /\ ((b = j /\ j < k) \/ (b = j + 1 /\ j >= k))
    <3>1. CASE j < k /\ j \in 1..n /\ r[j] = s[j]
      BY <3>1
    <3>2. CASE j >= k /\ j + 1 \in 1..n /\ r[j] = s[j + 1]
      BY <3>2
    <3>3. QED
      BY <3>1, <3>2, <1>4
  <2>4. a < b
    BY <2>1, <2>2, <2>3, <1>1
  <2>5. QED
    BY <2>2, <2>3, <2>4, <1>1
<1>8. Wired(r)
  BY <1>1, <1>3, <1>5 DEF Wired
<1>9. Ids(r) = Ids(s) \ {s[k].id}
  <2>1. ASSUME NEW x \in Ids(r) PROVE x \in Ids(s) \ {s[k].id}
    <3>1. PICK i \in 1..(n - 1) : x = r[i].id
      BY <1>3 DEF Ids
    <3>2. PICK j \in 1..n : j # k /\ r[i] = s[j]
      BY <1>5
    <3>3. s[j].id # s[k].id
      BY <3>2, <1>1
    <3>4. x = s[j].id /\ j \in DOMAIN s
      BY <3>1, <3>2, <1>1
    <3>5. QED
      BY <3>1, <3>2, <3>3, <3>4 DEF Ids
  <2>2. ASSUME NEW x \in Ids(s) \ {s[k].id} PROVE x \in Ids(r)
    <3>1. PICK j \in 1..n : x = s[j].id
      BY <1>1 DEF Ids
    <3>2. PICK i \in 1..(n - 1) : r[i] = s[j]
      BY <3>1, <1>6
    <3>3. QED
      BY <3>1, <3>2, <1>3 DEF Ids
  <2>3. QED
    BY <2>1, <2>2
<1>10. SentIds(r) = SentIds(s) \ {s[k].id}
  <2>1. ASSUME NEW x \in SentIds(r) PROVE x \in SentIds(s) \ {s[k].id}
    <3>1. PICK i \in 1..(n - 1) : x = r[i].id /\ r[i].hasSent
      BY <1>3 DEF SentIds
    <3>2. PICK j \in 1..n : j # k /\ r[i] = s[j]
      BY <1>5
    <3>3. s[j].id # s[k].id
      BY <3>2, <1>1
    <3>4. x = s[j].id /\ j \in DOMAIN s
      BY <3>1, <3>2, <1>1
    <3>5. QED
      BY <3>1, <3>2, <3>3, <3>4 DEF SentIds
  <2>2. ASSUME NEW x \in SentIds(s) \ {s[k].id} PROVE x \in SentIds(r)
    <3>1. PICK j \in 1..n : x = s[j].id /\ s[j].hasSent
      BY <1>1 DEF SentIds
    <3>2. PICK i \in 1..(n - 1) : r[i] = s[j]
      BY <3>1, <1>6
    <3>3. QED
      BY <3>1, <3>2, <1>3 DEF SentIds
  <2>3. QED
    BY <2>1, <2>2
<1>11. OverdueIds(r) = OverdueIds(s) \ {s[k].id}
  <2>1. ASSUME NEW x \in OverdueIds(r) PROVE x \in OverdueIds(s) \ {s[k].id}
    <3>1. PICK i \in 1..(n - 1) : x = r[i].id /\ r[i].overdue
      BY <1>3 DEF OverdueIds
    <3>2. PICK j \in 1..n : j # k /\ r[i] = s[j]
      BY <1>5
    <3>3. s[j].id # s[k].id
      BY <3>2, <1>1
    <3>4. x = s[j].id /\ j \in DOMAIN s
      BY <3>1, <3>2, <1>1
    <3>5. QED
      BY <3>1, <3>2, <3>3, <3>4 DEF OverdueIds
  <2>2. ASSUME NEW x \in OverdueIds(s) \ {s[k].id} PROVE x \in OverdueIds(r)
    <3>1. PICK j \in 1..n : x = s[j].id /\ s[j].overdue
      BY <1>1 DEF OverdueIds
    <3>2. PICK i \in 1..(n - 1) : r[i] = s[j]
      BY <3>1, <1>6
    <3>3. QED
      BY <3>1, <3>2, <1>3 DEF OverdueIds
  <2>3. QED
    BY <2>1, <2>2
<1>12. QED
  BY <1>2, <1>7, <1>8, <1>9, <1>10, <1>11 DEF Listing, n

\* The same, with the list written out.
LEMMA ErasingEntry ==
    ASSUME NEW s, Listing(s), NEW k \in 1..Len(s)
    PROVE  LET r == RemoveAt(s, k)
           IN  /\ Listing(r) /\ Len(r) = Len(s) - 1
               /\ \A i \in k..(Len(s) - 1) : r[i] = s[i + 1]
               /\ Ids(r) = Ids(s) \ {s[k].id}
               /\ SentIds(r) = SentIds(s) \ {s[k].id}
               /\ OverdueIds(r) = OverdueIds(s) \ {s[k].id}
BY Erasing

\* The list with the entry at place k to be sent again.
MarkedAt(s, k) == [s EXCEPT ![k] = [s[k] EXCEPT !.hasSent = FALSE]]

\* Marking an entry changes what has been sent, nothing else.
LEMMA Marking ==
    ASSUME NEW s, Listing(s), NEW k \in 1..Len(s), NEW r, r = MarkedAt(s, k)
    PROVE  /\ Listing(r) /\ Len(r) = Len(s)
           /\ \A i \in 1..Len(s) : r[i].id = s[i].id
           /\ Ids(r) = Ids(s)
           /\ SentIds(r) = SentIds(s) \ {s[k].id}
           /\ OverdueIds(r) = OverdueIds(s)
<1> DEFINE n == Len(s)
<1>1. /\ n \in Nat /\ DOMAIN s = 1..n /\ s \in Seq(Entry)
      /\ \A i \in 1..n : /\ s[i] \in Entry /\ s[i].id \in Nat
                         /\ s[i].index = Wire(s[i].id)
      /\ \A i, j \in 1..n : /\ s[i].id < s[j].id <=> i < j
                            /\ s[i].id = s[j].id <=> i = j
  BY ListingOrder DEF Listing
<1>2. /\ DOMAIN r = 1..n
      /\ \A i \in 1..n : r[i] = IF i = k THEN [s[k] EXCEPT !.hasSent = FALSE] ELSE s[i]
  BY <1>1 DEF MarkedAt
<1>3. \A i \in 1..n : /\ r[i] \in Entry /\ r[i].id = s[i].id /\ r[i].index = s[i].index
                      /\ r[i].hasSent <=> s[i].hasSent /\ i # k
                      /\ r[i].overdue <=> s[i].overdue
  <2>1. ASSUME NEW e \in Entry, NEW f, f = [e EXCEPT !.hasSent = FALSE]
        PROVE  /\ f \in Entry /\ f.id = e.id /\ f.index = e.index
               /\ ~f.hasSent /\ f.overdue = e.overdue
    BY <2>1 DEF Entry
  <2>2. ASSUME NEW i \in 1..n
        PROVE  /\ r[i] \in Entry /\ r[i].id = s[i].id /\ r[i].index = s[i].index
               /\ r[i].hasSent <=> s[i].hasSent /\ i # k
               /\ r[i].overdue <=> s[i].overdue
    <3>1. CASE i = k
      BY <3>1, <2>1, <1>1, <1>2
    <3>2. CASE i # k
      BY <3>2, <1>1, <1>2
    <3>3. QED
      BY <3>1, <3>2
  <2>3. QED
    BY <2>2
<1>4. r \in Seq(Entry) /\ Len(r) = n
  <2>1. [s[k] EXCEPT !.hasSent = FALSE] \in Entry
    BY <1>2, <1>3
  <2>2. QED
    BY <1>1, <2>1 DEF MarkedAt
<1> HIDE DEF n
<1>5. Ascending(r) /\ Wired(r)
  BY <1>1, <1>2, <1>3 DEF Ascending, Wired
<1>6. Ids(r) = Ids(s)
  BY <1>1, <1>2, <1>3 DEF Ids
<1>6a. DOMAIN r = 1..n
  BY <1>4
<1>7. SentIds(r) = SentIds(s) \ {s[k].id}
  <2>1. {i \in DOMAIN r : r[i].hasSent} = {i \in DOMAIN s : s[i].hasSent} \ {k}
    BY <1>1, <1>2, <1>3
  <2>2. k \in 1..n
    BY DEF n
  <2>3. QED
    BY <2>1, <2>2, <1>1, <1>2, <1>3 DEF SentIds
<1>8. OverdueIds(r) = OverdueIds(s)
  <2>1. {i \in DOMAIN r : r[i].overdue} = {i \in DOMAIN s : s[i].overdue}
    <3>1. \A i \in 1..n : r[i].overdue <=> s[i].overdue
      BY <1>3
    <3>2. DOMAIN s = 1..n
      BY <1>1
    <3>3. QED
      BY <3>1, <3>2, <1>6a
  <2>2. \A i \in {j \in DOMAIN s : s[j].overdue} : r[i].id = s[i].id
    BY <1>1, <1>3
  <2>3. QED
    BY <2>1, <2>2 DEF OverdueIds
<1>9. QED
  BY <1>3, <1>4, <1>5, <1>6, <1>7, <1>8 DEF Listing, n

\* What is overdue counts as unsent and is overdue no more.
LEMMA Resending ==
    ASSUME NEW s, Listing(s), NEW r, r = ResendOverdue(s)
    PROVE  /\ Listing(r)
           /\ Ids(r) = Ids(s)
           /\ SentIds(r) = SentIds(s) \ OverdueIds(s)
           /\ OverdueIds(r) = {}
           /\ \A i \in DOMAIN r : r[i].overdue => r[i].hasSent
<1> DEFINE n == Len(s)
<1>1. /\ n \in Nat /\ DOMAIN s = 1..n /\ s \in Seq(Entry)
      /\ \A i \in 1..n : /\ s[i] \in Entry /\ s[i].id \in Nat
                         /\ s[i].index = Wire(s[i].id)
      /\ \A i, j \in 1..n : /\ s[i].id < s[j].id <=> i < j
                            /\ s[i].id = s[j].id <=> i = j
  BY ListingOrder DEF Listing
<1>2. r = [i \in 1..n |-> [s[i] EXCEPT !.hasSent = s[i].hasSent /\ ~s[i].overdue,
                                       !.overdue = FALSE]]
  BY <1>1 DEF ResendOverdue
<1> HIDE DEF n
<1>3. \A i \in 1..n : /\ r[i] \in Entry /\ r[i].id = s[i].id /\ r[i].index = s[i].index
                      /\ r[i].hasSent <=> s[i].hasSent /\ ~s[i].overdue
                      /\ ~r[i].overdue
  <2>1. ASSUME NEW e \in Entry, NEW f,
               f = [e EXCEPT !.hasSent = e.hasSent /\ ~e.overdue, !.overdue = FALSE]
        PROVE  /\ f \in Entry /\ f.id = e.id /\ f.index = e.index
               /\ f.hasSent <=> e.hasSent /\ ~e.overdue
               /\ ~f.overdue
    BY <2>1 DEF Entry
  <2>2. SUFFICES ASSUME NEW i \in 1..n
                 PROVE  /\ r[i] \in Entry /\ r[i].id = s[i].id /\ r[i].index = s[i].index
                        /\ r[i].hasSent <=> s[i].hasSent /\ ~s[i].overdue
                        /\ ~r[i].overdue
    OBVIOUS
  <2>3. s[i] \in Entry
    BY <1>1
  <2>4. r[i] = [s[i] EXCEPT !.hasSent = s[i].hasSent /\ ~s[i].overdue, !.overdue = FALSE]
    BY <1>2
  <2>5. QED
    BY <2>1, <2>3, <2>4
<1>4. DOMAIN r = 1..n
  BY <1>2
<1>5. r \in Seq(Entry)
  <2>1. r = [i \in 1..n |-> r[i]]
    BY <1>2
  <2>2. QED
    BY <2>1, <1>1, <1>3
<1>6. Ascending(r) /\ Wired(r)
  BY <1>1, <1>3, <1>4 DEF Ascending, Wired
<1>7. Ids(r) = Ids(s)
  BY <1>1, <1>3, <1>4 DEF Ids
<1>8. SentIds(r) = SentIds(s) \ OverdueIds(s)
  <2>1. {i \in DOMAIN r : r[i].hasSent}
           = {i \in DOMAIN s : s[i].hasSent} \ {i \in DOMAIN s : s[i].overdue}
    BY <1>1, <1>3, <1>4
  <2>2. QED
    BY <2>1, <1>1, <1>3 DEF SentIds, OverdueIds
<1>9. OverdueIds(r) = {}
  BY <1>3, <1>4 DEF OverdueIds
<1>10. QED
  BY <1>3, <1>4, <1>5, <1>6, <1>7, <1>8, <1>9 DEF Listing


-----------------------------------------------------------------------------
(* An acknowledgement in numbers: which places of the list it is about. *)

\* Every number the acknowledgement loop meets is near the next one, so that
\* distances and indices tell numbers apart.
LEMMA AckNumbers ==
    ASSUME LInv, NEW a \in ackNet, sentCount + 1 - a.ghost.last <= Lag
    PROVE  LET met == Ids(outList) \cup a.ghost.have \cup {a.ghost.last}
           IN  /\ met \subseteq Nat
               /\ \A n \in met : /\ DistanceToIndex(Wire(n), outIndex) = n - (sentCount + 1)
                                 /\ P!Delta(n) = n - (sentCount + 1)
               /\ \A m, n \in met : /\ Wire(m) = Wire(n) <=> m = n
                                    /\ P!Wire(m) = P!Wire(n) <=> m = n
               /\ \A n \in a.ghost.have : n > a.ghost.last
<1> DEFINE met == Ids(outList) \cup a.ghost.have \cup {a.ghost.last}
           next == sentCount + 1
<1>1. sentCount \in Nat /\ next \in Nat /\ outIndex = Wire(next)
  BY DEF LInv, Shape, Counters
<1>2. /\ P!TypeOK /\ P!AcksTruthful
      /\ a.ghost \in {b.ghost : b \in ackNet}
  BY DEF LInv, P!IInv
<1>3. /\ a.ghost.last \in Nat /\ a.ghost.last < Len(delivered) + 1
      /\ a.ghost.have \subseteq 1..((sentCount + 1) - 1)
      /\ \A h \in a.ghost.have : h > a.ghost.last
  BY <1>2 DEF P!TypeOK, P!AcksTruthful
<1>4. Len(delivered) <= sentCount /\ Len(delivered) \in Nat
  BY Bounds
<1>5. /\ HalfRange \in Nat /\ Window <= HalfRange /\ Lag <= HalfRange
      /\ Window \in Nat /\ Lag \in Nat /\ 2 * HalfRange < Modulus /\ Modulus \in Nat
  BY HalfRangeBound, ListsAssumption
<1>6. \A n \in Ids(outList) : n \in Nat /\ n < next /\ next - n <= HalfRange
  <2>1. \A i \in DOMAIN outList : /\ outList[i].id \in 1..sentCount
                                  /\ sentCount + 1 - outList[i].id <= Window
    BY Bounds
  <2>2. SUFFICES ASSUME NEW i \in DOMAIN outList
                 PROVE  /\ outList[i].id \in Nat /\ outList[i].id < next
                        /\ next - outList[i].id <= HalfRange
    BY DEF Ids
  <2>3. QED
    BY <2>1, <1>1, <1>5
<1>7. \A n \in a.ghost.have : n \in Nat /\ n < next /\ next - n <= HalfRange
  BY <1>1, <1>3, <1>5
<1>8. a.ghost.last \in Nat /\ a.ghost.last < next /\ next - a.ghost.last <= HalfRange
  BY <1>1, <1>3, <1>4, <1>5
<1>9. \A n \in met : n \in Nat /\ n < next /\ next - n <= HalfRange
  BY <1>6, <1>7, <1>8
<1> HIDE DEF met, next
<1>10. ASSUME NEW n \in met
       PROVE  /\ DistanceToIndex(Wire(n), outIndex) = n - next
              /\ P!Delta(n) = n - next
  <2>1. n \in Int /\ next \in Int /\ n - next <= HalfRange /\ n - next >= -HalfRange
    BY <1>1, <1>5, <1>9
  <2>2. DistanceToIndex(Wire(n), Wire(next)) = n - next
    BY <2>1, WireDistance
  <2>3. P!Delta(n) = DistanceToIndex(Wire(n), Wire(next))
    BY DEF P!Delta, P!DistanceToIndex, DistanceToIndex, P!HalfRange, HalfRange,
           P!Wire, Wire, next
  <2>4. QED
    BY <1>1, <2>2, <2>3
<1>11. ASSUME NEW m \in met, NEW n \in met
       PROVE  /\ Wire(m) = Wire(n) <=> m = n
              /\ P!Wire(m) = P!Wire(n) <=> m = n
  <2>1. m \in Int /\ n \in Int /\ m - n < Modulus /\ m - n > -Modulus
    BY <1>1, <1>5, <1>9
  <2>2. Wire(m) = Wire(n) => m = n
    BY <2>1, WireInjective
  <2>3. P!Wire(m) = Wire(m) /\ P!Wire(n) = Wire(n)
    BY DEF P!Wire, Wire
  <2>4. QED
    BY <2>2, <2>3
<1>12. QED
  BY <1>3, <1>9, <1>10, <1>11 DEF met, next

\* The first k entries of a list have k numbers.
LEMMA RankIsPlace ==
    ASSUME NEW s, Listing(s), NEW k \in 0..Len(s)
    PROVE  P!Cardinality({s[i].id : i \in 1..k}) = k
<1> DEFINE T == {s[i].id : i \in 1..k}
           f == [i \in 1..k |-> s[i].id]
<1>1. /\ Len(s) \in Nat /\ k \in Nat /\ k <= Len(s)
      /\ \A i, j \in 1..Len(s) : s[i].id = s[j].id <=> i = j
  BY ListingOrder
<1>2. \A i, j \in 1..k : s[i].id = s[j].id => i = j
  BY <1>1
<1>3. f \in Bijection(1..k, T)
  <2>1. f \in [1..k -> T] /\ \A i \in 1..k : f[i] = s[i].id
    OBVIOUS
  <2>2. \A i, j \in 1..k : f[i] = f[j] => i = j
    BY <2>1, <1>2
  <2>3. \A t \in T : \E i \in 1..k : f[i] = t
    BY <2>1
  <2> HIDE DEF f, T
  <2>4. QED
    BY <2>1, <2>2, <2>3 DEF Bijection, Injection, IsInjective, Surjection
<1>4. IsFiniteSet(1..k) /\ Cardinality(1..k) = k
  <2>1. /\ IsFiniteSet(1..k)
        /\ Cardinality(1..k) = IF 1 > k THEN 0 ELSE k - 1 + 1
    BY <1>1, FS_Interval
  <2>2. (1 > k => k = 0) /\ k - 1 + 1 = k
    BY <1>1
  <2>3. QED
    BY <2>1, <2>2
<1>5. Cardinality(T) = k
  <2>1. ExistsBijection(1..k, T)
    BY <1>3 DEF ExistsBijection
  <2> HIDE DEF T
  <2>2. QED
    BY <2>1, <1>4, FS_Bijection
<1>6. P!Cardinality(T) = Cardinality(T)
  BY DEF P!Cardinality, Cardinality
<1>7. QED
  BY <1>5, <1>6

\* hs are the numbers of an acknowledgement in the order of its indices, and
\* w is the first place of the list that they are compared with.
Plan(a, hs, w) ==
    LET n == Len(outList)
        last == a.ghost.last
    IN  /\ Enumerates(hs, a.ghost.have)
        /\ a.have = [i \in 1..Len(hs) |-> Wire(hs[i])]
        /\ w \in 1..(n + 2)
        /\ \A j \in 1..n : j < w /\ j % 2 = 1 => outList[j].id <= last
        /\ \A j \in w..n : outList[j].id > last
        /\ w % 2 = 0 => w - 1 \in 1..n /\ outList[w - 1].id = last
        /\ w % 2 = 1 => w = 1 \/ (w - 2 \in 1..n /\ outList[w - 2].id < last)

\* What becomes of the message at each place: those in ack are erased, those
\* in skip are to be sent again.
Fates(hs, w, ack, skip) ==
    LET n == Len(outList)
        h == Len(hs) - 1
    IN  /\ ack \subseteq Ids(outList) /\ skip \subseteq Ids(outList)
        /\ \A j \in 1..n : j < w => /\ outList[j].id \in ack <=> j % 2 = 1
                                    /\ outList[j].id \notin skip
        /\ \A j \in w..n :
              /\ outList[j].id \in ack <=> \E p \in 1..h : outList[j].id = hs[p]
              /\ outList[j].id \in skip <=>
                    /\ outList[j].id \notin ack
                    /\ \/ \E p \in 1..h : outList[j].id < hs[p]
                       \/ /\ h >= 1
                          /\ \A i \in w..n : /\ outList[i].id # hs[h]
                                             /\ hs[h] < outList[i].id => j <= i


\* What ReliableTranscoder says of an acknowledgement in closed form, told by
\* places of the list.
LEMMA AckPlan ==
    ASSUME LInv, NEW a \in ackNet, sentCount + 1 - a.ghost.last <= Lag
    PROVE  \E hs, w : /\ Plan(a, hs, w)
                      /\ Fates(hs, w, P!Acknowledged(a.ghost),
                                      P!Skipped(a.ghost.last, a.ghost.have))
<1> DEFINE n == Len(outList)
           next == sentCount + 1
           last == a.ghost.last
           have == a.ghost.have
           U == Ids(outList)
           met == U \cup have \cup {last}
<1>1. Listing(outList)
  BY DEF LInv, Shape, SenderList, Listing
<1>2. /\ n \in Nat /\ DOMAIN outList = 1..n
      /\ \A i \in 1..n : outList[i].id \in Nat /\ outList[i].id \in U
      /\ \A i, j \in 1..n : /\ outList[i].id < outList[j].id <=> i < j
                            /\ outList[i].id = outList[j].id <=> i = j
      /\ \A m \in U : \E i \in 1..n : m = outList[i].id
  <2>1. n \in Nat /\ DOMAIN outList = 1..n
    BY <1>1, ListingOrder
  <2>2. /\ \A i \in 1..n : outList[i].id \in U
        /\ \A m \in U : \E i \in 1..n : m = outList[i].id
    BY <2>1 DEF Ids
  <2>3. QED
    BY <1>1, <2>1, <2>2, ListingOrder
<1>3. /\ next \in Nat /\ met \subseteq Nat
      /\ \A m \in met : P!Delta(m) = m - next
      /\ \A m, k \in met : P!Wire(m) = P!Wire(k) <=> m = k
      /\ \A m \in have : m > last
  <2>1. next \in Nat
    BY DEF LInv, Shape, Counters
  <2>2. QED
    BY <2>1, AckNumbers
<1>4. PICK hs : Enumerates(hs, have) /\ a.have = [i \in 1..Len(hs) |-> Wire(hs[i])]
  BY DEF LInv, Shape, Acknowledgements
<1>5. {e.id : e \in Entries} = U
  BY Mapping
<1> HIDE DEF n, next, last, have, U
<1> DEFINE h == Len(hs) - 1
<1>6. /\ Len(hs) \in Nat /\ DOMAIN hs = 1..Len(hs) /\ h \in Int
      /\ \A i \in 1..Len(hs) : hs[i] \in have /\ hs[i] \in Nat
      /\ \A i, j \in 1..Len(hs) : i < j => hs[i] < hs[j]
      /\ \A m \in have : \E i \in 1..Len(hs) : m = hs[i]
  <2>1. hs \in Seq(Nat) /\ (\A i, j \in DOMAIN hs : i < j => hs[i] < hs[j])
        /\ have = {hs[i] : i \in DOMAIN hs}
    BY <1>4 DEF Enumerates
  <2>2. Len(hs) \in Nat /\ DOMAIN hs = 1..Len(hs) /\ \A i \in 1..Len(hs) : hs[i] \in Nat
    BY <2>1
  <2>3. \A i \in 1..Len(hs) : hs[i] \in have
    BY <2>1, <2>2
  <2>4. \A m \in have : \E i \in 1..Len(hs) : m = hs[i]
    BY <2>1, <2>2
  <2>5. \A i, j \in 1..Len(hs) : i < j => hs[i] < hs[j]
    BY <2>1, <2>2
  <2>6. h \in Int
    BY <2>2
  <2>7. QED
    BY <2>2, <2>3, <2>4, <2>5, <2>6
\* The indices that are read.
<1>7. P!Listed(have) = {hs[p] : p \in 1..h}
  <2>1. ASSUME NEW m \in have
        PROVE  (\E g \in have : m < g) <=> \E p \in 1..h : m = hs[p]
    <3>1. PICK i \in 1..Len(hs) : m = hs[i]
      BY <1>6
    <3>2. ASSUME NEW g \in have, m < g PROVE i \in 1..h
      <4>1. PICK j \in 1..Len(hs) : g = hs[j]
        BY <1>6
      <4>2. hs[i] \in Nat /\ hs[j] \in Nat /\ hs[i] < hs[j]
        BY <3>1, <3>2, <4>1, <1>6
      <4>3. ~(j < i) /\ i # j
        BY <4>2, <1>6
      <4>4. QED
        BY <4>3, <1>6
    <3>3. ASSUME NEW p \in 1..h, m = hs[p] PROVE \E g \in have : m < g
      <4>1. p \in 1..Len(hs) /\ p + 1 \in 1..Len(hs) /\ p < p + 1
        BY <1>6
      <4>2. QED
        BY <3>3, <4>1, <1>6
    <3>4. QED
      BY <3>1, <3>2, <3>3
  <2>2. ASSUME NEW p \in 1..h PROVE hs[p] \in have
    BY <1>6
  <2> HIDE DEF h
  <2>3. QED
    BY <2>1, <2>2 DEF P!Listed
\* The covered messages are the first c.
<1> DEFINE S == {j \in 1..n : outList[j].id <= last}
<1>8. PICK d \in 1..(n + 1) : d \notin S /\ 1..(d - 1) \subseteq S
  <2>1. 1 \in Nat /\ n + 1 \in Nat /\ n + 1 >= 1 /\ n + 1 \notin S
    BY <1>2
  <2> HIDE DEF S
  <2>2. QED
    BY <2>1, P!LeastMissing, Constants
<1>9. PICK c \in 0..n : c = d - 1
  BY <1>2, <1>8
<1>10. last \in Nat
  BY <1>3
<1>11. \A j \in 1..n : /\ j <= c => outList[j].id <= last
                       /\ j > c => outList[j].id > last
  <2>1. SUFFICES ASSUME NEW j \in 1..n
                 PROVE  /\ j <= c => outList[j].id <= last
                        /\ j > c => outList[j].id > last
    OBVIOUS
  <2>2. CASE j <= c
    <3>1. j \in 1..(d - 1) /\ ~(j > c)
      BY <2>2, <1>2, <1>8, <1>9
    <3>2. QED
      BY <3>1, <1>8
  <2>3. CASE j > c
    <3>1. d \in 1..n /\ d <= j /\ ~(j <= c)
      BY <2>3, <1>2, <1>8, <1>9
    <3>2. ~(outList[d].id <= last)
      BY <3>1, <1>8
    <3>3. outList[d].id = outList[j].id \/ outList[d].id < outList[j].id
      BY <3>1, <1>2
    <3>4. outList[d].id \in Nat /\ outList[j].id \in Nat
      BY <3>1, <1>2
    <3>5. QED
      BY <3>1, <3>2, <3>3, <3>4, <1>10
  <2>4. QED
    BY <2>2, <2>3, <1>2, <1>9
<1> HIDE DEF S
<1>12. \A m \in U : P!Delta(m) <= P!Delta(last) <=> m <= last
  BY <1>3
<1>13. P!Covered(last) = {outList[j].id : j \in 1..c}
  <2>1. P!Covered(last) = {m \in U : m <= last}
    BY <1>5, <1>12 DEF P!Covered
  <2>2. {m \in U : m <= last} = {outList[j].id : j \in 1..c}
    <3>1. ASSUME NEW m \in U, m <= last PROVE m \in {outList[j].id : j \in 1..c}
      <4>1. PICK i \in 1..n : m = outList[i].id
        BY <1>2
      <4>2. i \in 1..c
        BY <3>1, <4>1, <1>2, <1>9, <1>10, <1>11
      <4>3. QED
        BY <4>1, <4>2
    <3>2. ASSUME NEW j \in 1..c PROVE outList[j].id \in U /\ outList[j].id <= last
      <4>1. j \in 1..n /\ j <= c
        BY <1>2, <1>9
      <4>2. QED
        BY <4>1, <1>2, <1>11
    <3>3. QED
      BY <3>1, <3>2
  <2>3. QED
    BY <2>1, <2>2
<1>14. P!Cardinality(P!Covered(last)) = c
  <2>1. c \in 0..Len(outList)
    BY DEF n
  <2>2. QED
    BY <2>1, <1>1, <1>13, RankIsPlace
<1>15. \A j \in 1..n : P!Rank(outList[j].id) = j
  <2>1. SUFFICES ASSUME NEW j \in 1..n PROVE P!Rank(outList[j].id) = j
    OBVIOUS
  <2>2. {m \in U : m <= outList[j].id} = {outList[i].id : i \in 1..j}
    <3>1. ASSUME NEW m \in U, m <= outList[j].id
          PROVE  m \in {outList[i].id : i \in 1..j}
      <4>1. PICK i \in 1..n : m = outList[i].id
        BY <1>2
      <4>2. outList[i].id \in Nat /\ outList[j].id \in Nat /\ ~(outList[j].id < outList[i].id)
        BY <3>1, <4>1, <1>2
      <4>3. i \in 1..j
        BY <4>2, <1>2
      <4>4. QED
        BY <4>1, <4>3
    <3>2. ASSUME NEW i \in 1..j PROVE outList[i].id \in U /\ outList[i].id <= outList[j].id
      <4>1. i \in 1..n /\ (i < j \/ i = j)
        BY <1>2
      <4>2. outList[i].id < outList[j].id \/ outList[i].id = outList[j].id
        BY <4>1, <1>2
      <4>3. outList[i].id \in Nat /\ outList[j].id \in Nat /\ outList[i].id \in U
        BY <4>1, <1>2
      <4>4. QED
        BY <4>2, <4>3
    <3>3. QED
      BY <3>1, <3>2
  <2>3. P!Cardinality({outList[i].id : i \in 1..j}) = j
    <3>1. j \in 0..Len(outList)
      BY <1>2 DEF n
    <3>2. QED
      BY <3>1, <1>1, RankIsPlace
  <2>4. P!Rank(outList[j].id) = P!Cardinality({m \in U : m <= outList[j].id})
    BY <1>5 DEF P!Rank
  <2>5. QED
    BY <2>2, <2>3, <2>4
<1>16. \A j \in 1..n : outList[j].id \in P!Covered(last) <=> j <= c
  <2>1. SUFFICES ASSUME NEW j \in 1..n PROVE outList[j].id \in P!Covered(last) <=> j <= c
    OBVIOUS
  <2>2. ASSUME j <= c PROVE outList[j].id \in P!Covered(last)
    <3>1. j \in 1..c
      BY <2>2, <1>9
    <3>2. QED
      BY <3>1, <1>13
  <2>3. ASSUME NEW i \in 1..c, outList[j].id = outList[i].id PROVE j <= c
    <3>1. i \in 1..n
      BY <1>2, <1>9
    <3>2. i = j
      BY <2>3, <3>1, <1>2
    <3>3. QED
      BY <3>2, <1>9
  <2>4. QED
    BY <2>2, <2>3, <1>13
<1>17. P!StepsOver(last) <=> c % 2 = 1 /\ last \notin U
  <2>1. (\A m \in U : P!Wire(m) # P!Wire(last)) <=> last \notin U
    BY <1>3
  <2>2. QED
    BY <2>1, <1>5, <1>14 DEF P!StepsOver
<1> DEFINE w == IF P!StepsOver(last) THEN c + 2 ELSE c + 1
<1>18. \A j \in 1..n : outList[j].id \in P!Walked(last) <=> j >= w
  <2>1. SUFFICES ASSUME NEW j \in 1..n
                 PROVE  outList[j].id \in P!Walked(last) <=> j >= w
    OBVIOUS
  <2>2. outList[j].id \in P!Walked(last)
          <=> /\ j > c
              /\ P!StepsOver(last) => \E m \in U \ P!Covered(last) : m < outList[j].id
    <3>1. outList[j].id \in U /\ (outList[j].id \notin P!Covered(last) <=> j > c)
      BY <1>2, <1>9, <1>16
    <3>2. QED
      BY <3>1, <1>5 DEF P!Walked
  <2>3. (\E m \in U \ P!Covered(last) : m < outList[j].id) <=> j > c + 1
    <3>1. ASSUME NEW m \in U \ P!Covered(last), m < outList[j].id PROVE j > c + 1
      <4>1. PICK i \in 1..n : m = outList[i].id
        BY <1>2
      <4>2. i > c /\ i < j
        BY <3>1, <4>1, <1>2, <1>9, <1>16
      <4>3. QED
        BY <4>2, <1>9
    <3>2. ASSUME j > c + 1 PROVE \E m \in U \ P!Covered(last) : m < outList[j].id
      <4>1. c + 1 \in 1..n /\ c + 1 < j /\ ~(c + 1 <= c)
        BY <3>2, <1>2, <1>9
      <4>2. outList[c + 1].id \in U \ P!Covered(last) /\ outList[c + 1].id < outList[j].id
        BY <4>1, <1>2, <1>16
      <4>3. QED
        BY <4>2
    <3>3. QED
      BY <3>1, <3>2
  <2>4. QED
    BY <2>2, <2>3, <1>2, <1>9
<1>19. Plan(a, hs, w)
  <2>1. w \in 1..(n + 2)
    BY <1>2, <1>9
  <2>2. ASSUME NEW j \in 1..n, j < w, j % 2 = 1 PROVE outList[j].id <= last
    <3>1. CASE P!StepsOver(last)
      <4>1. c % 2 = 1 /\ j < c + 2
        BY <3>1, <2>2, <1>17
      <4>2. j # c + 1
        BY <4>1, <2>2, <1>9
      <4>3. j <= c
        BY <4>1, <4>2, <1>9
      <4>4. QED
        BY <4>3, <1>11
    <3>2. CASE ~P!StepsOver(last)
      <4>1. j <= c
        BY <3>2, <2>2, <1>9
      <4>2. QED
        BY <4>1, <1>11
    <3>3. QED
      BY <3>1, <3>2
  <2>3. ASSUME NEW j \in w..n PROVE outList[j].id > last
    <3>1. j \in 1..n /\ j > c
      BY <1>2, <1>9
    <3>2. QED
      BY <3>1, <1>11
  <2>4. ASSUME w % 2 = 0 PROVE w - 1 \in 1..n /\ outList[w - 1].id = last
    <3>1. c % 2 = 1 /\ last \in U /\ w = c + 1
      BY <2>4, <1>9, <1>17
    <3>2. c \in 1..n /\ w - 1 = c
      BY <3>1, <1>9
    <3>3. PICK i \in 1..n : last = outList[i].id
      BY <3>1, <1>2
    <3>4. i <= c
      BY <3>3, <1>2, <1>9, <1>11
    <3>5. outList[c].id <= last
      BY <3>2, <1>9, <1>11
    <3>6. i = c
      <4>1. outList[c].id \in Nat /\ ~(outList[i].id < outList[c].id)
        BY <3>2, <3>3, <3>5, <1>2, <1>10
      <4>2. ~(i < c)
        BY <3>2, <4>1, <1>2
      <4>3. QED
        BY <3>2, <3>4, <4>2
    <3>7. QED
      BY <3>2, <3>3, <3>6
  <2>5. ASSUME w % 2 = 1 PROVE w = 1 \/ (w - 2 \in 1..n /\ outList[w - 2].id < last)
    <3>1. CASE P!StepsOver(last)
      <4>1. w = c + 2 /\ c % 2 = 1 /\ last \notin U /\ w - 2 = c
        BY <3>1, <1>9, <1>17
      <4>2. c \in 1..n
        BY <4>1, <1>9
      <4>3. outList[c].id <= last /\ outList[c].id # last /\ outList[c].id \in Nat
        BY <4>1, <4>2, <1>2, <1>9, <1>11
      <4>4. QED
        BY <4>1, <4>2, <4>3, <1>10
    <3>2. CASE ~P!StepsOver(last)
      <4>1. w = c + 1 /\ c % 2 = 0
        BY <3>2, <2>5, <1>9
      <4>2. CASE c = 0
        BY <4>1, <4>2
      <4>3. CASE c > 0
        <5>1. c - 1 \in 1..n /\ c \in 1..n /\ w - 2 = c - 1
          BY <4>1, <4>3, <1>2, <1>9
        <5>2. outList[c - 1].id < outList[c].id /\ outList[c].id <= last
          BY <5>1, <1>2, <1>9, <1>11
        <5>3. outList[c - 1].id \in Nat /\ outList[c].id \in Nat
          BY <5>1, <1>2
        <5>4. QED
          BY <5>1, <5>2, <5>3, <1>10
      <4>4. QED
        BY <4>2, <4>3, <1>9
    <3>3. QED
      BY <3>1, <3>2
  <2> HIDE DEF w
  <2>6. QED
    BY <2>1, <2>2, <2>3, <2>4, <2>5, <1>4 DEF Plan, n, last, have

<1>20. Fates(hs, w, P!Acknowledged(a.ghost), P!Skipped(last, have))
  <2> DEFINE ack == P!Acknowledged(a.ghost)
             skip == P!Skipped(last, have)
  <2>1. \A j \in 1..n : P!IsListed(outList[j].id, have) <=> \E p \in 1..h : outList[j].id = hs[p]
    <3>1. SUFFICES ASSUME NEW j \in 1..n
                   PROVE  P!IsListed(outList[j].id, have) <=> \E p \in 1..h : outList[j].id = hs[p]
      OBVIOUS
    <3>2. outList[j].id \in met /\ \A p \in 1..h : hs[p] \in met
      BY <1>2, <1>6
    <3>3. \A p \in 1..h : P!Wire(hs[p]) = P!Wire(outList[j].id) <=> outList[j].id = hs[p]
      BY <3>2, <1>3
    <3>4. P!IsListed(outList[j].id, have)
             <=> \E p \in 1..h : P!Wire(hs[p]) = P!Wire(outList[j].id)
      BY <1>7 DEF P!IsListed
    <3>5. QED
      BY <3>3, <3>4
  <2>2. P!Walked(last) \subseteq U /\ P!Covered(last) \subseteq U
    BY <1>5 DEF P!Walked, P!Covered
  <2>3. ack \subseteq U /\ skip \subseteq U
    BY <2>2 DEF P!Acknowledged, P!Cleared, P!Skipped, last
  <2>4. \A j \in 1..n : j < w => ~(j >= w)
    BY <1>9
  <2>5. ASSUME NEW j \in 1..n, j < w
        PROVE  (outList[j].id \in ack <=> j % 2 = 1) /\ outList[j].id \notin skip
    <3>1. outList[j].id \notin P!Walked(last)
      BY <2>4, <2>5, <1>18
    <3>2. outList[j].id \in ack <=> outList[j].id \in P!Covered(last) /\ P!Rank(outList[j].id) % 2 = 1
      BY <3>1 DEF P!Acknowledged, P!Cleared, last
    <3>3. outList[j].id \in ack <=> j <= c /\ j % 2 = 1
      BY <3>2, <1>15, <1>16
    <3>4. j % 2 = 1 => j <= c
      <4>1. CASE P!StepsOver(last)
        <5>1. c % 2 = 1 /\ j < c + 2
          BY <4>1, <2>5, <1>17
        <5>2. j % 2 = 1 => j # c + 1
          BY <5>1, <1>9
        <5>3. QED
          BY <5>1, <5>2, <1>9
      <4>2. CASE ~P!StepsOver(last)
        BY <4>2, <2>5, <1>9
      <4>3. QED
        BY <4>1, <4>2
    <3>5. outList[j].id \notin skip
      BY <3>1 DEF P!Skipped
    <3>6. QED
      BY <3>3, <3>4, <3>5
  <2>6. ASSUME NEW j \in w..n
        PROVE  /\ outList[j].id \in ack <=> \E p \in 1..h : outList[j].id = hs[p]
               /\ outList[j].id \in skip <=>
                     /\ outList[j].id \notin ack
                     /\ \/ \E p \in 1..h : outList[j].id < hs[p]
                        \/ /\ h >= 1
                           /\ \A i \in w..n : /\ outList[i].id # hs[h]
                                              /\ hs[h] < outList[i].id => j <= i
    <3>1. j \in 1..n /\ j >= w /\ j > c
      BY <1>2, <1>9
    <3>2. outList[j].id \in P!Walked(last) /\ outList[j].id \notin P!Covered(last)
      BY <3>1, <1>9, <1>16, <1>18
    <3>3. outList[j].id \in ack <=> P!IsListed(outList[j].id, have)
      BY <3>2 DEF P!Acknowledged, P!Cleared, last, have
    <3>4. outList[j].id \in ack <=> \E p \in 1..h : outList[j].id = hs[p]
      BY <3>1, <3>3, <2>1
    <3> DEFINE First(k) == /\ \A m \in P!Walked(last) :
                                 /\ P!Wire(m) # P!Wire(k)
                                 /\ P!Delta(k) < P!Delta(m) => outList[j].id <= m
                           /\ \A g \in P!Listed(have) : g <= k
    <3>5. outList[j].id \in skip <=>
             /\ outList[j].id \notin ack
             /\ \E k \in P!Listed(have) : P!Delta(outList[j].id) < P!Delta(k) \/ First(k)
      BY <3>2, <3>3 DEF P!Skipped
    <3>6. \A p \in 1..h : P!Delta(outList[j].id) < P!Delta(hs[p]) <=> outList[j].id < hs[p]
      <4>1. outList[j].id \in met /\ \A p \in 1..h : hs[p] \in met
        BY <3>1, <1>2, <1>6
      <4>2. QED
        BY <4>1, <1>3
    <3>7. ASSUME NEW p \in 1..h
          PROVE  First(hs[p]) <=> /\ p = h
                                  /\ \A i \in w..n : /\ outList[i].id # hs[p]
                                                     /\ hs[p] < outList[i].id => j <= i
      <4>1. (\A g \in P!Listed(have) : g <= hs[p]) <=> p = h
        <5>1. h \in 1..h /\ h \in 1..Len(hs) /\ p \in 1..Len(hs) /\ p <= h
          BY <1>6
        <5>2. ASSUME NEW q \in 1..h PROVE hs[q] <= hs[h] /\ hs[q] \in Nat
          <6>0. Len(hs) \in Nat
            BY <1>6
          <6>1. q \in 1..Len(hs) /\ (q < h \/ q = h)
            BY <6>0
          <6>2. hs[q] \in Nat /\ hs[h] \in Nat /\ (q < h => hs[q] < hs[h])
            BY <5>1, <6>1, <1>6
          <6>3. QED
            BY <6>1, <6>2
        <5>3. p < h => hs[p] < hs[h]
          BY <5>1, <1>6
        <5>4. hs[p] \in Nat /\ hs[h] \in Nat
          BY <5>1, <1>6
        <5>5. ASSUME p = h PROVE \A g \in P!Listed(have) : g <= hs[p]
          BY <5>2, <5>5, <1>7
        <5>6. ASSUME \A g \in P!Listed(have) : g <= hs[p] PROVE p = h
          <6>1. hs[h] \in P!Listed(have)
            BY <5>1, <1>7
          <6>2. hs[h] <= hs[p]
            BY <6>1, <5>6
          <6>3. ~(p < h)
            BY <6>2, <5>3, <5>4
          <6>4. Len(hs) \in Nat
            BY <1>6
          <6>5. QED
            BY <6>3, <6>4
        <5>7. QED
          BY <5>5, <5>6
      <4>2. \A m \in P!Walked(last) : \E i \in w..n : m = outList[i].id
        <5>1. SUFFICES ASSUME NEW m \in P!Walked(last) PROVE \E i \in w..n : m = outList[i].id
          OBVIOUS
        <5>2. PICK i \in 1..n : m = outList[i].id
          BY <2>2, <1>2
        <5>3. i >= w
          BY <5>2, <1>18
        <5>4. i \in w..n
          BY <5>3, <1>2, <1>9
        <5>5. QED
          BY <5>2, <5>4
      <4>3. ASSUME NEW i \in w..n
            PROVE  /\ outList[i].id \in P!Walked(last)
                   /\ P!Wire(outList[i].id) = P!Wire(hs[p]) <=> outList[i].id = hs[p]
                   /\ P!Delta(hs[p]) < P!Delta(outList[i].id) <=> hs[p] < outList[i].id
                   /\ outList[j].id <= outList[i].id <=> j <= i
        <5>1. i \in 1..n /\ i >= w
          BY <1>2, <1>9
        <5>2. outList[i].id \in P!Walked(last)
          BY <5>1, <1>18
        <5>3. outList[i].id \in met /\ hs[p] \in met
          BY <5>1, <1>2, <1>6
        <5>4. /\ P!Wire(outList[i].id) = P!Wire(hs[p]) <=> outList[i].id = hs[p]
              /\ P!Delta(hs[p]) = hs[p] - next
              /\ P!Delta(outList[i].id) = outList[i].id - next
          BY <5>3, <1>3
        <5>5. hs[p] - next < outList[i].id - next <=> hs[p] < outList[i].id
          <6>1. hs[p] \in Nat /\ outList[i].id \in Nat /\ next \in Nat
            BY <5>3, <1>3
          <6>2. QED
            BY <6>1
        <5>6. /\ outList[j].id < outList[i].id <=> j < i
              /\ outList[j].id = outList[i].id <=> j = i
              /\ outList[j].id \in Nat /\ outList[i].id \in Nat
          BY <5>1, <3>1, <1>2
        <5>7. outList[j].id <= outList[i].id <=> j <= i
          BY <5>1, <5>6, <3>1
        <5>8. QED
          BY <5>2, <5>4, <5>5, <5>7
      <4> HIDE DEF w, h
      <4>4. QED
        BY <4>1, <4>2, <4>3
    <3> HIDE DEF First
    <3>8. (\E k \in P!Listed(have) : P!Delta(outList[j].id) < P!Delta(k) \/ First(k))
            <=> \E p \in 1..h : P!Delta(outList[j].id) < P!Delta(hs[p]) \/ First(hs[p])
      BY <1>7
    <3>9. h >= 1 <=> h \in 1..h
      BY <1>6
    <3> HIDE DEF h, w, ack, skip
    <3>10. (\E p \in 1..h : P!Delta(outList[j].id) < P!Delta(hs[p]) \/ First(hs[p]))
            <=> \/ \E p \in 1..h : outList[j].id < hs[p]
                \/ /\ h >= 1
                   /\ \A i \in w..n : /\ outList[i].id # hs[h]
                                      /\ hs[h] < outList[i].id => j <= i
      BY <3>6, <3>7, <3>9
    <3>11. QED
      BY <3>4, <3>5, <3>8, <3>10
  <2> HIDE DEF w, ack, skip
  <2>7. QED
    BY <2>3, <2>5, <2>6 DEF Fates, n, U, h, ack, skip
<1> HIDE DEF w
<1>21. QED
  BY <1>19, <1>20 DEF last, have


-----------------------------------------------------------------------------
(* The acknowledgement loop, round by round. *)

\* What an iteration is in.
State == [list : Seq(Entry), at : Nat \ {0}, ack : Int, rest : Seq(Int), first : BOOLEAN]

\* The numbers of the places before q.
Past(q) == {outList[j].id : j \in {i \in 1..Len(outList) : i < q}}

\* The list lacks what is erased and has to send again what is marked.
Settled(s, erased, marked) ==
    /\ Listing(s)
    /\ Ids(s) = Ids(outList) \ erased
    /\ OverdueIds(s) = OverdueIds(outList) \ erased
    /\ SentIds(s) = SentIds(outList) \ marked

\* From place at on, the list is what it was from place q on.
Remains(s, at, q) ==
    /\ Len(s) - at = Len(outList) - q
    /\ \A i \in 0..(Len(outList) - q) : s[at + i].id = outList[q + i].id

\* The loop is at place q and has the cumulative index in hand: so far it
\* erased every other place.
Clearing(s, q, a, w, ack) ==
    /\ s \in State
    /\ s.first /\ s.ack = Wire(a.ghost.last) /\ s.rest = a.have
    /\ q \in 1..Len(outList) /\ q % 2 = 1 /\ q <= w
    /\ Remains(s.list, s.at, q)
    /\ Settled(s.list, Past(q) \cap ack, Past(q) \cap ack)

\* It is at place q and has the p-th of the further indices in hand.
Comparing(s, q, p, hs, w, ack, skip) ==
    /\ s \in State
    /\ ~s.first /\ p \in 1..(Len(hs) - 1) /\ s.ack = Wire(hs[p])
    /\ Len(s.rest) = Len(hs) - p
    /\ \A i \in 1..(Len(hs) - p) : s.rest[i] = Wire(hs[p + i])
    /\ q \in w..Len(outList)
    /\ \A j \in w..(q - 1) : outList[j].id < hs[p]
    /\ \A i \in 1..(p - 1) : hs[i] < outList[q].id
    /\ Remains(s.list, s.at, q)
    /\ \E marked : /\ Past(q) \cap (ack \cup skip) \subseteq marked
                   /\ marked \subseteq Past(q + 1) \cap (ack \cup skip)
                   /\ Settled(s.list, Past(q) \cap ack, marked)

\* It is over.
Over(s, ack, skip) ==
    /\ s \in State
    /\ s.at > Len(s.list)
    /\ Settled(s.list, ack, ack \cup skip)

\* The places before q, one by one.
LEMMA PastSteps ==
    ASSUME LInv
    PROVE  /\ \A q \in 1..Len(outList) :
                 /\ Past(q + 1) = Past(q) \cup {outList[q].id}
                 /\ Past(q) \subseteq Ids(outList)
           /\ \A q \in Int : q > Len(outList) => Past(q) = Ids(outList)
           /\ Past(1) = {}
           /\ \A j \in 1..Len(outList), q \in Int : outList[j].id \in Past(q) <=> j < q
<1>1. Listing(outList)
  BY DEF LInv, Shape, SenderList, Listing
<1> DEFINE n == Len(outList)
<1>2. /\ n \in Nat /\ DOMAIN outList = 1..n
      /\ \A i, j \in 1..n : outList[i].id = outList[j].id <=> i = j
  BY <1>1, ListingOrder
<1>3. \A q : Past(q) = {outList[j].id : j \in {i \in 1..n : i < q}}
  BY DEF Past
<1> HIDE DEF n
<1>4. ASSUME NEW q \in 1..n
      PROVE  /\ Past(q + 1) = Past(q) \cup {outList[q].id}
             /\ Past(q) \subseteq Ids(outList)
  <2>1. {i \in 1..n : i < q + 1} = {i \in 1..n : i < q} \cup {q}
    BY <1>2
  <2>2. QED
    BY <2>1, <1>2, <1>3 DEF Ids
<1>5. ASSUME NEW q \in Int, q > n PROVE Past(q) = Ids(outList)
  <2>1. {i \in 1..n : i < q} = 1..n
    BY <1>2, <1>5
  <2>2. QED
    BY <2>1, <1>2, <1>3 DEF Ids
<1>6. Past(1) = {}
  BY <1>3
<1>7. ASSUME NEW j \in 1..n, NEW q \in Int PROVE outList[j].id \in Past(q) <=> j < q
  BY <1>2, <1>3
<1>8. QED
  BY <1>4, <1>5, <1>6, <1>7 DEF n

\* The iterator moves on, and the next index is read.
Moving(s, l, b) == [s EXCEPT !.list = l, !.at = b]
Reading(s, l) == [list |-> l, at |-> s.at, ack |-> Head(s.rest),
                  rest |-> Tail(s.rest), first |-> FALSE]

\* A round in numbers: c is the number of the index in hand, e the entry at
\* the iterator.
LEMMA RoundInNumbers ==
    ASSUME LInv, NEW a \in ackNet, sentCount + 1 - a.ghost.last <= Lag,
           NEW s \in State, s.at <= Len(s.list), Listing(s.list),
           NEW c \in a.ghost.have \cup {a.ghost.last}, s.ack = Wire(c),
           NEW o \in Ids(outList), s.list[s.at].id = o,
           NEW erased, erased = RemoveAt(s.list, s.at),
           NEW unsent, unsent = MarkedAt(s.list, s.at),
           NEW walked, walked = IF (s.first /\ o <= c) \/ o = c THEN erased
                                ELSE IF s.first THEN s.list ELSE unsent
    PROVE  /\ c > o => Round(s) = Moving(s, walked, s.at + 1)
           /\ c <= o /\ Len(s.rest) > 1 => Round(s) = Reading(s, walked)
           /\ c <= o /\ ~(Len(s.rest) > 1) => Round(s) = Moving(s, walked, Len(walked) + 1)
<1> DEFINE next == sentCount + 1
           e == s.list[s.at]
<1>1. /\ c \in Nat /\ o \in Nat
      /\ DistanceToIndex(Wire(c), outIndex) = c - next
      /\ DistanceToIndex(Wire(o), outIndex) = o - next
      /\ Wire(o) = Wire(c) <=> o = c
  BY AckNumbers
<1>2. e.index = Wire(o)
  <2>1. s.at \in 1..Len(s.list)
    <3>1. Len(s.list) \in Nat /\ s.at \in Nat \ {0}
      BY ListingOrder DEF State
    <3>2. QED
      BY <3>1
  <2>2. QED
    BY <2>1, ListingOrder
<1>3. next \in Nat
  BY DEF LInv, Shape, Counters
<1>4. s.at \in Nat /\ Len(s.list) \in Nat /\ ~(s.at > Len(s.list))
  <2>1. Len(s.list) \in Nat /\ s.at \in Nat \ {0}
    BY ListingOrder DEF State
  <2>2. QED
    BY <2>1
<1> HIDE DEF next
<1>5. /\ c - next > o - next <=> c > o
      /\ o - next <= c - next <=> o <= c
  BY <1>1, <1>3
<1>6. DistanceToIndex(s.ack, outIndex) = c - next /\ DistanceToIndex(e.index, outIndex) = o - next
  BY <1>1, <1>2
<1>7. e.index = s.ack <=> o = c
  BY <1>1, <1>2
<1>8. walked = IF (s.first /\ DistanceToIndex(e.index, outIndex) <= DistanceToIndex(s.ack, outIndex))
                  \/ e.index = s.ack
               THEN RemoveAt(s.list, s.at)
               ELSE IF s.first THEN s.list
               ELSE [s.list EXCEPT ![s.at] = [e EXCEPT !.hasSent = FALSE]]
  BY <1>5, <1>6, <1>7 DEF MarkedAt
<1>9. Round(s) = IF s.at > Len(s.list) THEN s
                 ELSE IF DistanceToIndex(s.ack, outIndex) > DistanceToIndex(e.index, outIndex)
                 THEN Moving(s, walked, s.at + 1)
                 ELSE IF Len(s.rest) > 1 THEN Reading(s, walked)
                 ELSE Moving(s, walked, Len(walked) + 1)
  BY <1>8 DEF Round, Moving, Reading
<1>10. c <= o <=> ~(c > o)
  BY <1>1
<1> HIDE DEF e
<1>11. QED
  BY <1>4, <1>5, <1>6, <1>9, <1>10


\* The places of the sender's list.
LEMMA Places ==
    ASSUME LInv
    PROVE  /\ Len(outList) \in Nat
           /\ \A j \in 1..Len(outList) : outList[j].id \in Nat /\ outList[j].id \in Ids(outList)
           /\ \A i, j \in 1..Len(outList) : /\ outList[i].id < outList[j].id <=> i < j
                                            /\ outList[i].id = outList[j].id <=> i = j
           /\ \A m \in Ids(outList) : \E j \in 1..Len(outList) : m = outList[j].id
<1>1. Listing(outList)
  BY DEF LInv, Shape, SenderList, Listing
<1>2. Len(outList) \in Nat /\ DOMAIN outList = 1..Len(outList)
  BY <1>1, ListingOrder
<1>3. /\ \A j \in 1..Len(outList) : outList[j].id \in Ids(outList)
      /\ \A m \in Ids(outList) : \E j \in 1..Len(outList) : m = outList[j].id
  BY <1>2 DEF Ids
<1>4. QED
  BY <1>1, <1>2, <1>3, ListingOrder

\* The numbers of an acknowledgement, in order.
LEMMA Numbers ==
    ASSUME LInv, NEW a \in ackNet, NEW hs, NEW w, Plan(a, hs, w)
    PROVE  /\ Len(hs) \in Nat
           /\ \A i \in 1..Len(hs) : hs[i] \in Nat /\ hs[i] \in a.ghost.have
           /\ \A i, j \in 1..Len(hs) : i < j => hs[i] < hs[j]
           /\ a.have \in Seq(Int) /\ Len(a.have) = Len(hs)
           /\ \A i \in 1..Len(hs) : a.have[i] = Wire(hs[i])
<1>1. /\ Enumerates(hs, a.ghost.have)
      /\ a.have = [i \in 1..Len(hs) |-> Wire(hs[i])]
  BY DEF Plan
<1>2. hs \in Seq(Nat) /\ (\A i, j \in DOMAIN hs : i < j => hs[i] < hs[j])
      /\ a.ghost.have = {hs[i] : i \in DOMAIN hs}
  BY <1>1 DEF Enumerates
<1>3. Len(hs) \in Nat /\ DOMAIN hs = 1..Len(hs) /\ \A i \in 1..Len(hs) : hs[i] \in Nat
  BY <1>2
<1>4. /\ \A i \in 1..Len(hs) : hs[i] \in a.ghost.have
      /\ \A i, j \in 1..Len(hs) : i < j => hs[i] < hs[j]
  BY <1>2, <1>3
<1>5. \A i \in 1..Len(hs) : Wire(hs[i]) \in Int
  <2>1. SUFFICES ASSUME NEW i \in 1..Len(hs) PROVE Wire(hs[i]) \in Int
    OBVIOUS
  <2>2. hs[i] \in Int
    BY <1>3
  <2>3. Wire(hs[i]) \in 0..(Modulus - 1) /\ Modulus \in Nat
    BY <2>2, WireType, HalfRangeBound
  <2>4. QED
    BY <2>3
<1>6. \A k \in Nat : \A f \in [1..k -> Int] : f \in Seq(Int) /\ Len(f) = k
  OBVIOUS
<1>7. a.have \in [1..Len(hs) -> Int]
  BY <1>1, <1>5
<1>8. QED
  BY <1>1, <1>3, <1>4, <1>6, <1>7

\* Past an entry that stays, the rest of the list is what it was.
LEMMA RemainsNext ==
    ASSUME LInv, NEW list, Len(list) \in Nat, NEW at \in Nat, NEW q \in Nat,
           Remains(list, at, q)
    PROVE  Remains(list, at + 1, q + 1)
<1> DEFINE n == Len(outList)
<1>1. n \in Nat
  BY Places
<1>2. /\ Len(list) - at = n - q
      /\ \A i \in 0..(n - q) : list[at + i].id = outList[q + i].id
  BY DEF Remains
<1> HIDE DEF n
<1>3. Len(list) - (at + 1) = n - (q + 1)
  BY <1>1, <1>2
<1>4. ASSUME NEW i \in 0..(n - (q + 1)) PROVE list[(at + 1) + i].id = outList[(q + 1) + i].id
  <2>1. i + 1 \in 0..(n - q) /\ at + (i + 1) = (at + 1) + i /\ q + (i + 1) = (q + 1) + i
    BY <1>1
  <2>2. list[at + (i + 1)].id = outList[q + (i + 1)].id
    BY <2>1, <1>2
  <2>3. QED
    BY <2>1, <2>2
<1>5. QED
  BY <1>3, <1>4 DEF Remains, n

\* The entry at the iterator.
LEMMA Touching ==
    ASSUME LInv, NEW list, Listing(list), NEW at \in Nat \ {0}, NEW q \in 1..Len(outList),
           Remains(list, at, q)
    PROVE  at \in 1..Len(list) /\ list[at].id = outList[q].id
<1> DEFINE n == Len(outList)
<1>1. n \in Nat /\ Len(list) \in Nat /\ q \in 1..n
  BY Places, ListingOrder
<1>2. /\ Len(list) - at = n - q
      /\ \A i \in 0..(n - q) : list[at + i].id = outList[q + i].id
  BY DEF Remains
<1> HIDE DEF n
<1>3. at \in 1..Len(list)
  BY <1>1, <1>2
<1>4. 0 \in 0..(n - q) /\ at + 0 = at /\ q + 0 = q
  BY <1>1
<1>5. QED
  BY <1>2, <1>3, <1>4

\* Erasing it takes it out of what is left of the list.
LEMMA ErasingHere ==
    ASSUME LInv, NEW list, Listing(list), NEW at \in Nat \ {0}, NEW q \in 1..Len(outList),
           Remains(list, at, q), NEW r, r = RemoveAt(list, at)
    PROVE  /\ Remains(r, at, q + 1) /\ Remains(r, at + 1, q + 2)
           /\ \A erased, marked : Settled(list, erased, marked) =>
                 Settled(r, erased \cup {outList[q].id}, marked \cup {outList[q].id})
<1> DEFINE n == Len(outList)
           o == outList[q].id
<1>1. n \in Nat /\ Len(list) \in Nat /\ q \in 1..n
  BY Places, ListingOrder
<1>2. /\ Len(list) - at = n - q
      /\ \A i \in 0..(n - q) : list[at + i].id = outList[q + i].id
  BY DEF Remains
<1>3. at \in 1..Len(list) /\ list[at].id = o
  BY Touching
<1>4. /\ Listing(r) /\ Len(r) = Len(list) - 1
      /\ \A i \in at..(Len(list) - 1) : r[i] = list[i + 1]
      /\ Ids(r) = Ids(list) \ {o} /\ SentIds(r) = SentIds(list) \ {o}
      /\ OverdueIds(r) = OverdueIds(list) \ {o}
  <2>1. /\ Listing(r) /\ Len(r) = Len(list) - 1
        /\ \A i \in at..(Len(list) - 1) : r[i] = list[i + 1]
        /\ Ids(r) = Ids(list) \ {list[at].id} /\ SentIds(r) = SentIds(list) \ {list[at].id}
        /\ OverdueIds(r) = OverdueIds(list) \ {list[at].id}
    <3>1. at \in 1..Len(list)
      BY <1>3
    <3> HIDE DEF n, o
    <3>2. LET t == RemoveAt(list, at)
          IN  /\ Listing(t) /\ Len(t) = Len(list) - 1
              /\ \A i \in at..(Len(list) - 1) : t[i] = list[i + 1]
              /\ Ids(t) = Ids(list) \ {list[at].id} /\ SentIds(t) = SentIds(list) \ {list[at].id}
              /\ OverdueIds(t) = OverdueIds(list) \ {list[at].id}
      BY <3>1, ErasingEntry
    <3>3. QED
      BY <3>2, Zenon
  <2>2. QED
    BY <2>1, <1>3
<1> HIDE DEF n, o
<1>5. Len(r) - at = n - (q + 1)
  BY <1>1, <1>2, <1>4
<1>6. ASSUME NEW i \in 0..(n - (q + 1)) PROVE r[at + i].id = outList[(q + 1) + i].id
  <2>1. /\ i + 1 \in 0..(n - q) /\ at + i \in at..(Len(list) - 1)
        /\ (at + i) + 1 = at + (i + 1) /\ q + (i + 1) = (q + 1) + i
    BY <1>1, <1>2, <1>3
  <2>2. list[at + (i + 1)].id = outList[q + (i + 1)].id /\ r[at + i] = list[(at + i) + 1]
    BY <2>1, <1>2, <1>4
  <2>3. QED
    BY <2>1, <2>2
<1>7. Remains(r, at, q + 1)
  BY <1>5, <1>6 DEF Remains, n
<1>8. Remains(r, at + 1, q + 2)
  <2>1. PICK k \in Nat : k = q + 1 /\ q + 2 = k + 1
    BY <1>1
  <2>2. Len(r) \in Nat /\ at \in Nat /\ Remains(r, at, k)
    BY <2>1, <1>1, <1>3, <1>4, <1>7
  <2>3. Remains(r, at + 1, k + 1)
    BY <2>2, RemainsNext
  <2>4. QED
    BY <2>1, <2>3
<1>9. ASSUME NEW erased, NEW marked, Settled(list, erased, marked)
      PROVE  Settled(r, erased \cup {o}, marked \cup {o})
  BY <1>4, <1>9 DEF Settled
<1>10. QED
  BY <1>7, <1>8, <1>9 DEF o

\* Marking it to be sent again keeps it there.
LEMMA MarkingHere ==
    ASSUME LInv, NEW list, Listing(list), NEW at \in Nat \ {0}, NEW q \in 1..Len(outList),
           Remains(list, at, q), NEW u, u = MarkedAt(list, at)
    PROVE  /\ Remains(u, at, q) /\ Remains(u, at + 1, q + 1)
           /\ \A erased, marked : Settled(list, erased, marked) =>
                 Settled(u, erased, marked \cup {outList[q].id})
<1> DEFINE n == Len(outList)
           o == outList[q].id
<1>1. n \in Nat /\ Len(list) \in Nat /\ q \in 1..n
  BY Places, ListingOrder
<1>2. /\ Len(list) - at = n - q
      /\ \A i \in 0..(n - q) : list[at + i].id = outList[q + i].id
  BY DEF Remains
<1>3. at \in 1..Len(list) /\ list[at].id = o
  BY Touching
<1>4. /\ Listing(u) /\ Len(u) = Len(list)
      /\ \A i \in 1..Len(list) : u[i].id = list[i].id
      /\ Ids(u) = Ids(list) /\ SentIds(u) = SentIds(list) \ {o}
      /\ OverdueIds(u) = OverdueIds(list)
  BY <1>3, Marking
<1> HIDE DEF n, o
<1>5. \A i \in 0..(n - q) : u[at + i].id = outList[q + i].id
  <2>1. \A i \in 0..(n - q) : at + i \in 1..Len(list)
    BY <1>1, <1>2, <1>3
  <2>2. QED
    BY <2>1, <1>2, <1>4
<1>6. Remains(u, at, q)
  BY <1>2, <1>4, <1>5 DEF Remains, n
<1>7. Remains(u, at + 1, q + 1)
  <2>1. Len(u) \in Nat /\ at \in Nat /\ q \in Nat
    BY <1>1, <1>4
  <2>2. QED
    BY <2>1, <1>6, RemainsNext
<1>8. ASSUME NEW erased, NEW marked, Settled(list, erased, marked)
      PROVE  Settled(u, erased, marked \cup {o})
  BY <1>4, <1>8 DEF Settled
<1>9. QED
  BY <1>6, <1>7, <1>8 DEF o


\* The loop after it moved to place b with list l.
LEMMA Moved ==
    ASSUME NEW s \in State, NEW l \in Seq(Entry), NEW b \in Nat \ {0}
    PROVE  /\ Moving(s, l, b) \in State
           /\ Moving(s, l, b).list = l /\ Moving(s, l, b).at = b
           /\ Moving(s, l, b).ack = s.ack /\ Moving(s, l, b).rest = s.rest
           /\ Moving(s, l, b).first = s.first
BY DEF State, Moving

\* The loop after it read an index with list l.
LEMMA Advanced ==
    ASSUME NEW s \in State, NEW l \in Seq(Entry), Len(s.rest) > 1
    PROVE  LET r == Reading(s, l)
           IN  /\ r \in State /\ r.list = l /\ r.at = s.at /\ ~r.first
               /\ r.ack = s.rest[1] /\ Len(r.rest) = Len(s.rest) - 1
               /\ \A i \in 1..(Len(s.rest) - 1) : r.rest[i] = s.rest[i + 1]
<1> DEFINE r == Reading(s, l)
<1>1. s.rest \in Seq(Int) /\ s.at \in Nat \ {0}
  BY DEF State
<1>2. PICK t : t = s.rest
  OBVIOUS
<1>3. \A v \in Seq(Int) : Len(v) > 1 => /\ Head(v) = v[1] /\ v[1] \in Int
                                        /\ Tail(v) \in Seq(Int) /\ Len(Tail(v)) = Len(v) - 1
                                        /\ \A i \in 1..(Len(v) - 1) : Tail(v)[i] = v[i + 1]
  OBVIOUS
<1>4. /\ Head(t) = t[1] /\ t[1] \in Int
      /\ Tail(t) \in Seq(Int) /\ Len(Tail(t)) = Len(t) - 1
      /\ \A i \in 1..(Len(t) - 1) : Tail(t)[i] = t[i + 1]
  BY <1>1, <1>2, <1>3
<1>5. /\ r.list = l /\ r.at = s.at /\ r.first = FALSE
      /\ r.ack = Head(t) /\ r.rest = Tail(t)
  BY <1>2 DEF Reading
<1>6. [list |-> l, at |-> s.at, ack |-> Head(t), rest |-> Tail(t), first |-> FALSE] \in State
  BY <1>1, <1>4 DEF State
<1>7. QED
  BY <1>2, <1>4, <1>5, <1>6 DEF Reading

\* What the place compared with the p-th further index has come to.
LEMMA PlaceFate ==
    ASSUME LInv, NEW a \in ackNet, NEW hs, NEW w, NEW ack, NEW skip,
           Plan(a, hs, w), Fates(hs, w, ack, skip),
           NEW q \in w..Len(outList), NEW p \in 1..(Len(hs) - 1),
           NEW o, o = outList[q].id,
           \A j \in w..(q - 1) : outList[j].id < hs[p],
           \A i \in 1..(p - 1) : hs[i] < o
    PROVE  /\ o \in ack \cup skip
           /\ o < hs[p] => o \notin ack
           /\ o = hs[p] => o \in ack
           /\ p = Len(hs) - 1 /\ o > hs[p] => o \notin ack
           /\ p = Len(hs) - 1 /\ o >= hs[p] =>
                 \A j \in (q + 1)..Len(outList) : outList[j].id \notin ack \cup skip
<1> DEFINE n == Len(outList)
           h == Len(hs) - 1
<1>1. /\ n \in Nat
      /\ \A j \in 1..n : outList[j].id \in Nat
      /\ \A i, j \in 1..n : /\ outList[i].id < outList[j].id <=> i < j
                            /\ outList[i].id = outList[j].id <=> i = j
  BY Places
<1>2. /\ Len(hs) \in Nat
      /\ \A i \in 1..Len(hs) : hs[i] \in Nat
      /\ \A i, j \in 1..Len(hs) : i < j => hs[i] < hs[j]
  BY Numbers
<1>3. w \in 1..(n + 2)
  BY DEF Plan
<1>4. \A j \in w..n :
         /\ outList[j].id \in ack <=> \E i \in 1..h : outList[j].id = hs[i]
         /\ outList[j].id \in skip <=>
               /\ outList[j].id \notin ack
               /\ \/ \E i \in 1..h : outList[j].id < hs[i]
                  \/ /\ h >= 1
                     /\ \A i \in w..n : /\ outList[i].id # hs[h]
                                        /\ hs[h] < outList[i].id => j <= i
  BY DEF Fates
<1>5. /\ h \in Nat /\ p \in 1..h /\ h \in 1..h /\ q \in w..n /\ q \in 1..n
      /\ \A i \in 1..h : i \in 1..Len(hs) /\ hs[i] \in Nat
      /\ o \in Nat
  BY <1>1, <1>2, <1>3
<1>6. \A i, j \in 1..h : i < j => hs[i] < hs[j]
  BY <1>2, <1>5
<1> HIDE DEF n, h
<1>7. o \in ack <=> \E i \in 1..h : o = hs[i]
  BY <1>4, <1>5
<1>8. \A i \in 1..h : i < p => hs[i] < o
  <2>1. \A i \in 1..h : i < p => i \in 1..(p - 1)
    BY <1>5
  <2>2. QED
    BY <2>1
<1>9. o < hs[p] => o \notin ack
  <2>1. ASSUME o < hs[p], NEW i \in 1..h, o = hs[i] PROVE FALSE
    <3>1. CASE i < p
      BY <3>1, <2>1, <1>5, <1>8
    <3>2. CASE i = p
      BY <3>2, <2>1, <1>5
    <3>3. CASE p < i
      <4>1. hs[p] < hs[i] /\ hs[p] \in Nat
        BY <3>3, <1>5, <1>6
      <4>2. QED
        BY <4>1, <2>1, <1>5
    <3>4. QED
      BY <3>1, <3>2, <3>3, <1>5
  <2>2. QED
    BY <2>1, <1>7
<1>10. o = hs[p] => o \in ack
  BY <1>5, <1>7
<1>11. \A i \in 1..h : hs[i] <= hs[h] /\ (i # h => hs[i] < hs[h])
  <2>1. SUFFICES ASSUME NEW i \in 1..h PROVE hs[i] <= hs[h] /\ (i # h => hs[i] < hs[h])
    OBVIOUS
  <2>2. i = h \/ i < h
    BY <1>5
  <2>3. hs[i] \in Nat /\ hs[h] \in Nat
    BY <1>5
  <2>4. i < h => hs[i] < hs[h]
    BY <1>5, <1>6
  <2>5. QED
    BY <2>2, <2>3, <2>4, <1>5
<1>12. p = h /\ o > hs[p] => o \notin ack
  <2>1. ASSUME p = h, o > hs[p], NEW i \in 1..h, o = hs[i] PROVE FALSE
    <3>1. hs[i] <= hs[p] /\ hs[i] \in Nat /\ hs[p] \in Nat
      BY <2>1, <1>5, <1>11
    <3>2. QED
      BY <3>1, <2>1
  <2>2. QED
    BY <2>1, <1>7
<1>13. \A j \in w..n : /\ j < q => outList[j].id < hs[p]
                       /\ j > q => o < outList[j].id /\ outList[j].id \in Nat
  <2>1. SUFFICES ASSUME NEW j \in w..n
                 PROVE  /\ j < q => outList[j].id < hs[p]
                        /\ j > q => o < outList[j].id /\ outList[j].id \in Nat
    OBVIOUS
  <2>2. j < q => j \in w..(q - 1)
    BY <1>3, <1>5
  <2>3. j \in 1..n
    BY <1>1, <1>3
  <2>4. QED
    BY <2>2, <2>3, <1>1, <1>5
<1>14. ASSUME o \notin ack PROVE o \in skip
  <2>1. CASE o < hs[h]
    BY <2>1, <1>4, <1>5, <1>14
  <2>2. CASE ~(o < hs[h])
    <3>1. o # hs[h] /\ hs[h] < o /\ hs[p] <= hs[h] /\ hs[h] \in Nat /\ hs[p] \in Nat
      <4>1. o # hs[h]
        BY <1>5, <1>7, <1>14
      <4>2. hs[h] \in Nat /\ hs[p] \in Nat /\ hs[p] <= hs[h]
        BY <1>5, <1>11
      <4>3. QED
        BY <4>1, <4>2, <2>2, <1>5
    <3>2. ASSUME NEW i \in w..n
          PROVE  outList[i].id # hs[h] /\ (hs[h] < outList[i].id => q <= i)
      <4>1. i \in 1..n /\ outList[i].id \in Nat
        BY <1>1, <1>3
      <4>2. CASE i < q
        <5>1. outList[i].id < hs[p]
          BY <4>2, <1>13
        <5>2. QED
          BY <5>1, <4>1, <3>1
      <4>3. CASE i = q
        BY <4>3, <3>1, <1>5
      <4>4. CASE i > q
        <5>1. o < outList[i].id
          BY <4>4, <1>13
        <5>2. QED
          BY <5>1, <4>1, <4>4, <3>1, <1>5
      <4>5. QED
        BY <4>1, <4>2, <4>3, <4>4, <1>5
    <3>3. h >= 1
      BY <1>5
    <3>4. QED
      BY <3>2, <3>3, <1>4, <1>5, <1>14
  <2>3. QED
    BY <2>1, <2>2
<1>15. ASSUME p = h, o >= hs[p], NEW j \in (q + 1)..n
       PROVE  outList[j].id \notin ack \cup skip
  <2>1. j \in w..n /\ j > q /\ j \in 1..n
    BY <1>1, <1>3, <1>5
  <2>2. o < outList[j].id /\ outList[j].id \in Nat
    BY <2>1, <1>13
  <2>3. ASSUME NEW i \in 1..h PROVE hs[i] < outList[j].id
    <3>1. hs[i] <= hs[h] /\ hs[i] \in Nat /\ hs[h] \in Nat
      BY <1>5, <1>11
    <3>2. hs[h] <= o /\ o \in Nat
      BY <3>1, <1>5, <1>15
    <3>3. \A x, y, z, v \in Nat : x <= y /\ y <= z /\ z < v => x < v
      OBVIOUS
    <3>4. QED
      BY <3>1, <3>2, <3>3, <2>2, Zenon
  <2>4. \A i \in 1..h : outList[j].id # hs[i] /\ ~(outList[j].id < hs[i])
    <3>1. SUFFICES ASSUME NEW i \in 1..h
                   PROVE  outList[j].id # hs[i] /\ ~(outList[j].id < hs[i])
      OBVIOUS
    <3>2. hs[i] < outList[j].id /\ hs[i] \in Nat
      BY <2>3, <1>5
    <3>3. QED
      BY <3>2, <2>2
  <2>5. outList[j].id \notin ack
    BY <2>1, <2>4, <1>4
  <2>6. ~(\A i \in w..n : outList[i].id # hs[h] /\ (hs[h] < outList[i].id => j <= i))
    <3>1. o = hs[h] \/ hs[h] < o
      <4>1. hs[h] \in Nat
        BY <1>5
      <4>2. QED
        BY <4>1, <1>5, <1>15
    <3>2. ~(j <= q)
      BY <2>1, <1>5
    <3>3. QED
      BY <3>1, <3>2, <1>5
  <2>7. outList[j].id \notin skip
    BY <2>1, <2>4, <2>6, <1>4
  <2>8. QED
    BY <2>5, <2>7
<1>16. QED
  BY <1>9, <1>10, <1>12, <1>14, <1>15 DEF n, h


\* The loop is over when the places before q are settled and the others stay.
LEMMA Finished ==
    ASSUME LInv, NEW a \in ackNet, NEW hs, NEW w, NEW ack, NEW skip,
           Plan(a, hs, w), Fates(hs, w, ack, skip),
           NEW q \in Nat \ {0},
           \A j \in 1..Len(outList) : j >= q => outList[j].id \notin ack \cup skip
    PROVE  Past(q) \cap ack = ack /\ Past(q) \cap (ack \cup skip) = ack \cup skip
<1>1. ack \subseteq Ids(outList) /\ skip \subseteq Ids(outList)
  BY DEF Fates
<1>2. ASSUME NEW x \in ack \cup skip PROVE x \in Past(q)
  <2>1. PICK j \in 1..Len(outList) : x = outList[j].id
    BY <1>1, <1>2, Places
  <2>2. Len(outList) \in Nat /\ ~(j >= q)
    BY <1>2, <2>1, Places
  <2>3. j < q
    BY <2>2
  <2>4. QED
    BY <2>1, <2>3, PastSteps
<1>3. QED
  BY <1>2

\* What happens in a round to the places compared with the cumulative index.
LEMMA ClearedPlaces ==
    ASSUME LInv, NEW a \in ackNet, NEW hs, NEW w, NEW ack, NEW skip,
           Plan(a, hs, w), Fates(hs, w, ack, skip)
    PROVE  /\ \A q \in 1..w : Past(q) \cap skip = {}
           /\ \A q \in 1..Len(outList) :
                 q < w /\ q % 2 = 1 => Past(q + 1) \cap ack = (Past(q) \cap ack) \cup {outList[q].id}
           /\ \A q \in 1..Len(outList) :
                 q < w /\ q % 2 = 0 => Past(q + 1) \cap ack = Past(q) \cap ack
           /\ Len(hs) <= 1 => \A j \in 1..Len(outList) :
                 j >= w => outList[j].id \notin ack \cup skip
           /\ \A j \in 1..Len(outList) : j < w => outList[j].id \notin skip
<1> DEFINE n == Len(outList)
<1>1. n \in Nat /\ w \in 1..(n + 2) /\ Len(hs) \in Nat
  BY Places, Numbers DEF Plan
<1>2. /\ skip \subseteq Ids(outList)
      /\ \A j \in 1..n : j < w => /\ outList[j].id \in ack <=> j % 2 = 1
                                  /\ outList[j].id \notin skip
  BY DEF Fates
<1> HIDE DEF n
<1>3. ASSUME NEW q \in 1..w, NEW x \in Past(q), x \in skip PROVE FALSE
  <2>1. PICK j \in 1..n : x = outList[j].id
    BY <1>2, <1>3, Places DEF n
  <2>2. j < q
    BY <2>1, <1>3, PastSteps DEF n
  <2>3. j < w
    BY <2>2, <1>1
  <2>4. QED
    BY <2>1, <2>3, <1>2, <1>3
<1>4. ASSUME NEW q \in 1..n, q < w
      PROVE  /\ q % 2 = 1 => Past(q + 1) \cap ack = (Past(q) \cap ack) \cup {outList[q].id}
             /\ q % 2 = 0 => Past(q + 1) \cap ack = Past(q) \cap ack
  <2>1. Past(q + 1) = Past(q) \cup {outList[q].id}
    BY PastSteps DEF n
  <2>2. outList[q].id \in ack <=> q % 2 = 1
    BY <1>2, <1>4
  <2>3. ~(q % 2 = 1 /\ q % 2 = 0)
    OBVIOUS
  <2>4. QED
    BY <2>1, <2>2, <2>3
<1>5. ASSUME Len(hs) <= 1, NEW j \in 1..n, j >= w
      PROVE  outList[j].id \notin ack \cup skip
  <2>1. j \in w..n /\ 1..(Len(hs) - 1) = {} /\ ~(Len(hs) - 1 >= 1)
    BY <1>1, <1>5
  <2>2. QED
    BY <2>1 DEF Fates, n
<1>6. QED
  BY <1>2, <1>3, <1>4, <1>5 DEF n

\* A round with the cumulative index in hand erases an entry and steps over
\* the next, reads a further index, or ends the loop.
LEMMA ClearingRound ==
    ASSUME LInv, NEW a \in ackNet, sentCount + 1 - a.ghost.last <= Lag,
           NEW hs, NEW w, NEW ack, NEW skip,
           Plan(a, hs, w), Fates(hs, w, ack, skip),
           NEW s, NEW q, Clearing(s, q, a, w, ack), NEW r, r = Round(s)
    PROVE  \/ Over(r, ack, skip)
           \/ Clearing(r, q + 2, a, w, ack)
           \/ \E v \in q..(q + 1) : Comparing(r, v, 1, hs, w, ack, skip)
<1> DEFINE n == Len(outList)
           last == a.ghost.last
           o == outList[q].id
           done == Past(q) \cap ack
<1>1. /\ s \in State /\ s.first /\ s.ack = Wire(last) /\ s.rest = a.have
      /\ q \in 1..n /\ q % 2 = 1 /\ q <= w
      /\ Remains(s.list, s.at, q) /\ Settled(s.list, done, done)
  BY DEF Clearing
<1>2. /\ n \in Nat /\ o \in Nat /\ o \in Ids(outList)
      /\ \A i, j \in 1..n : i < j => outList[i].id < outList[j].id
  BY <1>1, Places
<1>3. /\ w \in 1..(n + 2)
      /\ \A j \in w..n : outList[j].id > last
      /\ w % 2 = 0 => w - 1 \in 1..n /\ outList[w - 1].id = last
      /\ w % 2 = 1 => w = 1 \/ (w - 2 \in 1..n /\ outList[w - 2].id < last)
  BY DEF Plan
<1>4. /\ Len(hs) \in Nat /\ s.rest \in Seq(Int) /\ Len(s.rest) = Len(hs)
      /\ \A i \in 1..Len(hs) : s.rest[i] = Wire(hs[i])
  BY <1>1, Numbers
<1>5. last \in Nat
  BY AckNumbers
<1>6. PICK erased, unsent : erased = RemoveAt(s.list, s.at) /\ unsent = MarkedAt(s.list, s.at)
  OBVIOUS
<1>7. s.at \in Nat \ {0} /\ Listing(s.list)
  BY <1>1 DEF State, Settled
<1>8. /\ s.at \in 1..Len(s.list) /\ s.list[s.at].id = o
      /\ Remains(erased, s.at, q + 1) /\ Remains(erased, s.at + 1, q + 2)
      /\ Settled(erased, done \cup {o}, done \cup {o})
  <2>1. q \in 1..Len(outList) /\ Remains(s.list, s.at, q) /\ o = outList[q].id
    BY <1>1
  <2> HIDE DEF o
  <2>2. s.at \in 1..Len(s.list) /\ s.list[s.at].id = o
    BY <2>1, <1>7, Touching
  <2>3. /\ Remains(erased, s.at, q + 1) /\ Remains(erased, s.at + 1, q + 2)
        /\ \A e, m : Settled(s.list, e, m) => Settled(erased, e \cup {o}, m \cup {o})
    BY <2>1, <1>6, <1>7, ErasingHere
  <2>4. Settled(erased, done \cup {o}, done \cup {o})
    BY <2>3, <1>1
  <2>5. QED
    BY <2>2, <2>3, <2>4
<1>9. erased \in Seq(Entry) /\ s.list \in Seq(Entry) /\ Listing(erased) /\ Len(erased) \in Nat
  BY <1>7, <1>8, ListingOrder DEF Settled, Listing
<1> HIDE DEF done, o, last, n
<1>10. PICK walked : walked = IF (s.first /\ o <= last) \/ o = last THEN erased
                             ELSE IF s.first THEN s.list ELSE unsent
  OBVIOUS
<1>11. /\ last > o => r = Moving(s, walked, s.at + 1)
       /\ last <= o /\ Len(s.rest) > 1 => r = Reading(s, walked)
       /\ last <= o /\ ~(Len(s.rest) > 1) => r = Moving(s, walked, Len(walked) + 1)
  <2>1. s.at <= Len(s.list)
    BY <1>7, <1>8, ListingOrder
  <2>2. last \in a.ghost.have \cup {a.ghost.last}
    BY DEF last
  <2>3. /\ s \in State /\ s.at <= Len(s.list) /\ Listing(s.list) /\ s.ack = Wire(last)
        /\ o \in Ids(outList) /\ s.list[s.at].id = o
    BY <2>1, <1>1, <1>2, <1>7, <1>8
  <2>4. QED
    BY <2>2, <2>3, <1>6, <1>10, RoundInNumbers
<1>12. q < w <=> o <= last
  <2>1. q < w => o <= last
    BY <1>1 DEF Plan, n, o, last
  <2>2. ASSUME ~(q < w) PROVE ~(o <= last)
    <3>1. q \in w..n
      BY <2>2, <1>1, <1>2, <1>3
    <3>2. o > last
      BY <3>1, <1>3 DEF o
    <3>3. QED
      BY <3>2, <1>2, <1>5
  <2>3. QED
    BY <2>1, <2>2
<1>13. \A k \in 1..w : Past(k) \cap skip = {}
  BY ClearedPlaces
<1>14. q < w => Past(q + 1) \cap ack = done \cup {o}
  BY <1>1, ClearedPlaces DEF done, n, o
<1>15. o < last => q + 2 <= w
  <2>1. SUFFICES ASSUME o < last, ~(q + 2 <= w) PROVE FALSE
    OBVIOUS
  <2>2. q < w
    BY <2>1, <1>2, <1>5, <1>12
  <2>3. w = q + 1
    BY <2>1, <2>2, <1>1, <1>3
  <2>4. w % 2 = 0 /\ w - 1 = q
    BY <2>3, <1>1
  <2>5. outList[q].id = last
    BY <2>4, <1>3
  <2>6. QED
    BY <2>1, <2>5, <1>2, <1>5 DEF o
<1>16. o = last => w = q + 1
  <2>1. SUFFICES ASSUME o = last PROVE w = q + 1
    OBVIOUS
  <2>2. q < w
    BY <2>1, <1>2, <1>5, <1>12
  <2>3. CASE w % 2 = 0
    <3>1. w - 1 \in 1..n /\ outList[w - 1].id = last
      BY <2>3, <1>3
    <3>2. ~(q < w - 1)
      <4>1. q < w - 1 => outList[q].id < outList[w - 1].id
        BY <3>1, <1>1, <1>2
      <4>2. QED
        BY <4>1, <3>1, <2>1, <1>2 DEF o
    <3>3. QED
      BY <3>2, <2>2, <1>1, <1>3
  <2>4. CASE w % 2 = 1
    <3>1. w # 1 /\ q <= w - 2
      BY <2>2, <2>4, <1>1, <1>3
    <3>2. w - 2 \in 1..n /\ outList[w - 2].id < last
      BY <3>1, <2>4, <1>3
    <3>3. outList[q].id = last
      BY <2>1 DEF o
    <3>4. q < w - 2
      <4>1. outList[w - 2].id # outList[q].id
        BY <3>2, <3>3, <1>5
      <4>2. QED
        BY <4>1, <3>1, <3>2, <1>1
    <3>5. outList[q].id < outList[w - 2].id
      BY <3>2, <3>4, <1>1, <1>2
    <3>6. outList[w - 2].id \in Nat
      BY <3>2, Places DEF n
    <3>7. QED
      BY <3>2, <3>3, <3>5, <3>6, <1>5
  <2>5. QED
    BY <2>3, <2>4, <1>3
<1>17. CASE o < last
  <2>1. q + 2 <= w /\ q < w /\ last > o /\ walked = erased
    BY <1>17, <1>1, <1>2, <1>3, <1>5, <1>10, <1>15
  <2>2. PICK b \in Nat \ {0} : b = s.at + 1 /\ r = Moving(s, erased, b)
    BY <2>1, <1>7, <1>11
  <2>3. /\ r \in State /\ r.list = erased /\ r.at = s.at + 1
        /\ r.ack = s.ack /\ r.rest = s.rest /\ r.first = s.first
    <3>1. s \in State /\ erased \in Seq(Entry)
      BY <1>1, <1>9
    <3>2. QED
      <4>1. /\ Moving(s, erased, b) \in State
            /\ Moving(s, erased, b).list = erased /\ Moving(s, erased, b).at = b
            /\ Moving(s, erased, b).ack = s.ack /\ Moving(s, erased, b).rest = s.rest
            /\ Moving(s, erased, b).first = s.first
        BY <3>1, Moved
      <4>2. QED
        BY <2>2, <4>1, Zenon
  <2>4. Past(q + 2) \cap ack = done \cup {o}
    <3>1. CASE q + 1 \in 1..n
      <4>1. q + 1 < w /\ (q + 1) % 2 = 0 /\ (q + 1) + 1 = q + 2
        BY <2>1, <1>1, <1>3
      <4>2. Past((q + 1) + 1) \cap ack = Past(q + 1) \cap ack
        BY <3>1, <4>1, ClearedPlaces DEF n
      <4>3. QED
        BY <4>1, <4>2, <2>1, <1>14
    <3>2. CASE q + 1 \notin 1..n
      <4>1. q + 1 > n /\ q + 2 > n /\ q + 1 \in Int /\ q + 2 \in Int
        BY <3>2, <1>1, <1>2
      <4>2. Past(q + 1) = Past(q + 2)
        BY <4>1, PastSteps DEF n
      <4>3. QED
        BY <4>2, <2>1, <1>14
    <3>3. QED
      BY <3>1, <3>2
  <2>5. Settled(r.list, Past(q + 2) \cap ack, Past(q + 2) \cap ack) /\ Remains(r.list, r.at, q + 2)
    BY <2>3, <2>4, <1>8
  <2>6. CASE q + 2 <= n
    <3>1. q + 2 \in 1..n /\ (q + 2) % 2 = 1
      BY <2>6, <1>1, <1>2
    <3>2. QED
      BY <3>1, <2>1, <2>3, <2>5, <1>1 DEF Clearing, n, last
  <2>7. CASE ~(q + 2 <= n)
    <3>1. Past(q + 2) \cap ack = ack
      <4>1. q + 2 > n /\ q + 2 \in Int
        BY <2>7, <1>1, <1>2
      <4>2. QED
        BY <4>1, PastSteps DEF Fates, n
    <3>2. skip = {}
      <4>1. q + 2 > n /\ q + 2 \in Int /\ q + 2 \in 1..w
        BY <2>1, <2>7, <1>1, <1>2, <1>3
      <4>2. Past(q + 2) \cap skip = {} /\ Past(q + 2) = Ids(outList)
        BY <4>1, <1>13, PastSteps DEF n
      <4>3. QED
        BY <4>2 DEF Fates
    <3>3. r.at > Len(r.list)
      <4>1. Len(erased) - (s.at + 1) = n - (q + 2)
        BY <1>8 DEF Remains, n
      <4>2. QED
        BY <4>1, <2>3, <2>7, <1>1, <1>2, <1>7, <1>9
    <3>4. ack \cup skip = ack
      BY <3>2
    <3>5. QED
      BY <3>1, <3>3, <3>4, <2>3, <2>5 DEF Over
  <2>8. QED
    BY <2>6, <2>7
<1>18. \A k \in 1..w : Past(k) \cap (ack \cup skip) = Past(k) \cap ack
  <2>1. SUFFICES ASSUME NEW k \in 1..w PROVE Past(k) \cap (ack \cup skip) = Past(k) \cap ack
    OBVIOUS
  <2>2. Past(k) \cap skip = {}
    BY <1>13
  <2>3. QED
    BY <2>2
\* The list is l and the loop compares place w with the first further index.
<1>19. ASSUME w \in q..(q + 1), Len(s.rest) > 1, NEW l, Listing(l), Remains(l, s.at, w),
              Settled(l, Past(w) \cap ack, Past(w) \cap ack),
              r = Reading(s, l)
       PROVE  Over(r, ack, skip) \/ Comparing(r, w, 1, hs, w, ack, skip)
  <2>1. l \in Seq(Entry) /\ Len(l) \in Nat
    BY <1>19, ListingOrder DEF Listing
  <2>2. /\ r \in State /\ r.list = l /\ r.at = s.at /\ ~r.first
        /\ r.ack = s.rest[1] /\ Len(r.rest) = Len(s.rest) - 1
        /\ \A i \in 1..(Len(s.rest) - 1) : r.rest[i] = s.rest[i + 1]
    <3>1. LET t == Reading(s, l)
          IN  /\ t \in State /\ t.list = l /\ t.at = s.at /\ ~t.first
              /\ t.ack = s.rest[1] /\ Len(t.rest) = Len(s.rest) - 1
              /\ \A i \in 1..(Len(s.rest) - 1) : t.rest[i] = s.rest[i + 1]
      BY <2>1, <1>1, <1>19, Advanced
    <3>2. QED
      BY <3>1, <1>19, Zenon
  <2>3. w \in 1..w /\ w \in Nat \ {0}
    BY <1>3
  <2>4. CASE w <= n
    <3>1. w \in w..n /\ 1 \in 1..(Len(hs) - 1) /\ w..(w - 1) = {} /\ 1..(1 - 1) = {}
      BY <2>4, <1>3, <1>2, <1>4, <1>19
    <3>2. r.ack = Wire(hs[1]) /\ Len(r.rest) = Len(hs) - 1
      BY <2>2, <1>4, <1>19
    <3>3. \A i \in 1..(Len(hs) - 1) : r.rest[i] = Wire(hs[1 + i])
      <4>1. \A i \in 1..(Len(hs) - 1) : i + 1 = 1 + i /\ 1 + i \in 1..Len(hs)
        BY <1>4
      <4>2. QED
        BY <4>1, <2>2, <1>4
    <3>4. Past(w) \cap (ack \cup skip) = Past(w) \cap ack
      BY <2>3, <1>18
    <3>5. Past(w) \subseteq Past(w + 1)
      <4>1. w \in 1..n
        BY <2>4, <1>3
      <4>2. QED
        BY <4>1, PastSteps DEF n
    <3>6. \E marked : /\ Past(w) \cap (ack \cup skip) \subseteq marked
                      /\ marked \subseteq Past(w + 1) \cap (ack \cup skip)
                      /\ Settled(r.list, Past(w) \cap ack, marked)
      <4>1. /\ Past(w) \cap (ack \cup skip) \subseteq Past(w) \cap ack
            /\ Past(w) \cap ack \subseteq Past(w + 1) \cap (ack \cup skip)
        BY <3>4, <3>5
      <4>2. Settled(r.list, Past(w) \cap ack, Past(w) \cap ack)
        BY <2>2, <1>19
      <4>3. QED
        BY <4>1, <4>2
    <3>7. Remains(r.list, r.at, w)
      BY <2>2, <1>19
    <3>8. Comparing(r, w, 1, hs, w, ack, skip)
      BY <3>1, <3>2, <3>3, <3>6, <3>7, <2>2 DEF Comparing, n
    <3>9. QED
      BY <3>8
  <2>5. CASE ~(w <= n)
    <3>1. \A j \in 1..Len(outList) : j >= w => outList[j].id \notin ack \cup skip
      BY <2>5, <1>2, <1>3 DEF n
    <3>2. Past(w) \cap ack = ack /\ Past(w) \cap (ack \cup skip) = ack \cup skip
      BY <3>1, <2>3, Finished
    <3>3. Past(w) \cap ack = ack \cup skip
      BY <3>2, <2>3, <1>18
    <3>4. Len(l) - s.at = n - w
      BY <1>19 DEF Remains, n
    <3>5. s.at > Len(l)
      BY <3>4, <2>1, <2>5, <1>2, <1>3, <1>7
    <3>6. Settled(l, ack, ack \cup skip)
      BY <3>2, <3>3, <1>19
    <3>7. QED
      BY <3>5, <3>6, <2>2 DEF Over
  <2>6. QED
    BY <2>4, <2>5
\* The list is l and no index is left.
<1>20. ASSUME ~(Len(s.rest) > 1), NEW l, Listing(l),
              Settled(l, Past(w) \cap ack, Past(w) \cap ack),
              r = Moving(s, l, Len(l) + 1)
       PROVE  Over(r, ack, skip)
  <2>1. l \in Seq(Entry) /\ Len(l) \in Nat /\ Len(l) + 1 \in Nat \ {0}
    BY <1>20, ListingOrder DEF Listing
  <2>2. r \in State /\ r.list = l /\ r.at = Len(l) + 1
    <3>1. LET t == Moving(s, l, Len(l) + 1)
          IN  t \in State /\ t.list = l /\ t.at = Len(l) + 1
      BY <2>1, <1>1, Moved
    <3>2. QED
      BY <3>1, <1>20, Zenon
  <2>3. w \in 1..w /\ w \in Nat \ {0} /\ Len(hs) <= 1
    BY <1>3, <1>4, <1>20
  <2>4. \A j \in 1..Len(outList) : j >= w => outList[j].id \notin ack \cup skip
    BY <2>3, ClearedPlaces
  <2>5. Past(w) \cap ack = ack /\ Past(w) \cap (ack \cup skip) = ack \cup skip
    BY <2>3, <2>4, Finished
  <2>6. Past(w) \cap ack = ack \cup skip
    BY <2>3, <2>5, <1>18
  <2>7. Settled(l, ack, ack \cup skip)
    BY <2>5, <2>6, <1>20, Zenon
  <2>8. QED
    BY <2>1, <2>2, <2>7 DEF Over
<1>21. CASE o = last
  <2>1. w = q + 1 /\ q < w /\ last <= o /\ walked = erased
    BY <1>21, <1>1, <1>2, <1>5, <1>10, <1>16
  <2>2. Remains(erased, s.at, w) /\ Settled(erased, Past(w) \cap ack, Past(w) \cap ack)
    BY <2>1, <1>8, <1>14
  <2>3. w \in q..(q + 1)
    BY <2>1, <1>1
  <2>4. CASE Len(s.rest) > 1
    BY <2>1, <2>2, <2>3, <2>4, <1>9, <1>11, <1>19
  <2>5. CASE ~(Len(s.rest) > 1)
    BY <2>1, <2>2, <2>5, <1>9, <1>11, <1>20
  <2>6. QED
    BY <2>3, <2>4, <2>5
<1>22. CASE o > last
  <2>1. w = q /\ last <= o /\ walked = s.list
    <3>1. ~(o <= last) /\ last <= o /\ o # last
      BY <1>22, <1>2, <1>5
    <3>2. w = q
      BY <3>1, <1>1, <1>3, <1>12
    <3>3. QED
      BY <3>1, <3>2, <1>1, <1>10
  <2>2. Remains(s.list, s.at, w) /\ Settled(s.list, Past(w) \cap ack, Past(w) \cap ack)
    BY <2>1, <1>1 DEF done
  <2>3. w \in q..(q + 1)
    BY <2>1, <1>1
  <2>4. CASE Len(s.rest) > 1
    BY <2>1, <2>2, <2>3, <2>4, <1>7, <1>11, <1>19
  <2>5. CASE ~(Len(s.rest) > 1)
    BY <2>1, <2>2, <2>5, <1>7, <1>11, <1>20
  <2>6. QED
    BY <2>3, <2>4, <2>5
<1>23. QED
  BY <1>2, <1>5, <1>17, <1>21, <1>22


\* A round with a further index in hand goes on by a place, by an index, by
\* both, or ends the loop.
LEMMA ComparingRound ==
    ASSUME LInv, NEW a \in ackNet, sentCount + 1 - a.ghost.last <= Lag,
           NEW hs, NEW w, NEW ack, NEW skip,
           Plan(a, hs, w), Fates(hs, w, ack, skip),
           NEW s, NEW q, NEW p, Comparing(s, q, p, hs, w, ack, skip), NEW r, r = Round(s)
    PROVE  \/ Over(r, ack, skip)
           \/ Comparing(r, q + 1, p, hs, w, ack, skip)
           \/ Comparing(r, q + 1, p + 1, hs, w, ack, skip)
           \/ Comparing(r, q, p + 1, hs, w, ack, skip)
<1> DEFINE n == Len(outList)
           h == Len(hs) - 1
           o == outList[q].id
           done == Past(q) \cap ack
           both == ack \cup skip
<1>1. /\ s \in State /\ ~s.first /\ p \in 1..h /\ s.ack = Wire(hs[p])
      /\ Len(s.rest) = Len(hs) - p
      /\ \A i \in 1..(Len(hs) - p) : s.rest[i] = Wire(hs[p + i])
      /\ q \in w..n
      /\ \A j \in w..(q - 1) : outList[j].id < hs[p]
      /\ \A i \in 1..(p - 1) : hs[i] < o
      /\ Remains(s.list, s.at, q)
  BY DEF Comparing
<1>2. PICK marked : /\ Past(q) \cap both \subseteq marked
                    /\ marked \subseteq Past(q + 1) \cap both
                    /\ Settled(s.list, done, marked)
  BY DEF Comparing
<1>3. n \in Nat /\ w \in 1..(n + 2) /\ q \in 1..n
  <2>1. n \in Nat /\ w \in 1..(n + 2)
    BY Places DEF Plan
  <2>2. QED
    BY <2>1, <1>1
<1>4. /\ o \in Nat /\ o \in Ids(outList)
      /\ \A i, j \in 1..n : i < j => outList[i].id < outList[j].id
      /\ \A i \in 1..n : outList[i].id \in Nat
  BY <1>3, Places
<1>5. /\ Len(hs) \in Nat /\ h \in Nat /\ Len(hs) = h + 1
      /\ \A i \in 1..h : hs[i] \in Nat /\ hs[i] \in a.ghost.have
      /\ \A i, j \in 1..h : i < j => hs[i] < hs[j]
  <2>1. /\ Len(hs) \in Nat
        /\ \A i \in 1..Len(hs) : hs[i] \in Nat /\ hs[i] \in a.ghost.have
        /\ \A i, j \in 1..Len(hs) : i < j => hs[i] < hs[j]
    BY Numbers
  <2>2. h \in Nat /\ Len(hs) = h + 1
    BY <2>1, <1>1
  <2>3. \A i \in 1..h : i \in 1..Len(hs)
    BY <2>1
  <2>4. QED
    BY <2>1, <2>2, <2>3
<1>6. PICK c : c = hs[p] /\ c \in Nat /\ c \in a.ghost.have
  BY <1>1, <1>5
<1>7. /\ o \in both
      /\ o < c => o \notin ack
      /\ o = c => o \in ack
      /\ p = h /\ o > c => o \notin ack
      /\ p = h /\ o >= c => \A j \in (q + 1)..n : outList[j].id \notin both
  <2>1. /\ q \in w..Len(outList) /\ p \in 1..(Len(hs) - 1) /\ o = outList[q].id
        /\ \A j \in w..(q - 1) : outList[j].id < hs[p]
        /\ \A i \in 1..(p - 1) : hs[i] < o
    BY <1>1
  <2> HIDE DEF o
  <2>2. /\ o \in ack \cup skip
        /\ o < hs[p] => o \notin ack
        /\ o = hs[p] => o \in ack
        /\ p = Len(hs) - 1 /\ o > hs[p] => o \notin ack
        /\ p = Len(hs) - 1 /\ o >= hs[p] =>
              \A j \in (q + 1)..Len(outList) : outList[j].id \notin ack \cup skip
    BY <2>1, PlaceFate
  <2>3. QED
    BY <2>2, <1>6, Zenon
<1>8. PICK erased, unsent : erased = RemoveAt(s.list, s.at) /\ unsent = MarkedAt(s.list, s.at)
  OBVIOUS
<1>9. s.at \in Nat \ {0} /\ Listing(s.list)
  BY <1>1, <1>2 DEF State, Settled
<1> HIDE DEF n, h, o, both, done
<1>10. s.at \in 1..Len(s.list) /\ s.list[s.at].id = o
  BY <1>1, <1>3, <1>9, Touching DEF n, o
<1>11. Remains(erased, s.at, q + 1) /\ Settled(erased, done \cup {o}, marked \cup {o})
  <2>1. /\ Remains(erased, s.at, q + 1)
        /\ \A e, m : Settled(s.list, e, m) => Settled(erased, e \cup {o}, m \cup {o})
    BY <1>1, <1>3, <1>8, <1>9, ErasingHere DEF n, o
  <2>2. QED
    BY <2>1, <1>2
<1>12. /\ Remains(unsent, s.at, q) /\ Remains(unsent, s.at + 1, q + 1)
       /\ Settled(unsent, done, marked \cup {o})
  <2>1. /\ Remains(unsent, s.at, q) /\ Remains(unsent, s.at + 1, q + 1)
        /\ \A e, m : Settled(s.list, e, m) => Settled(unsent, e, m \cup {o})
    BY <1>1, <1>3, <1>8, <1>9, MarkingHere DEF n, o
  <2>2. QED
    BY <2>1, <1>2
<1>13. PICK walked : walked = IF (s.first /\ o <= c) \/ o = c THEN erased
                             ELSE IF s.first THEN s.list ELSE unsent
  OBVIOUS
<1>14. /\ c > o => r = Moving(s, walked, s.at + 1)
       /\ c <= o /\ Len(s.rest) > 1 => r = Reading(s, walked)
       /\ c <= o /\ ~(Len(s.rest) > 1) => r = Moving(s, walked, Len(walked) + 1)
  <2>1. s.at <= Len(s.list)
    BY <1>9, <1>10, ListingOrder
  <2>2. c \in a.ghost.have \cup {a.ghost.last}
    BY <1>6
  <2>3. /\ s \in State /\ s.at <= Len(s.list) /\ Listing(s.list) /\ s.ack = Wire(c)
        /\ o \in Ids(outList) /\ s.list[s.at].id = o
    BY <2>1, <1>1, <1>4, <1>6, <1>9, <1>10
  <2>4. QED
    BY <2>2, <2>3, <1>8, <1>13, RoundInNumbers
<1>15. Past(q + 1) = Past(q) \cup {o}
  BY <1>3, PastSteps DEF n, o
<1>16. marked \cup {o} = Past(q + 1) \cap both
  BY <1>2, <1>7, <1>15
<1>17. q + 1 \in Nat \ {0} /\ q \in Nat \ {0}
  BY <1>3
\* The loop goes on at place q + 1, or there is none.
<1>18. ASSUME NEW k \in p..h, ~r.first, r \in State, r.ack = Wire(hs[k]), Len(r.rest) = Len(hs) - k,
              \A i \in 1..(Len(hs) - k) : r.rest[i] = Wire(hs[k + i]),
              \A j \in w..q : outList[j].id < hs[k],
              \A i \in 1..(k - 1) : hs[i] <= o,
              Remains(r.list, r.at, q + 1),
              Settled(r.list, Past(q + 1) \cap ack, marked \cup {o})
       PROVE  Over(r, ack, skip) \/ Comparing(r, q + 1, k, hs, w, ack, skip)
  <2>1. CASE q + 1 <= n
    <3>1. q + 1 \in w..n /\ q + 1 \in 1..n /\ (q + 1) - 1 = q
      BY <2>1, <1>1, <1>3
    <3>2. o < outList[q + 1].id /\ outList[q + 1].id \in Nat
      <4>1. q < q + 1
        BY <1>3
      <4>2. QED
        BY <4>1, <3>1, <1>3, <1>4 DEF o
    <3>3. \A i \in 1..(k - 1) : hs[i] < outList[q + 1].id
      <4>1. SUFFICES ASSUME NEW i \in 1..(k - 1) PROVE hs[i] < outList[q + 1].id
        OBVIOUS
      <4>2. i \in 1..h /\ hs[i] <= o
        BY <1>1, <1>5, <1>18
      <4>3. hs[i] \in Nat
        BY <4>2, <1>5
      <4>4. QED
        BY <4>2, <4>3, <3>2, <1>4
    <3>4. \A j \in w..((q + 1) - 1) : outList[j].id < hs[k]
      BY <3>1, <1>18
    <3>5. \E m : /\ Past(q + 1) \cap (ack \cup skip) \subseteq m
                 /\ m \subseteq Past((q + 1) + 1) \cap (ack \cup skip)
                 /\ Settled(r.list, Past(q + 1) \cap ack, m)
      <4>1. Past(q + 1) \subseteq Past((q + 1) + 1)
        BY <3>1, PastSteps DEF n
      <4>2. /\ Past(q + 1) \cap (ack \cup skip) \subseteq marked \cup {o}
            /\ marked \cup {o} \subseteq Past((q + 1) + 1) \cap (ack \cup skip)
        BY <4>1, <1>16 DEF both
      <4>3. QED
        BY <4>2, <1>18
    <3>6. k \in 1..h
      BY <1>1, <1>5
    <3>7. QED
      BY <3>1, <3>3, <3>4, <3>5, <3>6, <1>18 DEF Comparing, n, h
  <2>2. CASE ~(q + 1 <= n)
    <3>1. \A j \in 1..Len(outList) : j >= q + 1 => outList[j].id \notin ack \cup skip
      BY <2>2, <1>3 DEF n
    <3>2. Past(q + 1) \cap ack = ack /\ Past(q + 1) \cap (ack \cup skip) = ack \cup skip
      BY <3>1, <1>17, Finished
    <3>3. marked \cup {o} = ack \cup skip
      BY <3>2, <1>16 DEF both
    <3>4. Settled(r.list, ack, ack \cup skip)
      BY <3>2, <3>3, <1>18, Zenon
    <3>5. Len(r.list) - r.at = n - (q + 1)
      BY <1>18 DEF Remains, n
    <3>6. Len(r.list) \in Nat /\ r.at \in Nat
      BY <1>18, ListingOrder DEF State, Settled
    <3>7. r.at > Len(r.list)
      BY <3>5, <3>6, <2>2, <1>3
    <3>8. QED
      BY <3>4, <3>7, <1>18 DEF Over
  <2>3. QED
    BY <2>1, <2>2
\* No index is left.
<1>19. ASSUME p = h, o >= c, ~(Len(s.rest) > 1), NEW l, Listing(l), r = Moving(s, l, Len(l) + 1),
              Settled(l, Past(q + 1) \cap ack, marked \cup {o})
       PROVE  Over(r, ack, skip)
  <2>1. l \in Seq(Entry) /\ Len(l) \in Nat /\ Len(l) + 1 \in Nat \ {0}
    BY <1>19, ListingOrder DEF Listing
  <2>2. r \in State /\ r.list = l /\ r.at = Len(l) + 1
    <3>1. LET t == Moving(s, l, Len(l) + 1)
          IN  t \in State /\ t.list = l /\ t.at = Len(l) + 1
      BY <2>1, <1>1, Moved
    <3>2. QED
      BY <3>1, <1>19, Zenon
  <2>3. \A j \in 1..Len(outList) : j >= q + 1 => outList[j].id \notin ack \cup skip
    <3>1. \A j \in 1..n : j >= q + 1 => j \in (q + 1)..n
      BY <1>3
    <3>2. \A j \in (q + 1)..n : outList[j].id \notin both
      BY <1>7, <1>19
    <3>3. QED
      BY <3>1, <3>2 DEF n, both
  <2>4. Past(q + 1) \cap ack = ack /\ Past(q + 1) \cap (ack \cup skip) = ack \cup skip
    BY <2>3, <1>17, Finished
  <2>5. marked \cup {o} = ack \cup skip
    BY <2>4, <1>16 DEF both
  <2>6. Settled(l, ack, ack \cup skip)
    BY <2>4, <2>5, <1>19, Zenon
  <2>7. r.at > Len(r.list)
    BY <2>1, <2>2
  <2>8. Settled(r.list, ack, ack \cup skip)
    BY <2>2, <2>6, Zenon
  <2>9. QED
    BY <2>2, <2>7, <2>8 DEF Over
<1>20. Listing(erased) /\ erased \in Seq(Entry) /\ Listing(unsent) /\ unsent \in Seq(Entry)
  BY <1>11, <1>12 DEF Settled, Listing
<1>21. p # h => p + 1 \in 1..h /\ p + 1 \in p..h /\ c < hs[p + 1] /\ hs[p + 1] \in Nat /\ Len(s.rest) > 1
  <2>1. SUFFICES ASSUME p # h
                 PROVE  p + 1 \in 1..h /\ p + 1 \in p..h /\ c < hs[p + 1] /\ hs[p + 1] \in Nat
                        /\ Len(s.rest) > 1
    OBVIOUS
  <2>2. p + 1 \in 1..h /\ p + 1 \in p..h /\ p < p + 1 /\ Len(s.rest) > 1
    BY <2>1, <1>1, <1>5
  <2>3. QED
    BY <2>2, <1>1, <1>5, <1>6
<1>22. p = h => ~(Len(s.rest) > 1)
  BY <1>1, <1>5
\* The next index is read into the state with list l.
<1>23. ASSUME p # h, NEW l \in Seq(Entry), r = Reading(s, l)
       PROVE  /\ r \in State /\ r.list = l /\ r.at = s.at /\ ~r.first
              /\ r.ack = Wire(hs[p + 1]) /\ Len(r.rest) = Len(hs) - (p + 1)
              /\ \A i \in 1..(Len(hs) - (p + 1)) : r.rest[i] = Wire(hs[(p + 1) + i])
  <2>1. Len(s.rest) > 1
    BY <1>21, <1>23
  <2>2. /\ r \in State /\ r.list = l /\ r.at = s.at /\ ~r.first
        /\ r.ack = s.rest[1] /\ Len(r.rest) = Len(s.rest) - 1
        /\ \A i \in 1..(Len(s.rest) - 1) : r.rest[i] = s.rest[i + 1]
    <3>1. s \in State
      BY <1>1
    <3>2. LET t == Reading(s, l)
          IN  /\ t \in State /\ t.list = l /\ t.at = s.at /\ ~t.first
              /\ t.ack = s.rest[1] /\ Len(t.rest) = Len(s.rest) - 1
              /\ \A i \in 1..(Len(s.rest) - 1) : t.rest[i] = s.rest[i + 1]
      BY <3>1, <2>1, <1>23, Advanced
    <3>3. QED
      BY <3>2, <1>23, Zenon
  <2>3. Len(r.rest) = Len(hs) - (p + 1) /\ 1 \in 1..(Len(hs) - p)
    BY <2>2, <1>1, <1>5
  <2>4. ASSUME NEW i \in 1..(Len(hs) - (p + 1)) PROVE r.rest[i] = Wire(hs[(p + 1) + i])
    <3>1. i \in 1..(Len(s.rest) - 1) /\ i + 1 \in 1..(Len(hs) - p) /\ p + (i + 1) = (p + 1) + i
      BY <1>1, <1>5
    <3>2. r.rest[i] = s.rest[i + 1] /\ s.rest[i + 1] = Wire(hs[p + (i + 1)])
      BY <3>1, <2>2, <1>1
    <3>3. QED
      BY <3>1, <3>2
  <2>5. QED
    BY <2>2, <2>3, <2>4, <1>1
<1>24. \A i \in 1..(p - 1) : i \in 1..h /\ hs[i] < o /\ hs[i] < c
  <2>1. \A i \in 1..(p - 1) : i \in 1..h /\ i < p
    BY <1>1, <1>5
  <2>2. QED
    BY <2>1, <1>1, <1>5, <1>6
<1>25. \A j \in w..(q - 1) : j \in 1..n /\ outList[j].id < c /\ outList[j].id \in Nat
  <2>1. \A j \in w..(q - 1) : j \in 1..n
    BY <1>3
  <2>2. QED
    BY <2>1, <1>1, <1>4, <1>6
<1>26. CASE o < c
  <2>1. c > o /\ walked = unsent
    BY <1>26, <1>1, <1>4, <1>6, <1>13
  <2>2. PICK b \in Nat \ {0} : b = s.at + 1 /\ r = Moving(s, unsent, b)
    BY <2>1, <1>9, <1>14
  <2>3. /\ r \in State /\ r.list = unsent /\ r.at = s.at + 1
        /\ r.ack = s.ack /\ r.rest = s.rest /\ r.first = s.first
    <3>1. s \in State
      BY <1>1
    <3>2. unsent \in Seq(Entry)
      BY <1>20
    <3>3. LET t == Moving(s, unsent, b)
          IN  /\ t \in State /\ t.list = unsent /\ t.at = b
              /\ t.ack = s.ack /\ t.rest = s.rest /\ t.first = s.first
      BY <3>1, <3>2, Moved
    <3>4. QED
      BY <3>3, <2>2, Zenon
  <2>4. done = Past(q + 1) \cap ack
    BY <1>7, <1>15, <1>26 DEF done
  <2>5. Settled(r.list, Past(q + 1) \cap ack, marked \cup {o})
    BY <2>3, <2>4, <1>12, Zenon
  <2>6. \A j \in w..q : outList[j].id < hs[p]
    <3>1. \A j \in w..q : j = q \/ j \in w..(q - 1)
      BY <1>3
    <3>2. QED
      BY <3>1, <1>6, <1>25, <1>26 DEF o
  <2>7. \A i \in 1..(p - 1) : hs[i] <= o
    <3>1. SUFFICES ASSUME NEW i \in 1..(p - 1) PROVE hs[i] <= o
      OBVIOUS
    <3>2. hs[i] < o /\ hs[i] \in Nat
      BY <1>5, <1>24
    <3>3. QED
      BY <3>2, <1>4
  <2>8. p \in p..h
    BY <1>1, <1>5
  <2>9. Remains(r.list, r.at, q + 1)
    BY <2>3, <1>12
  <2>10. Over(r, ack, skip) \/ Comparing(r, q + 1, p, hs, w, ack, skip)
    BY <2>3, <2>5, <2>6, <2>7, <2>8, <2>9, <1>1, <1>18
  <2>11. QED
    BY <2>10
<1>27. CASE o = c
  <2>1. c <= o /\ walked = erased
    BY <1>27, <1>4, <1>6, <1>13
  <2>2. done \cup {o} = Past(q + 1) \cap ack
    BY <1>7, <1>15, <1>27 DEF done
  <2>3. Settled(erased, Past(q + 1) \cap ack, marked \cup {o})
    BY <2>2, <1>11, Zenon
  <2>4. CASE p = h
    <3>1. r = Moving(s, erased, Len(erased) + 1) /\ ~(Len(s.rest) > 1)
      BY <2>1, <2>4, <1>14, <1>22
    <3>2. o >= c
      BY <1>27, <1>4
    <3>3. QED
      BY <3>1, <3>2, <2>3, <2>4, <1>19, <1>20
  <2>5. CASE p # h
    <3>1. r = Reading(s, erased)
      BY <2>1, <2>5, <1>14, <1>21
    <3>2. /\ r \in State /\ r.list = erased /\ r.at = s.at /\ ~r.first
          /\ r.ack = Wire(hs[p + 1]) /\ Len(r.rest) = Len(hs) - (p + 1)
          /\ \A i \in 1..(Len(hs) - (p + 1)) : r.rest[i] = Wire(hs[(p + 1) + i])
      BY <3>1, <2>5, <1>20, <1>23
    <3>3. p + 1 \in p..h /\ c < hs[p + 1] /\ hs[p + 1] \in Nat
      BY <2>5, <1>21
    <3>4. \A j \in w..q : outList[j].id < hs[p + 1]
      <4>1. SUFFICES ASSUME NEW j \in w..q PROVE outList[j].id < hs[p + 1]
        OBVIOUS
      <4>2. j = q \/ j \in w..(q - 1)
        BY <1>3
      <4>3. CASE j = q
        BY <4>3, <3>3, <1>27 DEF o
      <4>4. CASE j \in w..(q - 1)
        <5>1. outList[j].id < c /\ outList[j].id \in Nat
          BY <4>4, <1>25
        <5>2. QED
          BY <5>1, <3>3, <1>6
      <4>5. QED
        BY <4>2, <4>3, <4>4
    <3>5. \A i \in 1..((p + 1) - 1) : hs[i] <= o
      <4>1. SUFFICES ASSUME NEW i \in 1..((p + 1) - 1) PROVE hs[i] <= o
        OBVIOUS
      <4>2. i = p \/ i \in 1..(p - 1)
        BY <1>1, <1>5
      <4>3. CASE i = p
        BY <4>3, <1>6, <1>27
      <4>4. CASE i \in 1..(p - 1)
        <5>1. hs[i] < o /\ hs[i] \in Nat
          BY <4>4, <1>5, <1>24
        <5>2. QED
          BY <5>1, <1>4
      <4>5. QED
        BY <4>2, <4>3, <4>4
    <3>6. Remains(r.list, r.at, q + 1) /\ Settled(r.list, Past(q + 1) \cap ack, marked \cup {o})
      BY <3>2, <2>3, <1>11
    <3>7. Over(r, ack, skip) \/ Comparing(r, q + 1, p + 1, hs, w, ack, skip)
      BY <3>2, <3>3, <3>4, <3>5, <3>6, <1>18
    <3>8. QED
      BY <3>7
  <2>6. QED
    BY <2>4, <2>5
<1>28. CASE o > c
  <2>1. c <= o /\ walked = unsent
    BY <1>28, <1>1, <1>4, <1>6, <1>13
  <2>2. CASE p = h
    <3>1. r = Moving(s, unsent, Len(unsent) + 1) /\ ~(Len(s.rest) > 1)
      BY <2>1, <2>2, <1>14, <1>22
    <3>2. o >= c /\ o \notin ack
      BY <2>2, <1>4, <1>6, <1>7, <1>28
    <3>3. done = Past(q + 1) \cap ack
      BY <3>2, <1>15 DEF done
    <3>4. Settled(unsent, Past(q + 1) \cap ack, marked \cup {o})
      BY <3>3, <1>12, Zenon
    <3>5. QED
      BY <3>1, <3>2, <3>4, <2>2, <1>19, <1>20
  <2>3. CASE p # h
    <3>1. r = Reading(s, unsent)
      BY <2>1, <2>3, <1>14, <1>21
    <3>2. /\ r \in State /\ r.list = unsent /\ r.at = s.at /\ ~r.first
          /\ r.ack = Wire(hs[p + 1]) /\ Len(r.rest) = Len(hs) - (p + 1)
          /\ \A i \in 1..(Len(hs) - (p + 1)) : r.rest[i] = Wire(hs[(p + 1) + i])
      BY <3>1, <2>3, <1>20, <1>23
    <3>3. p + 1 \in 1..h /\ c < hs[p + 1] /\ hs[p + 1] \in Nat
      BY <2>3, <1>21
    <3>4. \A j \in w..(q - 1) : outList[j].id < hs[p + 1]
      <4>1. SUFFICES ASSUME NEW j \in w..(q - 1) PROVE outList[j].id < hs[p + 1]
        OBVIOUS
      <4>2. outList[j].id < c /\ outList[j].id \in Nat
        BY <1>25
      <4>3. QED
        BY <4>2, <3>3, <1>6
    <3>5. \A i \in 1..((p + 1) - 1) : hs[i] < o
      <4>1. SUFFICES ASSUME NEW i \in 1..((p + 1) - 1) PROVE hs[i] < o
        OBVIOUS
      <4>2. i = p \/ i \in 1..(p - 1)
        BY <1>1, <1>5
      <4>3. CASE i = p
        BY <4>3, <1>4, <1>6, <1>28
      <4>4. CASE i \in 1..(p - 1)
        BY <4>4, <1>24
      <4>5. QED
        BY <4>2, <4>3, <4>4
    <3>6. Remains(r.list, r.at, q)
      BY <3>2, <1>12
    <3>7. \E m : /\ Past(q) \cap (ack \cup skip) \subseteq m
                 /\ m \subseteq Past(q + 1) \cap (ack \cup skip)
                 /\ Settled(r.list, Past(q) \cap ack, m)
      <4>1. /\ Past(q) \cap (ack \cup skip) \subseteq marked \cup {o}
            /\ marked \cup {o} \subseteq Past(q + 1) \cap (ack \cup skip)
        BY <1>2, <1>16 DEF both
      <4>2. Settled(r.list, Past(q) \cap ack, marked \cup {o})
        BY <3>2, <1>12 DEF done
      <4>3. QED
        BY <4>1, <4>2
    <3>8. Comparing(r, q, p + 1, hs, w, ack, skip)
      BY <3>2, <3>3, <3>4, <3>5, <3>6, <3>7, <1>1 DEF Comparing, n, h, o
    <3>9. QED
      BY <3>8
  <2>4. QED
    BY <2>2, <2>3
<1>29. QED
  BY <1>4, <1>6, <1>26, <1>27, <1>28


\* The loop after k rounds: not over before it used up the places and indices.
Stage(k, s, a, hs, w, ack, skip) ==
    \/ Over(s, ack, skip)
    \/ \E q \in Nat : Clearing(s, q, a, w, ack) /\ k <= q - 1
    \/ \E q, p \in Nat : Comparing(s, q, p, hs, w, ack, skip) /\ k <= (q - 1) + p

\* A round takes the loop from one stage to the next.
LEMMA StageNext ==
    ASSUME LInv, NEW a \in ackNet, sentCount + 1 - a.ghost.last <= Lag,
           NEW hs, NEW w, NEW ack, NEW skip,
           Plan(a, hs, w), Fates(hs, w, ack, skip),
           NEW k \in Nat, NEW s, Stage(k, s, a, hs, w, ack, skip), NEW r, r = Round(s)
    PROVE  Stage(k + 1, r, a, hs, w, ack, skip)
<1>1. CASE Over(s, ack, skip)
  <2>1. s.at > Len(s.list)
    BY <1>1 DEF Over
  <2>2. r = s
    BY <2>1 DEF Round
  <2>3. QED
    BY <1>1, <2>2 DEF Stage
<1>2. ASSUME NEW q \in Nat, Clearing(s, q, a, w, ack), k <= q - 1
      PROVE  Stage(k + 1, r, a, hs, w, ack, skip)
  <2>1. \/ Over(r, ack, skip)
        \/ Clearing(r, q + 2, a, w, ack)
        \/ \E v \in q..(q + 1) : Comparing(r, v, 1, hs, w, ack, skip)
    BY <1>2, ClearingRound
  <2>2. CASE Over(r, ack, skip)
    BY <2>2 DEF Stage
  <2>3. CASE Clearing(r, q + 2, a, w, ack)
    <3>1. q + 2 \in Nat /\ k + 1 <= (q + 2) - 1
      BY <1>2
    <3>2. QED
      BY <2>3, <3>1 DEF Stage
  <2>4. ASSUME NEW v \in q..(q + 1), Comparing(r, v, 1, hs, w, ack, skip)
        PROVE  Stage(k + 1, r, a, hs, w, ack, skip)
    <3>1. v \in Nat /\ 1 \in Nat /\ k + 1 <= (v - 1) + 1
      BY <1>2, <2>4
    <3>2. QED
      BY <2>4, <3>1 DEF Stage
  <2>5. QED
    BY <2>1, <2>2, <2>3, <2>4
<1>3. ASSUME NEW q \in Nat, NEW p \in Nat, Comparing(s, q, p, hs, w, ack, skip),
             k <= (q - 1) + p
      PROVE  Stage(k + 1, r, a, hs, w, ack, skip)
  <2>1. \/ Over(r, ack, skip)
        \/ Comparing(r, q + 1, p, hs, w, ack, skip)
        \/ Comparing(r, q + 1, p + 1, hs, w, ack, skip)
        \/ Comparing(r, q, p + 1, hs, w, ack, skip)
    BY <1>3, ComparingRound
  <2>2. /\ q + 1 \in Nat /\ p + 1 \in Nat
        /\ k + 1 <= ((q + 1) - 1) + p
        /\ k + 1 <= ((q + 1) - 1) + (p + 1)
        /\ k + 1 <= (q - 1) + (p + 1)
    BY <1>3
  <2>3. CASE Over(r, ack, skip)
    BY <2>3 DEF Stage
  <2>4. CASE Comparing(r, q + 1, p, hs, w, ack, skip)
    BY <2>2, <2>4 DEF Stage
  <2>5. CASE Comparing(r, q + 1, p + 1, hs, w, ack, skip)
    BY <2>2, <2>5 DEF Stage
  <2>6. CASE Comparing(r, q, p + 1, hs, w, ack, skip)
    BY <2>2, <2>6 DEF Stage
  <2>7. QED
    BY <2>1, <2>3, <2>4, <2>5, <2>6
<1>4. QED
  BY <1>1, <1>2, <1>3 DEF Stage

\* Where the loop starts.
Start(a) == [list |-> outList, at |-> 1, ack |-> a.index, rest |-> a.have, first |-> TRUE]

\* The loop starts before all its stages.
LEMMA StageFirst ==
    ASSUME LInv, NEW a \in ackNet, NEW hs, NEW w, NEW ack, NEW skip,
           sentCount + 1 - a.ghost.last <= Lag,
           Plan(a, hs, w), Fates(hs, w, ack, skip), NEW s, s = Start(a)
    PROVE  Stage(0, s, a, hs, w, ack, skip)
<1> DEFINE n == Len(outList)
<1>1. /\ s.list = outList /\ s.at = 1 /\ s.ack = a.index /\ s.rest = a.have /\ s.first
  BY DEF Start
<1>2. Listing(outList) /\ n \in Nat
  BY Places DEF LInv, Shape, SenderList, Listing
<1>3. a.index = Wire(a.ghost.last)
  BY DEF LInv, Shape, Acknowledgements
<1>4. s \in State
  <2>1. outList \in Seq(Entry) /\ a.have \in Seq(Int)
    BY <1>2, Numbers DEF Listing
  <2>2. a.index \in Int
    <3>1. a.ghost.last \in Int
      BY AckNumbers
    <3>2. Wire(a.ghost.last) \in 0..(Modulus - 1) /\ Modulus \in Nat
      BY <3>1, WireType, HalfRangeBound
    <3>3. QED
      BY <3>2, <1>3
  <2>3. QED
    BY <2>1, <2>2 DEF State, Start
<1>5. CASE n = 0
  <2>1. Ids(outList) = {}
    BY <1>5, <1>2, Places
  <2>2. ack = {} /\ ack \cup skip = {}
    BY <2>1 DEF Fates
  <2>3. s.at > Len(s.list)
    BY <1>1, <1>5
  <2>4. Settled(outList, {}, {})
    BY <1>2 DEF Settled
  <2>5. Settled(s.list, ack, ack \cup skip)
    BY <1>1, <2>2, <2>4, Zenon
  <2>6. Over(s, ack, skip)
    BY <1>4, <2>3, <2>5 DEF Over
  <2>7. QED
    BY <2>6 DEF Stage
<1>6. CASE n # 0
  <2>1. 1 \in 1..n /\ 1 % 2 = 1 /\ 1 <= w
    BY <1>2, <1>6 DEF Plan
  <2>2. Remains(s.list, s.at, 1)
    BY <1>1 DEF Remains
  <2>3. Settled(outList, {}, {})
    BY <1>2 DEF Settled
  <2>4. Past(1) \cap ack = {}
    BY PastSteps
  <2>5. Settled(s.list, Past(1) \cap ack, Past(1) \cap ack)
    BY <1>1, <2>3, <2>4, Zenon
  <2>6. Clearing(s, 1, a, w, ack)
    BY <1>1, <1>3, <1>4, <2>1, <2>2, <2>5 DEF Clearing, n
  <2>7. 1 \in Nat /\ 0 <= 1 - 1
    OBVIOUS
  <2>8. QED
    BY <2>6, <2>7 DEF Stage
<1>7. QED
  BY <1>5, <1>6

\* The loop's rounds, as a function.
IsWalk(f, a, k) ==
    f = [n \in 0..k |-> IF n = 0 THEN Start(a) ELSE Round(f[n - 1])]

\* The recursive function of AckLoop exists: a least number of rounds
\* without one would be reached from the number before it.
LEMMA WalkExists ==
    ASSUME NEW a, NEW k \in Nat
    PROVE  \E f : IsWalk(f, a, k)
<1> DEFINE S == {j \in Nat \ {0} : \E f : IsWalk(f, a, j - 1)}
<1>1. SUFFICES ASSUME k + 1 \notin S PROVE FALSE
  <2>1. k + 1 \in Nat \ {0} /\ (k + 1) - 1 = k
    OBVIOUS
  <2>2. QED
    BY <2>1
<1>2. PICK d \in 1..(k + 1) : d \notin S /\ \A i \in 1..(d - 1) : i \in S
  <2>1. 1 \in Nat /\ k + 1 \in Nat /\ k + 1 >= 1 /\ k + 1 \notin S
    BY <1>1
  <2> HIDE DEF S
  <2>2. QED
    BY <2>1, P!LeastMissing, Constants
<1>3. CASE d = 1
  <2>1. PICK f : f = [n \in 0..0 |-> Start(a)]
    OBVIOUS
  <2>2. f = [n \in 0..0 |-> IF n = 0 THEN Start(a) ELSE Round(f[n - 1])]
    BY <2>1
  <2>3. IsWalk(f, a, 0) /\ 1 - 1 = 0 /\ 1 \in Nat \ {0}
    BY <2>2 DEF IsWalk
  <2>4. QED
    BY <1>2, <1>3, <2>3
<1>4. CASE d # 1
  <2>1. d - 1 \in 1..(d - 1) /\ d \in Nat \ {0}
    BY <1>2, <1>4
  <2>2. PICK m \in Nat : m = d - 2 /\ (d - 1) - 1 = m /\ d - 1 = m + 1
    BY <1>2, <1>4
  <2>3. PICK g : IsWalk(g, a, m)
    BY <2>1, <2>2, <1>2
  <2>4. /\ DOMAIN g = 0..m
        /\ \A n \in 0..m : g[n] = IF n = 0 THEN Start(a) ELSE Round(g[n - 1])
    BY <2>3 DEF IsWalk
  <2>5. PICK f : f = [n \in 0..(m + 1) |-> IF n = m + 1 THEN Round(g[m]) ELSE g[n]]
    OBVIOUS
  <2>6. \A n \in 0..(m + 1) : f[n] = IF n = 0 THEN Start(a) ELSE Round(f[n - 1])
    <3>1. SUFFICES ASSUME NEW n \in 0..(m + 1)
                   PROVE  f[n] = IF n = 0 THEN Start(a) ELSE Round(f[n - 1])
      OBVIOUS
    <3>2. CASE n = m + 1
      <4>1. n # 0 /\ n - 1 = m /\ m \in 0..(m + 1) /\ m # m + 1
        BY <3>2
      <4>2. f[m] = g[m] /\ f[n] = Round(g[m])
        BY <4>1, <3>2, <2>5
      <4>3. QED
        BY <4>1, <4>2
    <3>3. CASE n # m + 1
      <4>1. n \in 0..m /\ f[n] = g[n]
        BY <3>3, <2>5
      <4>2. CASE n = 0
        BY <4>1, <4>2, <2>4
      <4>3. CASE n # 0
        <5>1. n - 1 \in 0..(m + 1) /\ n - 1 # m + 1
          BY <4>1, <4>3
        <5>2. f[n - 1] = g[n - 1]
          BY <5>1, <2>5
        <5>3. QED
          BY <4>1, <4>3, <5>2, <2>4
      <4>4. QED
        BY <4>2, <4>3
    <3>4. QED
      BY <3>2, <3>3
  <2>7. f = [n \in 0..(m + 1) |-> IF n = 0 THEN Start(a) ELSE Round(f[n - 1])]
    BY <2>5, <2>6
  <2>8. IsWalk(f, a, d - 1)
    BY <2>2, <2>7 DEF IsWalk
  <2>9. QED
    BY <1>2, <2>1, <2>8
<1>5. QED
  BY <1>3, <1>4


\* The loop does to the list what ReliableTranscoder says of it.
LEMMA LoopEffect ==
    ASSUME LInv, NEW a \in ackNet, sentCount + 1 - a.ghost.last <= Lag
    PROVE  Settled(AckLoop(a), P!Acknowledged(a.ghost),
                   P!Acknowledged(a.ghost) \cup P!Skipped(a.ghost.last, a.ghost.have))
<1>1. PICK hs, w, ack, skip :
         /\ ack = P!Acknowledged(a.ghost)
         /\ skip = P!Skipped(a.ghost.last, a.ghost.have)
         /\ Plan(a, hs, w) /\ Fates(hs, w, ack, skip)
  BY AckPlan
<1> DEFINE k == Rounds(a)
           In(n, s) == Stage(n, s, a, hs, w, ack, skip)
<1>2. k \in Nat /\ k = Len(outList) + Len(hs) /\ Len(outList) \in Nat /\ Len(hs) \in Nat
  <2>1. Len(outList) \in Nat
    BY Places
  <2>2. Len(hs) \in Nat /\ Len(a.have) = Len(hs)
    BY <1>1, Numbers
  <2>3. QED
    BY <2>1, <2>2 DEF Rounds
<1>3. AckLoop(a) = (CHOOSE f : IsWalk(f, a, k))[k].list
  BY DEF AckLoop, IsWalk, Start
<1> HIDE DEF k
<1>4. PICK f : IsWalk(f, a, k) /\ AckLoop(a) = f[k].list
  <2>1. \E f : IsWalk(f, a, k)
    BY <1>2, WalkExists
  <2>2. QED
    BY <2>1, <1>3
<1>5. \A n \in 0..k : f[n] = IF n = 0 THEN Start(a) ELSE Round(f[n - 1])
  BY <1>4 DEF IsWalk
<1>6. In(0, f[0])
  <2>1. f[0] = Start(a)
    BY <1>2, <1>5
  <2>2. QED
    BY <2>1, <1>1, StageFirst
<1>7. ASSUME NEW n \in 0..k, n # k, In(n, f[n]) PROVE In(n + 1, f[n + 1])
  <2>1. n \in Nat /\ n + 1 \in 0..k /\ n + 1 # 0 /\ (n + 1) - 1 = n
    BY <1>2, <1>7
  <2>2. f[n + 1] = Round(f[n])
    BY <2>1, <1>5
  <2>3. QED
    BY <2>1, <2>2, <1>1, <1>7, StageNext
<1> HIDE DEF In
<1>8. In(k, f[k])
  <2> DEFINE S == {n \in 0..k : In(n, f[n])}
  <2>1. SUFFICES ASSUME k \notin S PROVE FALSE
    OBVIOUS
  <2> HIDE DEF S
  <2>2. PICK d \in 0..k : d \notin S /\ 0..(d - 1) \subseteq S
    <3>1. 0 \in Nat /\ k \in Nat /\ k >= 0
      BY <1>2
    <3>2. QED
      BY <2>1, <3>1, P!LeastMissing, Constants
  <2>3. CASE d = 0
    BY <2>2, <2>3, <1>6 DEF S
  <2>4. CASE d # 0
    <3>1. PICK n \in 0..k : n = d - 1 /\ n # k /\ n + 1 = d /\ n \in 0..(d - 1)
      BY <2>2, <2>4, <1>2
    <3>2. In(n, f[n])
      BY <3>1, <2>2 DEF S
    <3>3. In(n + 1, f[n + 1])
      BY <3>1, <3>2, <1>7
    <3>4. QED
      BY <3>1, <3>3, <2>2 DEF S
  <2>5. QED
    BY <2>3, <2>4
<1>9. Over(f[k], ack, skip)
  <2>1. ASSUME NEW q \in Nat, Clearing(f[k], q, a, w, ack), k <= q - 1 PROVE FALSE
    <3>1. q \in 1..Len(outList)
      BY <2>1 DEF Clearing
    <3>2. QED
      BY <2>1, <3>1, <1>2
  <2>2. ASSUME NEW q \in Nat, NEW p \in Nat, Comparing(f[k], q, p, hs, w, ack, skip),
               k <= (q - 1) + p
        PROVE  FALSE
    <3>1. p \in 1..(Len(hs) - 1) /\ q \in w..Len(outList) /\ w \in 1..(Len(outList) + 2)
      BY <2>2, <1>1 DEF Comparing, Plan
    <3>2. QED
      BY <2>2, <3>1, <1>2
  <2>3. QED
    BY <2>1, <2>2, <1>8 DEF In, Stage
<1>10. Settled(f[k].list, ack, ack \cup skip)
  BY <1>9 DEF Over
<1>11. QED
  BY <1>1, <1>4, <1>10, Zenon

\* The acknowledgement branch of Recv is RecvAck.
LEMMA RecvAckRefines ==
    ASSUME LInv, NEW a \in ackNet, RecvAck(a)
    PROVE  Shape' /\ P!RecvAck(a.ghost)
<1>1. PICK ack, skip, walked :
         /\ ack = P!Acknowledged(a.ghost)
         /\ skip = P!Skipped(a.ghost.last, a.ghost.have)
         /\ walked = AckLoop(a)
  OBVIOUS
<1>2. /\ sentCount + 1 - a.ghost.last <= Lag
      /\ outList' = ResendOverdue(walked)
      /\ ackNet' = ackNet \ {a}
      /\ UNCHANGED <<sentCount, outIndex, dataNet, inIndex, inList, delivered, open>>
  BY <1>1 DEF RecvAck, reliableReceiver
<1>3. Settled(walked, ack, ack \cup skip)
  <2>1. Settled(AckLoop(a), P!Acknowledged(a.ghost),
                P!Acknowledged(a.ghost) \cup P!Skipped(a.ghost.last, a.ghost.have))
    BY <1>2, LoopEffect
  <2>2. QED
    BY <2>1, <1>1, Zenon
<1>4. /\ Listing(outList')
      /\ Ids(outList') = Ids(walked)
      /\ SentIds(outList') = SentIds(walked) \ OverdueIds(walked)
      /\ OverdueIds(outList') = {}
      /\ \A i \in DOMAIN outList' : outList'[i].overdue => outList'[i].hasSent
  <2>1. PICK r : r = ResendOverdue(walked)
    OBVIOUS
  <2>2. Listing(walked)
    BY <1>3 DEF Settled
  <2>3. /\ Listing(r) /\ Ids(r) = Ids(walked)
        /\ SentIds(r) = SentIds(walked) \ OverdueIds(walked)
        /\ OverdueIds(r) = {}
        /\ \A i \in DOMAIN r : r[i].overdue => r[i].hasSent
    BY <2>1, <2>2, Resending
  <2>4. r = outList'
    BY <2>1, <1>2
  <2>5. QED
    BY <2>3, <2>4
<1>5. /\ Ids(walked) = Ids(outList) \ ack
      /\ OverdueIds(walked) = OverdueIds(outList) \ ack
      /\ SentIds(walked) = SentIds(outList) \ (ack \cup skip)
  BY <1>3 DEF Settled
<1>6. /\ Ids(outList') = Ids(outList) \ ack
      /\ SentIds(outList') = (SentIds(outList) \cap Ids(outList')) \ (skip \cup OverdueIds(outList))
  <2>1. SentIds(outList) \subseteq Ids(outList)
    BY DEF SentIds, Ids
  <2>2. QED
    BY <2>1, <1>4, <1>5
<1>7. Shape'
  <2>1. Shape
    BY DEF LInv
  <2>2. Counters'
    BY <2>1, <1>2 DEF Shape, Counters, Wire
  <2>3. SenderList'
    BY <1>4 DEF SenderList, Listing
  <2>4. ReceiverList'
    BY <2>1, <1>2 DEF Shape, ReceiverList
  <2>5. Datagrams'
    BY <2>1, <1>2 DEF Shape, Datagrams
  <2>6. Acknowledgements'
    <3>1. IsFiniteSet(ackNet) /\ ackNet' \subseteq ackNet
      BY <2>1, <1>2 DEF Shape, Acknowledgements
    <3>2. IsFiniteSet(ackNet')
      BY <3>1, FS_Subset
    <3>3. QED
      BY <2>1, <3>1, <3>2 DEF Shape, Acknowledgements
  <2>7. QED
    BY <2>2, <2>3, <2>4, <2>5, <2>6 DEF Shape
<1>8. {b.ghost : b \in ackNet}' \in {{b.ghost : b \in ackNet}, {b.ghost : b \in ackNet} \ {a.ghost}}
  <2>1. {b.ghost : b \in ackNet}' = {b.ghost : b \in ackNet \ {a}}
    BY <1>2
  <2>2. CASE \E b \in ackNet \ {a} : b.ghost = a.ghost
    BY <2>1, <2>2
  <2>3. CASE ~\E b \in ackNet \ {a} : b.ghost = a.ghost
    BY <2>1, <2>3
  <2>4. QED
    BY <2>2, <2>3
<1>9. P!RecvAck(a.ghost)
  <2>1. a.ghost \in {b.ghost : b \in ackNet}
    OBVIOUS
  <2>2. /\ {e.id : e \in Entries}' = {e.id : e \in Entries} \ ack
        /\ {e.id : e \in {f \in Entries : f.hasSent}}'
              = ({e.id : e \in {f \in Entries : f.hasSent}} \cap {e.id : e \in Entries}')
                \ (skip \cup {e.id : e \in {f \in Entries : f.overdue}})
        /\ {e.id : e \in {f \in Entries : f.overdue}}' = {}
    BY <1>4, <1>6, Mapping, MappingNext
  <2>3. /\ (sentCount + 1)' = sentCount + 1 /\ {m.id : m \in dataNet}' = {m.id : m \in dataNet}
        /\ (Len(delivered) + 1)' = Len(delivered) + 1 /\ open' = open
        /\ {inList[i].id : i \in DOMAIN inList}' = {inList[i].id : i \in DOMAIN inList}
    BY <1>2
  <2>4. UNCHANGED <<sentCount + 1, {m.id : m \in dataNet}, P!receiver>>
    BY <2>3, <1>2 DEF P!receiver
  <2>5. {e.id : e \in Entries}' = {e.id : e \in Entries} \ P!Acknowledged(a.ghost)
    BY <2>2, <1>1
  <2>6. {e.id : e \in {f \in Entries : f.hasSent}}'
           = ({e.id : e \in {f \in Entries : f.hasSent}} \cap {e.id : e \in Entries}')
             \ (P!Skipped(a.ghost.last, a.ghost.have)
                   \cup {e.id : e \in {f \in Entries : f.overdue}})
    BY <2>2, <1>1
  <2>7. (sentCount + 1) - a.ghost.last <= Lag
    <3>1. sentCount \in Nat /\ a.ghost.last \in Nat /\ Lag \in Nat
      BY <1>2, AckNumbers, HalfRangeBound, ListsAssumption DEF LInv, Shape, Counters
    <3>2. QED
      BY <3>1, <1>2
  <2>8. QED
    BY <2>1, <2>2, <2>4, <2>5, <2>6, <2>7, <1>8, Zenon DEF P!RecvAck
<1>10. QED
  BY <1>7, <1>9


-----------------------------------------------------------------------------
(* The theorems. *)

\* Every step keeps the shape and is one of ReliableTranscoder or a stutter.
LEMMA StepRefines ==
    ASSUME LInv, Next
    PROVE  Shape' /\ (P!Next \/ UNCHANGED P!vars)
<1>1. CASE SendReliable
  BY <1>1, SendRefines DEF P!Next
<1>2. ASSUME NEW end \in 0..Len(outList), SendUpdate(end)
      PROVE  Shape' /\ (P!Next \/ UNCHANGED P!vars)
  <2>1. PICK b \in SUBSET (Ids(outList) \ SentIds(outList)) : Shape' /\ P!SendUpdate(b)
    BY <1>2, SendUpdateRefines
  <2>2. b \in SUBSET ({e.id : e \in Entries} \ {e.id : e \in {f \in Entries : f.hasSent}})
    BY Mapping
  <2>3. QED
    BY <2>1, <2>2, Zenon DEF P!Next
<1>3. ASSUME NEW group \in SUBSET DOMAIN outList, PassTime(group)
      PROVE  Shape' /\ (P!Next \/ UNCHANGED P!vars)
  <2>1. PICK g \in SUBSET (SentIds(outList) \ OverdueIds(outList)) : Shape' /\ P!PassTime(g)
    BY <1>3, PassTimeRefines
  <2>2. g \in SUBSET ({e.id : e \in {f \in Entries : f.hasSent}}
                         \ {e.id : e \in {f \in Entries : f.overdue}})
    BY Mapping
  <2>3. QED
    BY <2>1, <2>2, Zenon DEF P!Next
<1>4. ASSUME NEW a \in ackNet, RecvAck(a)
      PROVE  Shape' /\ (P!Next \/ UNCHANGED P!vars)
  <2>1. Shape' /\ P!RecvAck(a.ghost) /\ a.ghost \in {b.ghost : b \in ackNet}
    BY <1>4, RecvAckRefines
  <2>2. QED
    BY <2>1, Zenon DEF P!Next
<1>5. ASSUME NEW m \in dataNet, RecvReliable(m)
      PROVE  Shape' /\ (P!Next \/ UNCHANGED P!vars)
  <2>1. /\ Shape' /\ m.id \in {k.id : k \in dataNet}
        /\ \/ P!RecvExpected(m.id) \/ P!RecvTooFar(m.id)
           \/ P!RecvNewer(m.id) \/ P!RecvOld(m.id)
    BY <1>5, RecvReliableRefines
  <2>2. QED
    BY <2>1, Zenon DEF P!Next
<1>6. CASE RecvUpdate
  BY <1>6, RecvUpdateRefines DEF P!Next
<1>7. CASE Lose
  <2>1. /\ Shape'
        /\ \/ \E n \in {m.id : m \in dataNet} : P!LoseData(n)
           \/ \E g \in {a.ghost : a \in ackNet} : P!LoseAck(g)
           \/ UNCHANGED P!vars
    BY <1>7, LoseRefines
  <2>2. QED
    BY <2>1, Zenon DEF P!Next
<1>8. QED
  BY <1>1, <1>2, <1>3, <1>4, <1>5, <1>6, <1>7 DEF Next

\* So does a stutter.
LEMMA StutterRefines ==
    ASSUME Shape, UNCHANGED vars
    PROVE  Shape' /\ UNCHANGED P!vars
<1>1. UNCHANGED <<sentCount, outIndex, outList, dataNet, ackNet,
                  inIndex, inList, delivered, open>>
  BY DEF vars, reliableSender, reliableReceiver
<1>2. Shape'
  BY <1>1 DEF Shape, Counters, SenderList, ReceiverList, Datagrams, Acknowledgements,
              Wired, Ascending, Wire
<1>3. UNCHANGED P!vars
  BY <1>1 DEF P!vars, P!sender, P!receiver, P!network, Entries
<1>4. QED
  BY <1>2, <1>3

\* The invariant is inductive: the shape step by step, the rest because the
\* mapped step keeps it.
LEMMA NextPreserves ==
    LInv /\ [Next]_vars => LInv' /\ [P!Next]_(P!vars)
<1> SUFFICES ASSUME LInv, [Next]_vars
             PROVE  LInv' /\ [P!Next]_(P!vars)
  OBVIOUS
<1>1. Shape' /\ [P!Next]_(P!vars)
  <2>1. CASE Next
    BY <2>1, StepRefines
  <2>2. CASE UNCHANGED vars
    BY <2>2, StutterRefines DEF LInv
  <2>3. QED
    BY <2>1, <2>2
<1>2. P!IInv'
  <2>1. P!IInv
    BY DEF LInv
  <2>2. QED
    BY <2>1, <1>1, P!NextPreserves, Constants
<1>3. QED
  BY <1>1, <1>2 DEF LInv

\* The inductive invariant holds in every reachable state.
THEOREM ListInvariance == Spec => []LInv
<1>1. LInv /\ [Next]_vars => LInv'
  BY NextPreserves
<1>2. QED
  BY Initially, <1>1, PTL DEF Spec

\* Both lists stay in ascending index order around the wrap, which every loop
\* of Recv and Update over them relies on.
THEOREM ListsStaySorted == Spec => []ListsSorted
BY ListInvariance, InvariantSorts, PTL

\* The loops over the lists do what ReliableTranscoder says in closed form:
\* every step of Recv, Update and SendReliable is one of its steps, with the
\* numbers of the stored entries for its sets.
THEOREM ListsRefinement == Spec => ImplementsReliableTranscoder
<1>1. Init => RT!Init
  BY DEF Init, RT!Init, Entries
<1>2. LInv /\ [Next]_vars => [RT!Next]_(RT!vars)
  <2>1. RT!vars = P!vars
    BY DEF RT!vars, P!vars, RT!sender, P!sender, RT!receiver, P!receiver, RT!network, P!network
  <2>2. UNCHANGED P!vars => UNCHANGED RT!vars
    BY DEF RT!vars, P!vars, RT!sender, P!sender, RT!receiver, P!receiver, RT!network, P!network
  <2>3. QED
    BY <2>2, NextPreserves, SameNext
<1>3. QED
  BY <1>1, <1>2, ListInvariance, PTL DEF Spec, ImplementsReliableTranscoder, RT!Spec
=============================================================================
