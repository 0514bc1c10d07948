---------------------------- MODULE TimerProofs ----------------------------
(***************************************************************************)
(* What TimerController promises, for every set of timers, every wait,     *)
(* every cost of their callbacks and every granularity.                    *)
(***************************************************************************)
EXTENDS TimerController, SequenceTheorems, TLAPS

Places == DOMAIN list

(* The callbacks that the pass may still run. *)
Ahead == {list[i] : i \in {j \in Places : at <= j}}

(* Where the running thread is, and what the others hold.                  *)
Consistent ==
    /\ at \in 1 .. Len(list) + 1
    /\ pc = "callback" => at <= Len(list) /\ updated
    /\ mutex # "runner" => at = 1 /\ since = 0 /\ ~updated
    /\ pc # "callback" => elapsed = 0
    /\ ~updated => at = 1
    /\ sleep <= Granularity
    /\ adding # None => mutex = "other" /\ ~spinning /\ adding \notin Range(list)
    /\ spinning => mutex = "other"
    /\ \A i \in Places : i < at => list[i] \in Looping

(* What the pass has not visited is in order; callbacks disturb the rest.  *)
SortedAhead == \A i, j \in Places :
    at <= i /\ i < j => left[list[i]] <= left[list[j]]

(* How late a timer may be before a pass, apart from its sleep.            *)
Rested(t) == -(Overrun(t) + CostOfOthers(t))

(* The time that the pass took, and how late each timer is where the       *)
(* running thread is.                                                      *)
PassTime == /\ elapsed <= since /\ since <= TotalCost[Timers \ Ahead] + elapsed
            /\ pc = "callback" => elapsed <= Cost[list[at]]

InTime(i) ==
    LET t == list[i]
    IN  /\ pc \in {"unstarted", "loop", "locking"} => left[t] >= Rested(t) - Granularity
        /\ pc \in {"walk", "callback"} =>
              left[t] + since >= IF i < at THEN Wait[t] ELSE Rested(t) - Granularity
        /\ pc = "unlocked" => left[t] >= Rested(t)
        /\ pc = "asleep" => left[t] - sleep >= Rested(t) - Granularity

Timely == pc # "ended" /\ ~spinning => PassTime /\ \A i \in Places : InTime(i)

IInv == TimerTypeOK /\ Consistent /\ SortedAhead /\ Timely
-----------------------------------------------------------------------------
(* Facts about the list and the costs.                                     *)

(* Sorting permutes the list and puts it in order. *)
LEMMA SortOrders ==
    ASSUME NEW S, NEW s \in Seq(S), IsInjective(s), NEW l \in [Range(s) -> Int],
           NEW r \in ByTrigger(s, l)
    PROVE  /\ r \in Seq(S) /\ DOMAIN r = DOMAIN s
           /\ IsInjective(r) /\ Range(r) = Range(s)
           /\ \A i, j \in DOMAIN r : i < j => l[r[i]] <= l[r[j]]
  <1>1. /\ r \in [DOMAIN s -> Range(s)]
        /\ \A t, u \in Range(s) :
              Before(r, t, u) <=> l[t] < l[u] \/ (l[t] = l[u] /\ Before(s, t, u))
    BY DEF ByTrigger
  <1>2. Len(s) \in Nat /\ DOMAIN s = 1 .. Len(s) /\ Range(s) \subseteq S
    BY DEF Range
  <1>3. r \in Seq(S) /\ DOMAIN r = DOMAIN s
    <2>1. r \in [1 .. Len(s) -> S]
      BY <1>1, <1>2
    <2>2. QED BY <2>1, <1>1, <1>2
  <1>4. ASSUME NEW t \in Range(s) PROVE ~Before(s, t, t)
    BY <1>2 DEF Before, IsInjective
  <1>5. ASSUME NEW t \in Range(s) PROVE ~Before(r, t, t)
    BY <1>1, <1>4
  <1>6. IsInjective(r)
    <2> SUFFICES ASSUME NEW i \in DOMAIN r, NEW j \in DOMAIN r, r[i] = r[j], i # j
                 PROVE  FALSE
      BY DEF IsInjective
    <2>1. r[i] \in Range(s) /\ (i < j \/ j < i)
      BY <1>1, <1>2
    <2>2. Before(r, r[i], r[i])
      BY <2>1 DEF Before
    <2>3. QED BY <2>1, <2>2, <1>5
  <1>7. Range(r) = Range(s)
    <2>1. Range(r) \subseteq Range(s)
      BY <1>1 DEF Range
    <2>2. ASSUME NEW t \in Range(s), t \notin Range(r) PROVE FALSE
      <3>1. PICK i \in DOMAIN s : s[i] = t
        BY DEF Range
      <3>2. r[i] \in Range(s) /\ r[i] # t /\ r[i] \in Range(r)
        BY <1>1, <2>2 DEF Range
      <3>3. PICK j \in DOMAIN s : s[j] = r[i]
        BY <3>2 DEF Range
      <3>4. i < j \/ j < i
        BY <3>1, <3>2, <3>3, <1>2
      <3>5. Before(s, t, r[i]) \/ Before(s, r[i], t)
        BY <3>1, <3>3, <3>4 DEF Before
      <3>6. l[t] \in Int /\ l[r[i]] \in Int
        BY <3>2
      <3>7. l[t] < l[r[i]] \/ l[r[i]] < l[t] \/ l[t] = l[r[i]]
        BY <3>6
      <3>8. Before(r, t, r[i]) \/ Before(r, r[i], t)
        BY <3>2, <3>5, <3>7, <1>1
      <3>9. t \in Range(r)
        BY <3>8 DEF Before, Range
      <3>10. QED BY <3>9, <2>2
    <2>3. QED BY <2>1, <2>2
  <1>8. ASSUME NEW i \in DOMAIN r, NEW j \in DOMAIN r, i < j
        PROVE  l[r[i]] <= l[r[j]]
    <2>1. r[i] \in Range(s) /\ r[j] \in Range(s)
      BY <1>1
    <2>2. Before(r, r[i], r[j])
      BY <1>8 DEF Before
    <2>3. l[r[i]] < l[r[j]] \/ l[r[i]] = l[r[j]]
      BY <2>1, <2>2, <1>1
    <2>4. QED BY <2>1, <2>3
  <1>9. QED BY <1>3, <1>6, <1>7, <1>8

(* What is left of the list without one element. *)
LEMMA RemovedFrom ==
    ASSUME NEW S, NEW s \in Seq(S), IsInjective(s), NEW k \in 1 .. Len(s), NEW r,
           r = RemoveAt(s, k) \/ (k = 1 /\ r = Tail(s))
    PROVE  /\ r \in Seq(S) /\ Len(r) = Len(s) - 1 /\ DOMAIN r = 1 .. Len(s) - 1
           /\ \A i \in 1 .. Len(s) - 1 : r[i] = IF i < k THEN s[i] ELSE s[i + 1]
           /\ IsInjective(r) /\ Range(r) = Range(s) \ {s[k]}
  <1>1. Len(s) \in Nat \ {0} /\ DOMAIN s = 1 .. Len(s) /\ \A i \in 1 .. Len(s) : s[i] \in S
    OBVIOUS
  <1>2. /\ r \in Seq(S) /\ Len(r) = Len(s) - 1
        /\ \A i \in 1 .. Len(s) - 1 : r[i] = IF i < k THEN s[i] ELSE s[i + 1]
    <2>1. CASE r = RemoveAt(s, k)
      <3> DEFINE a == SubSeq(s, 1, k - 1)
                 b == SubSeq(s, k + 1, Len(s))
      <3>1. /\ a \in Seq(S) /\ Len(a) = k - 1
            /\ \A i \in 1 .. k - 1 : a[i] = s[i]
        <4>1. k \in Int /\ k - 1 \in Int /\ \A i \in 1 .. k - 1 : s[i] \in S
          BY <1>1
        <4>2. /\ a \in Seq(S) /\ Len(a) = IF 1 <= k - 1 THEN (k - 1) - 1 + 1 ELSE 0
              /\ \A i \in 1 .. (k - 1) - 1 + 1 : a[i] = s[1 + i - 1]
          BY <4>1, SubSeqProperties
        <4>3. QED BY <4>1, <4>2
      <3>2. /\ b \in Seq(S) /\ Len(b) = Len(s) - k
            /\ \A i \in 1 .. Len(s) - k : b[i] = s[i + k]
        <4>1. /\ k + 1 \in Int /\ Len(s) \in Int /\ k + 1 <= Len(s) + 1
              /\ \A i \in k + 1 .. Len(s) : s[i] \in S
          BY <1>1
        <4>2. /\ b \in Seq(S) /\ Len(b) = IF k + 1 <= Len(s) THEN Len(s) - (k + 1) + 1 ELSE 0
              /\ \A i \in 1 .. Len(s) - (k + 1) + 1 : b[i] = s[(k + 1) + i - 1]
          BY <4>1, SubSeqProperties
        <4>3. Len(b) = Len(s) - k
          BY <4>1, <4>2
        <4>4. ASSUME NEW i \in 1 .. Len(s) - k PROVE b[i] = s[i + k]
          <5>1. i \in 1 .. Len(s) - (k + 1) + 1 /\ (k + 1) + i - 1 = i + k
            BY <1>1
          <5>2. QED BY <5>1, <4>2
        <4>5. QED BY <4>2, <4>3, <4>4
      <3>3. r = a \o b
        BY <2>1 DEF RemoveAt
      <3> HIDE DEF a, b
      <3>4. /\ r \in Seq(S) /\ Len(r) = Len(a) + Len(b)
            /\ \A i \in 1 .. Len(a) + Len(b) :
                  r[i] = IF i <= Len(a) THEN a[i] ELSE b[i - Len(a)]
        BY <3>1, <3>2, <3>3, ConcatProperties
      <3>5. Len(r) = Len(s) - 1
        BY <3>1, <3>2, <3>4, <1>1
      <3>6. ASSUME NEW i \in 1 .. Len(s) - 1
            PROVE  r[i] = IF i < k THEN s[i] ELSE s[i + 1]
        <4>1. i \in 1 .. Len(a) + Len(b)
          BY <3>1, <3>2, <1>1
        <4>2. CASE i < k
          <5>1. i <= Len(a) /\ i \in 1 .. k - 1
            BY <4>2, <3>1
          <5>2. QED BY <5>1, <4>1, <4>2, <3>1, <3>4
        <4>3. CASE ~(i < k)
          <5>1. ~(i <= Len(a)) /\ i - Len(a) \in 1 .. Len(s) - k /\ (i - Len(a)) + k = i + 1
            BY <4>3, <3>1, <1>1
          <5>2. r[i] = b[i - Len(a)]
            BY <5>1, <4>1, <3>4
          <5>3. b[i - Len(a)] = s[(i - Len(a)) + k]
            BY <5>1, <3>2
          <5>4. QED BY <5>1, <5>2, <5>3, <4>3
        <4>4. QED BY <4>2, <4>3
      <3>7. QED BY <3>4, <3>5, <3>6
    <2>2. CASE k = 1 /\ r = Tail(s)
      <3>1. s # <<>>
        BY <1>1
      <3>2. QED BY <2>2, <3>1, <1>1, HeadTailProperties
    <2>3. QED BY <2>1, <2>2
  <1>3. DOMAIN r = 1 .. Len(s) - 1
    BY <1>2
  <1>4. IsInjective(r)
    <2> SUFFICES ASSUME NEW i \in 1 .. Len(s) - 1, NEW j \in 1 .. Len(s) - 1, r[i] = r[j]
                 PROVE  i = j
      BY <1>3 DEF IsInjective
    <2>1. PICK m \in 1 .. Len(s) : m = IF i < k THEN i ELSE i + 1
      BY <1>1
    <2>2. PICK n \in 1 .. Len(s) : n = IF j < k THEN j ELSE j + 1
      BY <1>1
    <2>3. r[i] = s[m] /\ r[j] = s[n]
      BY <2>1, <2>2, <1>2
    <2>4. m = n
      BY <2>3, <1>1 DEF IsInjective
    <2>5. QED BY <2>1, <2>2, <2>4, <1>1
  <1>5. Range(r) = Range(s) \ {s[k]}
    <2>1. ASSUME NEW x \in Range(r) PROVE x \in Range(s) \ {s[k]}
      <3>1. PICK i \in 1 .. Len(s) - 1 : x = r[i]
        BY <1>3 DEF Range
      <3>2. PICK j \in 1 .. Len(s) : j = IF i < k THEN i ELSE i + 1
        BY <3>1, <1>1
      <3>3. j # k
        BY <3>1, <3>2, <1>1
      <3>4. x = s[j]
        BY <3>1, <3>2, <1>2
      <3>5. QED BY <3>3, <3>4, <1>1 DEF Range, IsInjective
    <2>2. ASSUME NEW x \in Range(s) \ {s[k]} PROVE x \in Range(r)
      <3>1. PICK j \in 1 .. Len(s) : x = s[j] /\ j # k
        BY <1>1 DEF Range
      <3>2. PICK i \in 1 .. Len(s) - 1 : i = IF j < k THEN j ELSE j - 1
        BY <3>1, <1>1
      <3>3. x = r[i]
        BY <3>1, <3>2, <1>1, <1>2
      <3>4. QED BY <3>3, <1>3 DEF Range
    <2>3. QED BY <2>1, <2>2
  <1>6. QED BY <1>2, <1>3, <1>4, <1>5

(* The list with a timer more. *)
LEMMA AddedTo ==
    ASSUME NEW S, NEW s \in Seq(S), IsInjective(s), NEW t \in S, t \notin Range(s)
    PROVE  /\ Append(s, t) \in Seq(S) /\ IsInjective(Append(s, t))
           /\ Range(Append(s, t)) = Range(s) \cup {t}
           /\ DOMAIN Append(s, t) = 1 .. Len(s) + 1
  <1> DEFINE r == Append(s, t)
  <1>1. /\ Len(s) \in Nat /\ DOMAIN s = 1 .. Len(s)
        /\ r \in Seq(S) /\ DOMAIN r = 1 .. Len(s) + 1
        /\ \A i \in 1 .. Len(s) : r[i] = s[i]
        /\ r[Len(s) + 1] = t
    OBVIOUS
  <1> HIDE DEF r
  <1>2. \A i : i \in 1 .. Len(s) + 1 <=> i \in 1 .. Len(s) \/ i = Len(s) + 1
    BY <1>1
  <1>3. Range(r) \subseteq Range(s) \cup {t}
    BY <1>1, <1>2 DEF Range
  <1>4. Range(s) \subseteq Range(r) /\ t \in Range(r)
    BY <1>1, <1>2 DEF Range
  <1>5. IsInjective(r)
    BY <1>1, <1>2 DEF Range, IsInjective
  <1>6. QED BY <1>1, <1>3, <1>4, <1>5 DEF r

(* The costs of more callbacks are no less. *)
LEMMA CostsAdd ==
    ASSUME NEW S \in SUBSET Timers
    PROVE  /\ TotalCost[S] \in Nat
           /\ \A T \in SUBSET S : TotalCost[T] <= TotalCost[S]
           /\ \A t \in Timers \ S : TotalCost[S \cup {t}] = TotalCost[S] + Cost[t]
  <1>1. \A T \in SUBSET Timers : TotalCost[T] \in Nat
    BY TimerAssumption
  <1>2. ASSUME NEW T \in SUBSET S PROVE TotalCost[T] <= TotalCost[S]
    <2>1. T \in SUBSET Timers /\ S \ T \in SUBSET Timers /\ T \cap (S \ T) = {}
          /\ T \cup (S \ T) = S
      OBVIOUS
    <2>2. TotalCost[T \cup (S \ T)] = TotalCost[T] + TotalCost[S \ T]
      BY <2>1, TimerAssumption
    <2>3. TotalCost[S] = TotalCost[T] + TotalCost[S \ T]
      BY <2>1, <2>2
    <2>4. QED BY <1>1, <2>1, <2>3
  <1>3. ASSUME NEW t \in Timers \ S
        PROVE  TotalCost[S \cup {t}] = TotalCost[S] + Cost[t]
    <2>1. {t} \in SUBSET Timers /\ S \cap {t} = {}
      OBVIOUS
    <2>2. TotalCost[S \cup {t}] = TotalCost[S] + TotalCost[{t}]
      BY <2>1, TimerAssumption
    <2>3. QED BY <2>2, TimerAssumption
  <1>4. QED BY <1>1, <1>2, <1>3

(* The bounds on the delays. *)
LEMMA Bounds ==
    ASSUME NEW t \in Timers
    PROVE  /\ Wait[t] \in Nat /\ Wait[t] > 0 /\ Cost[t] \in Nat
           /\ Granularity \in Nat /\ Granularity > 0
           /\ CostOfOthers(t) \in Nat /\ Overrun(t) \in Nat
           /\ t \in Looping => Wait[t] - Cost[t] >= -Overrun(t)
           /\ Rested(t) \in Int /\ Rested(t) <= 0
           /\ Rested(t) <= -CostOfOthers(t)
           /\ Rested(t) = -Overrun(t) - CostOfOthers(t)
           /\ -MaxLate(t) = Rested(t) - Granularity - CostOfOthers(t)
           /\ Overdue \in Nat
  <1>1. Wait[t] \in Nat /\ Wait[t] > 0 /\ Cost[t] \in Nat /\ Granularity \in Nat
        /\ Granularity > 0 /\ Overdue \in Nat
    BY TimerAssumption
  <1>2. CostOfOthers(t) \in Nat
    BY TimerAssumption DEF CostOfOthers
  <1>3. Overrun(t) \in Nat /\ (t \in Looping => Wait[t] - Cost[t] >= -Overrun(t))
    BY <1>1 DEF Overrun
  <1>4. QED BY <1>1, <1>2, <1>3 DEF Rested, MaxLate
-----------------------------------------------------------------------------
(* Each action keeps the invariant.                                        *)

LEMMA TimersStart ==
    ASSUME NEW added \in Seq(Timers), IsInjective(added), TimerInit(added)
    PROVE  IInv /\ Range(list) = Range(added)
  <1>1. Range(added) \subseteq Timers
    BY DEF Range
  <1>2. Wait \in [Timers -> Nat \ {0}] /\ None \notin Timers /\ Granularity \in Nat
    BY TimerAssumption
  <1> DEFINE l == [t \in Range(added) |-> Wait[t]]
  <1>3. l \in [Range(added) -> Int] /\ \A t \in Range(added) : l[t] = Wait[t]
    BY <1>1, <1>2
  <1>4. left = l /\ list \in ByTrigger(added, Wait)
    BY DEF TimerInit
  <1>0. /\ mutex = "free" /\ pc = "unstarted" /\ adding = None
        /\ at = 1 /\ since = 0 /\ elapsed = 0 /\ sleep = 0
    BY DEF TimerInit
  <1>5. list \in ByTrigger(added, l)
    BY <1>3, <1>4 DEF ByTrigger
  <1> HIDE DEF l
  <1>6. /\ list \in Seq(Timers) /\ IsInjective(list) /\ Range(list) = Range(added)
        /\ \A i, j \in DOMAIN list : i < j => l[list[i]] <= l[list[j]]
    BY <1>3, <1>5, SortOrders
  <1>7. TimerTypeOK
    BY <1>3, <1>4, <1>6 DEF TimerTypeOK, TimerInit
  <1>8. Consistent
    <2>1. at = 1 /\ Len(list) \in Nat /\ DOMAIN list = 1 .. Len(list)
      BY <1>0, <1>6
    <2>2. QED BY <2>1, <1>2, <1>0 DEF Consistent, TimerInit, Places
  <1>9. SortedAhead
    BY <1>4, <1>6 DEF SortedAhead, Places
  <1>10. Timely
    <2>1. PassTime
      <3>1. TotalCost[Timers \ Ahead] \in Nat
        BY CostsAdd
      <3>2. QED BY <3>1, <1>0 DEF PassTime
    <2>2. ASSUME NEW i \in Places PROVE InTime(i)
      <3>1. list[i] \in Timers /\ left[list[i]] = Wait[list[i]]
        BY <1>1, <1>3, <1>4, <1>6 DEF Places, Range
      <3>2. /\ Wait[list[i]] \in Nat /\ Granularity \in Nat
            /\ Rested(list[i]) \in Int /\ Rested(list[i]) <= 0
        BY <3>1, Bounds
      <3>3. left[list[i]] >= Rested(list[i]) - Granularity
        BY <3>1, <3>2
      <3>4. QED BY <3>3, <1>0 DEF InTime
    <2>3. QED BY <2>1, <2>2 DEF Timely
  <1>11. QED BY <1>6, <1>7, <1>8, <1>9, <1>10 DEF IInv

(* What the invariant says of a timer in the list. *)
LEMMA Listed ==
    ASSUME IInv
    PROVE  /\ Len(list) \in Nat /\ Places = 1 .. Len(list) /\ DOMAIN list = Places
           /\ Range(list) \subseteq Timers
           /\ \A i \in Places : list[i] \in Timers /\ list[i] \in Range(list)
                                /\ left[list[i]] \in Int
           /\ \A i, j \in Places : list[i] = list[j] => i = j
           /\ Ahead \in SUBSET Timers
           /\ TotalCost[Timers \ Ahead] \in Nat
  <1>1. list \in Seq(Timers) /\ IsInjective(list) /\ left \in [Range(list) -> Int]
    BY DEF IInv, TimerTypeOK
  <1>2. Len(list) \in Nat /\ Places = 1 .. Len(list) /\ DOMAIN list = Places
    BY <1>1 DEF Places
  <1>3. \A i \in Places : list[i] \in Timers /\ list[i] \in Range(list)
    BY <1>1, <1>2 DEF Range
  <1>4. Range(list) \subseteq Timers
    BY <1>2, <1>3 DEF Range
  <1>5. Ahead \in SUBSET Timers
    BY <1>3 DEF Ahead
  <1>6. TotalCost[Timers \ Ahead] \in Nat
    BY CostsAdd
  <1>7. QED BY <1>1, <1>2, <1>3, <1>4, <1>5, <1>6 DEF IsInjective

LEMMA RunKeeps ==
    ASSUME IInv, Run
    PROVE  IInv'
  <1>1. TimerTypeOK'
    BY DEF IInv, TimerTypeOK, Run
  <1>2. Consistent'
    BY Listed DEF IInv, TimerTypeOK, Consistent, Places, Run
  <1>3. SortedAhead'
    BY DEF IInv, SortedAhead, Places, Run
  <1>4. Timely'
    <2> SUFFICES ASSUME pc' # "ended", ~spinning'
                 PROVE  PassTime' /\ \A i \in Places' : InTime(i)'
      BY DEF Timely
    <2>1. Places' = Places /\ Ahead' = Ahead
      BY DEF Places, Ahead, Run
    <2>2. PassTime /\ \A i \in Places : InTime(i)
      BY DEF IInv, Timely, Run
    <2>3. PassTime'
      BY <2>1, <2>2 DEF PassTime, Run
    <2>4. ASSUME NEW i \in Places PROVE InTime(i)'
      BY <2>2, Listed, Bounds DEF InTime, Run
    <2>5. QED BY <2>1, <2>3, <2>4
  <1>5. QED BY <1>1, <1>2, <1>3, <1>4 DEF IInv

LEMMA RunReturnsKeeps ==
    ASSUME IInv, RunReturns
    PROVE  IInv'
  <1>1. TimerTypeOK'
    BY DEF IInv, TimerTypeOK, RunReturns
  <1>2. Consistent'
    BY Listed DEF IInv, TimerTypeOK, Consistent, Places, RunReturns
  <1>3. SortedAhead'
    BY DEF IInv, SortedAhead, Places, RunReturns
  <1>4. Timely'
    <2> SUFFICES ASSUME pc' # "ended", ~spinning'
                 PROVE  PassTime' /\ \A i \in Places' : InTime(i)'
      BY DEF Timely
    <2>1. Places' = Places /\ Ahead' = Ahead
      BY DEF Places, Ahead, RunReturns
    <2>2. PassTime /\ \A i \in Places : InTime(i)
      BY DEF IInv, Timely, RunReturns
    <2>3. PassTime'
      BY <2>1, <2>2 DEF PassTime, RunReturns
    <2>4. ASSUME NEW i \in Places PROVE InTime(i)'
      BY <2>2, Listed, Bounds DEF InTime, RunReturns
    <2>5. QED BY <2>1, <2>3, <2>4
  <1>5. QED BY <1>1, <1>2, <1>3, <1>4 DEF IInv

LEMMA RunLoopsKeeps ==
    ASSUME IInv, RunLoops
    PROVE  IInv'
  <1>1. TimerTypeOK'
    BY DEF IInv, TimerTypeOK, RunLoops
  <1>2. Consistent'
    BY Listed DEF IInv, TimerTypeOK, Consistent, Places, RunLoops
  <1>3. SortedAhead'
    BY DEF IInv, SortedAhead, Places, RunLoops
  <1>4. Timely'
    <2> SUFFICES ASSUME pc' # "ended", ~spinning'
                 PROVE  PassTime' /\ \A i \in Places' : InTime(i)'
      BY DEF Timely
    <2>1. Places' = Places /\ Ahead' = Ahead
      BY DEF Places, Ahead, RunLoops
    <2>2. PassTime /\ \A i \in Places : InTime(i)
      BY DEF IInv, Timely, RunLoops
    <2>3. PassTime'
      BY <2>1, <2>2 DEF PassTime, RunLoops
    <2>4. ASSUME NEW i \in Places PROVE InTime(i)'
      BY <2>2, Listed, Bounds DEF InTime, RunLoops
    <2>5. QED BY <2>1, <2>3, <2>4
  <1>5. QED BY <1>1, <1>2, <1>3, <1>4 DEF IInv

LEMMA RunOnceKeeps ==
    ASSUME IInv, RunOnce
    PROVE  IInv'
  <1>1. TimerTypeOK'
    BY DEF IInv, TimerTypeOK, RunOnce
  <1>2. Consistent'
    BY Listed DEF IInv, TimerTypeOK, Consistent, Places, RunOnce
  <1>3. SortedAhead'
    BY DEF IInv, SortedAhead, Places, RunOnce
  <1>4. Timely'
    <2> SUFFICES ASSUME pc' # "ended", ~spinning'
                 PROVE  PassTime' /\ \A i \in Places' : InTime(i)'
      BY DEF Timely
    <2>1. Places' = Places /\ Ahead' = Ahead
      BY DEF Places, Ahead, RunOnce
    <2>2. PassTime /\ \A i \in Places : InTime(i)
      BY DEF IInv, Timely, RunOnce
    <2>3. PassTime'
      BY <2>1, <2>2 DEF PassTime, RunOnce
    <2>4. ASSUME NEW i \in Places PROVE InTime(i)'
      <3>1. at = 1 /\ since = 0 /\ i >= 1
        BY Listed DEF IInv, Consistent, RunOnce
      <3>2. QED BY <2>2, <3>1, Listed, Bounds DEF InTime, RunOnce
    <2>5. QED BY <2>1, <2>3, <2>4
  <1>5. QED BY <1>1, <1>2, <1>3, <1>4 DEF IInv

LEMMA CallbackStartsKeeps ==
    ASSUME IInv, CallbackStarts
    PROVE  IInv'
  <1>1. TimerTypeOK'
    BY DEF IInv, TimerTypeOK, CallbackStarts
  <1>2. Consistent'
    BY Listed DEF IInv, TimerTypeOK, Consistent, Places, CallbackStarts
  <1>3. SortedAhead'
    BY DEF IInv, SortedAhead, Places, CallbackStarts
  <1>4. Timely'
    <2> SUFFICES ASSUME pc' # "ended", ~spinning'
                 PROVE  PassTime' /\ \A i \in Places' : InTime(i)'
      BY DEF Timely
    <2>1. Places' = Places /\ Ahead' = Ahead
      BY DEF Places, Ahead, CallbackStarts
    <2>2. PassTime /\ \A i \in Places : InTime(i)
      BY DEF IInv, Timely, CallbackStarts
    <2>3. PassTime'
      <3>1. elapsed = 0 /\ at \in Places /\ list[at] \in Timers
        BY Listed DEF IInv, Consistent, CallbackStarts
      <3>2. Cost[list[at]] \in Nat
        BY <3>1, Bounds
      <3>3. UNCHANGED <<list, at, since, elapsed>>
        BY DEF CallbackStarts
      <3>4. QED BY <2>1, <2>2, <3>1, <3>2, <3>3 DEF PassTime
    <2>4. ASSUME NEW i \in Places PROVE InTime(i)'
      BY <2>2, Listed, Bounds DEF InTime, CallbackStarts
    <2>5. QED BY <2>1, <2>3, <2>4
  <1>5. QED BY <1>1, <1>2, <1>3, <1>4 DEF IInv

LEMMA SleepsABit ==
    ASSUME IInv, NEW n \in SleepAmounts
    PROVE  n \in Nat /\ n <= Granularity
  <1>1. Granularity \in Nat /\ Granularity > 0
    BY TimerAssumption
  <1>2. CASE adding # None
    BY <1>1, <1>2 DEF SleepAmounts
  <1>3. CASE adding = None /\ list = <<>>
    BY <1>1, <1>3 DEF SleepAmounts
  <1>4. CASE adding = None /\ list # <<>>
    <2>1. list \in Seq(Timers) /\ 1 \in Places /\ Head(list) = list[1]
      <3>1. list \in Seq(Timers)
        BY DEF IInv, TimerTypeOK
      <3>2. QED BY <3>1, <1>4 DEF Places
    <2>2. left[Head(list)] \in Int
      BY <2>1, Listed
    <2>3. n = Clamped(left[Head(list)])
      BY <1>4 DEF SleepAmounts
    <2>4. QED BY <1>1, <2>2, <2>3 DEF Clamped
  <1>5. QED BY <1>2, <1>3, <1>4

LEMMA FallsAsleepKeeps ==
    ASSUME IInv, FallsAsleep
    PROVE  IInv'
  <1>0. sleep' \in Nat /\ sleep' <= Granularity
    BY SleepsABit DEF FallsAsleep
  <1>1. TimerTypeOK'
    BY <1>0 DEF IInv, TimerTypeOK, FallsAsleep
  <1>2. Consistent'
    BY <1>0, Listed DEF IInv, TimerTypeOK, Consistent, Places, FallsAsleep
  <1>3. SortedAhead'
    BY DEF IInv, SortedAhead, Places, FallsAsleep
  <1>4. Timely'
    <2> SUFFICES ASSUME pc' # "ended", ~spinning'
                 PROVE  PassTime' /\ \A i \in Places' : InTime(i)'
      BY DEF Timely
    <2>1. Places' = Places /\ Ahead' = Ahead
      BY DEF Places, Ahead, FallsAsleep
    <2>2. PassTime /\ \A i \in Places : InTime(i)
      BY DEF IInv, Timely, FallsAsleep
    <2>3. PassTime'
      BY <2>1, <2>2 DEF PassTime, FallsAsleep
    <2>4. ASSUME NEW i \in Places PROVE InTime(i)'
      <3>1. /\ pc = "unlocked" /\ pc' = "asleep" /\ left' = left /\ list' = list
            /\ Rested(list[i]) \in Int /\ Granularity \in Nat /\ left[list[i]] \in Int
        BY Listed, Bounds DEF FallsAsleep
      <3>2. left[list[i]] >= Rested(list[i])
        BY <3>1, <2>2 DEF InTime
      <3>3. left[list[i]] - sleep' >= Rested(list[i]) - Granularity
        BY <3>1, <3>2, <1>0
      <3>4. QED BY <3>1, <3>3 DEF InTime
    <2>5. QED BY <2>1, <2>3, <2>4
  <1>5. QED BY <1>1, <1>2, <1>3, <1>4 DEF IInv

LEMMA WakesUpKeeps ==
    ASSUME IInv, WakesUp
    PROVE  IInv'
  <1>1. TimerTypeOK'
    BY DEF IInv, TimerTypeOK, WakesUp
  <1>2. Consistent'
    BY Listed DEF IInv, TimerTypeOK, Consistent, Places, WakesUp
  <1>3. SortedAhead'
    BY DEF IInv, SortedAhead, Places, WakesUp
  <1>4. Timely'
    <2> SUFFICES ASSUME pc' # "ended", ~spinning'
                 PROVE  PassTime' /\ \A i \in Places' : InTime(i)'
      BY DEF Timely
    <2>1. Places' = Places /\ Ahead' = Ahead
      BY DEF Places, Ahead, WakesUp
    <2>2. PassTime /\ \A i \in Places : InTime(i)
      BY DEF IInv, Timely, WakesUp
    <2>3. PassTime'
      BY <2>1, <2>2 DEF PassTime, WakesUp
    <2>4. ASSUME NEW i \in Places PROVE InTime(i)'
      BY <2>2, Listed, Bounds DEF InTime, WakesUp
    <2>5. QED BY <2>1, <2>3, <2>4
  <1>5. QED BY <1>1, <1>2, <1>3, <1>4 DEF IInv

LEMMA StopKeeps ==
    ASSUME IInv, Stop
    PROVE  IInv'
  <1>1. TimerTypeOK'
    BY DEF IInv, TimerTypeOK, Stop, runnerVars
  <1>2. Consistent'
    BY Listed DEF IInv, TimerTypeOK, Consistent, Places, Stop, runnerVars
  <1>3. SortedAhead'
    BY DEF IInv, SortedAhead, Places, Stop, runnerVars
  <1>4. Timely'
    <2> SUFFICES ASSUME pc' # "ended", ~spinning'
                 PROVE  PassTime' /\ \A i \in Places' : InTime(i)'
      BY DEF Timely
    <2>1. Places' = Places /\ Ahead' = Ahead
      BY DEF Places, Ahead, Stop, runnerVars
    <2>2. PassTime /\ \A i \in Places : InTime(i)
      BY DEF IInv, Timely, Stop, runnerVars
    <2>3. PassTime'
      BY <2>1, <2>2 DEF PassTime, Stop, runnerVars
    <2>4. ASSUME NEW i \in Places PROVE InTime(i)'
      BY <2>2, Listed, Bounds DEF InTime, Stop, runnerVars
    <2>5. QED BY <2>1, <2>3, <2>4
  <1>5. QED BY <1>1, <1>2, <1>3, <1>4 DEF IInv

LEMMA TimersRest ==
    ASSUME IInv, UNCHANGED timerVars
    PROVE  IInv'
  <1>1. TimerTypeOK'
    BY DEF IInv, TimerTypeOK, timerVars
  <1>2. Consistent'
    BY Listed DEF IInv, TimerTypeOK, Consistent, Places, timerVars
  <1>3. SortedAhead'
    BY DEF IInv, SortedAhead, Places, timerVars
  <1>4. Timely'
    <2> SUFFICES ASSUME pc' # "ended", ~spinning'
                 PROVE  PassTime' /\ \A i \in Places' : InTime(i)'
      BY DEF Timely
    <2>1. Places' = Places /\ Ahead' = Ahead
      BY DEF Places, Ahead, timerVars
    <2>2. PassTime /\ \A i \in Places : InTime(i)
      BY DEF IInv, Timely, timerVars
    <2>3. PassTime'
      BY <2>1, <2>2 DEF PassTime, timerVars
    <2>4. ASSUME NEW i \in Places PROVE InTime(i)'
      BY <2>2, Listed, Bounds DEF InTime, timerVars
    <2>5. QED BY <2>1, <2>3, <2>4
  <1>5. QED BY <1>1, <1>2, <1>3, <1>4 DEF IInv

LEMMA AddLocksKeeps ==
    ASSUME IInv, NEW t \in Timers, AddLocks(t)
    PROVE  IInv'
  <1>1. TimerTypeOK'
    BY DEF IInv, TimerTypeOK, AddLocks, runnerVars
  <1>2. Consistent'
    BY Listed, TimerAssumption DEF IInv, TimerTypeOK, Consistent, Places, AddLocks, runnerVars
  <1>3. SortedAhead'
    BY DEF IInv, SortedAhead, Places, AddLocks, runnerVars
  <1>4. Timely'
    <2> SUFFICES ASSUME pc' # "ended", ~spinning'
                 PROVE  PassTime' /\ \A i \in Places' : InTime(i)'
      BY DEF Timely
    <2>1. Places' = Places /\ Ahead' = Ahead
      BY DEF Places, Ahead, AddLocks, runnerVars
    <2>2. PassTime /\ \A i \in Places : InTime(i)
      BY DEF IInv, Timely, AddLocks, runnerVars
    <2>3. PassTime'
      BY <2>1, <2>2 DEF PassTime, AddLocks, runnerVars
    <2>4. ASSUME NEW i \in Places PROVE InTime(i)'
      BY <2>2, Listed, Bounds DEF InTime, AddLocks, runnerVars
    <2>5. QED BY <2>1, <2>3, <2>4
  <1>5. QED BY <1>1, <1>2, <1>3, <1>4 DEF IInv

(* The callback of a looping timer has put it behind the pass; any other   *)
(* is taken out of the list.                                               *)
LEMMA CallbackReturnsKeeps ==
    ASSUME IInv, CallbackReturns
    PROVE  IInv'
  <1> DEFINE t == list[at]
             n == Len(list)
  <1>1. /\ pc = "callback" /\ mutex = "runner" /\ at \in Places /\ updated /\ sleep <= Granularity
        /\ adding = None /\ ~spinning
        /\ \A i \in Places : i < at => list[i] \in Looping
    BY Listed DEF IInv, Consistent, TimerTypeOK, CallbackReturns
  <1>2. PassTime /\ \A i \in Places : InTime(i)
    BY <1>1 DEF IInv, Timely
  <1>3. /\ pc' = "walk" /\ elapsed' = 0
        /\ UNCHANGED <<mutex, since, updated, sleep, running, adding, spinning>>
    BY DEF CallbackReturns
  <1>4. /\ list \in Seq(Timers) /\ IsInjective(list) /\ left \in [Range(list) -> Int]
        /\ elapsed \in Nat /\ since \in Nat /\ at \in Nat /\ at >= 1
    BY <1>1, Listed DEF IInv, TimerTypeOK
  <1>5. /\ n \in Nat /\ Places = 1 .. n /\ t \in Timers /\ t \in Range(list)
        /\ \A i \in Places : list[i] \in Timers /\ left[list[i]] \in Int
        /\ \A i, j \in Places : list[i] = list[j] => i = j
    BY <1>1, Listed
  <1>6. Wait[t] \in Nat /\ Cost[t] \in Nat /\ elapsed <= Cost[t] /\ elapsed <= since
    BY <1>1, <1>2, <1>5, Bounds DEF PassTime
  <1>7. \A i, j \in Places : at <= i /\ i < j => left[list[i]] <= left[list[j]]
    BY DEF IInv, SortedAhead
  <1>8. \A i \in Places : left[list[i]] + since >=
                            IF i < at THEN Wait[list[i]] ELSE Rested(list[i]) - Granularity
    BY <1>1, <1>2 DEF InTime
  <1>9. Ahead = {list[i] : i \in {j \in Places : at <= j}}
    BY DEF Ahead
  <1>10. Timers \ (Ahead \ {t}) = (Timers \ Ahead) \cup {t} /\ t \in Ahead
    BY <1>1, <1>5, <1>9
  <1>11. TotalCost[Timers \ (Ahead \ {t})] = TotalCost[Timers \ Ahead] + Cost[t]
    BY <1>5, <1>10, CostsAdd
  <1>12. since <= TotalCost[Timers \ (Ahead \ {t})]
    BY <1>2, <1>4, <1>6, <1>11, Listed DEF PassTime
  <1>13. Ahead' = Ahead \ {t} => PassTime'
    <2> SUFFICES ASSUME Ahead' = Ahead \ {t} PROVE PassTime'
      OBVIOUS
    <2>1. since' = since /\ elapsed' = 0 /\ pc' # "callback"
      BY <1>3
    <2>2. TotalCost[Timers \ (Ahead \ {t})] \in Nat
      BY <1>5, CostsAdd
    <2>3. QED BY <2>1, <2>2, <1>12, <1>4 DEF PassTime
  <1>14. CASE t \in Looping
    <2>1. /\ left' = [left EXCEPT ![t] = Wait[t] - elapsed]
          /\ at' = at + 1 /\ list' = list
      BY <1>14 DEF CallbackReturns
    <2>2. /\ left' \in [Range(list) -> Int] /\ left'[t] = Wait[t] - elapsed
          /\ \A i \in Places : i # at => left'[list[i]] = left[list[i]]
      <3>1. Wait[t] - elapsed \in Int
        BY <1>4, <1>6
      <3>2. /\ left' \in [Range(list) -> Int] /\ left'[t] = Wait[t] - elapsed
            /\ \A u \in Range(list) : u # t => left'[u] = left[u]
        BY <2>1, <3>1, <1>4, <1>5
      <3>3. ASSUME NEW i \in Places, i # at
            PROVE  list[i] \in Range(list) /\ list[i] # t
        <4>1. list[i] \in Range(list)
          BY DEF Range, Places
        <4>2. list[i] # t
          BY <3>3, <1>1, <1>5
        <4>3. QED BY <4>1, <4>2
      <3>4. QED BY <3>2, <3>3
    <2>3. TimerTypeOK'
      BY <2>1, <2>2, <1>1, <1>3, <1>4 DEF IInv, TimerTypeOK
    <2>4. Places' = Places
      BY <2>1 DEF Places
    <2>5. Consistent'
      BY <2>1, <2>4, <1>1, <1>3, <1>4, <1>5, <1>14 DEF Consistent
    <2>6. SortedAhead'
      BY <2>1, <2>2, <2>4, <1>4, <1>5, <1>7 DEF SortedAhead
    <2>7. Ahead' = Ahead \ {t}
      <3>1. Ahead' = {list[i] : i \in {j \in Places : at + 1 <= j}}
        BY <2>1, <2>4 DEF Ahead
      <3>2. \A i \in Places : at + 1 <= i <=> at <= i /\ i # at
        BY <1>4, <1>5
      <3>3. ASSUME NEW u \in Ahead' PROVE u \in Ahead \ {t}
        BY <3>1, <3>2, <1>1, <1>5, <1>9
      <3>4. ASSUME NEW u \in Ahead \ {t} PROVE u \in Ahead'
        BY <3>1, <3>2, <1>9
      <3>5. QED BY <3>3, <3>4
    <2>8. ASSUME NEW i \in Places PROVE InTime(i)'
      <3>1. CASE i = at
        <4>1. left'[t] + since >= Wait[t]
          BY <2>2, <1>4, <1>6
        <4>2. i < at'
          BY <3>1, <2>1, <1>4
        <4>3. QED BY <3>1, <4>1, <4>2, <2>1, <1>3 DEF InTime
      <3>2. CASE i # at
        <4>1. i < at' <=> i < at
          BY <3>2, <2>1, <1>4, <1>5
        <4>2. left'[list[i]] = left[list[i]]
          BY <3>2, <2>2
        <4>3. QED BY <4>1, <4>2, <2>1, <1>3, <1>8 DEF InTime
      <3>3. QED BY <3>1, <3>2
    <2>9. Timely'
      BY <2>4, <2>7, <2>8, <1>13 DEF Timely
    <2>10. QED BY <2>3, <2>5, <2>6, <2>9 DEF IInv
  <1>15. CASE t \notin Looping
    <2>1. list' = RemoveAt(list, at) /\ left' = Without(left, t) /\ at' = at
      BY <1>15 DEF CallbackReturns
    <2>2. /\ list' \in Seq(Timers) /\ Len(list') = n - 1 /\ DOMAIN list' = 1 .. n - 1
          /\ \A i \in 1 .. n - 1 : list'[i] = IF i < at THEN list[i] ELSE list[i + 1]
          /\ IsInjective(list') /\ Range(list') = Range(list) \ {t}
      <3>1. at \in 1 .. Len(list)
        BY <1>1, <1>5
      <3>2. PICK r : r = RemoveAt(list, at)
        OBVIOUS
      <3>3. /\ r \in Seq(Timers) /\ Len(r) = n - 1 /\ DOMAIN r = 1 .. n - 1
            /\ \A i \in 1 .. n - 1 : r[i] = IF i < at THEN list[i] ELSE list[i + 1]
            /\ IsInjective(r) /\ Range(r) = Range(list) \ {t}
        BY <3>1, <3>2, <1>4, RemovedFrom
      <3>4. list' = r
        BY <2>1, <3>2
      <3>5. QED BY <3>3, <3>4
    <2>3. Places' = 1 .. n - 1
      BY <2>2 DEF Places
    <2>4. /\ left' \in [Range(list') -> Int]
          /\ \A u \in Range(list') : left'[u] = left[u]
      BY <2>1, <2>2, <1>4 DEF Without, Restrict
    <2>5. ASSUME NEW i \in 1 .. n - 1
          PROVE  /\ list'[i] \in Range(list') /\ left'[list'[i]] = left[list'[i]]
                 /\ i < at => i \in Places /\ list'[i] = list[i]
                 /\ i >= at => i + 1 \in Places /\ i + 1 > at /\ list'[i] = list[i + 1]
      <3>1. list'[i] \in Range(list')
        BY <2>2 DEF Range
      <3>2. QED BY <3>1, <2>2, <2>4, <1>4, <1>5
    <2>6. TimerTypeOK'
      BY <2>1, <2>2, <2>4, <1>1, <1>3, <1>4 DEF IInv, TimerTypeOK
    <2>7. Consistent'
      BY <2>1, <2>2, <2>3, <2>5, <1>1, <1>3, <1>4, <1>5 DEF Consistent
    <2>8. SortedAhead'
      <3> SUFFICES ASSUME NEW i \in 1 .. n - 1, NEW j \in 1 .. n - 1, at <= i, i < j
                   PROVE  left'[list'[i]] <= left'[list'[j]]
        BY <2>1, <2>3 DEF SortedAhead
      <3>1. i >= at /\ j >= at /\ at <= i + 1 /\ i + 1 < j + 1
        BY <1>4
      <3>2. QED BY <3>1, <2>5, <1>7
    <2>9. Ahead' = Ahead \ {t}
      <3>1. ASSUME NEW u \in Ahead' PROVE u \in Ahead \ {t}
        <4>1. PICK i \in 1 .. n - 1 : u = list'[i] /\ at <= i
          BY <2>1, <2>3 DEF Ahead
        <4>2. u = list[i + 1] /\ i + 1 \in Places /\ i + 1 > at
          BY <4>1, <2>5, <1>4
        <4>3. QED BY <4>1, <4>2, <1>1, <1>4, <1>5, <1>9
      <3>2. ASSUME NEW u \in Ahead \ {t} PROVE u \in Ahead'
        <4>1. PICK i \in Places : u = list[i] /\ at <= i /\ i # at
          BY <1>9
        <4>2. PICK j \in 1 .. n - 1 : j = i - 1 /\ at <= j
          BY <4>1, <1>4, <1>5
        <4>3. list'[j] = u
          BY <4>1, <4>2, <2>5, <1>4, <1>5
        <4>4. QED BY <4>2, <4>3, <2>1, <2>3 DEF Ahead
      <3>3. QED BY <3>1, <3>2
    <2>10. ASSUME NEW i \in 1 .. n - 1 PROVE InTime(i)'
      <3>1. CASE i < at
        BY <3>1, <2>1, <2>5, <1>3, <1>8 DEF InTime
      <3>2. CASE i >= at
        BY <3>2, <2>1, <2>5, <1>3, <1>4, <1>5, <1>8 DEF InTime
      <3>3. QED BY <3>1, <3>2, <1>4
    <2>11. Timely'
      BY <2>3, <2>9, <2>10, <1>13 DEF Timely
    <2>12. QED BY <2>6, <2>7, <2>8, <2>11 DEF IInv
  <1>16. QED BY <1>14, <1>15

(* A pass takes no longer than the callbacks, and leaves nothing due.      *)
LEMMA PassEndsKeeps ==
    ASSUME IInv, PassEnds
    PROVE  IInv'
  <1>1. /\ pc = "walk" /\ mutex = "runner" /\ elapsed = 0 /\ adding = None /\ ~spinning
        /\ sleep <= Granularity /\ (~updated => at = 1)
        /\ \A i \in Places : i < at => list[i] \in Looping
    BY Listed DEF IInv, Consistent, TimerTypeOK, PassEnds
  <1>2. /\ pc' = "unlocked" /\ mutex' = "free" /\ at' = 1 /\ since' = 0 /\ ~updated'
        /\ UNCHANGED <<left, elapsed, sleep, running, adding, spinning>>
    BY DEF PassEnds
  <1>3. /\ list \in Seq(Timers) /\ IsInjective(list) /\ left \in [Range(list) -> Int]
        /\ since \in Nat /\ sleep \in Nat /\ running \in BOOLEAN
        /\ at \in Nat /\ at >= 1 /\ at <= Len(list) + 1
    BY Listed DEF IInv, TimerTypeOK, Consistent
  <1>4. \A i, j \in Places : at <= i /\ i < j => left[list[i]] <= left[list[j]]
    BY DEF IInv, SortedAhead
  <1>5. /\ list' \in Seq(Timers) /\ IsInjective(list') /\ Range(list') = Range(list)
        /\ \A i, j \in DOMAIN list' : i < j => left[list'[i]] <= left[list'[j]]
    <2>1. PICK r : /\ r \in IF updated THEN ByTrigger(list, left) ELSE {list}
                   /\ list' = r
      BY DEF PassEnds
    <2>2. CASE updated
      <3>1. r \in ByTrigger(list, left)
        BY <2>1, <2>2
      <3>2. QED BY <2>1, <3>1, <1>3, SortOrders
    <2>3. CASE ~updated
      <3>1. r = list /\ at = 1
        BY <2>1, <2>3, <1>1
      <3>2. QED BY <2>1, <3>1, <1>3, <1>4, Listed
    <2>4. QED BY <2>2, <2>3
  <1>6. ASSUME NEW t \in Range(list) PROVE left[t] >= Rested(t)
    <2>1. PICK i \in Places : t = list[i]
      BY DEF Range, Places
    <2>2. /\ left[t] \in Int /\ t \in Timers /\ i \in Nat /\ i <= Len(list) /\ Len(list) \in Nat
      BY <2>1, Listed
    <2>3. since <= TotalCost[Timers \ Ahead] /\ TotalCost[Timers \ Ahead] \in Nat
      BY <1>1, <1>3, Listed DEF IInv, Timely, PassTime
    <2>4. CASE i < at
      <3>1. left[t] + since >= Wait[t] /\ t \in Looping
        BY <2>1, <2>4, <1>1 DEF IInv, Timely, InTime
      <3>2. TotalCost[Timers \ Ahead] <= CostOfOthers(t) + Cost[t]
        <4>1. Timers \ {t} \in SUBSET Timers /\ (Timers \ {t}) \cup {t} = Timers
          BY <2>2
        <4>2. TotalCost[(Timers \ {t}) \cup {t}] = TotalCost[Timers \ {t}] + Cost[t]
          BY <4>1, <2>2, CostsAdd
        <4>3. TotalCost[Timers \ Ahead] <= TotalCost[Timers]
          BY CostsAdd
        <4>4. QED BY <4>1, <4>2, <4>3 DEF CostOfOthers
      <3>3. /\ Wait[t] \in Nat /\ Cost[t] \in Nat /\ CostOfOthers(t) \in Nat
            /\ Wait[t] - Cost[t] >= -Overrun(t) /\ Overrun(t) \in Nat
            /\ Rested(t) = -Overrun(t) - CostOfOthers(t)
        BY <2>2, <3>1, Bounds
      <3>4. left[t] >= (Wait[t] - Cost[t]) - CostOfOthers(t)
        <4>1. PICK w, c, o, all \in Nat : /\ w = Wait[t] /\ c = Cost[t]
                                         /\ o = CostOfOthers(t)
                                         /\ all = TotalCost[Timers \ Ahead]
          BY <3>3, <2>3
        <4>2. left[t] + since >= w /\ since <= all /\ all <= o + c
          BY <4>1, <3>1, <3>2, <2>3
        <4>3. left[t] \in Int /\ since \in Nat
          BY <2>2, <1>3
        <4>4. left[t] >= (w - c) - o
          BY <4>2, <4>3
        <4>5. QED BY <4>1, <4>4
      <3>5. PICK e, o \in Nat : e = Overrun(t) /\ o = CostOfOthers(t)
        BY <3>3
      <3>6. PICK d \in Int : d = Wait[t] - Cost[t]
        BY <3>3
      <3>7. d >= -e /\ left[t] >= d - o /\ Rested(t) = -e - o
        BY <3>3, <3>4, <3>5, <3>6
      <3>8. QED BY <3>7, <2>2
    <2>5. CASE i >= at
      <3>1. at \in Places /\ ~IsDue(list[at]) /\ left[list[at]] \in Int
        <4>1. at \in Places /\ at <= Len(list)
          BY <2>2, <2>5, <1>3, Listed
        <4>2. QED BY <4>1, Listed DEF PassEnds
      <3>2. left[list[at]] + since > 0 /\ left[list[at]] <= left[t]
        BY <3>1, <2>1, <2>2, <2>5, <1>3, <1>4 DEF IsDue
      <3>3. t \in Ahead
        BY <2>1, <2>5, <1>3 DEF Ahead
      <3>4. TotalCost[Timers \ Ahead] <= CostOfOthers(t)
        <4>1. Timers \ Ahead \in SUBSET (Timers \ {t}) /\ Timers \ {t} \in SUBSET Timers
          BY <3>3
        <4>2. QED BY <4>1, CostsAdd DEF CostOfOthers
      <3>5. /\ CostOfOthers(t) \in Nat /\ Overrun(t) \in Nat
            /\ Rested(t) = -Overrun(t) - CostOfOthers(t)
        BY <2>2, Bounds
      <3>6. PICK e, o, all \in Nat : /\ e = Overrun(t) /\ o = CostOfOthers(t)
                                     /\ all = TotalCost[Timers \ Ahead]
        BY <3>5, <2>3
      <3>7. since <= all /\ all <= o /\ Rested(t) = -e - o
        BY <3>4, <3>5, <3>6, <2>3
      <3>8. left[t] + since > 0
        BY <3>1, <3>2, <2>2, <1>3
      <3>9. QED BY <3>7, <3>8, <2>2, <1>3
    <2>6. QED BY <2>4, <2>5, <2>2, <1>3
  <1>7. TimerTypeOK'
    <2>1. left' \in [Range(list') -> Int]
      BY <1>2, <1>3, <1>5
    <2>2. /\ {updated', running', spinning'} \subseteq BOOLEAN
          /\ adding' \in Timers \cup {None} /\ elapsed' \in Nat
      BY DEF IInv, TimerTypeOK, PassEnds
    <2>3. QED BY <2>1, <2>2, <1>2, <1>3, <1>5 DEF TimerTypeOK
  <1>8. Consistent'
    <2>1. Len(list') \in Nat /\ DOMAIN list' = 1 .. Len(list')
      BY <1>5
    <2>2. QED BY <2>1, <1>1, <1>2 DEF Consistent, Places
  <1>9. SortedAhead'
    BY <1>2, <1>5 DEF SortedAhead, Places
  <1>10. Timely'
    <2>1. PassTime'
      <3>1. TotalCost[Timers \ Ahead'] \in Nat
        BY CostsAdd
      <3>2. since' = 0 /\ elapsed' = 0 /\ pc' # "callback"
        BY <1>1, <1>2
      <3>3. QED BY <3>1, <3>2 DEF PassTime
    <2>2. ASSUME NEW i \in Places' PROVE InTime(i)'
      <3>1. list'[i] \in Range(list)
        BY <1>5 DEF Places, Range
      <3>2. left'[list'[i]] >= Rested(list'[i])
        BY <3>1, <1>2, <1>6
      <3>3. QED BY <3>2, <1>2 DEF InTime
    <2>3. QED BY <2>1, <2>2 DEF Timely
  <1>11. QED BY <1>7, <1>8, <1>9, <1>10 DEF IInv

LEMMA AddUnlocksKeeps ==
    ASSUME IInv, AddUnlocks
    PROVE  IInv'
  <1>1. /\ adding \in Timers /\ adding \notin Range(list) /\ mutex = "other" /\ ~spinning
        /\ at = 1 /\ since = 0 /\ ~updated /\ elapsed = 0 /\ sleep <= Granularity
        /\ pc \notin {"walk", "callback"}
    <2>1. adding # None /\ adding \in Timers \cup {None} /\ mutex = "other"
      BY DEF IInv, TimerTypeOK, Consistent, AddUnlocks
    <2>2. QED BY <2>1 DEF IInv, TimerTypeOK, Consistent
  <1>2. /\ mutex' = "free" /\ adding' = None
        /\ UNCHANGED <<running, spinning, pc, at, since, elapsed, updated, sleep>>
    BY DEF AddUnlocks, runnerVars
  <1>3. /\ list \in Seq(Timers) /\ IsInjective(list) /\ left \in [Range(list) -> Int]
        /\ sleep \in Nat /\ running \in BOOLEAN
    BY DEF IInv, TimerTypeOK
  <1>4. /\ Append(list, adding) \in Seq(Timers) /\ IsInjective(Append(list, adding))
        /\ Range(Append(list, adding)) = Range(list) \cup {adding}
    BY <1>1, <1>3, AddedTo
  <1>5. Wait[adding] \in Nat /\ Wait[adding] > 0
    BY <1>1, Bounds
  <1>6. /\ left' \in [Range(list) \cup {adding} -> Int] /\ left'[adding] = Wait[adding]
        /\ \A t \in Range(list) : left'[t] = left[t]
    BY <1>1, <1>3, <1>5 DEF AddUnlocks
  <1>7. /\ list' \in Seq(Timers) /\ IsInjective(list')
        /\ Range(list') = Range(list) \cup {adding}
        /\ \A i, j \in DOMAIN list' : i < j => left'[list'[i]] <= left'[list'[j]]
    <2>1. PICK s, l : s = Append(list, adding) /\ l = left'
      OBVIOUS
    <2>2. list' \in ByTrigger(s, l)
      BY <2>1 DEF AddUnlocks
    <2>3. s \in Seq(Timers) /\ IsInjective(s) /\ l \in [Range(s) -> Int]
      BY <2>1, <1>4, <1>6
    <2>4. PICK r \in ByTrigger(s, l) : r = list'
      BY <2>2
    <2>5. /\ r \in Seq(Timers) /\ IsInjective(r) /\ Range(r) = Range(s)
          /\ \A i, j \in DOMAIN r : i < j => l[r[i]] <= l[r[j]]
      BY <2>3, SortOrders
    <2>6. QED BY <2>1, <2>4, <2>5, <1>4
  <1>8. TimerTypeOK'
    BY <1>1, <1>2, <1>3, <1>6, <1>7 DEF IInv, TimerTypeOK
  <1>9. Consistent'
    <2>1. Len(list') \in Nat /\ DOMAIN list' = 1 .. Len(list')
      BY <1>7
    <2>2. QED BY <2>1, <1>1, <1>2 DEF Consistent, Places
  <1>10. SortedAhead'
    BY <1>2, <1>7 DEF SortedAhead, Places
  <1>11. Timely'
    <2> SUFFICES ASSUME pc # "ended" PROVE PassTime' /\ \A i \in Places' : InTime(i)'
      BY <1>2 DEF Timely
    <2>1. PassTime'
      <3>1. TotalCost[Timers \ Ahead'] \in Nat
        BY CostsAdd
      <3>2. since' = 0 /\ elapsed' = 0 /\ pc' # "callback"
        BY <1>1, <1>2
      <3>3. QED BY <3>1, <3>2 DEF PassTime
    <2>2. ASSUME NEW i \in Places' PROVE InTime(i)'
      <3>1. list'[i] \in Range(list) \cup {adding}
        BY <1>7 DEF Places, Range
      <3>2. CASE list'[i] \in Range(list)
        <4>1. PICK j \in Places : list'[i] = list[j]
          BY <3>2 DEF Range, Places
        <4>2. left'[list'[i]] = left[list[j]]
          BY <4>1, <3>2, <1>6
        <4>3. InTime(j)
          BY <1>1 DEF IInv, Timely
        <4>4. QED BY <4>1, <4>2, <4>3, <1>1, <1>2 DEF InTime
      <3>3. CASE list'[i] = adding
        <4>1. left'[adding] >= Rested(adding)
          BY <1>1, <1>2, <1>3, <1>5, <1>6, Bounds
        <4>2. /\ left'[adding] \in Int /\ Rested(adding) \in Int /\ Granularity \in Nat
              /\ sleep \in Nat /\ Wait[adding] >= Rested(adding) /\ left'[adding] = Wait[adding]
          BY <1>1, <1>3, <1>5, <1>6, Bounds
        <4>3. /\ left'[adding] >= Rested(adding) - Granularity
              /\ left'[adding] - sleep >= Rested(adding) - Granularity
          BY <4>1, <4>2, <1>1
        <4>4. QED BY <3>3, <4>1, <4>3, <1>1, <1>2 DEF InTime
      <3>4. QED BY <3>1, <3>2, <3>3
    <2>3. QED BY <2>1, <2>2
  <1>12. QED BY <1>8, <1>9, <1>10, <1>11 DEF IInv

LEMMA RemoveTimerKeeps ==
    ASSUME IInv, NEW t \in Timers, RemoveTimer(t)
    PROVE  IInv'
  <1> DEFINE n == Len(list)
  <1>1. /\ mutex = "free" /\ at = 1 /\ since = 0 /\ ~updated /\ elapsed = 0
        /\ sleep <= Granularity /\ adding = None /\ ~spinning
        /\ pc \notin {"walk", "callback"}
    BY DEF IInv, TimerTypeOK, Consistent, RemoveTimer
  <1>2. UNCHANGED <<running, adding, pc, at, since, elapsed, updated, sleep>>
    BY DEF RemoveTimer, runnerVars
  <1>3. /\ list \in Seq(Timers) /\ IsInjective(list) /\ left \in [Range(list) -> Int]
        /\ list # <<>>
    BY DEF IInv, TimerTypeOK, RemoveTimer
  <1>4. CASE Head(list) = t /\ list' = Tail(list) /\ left' = Without(left, t)
             /\ UNCHANGED <<mutex, spinning>>
    <2>1. 1 \in 1 .. Len(list) /\ t = list[1] /\ n \in Nat /\ Places = 1 .. n
      BY <1>3, <1>4 DEF Places
    <2>2. /\ list' \in Seq(Timers) /\ Len(list') = n - 1 /\ DOMAIN list' = 1 .. n - 1
          /\ \A i \in 1 .. n - 1 : list'[i] = list[i + 1]
          /\ IsInjective(list') /\ Range(list') = Range(list) \ {t}
      <3>1. PICK r : r = Tail(list)
        OBVIOUS
      <3>2. /\ r \in Seq(Timers) /\ Len(r) = n - 1 /\ DOMAIN r = 1 .. n - 1
            /\ \A i \in 1 .. n - 1 : r[i] = IF i < 1 THEN list[i] ELSE list[i + 1]
            /\ IsInjective(r) /\ Range(r) = Range(list) \ {list[1]}
        <4>1. PICK k \in 1 .. Len(list) : k = 1
          BY <2>1
        <4>2. r = RemoveAt(list, k) \/ (k = 1 /\ r = Tail(list))
          BY <4>1, <3>1
        <4>3. /\ r \in Seq(Timers) /\ Len(r) = n - 1 /\ DOMAIN r = 1 .. n - 1
              /\ \A i \in 1 .. n - 1 : r[i] = IF i < k THEN list[i] ELSE list[i + 1]
              /\ IsInjective(r) /\ Range(r) = Range(list) \ {list[k]}
          BY <4>2, <1>3, RemovedFrom, SMTT(30)
        <4>4. QED BY <4>1, <4>3
      <3>3. list' = r
        BY <3>1, <1>4
      <3>4. QED BY <3>2, <3>3, <2>1
    <2>3. /\ left' \in [Range(list') -> Int]
          /\ \A u \in Range(list') : left'[u] = left[u]
      BY <2>2, <1>3, <1>4 DEF Without, Restrict
    <2>4. ASSUME NEW i \in 1 .. n - 1
          PROVE  /\ i + 1 \in Places /\ list'[i] = list[i + 1]
                 /\ left'[list'[i]] = left[list[i + 1]]
      <3>1. list'[i] \in Range(list')
        BY <2>2 DEF Range
      <3>2. QED BY <3>1, <2>1, <2>2, <2>3
    <2>5. Places' = 1 .. n - 1
      BY <2>2 DEF Places
    <2>6. TimerTypeOK'
      BY <2>2, <2>3, <1>1, <1>2, <1>4 DEF IInv, TimerTypeOK
    <2>7. Consistent'
      BY <2>1, <2>2, <2>5, <1>1, <1>2, <1>4 DEF Consistent
    <2>8. SortedAhead'
      <3> SUFFICES ASSUME NEW i \in 1 .. n - 1, NEW j \in 1 .. n - 1, i < j
                   PROVE  left'[list'[i]] <= left'[list'[j]]
        BY <2>5 DEF SortedAhead
      <3>1. at <= i + 1 /\ i + 1 < j + 1
        BY <1>1
      <3>2. QED BY <3>1, <2>4 DEF IInv, SortedAhead
    <2>9. Timely'
      <3> SUFFICES ASSUME pc # "ended" PROVE PassTime' /\ \A i \in 1 .. n - 1 : InTime(i)'
        BY <2>5, <1>2 DEF Timely
      <3>1. PassTime'
        <4>1. TotalCost[Timers \ Ahead'] \in Nat
          BY CostsAdd
        <4>2. since' = 0 /\ elapsed' = 0 /\ pc' # "callback"
          BY <1>1, <1>2
        <4>3. QED BY <4>1, <4>2 DEF PassTime
      <3>2. ASSUME NEW i \in 1 .. n - 1 PROVE InTime(i)'
        <4>1. InTime(i + 1)
          BY <2>4, <1>1 DEF IInv, Timely
        <4>2. QED BY <4>1, <2>4, <1>1, <1>2 DEF InTime
      <3>3. QED BY <3>1, <3>2
    <2>10. QED BY <2>6, <2>7, <2>8, <2>9 DEF IInv
  <1>5. CASE Head(list) # t /\ mutex' = "other" /\ spinning' = TRUE
             /\ UNCHANGED <<list, left>>
    <2>1. TimerTypeOK'
      BY <1>1, <1>2, <1>5 DEF IInv, TimerTypeOK
    <2>2. Consistent'
      BY <1>1, <1>2, <1>5, Listed DEF Consistent, Places, IInv
    <2>3. SortedAhead'
      BY <1>2, <1>5 DEF SortedAhead, Places, IInv
    <2>4. Timely'
      BY <1>5 DEF Timely
    <2>5. QED BY <2>1, <2>2, <2>3, <2>4 DEF IInv
  <1>6. QED BY <1>4, <1>5 DEF RemoveTimer

LEMMA TicksKeep ==
    ASSUME IInv, Ticks
    PROVE  IInv'
  <1>1. /\ Busy /\ adding = None
        /\ left' = [t \in DOMAIN left |-> IF left[t] > -Overdue THEN left[t] - 1
                                                                ELSE left[t]]
        /\ since' = IF pc = "callback" THEN since + 1 ELSE since
        /\ elapsed' = IF pc = "callback" THEN elapsed + 1 ELSE elapsed
        /\ sleep' = IF pc = "asleep" THEN sleep - 1 ELSE sleep
        /\ UNCHANGED <<list, mutex, pc, at, updated, running, adding, spinning>>
    BY DEF Ticks
  <1>2. /\ left \in [Range(list) -> Int] /\ since \in Nat /\ elapsed \in Nat /\ sleep \in Nat
        /\ Overdue \in Nat /\ sleep <= Granularity /\ Granularity \in Nat
        /\ (pc = "asleep" => sleep > 0)
    BY <1>1, TimerAssumption DEF IInv, TimerTypeOK, Consistent, Busy
  <1>3. /\ left' \in [Range(list) -> Int]
        /\ \A t \in Range(list) :
              left'[t] = IF left[t] > -Overdue THEN left[t] - 1 ELSE left[t]
    BY <1>1, <1>2
  <1>4. since' \in Nat /\ elapsed' \in Nat /\ sleep' \in Nat /\ sleep' <= Granularity
    BY <1>1, <1>2
  <1>5. TimerTypeOK'
    <2>1. /\ list' \in Seq(Timers) /\ IsInjective(list')
          /\ (pc' \in {"walk", "callback"} <=> mutex' = "runner") /\ at' \in Nat
          /\ adding' \in Timers \cup {None}
      BY <1>1 DEF IInv, TimerTypeOK
    <2>2. /\ mutex' \in {"free", "runner", "other"}
          /\ pc' \in {"unstarted", "loop", "locking", "walk", "callback", "unlocked",
                     "asleep", "ended"}
          /\ updated' \in BOOLEAN /\ running' \in BOOLEAN /\ spinning' \in BOOLEAN
      BY <1>1 DEF IInv, TimerTypeOK
    <2>3. left' \in [Range(list') -> Int]
      BY <1>1, <1>3
    <2>4. QED BY <2>1, <2>2, <2>3, <1>4 DEF TimerTypeOK
  <1>6. Consistent'
    <2>1. mutex # "runner" => pc # "callback"
      BY DEF IInv, TimerTypeOK
    <2>2. QED BY <2>1, <1>1, <1>4 DEF IInv, Consistent, Places
  <1>7. Places' = Places /\ Ahead' = Ahead
    BY <1>1 DEF Places, Ahead
  <1>8. SortedAhead'
    <2> SUFFICES ASSUME NEW i \in Places, NEW j \in Places, at <= i, i < j
                 PROVE  left'[list[i]] <= left'[list[j]]
      BY <1>1, <1>7 DEF SortedAhead
    <2>1. left[list[i]] <= left[list[j]]
      BY DEF IInv, SortedAhead
    <2>2. /\ list[i] \in Range(list) /\ list[j] \in Range(list)
          /\ left[list[i]] \in Int /\ left[list[j]] \in Int
      BY Listed
    <2>3. QED BY <2>1, <2>2, <1>2, <1>3
  <1>9. Timely'
    <2> SUFFICES ASSUME pc # "ended", ~spinning
                 PROVE  PassTime' /\ \A i \in Places : InTime(i)'
      BY <1>1, <1>7 DEF Timely
    <2>1. PassTime /\ \A i \in Places : InTime(i)
      BY DEF IInv, Timely
    <2>2. pc = "callback" => elapsed < Cost[list[at]]
      BY <1>1 DEF Busy
    <2>3. pc \in {"callback", "asleep"}
      BY <1>1 DEF Busy
    <2>4. PassTime'
      <3>1. TotalCost[Timers \ Ahead] \in Nat
        BY Listed
      <3>2. pc = "callback" => elapsed + 1 <= Cost[list[at]]
        <4> SUFFICES ASSUME pc = "callback" PROVE elapsed + 1 <= Cost[list[at]]
          OBVIOUS
        <4>1. at \in Places /\ list[at] \in Timers
          BY Listed DEF IInv, Consistent
        <4>2. Cost[list[at]] \in Nat
          BY <4>1, Bounds
        <4>3. QED BY <4>2, <2>2, <1>2
      <3>3. QED BY <3>1, <3>2, <2>1, <2>3, <1>1, <1>2, <1>7 DEF PassTime
    <2>5. ASSUME NEW i \in Places PROVE InTime(i)'
      <3>1. /\ list[i] \in Timers /\ left[list[i]] \in Int
            /\ left'[list[i]] \in Int /\ left'[list[i]] >= left[list[i]] - 1
        BY Listed, <1>2, <1>3
      <3>2. Rested(list[i]) \in Int /\ Wait[list[i]] \in Nat
        BY <3>1, Bounds
      <3>3. CASE pc = "callback"
        <4>1. left'[list[i]] + since' >= left[list[i]] + since
          BY <3>1, <3>3, <1>1, <1>2
        <4>2. QED BY <4>1, <3>1, <3>2, <3>3, <2>1, <1>1, <1>2, <1>4 DEF InTime
      <3>4. CASE pc = "asleep"
        BY <3>1, <3>2, <3>4, <2>1, <1>1, <1>2 DEF InTime
      <3>5. QED BY <3>3, <3>4, <2>3
    <2>6. QED BY <2>4, <2>5
  <1>10. QED BY <1>5, <1>6, <1>8, <1>9 DEF IInv

LEMMA RunnerKeeps ==
    ASSUME IInv, RunnerStep
    PROVE  IInv'
  BY RunKeeps, RunReturnsKeeps, RunLoopsKeeps, RunOnceKeeps, CallbackStartsKeeps,
     CallbackReturnsKeeps, PassEndsKeeps, FallsAsleepKeeps, WakesUpKeeps DEF RunnerStep

LEMMA InvariantSorted ==
    IInv => SortedWhenFree
  <1> SUFFICES ASSUME IInv, mutex = "free"
               PROVE  \A i, j \in DOMAIN list : i < j => left[list[i]] <= left[list[j]]
    BY DEF SortedWhenFree
  <1>1. at = 1 /\ \A i \in Places : at <= i
    BY Listed DEF IInv, Consistent
  <1>2. QED BY <1>1 DEF IInv, SortedAhead, Places

LEMMA InvariantPunctual ==
    IInv => Punctual
  <1> SUFFICES ASSUME IInv, pc # "ended", ~spinning, NEW t \in Timers, Late(t)
               PROVE  FALSE
    BY DEF Punctual
  <1>1. PICK i \in Places : t = list[i]
    BY DEF Late, Range, Places
  <1>2. /\ left[t] \in Int /\ left[t] < -MaxLate(t) /\ ~Runs(t)
        /\ i \in Nat /\ Len(list) \in Nat /\ i <= Len(list)
    BY <1>1, Listed DEF Late
  <1>3. PassTime /\ InTime(i)
    BY DEF IInv, Timely
  <1>4. /\ since \in Nat /\ sleep \in Nat /\ elapsed \in Nat /\ at \in Nat
        /\ pc \in {"unstarted", "loop", "locking", "walk", "callback", "unlocked", "asleep"}
        /\ (pc = "callback" => at \in Places)
    BY Listed DEF IInv, TimerTypeOK, Consistent
  <1>5. /\ Rested(t) \in Int /\ CostOfOthers(t) \in Nat /\ Overrun(t) \in Nat
        /\ Granularity \in Nat /\ Wait[t] \in Nat /\ Cost[t] \in Nat
        /\ Rested(t) = -Overrun(t) - CostOfOthers(t)
        /\ -MaxLate(t) = Rested(t) - Granularity - CostOfOthers(t)
    BY Bounds
  <1>6. PICK r \in Int, g, o, w, e \in Nat :
            /\ r = Rested(t) /\ g = Granularity /\ o = CostOfOthers(t)
            /\ w = Wait[t] /\ e = Overrun(t)
    BY <1>5
  <1>7. r = -e - o /\ left[t] < r - g - o
    BY <1>2, <1>5, <1>6
  <1>8. pc \in {"walk", "callback"}
    <2>1. left[t] < r - g /\ left[t] < r
      BY <1>2, <1>7
    <2>2. pc \notin {"unstarted", "loop", "locking", "unlocked"}
      BY <2>1, <1>1, <1>2, <1>3, <1>6 DEF InTime
    <2>3. CASE pc = "asleep"
      <3>1. left[t] - sleep >= r - g
        BY <2>3, <1>1, <1>3, <1>6 DEF InTime
      <3>2. QED BY <2>1, <3>1, <1>2, <1>4
    <2>4. QED BY <2>2, <2>3, <1>4
  <1>9. left[t] + since >= IF i < at THEN Wait[t] ELSE Rested(t) - Granularity
    BY <1>1, <1>3, <1>8 DEF InTime
  <1>10. since > CostOfOthers(t)
    <2>1. left[t] + since >= w \/ left[t] + since >= r - g
      BY <1>9, <1>6
    <2>2. r <= 0
      BY <1>7
    <2>3. since > o
      BY <2>1, <2>2, <1>7, <1>2, <1>4
    <2>4. QED BY <2>3, <1>6
  <1>11. PICK S \in SUBSET Timers : since <= TotalCost[S] /\ (i >= at => t \notin S)
    <2>1. t \in Timers /\ (i >= at => t \in Ahead)
      BY <1>1 DEF Ahead
    <2>2. CASE pc = "walk"
      <3>1. since <= TotalCost[Timers \ Ahead]
        BY <2>2, <1>3, Listed DEF PassTime, IInv, Consistent
      <3>2. QED BY <3>1, <2>1
    <2>3. CASE pc = "callback"
      <3>1. PICK u : u = list[at]
        OBVIOUS
      <3>2. u \in Timers /\ u # t /\ u \in Ahead
        <4>1. at \in Places /\ at <= at
          BY <2>3, <1>4
        <4>2. u \in Ahead
          BY <4>1, <3>1 DEF Ahead
        <4>3. QED BY <4>1, <4>2, <3>1, <2>3, <1>2, Listed DEF Runs
      <3>3. TotalCost[(Timers \ Ahead) \cup {u}] = TotalCost[Timers \ Ahead] + Cost[u]
        BY <3>2, CostsAdd
      <3>4. since <= TotalCost[Timers \ Ahead] + elapsed /\ elapsed <= Cost[u]
        BY <2>3, <3>1, <1>3 DEF PassTime
      <3>5. TotalCost[Timers \ Ahead] \in Nat /\ Cost[u] \in Nat
        BY <3>2, Listed, Bounds
      <3>6. since <= TotalCost[(Timers \ Ahead) \cup {u}]
        BY <3>3, <3>4, <3>5, <1>4
      <3>7. (Timers \ Ahead) \cup {u} \in SUBSET Timers
            /\ (i >= at => t \notin (Timers \ Ahead) \cup {u})
        BY <2>1, <3>2
      <3>8. QED BY <3>6, <3>7
    <2>4. QED BY <2>2, <2>3, <1>8
  <1>12. TotalCost[S] \in Nat
    BY CostsAdd
  <1>13. CASE i < at
    <2>1. t \in Looping
      BY <1>1, <1>13 DEF IInv, Consistent
    <2>2. Wait[t] - Cost[t] >= -Overrun(t)
      BY <2>1, Bounds
    <2>3. TotalCost[S] <= CostOfOthers(t) + Cost[t]
      <3>1. Timers \ {t} \in SUBSET Timers /\ (Timers \ {t}) \cup {t} = Timers
        OBVIOUS
      <3>2. TotalCost[(Timers \ {t}) \cup {t}] = TotalCost[Timers \ {t}] + Cost[t]
        BY <3>1, CostsAdd
      <3>3. TotalCost[S] <= TotalCost[Timers]
        BY CostsAdd
      <3>4. QED BY <3>1, <3>2, <3>3 DEF CostOfOthers
    <2>4. left[t] + since >= Wait[t]
      BY <1>9, <1>13
    <2>5. left[t] >= (Wait[t] - Cost[t]) - CostOfOthers(t)
      <3>1. since <= CostOfOthers(t) + Cost[t]
        BY <2>3, <1>4, <1>5, <1>11, <1>12
      <3>2. PICK c \in Nat : c = Cost[t]
        BY <1>5
      <3>3. left[t] + since >= w /\ since <= o + c
        BY <3>1, <3>2, <2>4, <1>6
      <3>4. left[t] \in Int /\ since \in Nat
        BY <1>2, <1>4
      <3>5. left[t] >= (w - c) - o
        BY <3>3, <3>4
      <3>6. QED BY <3>2, <3>5, <1>6
    <2>6. PICK d \in Int : d = Wait[t] - Cost[t]
      BY <1>5
    <2>7. d >= -e /\ left[t] >= d - o
      BY <2>2, <2>5, <2>6, <1>6
    <2>8. QED BY <2>7, <1>2, <1>7
  <1>14. CASE i >= at
    <2>1. S \in SUBSET (Timers \ {t}) /\ Timers \ {t} \in SUBSET Timers
      BY <1>11, <1>14
    <2>2. TotalCost[S] <= CostOfOthers(t)
      BY <2>1, CostsAdd DEF CostOfOthers
    <2>3. QED BY <2>2, <1>4, <1>5, <1>10, <1>11, <1>12
  <1>15. QED BY <1>13, <1>14, <1>2, <1>4
-----------------------------------------------------------------------------
(* The theorems.                                                           *)

LEMMA TimersInvariant ==
    TimerSpec => []IInv
  <1>1. TimerInit(<<>>) => IInv
    <2>1. <<>> \in Seq(Timers) /\ IsInjective(<<>>)
      BY DEF IsInjective
    <2>2. QED BY <2>1, TimersStart
  <1>2. IInv /\ [TimerNext]_timerVars => IInv'
    BY RunnerKeeps, TicksKeep, AddLocksKeeps, RemoveTimerKeeps, AddUnlocksKeeps, StopKeeps,
       TimersRest DEF TimerNext
  <1>3. QED BY <1>1, <1>2, PTL DEF TimerSpec

(* The variables keep their types, and no timer is in the list twice,      *)
(* whatever is added, removed and run.                                     *)
THEOREM TimersTyped ==
    TimerSpec => []TimerTypeOK
  <1>1. IInv => TimerTypeOK
    BY DEF IInv
  <1>2. QED BY <1>1, TimersInvariant, PTL

(* The list is sorted whenever nobody holds the mutex, although RunOnce    *)
(* changes triggers and takes timers out while it walks along it.          *)
THEOREM ListSortedWhenFree ==
    TimerSpec => []SortedWhenFree
  <1>1. QED BY TimersInvariant, InvariantSorted, PTL

(* No timer waits for its callback longer than MaxLate, for any number of  *)
(* timers with any waits and callbacks that take any time.                 *)
THEOREM TimersPunctual ==
    TimerSpec => []Punctual
  <1>1. QED BY TimersInvariant, InvariantPunctual, PTL
=============================================================================
