--------------------------- MODULE MonitorProofs ---------------------------
(***************************************************************************)
(* Proofs about DeadlockMonitor, for any waits and costs of the timers of  *)
(* the coordinator and any times of the monitor.                           *)
(***************************************************************************)
EXTENDS DeadlockMonitor, TimerProofs

(* The longest time from one tag to the next. *)
Period == Wait[Report] + MaxLate(Report) + Cost[Report]

(* The monitor gives a child time to start and to write two tags, of which *)
(* the first may be the last of its predecessor; the sleep after a restart *)
(* leaves time for one.  (In the code 8 and 3 seconds, against reports     *)
(* every half second.)                                                     *)
InTheLimit == /\ StartTime + 2 * Period < Limit
              /\ Rest + Period < Limit
-----------------------------------------------------------------------------
(* The inductive invariant *)

Types == /\ child \in {"starting", "running", "hung", "dead"}
         /\ startup \in 0 .. StartTime /\ rest \in 0 .. Rest /\ age \in 0 .. Limit
         /\ {tag, memory, seen} \subseteq 0 .. TagModulus - 1
         /\ report \in {"no", "locked", "done"}
         /\ {locked, old, hosted, zombie, signal} \subseteq BOOLEAN
         /\ loop \in Interruptible \cup {"found", "killed", "inserted", "handler", "mutex"}
         /\ resume \in Interruptible
         /\ crashes \in Nat /\ hangs \in Nat /\ crashes + hangs <= MaxFaults

(* The coordinator adds its timers before Run and none later, and never    *)
(* stops; it writes while the timer runs.                                  *)
Coordinator == /\ IInv
               /\ adding = None /\ ~spinning
               /\ Range(list) = Timers /\ \A t \in Timers : left[t] <= Wait[t]
               /\ pc # "ended" /\ (pc # "unstarted" => running)
               /\ child = "starting" => pc = "unstarted" /\ report = "no"
               /\ report # "no" => Reporting
               /\ report = "locked" => locked
               /\ zombie => child = "dead"

(* The time until the next tag is written. *)
NextTag == IF child = "starting" THEN startup + Period
           ELSE IF ~Reporting THEN left[Report] + MaxLate(Report) + Cost[Report]
           ELSE IF report = "done" THEN Period - elapsed ELSE Cost[Report] - elapsed

(* The semaphore is taken, and not by a child that writes. *)
Abandoned == locked /\ ~(child = "running" /\ report = "locked")

(* The two ends never hold the semaphore together. *)
Exclusive == Reading => locked /\ report # "locked"

(* The monitor reads the memory or has just done so. *)
Looking == \/ loop \in {"reading", "find", "found"}
           \/ loop \in {"look", "wait"} /\ ~Abandoned

(* The memory differs by one tag from what the monitor saw, or by two that *)
(* were written without time passing.                                      *)
Ahead1 == memory = (seen + 1) % TagModulus /\ (Reporting /\ report # "done" => elapsed = 0)
Ahead2 == /\ memory = (seen + 2) % TagModulus
          /\ IF Reporting THEN report = "done" /\ elapsed = 0 ELSE left[Report] >= 1

(* How old the last tag may be when the monitor looks at a living child:   *)
(* one that has written none, whose last tag was seen, and was not.        *)
Patient == /\ age < Limit
           /\ memory # tag => tag = FirstTag /\ age + NextTag <= StartTime + Period
           /\ memory = tag /\ memory = seen => age + NextTag < Limit
           /\ memory = tag /\ memory # seen => age + Period < Limit \/ Ahead1 \/ Ahead2

(* The monitor has a child in its table and does nothing to it. *)
AtRest == {"look", "reading", "find", "found", "wait"}

Alarm == /\ rest > 0 => loop = "wait" \/ (loop = "handler" /\ resume = "wait")
         /\ loop = "inserted" => hosted
         /\ child \in Living => /\ memory # tag => tag = FirstTag
                                /\ loop = "wait" /\ rest > 0 => age + rest <= Rest
                                /\ loop \in AtRest => hosted
                                /\ Looking => Patient

(* Without faults the first child lives for ever. *)
Faultless == crashes + hangs = 0 =>
                /\ child \in Living
                /\ loop \in AtRest
                /\ ~signal /\ ~old /\ ~zombie
                /\ locked => report = "locked" \/ loop = "reading"

(* A child that crashed is waited for before its successor starts. *)
Waited == hangs = 0 =>
             /\ ~old /\ child # "hung" /\ loop # "handler"
             /\ signal => child = "dead"
             /\ loop \in {"close", "killed", "spawn"} => ~signal /\ child = "dead"
             /\ loop \in AtRest /\ ~hosted =>
                   ~signal /\ child = "dead"
             /\ signal /\ Looking => age < Limit

MInv == Types /\ Coordinator /\ Exclusive /\ Alarm /\ Faultless /\ Waited
-----------------------------------------------------------------------------
(* Facts about times and about the coordinator *)

(* What the assumptions on the constants say of the times of the report. *)
LEMMA Times ==
    /\ Report \in Timers /\ Cleanup \in Timers /\ Timers = {Report, Cleanup}
    /\ Looping = Timers /\ Report # Cleanup
    /\ Wait[Report] \in Nat /\ Wait[Report] >= 1 /\ Cost[Report] \in Nat
    /\ MaxLate(Report) \in Nat /\ MaxLate(Report) < Overdue /\ Overdue \in Nat
    /\ Period \in Nat /\ Period = Wait[Report] + MaxLate(Report) + Cost[Report]
    /\ StartTime \in Nat /\ Limit \in Nat /\ Limit > 0 /\ Rest \in Nat /\ Rest > 0
    /\ TagModulus \in Nat /\ TagModulus > 2 /\ MaxFaults \in Nat
  <1>1. /\ Report \in Timers /\ Cleanup \in Timers /\ Timers = {Report, Cleanup}
        /\ Looping = Timers /\ Report # Cleanup
    BY MonitorAssumption
  <1>2. /\ StartTime \in Nat /\ Limit \in Nat /\ Limit > 0 /\ Rest \in Nat /\ Rest > 0
        /\ TagModulus \in Nat /\ TagModulus > 2 /\ MaxFaults \in Nat
    BY MonitorAssumption DEF FirstTag
  <1>3. /\ Wait[Report] \in Nat /\ Wait[Report] >= 1 /\ Cost[Report] \in Nat
        /\ CostOfOthers(Report) \in Nat /\ Overrun(Report) \in Nat /\ Granularity \in Nat
        /\ Overdue \in Nat
    BY <1>1, Bounds
  <1>4. MaxLate(Report) \in Nat
    BY <1>3 DEF MaxLate
  <1>5. MaxLate(Report) < Overdue
    BY <1>1, TimerAssumption
  <1>6. QED BY <1>1, <1>2, <1>3, <1>4, <1>5 DEF Period

(* The next tag is due within the time to start and a period. *)
LEMMA NextTagBound ==
    ASSUME Types, Coordinator, child \in Living
    PROVE  /\ NextTag \in Nat /\ NextTag <= StartTime + Period
           /\ child = "running" => NextTag <= Period
           /\ Report \in Range(list) /\ left[Report] \in Int /\ elapsed \in Nat
           /\ child = "running" /\ ~Reporting => left[Report] >= -MaxLate(Report)
           /\ Reporting => elapsed <= Cost[Report] /\ elapsed \in Nat
  <1>1. /\ Report \in Range(list) /\ left[Report] \in Int /\ left[Report] <= Wait[Report]
        /\ elapsed \in Nat /\ startup \in Nat /\ startup <= StartTime
    <2>1. Report \in Range(list) /\ left[Report] <= Wait[Report]
      BY Times DEF Coordinator
    <2>2. left \in [Range(list) -> Int] /\ elapsed \in Nat
      BY DEF Coordinator, IInv, TimerTypeOK
    <2>3. startup \in Nat /\ startup <= StartTime
      BY Times DEF Types
    <2>4. QED BY <2>1, <2>2, <2>3
  <1>2. Reporting => elapsed <= Cost[Report]
    BY DEF Coordinator, IInv, Timely, PassTime, Reporting
  <1>3. ~Reporting => left[Report] >= -MaxLate(Report)
    <2>1. ~Late(Report)
      BY InvariantPunctual, Times DEF Coordinator, Punctual
    <2>2. QED BY <2>1, <1>1, Times DEF Late, Runs, Reporting
  <1>4. child = "starting" => NextTag = startup + Period
    BY DEF NextTag
  <1>5. child = "running" /\ ~Reporting =>
           NextTag = left[Report] + MaxLate(Report) + Cost[Report]
    BY DEF NextTag
  <1>6. child = "running" /\ Reporting =>
           NextTag = Period - elapsed \/ NextTag = Cost[Report] - elapsed
    BY DEF NextTag
  <1>7. child \in {"starting", "running"}
    BY DEF Living
  <1>8. CASE child = "starting"
    BY <1>1, <1>2, <1>3, <1>4, <1>8, Times
  <1>9. CASE child = "running" /\ ~Reporting
    BY <1>1, <1>3, <1>5, <1>9, Times
  <1>10. CASE child = "running" /\ Reporting
    BY <1>1, <1>2, <1>6, <1>10, Times
  <1>11. QED BY <1>7, <1>8, <1>9, <1>10

(* What a step of the timers does to the report. *)
LEMMA RunnerSteps ==
    ASSUME Coordinator, RunnerStep, Reporting => report = "done"
    PROVE  /\ IInv' /\ adding' = None /\ ~spinning' /\ Range(list') = Timers
           /\ \A t \in Timers : left'[t] <= Wait[t]
           /\ pc' # "ended" /\ (pc' # "unstarted" => running')
           /\ ~Reporting /\ ~Reporting' => left'[Report] = left[Report]
           /\ ~Reporting /\ Reporting' => /\ left[Report] <= 0 /\ left' = left
                                          /\ elapsed' = 0
           /\ Reporting => ~Reporting' /\ left'[Report] = Wait[Report] - elapsed
  <1>1. IInv'
    BY RunnerKeeps DEF Coordinator
  <1>2. adding' = None /\ ~spinning'
    BY DEF Coordinator, RunnerStep, Run, RunReturns, RunLoops, RunOnce,
           CallbackStarts, CallbackReturns, PassEnds, FallsAsleep, WakesUp
  <1>3. /\ Range(list) = Timers /\ left \in [Timers -> Int] /\ Report \in Timers
        /\ \A t \in Timers : left[t] \in Int /\ left[t] <= Wait[t] /\ Wait[t] \in Int
        /\ elapsed \in Nat /\ since \in Nat /\ running \in BOOLEAN
        /\ (pc = "callback" => at \in Places /\ list[at] \in Timers)
    <2>1. Range(list) = Timers /\ \A t \in Timers : left[t] <= Wait[t]
      BY DEF Coordinator
    <2>2. /\ left \in [Range(list) -> Int] /\ elapsed \in Nat /\ since \in Nat
          /\ running \in BOOLEAN
      BY DEF Coordinator, IInv, TimerTypeOK
    <2>3. pc = "callback" => at \in Places /\ list[at] \in Timers
      BY Listed DEF Coordinator, IInv, Consistent
    <2>4. \A t \in Timers : Wait[t] \in Int
      BY Bounds
    <2>5. QED BY <2>1, <2>2, <2>3, <2>4, Times
  <1>4. CASE Run
    BY <1>1, <1>2, <1>3, <1>4 DEF Run, Coordinator, Reporting
  <1>5. CASE RunReturns
    BY <1>5 DEF RunReturns, Coordinator
  <1>6. CASE RunLoops \/ RunOnce
    BY <1>1, <1>2, <1>3, <1>6 DEF RunLoops, RunOnce, Coordinator, Reporting
  <1>7. CASE CallbackStarts
    <2>1. elapsed = 0 /\ left' = left /\ list' = list /\ at' = at /\ running' = running
          /\ pc = "walk" /\ pc' = "callback" /\ elapsed' = elapsed /\ IsDue(list[at])
      BY <1>7 DEF CallbackStarts, Coordinator, IInv, Consistent
    <2>2. Reporting' => left[Report] <= 0
      BY <2>1, <1>3 DEF Reporting, IsDue
    <2>3. ~Reporting /\ pc' # "ended" /\ running'
      BY <2>1 DEF Reporting, Coordinator
    <2>4. QED BY <1>1, <1>2, <1>3, <2>1, <2>2, <2>3
  <1>8. CASE CallbackReturns
    <2>1. /\ list[at] \in Looping
      BY <1>3, <1>8, Times DEF CallbackReturns
    <2>2. /\ left' = [left EXCEPT ![list[at]] = Wait[list[at]] - elapsed]
          /\ list' = list /\ pc = "callback" /\ pc' = "walk" /\ running' = running
      BY <2>1, <1>8 DEF CallbackReturns
    <2>3. \A t \in Timers : left'[t] <= Wait[t]
      BY <2>2, <1>3
    <2>4. ~Reporting' /\ pc' # "ended" /\ running'
      BY <2>2 DEF Reporting, Coordinator
    <2>5. Reporting => left'[Report] = Wait[Report] - elapsed
      BY <2>2, <1>3 DEF Reporting
    <2>6. ~Reporting => left'[Report] = left[Report]
      BY <2>2, <1>3 DEF Reporting
    <2>7. Range(list') = Timers
      BY <2>2, <1>3
    <2>8. QED BY <1>1, <1>2, <2>3, <2>4, <2>5, <2>6, <2>7
  <1>9. CASE PassEnds
    <2>1. left' = left /\ pc = "walk" /\ pc' = "unlocked" /\ running' = running
      BY <1>9 DEF PassEnds
    <2>2. Range(list') = Timers
      <3>1. list' \in IF updated THEN ByTrigger(list, left) ELSE {list}
        BY <1>9 DEF PassEnds
      <3>2. PICK r \in IF updated THEN ByTrigger(list, left) ELSE {list} : r = list'
        BY <3>1
      <3>3. list \in Seq(Timers) /\ IsInjective(list) /\ left \in [Range(list) -> Int]
        BY DEF Coordinator, IInv, TimerTypeOK
      <3>4. updated => Range(r) = Range(list)
        BY <3>2, <3>3, SortOrders
      <3>5. QED BY <3>2, <3>4, <1>3
    <2>3. ~Reporting /\ ~Reporting' /\ running'
      BY <2>1 DEF Reporting, Coordinator
    <2>4. QED BY <1>1, <1>2, <1>3, <2>1, <2>2, <2>3
  <1>10. CASE FallsAsleep
    BY <1>1, <1>2, <1>3, <1>10 DEF FallsAsleep, Coordinator, Reporting
  <1>11. CASE WakesUp
    BY <1>1, <1>2, <1>3, <1>11 DEF WakesUp, Coordinator, Reporting
  <1>12. QED BY <1>4, <1>5, <1>6, <1>7, <1>8, <1>9, <1>10, <1>11 DEF RunnerStep

(* What a tick does to the report. *)
LEMMA TickSteps ==
    ASSUME Coordinator, Ticks, ~Reporting => left[Report] >= -MaxLate(Report)
    PROVE  /\ IInv' /\ adding' = None /\ ~spinning' /\ Range(list') = Timers
           /\ \A t \in Timers : left'[t] <= Wait[t]
           /\ pc' = pc /\ running' = running
           /\ Reporting' = Reporting
           /\ ~Reporting => left'[Report] = left[Report] - 1
           /\ Reporting => elapsed' = elapsed + 1
  <1>1. IInv'
    BY TicksKeep DEF Coordinator
  <1>2. /\ left' = [t \in DOMAIN left |-> IF left[t] > -Overdue THEN left[t] - 1
                                                                ELSE left[t]]
        /\ elapsed' = IF pc = "callback" THEN elapsed + 1 ELSE elapsed
        /\ UNCHANGED <<list, pc, at, running, adding, spinning>>
    BY DEF Ticks
  <1>3. /\ left \in [Timers -> Int] /\ Report \in Timers
        /\ \A t \in Timers : left[t] \in Int /\ left[t] <= Wait[t] /\ Wait[t] \in Int
    <2>1. Range(list) = Timers /\ \A t \in Timers : left[t] <= Wait[t]
      BY DEF Coordinator
    <2>2. left \in [Range(list) -> Int]
      BY DEF Coordinator, IInv, TimerTypeOK
    <2>3. \A t \in Timers : Wait[t] \in Int
      BY Bounds
    <2>4. QED BY <2>1, <2>2, <2>3, Times
  <1>4. \A t \in Timers : left'[t] = IF left[t] > -Overdue THEN left[t] - 1 ELSE left[t]
    BY <1>2, <1>3
  <1>5. \A t \in Timers : left'[t] <= Wait[t]
    BY <1>3, <1>4
  <1>6. ~Reporting => left'[Report] = left[Report] - 1
    BY <1>3, <1>4, Times
  <1>7. Reporting' = Reporting /\ (Reporting => elapsed' = elapsed + 1)
    BY <1>2 DEF Reporting
  <1>8. QED BY <1>1, <1>2, <1>5, <1>6, <1>7 DEF Coordinator
-----------------------------------------------------------------------------
(* The steps *)

(* The same in the next state. *)
LEMMA NextTagBoundNext ==
    (Types /\ Coordinator /\ child \in Living => NextTag \in Nat)'
  <1>1. Types /\ Coordinator /\ child \in Living => NextTag \in Nat
    BY NextTagBound
  <1>2. QED BY <1>1, PTL

(* The coordinator rests: no step of its timers. *)
LEMMA CoordinatorRests ==
    ASSUME Coordinator, UNCHANGED timerVars,
           child' = "starting" => child = "starting" /\ report' = "no",
           report' # "no" => Reporting,
           report' = "locked" => locked',
           zombie' => child' = "dead"
    PROVE  Coordinator' /\ Reporting' = Reporting
  <1>1. Reporting' = Reporting
    BY DEF timerVars, Reporting
  <1>2. IInv'
    BY TimersRest DEF Coordinator
  <1>3. /\ adding' = None /\ ~spinning'
        /\ Range(list)' = Timers /\ (\A t \in Timers : left[t] <= Wait[t])'
        /\ pc' # "ended" /\ (pc' # "unstarted" => running')
    BY DEF timerVars, Coordinator
  <1>4. child' = "starting" => pc' = "unstarted" /\ report' = "no"
    BY DEF timerVars, Coordinator
  <1>5. QED BY <1>1, <1>2, <1>3, <1>4 DEF Coordinator

(* What the monitor knows of a child, if nothing is written and the child  *)
(* does nothing.                                                           *)
LEMMA MemoryRests ==
    ASSUME UNCHANGED <<timerVars, childVars, memory>>
    PROVE  /\ NextTag' = NextTag /\ Reporting' = Reporting
           /\ UNCHANGED <<child, startup, tag, report, memory, elapsed, left>>
           /\ UNCHANGED <<seen, age>> => Patient' = Patient
  <1>1. Reporting' = Reporting
    BY DEF timerVars, Reporting
  <1>2. UNCHANGED <<child, startup, tag, report, memory, elapsed, left>>
    BY DEF timerVars, childVars
  <1>3. NextTag' = NextTag
    BY <1>1, <1>2 DEF NextTag
  <1>4. UNCHANGED <<seen, age>> => Patient' = Patient
    BY <1>1, <1>2, <1>3 DEF Patient, Ahead1, Ahead2
  <1>5. QED BY <1>1, <1>2, <1>3, <1>4

LEMMA ChildRests ==
    ASSUME UNCHANGED <<timerVars, childVars, sharedVars>>
    PROVE  /\ NextTag' = NextTag /\ Abandoned' = Abandoned /\ Reporting' = Reporting
           /\ UNCHANGED <<child, startup, tag, report, memory, locked, elapsed, left>>
           /\ UNCHANGED <<seen, age>> => Patient' = Patient
  <1>1. UNCHANGED <<memory, locked>>
    BY DEF sharedVars
  <1>2. /\ NextTag' = NextTag /\ Reporting' = Reporting
        /\ UNCHANGED <<child, startup, tag, report, memory, elapsed, left>>
        /\ UNCHANGED <<seen, age>> => Patient' = Patient
    BY <1>1, MemoryRests
  <1>3. Abandoned' = Abandoned
    BY <1>1, <1>2 DEF Abandoned
  <1>4. QED BY <1>1, <1>2, <1>3

(* A living child was looked at in time. *)
LEMMA LivingInTime ==
    ASSUME MInv, child \in Living, Looking
    PROVE  Patient /\ age < Limit /\ hosted
  BY DEF MInv, Alarm, AtRest, Looking, Patient

(* With more than two tags, three in a row differ. *)
LEMMA TagsDiffer ==
    ASSUME NEW m \in 0 .. TagModulus - 1, NEW n, n = (m + 1) % TagModulus
    PROVE  /\ n \in 0 .. TagModulus - 1 /\ n # m
           /\ (n + 1) % TagModulus # m /\ (n + 1) % TagModulus = (m + 2) % TagModulus
  <1>1. TagModulus \in Nat /\ TagModulus > 2
    BY Times
  <1>2. CASE m + 2 < TagModulus
    BY <1>1, <1>2
  <1>3. CASE m + 2 = TagModulus
    <2>1. n = m + 1
      BY <1>1, <1>3
    <2>2. (m + 2) % TagModulus = 0 /\ (n + 1) % TagModulus = 0
      BY <1>1, <1>3, <2>1
    <2>3. QED BY <1>1, <1>3, <2>1, <2>2
  <1>4. CASE m + 1 = TagModulus
    <2>1. n = 0
      BY <1>1, <1>4
    <2>2. (n + 1) % TagModulus = 1
      BY <1>1, <2>1
    <2>3. (m + 2) % TagModulus = 1
      <3>1. m + 2 = TagModulus + 1
        BY <1>1, <1>4
      <3>2. (TagModulus + 1) % TagModulus = 1
        BY <1>1
      <3>3. QED BY <3>1, <3>2
    <2>4. QED BY <1>1, <1>4, <2>1, <2>2, <2>3
  <1>5. QED BY <1>1, <1>2, <1>3, <1>4

(* The rest of this part: each step keeps the invariant. *)
LEMMA FindsKeeps ==
    ASSUME MInv, Finds
    PROVE  MInv'
  <1>1. Types'
    BY Times DEF MInv, Types, Interruptible, Finds, Moves, childVars, sharedVars, processVars, faults
  <1>2. Coordinator'
    BY CoordinatorRests DEF MInv, Coordinator, childVars, sharedVars, processVars,
                            Finds, Moves, faults
  <1>3. Alarm'
    BY ChildRests DEF MInv, Alarm, AtRest, Looking, Finds, Moves, childVars, sharedVars,
                      processVars, faults
  <1>4. Faultless'
    BY <1>1, ChildRests DEF MInv, Types, Faultless, AtRest, Finds, Moves, childVars, sharedVars,
                            processVars, faults
  <1>5. Waited'
    BY ChildRests DEF MInv, Types, Waited, AtRest, Looking, Finds, Moves, childVars, sharedVars,
                      processVars, faults
  <1>6. Exclusive'
    BY DEF MInv, Coordinator, Exclusive, Reading, Finds, Moves, childVars, sharedVars, monitorVars
  <1>7. QED BY <1>1, <1>2, <1>3, <1>4, <1>5, <1>6 DEF MInv

LEMMA ClosedKeeps ==
    ASSUME MInv, Closed
    PROVE  MInv'
  <1>1. Types'
    BY Times DEF MInv, Types, Interruptible, Closed, Moves, childVars, sharedVars, processVars, faults
  <1>2. Coordinator'
    BY CoordinatorRests DEF MInv, Coordinator, childVars, sharedVars, processVars,
                            Closed, Moves, faults
  <1>3. Alarm'
    BY ChildRests DEF MInv, Alarm, AtRest, Looking, Closed, Moves, childVars, sharedVars,
                      processVars, faults
  <1>4. Faultless'
    BY <1>1, ChildRests DEF MInv, Types, Faultless, AtRest, Closed, Moves, childVars,
                            sharedVars, processVars, faults
  <1>5. Waited'
    BY ChildRests DEF MInv, Types, Waited, AtRest, Looking, Closed, Moves, childVars,
                      sharedVars, processVars, faults
  <1>6. Exclusive'
    BY DEF MInv, Coordinator, Exclusive, Reading, Closed, Moves, childVars, sharedVars, monitorVars
  <1>7. QED BY <1>1, <1>2, <1>3, <1>4, <1>5, <1>6 DEF MInv

LEMMA InsertsKeeps ==
    ASSUME MInv, Inserts
    PROVE  MInv'
  <1>1. Types'
    BY Times DEF MInv, Types, Interruptible, Inserts, Moves, childVars, sharedVars, faults
  <1>2. Coordinator'
    BY CoordinatorRests DEF MInv, Coordinator, childVars, sharedVars, processVars,
                            Inserts, Moves, faults
  <1>3. Alarm'
    BY ChildRests DEF MInv, Alarm, AtRest, Looking, Inserts, Moves, childVars, sharedVars,
                      processVars, faults
  <1>4. Faultless'
    BY <1>1, ChildRests DEF MInv, Types, Faultless, AtRest, Inserts, Moves, childVars,
                            sharedVars, faults
  <1>5. Waited'
    BY ChildRests DEF MInv, Types, Waited, AtRest, Looking, Inserts, Moves, childVars,
                      sharedVars, faults
  <1>6. Exclusive'
    BY DEF MInv, Coordinator, Exclusive, Reading, Inserts, Moves, childVars, sharedVars, monitorVars
  <1>7. QED BY <1>1, <1>2, <1>3, <1>4, <1>5, <1>6 DEF MInv

LEMMA LooksAgainKeeps ==
    ASSUME MInv, LooksAgain
    PROVE  MInv'
  <1>1. Types'
    BY Times DEF MInv, Types, Interruptible, LooksAgain, Moves, childVars, sharedVars, processVars,
                 faults
  <1>2. Coordinator'
    BY CoordinatorRests DEF MInv, Coordinator, childVars, sharedVars, processVars,
                            LooksAgain, Moves, faults
  <1>3. Alarm'
    BY ChildRests DEF MInv, Alarm, AtRest, Looking, LooksAgain, Moves, childVars, sharedVars,
                      processVars, faults
  <1>4. Faultless'
    BY <1>1, ChildRests DEF MInv, Types, Faultless, AtRest, LooksAgain, Moves, childVars,
                            sharedVars, processVars, faults
  <1>5. Waited'
    BY ChildRests DEF MInv, Types, Waited, AtRest, Looking, LooksAgain, Moves, childVars,
                      sharedVars, processVars, faults
  <1>6. Exclusive'
    BY DEF MInv, Coordinator, Exclusive, Reading, LooksAgain, Moves, childVars, sharedVars, monitorVars
  <1>7. QED BY <1>1, <1>2, <1>3, <1>4, <1>5, <1>6 DEF MInv

LEMMA OldDiesKeeps ==
    ASSUME MInv, OldDies
    PROVE  MInv'
  <1>1. Types'
    BY Times DEF MInv, Types, Interruptible, OldDies, monitorVars, childVars, sharedVars, processVars,
                 faults
  <1>2. Coordinator'
    BY CoordinatorRests DEF MInv, Coordinator, childVars, sharedVars, processVars,
                            OldDies, monitorVars, faults
  <1>3. Alarm'
    BY ChildRests DEF MInv, Alarm, AtRest, Looking, OldDies, monitorVars, childVars, sharedVars
  <1>4. Faultless'
    BY <1>1, ChildRests DEF MInv, Types, Faultless, AtRest, OldDies, monitorVars, childVars,
                            sharedVars, processVars, faults
  <1>5. Waited'
    BY ChildRests DEF MInv, Types, Waited, AtRest, Looking, OldDies, monitorVars, childVars,
                      sharedVars, processVars, faults
  <1>6. Exclusive'
    BY DEF MInv, Coordinator, Exclusive, Reading, OldDies, Moves, childVars, sharedVars, monitorVars
  <1>7. QED BY <1>1, <1>2, <1>3, <1>4, <1>5, <1>6 DEF MInv

LEMMA DecidesKeeps ==
    ASSUME MInv, Decides
    PROVE  MInv'
  <1>1. Types'
    BY Times DEF MInv, Types, Interruptible, Decides, childVars, sharedVars, processVars, faults
  <1>2. Coordinator'
    BY CoordinatorRests DEF MInv, Coordinator, childVars, sharedVars, processVars,
                            Decides, faults
  <1>3. Alarm'
    BY ChildRests DEF MInv, Alarm, AtRest, Looking, Decides, childVars, sharedVars, processVars,
                      faults
  <1>4. Faultless'
    <2>1. crashes + hangs = 0 => hosted /\ age < Limit
      BY LivingInTime DEF MInv, Faultless, AtRest, Looking, Decides
    <2>2. crashes' = crashes /\ hangs' = hangs
      BY DEF Decides, faults
    <2>3. crashes + hangs = 0 => loop' = "wait"
      BY <2>1, Times DEF MInv, Types, Interruptible, IsDeadLocked, Decides
    <2>4. QED BY <2>2, <2>3 DEF MInv, Faultless, AtRest, Decides, childVars, sharedVars,
                                processVars, faults
  <1>5. Waited'
    <2>1. child \in Living => hosted /\ age < Limit
      BY LivingInTime DEF MInv, Looking, Decides
    <2>2. loop' = "close" => hosted /\ age >= Limit
      BY DEF Decides, IsDeadLocked
    <2>3. loop' = "spawn" => ~hosted
      BY DEF Decides
    <2>4. age \in Nat /\ Limit \in Nat /\ loop' \in {"wait", "close", "spawn"} /\ loop = "found"
      BY Times DEF MInv, Types, Interruptible, Decides
    <2>5. hangs = 0 /\ loop' = "close" => ~signal /\ child = "dead"
      BY <2>1, <2>2, <2>4 DEF MInv, Types, Waited, AtRest, Looking, Living
    <2>6. UNCHANGED <<hangs, old, child, signal, hosted, age>>
      BY DEF Decides, childVars, sharedVars, processVars, faults
    <2>7. QED BY <2>3, <2>4, <2>5, <2>6 DEF MInv, Waited, AtRest, Looking
  <1>6. Exclusive'
    BY DEF MInv, Coordinator, Exclusive, Reading, Decides, Moves, childVars, sharedVars, monitorVars
  <1>7. QED BY <1>1, <1>2, <1>3, <1>4, <1>5, <1>6 DEF MInv

LEMMA LocksMemoryKeeps ==
    ASSUME MInv, LocksMemory
    PROVE  MInv'
  <1>0. /\ loop = "look" /\ loop' = "reading" /\ ~locked /\ locked'
        /\ UNCHANGED <<timerVars, childVars, memory, old, hosted, zombie, signal, resume,
                       seen, age, rest, crashes, hangs>>
    BY DEF LocksMemory, Moves, processVars, faults
  <1>1. Types'
    BY <1>0, MemoryRests DEF MInv, Types, Interruptible
  <1>2. Coordinator'
    BY <1>0, MemoryRests, CoordinatorRests DEF MInv, Coordinator
  <1>3. Looking
    BY <1>0 DEF Looking, Abandoned
  <1>4. Alarm'
    BY <1>0, <1>3, MemoryRests DEF MInv, Alarm, AtRest
  <1>5. Faultless' /\ Waited'
    BY <1>0, <1>3, MemoryRests DEF MInv, Faultless, Waited, AtRest
  <1>6. Exclusive'
    BY <1>0, MemoryRests DEF MInv, Coordinator, Exclusive
  <1>7. QED BY <1>1, <1>2, <1>4, <1>5, <1>6 DEF MInv

LEMMA CheckReporterKeeps ==
    ASSUME InTheLimit, MInv, CheckReporter
    PROVE  MInv'
  <1>0. /\ seen' = memory /\ age' = (IF memory # seen THEN 0 ELSE age)
        /\ loop = "reading" /\ loop' = "find" /\ locked' = FALSE
        /\ UNCHANGED <<timerVars, childVars, memory, old, hosted, zombie, signal, resume,
                       rest, crashes, hangs>>
    BY DEF CheckReporter, Moves, processVars, faults
  <1>1. Types'
    <2>1. age' \in 0 .. Limit
      BY <1>0, Times DEF MInv, Types
    <2>2. {tag', memory', seen'} \subseteq 0 .. TagModulus - 1
      BY <1>0, MemoryRests DEF MInv, Types
    <2>3. loop' \in Interruptible /\ {locked', old', hosted', zombie', signal'} \subseteq BOOLEAN
      BY <1>0 DEF MInv, Types, Interruptible
    <2>4. UNCHANGED <<child, startup, report, rest, resume, crashes, hangs>>
      BY <1>0, MemoryRests
    <2>5. QED BY <2>1, <2>2, <2>3, <2>4 DEF MInv, Types
  <1>2. Coordinator'
    <2>1. report # "locked"
      BY <1>0 DEF MInv, Exclusive, Reading
    <2>2. QED BY <1>0, <2>1, MemoryRests, CoordinatorRests DEF MInv, Coordinator
  <1>3. Alarm'
    <2>1. age \in Nat /\ age' \in Nat /\ age' <= age
      BY <1>0, Times DEF MInv, Types
    <2>2. ~(rest > 0)
      BY <1>0 DEF MInv, Alarm
    <2>3. CASE child \in Living
      <3>1. Looking
        BY <1>0 DEF Looking
      <3>2. Patient /\ hosted /\ (memory # tag => tag = FirstTag)
        BY <2>3, <3>1, LivingInTime DEF MInv, Alarm
      <3>3. NextTag \in Nat /\ NextTag <= StartTime + Period /\ NextTag' = NextTag
        BY <1>0, <2>3, NextTagBound, MemoryRests DEF MInv
      <3>4. age' < Limit
        BY <1>0, <3>2, Times DEF Patient
      <3>5. memory # tag => age' + NextTag <= StartTime + Period
        BY <1>0, <2>1, <3>2, <3>3, Times DEF Patient
      <3>6. memory = tag => age' + NextTag < Limit
        BY <1>0, <2>1, <3>2, <3>3, Times DEF Patient, InTheLimit
      <3>7. Patient'
        BY <1>0, <3>2, <3>3, <3>4, <3>5, <3>6, MemoryRests DEF Patient
      <3>8. QED BY <1>0, <2>2, <3>2, <3>7, MemoryRests DEF Alarm, AtRest
    <2>4. CASE child \notin Living
      BY <1>0, <2>2, <2>4, MemoryRests DEF Alarm, AtRest
    <2>5. QED BY <2>3, <2>4
  <1>4. Faultless'
    BY <1>0, MemoryRests DEF MInv, Faultless, AtRest
  <1>5. Waited'
    <2>1. Looking
      BY <1>0 DEF Looking
    <2>2. age \in Nat /\ age' \in Nat /\ age' <= age /\ Limit \in Nat
      BY <1>0, Times DEF MInv, Types
    <2>3. QED BY <1>0, <2>1, <2>2, MemoryRests DEF MInv, Waited, AtRest
  <1>6. Exclusive'
    BY <1>0 DEF Exclusive, Reading
  <1>7. QED BY <1>1, <1>2, <1>3, <1>4, <1>5, <1>6 DEF MInv

LEMMA RestartedKeeps ==
    ASSUME InTheLimit, MInv, Restarted
    PROVE  MInv'
  <1>1. Types'
    BY Times DEF MInv, Types, Interruptible, Restarted, Moves, childVars, sharedVars, processVars,
                 faults
  <1>2. Coordinator'
    BY CoordinatorRests DEF MInv, Coordinator, childVars, sharedVars, processVars,
                            Restarted, Moves, faults
  <1>3. Alarm'
    <2>1. /\ age' = 0 /\ rest' = Rest /\ loop = "inserted" /\ loop' = "wait" /\ seen' = seen
          /\ UNCHANGED <<timerVars, childVars, sharedVars, hosted>>
      BY DEF Restarted, Moves, processVars
    <2>2. hosted /\ (child \in Living /\ memory # tag => tag = FirstTag)
      BY <2>1 DEF MInv, Alarm, AtRest
    <2>3. CASE child \in Living
      <3>1. NextTag \in Nat /\ NextTag <= StartTime + Period /\ NextTag' = NextTag
        BY <2>1, <2>3, NextTagBound, ChildRests DEF MInv
      <3>2. Patient'
        BY <2>1, <2>2, <2>3, <3>1, ChildRests, Times DEF Patient, InTheLimit
      <3>3. QED BY <2>1, <2>2, <3>2, ChildRests, Times DEF Alarm, AtRest
    <2>4. CASE child \notin Living
      BY <2>1, <2>2, <2>4, ChildRests, Times DEF Alarm, AtRest
    <2>5. QED BY <2>3, <2>4
  <1>4. Faultless'
    BY <1>1, ChildRests DEF MInv, Types, Faultless, AtRest, Restarted, Moves, childVars,
                            sharedVars, processVars, faults
  <1>5. Waited'
    <2>1. age' = 0 /\ Limit > 0
      BY Times DEF Restarted
    <2>2. hosted /\ hosted' = hosted
      BY DEF MInv, Alarm, AtRest, Restarted, Moves, processVars
    <2>3. QED BY <2>1, <2>2 DEF MInv, Waited, AtRest, Restarted, Moves, childVars, sharedVars,
                                processVars, faults
  <1>6. Exclusive'
    BY DEF MInv, Coordinator, Exclusive, Reading, Restarted, Moves, childVars, sharedVars, monitorVars
  <1>7. QED BY <1>1, <1>2, <1>3, <1>4, <1>5, <1>6 DEF MInv

LEMMA HandlesSignalKeeps ==
    ASSUME MInv, HandlesSignal
    PROVE  MInv'
  <1>0. /\ signal /\ signal' = FALSE /\ zombie' = FALSE /\ loop \notin {"handler", "mutex"}
        /\ hosted' \in BOOLEAN /\ (hosted' = hosted \/ child = "dead")
        /\ \/ HoldsMutex /\ loop' = "mutex" /\ resume' = resume
           \/ ~HoldsMutex /\ loop' = "handler" /\ resume' = loop /\ Remaining
           \/ ~HoldsMutex /\ loop' = loop /\ resume' = resume
        /\ UNCHANGED <<timerVars, childVars, sharedVars, old, seen, age, rest, crashes, hangs>>
    BY DEF HandlesSignal, MInv, Types, Coordinator, faults
  <1>1. Types'
    BY <1>0, ChildRests DEF MInv, Types, Interruptible, HoldsMutex
  <1>2. Coordinator'
    BY <1>0, ChildRests, CoordinatorRests DEF MInv, Coordinator
  <1>3. Alarm'
    BY <1>0, ChildRests DEF MInv, Alarm, AtRest, Looking, Living, HoldsMutex
  <1>4. Faultless'
    BY <1>0 DEF MInv, Types, Faultless
  <1>5. Waited'
    <2>1. hangs = 0 => child = "dead" /\ ~old
      BY <1>0 DEF MInv, Waited
    <2>2. hangs = 0 => loop' # "handler"
      BY <1>0, <2>1 DEF Remaining, Living
    <2>3. QED BY <1>0, <2>1, <2>2, ChildRests DEF MInv, Waited, AtRest
  <1>6. Exclusive'
    BY <1>0, ChildRests DEF MInv, Exclusive, Reading, HoldsMutex
  <1>7. QED BY <1>1, <1>2, <1>3, <1>4, <1>5, <1>6 DEF MInv

(* When the handler ends, no child is left.                                *)
LEMMA HandlerEndsKeeps ==
    ASSUME MInv, HandlerEnds
    PROVE  MInv'
  <1>0. /\ loop = "handler" /\ loop' = resume /\ resume' = "look"
        /\ signal' = FALSE /\ zombie' = FALSE /\ hosted' \in BOOLEAN /\ child \notin Living
        /\ UNCHANGED <<timerVars, childVars, sharedVars, old, seen, age, rest, crashes, hangs>>
    BY DEF HandlerEnds, MInv, Types, Remaining, faults
  <1>1. Types'
    BY <1>0, ChildRests DEF MInv, Types, Interruptible
  <1>2. Coordinator'
    BY <1>0, ChildRests, CoordinatorRests DEF MInv, Coordinator
  <1>3. Alarm'
    BY <1>0, ChildRests DEF MInv, Types, Interruptible, Alarm
  <1>4. Faultless' /\ Waited'
    BY <1>0 DEF MInv, Faultless, Waited, AtRest
  <1>5. Exclusive'
    BY <1>0, ChildRests DEF MInv, Exclusive, Reading
  <1>6. QED BY <1>1, <1>2, <1>3, <1>4, <1>5 DEF MInv

LEMMA StartsKeeps ==
    ASSUME MInv, Starts
    PROVE  MInv'
  <1>1. Types'
    BY Times DEF MInv, Types, Interruptible, Starts, sharedVars, processVars, monitorVars, faults
  <1>2. Coordinator'
    BY CoordinatorRests DEF MInv, Coordinator, childVars, sharedVars, processVars,
                            Starts, monitorVars, faults
  <1>3. Alarm'
    <2>1. /\ child = "starting" /\ child' = "running" /\ startup = 0
          /\ UNCHANGED <<timerVars, tag, report, memory, locked, hosted, loop, resume, seen,
                         age, rest>>
      BY DEF Starts, sharedVars, processVars, monitorVars
    <2>2. Reporting' = Reporting /\ ~Reporting /\ report = "no" /\ left' = left /\ child \in Living
      BY <2>1 DEF timerVars, Reporting, MInv, Coordinator, Living
    <2>3. NextTag \in Nat /\ NextTag = Period
      BY <2>1, <2>2, NextTagBound, Times DEF MInv, NextTag
    <2>4. NextTag' \in Nat /\ NextTag' <= Period
      <3>1. child' \in Living /\ child' = "running"
        BY <2>1 DEF Living
      <3>2. NextTag' = left[Report] + MaxLate(Report) + Cost[Report]
        BY <2>1, <2>2 DEF NextTag
      <3>3. left[Report] \in Int /\ left[Report] <= Wait[Report]
        BY <2>2, NextTagBound, Times DEF MInv, Coordinator
      <3>4. NextTag' \in Nat
        BY <1>1, <1>2, <3>1, NextTagBoundNext
      <3>5. QED BY <3>2, <3>3, <3>4, Times
    <2>5. Looking' = Looking
      BY <2>1, <2>2 DEF Looking, Abandoned
    <2>6. age \in Nat /\ age' = age
      BY <2>1, Times DEF MInv, Types
    <2>7. Looking' => Patient'
      <3> SUFFICES ASSUME Looking' PROVE Patient'
        OBVIOUS
      <3>1. Patient
        BY <2>2, <2>5, LivingInTime
      <3>2. PICK n, m \in Nat : n = NextTag /\ m = NextTag' /\ m <= n
        BY <2>3, <2>4
      <3>3. Ahead1' = Ahead1 /\ Ahead2' = Ahead2
        BY <2>1, <2>2 DEF Ahead1, Ahead2
      <3>4. UNCHANGED <<tag, memory, seen, age>>
        BY <2>1
      <3>5. memory # tag => age + m <= StartTime + Period
        BY <3>1, <3>2, <2>6, Times DEF Patient
      <3>6. memory = tag /\ memory = seen => age + m < Limit
        <4> SUFFICES ASSUME memory = tag /\ memory = seen PROVE age + m < Limit
          OBVIOUS
        <4>1. age + NextTag < Limit
          BY <3>1 DEF Patient
        <4>2. age + n < Limit
          BY <4>1, <3>2
        <4>3. m <= n /\ age \in Nat /\ Limit \in Nat
          BY <3>2, <2>6, Times
        <4>4. QED BY <4>2, <4>3
      <3>7. QED BY <3>1, <3>2, <3>3, <3>4, <3>5, <3>6 DEF Patient
    <2>8. QED BY <2>1, <2>2, <2>7 DEF MInv, Alarm, AtRest
  <1>4. Faultless'
    BY DEF MInv, Faultless, AtRest, Starts, Living, sharedVars, processVars, monitorVars,
           faults
  <1>5. Waited'
    BY DEF MInv, Waited, AtRest, Looking, Starts, Living, Abandoned, sharedVars, processVars,
           monitorVars, faults
  <1>6. Exclusive'
    BY DEF MInv, Coordinator, Exclusive, Reading, Starts, Moves, childVars, sharedVars, monitorVars
  <1>7. QED BY <1>1, <1>2, <1>3, <1>4, <1>5, <1>6 DEF MInv

LEMMA HangsKeeps ==
    ASSUME MInv, Hangs
    PROVE  MInv'
  <1>1. Types'
    BY Times DEF MInv, Types, Interruptible, Hangs, sharedVars, processVars, monitorVars
  <1>2. Coordinator'
    BY CoordinatorRests DEF MInv, Coordinator, childVars, sharedVars, processVars,
                            Hangs, monitorVars
  <1>3. Alarm'
    BY DEF MInv, Alarm, AtRest, Hangs, Living, sharedVars, processVars, monitorVars
  <1>4. Faultless'
    BY <1>1, Times DEF MInv, Types, Faultless, AtRest, Hangs
  <1>5. Waited'
    BY Times DEF MInv, Types, Waited, AtRest, Hangs
  <1>6. Exclusive'
    BY DEF MInv, Coordinator, Exclusive, Reading, Hangs, Moves, childVars, sharedVars, monitorVars
  <1>7. QED BY <1>1, <1>2, <1>3, <1>4, <1>5, <1>6 DEF MInv

LEMMA CrashesKeeps ==
    ASSUME MInv, Crashes
    PROVE  MInv'
  <1>1. Types'
    BY Times DEF MInv, Types, Interruptible, Crashes, sharedVars, processVars, monitorVars
  <1>2. Coordinator'
    BY CoordinatorRests DEF MInv, Coordinator, childVars, sharedVars, processVars,
                            Crashes, monitorVars
  <1>3. Alarm'
    BY DEF MInv, Alarm, AtRest, Crashes, Living, sharedVars, processVars, monitorVars
  <1>4. Faultless'
    BY <1>1, Times DEF MInv, Types, Faultless, AtRest, Crashes
  <1>5. Waited'
    <2>1. Looking' => Looking
      BY DEF Crashes, Looking, Abandoned, sharedVars, processVars, monitorVars
    <2>2. Looking => age < Limit
      BY LivingInTime DEF Crashes
    <2>3. loop \in AtRest => hosted
      BY DEF MInv, Alarm, AtRest, Crashes
    <2>4. /\ child' = "dead" /\ child \in Living
          /\ UNCHANGED <<hangs, old, loop, hosted, age>>
      BY DEF Crashes, sharedVars, processVars, monitorVars
    <2>5. hangs = 0 => loop \notin {"close", "killed", "spawn", "handler"} /\ ~old
      BY <2>4 DEF MInv, Waited, AtRest, Living
    <2>6. QED BY <2>1, <2>2, <2>3, <2>4, <2>5 DEF Waited, AtRest
  <1>6. Exclusive'
    BY DEF MInv, Coordinator, Exclusive, Reading, Crashes, Moves, childVars, sharedVars, monitorVars
  <1>7. QED BY <1>1, <1>2, <1>3, <1>4, <1>5, <1>6 DEF MInv

LEMMA CloseChildKeeps ==
    ASSUME MInv, CloseChild
    PROVE  MInv'
  <1>1. Types'
    BY Times DEF MInv, Types, Interruptible, CloseChild, Moves, sharedVars, faults
  <1>2. Coordinator'
    BY CoordinatorRests DEF MInv, Coordinator, childVars, sharedVars, processVars,
                            CloseChild, Moves, faults
  <1>3. Alarm'
    BY DEF MInv, Alarm, AtRest, CloseChild, Moves, Living
  <1>4. Faultless'
    BY DEF MInv, Faultless, AtRest, CloseChild, Moves, faults
  <1>5. Waited'
    BY DEF MInv, Waited, AtRest, Looking, CloseChild, Moves, faults
  <1>6. Exclusive'
    BY DEF MInv, Coordinator, Exclusive, Reading, CloseChild, Moves, childVars, sharedVars, monitorVars
  <1>7. QED BY <1>1, <1>2, <1>3, <1>4, <1>5, <1>6 DEF MInv

(* The coordinator adds each of its timers once. *)
LEMMA ListOfTimers ==
    /\ <<Report, Cleanup>> \in Seq(Timers) /\ IsInjective(<<Report, Cleanup>>)
    /\ Range(<<Report, Cleanup>>) = Timers
  <1> DEFINE added == <<Report, Cleanup>>
  <1>1. Report \in Timers /\ Cleanup \in Timers /\ Report # Cleanup
    BY Times
  <1>2. added \in Seq(Timers) /\ DOMAIN added = 1 .. 2 /\ added[1] = Report /\ added[2] = Cleanup
    BY <1>1
  <1>3. DOMAIN added = {1, 2}
    BY <1>2
  <1> HIDE DEF added
  <1>4. IsInjective(added) /\ Range(added) = Timers
    BY <1>1, <1>2, <1>3, Times DEF IsInjective, Range
  <1>5. QED BY <1>2, <1>4 DEF added

(* A new coordinator starts with its timers in order. *)
LEMMA StartsNext ==
    (TimerInit(<<Report, Cleanup>>) => IInv /\ Range(list) = Timers)'
  <1>1. TimerInit(<<Report, Cleanup>>) => IInv /\ Range(list) = Timers
    BY ListOfTimers, TimersStart
  <1>2. QED BY <1>1, PTL

LEMMA SpawnsKeeps ==
    ASSUME MInv, Spawns
    PROVE  MInv'
  <1>1. Types'
    <2>1. startup' \in 0 .. StartTime /\ FirstTag \in 0 .. TagModulus - 1
      BY Times DEF Spawns, FirstTag
    <2>2. /\ tag' = FirstTag /\ child' = "starting" /\ report' = "no" /\ loop' = "spawned"
          /\ hosted' = FALSE /\ zombie' = FALSE /\ hosted' \in BOOLEAN /\ zombie' \in BOOLEAN
          /\ UNCHANGED <<memory, locked, old, signal, resume, seen, age, rest, crashes,
                         hangs>>
      BY DEF Spawns, Moves, sharedVars, faults
    <2>3. QED BY <2>1, <2>2 DEF MInv, Types, Interruptible
  <1>2. Coordinator'
    <2>2. adding' = None /\ ~spinning'
      BY DEF Spawns, MInv, Coordinator
    <2>3. TimerInit(<<Report, Cleanup>>)'
      BY <2>2, ListOfTimers DEF TimerInit, Spawns
    <2>4. IInv' /\ Range(list)' = Timers
      BY <2>3, StartsNext
    <2>5. Range(list') = Timers
      BY <2>4
    <2>6. \A t \in Timers : left'[t] <= Wait[t]
      BY Bounds DEF Spawns
    <2>7. /\ pc' = "unstarted" /\ child' = "starting" /\ report' = "no" /\ ~zombie'
      BY DEF Spawns
    <2>8. QED BY <2>2, <2>4, <2>5, <2>6, <2>7 DEF Coordinator
  <1>3. Alarm'
    BY DEF MInv, Alarm, AtRest, Looking, Spawns, Moves, sharedVars, faults
  <1>4. Faultless'
    BY DEF MInv, Faultless, AtRest, Spawns, Moves, faults
  <1>5. Waited'
    BY DEF MInv, Waited, AtRest, Looking, Spawns, Moves, faults
  <1>6. Exclusive'
    BY DEF MInv, Coordinator, Exclusive, Reading, Spawns, Moves, childVars, sharedVars, monitorVars
  <1>7. QED BY <1>1, <1>2, <1>3, <1>4, <1>5, <1>6 DEF MInv

LEMMA ChildLocksKeeps ==
    ASSUME MInv, ChildLocks
    PROVE  MInv'
  <1>1. Types'
    BY Times DEF MInv, Types, Interruptible, ChildLocks, processVars, monitorVars, faults
  <1>2. Coordinator'
    BY CoordinatorRests DEF MInv, Coordinator, childVars, sharedVars, processVars,
                            ChildLocks, monitorVars, faults
  <1>3. Alarm'
    <2>1. /\ child = "running" /\ Reporting /\ report = "no" /\ report' = "locked" /\ ~locked
          /\ UNCHANGED <<timerVars, child, startup, tag, memory, hosted, loop, resume, seen,
                         age, rest>>
      BY DEF ChildLocks, processVars, monitorVars
    <2>2. Reporting' = Reporting /\ left' = left /\ elapsed' = elapsed
      BY <2>1 DEF timerVars, Reporting
    <2>3. NextTag' = NextTag
      BY <2>1, <2>2 DEF NextTag
    <2>4. Looking' => Looking
      BY <2>1 DEF Looking, Abandoned
    <2>5. Ahead1' = Ahead1 /\ ~Ahead2
      BY <2>1, <2>2 DEF Ahead1, Ahead2
    <2>6. Patient => Patient'
      BY <2>1, <2>3, <2>5 DEF Patient
    <2>7. QED BY <2>1, <2>4, <2>6 DEF MInv, Alarm, AtRest, Living
  <1>4. Faultless'
    BY DEF MInv, Faultless, AtRest, ChildLocks, processVars, monitorVars, faults
  <1>5. Waited'
    BY DEF MInv, Waited, AtRest, Looking, ChildLocks, Abandoned, processVars, monitorVars,
           faults
  <1>6. Exclusive'
    BY DEF MInv, Coordinator, Exclusive, Reading, ChildLocks, Moves, childVars, sharedVars, monitorVars
  <1>7. QED BY <1>1, <1>2, <1>3, <1>4, <1>5, <1>6 DEF MInv

(* A step of the timers brings the next tag no further away. *)
LEMMA ChildRunsKeeps ==
    ASSUME MInv, ChildRuns
    PROVE  MInv'
  <1>1. Types'
    BY Times DEF MInv, Types, Interruptible, ChildRuns, sharedVars, processVars, monitorVars, faults
  <1>2. Coordinator'
    <2>1. /\ child = "running" /\ RunnerStep /\ report' = "no" /\ (Reporting => report = "done")
          /\ UNCHANGED <<child, zombie>>
      BY DEF ChildRuns, MInv, Coordinator, processVars
    <2>2. QED BY <2>1, RunnerSteps DEF MInv, Coordinator
  <1>3. Alarm'
    <2>1. /\ child = "running" /\ child \in Living /\ RunnerStep /\ report' = "no"
          /\ (Reporting => report = "done") /\ report # "locked"
          /\ UNCHANGED <<child, startup, tag, memory, locked, hosted, loop, resume, seen, age,
                         rest>>
      BY DEF ChildRuns, MInv, Coordinator, Living, sharedVars, processVars, monitorVars
    <2>2. /\ ~Reporting /\ ~Reporting' => left'[Report] = left[Report]
          /\ ~Reporting /\ Reporting' => left[Report] <= 0 /\ left' = left /\ elapsed' = 0
          /\ Reporting => ~Reporting' /\ left'[Report] = Wait[Report] - elapsed
      BY <2>1, RunnerSteps DEF MInv
    <2>3. /\ NextTag \in Nat /\ left[Report] \in Int /\ elapsed \in Nat
          /\ (~Reporting => left[Report] >= -MaxLate(Report))
      BY <2>1, NextTagBound DEF MInv
    <2>4. NextTag' \in Nat
      BY <1>1, <1>2, <2>1, NextTagBoundNext
    <2>5. NextTag' <= NextTag
      <3>1. CASE ~Reporting /\ ~Reporting'
        BY <3>1, <2>1, <2>2, <2>3 DEF NextTag
      <3>2. CASE ~Reporting /\ Reporting'
        <4>1. NextTag = left[Report] + MaxLate(Report) + Cost[Report]
          BY <3>2, <2>1 DEF NextTag
        <4>2. NextTag' = Cost[Report]
          BY <3>2, <2>1, <2>2, Times DEF NextTag
        <4>3. QED BY <4>1, <4>2, <3>2, <2>3, Times
      <3>3. CASE Reporting
        <4>1. NextTag = Period - elapsed
          BY <3>3, <2>1 DEF NextTag
        <4>2. NextTag' = left'[Report] + MaxLate(Report) + Cost[Report]
          BY <3>3, <2>1, <2>2 DEF NextTag
        <4>3. NextTag' = Wait[Report] - elapsed + MaxLate(Report) + Cost[Report]
          BY <4>2, <3>3, <2>2
        <4>4. QED BY <4>1, <4>3, <2>3, Times
      <3>4. QED BY <3>1, <3>2, <3>3
    <2>6. Ahead1 => Ahead1'
      BY <2>1, <2>2 DEF Ahead1
    <2>7. Ahead2 => Ahead2'
      <3> SUFFICES ASSUME Ahead2 PROVE Ahead2'
        OBVIOUS
      <3>1. memory' = memory /\ seen' = seen
        BY <2>1
      <3>2. CASE Reporting
        BY <3>1, <3>2, <2>2, <2>3, Times DEF Ahead2
      <3>3. CASE ~Reporting
        <4>1. left[Report] >= 1
          BY <3>3 DEF Ahead2
        <4>2. ~Reporting' /\ left'[Report] = left[Report]
          BY <4>1, <3>3, <2>2, <2>3
        <4>3. QED BY <4>1, <4>2, <3>1, <3>3 DEF Ahead2
      <3>4. QED BY <3>2, <3>3
    <2>8. Looking' => Looking
      BY <2>1 DEF Looking, Abandoned
    <2>9. Looking' => Patient'
      <3> SUFFICES ASSUME Looking' PROVE Patient'
        OBVIOUS
      <3>1. Patient /\ age \in Nat
        BY <2>1, <2>8, LivingInTime, Times DEF MInv, Types
      <3>2. PICK n, m \in Nat : n = NextTag /\ m = NextTag' /\ m <= n
        BY <2>3, <2>4, <2>5
      <3>3. UNCHANGED <<tag, memory, seen, age>>
        BY <2>1
      <3>4. memory # tag => age + m <= StartTime + Period
        BY <3>1, <3>2, Times DEF Patient
      <3>5. memory = tag /\ memory = seen => age + m < Limit
        <4>1. memory = tag /\ memory = seen => age + n < Limit
          BY <3>1, <3>2 DEF Patient
        <4>2. QED BY <4>1, <3>1, <3>2, Times
      <3>6. QED BY <3>1, <3>2, <3>3, <3>4, <3>5, <2>6, <2>7 DEF Patient
    <2>10. QED BY <2>1, <2>9 DEF MInv, Alarm, AtRest
  <1>4. Faultless'
    BY DEF MInv, Faultless, AtRest, ChildRuns, Coordinator, sharedVars, processVars,
           monitorVars, faults
  <1>5. Waited'
    BY DEF MInv, Waited, AtRest, Looking, ChildRuns, Abandoned, Coordinator, sharedVars,
           processVars, monitorVars, faults
  <1>6. Exclusive'
    BY DEF MInv, Coordinator, Exclusive, Reading, ChildRuns, Moves, childVars, sharedVars, monitorVars
  <1>7. QED BY <1>1, <1>2, <1>3, <1>4, <1>5, <1>6 DEF MInv

(* The tag written is the first after the one the monitor saw, or the      *)
(* second, written before time passes.                                     *)
LEMMA ReportKeeps ==
    ASSUME InTheLimit, MInv, ReportToAppMonitor
    PROVE  MInv'
  <1>1. Types'
    <2>1. (tag + 1) % TagModulus \in 0 .. TagModulus - 1
      BY TagsDiffer DEF MInv, Types
    <2>2. QED BY <2>1 DEF MInv, Types, Interruptible, ReportToAppMonitor, processVars, monitorVars,
                          faults
  <1>2. Coordinator'
    BY CoordinatorRests DEF MInv, Coordinator, childVars, sharedVars, processVars,
                            ReportToAppMonitor, monitorVars, faults
  <1>3. Alarm'
    <2>1. /\ child = "running" /\ child \in Living /\ report = "locked" /\ Reporting /\ locked
          /\ tag' = (tag + 1) % TagModulus /\ memory' = tag' /\ report' = "done" /\ ~locked'
          /\ UNCHANGED <<timerVars, child, startup, hosted, loop, resume, seen, age, rest>>
      BY DEF ReportToAppMonitor, MInv, Coordinator, Living, processVars, monitorVars
    <2>2. Reporting' /\ left' = left /\ elapsed' = elapsed
      BY <2>1 DEF timerVars, Reporting
    <2>3. NextTag \in Nat /\ NextTag = Cost[Report] - elapsed /\ elapsed \in Nat
      BY <2>1, NextTagBound DEF MInv, NextTag
    <2>4. NextTag' = Period - elapsed
      BY <2>1, <2>2 DEF NextTag
    <2>5. Looking' => Looking
      BY <2>1 DEF Looking, Abandoned
    <2>6. Looking' => Patient'
      <3> SUFFICES ASSUME Looking' PROVE Patient'
        OBVIOUS
      <3>1. Patient /\ age \in Nat /\ age < Limit
        BY <2>1, <2>5, LivingInTime, Times DEF MInv, Types
      <3>2. tag \in 0 .. TagModulus - 1 /\ seen \in 0 .. TagModulus - 1
        BY DEF MInv, Types
      <3>3. PICK n \in Int : n = NextTag' /\ n <= Period
        BY <2>3, <2>4, Times
      <3>4. age' = age /\ seen' = seen /\ memory' = tag'
        BY <2>1
      <3>5. CASE age + Period < Limit
        <4>1. age + n < Limit
          BY <3>1, <3>3, <3>5, Times
        <4>2. QED BY <4>1, <3>1, <3>3, <3>4, <3>5 DEF Patient
      <3>6. CASE memory # tag
        <4>1. age + NextTag <= StartTime + Period
          BY <3>1, <3>6 DEF Patient
        <4>2. age + Period < Limit
          BY <4>1, <2>3, <3>1, Times DEF InTheLimit
        <4>3. QED BY <4>2, <3>5
      <3>7. CASE memory = tag /\ memory = seen
        <4>1. memory' # seen
          BY <3>2, <3>7, <2>1, TagsDiffer
        <4>2. Ahead1'
          BY <3>4, <3>7, <2>1, <2>2 DEF Ahead1
        <4>3. QED BY <4>1, <4>2, <3>1, <3>4 DEF Patient
      <3>8. CASE memory = tag /\ Ahead1
        <4>1. memory = (seen + 1) % TagModulus /\ elapsed = 0
          BY <3>8, <2>1 DEF Ahead1
        <4>2. memory' # seen /\ memory' = (seen + 2) % TagModulus
          BY <4>1, <3>2, <3>8, <2>1, TagsDiffer
        <4>3. Ahead2'
          BY <4>1, <4>2, <3>4, <2>1, <2>2 DEF Ahead2
        <4>4. QED BY <4>2, <4>3, <3>1, <3>4 DEF Patient
      <3>9. CASE Ahead2
        BY <3>9, <2>1 DEF Ahead2
      <3>10. QED BY <3>1, <3>5, <3>6, <3>7, <3>8, <3>9 DEF Patient
    <2>7. QED BY <2>1, <2>6 DEF MInv, Alarm, AtRest
  <1>4. Faultless'
    BY DEF MInv, Faultless, AtRest, ReportToAppMonitor, processVars, monitorVars, faults
  <1>5. Waited'
    BY DEF MInv, Waited, AtRest, Looking, ReportToAppMonitor, Abandoned, processVars,
           monitorVars, faults
  <1>6. Exclusive'
    BY DEF MInv, Coordinator, Exclusive, Reading, ReportToAppMonitor, Moves, childVars, sharedVars, monitorVars
  <1>7. QED BY <1>1, <1>2, <1>3, <1>4, <1>5, <1>6 DEF MInv

(* Time makes the last report older and the next tag closer. *)
LEMMA TickKeeps ==
    ASSUME InTheLimit, MInv, Tick
    PROVE  MInv'
  <1> DEFINE ChildTicks == /\ child = "running" /\ report # "locked" /\ ~Waiting
                           /\ Ticks /\ startup' = startup
             ChildStarts == /\ child = "starting" /\ startup > 0 /\ startup' = startup - 1
                        /\ UNCHANGED timerVars
             ChildGone == /\ child \in {"hung", "dead"} \/ (child = "running" /\ Waiting)
                          /\ startup' = startup /\ UNCHANGED timerVars
  <1>1. /\ signal => Stuck
        /\ MonitorSleeps
        /\ age' = IF age < Limit THEN age + 1 ELSE age
        /\ rest' = IF loop = "wait" /\ rest > 0 THEN rest - 1 ELSE rest
        /\ loop' = IF loop = "wait" /\ rest' = 0 THEN "look" ELSE loop
        /\ UNCHANGED <<child, tag, report, memory, locked, old, hosted, zombie, signal, resume,
                       seen, crashes, hangs>>
    BY DEF Tick, sharedVars, processVars, faults
  <1>2. ChildTicks \/ ChildStarts \/ ChildGone
    BY DEF Tick
  <1>3. /\ startup \in Nat /\ startup <= StartTime /\ rest \in Nat /\ rest <= Rest
        /\ age \in Nat /\ age <= Limit
    BY Times DEF MInv, Types
  <1>4. startup' \in 0 .. StartTime
    BY <1>2, <1>3, Times
  <1>5. rest' \in 0 .. Rest /\ age' \in 0 .. Limit
    BY <1>1, <1>3, Times
  <1>6. /\ loop \in {"look", "wait", "handler", "mutex"}
        /\ loop' \in {"look", "wait", "handler", "mutex"}
        /\ loop' \in {"look", "wait"} <=> loop \in {"look", "wait"}
        /\ loop' = "handler" <=> loop = "handler"
    BY <1>1 DEF MonitorSleeps, Stuck
  <1>7. Types'
    BY <1>1, <1>4, <1>5, <1>6 DEF MInv, Types, Interruptible
  <1>8. child \in Living =>
           /\ NextTag \in Nat /\ (~Abandoned => ~ChildGone)
           /\ ChildTicks /\ ~Reporting => left[Report] >= -MaxLate(Report)
    BY NextTagBound DEF MInv, Living, Waiting, Abandoned
  <1>9. Coordinator' /\ Reporting' = Reporting
    <2>1. CASE ChildTicks
      <3>1. ~Reporting => left[Report] >= -MaxLate(Report)
        BY <1>8, <2>1 DEF Living
      <3>2. /\ IInv' /\ adding' = None /\ ~spinning' /\ Range(list') = Timers
            /\ (\A t \in Timers : left'[t] <= Wait[t])
            /\ pc' = pc /\ running' = running /\ Reporting' = Reporting
        BY <2>1, <3>1, TickSteps DEF MInv
      <3>3. Range(list)' = Timers /\ (\A t \in Timers : left[t] <= Wait[t])'
        BY <3>2
      <3>4. QED BY <1>1, <3>2, <3>3 DEF MInv, Coordinator
    <2>2. CASE UNCHANGED timerVars
      BY <1>1, <2>2, CoordinatorRests DEF MInv, Coordinator
    <2>3. QED BY <1>2, <2>1, <2>2
  <1>10. child \in Living /\ ~Abandoned =>
            NextTag' = NextTag - 1 /\ NextTag' \in Nat /\ NextTag \in Nat
    <2> SUFFICES ASSUME child \in Living, ~Abandoned PROVE NextTag' = NextTag - 1
      BY <1>1, <1>7, <1>8, <1>9, NextTagBoundNext
    <2>1. CASE ChildStarts
      <3>1. NextTag = startup + Period /\ NextTag' = startup' + Period
        BY <1>1, <2>1 DEF NextTag
      <3>2. QED BY <3>1, <2>1, <1>3, Times
    <2>2. CASE ChildTicks
      <3>1. /\ ~Reporting => left'[Report] = left[Report] - 1
            /\ Reporting => elapsed' = elapsed + 1
        BY <2>2, <1>8, TickSteps DEF MInv
      <3>2. left[Report] \in Int /\ elapsed \in Nat
        BY NextTagBound DEF MInv
      <3>3. CASE ~Reporting
        <4>1. /\ NextTag = left[Report] + MaxLate(Report) + Cost[Report]
              /\ NextTag' = left'[Report] + MaxLate(Report) + Cost[Report]
          BY <1>1, <1>9, <2>2, <3>3 DEF NextTag
        <4>2. left'[Report] = left[Report] - 1
          BY <3>1, <3>3
        <4>3. QED BY <4>1, <4>2, <3>2, Times
      <3>4. CASE Reporting /\ report = "done"
        <4>1. NextTag = Period - elapsed /\ NextTag' = Period - elapsed'
          BY <1>1, <1>9, <2>2, <3>4 DEF NextTag
        <4>2. QED BY <4>1, <3>1, <3>2, <3>4, Times
      <3>5. CASE Reporting /\ report # "done"
        <4>1. NextTag = Cost[Report] - elapsed /\ NextTag' = Cost[Report] - elapsed'
          BY <1>1, <1>9, <2>2, <3>5 DEF NextTag
        <4>2. QED BY <4>1, <3>1, <3>2, <3>5, Times
      <3>6. QED BY <3>3, <3>4, <3>5
    <2>3. QED BY <1>2, <1>8, <2>1, <2>2
  <1>11. Alarm'
    <2>1. child \in Living /\ loop' = "wait" /\ rest' > 0 => age' + rest' <= Rest
      <3>1. child \in Living /\ loop = "wait" /\ rest > 0 => age + rest <= Rest
        BY DEF MInv, Alarm
      <3>2. QED BY <1>1, <1>3, <3>1, Times
    <2>2. ASSUME child \in Living, Looking' PROVE Patient'
      <3>1. ~Abandoned /\ loop \in {"look", "wait"}
        BY <1>1, <1>6, <2>2 DEF Looking, Abandoned
      <3>2. loop = "wait" /\ (rest > 0 \/ memory = seen)
        BY <1>1, <1>2, <1>8, <2>2, <3>1 DEF MonitorSleeps, Stuck, Abandoned
      <3>3. Patient /\ age < Limit
        BY <2>2, <3>1, LivingInTime DEF Looking
      <3>4. PICK n, m \in Nat : n = NextTag /\ m = NextTag' /\ m = n - 1
        BY <1>10, <2>2, <3>1
      <3>5. age' = age + 1 /\ memory' = memory /\ tag' = tag /\ seen' = seen
        BY <1>1, <3>3
      <3>6. CASE memory # tag
        <4>1. tag = FirstTag /\ age + n <= StartTime + Period
          BY <3>3, <3>4, <3>6 DEF Patient
        <4>2. age' + m <= StartTime + Period /\ age' < Limit
          BY <4>1, <3>4, <3>5, <1>3, Times DEF InTheLimit
        <4>3. QED BY <4>1, <4>2, <3>4, <3>5, <3>6 DEF Patient
      <3>7. CASE memory = tag /\ memory = seen
        <4>1. age + n < Limit
          BY <3>3, <3>4, <3>7 DEF Patient
        <4>2. age' + m < Limit /\ age' < Limit
          BY <4>1, <3>4, <3>5, <1>3, Times
        <4>3. QED BY <4>2, <3>4, <3>5, <3>7 DEF Patient
      <3>8. CASE memory = tag /\ memory # seen
        <4>1. rest > 0 /\ age + rest <= Rest
          BY <2>2, <3>2, <3>8 DEF MInv, Alarm
        <4>2. age' + Period < Limit /\ age' < Limit
          BY <4>1, <3>5, <1>3, Times DEF InTheLimit
        <4>3. QED BY <4>2, <3>5, <3>8 DEF Patient
      <3>9. QED BY <3>6, <3>7, <3>8
    <2>3. rest' > 0 => loop' = "wait" \/ (loop' = "handler" /\ resume' = "wait")
      BY <1>1, <1>3, <1>6 DEF MInv, Alarm
    <2>4. QED BY <1>1, <1>6, <2>1, <2>2, <2>3 DEF MInv, Alarm, AtRest
  <1>12. Faultless'
    BY <1>1, <1>6 DEF MInv, Faultless, AtRest
  <1>13. Waited'
    <2>1. hangs = 0 => /\ ~old /\ child # "hung" /\ loop # "handler"
                       /\ loop \in {"look", "wait"} /\ ~hosted => child = "dead"
      BY DEF MInv, Waited, AtRest
    <2>2. loop \in {"look", "wait"} => ~signal
      BY <1>1 DEF Stuck
    <2>3. QED BY <1>1, <1>6, <2>1, <2>2 DEF MInv, Waited, AtRest, Looking
  <1>14. Exclusive'
    BY <1>1, <1>6 DEF MInv, Exclusive, Reading
  <1>15. QED BY <1>7, <1>9, <1>11, <1>12, <1>13, <1>14 DEF MInv

(* A step that changes nothing. *)
LEMMA NothingHappensKeeps ==
    ASSUME MInv, UNCHANGED vars
    PROVE  MInv'
  <1>1. /\ UNCHANGED <<timerVars, childVars, sharedVars>>
        /\ UNCHANGED <<child, startup, tag, report, memory, locked, old, hosted, zombie, signal,
                       loop, resume, seen, age, rest, crashes, hangs>>
    BY DEF vars, childVars, sharedVars, processVars, monitorVars, faults
  <1>2. Types'
    BY <1>1 DEF MInv, Types
  <1>3. Coordinator'
    BY <1>1, CoordinatorRests DEF MInv, Coordinator
  <1>4. Abandoned' = Abandoned /\ Patient' = Patient
    BY <1>1, ChildRests
  <1>5. Alarm' /\ Waited'
    BY <1>1, <1>4 DEF MInv, Alarm, AtRest, Waited, Looking
  <1>6. Faultless' /\ Exclusive'
    BY <1>1 DEF MInv, Faultless, Exclusive, Reading
  <1>7. QED BY <1>2, <1>3, <1>5, <1>6 DEF MInv

(* The invariant holds when the monitor has started its first child. *)
LEMMA InitHolds ==
    ASSUME InTheLimit, Init
    PROVE  MInv
  <1>1. /\ TimerInit(<<Report, Cleanup>>) /\ child = "starting" /\ startup = StartTime
        /\ tag = FirstTag /\ report = "no" /\ memory = 0 /\ locked = FALSE
        /\ old = FALSE /\ hosted = TRUE /\ zombie = FALSE /\ signal = FALSE
        /\ loop = "look" /\ resume = "look" /\ seen = FirstTag /\ age = 0 /\ rest = 0
        /\ crashes = 0 /\ hangs = 0
    BY DEF Init
  <1>2. Types
    <2>1. FirstTag \in 0 .. TagModulus - 1 /\ 0 \in 0 .. TagModulus - 1
      BY Times DEF FirstTag
    <2>2. StartTime \in 0 .. StartTime /\ 0 \in 0 .. Rest /\ 0 \in 0 .. Limit /\ 0 <= MaxFaults
      BY Times
    <2>3. startup \in 0 .. StartTime /\ rest \in 0 .. Rest /\ age \in 0 .. Limit
      BY <1>1, <2>2
    <2>4. {tag, memory, seen} \subseteq 0 .. TagModulus - 1
      BY <1>1, <2>1
    <2>5. crashes \in Nat /\ hangs \in Nat /\ crashes + hangs <= MaxFaults
      BY <1>1, <2>2
    <2>6. QED BY <1>1, <2>3, <2>4, <2>5 DEF Types, Interruptible
  <1>3. Coordinator
    <2>1. IInv /\ Range(list) = Timers
      BY <1>1, ListOfTimers, TimersStart
    <2>2. left = [t \in Timers |-> Wait[t]] /\ adding = None /\ ~spinning /\ pc = "unstarted"
      BY <1>1, ListOfTimers DEF TimerInit
    <2>3. \A t \in Timers : left[t] <= Wait[t]
      BY <2>2, Bounds
    <2>4. QED BY <1>1, <2>1, <2>2, <2>3 DEF Coordinator
  <1>4. Patient
    <2>1. NextTag = StartTime + Period
      BY <1>1 DEF NextTag
    <2>2. memory # tag
      BY <1>1 DEF FirstTag
    <2>3. age < Limit /\ age + NextTag <= StartTime + Period
      BY <1>1, <2>1, Times
    <2>4. QED BY <1>1, <2>2, <2>3 DEF Patient
  <1>5. Alarm
    BY <1>1, <1>4 DEF Alarm, AtRest
  <1>6. Faultless /\ Waited /\ Exclusive
    BY <1>1 DEF Faultless, Waited, Exclusive, Reading, AtRest, Living
  <1>7. QED BY <1>2, <1>3, <1>5, <1>6 DEF MInv

(* All steps together. *)
LEMMA NextKeeps ==
    ASSUME InTheLimit, MInv, Next
    PROVE  MInv'
  <1>1. CASE ChildStep
    BY <1>1, StartsKeeps, ChildRunsKeeps, ChildLocksKeeps, ReportKeeps DEF ChildStep
  <1>2. CASE MonitorStep
    BY <1>2, LocksMemoryKeeps, CheckReporterKeeps, FindsKeeps, DecidesKeeps, CloseChildKeeps, ClosedKeeps,
       SpawnsKeeps, InsertsKeeps, RestartedKeeps, LooksAgainKeeps DEF MonitorStep
  <1>3. QED BY <1>1, <1>2, HangsKeeps, CrashesKeeps, OldDiesKeeps, HandlesSignalKeeps,
               HandlerEndsKeeps, TickKeeps DEF Next

(* The invariant holds for ever. *)
LEMMA MonitorInvariant ==
    ASSUME InTheLimit
    PROVE  FairSpec => []MInv
  <1>1. Init => MInv
    BY InitHolds
  <1>2. MInv /\ [Next]_vars => MInv'
    BY NextKeeps, NothingHappensKeeps
  <1>3. QED BY <1>1, <1>2, PTL DEF FairSpec
-----------------------------------------------------------------------------
(* Theorems *)

(* The variables have their types; the monitor never reads while the child *)
(* writes, and without faults nobody else holds the semaphore:             *)
(* SPPApplicationMonitor never kills a coordinator that is merely slow,    *)
(* which would leave it taken.                                             *)
THEOREM MonitorTyped ==
    ASSUME InTheLimit
    PROVE  FairSpec => []TypeOK
  <1>1. MInv => TypeOK
    <2> SUFFICES ASSUME MInv PROVE TypeOK
      OBVIOUS
    <2>1. TimerTypeOK
      BY DEF MInv, Coordinator, IInv
    <2>2. /\ report = "locked" => locked
          /\ zombie => child = "dead"
      BY DEF MInv, Coordinator
    <2>3. /\ locked /\ crashes + hangs = 0 => report = "locked" \/ Reading
          /\ Reading => locked /\ report # "locked"
      BY DEF MInv, Faultless, Exclusive, Reading
    <2>4. QED BY <2>1, <2>2, <2>3 DEF MInv, Types, TypeOK
  <1>2. QED BY <1>1, MonitorInvariant, PTL

(* The decision to replace a child (GetHostedChild and IsDeadLocked) falls *)
(* only on one that hangs or is dead, whatever its timers cost, however    *)
(* long the steps of the two processes wait for each other, and wherever   *)
(* the tag of its predecessor stood.                                       *)
THEOREM NoFalseAlarms ==
    ASSUME InTheLimit
    PROVE  FairSpec => NoFalseAlarm
  <1> DEFINE Good == loop = "found" /\ loop' \in {"close", "spawn"} => child \notin Living
  <1>1. ASSUME MInv, [Next]_vars PROVE [Good]_vars
    <2>1. CASE Decides
      BY <1>1, <2>1, LivingInTime, Times DEF Decides, IsDeadLocked, MInv, Types, Looking
    <2>2. CASE ChildStep \/ Hangs \/ Crashes \/ OldDies
      <3>1. loop' = loop
        BY <2>2 DEF ChildStep, Starts, ChildRuns, ChildLocks, ReportToAppMonitor, Hangs,
                    Crashes, OldDies, monitorVars
      <3>2. QED BY <3>1
    <2>3. CASE MonitorStep /\ ~Decides
      BY <2>3 DEF MonitorStep, LocksMemory, CheckReporter, Finds, CloseChild, Closed, Spawns,
                  Inserts, Restarted, LooksAgain, Moves
    <2>4. CASE HandlesSignal \/ HandlerEnds
      BY <2>4 DEF HandlesSignal, HandlerEnds, HoldsMutex
    <2>5. CASE Tick
      BY <2>5 DEF Tick, MonitorSleeps, Stuck
    <2>6. QED BY <1>1, <2>1, <2>2, <2>3, <2>4, <2>5 DEF Next
  <1>2. QED BY <1>1, MonitorInvariant, PTL DEF FairSpec, NoFalseAlarm

(* Crashes alone, whenever they come, never leave child_sig in its loop.   *)
THEOREM CrashesHandled ==
    ASSUME InTheLimit
    PROVE  FairSpec => []CrashesAreHandled
  <1>1. MInv => CrashesAreHandled
    BY DEF MInv, Waited, AtRest, CrashesAreHandled
  <1>2. QED BY <1>1, MonitorInvariant, PTL
=============================================================================
