--------------------------- MODULE TimerController ---------------------------
(***************************************************************************)
(* SPPCore's TimerController: one thread loops in Run and calls the timers *)
(* that are due with _timer_mutex held; other threads add timers, remove   *)
(* them and stop the loop.                                                 *)
(*                                                                         *)
(* Time is counted in units and relative to now: left[t] is what remains   *)
(* until the next trigger of t, negative when t is late.  Only callbacks,  *)
(* sleeping and waiting for the mutex take time.                           *)
(***************************************************************************)
EXTENDS Integers, SequencesExt

CONSTANTS Timers,       \* the timers that may be added
          Wait,         \* Wait[t]: _waitTime
          Looping,      \* the timers added with bInIsLooping
          Cost,         \* Cost[t]: the longest that the callback of t takes
          TotalCost,    \* TotalCost[S]: the longest that those of S take in a row
          Granularity,  \* _sleepGranularity
          Overdue,      \* bound: how late a timer is counted
          None          \* no timer

CostOfOthers(t) == TotalCost[Timers \ {t}]

(* A timer that loops is late by this when its callback returns.           *)
Overrun(t) == IF t \in Looping /\ Cost[t] > Wait[t] THEN Cost[t] - Wait[t] ELSE 0

(* The longest delay of a callback.  A timer that comes due just after     *)
(* RunOnce looked at the clock waits for the rest of that pass; if Run then *)
(* reads the list while another thread changes it, for a sleep; then for   *)
(* the callbacks before it in the next pass.                               *)
MaxLate(t) == Overrun(t) + Granularity + 2 * CostOfOthers(t)

ASSUME TimerAssumption ==
    /\ None \notin Timers
    /\ Looping \subseteq Timers
    /\ Wait \in [Timers -> Nat \ {0}]
    /\ Cost \in [Timers -> Nat]
    /\ TotalCost \in [SUBSET Timers -> Nat]
    /\ \A t \in Timers : TotalCost[{t}] = Cost[t]
    /\ \A S, T \in SUBSET Timers :
          S \cap T = {} => TotalCost[S \cup T] = TotalCost[S] + TotalCost[T]
    /\ Granularity \in Nat \ {0}
    /\ Overdue \in Nat /\ \A t \in Timers : MaxLate(t) < Overdue

VARIABLES list,     \* _timers, in order
          left,     \* time until NextTrigger, of each timer in the list
          mutex,    \* who holds _timer_mutex: "free", "runner" or "other"
          pc,       \* where the running thread is
          at,       \* the position of TimeIter
          since,    \* time since RunOnce looked at the clock
          elapsed,  \* time since the callback started
          updated,  \* bHasUpdate
          sleep,    \* what remains of sleep_for
          running,  \* _IsRunning
          adding,   \* the timer that another thread is adding
          spinning  \* RemoveTimer looks for a timer that is not the first

runnerVars == <<pc, at, since, elapsed, updated, sleep>>
timerVars  == <<list, left, mutex, pc, at, since, elapsed, updated, sleep, running,
                adding, spinning>>

Without(l, t) == Restrict(l, DOMAIN l \ {t})

(* std::list::sort keeps the order of timers with the same trigger.        *)
Before(s, t, u) == \E i, j \in DOMAIN s : i < j /\ s[i] = t /\ s[j] = u
ByTrigger(s, l) ==
    {r \in [DOMAIN s -> Range(s)] : \A t, u \in Range(s) :
        Before(r, t, u) <=> l[t] < l[u] \/ (l[t] = l[u] /\ Before(s, t, u))}

(* The timers that the thread adds itself before it calls Run.             *)
TimerInit(added) ==
    /\ left = [t \in Range(added) |-> Wait[t]]
    /\ list \in ByTrigger(added, Wait)
    /\ mutex = "free"
    /\ pc = "unstarted"
    /\ at = 1 /\ since = 0 /\ elapsed = 0 /\ sleep = 0
    /\ updated = FALSE
    /\ running = FALSE
    /\ adding = None
    /\ spinning = FALSE
-----------------------------------------------------------------------------
(* Run and RunOnce *)

Run == /\ pc = "unstarted"
       /\ running' = TRUE
       /\ pc' = "loop"
       /\ UNCHANGED <<list, left, mutex, at, since, elapsed, updated, sleep, adding,
                      spinning>>

RunReturns == /\ pc = "loop"
              /\ ~running
              /\ pc' = "ended"
              /\ UNCHANGED <<list, left, mutex, at, since, elapsed, updated, sleep,
                             running, adding, spinning>>

(* Loops for ever, whatever _IsRunning says. *)
FaultyRunLoops == /\ pc = "loop"
                  /\ pc' = "locking"
                  /\ UNCHANGED <<list, left, mutex, at, since, elapsed, updated, sleep,
                                 running, adding, spinning>>

(* The test of the while: a Stop that comes after it is heard one pass     *)
(* later.                                                                  *)
RunLoops == /\ pc = "loop"
            /\ running
            /\ pc' = "locking"
            /\ UNCHANGED <<list, left, mutex, at, since, elapsed, updated, sleep,
                           running, adding, spinning>>

RunOnce == /\ pc = "locking"
           /\ mutex = "free"
           /\ mutex' = "runner"
           /\ pc' = "walk"
           /\ UNCHANGED <<list, left, at, since, elapsed, updated, sleep, running, adding,
                          spinning>>

IsDue(t) == left[t] + since <= 0

CallbackStarts == /\ pc = "walk"
                  /\ at <= Len(list)
                  /\ IsDue(list[at])
                  /\ pc' = "callback"
                  /\ updated' = TRUE
                  /\ UNCHANGED <<list, left, mutex, at, since, elapsed, sleep, running, adding,
                                 spinning>>

CallbackReturns ==
    /\ pc = "callback"
    /\ pc' = "walk"
    /\ \/ /\ list[at] \in Looping
          /\ left' = [left EXCEPT ![list[at]] = Wait[list[at]] - elapsed]
          /\ at' = at + 1
          /\ UNCHANGED list
       \/ /\ list[at] \notin Looping
          /\ list' = RemoveAt(list, at)
          /\ left' = Without(left, list[at])
          /\ UNCHANGED at
    /\ elapsed' = 0
    /\ UNCHANGED <<mutex, since, updated, sleep, running, adding, spinning>>

(* Does not sort again. *)
FaultyPassEndsUnsorted ==
    /\ pc = "walk"
    /\ at <= Len(list) => ~IsDue(list[at])
    /\ mutex' = "free"
    /\ pc' = "unlocked"
    /\ at' = 1 /\ since' = 0 /\ updated' = FALSE
    /\ UNCHANGED <<list, left, elapsed, sleep, running, adding, spinning>>

(* Returns early, without unlocking, when nothing was due. *)
FaultyPassEndsLocked ==
    /\ pc = "walk"
    /\ at <= Len(list) => ~IsDue(list[at])
    /\ list' \in IF updated THEN ByTrigger(list, left) ELSE {list}
    /\ mutex' = IF updated THEN "free" ELSE mutex
    /\ pc' = "unlocked"
    /\ at' = 1 /\ since' = 0 /\ updated' = FALSE
    /\ UNCHANGED <<left, elapsed, sleep, running, adding, spinning>>

PassEnds == /\ pc = "walk"
            /\ at <= Len(list) => ~IsDue(list[at])
            /\ list' \in IF updated THEN ByTrigger(list, left) ELSE {list}
            /\ mutex' = "free"
            /\ pc' = "unlocked"
            /\ at' = 1 /\ since' = 0 /\ updated' = FALSE
            /\ UNCHANGED <<left, elapsed, sleep, running, adding, spinning>>

(* Run looks at the front of the list without the mutex.  When another     *)
(* thread is changing the list it may read anything, but the clamp keeps   *)
(* the sleep within the granularity.  (Less than a unit of such a sleep is *)
(* left out: the loop would only look again sooner.)                       *)
Clamped(x) == IF x < 0 THEN 0 ELSE IF x > Granularity THEN Granularity ELSE x

(* Sleeps until the front is due, however long that is. *)
FaultySleepAmounts == IF list = <<>> THEN {Granularity}
                      ELSE {IF left[Head(list)] < 0 THEN 0 ELSE left[Head(list)]}

SleepAmounts == IF adding # None THEN 1 .. Granularity
                ELSE IF list = <<>> THEN {Granularity}
                ELSE {Clamped(left[Head(list)])}

FallsAsleep == /\ pc = "unlocked"
               /\ pc' = "asleep"
               /\ sleep' \in SleepAmounts
               /\ UNCHANGED <<list, left, mutex, at, since, elapsed, updated, running,
                              adding, spinning>>

WakesUp == /\ pc = "asleep"
           /\ sleep = 0
           /\ pc' = "loop"
           /\ UNCHANGED <<list, left, mutex, at, since, elapsed, updated, sleep,
                          running, adding, spinning>>
-----------------------------------------------------------------------------
(* Other threads *)

AddLocks(t) == /\ mutex = "free"
               /\ t \notin Range(list)
               /\ mutex' = "other"
               /\ adding' = t
               /\ UNCHANGED <<list, left, running, spinning, runnerVars>>

AddUnlocks == /\ adding # None
              /\ left' = [t \in DOMAIN left \cup {adding} |->
                              IF t = adding THEN Wait[t] ELSE left[t]]
              /\ list' \in ByTrigger(Append(list, adding), left')
              /\ mutex' = "free"
              /\ adding' = None
              /\ UNCHANGED <<running, spinning, runnerVars>>

(* The loop of RemoveTimer never advances its iterator.                    *)
RemoveTimer(t) == /\ mutex = "free"
                  /\ list # <<>>
                  /\ \/ /\ Head(list) = t
                        /\ list' = Tail(list)
                        /\ left' = Without(left, t)
                        /\ UNCHANGED <<mutex, spinning>>
                     \/ /\ Head(list) # t
                        /\ mutex' = "other"
                        /\ spinning' = TRUE
                        /\ UNCHANGED <<list, left>>
                  /\ UNCHANGED <<running, adding, runnerVars>>

Stop == /\ running
        /\ running' = FALSE
        /\ UNCHANGED <<list, left, mutex, adding, spinning, runnerVars>>
-----------------------------------------------------------------------------
(* Time passes where the running thread spends it. *)
Busy == \/ pc = "callback" /\ elapsed < Cost[list[at]]
        \/ pc = "asleep" /\ sleep > 0
        \/ pc = "locking" /\ spinning
        \/ pc = "ended"

Ticks == /\ Busy
         /\ adding = None
         /\ left' = [t \in DOMAIN left |-> IF left[t] > -Overdue THEN left[t] - 1
                                                                 ELSE left[t]]
         /\ since' = IF pc = "callback" THEN since + 1 ELSE since
         /\ elapsed' = IF pc = "callback" THEN elapsed + 1 ELSE elapsed
         /\ sleep' = IF pc = "asleep" THEN sleep - 1 ELSE sleep
         /\ UNCHANGED <<list, mutex, pc, at, updated, running, adding, spinning>>

RunnerStep == \/ Run \/ RunReturns \/ RunLoops \/ RunOnce
              \/ CallbackStarts \/ CallbackReturns \/ PassEnds \/ FallsAsleep \/ WakesUp

TimerNext == \/ RunnerStep
             \/ Ticks
             \/ \E t \in Timers : AddLocks(t) \/ RemoveTimer(t)
             \/ AddUnlocks
             \/ Stop

(* The threads run; time passes, whatever other threads do in no time; the *)
(* loop gets the mutex in the end when it is free again and again.         *)
TimerSpec == /\ TimerInit(<<>>)
             /\ [][TimerNext]_timerVars
             /\ WF_timerVars(RunnerStep) /\ SF_timerVars(RunOnce)
             /\ SF_timerVars(Ticks)
             /\ WF_timerVars(AddUnlocks)
-----------------------------------------------------------------------------
(* Properties *)

(* The variables have their types; a timer is in the list once.            *)
TimerTypeOK == /\ list \in Seq(Timers) /\ IsInjective(list)
               /\ left \in [Range(list) -> Int]
               /\ mutex \in {"free", "runner", "other"}
               /\ pc \in {"unstarted", "loop", "locking", "walk", "callback",
                          "unlocked", "asleep", "ended"}
               /\ pc \in {"walk", "callback"} <=> mutex = "runner"
               /\ at \in Nat /\ since \in Nat /\ elapsed \in Nat /\ sleep \in Nat
               /\ updated \in BOOLEAN /\ running \in BOOLEAN /\ spinning \in BOOLEAN
               /\ adding \in Timers \cup {None}

(* The list is in the order of the triggers whenever nobody holds the      *)
(* mutex, which the early break of RunOnce relies on.                      *)
SortedWhenFree ==
    mutex = "free" => \A i, j \in DOMAIN list : i < j => left[list[i]] <= left[list[j]]

Runs(t) == pc = "callback" /\ list[at] = t

(* No timer waits for its callback longer than MaxLate, although Run       *)
(* computes its sleep without the mutex, a timer may be added while it     *)
(* sleeps, and callbacks may take longer than the timers wait.             *)
Late(t) == t \in Range(list) /\ ~Runs(t) /\ left[t] < -MaxLate(t)
Punctual == pc # "ended" /\ ~spinning => \A t \in Timers : ~Late(t)

(* Every timer in the list runs in the end, unless it is removed, the loop *)
(* is stopped, or RemoveTimer spins with the mutex held.                   *)
EveryTimerRuns == \A t \in Timers :
    t \in Range(list) ~> Runs(t) \/ t \notin Range(list) \/ ~running \/ spinning

(* A loop that is told to stop ends, also when another thread holds the    *)
(* mutex or a callback runs at that moment; only a RemoveTimer that spins  *)
(* keeps a loop that has passed its test from hearing of it.  (A Stop      *)
(* before Run is overwritten by Run, and is not promised anything.)        *)
StopEndsRun == pc # "unstarted" /\ ~running ~> pc = "ended" \/ spinning
=============================================================================
