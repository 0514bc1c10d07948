-------------------------- MODULE ThreadPoolProofs --------------------------
(***************************************************************************)
(* Proofs about ThreadPool, for any number of workers, callers and tasks.  *)
(***************************************************************************)
EXTENDS ThreadPool, SequenceTheorems, TLAPS

(* What the invariants need besides themselves: the destructor and the     *)
(* thread that calls RunOnce keep out of each other's way, threads of      *)
(* other pools are idle, and a worker has left only a stopped, empty pool. *)
Roles == /\ stop <=> owner # "owning"
         /\ batch # <<>> \/ current[Runner] # None => workers = {} /\ owner = "owning"
         /\ \A w \in Workers \ workers : status[w] = "awake"
         /\ \A w \in Workers : status[w] = "exited" => stop /\ tasks = <<>>
         /\ owner = "destroyed" => \A w \in workers : status[w] = "exited"

IInv == TypeOK /\ Roles /\ EachTaskOnce /\ NoLostWakeup /\ StopIsHeard
-----------------------------------------------------------------------------
(* Facts about sequences.                                                  *)

LEMMA ElementsOfAppend ==
    ASSUME NEW S, NEW s \in Seq(S), NEW x \in S
    PROVE  /\ Range(Append(s, x)) = Range(s) \cup {x}
           /\ IsInjective(s) /\ x \notin Range(s) => IsInjective(Append(s, x))
  <1> DEFINE r == Append(s, x)
  <1>1. /\ Len(s) \in Nat /\ DOMAIN s = 1 .. Len(s)
        /\ DOMAIN r = 1 .. Len(s) + 1
        /\ \A i \in 1 .. Len(s) : r[i] = s[i]
        /\ r[Len(s) + 1] = x
    OBVIOUS
  <1> HIDE DEF r
  <1>2. \A i : i \in 1 .. Len(s) + 1 <=> i \in 1 .. Len(s) \/ i = Len(s) + 1
    BY <1>1
  <1>3. Range(r) = Range(s) \cup {x}
    <2>1. Range(r) \subseteq Range(s) \cup {x}
      BY <1>1, <1>2 DEF Range
    <2>2. Range(s) \subseteq Range(r) /\ x \in Range(r)
      BY <1>1, <1>2 DEF Range
    <2>3. QED BY <2>1, <2>2
  <1>4. IsInjective(s) /\ x \notin Range(s) => IsInjective(r)
    BY <1>1, <1>2 DEF Range, IsInjective
  <1>5. QED BY <1>3, <1>4 DEF r

LEMMA ElementsOfEmpty ==
    Range(<<>>) = {} /\ IsInjective(<<>>)
  BY DEF Range, IsInjective

LEMMA ElementsOfTail ==
    ASSUME NEW S, NEW s \in Seq(S), s # <<>>, IsInjective(s)
    PROVE  /\ Head(s) \in Range(s)
           /\ Head(s) \in S
           /\ Tail(s) \in Seq(S)
           /\ Range(Tail(s)) = Range(s) \ {Head(s)}
           /\ IsInjective(Tail(s))
  <1>1. Len(s) \in Nat \ {0} /\ DOMAIN s = 1 .. Len(s) /\ s = [i \in 1 .. Len(s) |-> s[i]]
    OBVIOUS
  <1>2. Head(s) = s[1] /\ Tail(s) \in Seq(S) /\ Len(Tail(s)) = Len(s) - 1
    OBVIOUS
  <1>3. \A i \in 1 .. Len(s) - 1 : Tail(s)[i] = s[i + 1]
    OBVIOUS
  <1>4. DOMAIN Tail(s) = 1 .. Len(s) - 1
    BY <1>1, <1>2
  <1>5. IsInjective(Tail(s))
    BY <1>1, <1>3, <1>4 DEF IsInjective
  <1>6. Head(s) \in Range(s) /\ Head(s) \in S
    BY <1>1, <1>2 DEF Range
  <1>7. Range(Tail(s)) \subseteq Range(s) \ {Head(s)}
    BY <1>1, <1>2, <1>3, <1>4 DEF Range, IsInjective
  <1>8. ASSUME NEW x \in Range(s) \ {Head(s)} PROVE x \in Range(Tail(s))
    <2>1. PICK i \in 1 .. Len(s) : x = s[i]
      BY <1>1 DEF Range
    <2>2. i # 1 /\ i - 1 \in 1 .. Len(s) - 1 /\ (i - 1) + 1 = i
      BY <1>1, <1>2, <2>1
    <2>3. x = Tail(s)[i - 1]
      BY <1>3, <2>1, <2>2
    <2>4. QED BY <1>4, <2>2, <2>3 DEF Range
  <1>9. QED BY <1>2, <1>5, <1>6, <1>7, <1>8
-----------------------------------------------------------------------------
(* Type correctness and the roles of the threads, together because each    *)
(* needs the other.                                                        *)

LEMMA InitHolds == Init => IInv
  <1> SUFFICES ASSUME Init PROVE IInv
    OBVIOUS
  <1> USE ThreadPoolAssumption DEF Init, Executors
  <1>1. TypeOK
    <2>1. tasks \in Seq(Tasks) /\ batch \in Seq(Tasks)
      OBVIOUS
    <2>2. current \in [Executors -> Tasks \cup {None}] /\ \A e \in Executors : current[e] = None
      OBVIOUS
    <2>3. \A w \in Workers : current[w] = None /\ status[w] = "awake"
      OBVIOUS
    <2>4. QED BY <2>1, <2>2, <2>3 DEF TypeOK
  <1>6. Roles
    BY DEF Roles
  <1>2. Running = {}
    BY DEF Running
  <1>3. EachTaskOnce
    <2>1. tasks = <<>> /\ batch = <<>> /\ done = {} /\ \A e \in Executors : current[e] = None
      OBVIOUS
    <2>2. /\ IsInjective(tasks) /\ IsInjective(batch)
          /\ Range(tasks) = {} /\ Range(batch) = {}
      BY ONLY <2>1, ElementsOfEmpty
    <2>3. QED BY ONLY <2>1, <2>2, <1>2 DEF EachTaskOnce
  <1>4. NoLostWakeup /\ StopIsHeard
    BY DEF NoLostWakeup, StopIsHeard
  <1>5. QED BY <1>1, <1>6, <1>3, <1>4 DEF IInv

LEMMA TypeStep == TypeOK /\ Roles /\ [Next]_vars => TypeOK'
  <1> SUFFICES ASSUME TypeOK, Roles, [Next]_vars PROVE TypeOK'
    OBVIOUS
  <1> USE ThreadPoolAssumption DEF TypeOK, Executors, Threads
  <1>1. ASSUME NEW th \in Threads, NEW t \in Tasks, Enqueue(th, t) PROVE TypeOK'
    BY <1>1 DEF Enqueue
  <1>2. ASSUME NEW th \in Threads, NEW t \in Tasks, EnqueueThrows(th, t) PROVE TypeOK'
    BY <1>2 DEF EnqueueThrows
  <1>3. ASSUME NEW th \in Threads, NotifyOne(th) PROVE TypeOK'
    <2>1. CASE UNCHANGED status
      BY <1>3, <2>1 DEF NotifyOne
    <2>2. ASSUME NEW w \in Waiting, status' = [status EXCEPT ![w] = "awake"] PROVE TypeOK'
      BY <1>3, <2>2 DEF NotifyOne, Waiting
    <2>3. QED BY <1>3, <2>1, <2>2 DEF NotifyOne
  <1>4. ASSUME NEW w \in workers, WorkerWaits(w) PROVE TypeOK'
    BY <1>4 DEF WorkerWaits
  <1>5. ASSUME NEW w \in workers, WorkerTakes(w) PROVE TypeOK'
    <2>1. Head(tasks) \in Tasks /\ Tail(tasks) \in Seq(Tasks)
      BY <1>5 DEF WorkerTakes
    <2>2. QED BY <1>5, <2>1 DEF WorkerTakes
  <1>6. ASSUME NEW w \in workers, WorkerFinishes(w) PROVE TypeOK'
    BY <1>6 DEF WorkerFinishes
  <1>7. ASSUME NEW w \in workers, WorkerExits(w) PROVE TypeOK'
    BY <1>7 DEF WorkerExits
  <1>8. ASSUME NEW w \in workers, SpuriousWake(w) PROVE TypeOK'
    BY <1>8 DEF SpuriousWake
  <1>9. CASE RunOnceSwaps
    BY <1>9 DEF RunOnceSwaps
  <1>10. CASE RunOnceStarts
    <2>1. Head(batch) \in Tasks /\ Tail(batch) \in Seq(Tasks)
      BY <1>10 DEF RunOnceStarts
    <2>2. QED BY <1>10, <2>1 DEF RunOnceStarts
  <1>11. CASE RunOnceFinishes
    BY <1>11 DEF RunOnceFinishes
  <1>12. CASE Stop
    BY <1>12 DEF Stop
  <1>13. CASE NotifyAll
    BY <1>13 DEF NotifyAll, Waiting
  <1>14. CASE Join
    BY <1>14 DEF Join
  <1>15. CASE UNCHANGED vars
    BY <1>15 DEF vars
  <1>16. QED
    BY <1>1, <1>2, <1>3, <1>4, <1>5, <1>6, <1>7, <1>8, <1>9, <1>10, <1>11, <1>12,
       <1>13, <1>14, <1>15 DEF Next, WorkerStep

LEMMA RolesStep == TypeOK /\ Roles /\ [Next]_vars => Roles'
  <1> SUFFICES ASSUME TypeOK, Roles, [Next]_vars PROVE Roles'
    OBVIOUS
  <1> USE ThreadPoolAssumption DEF TypeOK, Roles, Executors, Threads
  <1>1. ASSUME NEW th \in Threads, NEW t \in Tasks, Enqueue(th, t) PROVE Roles'
    BY <1>1 DEF Enqueue
  <1>2. ASSUME NEW th \in Threads, NEW t \in Tasks, EnqueueThrows(th, t) PROVE Roles'
    BY <1>2 DEF EnqueueThrows
  <1>3. ASSUME NEW th \in Threads, NotifyOne(th) PROVE Roles'
    <2>1. CASE UNCHANGED status
      BY <1>3, <2>1 DEF NotifyOne
    <2>2. ASSUME NEW w \in Waiting, status' = [status EXCEPT ![w] = "awake"] PROVE Roles'
      BY <1>3, <2>2 DEF NotifyOne, Waiting
    <2>3. QED BY <1>3, <2>1, <2>2 DEF NotifyOne
  <1>4. ASSUME NEW w \in workers, WorkerWaits(w) PROVE Roles'
    BY <1>4 DEF WorkerWaits
  <1>5. ASSUME NEW w \in workers, WorkerTakes(w) PROVE Roles'
    BY <1>5 DEF WorkerTakes
  <1>6. ASSUME NEW w \in workers, WorkerFinishes(w) PROVE Roles'
    BY <1>6 DEF WorkerFinishes
  <1>7. ASSUME NEW w \in workers, WorkerExits(w) PROVE Roles'
    BY <1>7 DEF WorkerExits
  <1>8. ASSUME NEW w \in workers, SpuriousWake(w) PROVE Roles'
    BY <1>8 DEF SpuriousWake
  <1>9. CASE RunOnceSwaps
    BY <1>9 DEF RunOnceSwaps
  <1>10. CASE RunOnceStarts
    BY <1>10 DEF RunOnceStarts
  <1>11. CASE RunOnceFinishes
    BY <1>11 DEF RunOnceFinishes
  <1>12. CASE Stop
    BY <1>12 DEF Stop, RunnerIdle
  <1>13. CASE NotifyAll
    BY <1>13 DEF NotifyAll, Waiting
  <1>14. CASE Join
    BY <1>14 DEF Join
  <1>15. CASE UNCHANGED vars
    BY <1>15 DEF vars
  <1>16. QED
    BY <1>1, <1>2, <1>3, <1>4, <1>5, <1>6, <1>7, <1>8, <1>9, <1>10, <1>11, <1>12,
       <1>13, <1>14, <1>15 DEF Next, WorkerStep
-----------------------------------------------------------------------------
(* A task is in one place, once.                                           *)

OneHolder == \A d, e \in Executors : current[d] = current[e] /\ current[d] # None => d = e

LEMMA RunningAfterStart ==
    ASSUME TypeOK, OneHolder, NEW e \in Executors, NEW t \in Tasks \ Running,
           current[e] = None, current' = [current EXCEPT ![e] = t]
    PROVE  Running' = Running \cup {t} /\ OneHolder'
  <1>1. current'[e] = t /\ \A d \in Executors \ {e} : current'[d] = current[d]
    BY DEF TypeOK
  <1>2. t # None
    BY ThreadPoolAssumption
  <1>3. Running' = Running \cup {t}
    BY <1>1, <1>2 DEF Running
  <1>4. \A d \in Executors : current[d] # t
    BY <1>2 DEF Running
  <1>5. OneHolder'
    BY <1>1, <1>4 DEF OneHolder
  <1>6. QED BY <1>3, <1>5

LEMMA RunningAfterFinish ==
    ASSUME TypeOK, OneHolder, NEW e \in Executors, current[e] # None,
           current' = [current EXCEPT ![e] = None]
    PROVE  /\ current[e] \in Running
           /\ Running' = Running \ {current[e]}
           /\ OneHolder'
  <1>1. current'[e] = None /\ \A d \in Executors \ {e} : current'[d] = current[d]
    BY DEF TypeOK
  <1>2. \A d \in Executors \ {e} : current[d] # current[e]
    BY DEF OneHolder
  <1>3. current[e] \in Running /\ Running' = Running \ {current[e]}
    BY <1>1, <1>2 DEF Running
  <1>4. OneHolder'
    BY <1>1 DEF OneHolder
  <1>5. QED BY <1>3, <1>4

LEMMA OnceStep == TypeOK /\ Roles /\ EachTaskOnce /\ [Next]_vars => EachTaskOnce'
  <1> SUFFICES ASSUME TypeOK, Roles, EachTaskOnce, [Next]_vars PROVE EachTaskOnce'
    OBVIOUS
  <1>0. OneHolder
    BY DEF EachTaskOnce, OneHolder
  <1>1. ASSUME UNCHANGED <<tasks, batch, current, done>> PROVE EachTaskOnce'
    BY <1>1 DEF EachTaskOnce, Running, IsInjective, Range
  <1>2. ASSUME NEW th \in Threads, NEW t \in Tasks, Enqueue(th, t) PROVE EachTaskOnce'
    <2>1. /\ t \notin Range(batch) \cup Range(tasks) \cup Running \cup done
          /\ tasks' = Append(tasks, t) /\ batch' = batch /\ current' = current
          /\ done' = done
      BY <1>2 DEF Enqueue, Accepted
    <2>2. Range(tasks') = Range(tasks) \cup {t} /\ IsInjective(tasks')
      BY <2>1, ElementsOfAppend DEF EachTaskOnce, TypeOK
    <2>3. Running' = Running
      BY <2>1 DEF Running
    <2>4. QED BY <2>1, <2>2, <2>3 DEF EachTaskOnce
  <1>3. ASSUME NEW w \in workers, WorkerTakes(w) PROVE EachTaskOnce'
    <2>1. /\ tasks # <<>> /\ tasks \in Seq(Tasks) /\ IsInjective(tasks)
          /\ w \in Executors /\ current[w] = None
          /\ tasks' = Tail(tasks) /\ batch' = batch /\ done' = done
          /\ current' = [current EXCEPT ![w] = Head(tasks)]
      BY <1>3 DEF WorkerTakes, TypeOK, EachTaskOnce, Executors
    <2>2. /\ Head(tasks) \in Range(tasks) /\ Head(tasks) \in Tasks
          /\ Range(tasks') = Range(tasks) \ {Head(tasks)} /\ IsInjective(tasks')
      BY <2>1, ElementsOfTail
    <2>3. Head(tasks) \in Tasks \ Running
      BY <2>2 DEF EachTaskOnce
    <2>4. Running' = Running \cup {Head(tasks)} /\ OneHolder'
      BY <1>0, <2>1, <2>3, RunningAfterStart
    <2>5. QED BY <2>1, <2>2, <2>4 DEF EachTaskOnce, OneHolder
  <1>4. ASSUME NEW e \in Executors, current[e] # None,
               current' = [current EXCEPT ![e] = None], done' = done \cup {current[e]},
               UNCHANGED <<tasks, batch>>
        PROVE  EachTaskOnce'
    <2>1. current[e] \in Running /\ Running' = Running \ {current[e]} /\ OneHolder'
      BY <1>0, <1>4, RunningAfterFinish
    <2>2. tasks' = tasks /\ batch' = batch
      BY <1>4
    <2>3. QED BY <1>4, <2>1, <2>2 DEF EachTaskOnce, OneHolder
  <1>5. ASSUME NEW w \in workers, WorkerFinishes(w) PROVE EachTaskOnce'
    <2>1. w \in Executors /\ current[w] # None
      BY <1>5 DEF WorkerFinishes, TypeOK, Executors
    <2>2. QED BY <1>4, <1>5, <2>1 DEF WorkerFinishes
  <1>6. CASE RunOnceSwaps
    <2>1. batch' = tasks /\ tasks' = <<>> /\ batch = <<>> /\ current' = current /\ done' = done
      BY <1>6 DEF RunOnceSwaps, RunnerIdle
    <2>2. Running' = Running
      BY <2>1 DEF Running
    <2>3. QED BY <2>1, <2>2, ElementsOfEmpty DEF EachTaskOnce
  <1>7. CASE RunOnceStarts
    <2>1. /\ batch # <<>> /\ batch \in Seq(Tasks) /\ IsInjective(batch)
          /\ Runner \in Executors /\ current[Runner] = None
          /\ batch' = Tail(batch) /\ tasks' = tasks /\ done' = done
          /\ current' = [current EXCEPT ![Runner] = Head(batch)]
      BY <1>7 DEF RunOnceStarts, TypeOK, EachTaskOnce, Executors
    <2>2. /\ Head(batch) \in Range(batch) /\ Head(batch) \in Tasks
          /\ Range(batch') = Range(batch) \ {Head(batch)} /\ IsInjective(batch')
      BY <2>1, ElementsOfTail
    <2>3. Head(batch) \in Tasks \ Running
      BY <2>2 DEF EachTaskOnce
    <2>4. Running' = Running \cup {Head(batch)} /\ OneHolder'
      BY <1>0, <2>1, <2>3, RunningAfterStart
    <2>5. QED BY <2>1, <2>2, <2>4 DEF EachTaskOnce, OneHolder
  <1>8. CASE RunOnceFinishes
    BY <1>4, <1>8 DEF RunOnceFinishes, Executors
  <1>9. ASSUME NEW th \in Threads, NEW t \in Tasks, EnqueueThrows(th, t) PROVE EachTaskOnce'
    BY <1>1, <1>9 DEF EnqueueThrows
  <1>10. ASSUME NEW th \in Threads, NotifyOne(th) PROVE EachTaskOnce'
    BY <1>1, <1>10 DEF NotifyOne
  <1>11. ASSUME NEW w \in workers, WorkerWaits(w) \/ WorkerExits(w) \/ SpuriousWake(w)
         PROVE  EachTaskOnce'
    BY <1>1, <1>11 DEF WorkerWaits, WorkerExits, SpuriousWake
  <1>12. CASE Stop \/ NotifyAll \/ Join \/ UNCHANGED vars
    BY <1>1, <1>12 DEF Stop, NotifyAll, Join, vars
  <1>13. QED
    BY <1>2, <1>3, <1>5, <1>6, <1>7, <1>8, <1>9, <1>10, <1>11, <1>12 DEF Next, WorkerStep
-----------------------------------------------------------------------------
(* No wake-up is lost, whether of a task or of the stop.                   *)

WakeUps == NoLostWakeup /\ StopIsHeard

LEMMA WakeUpStep == TypeOK /\ Roles /\ WakeUps /\ [Next]_vars => WakeUps'
  <1> SUFFICES ASSUME TypeOK, Roles, WakeUps, [Next]_vars PROVE WakeUps'
    OBVIOUS
  <1> USE ThreadPoolAssumption DEF TypeOK, WakeUps, NoLostWakeup, StopIsHeard, Waiting
  <1>1. ASSUME NEW th \in Threads, NEW t \in Tasks, Enqueue(th, t) PROVE WakeUps'
    BY <1>1 DEF Enqueue
  <1>2. ASSUME NEW th \in Threads, NEW t \in Tasks, EnqueueThrows(th, t) PROVE WakeUps'
    BY <1>2 DEF EnqueueThrows
  <1>3. ASSUME NEW th \in Threads, NotifyOne(th) PROVE WakeUps'
    <2>1. CASE Waiting = {} /\ UNCHANGED status
      <3>1. \A w \in workers : status[w] \in {"awake", "running", "exited"}
        BY <2>1
      <3>2. tasks # <<>> => \A w \in workers : status[w] \in {"awake", "running"}
        BY <3>1 DEF Roles
      <3>3. QED BY <1>3, <2>1, <3>2 DEF NotifyOne
    <2>2. ASSUME NEW w \in Waiting, status' = [status EXCEPT ![w] = "awake"] PROVE WakeUps'
      <3>1. w \in workers /\ status'[w] = "awake" /\ workers' = workers
        BY <1>3, <2>2 DEF NotifyOne
      <3>2. NoLostWakeup'
        BY <3>1
      <3>3. StopIsHeard'
        BY <1>3, <2>2 DEF NotifyOne
      <3>4. QED BY <3>2, <3>3
    <2>3. QED BY <1>3, <2>1, <2>2 DEF NotifyOne
  <1>4. ASSUME NEW w \in workers, WorkerWaits(w) PROVE WakeUps'
    BY <1>4 DEF WorkerWaits
  <1>5. ASSUME NEW w \in workers, WorkerTakes(w) PROVE WakeUps'
    <2>1. w \in workers' /\ status'[w] = "running"
      BY <1>5 DEF WorkerTakes
    <2>2. NoLostWakeup'
      BY <2>1
    <2>3. StopIsHeard'
      BY <1>5 DEF WorkerTakes
    <2>4. QED BY <2>2, <2>3
  <1>6. ASSUME NEW w \in workers, WorkerFinishes(w) PROVE WakeUps'
    BY <1>6 DEF WorkerFinishes
  <1>7. ASSUME NEW w \in workers, WorkerExits(w) PROVE WakeUps'
    BY <1>7 DEF WorkerExits
  <1>8. ASSUME NEW w \in workers, SpuriousWake(w) PROVE WakeUps'
    BY <1>8 DEF SpuriousWake
  <1>9. CASE RunOnceSwaps
    BY <1>9 DEF RunOnceSwaps
  <1>10. CASE RunOnceStarts \/ RunOnceFinishes
    BY <1>10 DEF RunOnceStarts, RunOnceFinishes
  <1>11. CASE Stop
    BY <1>11 DEF Stop
  <1>12. CASE NotifyAll
    BY <1>12 DEF NotifyAll
  <1>13. CASE Join
    BY <1>13 DEF Join, Roles
  <1>14. CASE UNCHANGED vars
    BY <1>14 DEF vars
  <1>15. QED
    BY <1>1, <1>2, <1>3, <1>4, <1>5, <1>6, <1>7, <1>8, <1>9, <1>10, <1>11, <1>12,
       <1>13, <1>14 DEF Next, WorkerStep

(* The inductive invariant of the pool.                                    *)
THEOREM PoolInvariance == Spec => []IInv
  <1>1. Init => IInv
    BY InitHolds
  <1>2. IInv /\ [Next]_vars => IInv'
    BY TypeStep, RolesStep, OnceStep, WakeUpStep DEF IInv, WakeUps
  <1>3. QED BY <1>1, <1>2, PTL DEF Spec

(* The variables of the pool have their types.                             *)
THEOREM PoolTypeCorrect == Spec => []TypeOK
  <1>1. IInv => TypeOK
    BY DEF IInv
  <1>2. QED BY <1>1, PoolInvariance, PTL

(* No task is lost, doubled or run twice, however many threads take part.  *)
THEOREM TasksAreKept == Spec => []EachTaskOnce
  <1>1. IInv => EachTaskOnce
    BY DEF IInv
  <1>2. QED BY <1>1, PoolInvariance, PTL

(* A queued task is always about to be looked at, although enqueue         *)
(* notifies after it released the lock.                                    *)
THEOREM NoWakeupIsLost == Spec => []NoLostWakeup
  <1>1. IInv => NoLostWakeup
    BY DEF IInv
  <1>2. QED BY <1>1, PoolInvariance, PTL

(* No worker sleeps through the stop.                                      *)
THEOREM StopReachesWorkers == Spec => []StopIsHeard
  <1>1. IInv => StopIsHeard
    BY DEF IInv
  <1>2. QED BY <1>1, PoolInvariance, PTL
-----------------------------------------------------------------------------
(* Refinement of TaskExecutor.                                             *)

LEMMA Concatenation ==
    ASSUME NEW S, NEW b \in Seq(S), NEW q \in Seq(S)
    PROVE  /\ \A t \in S : b \o Append(q, t) = Append(b \o q, t)
           /\ b # <<>> => /\ b \o q # <<>>
                         /\ Head(b \o q) = Head(b)
                         /\ Tail(b \o q) = Tail(b) \o q
           /\ <<>> \o q = q /\ q \o <<>> = q
           /\ Range(b \o q) = Range(b) \cup Range(q)
  <1>1. \A t \in S : b \o Append(q, t) = Append(b \o q, t)
    OBVIOUS
  <1>2. b # <<>> => b \o q # <<>> /\ Head(b \o q) = Head(b)
    OBVIOUS
  <1>3. b # <<>> => Tail(b \o q) = Tail(b) \o q
    OBVIOUS
  <1>4. <<>> \o q = q /\ q \o <<>> = q
    OBVIOUS
  <1>5. Range(b \o q) = Range(b) \cup Range(q)
    <2> DEFINE r == b \o q
    <2>1. /\ Len(b) \in Nat /\ DOMAIN b = 1 .. Len(b)
          /\ Len(q) \in Nat /\ DOMAIN q = 1 .. Len(q)
          /\ DOMAIN r = 1 .. Len(b) + Len(q)
          /\ \A i \in 1 .. Len(b) : r[i] = b[i]
          /\ \A i \in 1 .. Len(q) : r[Len(b) + i] = q[i]
      OBVIOUS
    <2> HIDE DEF r
    <2>2. \A i \in 1 .. Len(b) + Len(q) : i \in 1 .. Len(b) \/ i - Len(b) \in 1 .. Len(q)
      BY <2>1
    <2>3. \A i \in 1 .. Len(q) : Len(b) + i \in 1 .. Len(b) + Len(q)
      BY <2>1
    <2>4. Range(r) \subseteq Range(b) \cup Range(q)
      <3>1. SUFFICES ASSUME NEW i \in DOMAIN r PROVE r[i] \in Range(b) \cup Range(q)
        BY DEF Range
      <3>2. CASE i \in 1 .. Len(b)
        BY <2>1, <3>2 DEF Range
      <3>3. CASE i - Len(b) \in 1 .. Len(q)
        <4>1. Len(b) + (i - Len(b)) = i
          BY <2>1
        <4>2. r[i] = q[i - Len(b)]
          BY <2>1, <3>3, <4>1
        <4>3. QED BY <2>1, <3>3, <4>2 DEF Range
      <3>4. QED BY <2>1, <2>2, <3>2, <3>3
    <2>5. Range(b) \cup Range(q) \subseteq Range(r)
      <3>1. \A i \in DOMAIN b : b[i] = r[i] /\ i \in DOMAIN r
        BY <2>1
      <3>2. \A i \in DOMAIN q : q[i] = r[Len(b) + i] /\ Len(b) + i \in DOMAIN r
        BY <2>1, <2>3
      <3>3. QED BY <3>1, <3>2 DEF Range
    <2>6. QED BY <2>4, <2>5 DEF r
  <1>6. QED BY <1>1, <1>2, <1>3, <1>4, <1>5

LEMMA InitRefines == Init => Executor!Init
  <1> SUFFICES ASSUME Init PROVE Executor!Init
    OBVIOUS
  <1>1. batch = <<>> /\ tasks = <<>> /\ <<>> \o <<>> = <<>>
    BY DEF Init
  <1>2. Running = {}
    BY DEF Init, Running
  <1>3. QED BY <1>1, <1>2 DEF Init, Executor!Init

LEMMA StepRefines == IInv /\ [Next]_vars => [Executor!Next]_Executor!vars
  <1> SUFFICES ASSUME IInv, [Next]_vars PROVE [Executor!Next]_Executor!vars
    OBVIOUS
  <1>0. TypeOK /\ Roles /\ EachTaskOnce /\ OneHolder /\ tasks \in Seq(Tasks) /\ batch \in Seq(Tasks)
    BY DEF IInv, TypeOK, EachTaskOnce, OneHolder
  <1>1. ASSUME UNCHANGED <<workers, tasks, batch, current, owner, done>>
        PROVE  UNCHANGED Executor!vars
    BY <1>1 DEF Executor!vars, Running
  <1>2. ASSUME NEW th \in Threads, NEW t \in Tasks, Enqueue(th, t) PROVE Executor!Submit(t)
    <2>1. /\ owner = "owning" /\ tasks' = Append(tasks, t)
          /\ UNCHANGED <<workers, batch, current, owner, done>>
          /\ t \notin Range(batch) \cup Range(tasks) \cup Running \cup done
      BY <1>0, <1>2 DEF Enqueue, Accepted, Roles
    <2>2. batch' \o tasks' = Append(batch \o tasks, t)
      BY <1>0, <2>1, Concatenation
    <2>3. Executor!Range(batch \o tasks) = Range(batch) \cup Range(tasks)
      <3>1. Executor!Range(batch \o tasks) = Range(batch \o tasks)
        BY DEF Executor!Range, Range
      <3>2. QED BY <1>0, <3>1, Concatenation
    <2>4. Running' = Running
      BY <2>1 DEF Running
    <2>5. QED BY <2>1, <2>2, <2>3, <2>4 DEF Executor!Submit
  <1>3. ASSUME NEW w \in workers, WorkerTakes(w) PROVE Executor!Start
    <2>1. /\ w \in Executors /\ current[w] = None /\ tasks # <<>> /\ tasks' = Tail(tasks)
          /\ current' = [current EXCEPT ![w] = Head(tasks)]
          /\ UNCHANGED <<workers, batch, owner, done>>
      BY <1>0, <1>3 DEF WorkerTakes, TypeOK, Executors
    <2>2. batch = <<>>
      BY <1>0 DEF Roles
    <2>3. Head(tasks) \in Tasks \ Running /\ Tail(tasks) \in Seq(Tasks)
      BY <1>0, <2>1, ElementsOfTail DEF EachTaskOnce
    <2>4. Running' = Running \cup {Head(tasks)}
      BY <1>0, <2>1, <2>3, RunningAfterStart
    <2>5. batch \o tasks = tasks /\ batch' \o tasks' = Tail(tasks)
      BY <1>0, <2>1, <2>2, <2>3, Concatenation
    <2>6. QED BY <2>1, <2>4, <2>5 DEF Executor!Start
  <1>4. ASSUME NEW e \in Executors, current[e] # None,
               current' = [current EXCEPT ![e] = None], done' = done \cup {current[e]},
               UNCHANGED <<workers, tasks, batch, owner>>
        PROVE  Executor!Next
    <2>1. current[e] \in Running /\ Running' = Running \ {current[e]}
      BY <1>0, <1>4, RunningAfterFinish
    <2>2. current[e] \in Tasks
      BY <1>0, <1>4 DEF TypeOK
    <2>3. Executor!Finish(current[e])
      BY <1>4, <2>1 DEF Executor!Finish
    <2>4. QED BY <2>2, <2>3 DEF Executor!Next
  <1>5. ASSUME NEW w \in workers, WorkerFinishes(w) PROVE Executor!Next
    <2>1. w \in Executors /\ current[w] # None
      BY <1>0, <1>5 DEF WorkerFinishes, TypeOK, Executors
    <2>2. QED BY <1>4, <1>5, <2>1 DEF WorkerFinishes
  <1>6. CASE RunOnceSwaps
    <2>1. /\ batch' = tasks /\ tasks' = <<>> /\ batch = <<>>
          /\ UNCHANGED <<workers, current, owner, done>>
      BY <1>6 DEF RunOnceSwaps, RunnerIdle
    <2>2. batch' \o tasks' = batch \o tasks
      BY <1>0, <2>1, Concatenation
    <2>3. QED BY <2>1, <2>2 DEF Executor!vars, Running
  <1>7. CASE RunOnceStarts
    <2>1. /\ Runner \in Executors /\ current[Runner] = None /\ batch # <<>>
          /\ batch' = Tail(batch) /\ current' = [current EXCEPT ![Runner] = Head(batch)]
          /\ UNCHANGED <<workers, tasks, owner, done>>
      BY <1>7 DEF RunOnceStarts, Executors
    <2>2. Head(batch) \in Tasks \ Running
      BY <1>0, <2>1, ElementsOfTail DEF EachTaskOnce
    <2>3. Running' = Running \cup {Head(batch)}
      BY <1>0, <2>1, <2>2, RunningAfterStart
    <2>4. /\ batch \o tasks # <<>> /\ Head(batch \o tasks) = Head(batch)
          /\ batch' \o tasks' = Tail(batch \o tasks)
      BY <1>0, <2>1, Concatenation
    <2>5. Executor!Start
      BY <2>1, <2>3, <2>4 DEF Executor!Start
    <2>6. QED BY <2>5 DEF Executor!Next
  <1>8. CASE RunOnceFinishes
    BY <1>4, <1>8 DEF RunOnceFinishes, Executors
  <1>9. CASE Stop
    <2>1. UNCHANGED <<workers, tasks, batch, current, done>> /\ owner = "owning" /\ owner' = "stopping"
      BY <1>9 DEF Stop
    <2>2. Executor!Close
      BY <2>1 DEF Executor!Close, Running
    <2>3. QED BY <2>2 DEF Executor!Next
  <1>10. CASE NotifyAll
    BY <1>10 DEF NotifyAll, Executor!vars, Running
  <1>11. CASE Join
    <2>1. /\ UNCHANGED <<workers, tasks, batch, current, done>>
          /\ owner = "joining" /\ owner' = "destroyed"
          /\ \A w \in workers : status[w] = "exited"
      BY <1>11 DEF Join
    <2>2. \A w \in Workers : status[w] \in {"exited", "awake"}
      BY <1>0, <2>1 DEF Roles
    <2>3. \A e \in Executors : current[e] = None
      BY <1>0, <2>1, <2>2 DEF TypeOK, Roles, Executors
    <2>4. Running = {} /\ Running' = {}
      BY <2>1, <2>3 DEF Running
    <2>5. workers # {} => tasks = <<>> /\ batch = <<>>
      BY <1>0, <2>1 DEF Roles, TypeOK
    <2>6. workers # {} => batch \o tasks = <<>>
      BY <2>5
    <2>7. Executor!Retire
      BY <2>1, <2>4, <2>6 DEF Executor!Retire
    <2>8. QED BY <2>7 DEF Executor!Next
  <1>12. ASSUME NEW th \in Threads, NEW t \in Tasks, EnqueueThrows(th, t)
         PROVE  UNCHANGED Executor!vars
    BY <1>1, <1>12 DEF EnqueueThrows
  <1>13. ASSUME NEW th \in Threads, NotifyOne(th) PROVE UNCHANGED Executor!vars
    BY <1>1, <1>13 DEF NotifyOne
  <1>14. ASSUME NEW w \in workers, WorkerWaits(w) \/ WorkerExits(w) \/ SpuriousWake(w)
         PROVE  UNCHANGED Executor!vars
    BY <1>1, <1>14 DEF WorkerWaits, WorkerExits, SpuriousWake
  <1>15. CASE UNCHANGED vars
    BY <1>1, <1>15 DEF vars
  <1>16. QED
    BY <1>2, <1>3, <1>5, <1>6, <1>7, <1>8, <1>9, <1>10, <1>11, <1>12, <1>13, <1>14, <1>15
       DEF Next, WorkerStep, Executor!Next

(* The pool keeps the promise of TaskExecutor.                             *)
THEOREM PoolRefinement == Spec => ImplementsTaskExecutor
  <1>1. Init => Executor!Init
    BY InitRefines
  <1>2. IInv /\ [Next]_vars => [Executor!Next]_Executor!vars
    BY StepRefines
  <1>3. QED BY <1>1, <1>2, PoolInvariance, PTL DEF Spec, ImplementsTaskExecutor, Executor!Spec
=============================================================================
