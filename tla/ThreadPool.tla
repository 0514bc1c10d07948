----------------------------- MODULE ThreadPool -----------------------------
(***************************************************************************)
(* SPPCore's ThreadPool: callers enqueue tasks, workers wait on a          *)
(* condition variable and take them, and the destructor stops and joins    *)
(* the workers.  A pool may have no workers; then one thread runs what is  *)
(* queued with RunOnce, as the remote desktop does from a timer.           *)
(*                                                                         *)
(* The code between locking and unlocking queue_mutex is one step.  What   *)
(* happens after unlocking (a notification, a task) is a step of its own.  *)
(***************************************************************************)
EXTENDS Sequences, Functions

CONSTANTS Tasks,      \* tasks that callers may submit, each at most once
          Producers,  \* threads outside the pool that enqueue
          Workers,    \* threads a pool may have
          Runner,     \* the thread that calls RunOnce
          None        \* no task

Executors == Workers \cup {Runner}
Threads   == Producers \cup Executors

ASSUME ThreadPoolAssumption ==
    /\ None \notin Tasks
    /\ Runner \notin Workers \cup Producers
    /\ Producers \cap Workers = {}

VARIABLES workers,    \* the workers this pool was made with
          tasks,      \* the queue
          batch,      \* currenttasks of RunOnce: swapped out, not started
          current,    \* the task an executor is running
          status,     \* where each worker is in its loop
          notifying,  \* threads in enqueue, between the push and notify_one
          stop,
          owner,      \* progress of the destructor
          done,       \* tasks that have run
          refused     \* tasks that enqueue threw on

vars == <<workers, tasks, batch, current, status, notifying, stop, owner, done,
          refused>>

Running     == {current[e] : e \in Executors} \ {None}
Accepted    == Range(batch) \cup Range(tasks) \cup Running \cup done
Waiting     == {w \in workers : status[w] = "waiting"}

Init == /\ workers \in SUBSET Workers
        /\ tasks = <<>>
        /\ batch = <<>>
        /\ current = [e \in Executors |-> None]
        /\ status = [w \in Workers |-> "awake"]
        /\ notifying = {}
        /\ stop = FALSE
        /\ owner = "owning"
        /\ done = {}
        /\ refused = {}
-----------------------------------------------------------------------------
(* Callers: a thread of their own, or a task that is running in the pool.  *)

MayEnqueue(th) == /\ owner # "destroyed"
                  /\ th \notin notifying
                  /\ th \in Executors => current[th] # None

(* Pushes without notifying. *)
FaultyEnqueue(th, t) == /\ MayEnqueue(th)
                        /\ t \notin Accepted \cup refused
                        /\ ~stop
                        /\ tasks' = Append(tasks, t)
                        /\ UNCHANGED <<workers, batch, current, status, notifying,
                                       stop, owner, done, refused>>

Enqueue(th, t) == /\ MayEnqueue(th)
                  /\ t \notin Accepted \cup refused
                  /\ ~stop
                  /\ tasks' = Append(tasks, t)
                  /\ notifying' = notifying \cup {th}
                  /\ UNCHANGED <<workers, batch, current, status, stop, owner,
                                 done, refused>>

EnqueueThrows(th, t) == /\ MayEnqueue(th)
                        /\ t \notin Accepted \cup refused
                        /\ stop
                        /\ refused' = refused \cup {t}
                        /\ UNCHANGED <<workers, tasks, batch, current, status,
                                       notifying, stop, owner, done>>

NotifyOne(th) == /\ th \in notifying
                 /\ notifying' = notifying \ {th}
                 /\ \/ Waiting = {} /\ UNCHANGED status
                    \/ \E w \in Waiting : status' = [status EXCEPT ![w] = "awake"]
                 /\ UNCHANGED <<workers, tasks, batch, current, stop, owner, done,
                                refused>>
-----------------------------------------------------------------------------
(* The loop of a worker.  A woken worker evaluates the condition again.    *)

WorkerWaits(w) == /\ status[w] = "awake"
                  /\ ~stop
                  /\ tasks = <<>>
                  /\ status' = [status EXCEPT ![w] = "waiting"]
                  /\ UNCHANGED <<workers, tasks, batch, current, notifying, stop,
                                 owner, done, refused>>

WorkerTakes(w) == /\ status[w] = "awake"
                  /\ tasks # <<>>
                  /\ status' = [status EXCEPT ![w] = "running"]
                  /\ current' = [current EXCEPT ![w] = Head(tasks)]
                  /\ tasks' = Tail(tasks)
                  /\ UNCHANGED <<workers, batch, notifying, stop, owner, done, refused>>

(* Leaves the loop after a task once the pool is stopped. *)
FaultyWorkerFinishes(w) == /\ status[w] = "running"
                           /\ w \notin notifying
                           /\ status' = [status EXCEPT ![w] = IF stop THEN "exited"
                                                                     ELSE "awake"]
                           /\ current' = [current EXCEPT ![w] = None]
                           /\ done' = done \cup {current[w]}
                           /\ UNCHANGED <<workers, tasks, batch, notifying, stop, owner,
                                          refused>>

WorkerFinishes(w) == /\ status[w] = "running"
                     /\ w \notin notifying
                     /\ status' = [status EXCEPT ![w] = "awake"]
                     /\ current' = [current EXCEPT ![w] = None]
                     /\ done' = done \cup {current[w]}
                     /\ UNCHANGED <<workers, tasks, batch, notifying, stop, owner,
                                    refused>>

WorkerExits(w) == /\ status[w] = "awake"
                  /\ stop
                  /\ tasks = <<>>
                  /\ status' = [status EXCEPT ![w] = "exited"]
                  /\ UNCHANGED <<workers, tasks, batch, current, notifying, stop,
                                 owner, done, refused>>

SpuriousWake(w) == /\ status[w] = "waiting"
                   /\ status' = [status EXCEPT ![w] = "awake"]
                   /\ UNCHANGED <<workers, tasks, batch, current, notifying, stop,
                                  owner, done, refused>>
-----------------------------------------------------------------------------
(* RunOnce.  The applications call it on a pool without workers only, and  *)
(* join the calling thread before they destroy the pool.                   *)

RunnerIdle == batch = <<>> /\ current[Runner] = None

(* Swaps with a queue that kept the batch before. *)
FaultyRunOnceSwaps == /\ workers = {}
                      /\ owner = "owning"
                      /\ RunnerIdle
                      /\ tasks # <<>>
                      /\ batch' = tasks
                      /\ UNCHANGED <<workers, tasks, current, status, notifying, stop,
                                     owner, done, refused>>

(* Drops a task that was queued while the batch before it ran. *)
FaultyRunOnceStarts == /\ batch # <<>>
                       /\ current[Runner] = None
                       /\ current' = [current EXCEPT ![Runner] = Head(batch)]
                       /\ batch' = Tail(batch)
                       /\ tasks' = <<>>
                       /\ UNCHANGED <<workers, status, notifying, stop, owner, done,
                                      refused>>

RunOnceSwaps == /\ workers = {}
                /\ owner = "owning"
                /\ RunnerIdle
                /\ tasks # <<>>
                /\ batch' = tasks
                /\ tasks' = <<>>
                /\ UNCHANGED <<workers, current, status, notifying, stop, owner,
                               done, refused>>

RunOnceStarts == /\ batch # <<>>
                 /\ current[Runner] = None
                 /\ current' = [current EXCEPT ![Runner] = Head(batch)]
                 /\ batch' = Tail(batch)
                 /\ UNCHANGED <<workers, tasks, status, notifying, stop, owner,
                                done, refused>>

RunOnceFinishes == /\ current[Runner] # None
                   /\ Runner \notin notifying
                   /\ current' = [current EXCEPT ![Runner] = None]
                   /\ done' = done \cup {current[Runner]}
                   /\ UNCHANGED <<workers, tasks, batch, status, notifying, stop,
                                  owner, refused>>
-----------------------------------------------------------------------------
(* ~ThreadPool *)

Stop == /\ owner = "owning"
        /\ RunnerIdle
        /\ stop' = TRUE
        /\ owner' = "stopping"
        /\ UNCHANGED <<workers, tasks, batch, current, status, notifying, done,
                       refused>>

(* notify_one where notify_all is needed. *)
FaultyNotifyAll == /\ owner = "stopping"
                   /\ owner' = "joining"
                   /\ \/ Waiting = {} /\ UNCHANGED status
                      \/ \E w \in Waiting : status' = [status EXCEPT ![w] = "awake"]
                   /\ UNCHANGED <<workers, tasks, batch, current, notifying, stop, done,
                                  refused>>

(* Sends every worker to the top of its loop, also one that runs a task. *)
FaultyNotifyAllRestarts == /\ owner = "stopping"
                           /\ owner' = "joining"
                           /\ status' = [w \in Workers |-> "awake"]
                           /\ UNCHANGED <<workers, tasks, batch, current, notifying,
                                          stop, done, refused>>

NotifyAll == /\ owner = "stopping"
             /\ owner' = "joining"
             /\ status' = [w \in Workers |-> IF w \in Waiting THEN "awake" ELSE status[w]]
             /\ UNCHANGED <<workers, tasks, batch, current, notifying, stop, done,
                            refused>>

Join == /\ owner = "joining"
        /\ \A w \in workers : status[w] = "exited"
        /\ owner' = "destroyed"
        /\ UNCHANGED <<workers, tasks, batch, current, status, notifying, stop,
                       done, refused>>

WorkerStep(w) == WorkerWaits(w) \/ WorkerTakes(w) \/ WorkerFinishes(w) \/ WorkerExits(w)

Next == \/ \E th \in Threads, t \in Tasks : Enqueue(th, t) \/ EnqueueThrows(th, t)
        \/ \E th \in Threads : NotifyOne(th)
        \/ \E w \in workers : WorkerStep(w) \/ SpuriousWake(w)
        \/ RunOnceSwaps \/ RunOnceStarts \/ RunOnceFinishes
        \/ Stop \/ NotifyAll \/ Join

Spec == Init /\ [][Next]_vars

(* Threads run, tasks and the calls of enqueue end, and the timer that     *)
(* calls RunOnce comes again as long as the pool is owned.                 *)
FairSpec == /\ Spec
            /\ \A w \in Workers : WF_vars(w \in workers /\ WorkerStep(w))
            /\ \A th \in Threads : WF_vars(NotifyOne(th))
            /\ WF_vars(RunOnceSwaps) /\ WF_vars(RunOnceStarts) /\ WF_vars(RunOnceFinishes)
            /\ WF_vars(NotifyAll) /\ WF_vars(Join)
-----------------------------------------------------------------------------
(* Properties *)

(* The variables have their types, and a thread runs a task exactly while  *)
(* it is in that part of its loop.                                         *)
TypeOK == /\ workers \in SUBSET Workers
          /\ tasks \in Seq(Tasks)
          /\ batch \in Seq(Tasks)
          /\ current \in [Executors -> Tasks \cup {None}]
          /\ status \in [Workers -> {"awake", "waiting", "running", "exited"}]
          /\ \A w \in Workers : current[w] # None <=> status[w] = "running"
          /\ notifying \in SUBSET Threads
          /\ stop \in BOOLEAN
          /\ owner \in {"owning", "stopping", "joining", "destroyed"}
          /\ done \in SUBSET Tasks
          /\ refused \in SUBSET Tasks

(* An accepted task is in one place only, and once: waiting in the queue   *)
(* or in a batch of RunOnce, held by one thread, or done.                  *)
EachTaskOnce ==
    /\ IsInjective(tasks) /\ IsInjective(batch)
    /\ Range(tasks) \cap Range(batch) = {}
    /\ (Range(tasks) \cup Range(batch)) \cap (Running \cup done) = {}
    /\ Running \cap done = {}
    /\ \A d, e \in Executors : current[d] = current[e] /\ current[d] # None => d = e

(* While a task is queued, some worker will look at the queue: one is      *)
(* awake or running, or a thread is about to notify.  It holds although    *)
(* the notification comes after the lock was released.                     *)
NoLostWakeup ==
    tasks # <<>> /\ workers # {} => \/ notifying # {}
                                   \/ \E w \in workers : status[w] \in {"awake", "running"}

(* No worker waits on a stopped pool, unless notify_all is still to come.  *)
StopIsHeard == stop => Waiting = {} \/ owner = "stopping"

(* A pool with workers keeps the promise of TaskExecutor: order, each task *)
(* once, and nothing left undone by the destructor.                        *)
Executor == INSTANCE TaskExecutor WITH
    manned  <- workers # {},
    pending <- batch \o tasks,
    active  <- Running,
    done    <- done,
    phase   <- CASE owner = "owning"    -> "open"
                 [] owner = "destroyed" -> "gone"
                 [] OTHER               -> "closed"
ImplementsTaskExecutor == Executor!Spec

(* Every accepted task runs in the end; a pool without workers runs what   *)
(* it accepted unless it is destroyed first.                               *)
EveryTaskRuns == \A t \in Tasks :
    t \in Accepted ~> t \in done \/ (workers = {} /\ stop)

(* The destructor returns: every worker hears of the stop and ends, also   *)
(* when tasks enqueue others while the pool is being stopped.              *)
DestructorReturns == stop ~> owner = "destroyed"
=============================================================================
