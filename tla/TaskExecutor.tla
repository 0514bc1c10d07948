---------------------------- MODULE TaskExecutor ----------------------------
(***************************************************************************)
(* What a ThreadPool promises its callers.  Tasks start in the order in    *)
(* which they were accepted, each once.  When the pool is gone, nothing it *)
(* accepted is left undone, provided it had workers of its own: a pool     *)
(* without workers drops what nobody ran.                                  *)
(***************************************************************************)
EXTENDS Sequences, Functions

CONSTANT Tasks

VARIABLES manned,   \* the pool has workers
          pending,  \* accepted tasks, not started
          active,   \* started tasks, not finished
          done,     \* finished tasks
          phase     \* "open", "closed" to new tasks, or "gone"

vars == <<manned, pending, active, done, phase>>

Init == /\ manned \in BOOLEAN
        /\ pending = <<>>
        /\ active = {}
        /\ done = {}
        /\ phase = "open"

Submit(t) == /\ phase = "open"
             /\ t \notin Range(pending) \cup active \cup done
             /\ pending' = Append(pending, t)
             /\ UNCHANGED <<manned, active, done, phase>>

Start == /\ pending # <<>>
         /\ active' = active \cup {Head(pending)}
         /\ pending' = Tail(pending)
         /\ UNCHANGED <<manned, done, phase>>

Finish(t) == /\ t \in active
             /\ active' = active \ {t}
             /\ done' = done \cup {t}
             /\ UNCHANGED <<manned, pending, phase>>

Close == /\ phase = "open"
         /\ phase' = "closed"
         /\ UNCHANGED <<manned, pending, active, done>>

Retire == /\ phase = "closed"
          /\ active = {}
          /\ manned => pending = <<>>
          /\ phase' = "gone"
          /\ UNCHANGED <<manned, pending, active, done>>

Next == \/ \E t \in Tasks : Submit(t) \/ Finish(t)
        \/ Start \/ Close \/ Retire

Spec == Init /\ [][Next]_vars
=============================================================================
