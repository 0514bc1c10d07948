--------------------------- MODULE DeadlockMonitor ---------------------------
(***************************************************************************)
(* SPPApplicationMonitor on Linux, with the connection coordinator as the  *)
(* process it watches.  The coordinator runs two timers; one of them counts *)
(* a tag up in shared memory.  The monitor looks at the tag and at its     *)
(* table of children, and replaces a child that is gone or has not         *)
(* reported for longer than Limit.                                         *)
(*                                                                         *)
(* The table is kept by CreateChildProcess and by the handler of SIGCHLD,  *)
(* which runs on the monitor's only thread, between any two of its steps.  *)
(* Time is that of TimerController; nothing but its actions, starting up   *)
(* and sleeping takes any.                                                 *)
(***************************************************************************)
EXTENDS TimerController

CONSTANTS Report, Cleanup,  \* the timers of the coordinator
          StartTime,        \* the longest that a child takes to start
          Limit,            \* age of the last report that counts as a deadlock
          Rest,             \* the sleep after a restart
          TagModulus,       \* 2^32
          MaxFaults         \* bound: crashes and hangs in a behaviour

FirstTag == 1  \* 123 in the code; the memory starts with 0

ASSUME MonitorAssumption ==
    /\ Timers = {Report, Cleanup} /\ Looping = Timers /\ Report # Cleanup
    /\ StartTime \in Nat /\ Limit \in Nat \ {0} /\ Rest \in Nat \ {0}
    /\ TagModulus \in Nat /\ TagModulus > FirstTag + 1
    /\ MaxFaults \in Nat

VARIABLES child,    \* the newest child: "starting", "running", "hung" or "dead"
          startup,  \* what remains of its start
          tag,      \* its _memTag
          report,   \* its WriteMemory: "no", "locked" or "done" in this callback
          memory,   \* the tag in the mapped memory
          locked,   \* a child holds the semaphore of the memory
          old,      \* a child that was sent SIGTERM and did not end yet
          hosted,   \* the newest child is in hostedChildProcesses
          zombie,   \* it is dead and was not waited for
          signal,   \* SIGCHLD is pending
          loop,     \* where the monitor is
          resume,   \* where it was when its handler of SIGCHLD began to loop
          seen,     \* the monitor's _memTag
          age,      \* time since lastDLUpdate, at most Limit
          rest,     \* what remains of the sleep after a restart
          crashes, hangs  \* of children, so far

childVars   == <<child, startup, tag, report>>
sharedVars  == <<memory, locked>>
processVars == <<old, hosted, zombie, signal>>
monitorVars == <<loop, resume, seen, age, rest>>
faults      == <<crashes, hangs>>
vars == <<timerVars, childVars, sharedVars, processVars, monitorVars, faults>>

Init == /\ TimerInit(<<Report, Cleanup>>)
        /\ child = "starting" /\ startup = StartTime
        /\ tag = FirstTag /\ report = "no"
        /\ memory = 0 /\ locked = FALSE
        /\ old = FALSE /\ hosted = TRUE /\ zombie = FALSE /\ signal = FALSE
        /\ loop = "look" /\ resume = "look"
        /\ seen = FirstTag /\ age = 0 /\ rest = 0
        /\ crashes = 0 /\ hangs = 0

Living == {"starting", "running"}
-----------------------------------------------------------------------------
(* The coordinator process *)

Starts == /\ child = "starting"
          /\ startup = 0
          /\ child' = "running"
          /\ UNCHANGED <<timerVars, startup, tag, report, sharedVars, processVars,
                         monitorVars, faults>>

Reporting == pc = "callback" /\ list[at] = Report

(* The steps of its TimerController; a report ends with the tag written.   *)
ChildRuns == /\ child = "running"
             /\ Reporting => report = "done"
             /\ RunnerStep
             /\ report' = "no"
             /\ UNCHANGED <<child, startup, tag, sharedVars, processVars, monitorVars,
                            faults>>

ChildLocks == /\ child = "running"
              /\ Reporting /\ report = "no"
              /\ ~locked
              /\ report' = "locked"
              /\ locked' = TRUE
              /\ UNCHANGED <<timerVars, child, startup, tag, memory, processVars,
                             monitorVars, faults>>

(* Does not count up. *)
FaultyReportToAppMonitor == /\ child = "running"
                            /\ report = "locked"
                            /\ memory' = FirstTag
                            /\ report' = "done"
                            /\ locked' = FALSE
                            /\ UNCHANGED <<timerVars, child, startup, tag, processVars,
                                           monitorVars, faults>>

(* Leaves the memory locked. *)
FaultyReportStaysLocked == /\ child = "running"
                           /\ report = "locked"
                           /\ tag' = (tag + 1) % TagModulus
                           /\ memory' = tag'
                           /\ report' = "done"
                           /\ UNCHANGED <<timerVars, child, startup, locked, processVars,
                                          monitorVars, faults>>

ReportToAppMonitor == /\ child = "running"
                      /\ report = "locked"
                      /\ tag' = (tag + 1) % TagModulus
                      /\ memory' = tag'
                      /\ report' = "done"
                      /\ locked' = FALSE
                      /\ UNCHANGED <<timerVars, child, startup, processVars, monitorVars,
                                     faults>>

Hangs == /\ crashes + hangs < MaxFaults
         /\ child = "running"
         /\ child' = "hung"
         /\ hangs' = hangs + 1
         /\ UNCHANGED <<timerVars, startup, tag, report, sharedVars, processVars,
                        monitorVars, crashes>>

Crashes == /\ crashes + hangs < MaxFaults
           /\ child \in Living
           /\ child' = "dead"
           /\ zombie' = TRUE
           /\ signal' = TRUE
           /\ crashes' = crashes + 1
           /\ UNCHANGED <<timerVars, startup, tag, report, sharedVars, old, hosted,
                          monitorVars, hangs>>

OldDies == /\ old
           /\ old' = FALSE
           /\ signal' = TRUE
           /\ UNCHANGED <<timerVars, childVars, sharedVars, hosted, zombie, monitorVars,
                          faults>>
-----------------------------------------------------------------------------
(* The monitor: one pass looks at the memory, then at the table. *)

(* "found", "killed" and "inserted" hold childMutex, "reading" the         *)
(* semaphore of the memory.                                                *)
HoldsMutex == loop \in {"found", "killed", "inserted"}

Moves(from, to) == loop = from /\ loop' = to /\ UNCHANGED resume

LocksMemory == /\ Moves("look", "reading")
               /\ ~locked
               /\ locked' = TRUE
               /\ UNCHANGED <<timerVars, childVars, memory, processVars, seen, age, rest,
                              faults>>

(* Never takes over the new tag. *)
FaultyCheckReporter == /\ Moves("reading", "find")
                       /\ age' = IF memory # seen THEN 0 ELSE age
                       /\ locked' = FALSE
                       /\ UNCHANGED <<timerVars, childVars, memory, processVars, seen, rest,
                                      faults>>

CheckReporter == /\ Moves("reading", "find")
                 /\ seen' = memory
                 /\ age' = IF memory # seen THEN 0 ELSE age
                 /\ locked' = FALSE
                 /\ UNCHANGED <<timerVars, childVars, memory, processVars, rest, faults>>

Finds == /\ Moves("find", "found")
         /\ UNCHANGED <<timerVars, childVars, sharedVars, processVars, seen, age, rest,
                        faults>>

(* Gives a child a quarter of the time. *)
FaultyIsDeadLocked == age >= Limit \div 4

IsDeadLocked == age >= Limit

Decides == /\ loop = "found"
           /\ loop' = IF hosted /\ ~IsDeadLocked THEN "wait"
                      ELSE IF hosted THEN "close" ELSE "spawn"
           /\ UNCHANGED <<timerVars, childVars, sharedVars, processVars, resume, seen, age,
                          rest, faults>>

(* SIGTERM ends a process at once or a little later; one that is dead does *)
(* not mind, and stays in the table.                                       *)
CloseChild == /\ Moves("close", "killed")
              /\ old' = (old \/ child # "dead")
              /\ child' = "dead"
              /\ UNCHANGED <<timerVars, startup, tag, report, sharedVars, hosted, zombie,
                             signal, seen, age, rest, faults>>

Closed == /\ Moves("killed", "spawn")
          /\ UNCHANGED <<timerVars, childVars, sharedVars, processVars, seen, age, rest,
                         faults>>

(* The new child runs before it is in the table.                           *)
Spawns == /\ Moves("spawn", "spawned")
          /\ child' = "starting" /\ startup' = StartTime
          /\ tag' = FirstTag /\ report' = "no"
          /\ hosted' = FALSE /\ zombie' = FALSE
          /\ left' = [t \in Timers |-> Wait[t]]
          /\ list' \in ByTrigger(<<Report, Cleanup>>, Wait)
          /\ mutex' = "free" /\ pc' = "unstarted"
          /\ at' = 1 /\ since' = 0 /\ elapsed' = 0 /\ sleep' = 0
          /\ updated' = FALSE /\ running' = FALSE
          /\ UNCHANGED <<adding, spinning, sharedVars, old, signal, seen, age, rest, faults>>

Inserts == /\ Moves("spawned", "inserted")
           /\ hosted' = TRUE
           /\ UNCHANGED <<timerVars, childVars, sharedVars, old, zombie, signal, seen, age,
                          rest, faults>>

Restarted == /\ Moves("inserted", "wait")
             /\ age' = 0
             /\ rest' = Rest
             /\ UNCHANGED <<timerVars, childVars, sharedVars, processVars, seen, faults>>

(* The loop comes round every millisecond, so it sees every tag.           *)
LooksAgain == /\ Moves("wait", "look")
              /\ rest = 0
              /\ memory # seen
              /\ UNCHANGED <<timerVars, childVars, sharedVars, processVars, seen, age, rest,
                             faults>>

(* child_sig: waits for one dead child after the other until waitpid says  *)
(* that there is no child left; while one lives, it says 0 and the handler *)
(* loops.  It locks childMutex, which its own thread may hold.             *)
Remaining == old \/ child \in Living \cup {"hung"}
HandlesSignal ==
    /\ signal
    /\ loop \notin {"handler", "mutex"}
    /\ signal' = FALSE
    /\ hosted' = IF zombie THEN FALSE ELSE hosted
    /\ zombie' = FALSE
    /\ IF HoldsMutex THEN loop' = "mutex" /\ UNCHANGED resume
       ELSE IF Remaining THEN loop' = "handler" /\ resume' = loop
       ELSE UNCHANGED <<loop, resume>>
    /\ UNCHANGED <<timerVars, childVars, sharedVars, old, seen, age, rest, faults>>

(* The last child has died and was waited for by the same loop; for the    *)
(* signal that it left there is no child.                                  *)
HandlerEnds ==
    /\ loop = "handler"
    /\ ~Remaining
    /\ loop' = resume /\ resume' = "look"
    /\ signal' = FALSE
    /\ hosted' = IF zombie THEN FALSE ELSE hosted
    /\ zombie' = FALSE
    /\ UNCHANGED <<timerVars, childVars, sharedVars, old, seen, age, rest, faults>>
-----------------------------------------------------------------------------
(* Time passes for all when nobody has something to do at once.  A child   *)
(* that waits for the semaphore stands still, and so does the sleep of the *)
(* monitor while its handler loops.                                        *)
Stuck == loop \in {"handler", "mutex"}

MonitorSleeps == \/ loop = "wait" /\ (rest > 0 \/ memory = seen)
                 \/ loop = "look" /\ locked
                 \/ Stuck

Waiting == Reporting /\ report = "no" /\ locked

Tick == /\ signal => Stuck
        /\ MonitorSleeps
        /\ \/ /\ child = "running" /\ report # "locked" /\ ~Waiting
              /\ Ticks
              /\ UNCHANGED startup
           \/ /\ child = "starting" /\ startup > 0
              /\ startup' = startup - 1
              /\ UNCHANGED timerVars
           \/ /\ child \in {"hung", "dead"} \/ (child = "running" /\ Waiting)
              /\ UNCHANGED <<timerVars, startup>>
        /\ age' = IF age < Limit THEN age + 1 ELSE age
        /\ rest' = IF loop = "wait" /\ rest > 0 THEN rest - 1 ELSE rest
        /\ loop' = IF loop = "wait" /\ rest' = 0 THEN "look" ELSE loop
        /\ UNCHANGED <<child, tag, report, sharedVars, processVars, resume, seen, faults>>

ChildStep   == Starts \/ ChildRuns \/ ChildLocks \/ ReportToAppMonitor
MonitorStep == \/ LocksMemory \/ CheckReporter \/ Finds \/ Decides \/ CloseChild
               \/ Closed \/ Spawns \/ Inserts \/ Restarted \/ LooksAgain

Next == \/ ChildStep \/ Hangs \/ Crashes \/ OldDies
        \/ MonitorStep \/ HandlesSignal \/ HandlerEnds
        \/ Tick

(* Both processes run, signals are delivered, a process that was sent      *)
(* SIGTERM ends, and time passes.                                          *)
FairSpec == /\ Init /\ [][Next]_vars
            /\ WF_vars(ChildStep) /\ WF_vars(MonitorStep)
            /\ WF_vars(HandlesSignal) /\ WF_vars(HandlerEnds) /\ WF_vars(OldDies)
            /\ WF_vars(Tick)
-----------------------------------------------------------------------------
(* Properties *)

(* The variables have their types; the monitor never reads while the child *)
(* writes, and without faults nobody else has the memory locked.           *)
Reading == loop = "reading" \/ (loop = "handler" /\ resume = "reading")
Interruptible == {"look", "reading", "find", "close", "spawn", "spawned", "wait"}
TypeOK == /\ TimerTypeOK
          /\ child \in {"starting", "running", "hung", "dead"}
          /\ startup \in 0 .. StartTime /\ rest \in 0 .. Rest /\ age \in 0 .. Limit
          /\ {tag, memory, seen} \subseteq 0 .. TagModulus - 1
          /\ report \in {"no", "locked", "done"}
          /\ {locked, old, hosted, zombie, signal} \subseteq BOOLEAN
          /\ loop \in Interruptible \cup {"found", "killed", "inserted", "handler", "mutex"}
          /\ resume \in Interruptible
          /\ report = "locked" => locked
          /\ Reading => locked /\ report # "locked"
          /\ locked /\ crashes + hangs = 0 => report = "locked" \/ Reading
          /\ zombie => child = "dead"
          /\ crashes + hangs <= MaxFaults

(* A child is replaced only if it hangs or is dead: one that is slow, whose *)
(* report waits for the other timer, whose tag is the one last seen of its *)
(* predecessor, or that just started, is left alone.                       *)
NoFalseAlarm ==
    [][loop = "found" /\ loop' \in {"close", "spawn"} => child \notin Living]_vars

(* The handler of SIGCHLD loops only if a hanging child was closed and     *)
(* another was started before it had ended.  Crashes alone, whenever they  *)
(* come, do not lead there.                                                *)
CrashesAreHandled == hangs = 0 => loop # "handler"

(* A child that hangs or is dead is replaced: also one that died before it *)
(* was put in the table, and one that died while the handler looped over   *)
(* it, with the semaphore taken or not.  Excepted are a child that left    *)
(* the memory locked, a handler that interrupted a holder of childMutex,   *)
(* and one that loops over a child that hangs.                             *)
LeftLocked == locked /\ ~Reading /\ ~(child = "running" /\ report = "locked")
FaultIsNoticed ==
    child \notin Living ~> \/ child \in Living \/ LeftLocked \/ loop = "mutex"
                           \/ loop = "handler" /\ child = "hung"
=============================================================================
