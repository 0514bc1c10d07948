-------------------------- MODULE MCDeadlockMonitor --------------------------
(***************************************************************************)
(* Time in half seconds: the timers of the coordinator wait for 0.5 and    *)
(* 2.5 seconds, the monitor for 8 and 3.  A child takes a second to start, *)
(* a callback up to half a second.                                         *)
(***************************************************************************)
EXTENDS DeadlockMonitor

CONSTANTS report_, cleanup_

MCTimers == {report_, cleanup_}
MCWait   == [t \in MCTimers |-> IF t = report_ THEN 1 ELSE 5]
MCCost   == [t \in MCTimers |-> 1]

MCTotalCost == [S \in SUBSET MCTimers |-> FoldFunctionOnSet(+, 0, MCCost, S)]
=============================================================================
