-------------------------- MODULE MCTimerController --------------------------
(***************************************************************************)
(* Three timers for TLC: two that loop, one of them often, and one that    *)
(* runs once; the callback of the first may take longer than it waits.     *)
(***************************************************************************)
EXTENDS TimerController

CONSTANTS often, seldom, once

MCTimers  == {often, seldom, once}
MCWait    == [t \in MCTimers |-> IF t = seldom THEN 10 ELSE 1]
MCLooping == {often, seldom}
MCCost    == [t \in MCTimers |-> IF t = often THEN 2 ELSE 1]

MCTotalCost == [S \in SUBSET MCTimers |-> FoldFunctionOnSet(+, 0, MCCost, S)]
=============================================================================
