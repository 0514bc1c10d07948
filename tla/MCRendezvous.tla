---------------------------- MODULE MCRendezvous ----------------------------
(***************************************************************************)
(* A host and two viewers that both want it, without faults, or one viewer  *)
(* and faults.                                                             *)
(***************************************************************************)
EXTENDS Rendezvous

CONSTANTS host, v1, v2

MCViewers == {v1, v2}

MCInit == /\ Init
          /\ \/ alive = {host, v1, v2} /\ faults = MaxFaults
             \/ alive = {host, v1} /\ faults = 0
MCSpec     == MCInit /\ [][Next]_vars
MCFairSpec == MCSpec /\ Fairness
=============================================================================
