-------------------------- MODULE OrderedDelivery --------------------------
(***************************************************************************)
(* What a pair of ReliabilityTranscoder objects promises to the code above *)
(* them: messages handed to SendMessage(.., IS_RELIABLE) on one endpoint   *)
(* come out of Recv on the other endpoint in the order they were accepted, *)
(* each of them once, until the receiving connection closes down.          *)
(* Messages are numbered 1, 2, ... in the order they are accepted.         *)
(***************************************************************************)
EXTENDS Naturals

VARIABLES accepted,    \* how many messages the sender has accepted
          delivered,   \* the messages delivered so far, in order
          open         \* FALSE once the receiving connection is DISCONNECTED

vars == <<accepted, delivered, open>>

Prefix(n) == [k \in 1..n |-> k]

Init ==
    /\ accepted = 0
    /\ delivered = Prefix(0)
    /\ open = TRUE

Accept ==
    /\ accepted' = accepted + 1
    /\ UNCHANGED <<delivered, open>>

\* One datagram may release several messages: those that arrived early are
\* delivered together with the one they were waiting for.
Deliver ==
    /\ open
    /\ \E from \in 0..accepted, to \in 0..accepted :
          /\ from < to
          /\ delivered = Prefix(from)
          /\ delivered' = Prefix(to)
    /\ UNCHANGED <<accepted, open>>

Close ==
    /\ open
    /\ open' = FALSE
    /\ UNCHANGED <<accepted, delivered>>

Next == Accept \/ Deliver \/ Close

Spec == Init /\ [][Next]_vars
=============================================================================
