------------------------ MODULE UnreliableTranscoder -----------------------
(***************************************************************************)
(* The unreliable half of ReliabilityTranscoder: messages that carry an    *)
(* index but are neither kept nor acknowledged.  The actions take their    *)
(* payloads as parameters: MessageSplit composes them with the transcoder  *)
(* above; the specification at the end runs them on their own.             *)
(***************************************************************************)
EXTENDS Integers, Sequences

CONSTANTS Modulus,          \* 2^16 in the code
          FirstUnreliable,  \* 65499 in the code
          Payloads,         \* what the specification at the end sends
          MaxUnreliable     \* bound: unreliable messages in a behaviour

VARIABLES unrelSent,   \* messages sent; _outGoingIndices.Unreliable counts them
          unrelNet,    \* messages in flight
          inUnrel      \* _incomingIndices.Unreliable

unreliableVars == <<unrelSent, unrelNet, inUnrel>>

HalfRange == (Modulus - 1) \div 2

DistanceToIndex(new, cur) ==
    LET ahead == new - cur
        down  == IF ahead > HalfRange THEN ahead - Modulus ELSE ahead
    IN  IF down < -HalfRange THEN down + Modulus ELSE down

InitUnreliable == unrelSent = 0 /\ unrelNet = {} /\ inUnrel = FirstUnreliable

\* The index is taken before IsSaturated is asked, so a message dropped for
\* saturation uses one up.  Within one call saturation only sets in.
SendUnreliable(parts) ==
    /\ unrelSent + Len(parts) <= MaxUnreliable
    /\ unrelSent' = unrelSent + Len(parts)
    /\ \E kept \in 0..Len(parts) :
          unrelNet' = unrelNet \cup
              {[index |-> (FirstUnreliable + unrelSent + i - 1) % Modulus,
                payload |-> parts[i]] : i \in 1..kept}
    /\ UNCHANGED inUnrel

\* The comparison of Recv, with the awaited index as the newer one.
PassedOn(m) == DistanceToIndex(inUnrel, m.index) >= 0

FaultyRecvUnreliable(m) ==
    /\ m \in unrelNet
    /\ unrelNet' \in {unrelNet, unrelNet \ {m}}
    /\ inUnrel' = IF PassedOn(m) THEN m.index + 1 ELSE inUnrel
    /\ UNCHANGED unrelSent

RecvUnreliable(m) ==
    /\ m \in unrelNet
    /\ unrelNet' \in {unrelNet, unrelNet \ {m}}
    /\ inUnrel' = IF PassedOn(m) THEN (m.index + 1) % Modulus ELSE inUnrel
    /\ UNCHANGED unrelSent

LoseUnreliable ==
    /\ \E m \in unrelNet : unrelNet' = unrelNet \ {m}
    /\ UNCHANGED <<unrelSent, inUnrel>>

-----------------------------------------------------------------------------
UnreliableNext ==
    \/ \E p \in Payloads : SendUnreliable(<<p>>)
    \/ \E m \in unrelNet : RecvUnreliable(m)
    \/ LoseUnreliable

UnreliableSpec == InitUnreliable /\ [][UnreliableNext]_unreliableVars

\* "if its ahead process it": a message at or past the awaited index is passed
\* on, so the awaited index moves behind it.
AheadIsProcessed ==
    [][\A m \in unrelNet :
          RecvUnreliable(m) /\ DistanceToIndex(m.index, inUnrel) >= 0
              => inUnrel' = (m.index + 1) % Modulus]_unreliableVars
=============================================================================
