----------------------------- MODULE Rendezvous -----------------------------
(***************************************************************************)
(* How an application host and its remote viewers find each other through  *)
(* the coordinator.  Each of them pushes its keys to the coordinator, which *)
(* keeps them as a row of its clients table, and asks for the rows of the  *)
(* others; each takes the other's session description (SDP) out of an      *)
(* answer once, for the ICE socket it has at that time, and makes a new    *)
(* socket when that one has a problem.                                     *)
(*                                                                         *)
(* The handshake of the video connection is ConnectionHandshake; here it is *)
(* not there, open or connected.  Rows are old because pushes are rare, and *)
(* answers because they travel; a message to the coordinator takes no time  *)
(* (the sender's next steps may as well come before it), and one that is    *)
(* lost is one that was not sent yet.                                      *)
(***************************************************************************)
EXTENDS Integers, Sequences, FiniteSets

CONSTANTS Host,        \* the application host
          Viewers,     \* the remote viewers, all started with Host's GUID
          Null,        \* a key or a column without a value
          Empty,       \* the value "" of GUIDCONNECTTO
          MaxSockets,  \* bound: sockets that a peer makes
          MaxAnswers,  \* bound: answers on their way to a peer
          MaxFaults    \* bound: faults in a behaviour

Peers == {Host} \cup Viewers

(* A socket is named by its owner and a number, and so is its SDP.         *)
Sdp(p, n)  == [owner |-> p, number |-> n]
Sdps       == [owner : Peers, number : 1 .. MaxSockets]

ASSUME RendezvousAssumption ==
    /\ Host \notin Viewers
    /\ Null \notin Peers \cup Sdps /\ Empty \notin Peers /\ Null # Empty
    /\ MaxSockets \in Nat \ {0} /\ MaxAnswers \in Nat /\ MaxFaults \in Nat

VARIABLES peer,    \* the state of each application, see Started
          row,     \* the clients table: the keys last pushed by each peer
          answer,  \* the answers on their way to each peer, each a set of offers
          alive,   \* the applications that run
          faults   \* how many faults happened

vars == <<peer, row, answer, alive, faults>>

KeyValues  == [to : Peers \cup {Null, Empty}, sdp : Sdps \cup {Null}]

(* GUIDCONNECTTO is set from the start by a viewer only.                   *)
Started(p) == [socket |-> 1, ready |-> FALSE, remote |-> Null, ice |-> "idle",
               video |-> "none",
               keys |-> [to |-> IF p = Host THEN Null ELSE Host, sdp |-> Null]]

(* Some viewers run, and some faults can no longer happen.                 *)
Init == /\ peer = [p \in Peers |-> Started(p)]
        /\ row = [p \in Peers |-> Null]
        /\ answer = [p \in Peers |-> <<>>]
        /\ \E started \in SUBSET Viewers : alive = {Host} \cup started
        /\ faults \in 0 .. MaxFaults

Current(p) == Sdp(p, peer[p].socket)

(* The sockets of two running peers hold each other's description.         *)
Matched(p, q) == /\ {p, q} \subseteq alive
                 /\ peer[p].remote = Current(q)
                 /\ peer[q].remote = Current(p)
HasPath(p) == \E q \in Peers : Matched(p, q)

(* A socket that can never connect: the one it was given is gone, or has   *)
(* been given another.                                                     *)
Doomed(p) == LET r == peer[p].remote
             IN  /\ r # Null
                 /\ \/ r.owner \notin alive
                    \/ r # Current(r.owner)
                    \/ peer[r.owner].remote \notin {Null, Current(p)}

Fault == /\ faults < MaxFaults
         /\ faults' = faults + 1

(* Something that happens by itself under the condition, and otherwise     *)
(* counts as a fault.                                                      *)
Unless(condition) == \/ condition /\ UNCHANGED faults
                     \/ ~condition /\ Fault
-----------------------------------------------------------------------------
(* Exchange with the coordinator *)

SetRemote(s, sdp) == IF s.remote # Null THEN s
                     ELSE [s EXCEPT !.remote = sdp, !.ice = "connecting"]

(* Does not look whether a viewer was taken before. *)
FaultyHostTakes(offers) ==
    IF offers = {} THEN {peer[Host]}
    ELSE {[SetRemote(peer[Host], o.sdp) EXCEPT !.keys.to = o.guid] : o \in offers}

(* Takes a viewer although it has taken one. *)
FaultyHostTakesAnother(offers) ==
    IF offers = {} THEN {peer[Host]}
    ELSE {[peer[Host] EXCEPT !.remote = o.sdp, !.ice = "connecting", !.keys.to = o.guid] :
            o \in offers}

(* Does not name the viewer. *)
FaultyHostTakesUnnamed(offers) ==
    IF offers = {} THEN {peer[Host]} ELSE {SetRemote(peer[Host], o.sdp) : o \in offers}

(* The callbacks, with the states they may leave: the host names the       *)
(* viewer that it takes in its own keys; a viewer takes the host's          *)
(* description whomever the host names.                                    *)
HostTakes(offers) ==
    IF peer[Host].remote # Null \/ offers = {} THEN {peer[Host]}
    ELSE {[SetRemote(peer[Host], o.sdp) EXCEPT !.keys.to = o.guid] : o \in offers}

ViewerTakes(v, offers) ==
    IF offers = {} THEN {peer[v]} ELSE {SetRemote(peer[v], o.sdp) : o \in offers}

(* What the callbacks find who are given the first n answers, one after    *)
(* the other: after one with offers there is nothing left to take.         *)
Found(p, n) ==
    UNION {answer[p][i] : i \in {k \in 1 .. n : \A j \in 1 .. k - 1 : answer[p][j] = {}}}

(* The states of p after the part of Update that receives n answers.       *)
Received(p, n) == IF p = Host THEN HostTakes(Found(p, n)) ELSE ViewerTakes(p, Found(p, n))

MayReceive(p, n) == n <= Len(answer[p])
Taken(p, n)      == [answer EXCEPT ![p] = SubSeq(@, n + 1, Len(@))]

(* REPLACE INTO clients with all keys of the client.                       *)
RowsAfterPush(p, s, pushes) == IF pushes THEN [row EXCEPT ![p] = s.keys] ELSE row

(* SetKeyPair("SDP"), with every pass of the timer once the socket is ready. *)
Published(p, s) == IF s.ready THEN [s EXCEPT !.keys.sdp = Sdp(p, s.socket)] ELSE s

(* WHERE GUIDCONNECTTO = host, or WHERE GUID = host.                       *)
Selects(p, q, rows) == /\ rows[q] # Null
                       /\ IF p = Host THEN rows[q].to = Host ELSE q = Host

(* The rows of the result that a callback can use.                         *)
Offers(p, rows) ==
    {[guid |-> q, sdp |-> rows[q].sdp] :
        q \in {r \in Peers : /\ Selects(p, r, rows)
                             /\ rows[r].to # Null /\ rows[r].sdp # Null}}

(* A query every second, whether the last one was answered or not.         *)
MayAsk(p, asks, answers) ==
    asks => peer[p].ready /\ peer[p].video = "none" /\ Len(answers[p]) < MaxAnswers
Asked(p, rows, asks, answers) ==
    IF asks THEN [answers EXCEPT ![p] = Append(@, Offers(p, rows))] ELSE answers

(* The host's coordinator timer: Update receives and pushes, then the SDP  *)
(* is published and the table is asked for viewers.                        *)
HostCoordinatorTimer(receives, pushes, asks) ==
    /\ MayReceive(Host, receives) /\ MayAsk(Host, asks, Taken(Host, receives))
    /\ \E s \in Received(Host, receives) :
           /\ peer' = [peer EXCEPT ![Host] = Published(Host, s)]
           /\ row' = RowsAfterPush(Host, s, pushes)
    /\ answer' = Asked(Host, row', asks, Taken(Host, receives))
    /\ UNCHANGED <<alive, faults>>

(* A viewer has a timer for each of the two parts.                         *)
ViewerCoordinatorTimer(v, receives, pushes) ==
    /\ v \in alive
    /\ MayReceive(v, receives)
    /\ receives > 0 \/ pushes
    /\ \E s \in Received(v, receives) :
           /\ peer' = [peer EXCEPT ![v] = s]
           /\ row' = RowsAfterPush(v, s, pushes)
    /\ answer' = Taken(v, receives)
    /\ UNCHANGED <<alive, faults>>

ViewerJuiceTimer(v, asks) ==
    /\ v \in alive
    /\ MayAsk(v, asks, answer)
    /\ peer' = [peer EXCEPT ![v] = Published(v, peer[v])]
    /\ answer' = Asked(v, row, asks, answer)
    /\ UNCHANGED <<row, alive, faults>>

(* The cleanup: the row of a client that pushes comes to an age of five    *)
(* seconds only when its pushes are held up.                               *)
CoordinatorForgets(p) == /\ row[p] # Null
                         /\ Unless(p \notin alive)
                         /\ row' = [row EXCEPT ![p] = Null]
                         /\ UNCHANGED <<peer, answer, alive>>

SessionLost(p) == /\ Fault
                  /\ answer[p] # <<>>
                  /\ answer' = [answer EXCEPT ![p] = <<>>]
                  /\ UNCHANGED <<peer, row, alive>>

(* The coordinator starts with an empty table and no sessions.             *)
CoordinatorRestarts == /\ Fault
                       /\ row' = [p \in Peers |-> Null]
                       /\ answer' = [p \in Peers |-> <<>>]
                       /\ UNCHANGED <<peer, alive>>
-----------------------------------------------------------------------------
(* The ICE sockets: libjuice works on a thread of its own *)

Gathered(p) == /\ p \in alive
               /\ ~peer[p].ready
               /\ peer' = [peer EXCEPT ![p].ready = TRUE]
               /\ UNCHANGED <<row, answer, alive, faults>>

IceConnects(p) == /\ peer[p].ice = "connecting"
                  /\ HasPath(p)
                  /\ peer' = [peer EXCEPT ![p].ice = "connected"]
                  /\ UNCHANGED <<row, answer, alive, faults>>

IceFails(p) == /\ p \in alive
               /\ peer[p].ice \in {"connecting", "connected"}
               /\ Unless(Doomed(p))
               /\ peer' = [peer EXCEPT ![p].ice = "failed"]
               /\ UNCHANGED <<row, answer, alive>>

(* Keeps the description of the other end. *)
FaultyNewSocket(s) == [s EXCEPT !.socket = @ + 1, !.ready = FALSE, !.ice = "idle"]

NewSocket(s) == [s EXCEPT !.socket = @ + 1, !.ready = FALSE, !.remote = Null,
                          !.ice = "idle"]
-----------------------------------------------------------------------------
(* The video connection over the sockets *)

(* Both ends of the path hold to the same video connection, or can still   *)
(* come to one.                                                            *)
Works(v) == /\ Matched(Host, v)
            /\ peer[Host].ice # "failed" /\ peer[v].ice # "failed"
            /\ peer[v].video = "connected" => peer[Host].video = "connected"

Broken(p) == IF p = Host THEN \A v \in Viewers : ~Works(v) ELSE ~Works(p)

(* Waits for a connection that has failed. *)
FaultyHasProblem(p) == peer[p].ice = "connecting" /\ Unless(Doomed(p))

(* HasProblem: failed, or connecting for more than 15 seconds, which is    *)
(* longer than the exchange of the descriptions takes.                     *)
HasProblem(p) == \/ peer[p].ice = "failed" /\ UNCHANGED faults
                 \/ peer[p].ice = "connecting" /\ Unless(Doomed(p))

RenewsSocket(p) == /\ p \in alive
                   /\ peer[p].video = "none"
                   /\ peer[p].socket < MaxSockets
                   /\ HasProblem(p)
                   /\ peer' = [peer EXCEPT ![p] = NewSocket(@)]
                   /\ UNCHANGED <<row, answer, alive>>

OpensVideo(p) == /\ p \in alive
                 /\ peer[p].video = "none"
                 /\ peer[p].ice = "connected"
                 /\ peer' = [peer EXCEPT ![p].video = "open"]
                 /\ UNCHANGED <<row, answer, alive, faults>>

HostConnects == /\ peer[Host].video = "open"
                /\ \E v \in Viewers : Works(v) /\ peer[v].video = "open"
                /\ peer' = [peer EXCEPT ![Host].video = "connected"]
                /\ UNCHANGED <<row, answer, alive, faults>>

(* A viewer that is connected no longer asks for the host, now or later.   *)
ViewerConnects(v) == /\ peer[v].video = "open"
                     /\ Works(v) /\ peer[Host].video = "connected"
                     /\ peer' = [peer EXCEPT ![v] = [@ EXCEPT !.video = "connected",
                                                             !.keys.to = Empty]]
                     /\ UNCHANGED <<row, answer, alive, faults>>

(* The host keeps its socket, and makes a connection over it again as long *)
(* as libjuice takes it for connected.                                     *)
HostVideoEnds == /\ peer[Host].video # "none"
                 /\ Unless(Broken(Host))
                 /\ peer' = [peer EXCEPT ![Host].video = "none"]
                 /\ UNCHANGED <<row, answer, alive>>

ViewerVideoEnds(v) == /\ v \in alive
                      /\ peer[v].video # "none"
                      /\ peer[v].socket < MaxSockets
                      /\ Unless(Broken(v))
                      /\ peer' = [peer EXCEPT ![v] = [NewSocket(@) EXCEPT !.video = "none"]]
                      /\ UNCHANGED <<row, answer, alive>>

(* The process of a viewer ends; what it was no longer matters.            *)
ViewerQuits(v) == /\ v \in alive
                  /\ alive' = alive \ {v}
                  /\ peer' = [peer EXCEPT ![v] = Started(v)]
                  /\ answer' = [answer EXCEPT ![v] = <<>>]
                  /\ UNCHANGED <<row, faults>>
-----------------------------------------------------------------------------
VideoTimer(p) == \/ RenewsSocket(p)
                 \/ OpensVideo(p)
                 \/ p = Host /\ (HostConnects \/ HostVideoEnds)
                 \/ p # Host /\ (ViewerConnects(p) \/ ViewerVideoEnds(p))

CoordinatorTimer(p, receives, pushes, asks) ==
    \/ p = Host /\ HostCoordinatorTimer(receives, pushes, asks)
    \/ p # Host /\ \/ ViewerCoordinatorTimer(p, receives, pushes)
                   \/ ViewerJuiceTimer(p, asks)

Network(p) == Gathered(p) \/ IceConnects(p) \/ IceFails(p)

Next == \/ \E p \in Peers : \/ \E receives \in 0 .. MaxAnswers, pushes, asks \in BOOLEAN :
                                CoordinatorTimer(p, receives, pushes, asks)
                          \/ CoordinatorForgets(p)
                          \/ SessionLost(p)
                          \/ Network(p)
                          \/ VideoTimer(p)
        \/ CoordinatorRestarts
        \/ \E v \in Viewers : ViewerQuits(v)

Spec == Init /\ [][Next]_vars

(* Timers run again and again, also with each of their parts: answers are  *)
(* taken, pushes and queries sent at their intervals.  The coordinator,    *)
(* libjuice and the timeouts do what they do without a fault.              *)
WithoutFault(A) == A /\ UNCHANGED faults
Receives(p) == \E receives \in 1 .. MaxAnswers, pushes, asks \in BOOLEAN :
                   IF p = Host THEN HostCoordinatorTimer(receives, pushes, asks)
                   ELSE ViewerCoordinatorTimer(p, receives, pushes)
Pushes(p)   == \E receives \in 0 .. MaxAnswers, asks \in BOOLEAN :
                   IF p = Host THEN HostCoordinatorTimer(receives, TRUE, asks)
                   ELSE ViewerCoordinatorTimer(p, receives, TRUE)
Asks(p)     == \E receives \in 0 .. MaxAnswers, pushes \in BOOLEAN :
                   IF p = Host THEN HostCoordinatorTimer(receives, pushes, TRUE)
                   ELSE ViewerJuiceTimer(p, TRUE)
Fairness ==
    \A p \in Peers : /\ WF_vars(Receives(p))
                     /\ WF_vars(Pushes(p))
                     /\ WF_vars(Asks(p))
                     /\ WF_vars(WithoutFault(CoordinatorForgets(p)))
                     /\ WF_vars(WithoutFault(Network(p)))
                     /\ WF_vars(WithoutFault(VideoTimer(p)))
FairSpec == Spec /\ Fairness
-----------------------------------------------------------------------------
(* Properties *)

(* The variables have their types; what is published of a peer is an SDP   *)
(* of its own; a socket is idle until it is given a remote description.    *)
PeerStates == [socket : 1 .. MaxSockets, ready : BOOLEAN, remote : Sdps \cup {Null},
               ice : {"idle", "connecting", "connected", "failed"},
               video : {"none", "open", "connected"}, keys : KeyValues]
TypeOK == /\ peer \in [Peers -> PeerStates]
          /\ \A p \in Peers : peer[p].ice = "idle" <=> peer[p].remote = Null
          /\ \A p \in Peers : /\ peer[p].keys.sdp \in {Null} \cup {Sdp(p, n) : n \in 1 .. peer[p].socket}
                              /\ row[p] # Null /\ row[p].sdp # Null => row[p].sdp.owner = p
          /\ row \in [Peers -> KeyValues \cup {Null}]
          /\ answer \in [Peers -> Seq(SUBSET [guid : Peers, sdp : Sdps])]
          /\ \A p \in Peers : Len(answer[p]) <= MaxAnswers
          /\ alive \subseteq Peers /\ Host \in alive
          /\ faults \in 0 .. MaxFaults

(* While the host's socket is given to a viewer, the host's keys name that *)
(* viewer, whatever late answers come and whenever sockets are renewed.    *)
NamesItsViewer == peer[Host].remote # Null => peer[Host].keys.to = peer[Host].remote.owner

(* Once a viewer and the host hold each other's sockets, no late answer,   *)
(* other viewer or repeated query takes them apart: only a fault does, or  *)
(* the end of the viewer.                                                  *)
PairStays == [][\A v \in Viewers :
                   Works(v) => Works(v)' \/ faults' # faults \/ v \notin alive']_vars

(* Without faults, and while no viewer quits, the host and a viewer find   *)
(* each other and connect, although several viewers want the host.         *)
Undisturbed == faults = MaxFaults /\ alive = Peers
Together(v) == Works(v) /\ peer[v].video = "connected"
FirstViewerConnects == []Undisturbed => <>(\E v \in Viewers : Together(v))

(* A socket that can never connect, because the other end is gone, has a   *)
(* new socket or holds another's, is replaced in the end; also when the    *)
(* viewer vanished while it was connected.                                 *)
ProblemIsNoticed ==
    \A p \in Peers : Doomed(p) ~> \/ ~Doomed(p) \/ p \notin alive
                                 \/ peer[p].socket = MaxSockets
=============================================================================
