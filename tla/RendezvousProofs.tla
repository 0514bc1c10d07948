--------------------------- MODULE RendezvousProofs ---------------------------
(***************************************************************************)
(* Proofs about Rendezvous, for any viewers, number of sockets and faults: *)
(* its types, that the host names the viewer its socket is given to, and   *)
(* that a pair is taken apart by faults only.                              *)
(***************************************************************************)
EXTENDS Rendezvous, TLAPS

(* What is known of one application, one row and one answer.               *)
PeerGood(p, s) == /\ s \in PeerStates
                  /\ s.ice = "idle" <=> s.remote = Null
                  /\ s.keys.sdp \in {Null} \cup {Sdp(p, n) : n \in 1 .. s.socket}
                  /\ p = Host /\ s.remote # Null => s.keys.to = s.remote.owner
RowGood(p, k)  == k # Null => k \in KeyValues /\ (k.sdp # Null => k.sdp.owner = p)
OfferGood(o)   == /\ o \in [guid : Peers, sdp : Sdps]
                  /\ o.sdp # Null /\ o.sdp.owner = o.guid
AnswerGood(a)  == \A o \in a : OfferGood(o)
Answers        == Seq(SUBSET [guid : Peers, sdp : Sdps])
AnswersGood(s) == /\ s \in Answers /\ Len(s) <= MaxAnswers
                  /\ \A i \in 1 .. Len(s) : AnswerGood(s[i])

Counted == /\ alive \subseteq Peers /\ Host \in alive
           /\ faults \in 0 .. MaxFaults

(* An answer tells of each peer what that peer once published of itself;   *)
(* so whom the host names is whose description it takes.                   *)
IInv == /\ peer \in [Peers -> PeerStates] /\ \A p \in Peers : PeerGood(p, peer[p])
        /\ row \in [Peers -> KeyValues \cup {Null}] /\ \A p \in Peers : RowGood(p, row[p])
        /\ answer \in [Peers -> Answers] /\ \A p \in Peers : AnswersGood(answer[p])
        /\ Counted
-----------------------------------------------------------------------------
(* Changes of one application.                                             *)

LEMMA SdpIsOwned ==
    ASSUME NEW p \in Peers, NEW n \in 1 .. MaxSockets
    PROVE  Sdp(p, n) \in Sdps /\ Sdp(p, n).owner = p
  BY DEF Sdp, Sdps

LEMMA SetRemoteGood ==
    ASSUME NEW p \in Peers, NEW s, PeerGood(p, s), p # Host,
           NEW o, OfferGood(o)
    PROVE  PeerGood(p, SetRemote(s, o.sdp))
  BY DEF PeerGood, PeerStates, OfferGood, SetRemote

LEMMA HostTakesGood ==
    ASSUME NEW s, PeerGood(Host, s), s.remote = Null,
           NEW o, OfferGood(o)
    PROVE  PeerGood(Host, [SetRemote(s, o.sdp) EXCEPT !.keys.to = o.guid])
  BY DEF PeerGood, PeerStates, KeyValues, OfferGood, SetRemote

LEMMA PublishedGood ==
    ASSUME NEW p \in Peers, NEW s, PeerGood(p, s), RendezvousAssumption
    PROVE  PeerGood(p, Published(p, s))
  <1>1. s \in PeerStates /\ s.socket \in 1 .. MaxSockets
    BY DEF PeerGood, PeerStates
  <1>2. Sdp(p, s.socket) \in Sdps /\ Sdp(p, s.socket).owner = p
    BY <1>1, SdpIsOwned
  <1>3. Sdp(p, s.socket) \in {Sdp(p, n) : n \in 1 .. s.socket}
    BY <1>1 DEF RendezvousAssumption
  <1>4. QED BY <1>1, <1>2, <1>3 DEF PeerGood, PeerStates, KeyValues, Published

LEMMA NewSocketGood ==
    ASSUME NEW p \in Peers, NEW s, PeerGood(p, s), s.socket < MaxSockets,
           RendezvousAssumption
    PROVE  /\ PeerGood(p, NewSocket(s))
           /\ PeerGood(p, [NewSocket(s) EXCEPT !.video = "none"])
  <1>1. s \in PeerStates /\ s.socket + 1 \in 1 .. MaxSockets
    BY DEF PeerGood, PeerStates, RendezvousAssumption
  <1>2. NewSocket(s) = [s EXCEPT !.socket = s.socket + 1, !.ready = FALSE, !.remote = Null,
                                 !.ice = "idle"]
    BY DEF NewSocket
  <1>3. {Sdp(p, n) : n \in 1 .. s.socket} \subseteq {Sdp(p, n) : n \in 1 .. (s.socket + 1)}
    BY <1>1 DEF PeerStates
  <1>4. QED BY <1>1, <1>2, <1>3 DEF PeerGood, PeerStates

LEMMA StartedGood ==
    ASSUME NEW p \in Peers, RendezvousAssumption
    PROVE  PeerGood(p, Started(p))
  BY DEF PeerGood, PeerStates, KeyValues, Started, Peers, RendezvousAssumption

LEMMA KeysGood ==
    ASSUME NEW p \in Peers, NEW s, PeerGood(p, s)
    PROVE  RowGood(p, s.keys) /\ s.keys \in KeyValues
  BY DEF PeerGood, PeerStates, RowGood, Sdp

LEMMA OffersGood ==
    ASSUME NEW p \in Peers, NEW rows \in [Peers -> KeyValues \cup {Null}],
           \A q \in Peers : RowGood(q, rows[q])
    PROVE  AnswerGood(Offers(p, rows))
  <1>1. ASSUME NEW o \in Offers(p, rows)
        PROVE  OfferGood(o)
    <2>1. PICK q \in Peers : /\ o = [guid |-> q, sdp |-> rows[q].sdp]
                             /\ rows[q] # Null /\ rows[q].sdp # Null
      BY DEF Offers, Selects
    <2>2. rows[q] \in KeyValues /\ rows[q].sdp.owner = q
      BY <2>1 DEF RowGood
    <2>3. QED BY <2>1, <2>2 DEF OfferGood, KeyValues
  <1>2. QED BY <1>1 DEF AnswerGood

(* An answer loses its first parts, or is lost, or is not.                 *)
LEMMA TakenGood ==
    ASSUME NEW s, AnswersGood(s), NEW n \in Nat, n <= Len(s)
    PROVE  AnswersGood(SubSeq(s, n + 1, Len(s))) /\ Len(SubSeq(s, n + 1, Len(s))) <= Len(s)
  <1> DEFINE t == SubSeq(s, n + 1, Len(s))
  <1>1. s \in Seq(SUBSET [guid : Peers, sdp : Sdps]) /\ Len(s) \in Nat
    BY DEF AnswersGood, Answers
  <1>2. /\ t \in Seq(SUBSET [guid : Peers, sdp : Sdps]) /\ Len(t) = Len(s) - n
        /\ \A i \in 1 .. Len(t) : t[i] = s[n + i]
    BY <1>1
  <1> HIDE DEF t
  <1>3. \A i \in 1 .. Len(t) : AnswerGood(t[i])
    BY <1>1, <1>2 DEF AnswersGood, Answers
  <1>4. Len(t) <= MaxAnswers
    BY <1>1, <1>2, RendezvousAssumption DEF AnswersGood, Answers
  <1>5. QED BY <1>1, <1>2, <1>3, <1>4 DEF AnswersGood, Answers, t

LEMMA AppendedGood ==
    ASSUME NEW s, AnswersGood(s), NEW a, AnswerGood(a), Len(s) < MaxAnswers
    PROVE  AnswersGood(Append(s, a))
  <1>1. s \in Seq(SUBSET [guid : Peers, sdp : Sdps]) /\ Len(s) \in Nat
    BY DEF AnswersGood, Answers
  <1>2. a \in SUBSET [guid : Peers, sdp : Sdps]
    BY DEF AnswerGood, OfferGood
  <1>3. /\ Append(s, a) \in Seq(SUBSET [guid : Peers, sdp : Sdps])
        /\ Len(Append(s, a)) = Len(s) + 1
        /\ \A i \in 1 .. Len(s) + 1 : Append(s, a)[i] = IF i <= Len(s) THEN s[i] ELSE a
    BY <1>1, <1>2
  <1>4. \A i \in 1 .. Len(s) + 1 : AnswerGood(Append(s, a)[i])
    BY <1>1, <1>3 DEF AnswersGood, Answers
  <1>5. QED BY <1>1, <1>3, <1>4, RendezvousAssumption DEF AnswersGood, Answers

LEMMA FoundGood ==
    ASSUME IInv, NEW p \in Peers, NEW n \in 0 .. MaxAnswers, MayReceive(p, n)
    PROVE  \A o \in Found(p, n) : OfferGood(o)
  <1>1. AnswersGood(answer[p]) /\ n <= Len(answer[p])
    BY DEF IInv, MayReceive
  <1>2. ASSUME NEW o \in Found(p, n) PROVE OfferGood(o)
    <2>1. PICK i \in 1 .. n : o \in answer[p][i]
      BY DEF Found
    <2>2. i \in 1 .. Len(answer[p])
      BY <1>1, RendezvousAssumption DEF AnswersGood, Answers
    <2>3. QED BY <1>1, <2>1, <2>2 DEF AnswersGood, Answers, AnswerGood
  <1>3. QED BY <1>2

LEMMA ReceivedGood ==
    ASSUME IInv, NEW p \in Peers, NEW receives \in 0 .. MaxAnswers, MayReceive(p, receives),
           NEW s \in Received(p, receives)
    PROVE  PeerGood(p, s)
  <1>1. PeerGood(p, peer[p])
    BY DEF IInv
  <1>2. \A o \in Found(p, receives) : OfferGood(o)
    BY FoundGood
  <1>3. CASE p = Host
    <2>1. s \in HostTakes(Found(Host, receives))
      BY <1>3 DEF Received
    <2>2. CASE s = peer[Host]
      BY <1>1, <1>3, <2>2
    <2>3. CASE /\ peer[Host].remote = Null
               /\ \E o \in Found(Host, receives) :
                      s = [SetRemote(peer[Host], o.sdp) EXCEPT !.keys.to = o.guid]
      BY <1>1, <1>2, <1>3, <2>3, HostTakesGood
    <2>4. QED BY <2>1, <2>2, <2>3 DEF HostTakes
  <1>4. CASE p # Host
    <2>1. s \in ViewerTakes(p, Found(p, receives))
      BY <1>4 DEF Received
    <2>2. s = peer[p] \/ \E o \in Found(p, receives) : s = SetRemote(peer[p], o.sdp)
      BY <2>1 DEF ViewerTakes
    <2>3. QED BY <1>1, <1>2, <1>4, <2>2, SetRemoteGood
  <1>5. QED BY <1>3, <1>4
-----------------------------------------------------------------------------
(* Steps.                                                                  *)

LEMMA PeerMoves ==
    ASSUME IInv, NEW p \in Peers, NEW s, PeerGood(p, s),
           peer' = [peer EXCEPT ![p] = s],
           UNCHANGED <<row, answer>>, Counted'
    PROVE  IInv'
  <1>1. s \in PeerStates
    BY DEF PeerGood
  <1>2. peer' \in [Peers -> PeerStates] /\ \A q \in Peers : peer'[q] = IF q = p THEN s ELSE peer[q]
    BY <1>1 DEF IInv
  <1>3. \A q \in Peers : PeerGood(q, peer'[q])
    BY <1>2 DEF IInv
  <1>4. QED BY <1>2, <1>3 DEF IInv

LEMMA RowsPushed ==
    ASSUME IInv, NEW p \in Peers, NEW s, PeerGood(p, s), NEW pushes \in BOOLEAN
    PROVE  LET rows == RowsAfterPush(p, s, pushes)
           IN  /\ rows \in [Peers -> KeyValues \cup {Null}]
               /\ \A q \in Peers : RowGood(q, rows[q])
  <1>1. RowGood(p, s.keys) /\ s.keys \in KeyValues
    BY KeysGood
  <1>2. row \in [Peers -> KeyValues \cup {Null}] /\ \A q \in Peers : RowGood(q, row[q])
    BY DEF IInv
  <1>3. CASE pushes
    <2>1. RowsAfterPush(p, s, pushes) = [row EXCEPT ![p] = s.keys]
      BY <1>3 DEF RowsAfterPush
    <2>2. \A q \in Peers : [row EXCEPT ![p] = s.keys][q] = IF q = p THEN s.keys ELSE row[q]
      BY <1>2
    <2>3. QED BY <1>1, <1>2, <2>1, <2>2
  <1>4. CASE ~pushes
    BY <1>2, <1>4 DEF RowsAfterPush
  <1>5. QED BY <1>3, <1>4

LEMMA AnswersTaken ==
    ASSUME IInv, NEW p \in Peers, NEW receives \in 0 .. MaxAnswers, MayReceive(p, receives)
    PROVE  LET answers == Taken(p, receives)
           IN  answers \in [Peers -> Answers] /\ \A q \in Peers : AnswersGood(answers[q])
  <1>1. answer \in [Peers -> Answers] /\ \A q \in Peers : AnswersGood(answer[q])
    BY DEF IInv
  <1>2. receives \in Nat /\ receives <= Len(answer[p])
    BY RendezvousAssumption DEF MayReceive
  <1>3. AnswersGood(SubSeq(answer[p], receives + 1, Len(answer[p])))
    BY <1>1, <1>2, TakenGood
  <1>4. SubSeq(answer[p], receives + 1, Len(answer[p])) \in Answers
    BY <1>3 DEF AnswersGood
  <1>5. QED BY <1>1, <1>3, <1>4 DEF Taken

LEMMA AnswersAsked ==
    ASSUME NEW p \in Peers, NEW asks \in BOOLEAN,
           NEW rows \in [Peers -> KeyValues \cup {Null}],
           \A q \in Peers : RowGood(q, rows[q]),
           NEW answers, answers \in [Peers -> Answers], \A q \in Peers : AnswersGood(answers[q]),
           MayAsk(p, asks, answers)
    PROVE  LET asked == Asked(p, rows, asks, answers)
           IN  asked \in [Peers -> Answers] /\ \A q \in Peers : AnswersGood(asked[q])
  <1>1. asks => AnswersGood(Append(answers[p], Offers(p, rows)))
    BY OffersGood, AppendedGood DEF MayAsk
  <1>2. asks => Append(answers[p], Offers(p, rows)) \in Answers
    BY <1>1 DEF AnswersGood
  <1>3. QED BY <1>1, <1>2 DEF Asked

LEMMA CoordinatorTimerKeeps ==
    ASSUME IInv, RendezvousAssumption, NEW p \in Peers,
           NEW receives \in 0 .. MaxAnswers, NEW pushes \in BOOLEAN, NEW asks \in BOOLEAN,
           CoordinatorTimer(p, receives, pushes, asks)
    PROVE  IInv'
  <1>1. Counted'
    BY DEF CoordinatorTimer, HostCoordinatorTimer, ViewerCoordinatorTimer, ViewerJuiceTimer,
           IInv, Counted
  <1>2. CASE p = Host /\ HostCoordinatorTimer(receives, pushes, asks)
    <2>1. PICK s \in Received(Host, receives) :
              /\ peer' = [peer EXCEPT ![Host] = Published(Host, s)]
              /\ row' = RowsAfterPush(Host, s, pushes)
      BY <1>2 DEF HostCoordinatorTimer
    <2>2. PeerGood(Host, s)
      BY <1>2, ReceivedGood DEF HostCoordinatorTimer
    <2>3. PeerGood(Host, Published(Host, s)) /\ Published(Host, s) \in PeerStates
      BY <1>2, <2>2, PublishedGood DEF PeerGood
    <2>4. peer' \in [Peers -> PeerStates] /\ \A q \in Peers : PeerGood(q, peer'[q])
      BY <1>2, <2>1, <2>3 DEF IInv
    <2>5. /\ row' \in [Peers -> KeyValues \cup {Null}]
          /\ \A q \in Peers : RowGood(q, row'[q])
      BY <1>2, <2>1, <2>2, RowsPushed
    <2>6. answer' \in [Peers -> Answers] /\ \A q \in Peers : AnswersGood(answer'[q])
      <3>1. answer' = Asked(Host, row', asks, Taken(Host, receives))
        BY <1>2 DEF HostCoordinatorTimer
      <3>2. /\ MayReceive(Host, receives) /\ MayAsk(Host, asks, Taken(Host, receives))
            /\ Host \in Peers
        BY <1>2 DEF HostCoordinatorTimer
      <3>3. QED BY <2>5, <3>1, <3>2, AnswersTaken, AnswersAsked
    <2>7. QED BY <1>1, <2>4, <2>5, <2>6 DEF IInv
  <1>3. CASE p # Host /\ ViewerCoordinatorTimer(p, receives, pushes)
    <2>1. PICK s \in Received(p, receives) : /\ peer' = [peer EXCEPT ![p] = s]
                                             /\ row' = RowsAfterPush(p, s, pushes)
      BY <1>3 DEF ViewerCoordinatorTimer
    <2>2. PeerGood(p, s) /\ s \in PeerStates
      BY <1>3, ReceivedGood DEF ViewerCoordinatorTimer, PeerGood
    <2>3. peer' \in [Peers -> PeerStates] /\ \A q \in Peers : PeerGood(q, peer'[q])
      BY <2>1, <2>2 DEF IInv
    <2>4. /\ row' \in [Peers -> KeyValues \cup {Null}]
          /\ \A q \in Peers : RowGood(q, row'[q])
      BY <2>1, <2>2, RowsPushed
    <2>5. answer' \in [Peers -> Answers] /\ \A q \in Peers : AnswersGood(answer'[q])
      <3>1. MayReceive(p, receives) /\ answer' = Taken(p, receives)
        BY <1>3 DEF ViewerCoordinatorTimer
      <3>2. QED BY <3>1, AnswersTaken
    <2>6. QED BY <1>1, <2>3, <2>4, <2>5 DEF IInv
  <1>4. CASE p # Host /\ ViewerJuiceTimer(p, asks)
    <2>1. /\ peer' = [peer EXCEPT ![p] = Published(p, peer[p])]
          /\ answer' = Asked(p, row, asks, answer) /\ row' = row /\ MayAsk(p, asks, answer)
      BY <1>4 DEF ViewerJuiceTimer
    <2>2. PeerGood(p, Published(p, peer[p])) /\ Published(p, peer[p]) \in PeerStates
      BY PublishedGood DEF IInv, PeerGood
    <2>3. peer' \in [Peers -> PeerStates] /\ \A q \in Peers : PeerGood(q, peer'[q])
      BY <2>1, <2>2 DEF IInv
    <2>4. answer' \in [Peers -> Answers] /\ \A q \in Peers : AnswersGood(answer'[q])
      BY <2>1, AnswersAsked DEF IInv
    <2>5. QED BY <1>1, <2>1, <2>3, <2>4 DEF IInv
  <1>5. QED BY <1>2, <1>3, <1>4 DEF CoordinatorTimer

LEMMA NoAnswerGood == AnswersGood(<<>>) /\ <<>> \in Answers
  BY RendezvousAssumption DEF AnswersGood, Answers

LEMMA CoordinatorKeeps ==
    ASSUME IInv, RendezvousAssumption,
           \/ \E p \in Peers : CoordinatorForgets(p) \/ SessionLost(p)
           \/ CoordinatorRestarts
    PROVE  IInv'
  <1>1. Counted' /\ peer' = peer
    BY DEF CoordinatorForgets, SessionLost, CoordinatorRestarts, Unless, Fault, IInv, Counted,
           RendezvousAssumption
  <1>2. /\ row' \in [Peers -> KeyValues \cup {Null}]
        /\ \A q \in Peers : row'[q] = row[q] \/ row'[q] = Null
    BY DEF CoordinatorForgets, SessionLost, CoordinatorRestarts, IInv
  <1>3. answer' \in [Peers -> Answers] /\ \A q \in Peers : answer'[q] \in {answer[q], <<>>}
    BY NoAnswerGood DEF CoordinatorForgets, SessionLost, CoordinatorRestarts, IInv
  <1>4. \A q \in Peers : RowGood(q, row'[q]) /\ AnswersGood(answer'[q])
    BY <1>2, <1>3, NoAnswerGood DEF IInv, RowGood
  <1>5. QED BY <1>1, <1>2, <1>3, <1>4 DEF IInv

LEMMA UnlessCounts ==
    ASSUME IInv, RendezvousAssumption, UNCHANGED alive,
           NEW condition, Unless(condition)
    PROVE  Counted'
  BY DEF Unless, Fault, IInv, Counted, RendezvousAssumption

LEMMA NetworkKeeps ==
    ASSUME IInv, RendezvousAssumption, NEW p \in Peers, Network(p)
    PROVE  IInv'
  <1>1. PeerGood(p, peer[p]) /\ peer[p] \in PeerStates /\ UNCHANGED <<row, answer>>
    BY DEF IInv, Network, Gathered, IceConnects, IceFails
  <1>2. CASE Gathered(p)
    <2>1. PeerGood(p, [peer[p] EXCEPT !.ready = TRUE])
      BY <1>1 DEF PeerGood, PeerStates
    <2>2. peer' = [peer EXCEPT ![p] = [peer[p] EXCEPT !.ready = TRUE]] /\ Counted'
      BY <1>2 DEF Gathered, IInv, Counted
    <2>3. QED BY <1>1, <2>1, <2>2, PeerMoves
  <1>3. CASE IceConnects(p)
    <2>1. PeerGood(p, [peer[p] EXCEPT !.ice = "connected"])
      BY <1>1, <1>3 DEF PeerGood, PeerStates, IceConnects
    <2>2. peer' = [peer EXCEPT ![p] = [peer[p] EXCEPT !.ice = "connected"]] /\ Counted'
      BY <1>3 DEF IceConnects, IInv, Counted
    <2>3. QED BY <1>1, <2>1, <2>2, PeerMoves
  <1>4. CASE IceFails(p)
    <2>1. PeerGood(p, [peer[p] EXCEPT !.ice = "failed"])
      BY <1>1, <1>4 DEF PeerGood, PeerStates, IceFails
    <2>2. peer' = [peer EXCEPT ![p] = [peer[p] EXCEPT !.ice = "failed"]] /\ Counted'
      BY <1>4, UnlessCounts DEF IceFails
    <2>3. QED BY <1>1, <2>1, <2>2, PeerMoves
  <1>5. QED BY <1>2, <1>3, <1>4 DEF Network

LEMMA VideoGood ==
    ASSUME NEW p \in Peers, NEW s, PeerGood(p, s),
           NEW video \in {"none", "open", "connected"}
    PROVE  PeerGood(p, [s EXCEPT !.video = video])
  BY DEF PeerGood, PeerStates

LEMMA VideoTimerKeeps ==
    ASSUME IInv, RendezvousAssumption, NEW p \in Peers, VideoTimer(p)
    PROVE  IInv'
  <1>1. PeerGood(p, peer[p]) /\ PeerGood(Host, peer[Host]) /\ Host \in Peers
    BY DEF IInv, Peers
  <1>2. CASE RenewsSocket(p)
    <2>1. peer' = [peer EXCEPT ![p] = NewSocket(peer[p])] /\ UNCHANGED <<row, answer>>
      BY <1>2 DEF RenewsSocket
    <2>2. Counted'
      BY <1>2, UnlessCounts DEF RenewsSocket, HasProblem, IInv, Counted
    <2>3. PeerGood(p, NewSocket(peer[p]))
      BY <1>1, <1>2, NewSocketGood DEF RenewsSocket
    <2>4. QED BY <2>1, <2>2, <2>3, PeerMoves
  <1>3. CASE OpensVideo(p)
    <2>1. /\ peer' = [peer EXCEPT ![p] = [peer[p] EXCEPT !.video = "open"]]
          /\ UNCHANGED <<row, answer>> /\ Counted'
      BY <1>3 DEF OpensVideo, IInv, Counted
    <2>2. QED BY <1>1, <2>1, VideoGood, PeerMoves
  <1>4. CASE HostConnects
    <2>1. /\ peer' = [peer EXCEPT ![Host] = [peer[Host] EXCEPT !.video = "connected"]]
          /\ UNCHANGED <<row, answer>> /\ Counted'
      BY <1>4 DEF HostConnects, IInv, Counted
    <2>2. QED BY <1>1, <2>1, VideoGood, PeerMoves
  <1>5. CASE HostVideoEnds
    <2>1. /\ peer' = [peer EXCEPT ![Host] = [peer[Host] EXCEPT !.video = "none"]]
          /\ UNCHANGED <<row, answer>>
      BY <1>5 DEF HostVideoEnds
    <2>2. Counted'
      BY <1>5, UnlessCounts DEF HostVideoEnds
    <2>3. QED BY <1>1, <2>1, <2>2, VideoGood, PeerMoves
  <1>6. CASE p # Host /\ ViewerConnects(p)
    <2> DEFINE s == [peer[p] EXCEPT !.video = "connected", !.keys.to = Empty]
    <2>1. peer' = [peer EXCEPT ![p] = s]
          /\ UNCHANGED <<row, answer>> /\ Counted'
      BY <1>6 DEF ViewerConnects, IInv, Counted
    <2>2. PeerGood(p, s)
      BY <1>1, <1>6 DEF PeerGood, PeerStates, KeyValues
    <2>3. QED BY <2>1, <2>2, PeerMoves
  <1>7. CASE ViewerVideoEnds(p)
    <2>1. /\ peer' = [peer EXCEPT ![p] = [NewSocket(peer[p]) EXCEPT !.video = "none"]]
          /\ UNCHANGED <<row, answer>>
      BY <1>7 DEF ViewerVideoEnds
    <2>2. Counted'
      BY <1>7, UnlessCounts DEF ViewerVideoEnds
    <2>3. PeerGood(p, [NewSocket(peer[p]) EXCEPT !.video = "none"])
      BY <1>1, <1>7, NewSocketGood DEF ViewerVideoEnds
    <2>4. QED BY <2>1, <2>2, <2>3, PeerMoves
  <1>8. QED BY <1>2, <1>3, <1>4, <1>5, <1>6, <1>7 DEF VideoTimer

LEMMA ViewerQuitsKeeps ==
    ASSUME IInv, RendezvousAssumption, NEW v \in Viewers, ViewerQuits(v)
    PROVE  IInv'
  <1>1. v \in Peers /\ PeerGood(v, Started(v)) /\ Started(v) \in PeerStates
    BY StartedGood DEF Peers, PeerGood
  <1>2. peer' \in [Peers -> PeerStates] /\ \A q \in Peers : PeerGood(q, peer'[q])
    BY <1>1 DEF ViewerQuits, IInv
  <1>3. answer' \in [Peers -> Answers] /\ \A q \in Peers : AnswersGood(answer'[q])
    BY NoAnswerGood DEF ViewerQuits, IInv
  <1>4. Counted' /\ row' = row
    BY DEF ViewerQuits, IInv, Counted, RendezvousAssumption
  <1>5. QED BY <1>2, <1>3, <1>4 DEF IInv

LEMMA InitHolds ==
    ASSUME RendezvousAssumption, Init
    PROVE  IInv
  <1>1. \A p \in Peers : PeerGood(p, Started(p)) /\ Started(p) \in PeerStates
    BY StartedGood DEF PeerGood
  <1>2. Counted
    BY DEF Init, Counted, Peers
  <1>3. QED BY <1>1, <1>2, NoAnswerGood DEF Init, IInv, RowGood

LEMMA NextKeeps ==
    ASSUME RendezvousAssumption, IInv, [Next]_vars
    PROVE  IInv'
  <1>1. ASSUME NEW p \in Peers, NEW receives \in 0 .. MaxAnswers, NEW pushes \in BOOLEAN,
               NEW asks \in BOOLEAN, CoordinatorTimer(p, receives, pushes, asks)
        PROVE  IInv'
    BY <1>1, CoordinatorTimerKeeps
  <1>2. CASE \/ \E p \in Peers : CoordinatorForgets(p) \/ SessionLost(p)
             \/ CoordinatorRestarts
    BY <1>2, CoordinatorKeeps
  <1>3. ASSUME NEW p \in Peers, Network(p) PROVE IInv'
    BY <1>3, NetworkKeeps
  <1>4. ASSUME NEW p \in Peers, VideoTimer(p) PROVE IInv'
    BY <1>4, VideoTimerKeeps
  <1>5. ASSUME NEW v \in Viewers, ViewerQuits(v) PROVE IInv'
    BY <1>5, ViewerQuitsKeeps
  <1>6. CASE UNCHANGED vars
    BY <1>6 DEF vars, IInv, Counted
  <1>7. QED BY <1>1, <1>2, <1>3, <1>4, <1>5, <1>6 DEF Next
-----------------------------------------------------------------------------
(* Theorems.                                                               *)

(* What is known of applications, rows and answers holds in every          *)
(* reachable state.                                                        *)
THEOREM RendezvousInvariance == Spec => []IInv
  <1>1. Init => IInv
    BY RendezvousAssumption, InitHolds
  <1>2. IInv /\ [Next]_vars => IInv'
    BY RendezvousAssumption, NextKeeps
  <1>3. QED BY <1>1, <1>2, PTL DEF Spec

(* The variables have their types, and rows and answers tell of a peer what *)
(* it published of itself.                                                 *)
THEOREM RendezvousTypeCorrect == Spec => []TypeOK
  <1>1. IInv => TypeOK
    BY DEF IInv, TypeOK, PeerGood, RowGood, AnswersGood, Answers, Counted
  <1>2. QED BY <1>1, RendezvousInvariance, PTL

(* The host's keys name the viewer that its socket is given to, whatever   *)
(* late answers come, for any number of viewers and sockets.               *)
THEOREM HostNamesItsViewer == Spec => []NamesItsViewer
  <1>1. IInv => NamesItsViewer
    BY DEF IInv, PeerGood, NamesItsViewer, Peers
  <1>2. QED BY <1>1, RendezvousInvariance, PTL
-----------------------------------------------------------------------------
(* Neither end of a working pair is doomed.                                *)
LEMMA PairIsNotDoomed ==
    ASSUME RendezvousAssumption, NEW v \in Viewers, Works(v)
    PROVE  ~Doomed(Host) /\ ~Doomed(v)
  BY DEF Works, Matched, Doomed, Current, Sdp

LEMMA FaultCounts ==
    ASSUME IInv, RendezvousAssumption, NEW condition, Unless(condition), ~condition
    PROVE  faults' # faults
  BY DEF Unless, Fault, IInv, Counted, RendezvousAssumption

(* A step that leaves the sockets of the pair and lets the video of neither *)
(* end behind the other's.                                                 *)
LEMMA PairHolds ==
    ASSUME NEW v \in Viewers, Works(v), {Host, v} \subseteq alive',
           \A p \in {Host, v} : /\ peer'[p].socket = peer[p].socket
                                /\ peer'[p].remote = peer[p].remote
                                /\ peer'[p].ice # "failed",
           peer'[v].video = "connected" => peer'[Host].video = "connected"
    PROVE  Works(v)'
  BY DEF Works, Matched, Current, Sdp

(* One step of any application.                                            *)
LEMMA PairStep ==
    ASSUME IInv, RendezvousAssumption, [Next]_vars, NEW v \in Viewers, Works(v)
    PROVE  Works(v)' \/ faults' # faults \/ v \notin alive'
  <1> SUFFICES ASSUME faults' = faults, v \in alive'
               PROVE  Works(v)'
    OBVIOUS
  <1>1. /\ Host \in Peers /\ v \in Peers /\ v # Host
        /\ peer \in [Peers -> PeerStates]
    BY DEF Peers, IInv, RendezvousAssumption
  <1>2. /\ peer[Host].remote # Null /\ peer[v].remote # Null
        /\ peer[Host].ice # "failed" /\ peer[v].ice # "failed"
        /\ {Host, v} \subseteq alive
        /\ peer[v].video = "connected" => peer[Host].video = "connected"
    <2>1. peer[Host].remote = Current(v) /\ peer[v].remote = Current(Host)
      BY DEF Works, Matched
    <2>2. Current(v) \in Sdps /\ Current(Host) \in Sdps
      BY <1>1, SdpIsOwned DEF Current, PeerStates
    <2>3. QED BY <2>1, <2>2 DEF Works, Matched, RendezvousAssumption
  <1>3. CASE UNCHANGED <<peer, alive>>
    BY <1>2, <1>3, PairHolds
  <1>4. ASSUME NEW receives \in 0 .. MaxAnswers, NEW pushes \in BOOLEAN, NEW asks \in BOOLEAN,
               NEW p \in Peers, CoordinatorTimer(p, receives, pushes, asks)
        PROVE  Works(v)'
    <2>1. \A q \in {Host, v} : /\ peer'[q].socket = peer[q].socket
                               /\ peer'[q].remote = peer[q].remote
                               /\ peer'[q].ice = peer[q].ice
                               /\ peer'[q].video = peer[q].video
      <3>1. CASE p = Host /\ HostCoordinatorTimer(receives, pushes, asks)
        <4>1. PICK s \in Received(Host, receives) :
                  peer' = [peer EXCEPT ![Host] = Published(Host, s)]
          BY <3>1 DEF HostCoordinatorTimer
        <4>2. s = peer[Host]
          BY <1>2, <4>1 DEF Received, HostTakes
        <4>3. QED BY <1>1, <4>1, <4>2 DEF Published, PeerStates
      <3>2. CASE p # Host /\ ViewerCoordinatorTimer(p, receives, pushes)
        <4>1. PICK s \in Received(p, receives) : peer' = [peer EXCEPT ![p] = s]
          BY <3>2 DEF ViewerCoordinatorTimer
        <4>2. CASE p # v
          BY <1>1, <3>2, <4>1, <4>2
        <4>3. CASE p = v
          <5>1. s = peer[v]
            BY <1>1, <1>2, <3>2, <4>1, <4>3 DEF Received, ViewerTakes, SetRemote
          <5>2. QED BY <1>1, <3>2, <4>1, <4>3, <5>1
        <4>4. QED BY <4>2, <4>3
      <3>3. CASE p # Host /\ ViewerJuiceTimer(p, asks)
        BY <1>1, <3>3 DEF ViewerJuiceTimer, Published, PeerStates
      <3>4. QED BY <1>4, <3>1, <3>2, <3>3 DEF CoordinatorTimer
    <2>2. alive' = alive
      BY <1>4 DEF CoordinatorTimer, HostCoordinatorTimer, ViewerCoordinatorTimer,
                  ViewerJuiceTimer
    <2>3. QED BY <1>2, <2>1, <2>2, PairHolds
  <1>5. ASSUME NEW p \in Peers, Network(p)
        PROVE  Works(v)'
    <2>1. ~(p \in {Host, v} /\ IceFails(p))
      BY PairIsNotDoomed, FaultCounts DEF IceFails
    <2>2. /\ peer' \in [Peers -> PeerStates] /\ alive' = alive
          /\ \A q \in {Host, v} : /\ peer'[q].socket = peer[q].socket
                                  /\ peer'[q].remote = peer[q].remote
                                  /\ peer'[q].video = peer[q].video
                                  /\ peer'[q].ice # "failed"
      <3>1. CASE Gathered(p)
        BY <1>1, <1>2, <3>1 DEF Gathered, PeerStates
      <3>2. CASE IceConnects(p)
        BY <1>1, <1>2, <3>2 DEF IceConnects, PeerStates
      <3>3. CASE IceFails(p)
        BY <1>1, <1>2, <2>1, <3>3 DEF IceFails, PeerStates
      <3>4. QED BY <1>5, <3>1, <3>2, <3>3 DEF Network
    <2>3. QED BY <1>2, <2>2, PairHolds
  <1>6. ASSUME NEW p \in Peers, VideoTimer(p)
        PROVE  Works(v)'
    <2>1. alive' = alive
      BY <1>6 DEF VideoTimer, RenewsSocket, OpensVideo, HostConnects, HostVideoEnds,
                  ViewerConnects, ViewerVideoEnds
    <2>2. CASE RenewsSocket(p)
      <3>1. p \notin {Host, v}
        BY <1>2, <2>2, PairIsNotDoomed, FaultCounts DEF RenewsSocket, HasProblem
      <3>2. peer'[Host] = peer[Host] /\ peer'[v] = peer[v]
        BY <1>1, <2>2, <3>1 DEF RenewsSocket
      <3>3. QED BY <1>2, <2>1, <3>2, PairHolds
    <2>3. CASE OpensVideo(p)
      BY <1>1, <1>2, <2>1, <2>3, PairHolds DEF OpensVideo, PeerStates
    <2>4. CASE HostConnects
      BY <1>1, <1>2, <2>1, <2>4, PairHolds DEF HostConnects, PeerStates
    <2>5. CASE HostVideoEnds
      BY <2>5, FaultCounts DEF HostVideoEnds, Broken
    <2>6. CASE p # Host /\ ViewerConnects(p)
      BY <1>1, <1>2, <2>1, <2>6, PairHolds DEF ViewerConnects, PeerStates
    <2>7. CASE p # Host /\ ViewerVideoEnds(p)
      <3>1. p # v
        BY <1>1, <2>7, FaultCounts DEF ViewerVideoEnds, Broken
      <3>2. peer'[Host] = peer[Host] /\ peer'[v] = peer[v]
        BY <1>1, <2>7, <3>1 DEF ViewerVideoEnds
      <3>3. QED BY <1>2, <2>1, <3>2, PairHolds
    <2>8. QED BY <1>6, <2>2, <2>3, <2>4, <2>5, <2>6, <2>7 DEF VideoTimer
  <1>7. ASSUME NEW w \in Viewers, ViewerQuits(w)
        PROVE  Works(v)'
    <2>1. w # v /\ w # Host /\ Host \in alive'
      BY <1>2, <1>7 DEF ViewerQuits, RendezvousAssumption
    <2>2. peer'[Host] = peer[Host] /\ peer'[v] = peer[v]
      BY <1>1, <1>7, <2>1 DEF ViewerQuits
    <2>3. QED BY <1>2, <2>1, <2>2, PairHolds
  <1>8. CASE \/ \E p \in Peers : CoordinatorForgets(p) \/ SessionLost(p)
             \/ CoordinatorRestarts
    BY <1>3, <1>8 DEF CoordinatorForgets, SessionLost, CoordinatorRestarts
  <1>9. QED BY <1>3, <1>4, <1>5, <1>6, <1>7, <1>8 DEF Next, vars

(* Once the host and a viewer hold each other's sockets, no late answer,   *)
(* other viewer or repeated query takes them apart: only a fault does, or  *)
(* the end of the viewer.                                                  *)
THEOREM PairsStayTogether == Spec => PairStays
  <1>1. IInv /\ [Next]_vars =>
            [\A v \in Viewers :
                Works(v) => Works(v)' \/ faults' # faults \/ v \notin alive']_vars
    BY RendezvousAssumption, PairStep
  <1>2. QED BY <1>1, RendezvousInvariance, PTL DEF Spec, PairStays
=============================================================================
