--------------------------- MODULE HandshakeProofs ---------------------------
(***************************************************************************)
(* Proofs about ConnectionHandshake, for any viewers, limits, number of    *)
(* generations and capacity of the network: its types, that only those who *)
(* know the password are ever connected, and that data stays with the key  *)
(* it was sent under.                                                      *)
(***************************************************************************)
EXTENDS ConnectionHandshake, TLAPS

(* The key of a viewer is set once, when it leaves SAYING_HI.              *)
Keys == \A v \in Viewers :
    /\ vState[v] \in {"UNKNOWN", "SAYING_HI"} => vKey[v] = 0
    /\ Encrypts(vState[v]) => vKey[v] # 0

(* What a connected host connection has gone through.                      *)
HostSlot == /\ slot # NoPeer => generation # 0
            /\ slot = NoPeer => hState = "DISCONNECTED"
            /\ hState = "CONNECTED" => generation \in authenticated

(* A viewer has one key in its life, so all it ever encrypted or sent as    *)
(* data is of that key.                                                    *)
Sealed(m) == m.key # 0 <=> Encrypts(m.state)
GoodToHost(m) ==
    /\ m \in Messages /\ Sealed(m)
    /\ m.key # 0 => m.key = vKey[m.viewer]
    /\ m.text = "PASSWORD" => m.key # 0
    /\ m.text = "data" => m.about # 0 /\ m.about = vKey[m.viewer]

(* What the host says as CONNECTED, it says after the password; its data is *)
(* for a viewer that holds its key.                                        *)
GoodToViewer(m) ==
    /\ m \in Messages /\ Sealed(m)
    /\ m.state = "CONNECTED" => m.key \in authenticated /\ m.viewer \in Trusted
    /\ m.text = "data" => m.about # 0 /\ m.about = vKey[m.viewer]
    /\ m.text = "RSA+AES" => m.about \in 1 .. generation

Types == /\ vState \in [Viewers -> ViewerStates]
         /\ vKey \in [Viewers -> 0..generation]
         /\ vAge \in [Viewers -> 0..(ConnectLimit + 1)]
         /\ slot \in Viewers \cup {NoPeer}
         /\ hState \in HostStates
         /\ hAge \in 0..(ConnectLimit + 1)
         /\ generation \in 0..MaxGenerations

ViewerHalf == \A v \in Viewers :
    vState[v] = "CONNECTED" => v \in Trusted /\ vKey[v] \in authenticated
HostHalf == slot # NoPeer /\ hState = "CONNECTED" =>
                slot \in Trusted /\ vKey[slot] = generation
Wires == /\ \A m \in toHost : GoodToHost(m)
         /\ \A m \in toViewer : GoodToViewer(m)

IInv == Types /\ Keys /\ HostSlot /\ Wires /\ ViewerHalf /\ HostHalf /\ DataMatchesKey
-----------------------------------------------------------------------------
(* Messages.                                                               *)

LEMMA NoneAdded ==
    ASSUME NEW net, NEW messages, NEW result \in After(net, messages)
    PROVE  result \subseteq net \cup messages
  BY DEF After

LEMMA StatesEncrypting ==
    \A s : Encrypts(s) <=> s \in {"CLIENT_AUTHENTICATE_PASSWORD", "CONNECTED"}
  BY DEF Encrypts

(* A message that a viewer sends, in the state and with the key it has     *)
(* then or is about to have.                                               *)
LEMMA ViewerSays ==
    ASSUME NEW v \in Viewers, NEW text \in Texts, NEW state \in ViewerStates,
           generation \in 0 .. MaxGenerations, NEW key \in 0 .. generation,
           HandshakeAssumption,
           Encrypts(state) => key # 0,
           text = "PASSWORD" => state = "CLIENT_AUTHENTICATE_PASSWORD",
           text = "data" => key # 0
    PROVE  LET m == Message(v, text, state, key, key)
           IN  /\ m \in Messages /\ Sealed(m)
               /\ m.viewer = v /\ m.text = text /\ m.state = state
               /\ m.key # 0 => m.key = key
               /\ m.about = key
               /\ m.text = "PASSWORD" => m.key # 0
               /\ m.text = "data" => m.about # 0
  BY SMTT(30) DEF Message, Messages, Sealed, Encrypts, HandshakeAssumption

(* What goes on the wire in a state is what ClientState or the caller says. *)
LEMMA ClientSays ==
    ASSUME NEW v \in Viewers, NEW state \in ViewerStates, NEW key,
           NEW m \in ClientState(v, state, key)
    PROVE  \E text \in Texts :
               /\ m = Message(v, text, state, key, key)
               /\ text = "PASSWORD" => state = "CLIENT_AUTHENTICATE_PASSWORD"
               /\ text # "data"
  <1>1. CASE state = "SAYING_HI"
    BY <1>1 DEF ClientState, Texts
  <1>2. CASE state = "CLIENT_AUTHENTICATE_PASSWORD"
    BY <1>2 DEF ClientState, Texts
  <1>3. CASE state \notin {"SAYING_HI", "CLIENT_AUTHENTICATE_PASSWORD"}
    BY <1>3 DEF ClientState, Texts
  <1>4. QED BY <1>1, <1>2, <1>3

LEMMA ServerSays ==
    ASSUME NEW v, NEW state \in HostStates, NEW key,
           NEW m \in ServerState(v, state, key)
    PROVE  \E text \in Texts :
               /\ m = Message(v, text, state, key, key)
               /\ text # "data"
  <1>1. CASE state = "SAYING_HI"
    BY <1>1 DEF ServerState, Texts
  <1>2. CASE state = "CONNECTED"
    BY <1>2 DEF ServerState, Texts
  <1>3. CASE state \notin {"SAYING_HI", "CONNECTED"}
    BY <1>3 DEF ServerState, Texts
  <1>4. QED BY <1>1, <1>2, <1>3

LEMMA HostSays ==
    ASSUME NEW v \in Viewers, NEW text \in Texts, NEW state \in HostStates,
           NEW key \in 0 .. MaxGenerations,
           HandshakeAssumption,
           key # 0
    PROVE  LET m == Message(v, text, state, key, key)
           IN  /\ m \in Messages /\ Sealed(m)
               /\ m.viewer = v /\ m.text = text /\ m.state = state
               /\ m.state = "CONNECTED" => m.key = key
               /\ m.about = key
  BY SMTT(30) DEF Message, Messages, Sealed, Encrypts, HandshakeAssumption
-----------------------------------------------------------------------------
(* Steps.                                                                  *)

(* What is under way stays good while keys are only set and the host only  *)
(* goes on.                                                                *)
LEMMA WiresStay ==
    ASSUME IInv, HandshakeAssumption,
           \A v \in Viewers : vKey'[v] = vKey[v] \/ vKey[v] = 0,
           generation' \in Nat, generation <= generation',
           authenticated \subseteq authenticated'
    PROVE  /\ \A m \in toHost : GoodToHost(m)'
           /\ \A m \in toViewer : GoodToViewer(m)'
  <1>1. ASSUME NEW m \in toHost
        PROVE  GoodToHost(m)'
    <2>1. GoodToHost(m) /\ m.viewer \in Viewers
      BY DEF IInv, Wires, GoodToHost, Messages
    <2>2. QED BY <2>1 DEF GoodToHost, Sealed
  <1>2. ASSUME NEW m \in toViewer
        PROVE  GoodToViewer(m)'
    <2>1. GoodToViewer(m) /\ m.viewer \in Viewers
      BY DEF IInv, Wires, GoodToViewer, Messages
    <2>2. generation \in Nat
      BY DEF IInv, Types, HandshakeAssumption
    <2>3. m.text = "RSA+AES" => m.about \in 1 .. generation'
      BY <2>1, <2>2 DEF GoodToViewer
    <2>4. QED BY <2>1, <2>3 DEF GoodToViewer, Sealed
  <1>3. QED BY <1>1, <1>2

(* What viewer v may send when it is in state s with key k after the step. *)
SaidBy(v, k, m) ==
    \E text \in Texts, state \in ViewerStates :
        /\ m = Message(v, text, state, k, k)
        /\ Encrypts(state) => k # 0
        /\ text = "PASSWORD" => state = "CLIENT_AUTHENTICATE_PASSWORD"
        /\ text = "data" => k # 0

(* A step of a viewer that gets from its state to s and from its key to k. *)
LEMMA ViewerMoves ==
    ASSUME IInv, HandshakeAssumption,
           NEW v \in Viewers, NEW s \in ViewerStates, NEW k \in 0 .. generation,
           vState' = [vState EXCEPT ![v] = s], vKey' = [vKey EXCEPT ![v] = k],
           vAge' \in [Viewers -> 0..(ConnectLimit + 1)],
           UNCHANGED <<hostVars, authenticated>>,
           toViewer' \subseteq toViewer,
           DataMatchesKey',
           k = vKey[v] \/ vKey[v] = 0,
           Encrypts(s) => k # 0,
           s \in {"UNKNOWN", "SAYING_HI"} => k = 0,
           s = "CONNECTED" => v \in Trusted /\ k \in authenticated,
           \A m \in toHost' : m \in toHost \/ SaidBy(v, k, m)
    PROVE  IInv'
  <1>1. Types'
    BY DEF IInv, Types, hostVars
  <1>2. Keys'
    BY DEF IInv, Types, Keys
  <1>3. HostSlot'
    BY DEF IInv, HostSlot, hostVars
  <1>4. \A w \in Viewers : vKey'[w] = vKey[w] \/ vKey[w] = 0
    BY DEF IInv, Types
  <1>5. Wires'
    <2>1. /\ \A m \in toHost : GoodToHost(m)'
          /\ \A m \in toViewer : GoodToViewer(m)'
      <3>1. generation' \in Nat /\ generation <= generation'
        BY DEF IInv, Types, hostVars, HandshakeAssumption
      <3>2. QED BY <1>4, <3>1, WiresStay
    <2>2. ASSUME NEW m \in toHost', SaidBy(v, k, m)
          PROVE  GoodToHost(m)'
      <3>1. PICK text \in Texts, state \in ViewerStates :
                /\ m = Message(v, text, state, k, k)
                /\ Encrypts(state) => k # 0
                /\ text = "PASSWORD" => state = "CLIENT_AUTHENTICATE_PASSWORD"
                /\ text = "data" => k # 0
        BY <2>2 DEF SaidBy
      <3>2. /\ m \in Messages /\ Sealed(m)
            /\ m.viewer = v
            /\ m.key # 0 => m.key = k
            /\ m.about = k
            /\ m.text = "PASSWORD" => m.key # 0
            /\ m.text = "data" => m.about # 0
        BY <3>1, ViewerSays DEF IInv, Types
      <3>3. vKey'[v] = k
        BY DEF IInv, Types
      <3>4. QED BY <3>2, <3>3 DEF GoodToHost, Sealed
    <2>3. QED BY <2>1, <2>2 DEF Wires
  <1>6. ViewerHalf'
    BY DEF IInv, Types, ViewerHalf
  <1>7. HostHalf'
    BY DEF IInv, Types, HostHalf, HostSlot, hostVars
  <1>8. QED BY <1>1, <1>2, <1>3, <1>5, <1>6, <1>7 DEF IInv

(* What the host may say to v when its connection is of generation g.      *)
SaidByHost(g, m) ==
    \E v \in Viewers, text \in Texts, state \in HostStates :
        /\ m = Message(v, text, state, g, g)
        /\ g # 0
        /\ state = "CONNECTED" => g \in authenticated' /\ v \in Trusted
        /\ text = "data" => vKey[v] = g

(* A step of the host.                                                     *)
LEMMA HostMoves ==
    ASSUME IInv, HandshakeAssumption,
           UNCHANGED viewerVars,
           slot' \in Viewers \cup {NoPeer}, hState' \in HostStates,
           hAge' \in 0..(ConnectLimit + 1),
           generation' \in 0 .. MaxGenerations, generation <= generation',
           authenticated \subseteq authenticated',
           toHost' \subseteq toHost,
           HostSlot', HostHalf', DataMatchesKey',
           \A m \in toViewer' : m \in toViewer \/ SaidByHost(generation', m)
    PROVE  IInv'
  <1>1. generation \in Nat /\ generation' \in Nat
    BY DEF IInv, Types, HandshakeAssumption
  <1>2. Types'
    BY <1>1 DEF IInv, Types, viewerVars
  <1>3. Keys'
    BY DEF IInv, Keys, viewerVars
  <1>4. Wires'
    <2>1. /\ \A m \in toHost : GoodToHost(m)'
          /\ \A m \in toViewer : GoodToViewer(m)'
      BY <1>1, WiresStay DEF viewerVars
    <2>2. ASSUME NEW m \in toViewer', SaidByHost(generation', m)
          PROVE  GoodToViewer(m)'
      <3>1. PICK v \in Viewers, text \in Texts, state \in HostStates :
                /\ m = Message(v, text, state, generation', generation')
                /\ generation' # 0
                /\ state = "CONNECTED" => generation' \in authenticated' /\ v \in Trusted
                /\ text = "data" => vKey[v] = generation'
        BY <2>2 DEF SaidByHost
      <3>2. /\ m \in Messages /\ Sealed(m)
            /\ m.viewer = v /\ m.text = text /\ m.state = state
            /\ m.state = "CONNECTED" => m.key = generation'
            /\ m.about = generation'
        BY <3>1, HostSays
      <3>3. QED BY <1>1, <3>1, <3>2 DEF GoodToViewer, Sealed, viewerVars
    <2>3. QED BY <2>1, <2>2 DEF Wires
  <1>5. ViewerHalf'
    BY DEF IInv, ViewerHalf, viewerVars
  <1>6. QED BY <1>2, <1>3, <1>4, <1>5 DEF IInv
-----------------------------------------------------------------------------
(* Actions of a viewer.                                                    *)

LEMMA FromViewerSaid ==
    ASSUME IInv, NEW v \in Viewers, NEW text \in Texts, text # "PASSWORD",
           text = "data" => vState[v] = "CONNECTED"
    PROVE  SaidBy(v, vKey[v], FromViewer(v, text))
  <1>1. vState[v] \in ViewerStates /\ (Encrypts(vState[v]) => vKey[v] # 0)
    BY DEF IInv, Types, Keys
  <1>2. text = "data" => vKey[v] # 0
    BY <1>1, StatesEncrypting
  <1>3. QED BY <1>1, <1>2 DEF SaidBy, FromViewer

LEMMA ClientSaid ==
    ASSUME NEW v \in Viewers, NEW state \in ViewerStates, NEW key,
           Encrypts(state) => key # 0,
           NEW m \in ClientState(v, state, key)
    PROVE  SaidBy(v, key, m)
  BY ClientSays DEF SaidBy

(* What is known of a viewer that keeps its state and key.                 *)
LEMMA ViewerAsIs ==
    ASSUME IInv, NEW v \in Viewers
    PROVE  /\ vState[v] \in ViewerStates /\ vKey[v] \in 0 .. generation
           /\ vState = [vState EXCEPT ![v] = vState[v]]
           /\ vKey = [vKey EXCEPT ![v] = vKey[v]]
           /\ vAge \in [Viewers -> 0..(ConnectLimit + 1)]
           /\ Encrypts(vState[v]) => vKey[v] # 0
           /\ vState[v] \in {"UNKNOWN", "SAYING_HI"} => vKey[v] = 0
           /\ vState[v] = "CONNECTED" => v \in Trusted /\ vKey[v] \in authenticated
  BY DEF IInv, Types, Keys, ViewerHalf

LEMMA ViewerStays ==
    ASSUME IInv, HandshakeAssumption, NEW v \in Viewers,
           UNCHANGED <<vState, vKey, hostVars, authenticated>>,
           vAge' \in [Viewers -> 0..(ConnectLimit + 1)],
           toViewer' \subseteq toViewer, DataMatchesKey',
           \A m \in toHost' : m \in toHost \/ SaidBy(v, vKey[v], m)
    PROVE  IInv'
  BY ViewerAsIs, ViewerMoves

LEMMA ViewerEntersKeeps ==
    ASSUME IInv, HandshakeAssumption, NEW v \in Viewers,
           NEW state \in {"SAYING_HI", "CLIENT_AUTHENTICATE_PASSWORD", "CONNECTED"},
           NEW key \in 0 .. generation,
           ViewerEnters(v, state, key, toHost),
           UNCHANGED <<vAge, hostVars, authenticated>>,
           toViewer' \subseteq toViewer, DataMatchesKey',
           key = vKey[v] \/ vKey[v] = 0,
           Encrypts(state) => key # 0,
           state = "SAYING_HI" => key = 0,
           state = "CONNECTED" => v \in Trusted /\ key \in authenticated
    PROVE  IInv'
  <1>1. state \in ViewerStates
    BY DEF ViewerStates
  <1>2. \A m \in toHost' : m \in toHost \/ SaidBy(v, key, m)
    BY <1>1, NoneAdded, ClientSaid DEF ViewerEnters
  <1>3. vAge' \in [Viewers -> 0..(ConnectLimit + 1)]
    BY DEF IInv, Types
  <1>4. vState' = [vState EXCEPT ![v] = state] /\ vKey' = [vKey EXCEPT ![v] = key]
    BY DEF ViewerEnters
  <1>5. state # "UNKNOWN"
    OBVIOUS
  <1>6. QED BY <1>1, <1>2, <1>3, <1>4, <1>5, ViewerMoves

LEMMA ViewerClosesKeeps ==
    ASSUME IInv, HandshakeAssumption, NEW v \in Viewers, NEW before,
           ViewerCloses(v, before),
           \A m \in before : SaidBy(v, vKey[v], m),
           UNCHANGED <<hostVars, authenticated>>,
           toViewer' \subseteq toViewer, DataMatchesKey'
    PROVE  IInv'
  <1>1. "DISCONNECTED" \in ViewerStates /\ "Disconnect: reason" \in Texts
    BY DEF ViewerStates, Texts
  <1>2. \A m \in toHost' : m \in toHost \/ SaidBy(v, vKey[v], m)
    <2>1. SaidBy(v, vKey[v], FromViewer(v, "Disconnect: reason"))
      BY <1>1, FromViewerSaid
    <2>2. toHost' \subseteq toHost \cup (before \cup {FromViewer(v, "Disconnect: reason")})
      BY NoneAdded DEF ViewerCloses
    <2>3. QED BY <2>1, <2>2
  <1>3. /\ vState' = [vState EXCEPT ![v] = "DISCONNECTED"]
        /\ UNCHANGED <<vKey, vAge>>
    BY DEF ViewerCloses
  <1>4. ~Encrypts("DISCONNECTED")
    BY StatesEncrypting
  <1>5. QED BY <1>1, <1>2, <1>3, <1>4, ViewerAsIs, ViewerMoves

LEMMA ConnectKeeps ==
    ASSUME IInv, HandshakeAssumption, NEW v \in Viewers, Connect(v)
    PROVE  IInv'
  <1>1. ViewerEnters(v, "SAYING_HI", 0, toHost) /\ vKey[v] = 0
    BY DEF Connect, IInv, Keys
  <1>2. 0 \in 0 .. generation /\ ~Encrypts("SAYING_HI")
    BY StatesEncrypting DEF IInv, Types, HandshakeAssumption
  <1>3. UNCHANGED <<vAge, hostVars, authenticated>> /\ toViewer' \subseteq toViewer
        /\ DataMatchesKey'
    BY DEF Connect, history, IInv, DataMatchesKey
  <1>4. QED BY <1>1, <1>2, <1>3, ViewerEntersKeeps

LEMMA ViewerTickKeeps ==
    ASSUME IInv, HandshakeAssumption, NEW v \in Viewers, ViewerTick(v)
    PROVE  IInv'
  <1> DEFINE state == ClientState(v, vState[v], vKey[v])
             data  == IF vState[v] = "CONNECTED" THEN {FromViewer(v, "data")} ELSE {}
  <1>1. UNCHANGED <<hostVars, authenticated>> /\ toViewer' \subseteq toViewer
        /\ DataMatchesKey'
    BY DEF ViewerTick, history, IInv, DataMatchesKey
  <1>2. \A m \in state : SaidBy(v, vKey[v], m)
    BY ViewerAsIs, ClientSaid
  <1>3. \A m \in data : SaidBy(v, vKey[v], m)
    BY FromViewerSaid DEF Texts
  <1>4. CASE ViewerCloses(v, state)
    BY <1>1, <1>2, <1>4, ViewerClosesKeeps
  <1>5. CASE toHost' \in After(toHost, state \cup data) /\ UNCHANGED viewerVars
    <2>1. \A m \in toHost' : m \in toHost \/ SaidBy(v, vKey[v], m)
      BY <1>2, <1>3, <1>5, NoneAdded
    <2>2. UNCHANGED <<vState, vKey, vAge>>
      BY <1>5 DEF viewerVars
    <2>3. QED BY <1>1, <2>1, <2>2, ViewerAsIs, ViewerStays
  <1>6. QED BY <1>4, <1>5 DEF ViewerTick

(* The branches of CLIENT_ProcessControlMessages.                          *)
LEMMA ViewerBranches ==
    ASSUME NEW v, NEW m, ViewerHandles(v, m)
    PROVE  \/ ViewerCloses(v, {})
           \/ /\ vState[v] = "SAYING_HI" /\ m.text = "RSA+AES"
              /\ ViewerEnters(v, "CLIENT_AUTHENTICATE_PASSWORD", m.about, toHost)
              /\ UNCHANGED vAge
           \/ /\ vState[v] = "CLIENT_AUTHENTICATE_PASSWORD" /\ m.state = "CONNECTED"
              /\ ViewerEnters(v, "CONNECTED", vKey[v], toHost)
              /\ UNCHANGED vAge
           \/ toHost' \in After(toHost, {FromViewer(v, "Pong")}) /\ UNCHANGED viewerVars
           \/ /\ vAge' = [vAge EXCEPT ![v] = 0]
              /\ UNCHANGED <<vState, vKey, toHost>>
           \/ ViewerIgnores
  BY DEF ViewerHandles

LEMMA ViewerRecvKeeps ==
    ASSUME IInv, HandshakeAssumption, NEW m \in toViewer, ViewerRecv(m)
    PROVE  IInv'
  <1> DEFINE v == m.viewer
  <1>1. GoodToViewer(m) /\ v \in Viewers
    BY DEF IInv, Wires, GoodToViewer, Messages
  <1>2. toViewer' \subseteq toViewer /\ UNCHANGED <<hostVars, authenticated>>
    BY DEF ViewerRecv
  <1>3. DataMatchesKey'
    <2>1. CASE m.text = "data" /\ vState[v] = "CONNECTED"
      <3>1. accepted' = accepted \cup {[by |-> vKey[v], sent |-> m.about]}
        BY <2>1 DEF ViewerRecv
      <3>2. m.about = vKey[v]
        BY <1>1, <2>1 DEF GoodToViewer
      <3>3. QED BY <3>1, <3>2 DEF IInv, DataMatchesKey
    <2>2. CASE ~(m.text = "data" /\ vState[v] = "CONNECTED")
      BY <2>2 DEF ViewerRecv, IInv, DataMatchesKey
    <2>3. QED BY <2>1, <2>2
  <1>4. CASE ViewerIgnores
    <2>1. UNCHANGED <<vState, vKey, vAge, toHost>>
      BY <1>4 DEF ViewerIgnores, viewerVars
    <2>2. QED BY <1>1, <1>2, <1>3, <2>1, ViewerAsIs, ViewerStays
  <1>5. CASE ViewerCloses(v, {})
    BY <1>1, <1>2, <1>3, <1>5, ViewerClosesKeeps
  <1>6. CASE ViewerHandles(v, m) /\ (m.key # 0 => m.key = vKey[v])
    <2>1. CASE /\ vState[v] = "SAYING_HI" /\ m.text = "RSA+AES"
               /\ ViewerEnters(v, "CLIENT_AUTHENTICATE_PASSWORD", m.about, toHost)
               /\ UNCHANGED vAge
      <3>1. vKey[v] = 0
        BY <1>1, <2>1 DEF IInv, Keys
      <3>2. m.about \in 0 .. generation /\ m.about # 0
        <4>1. m.about \in 1 .. generation /\ generation \in Nat
          BY <1>1, <2>1 DEF GoodToViewer, IInv, Types, HandshakeAssumption
        <4>2. QED BY <4>1
      <3>3. QED BY <1>1, <1>2, <1>3, <2>1, <3>1, <3>2, ViewerEntersKeeps
    <2>2. CASE /\ vState[v] = "CLIENT_AUTHENTICATE_PASSWORD" /\ m.state = "CONNECTED"
               /\ ViewerEnters(v, "CONNECTED", vKey[v], toHost)
               /\ UNCHANGED vAge
      <3>1. vKey[v] \in 0 .. generation /\ vKey[v] # 0
        BY <1>1, <2>2, ViewerAsIs, StatesEncrypting
      <3>2. m.key # 0
        BY <1>1, <2>2, StatesEncrypting DEF GoodToViewer, Sealed
      <3>3. v \in Trusted /\ vKey[v] \in authenticated
        BY <1>1, <1>6, <2>2, <3>2 DEF GoodToViewer
      <3>4. QED BY <1>1, <1>2, <1>3, <2>2, <3>1, <3>3, ViewerEntersKeeps
    <2>3. CASE toHost' \in After(toHost, {FromViewer(v, "Pong")}) /\ UNCHANGED viewerVars
      <3>1. SaidBy(v, vKey[v], FromViewer(v, "Pong"))
        BY <1>1, FromViewerSaid DEF Texts
      <3>2. toHost' \subseteq toHost \cup {FromViewer(v, "Pong")}
        BY <2>3, NoneAdded
      <3>3. UNCHANGED <<vState, vKey, vAge>>
        BY <2>3 DEF viewerVars
      <3>4. QED BY <1>1, <1>2, <1>3, <3>1, <3>2, <3>3, ViewerAsIs, ViewerStays
    <2>4. CASE vAge' = [vAge EXCEPT ![v] = 0] /\ UNCHANGED <<vState, vKey, toHost>>
      <3>1. vAge' \in [Viewers -> 0..(ConnectLimit + 1)]
        BY <1>1, <2>4, ViewerAsIs DEF HandshakeAssumption
      <3>2. QED BY <1>1, <1>2, <1>3, <2>4, <3>1, ViewerStays
    <2>5. QED BY <1>4, <1>5, <1>6, <2>1, <2>2, <2>3, <2>4, ViewerBranches
  <1>7. QED BY <1>4, <1>5, <1>6 DEF ViewerRecv
-----------------------------------------------------------------------------
(* Actions of the host.                                                    *)

LEMMA FromHostSaid ==
    ASSUME IInv, HandshakeAssumption, slot # NoPeer,
           authenticated \subseteq authenticated',
           NEW text \in Texts, text = "data" => hState = "CONNECTED"
    PROVE  SaidByHost(generation, FromHost(text))
  <1>1. slot \in Viewers /\ hState \in HostStates /\ generation # 0
    BY DEF IInv, Types, HostSlot
  <1>2. hState = "CONNECTED" => /\ generation \in authenticated' /\ slot \in Trusted
                               /\ vKey[slot] = generation
    BY DEF IInv, HostSlot, HostHalf
  <1>3. QED BY <1>1, <1>2 DEF SaidByHost, FromHost

LEMMA ServerSaid ==
    ASSUME NEW v \in Viewers, NEW state \in HostStates, NEW g, g # 0,
           state = "CONNECTED" => g \in authenticated' /\ v \in Trusted,
           NEW m \in ServerState(v, state, g)
    PROVE  SaidByHost(g, m)
  BY ServerSays DEF SaidByHost

(* The host closes its connection, in a step that keeps the rest.          *)
LEMMA HostClosesKeeps ==
    ASSUME IInv, HandshakeAssumption, slot # NoPeer,
           HostCloses(toViewer),
           UNCHANGED <<viewerVars, slot, generation>>,
           toHost' \subseteq toHost, DataMatchesKey'
    PROVE  IInv'
  <1>1. /\ hState' = "DISCONNECTED"
        /\ UNCHANGED <<hAge, authenticated>>
    BY DEF HostCloses
  <1>2. \A m \in toViewer' : m \in toViewer \/ SaidByHost(generation', m)
    <2>1. toViewer' \subseteq toViewer \cup {FromHost("Disconnect: reason")}
      BY NoneAdded DEF HostCloses
    <2>2. SaidByHost(generation, FromHost("Disconnect: reason"))
      BY <1>1, FromHostSaid DEF Texts
    <2>3. QED BY <2>1, <2>2
  <1>3. /\ slot' \in Viewers \cup {NoPeer} /\ hState' \in HostStates
        /\ hAge' \in 0..(ConnectLimit + 1)
        /\ generation' \in 0 .. MaxGenerations /\ generation <= generation'
    BY <1>1 DEF IInv, Types, HostStates, HandshakeAssumption
  <1>4. HostSlot' /\ HostHalf'
    BY <1>1 DEF IInv, HostSlot, HostHalf
  <1>5. QED BY <1>1, <1>2, <1>3, <1>4, HostMoves

LEMMA HostEntersKeeps ==
    ASSUME IInv, HandshakeAssumption, slot # NoPeer,
           NEW state \in {"SAYING_HI", "CONNECTED"},
           HostEnters(state),
           UNCHANGED <<viewerVars, slot, generation>>,
           authenticated \subseteq authenticated',
           state = "CONNECTED" => /\ slot \in Trusted /\ vKey[slot] = generation
                                 /\ generation \in authenticated',
           toHost' \subseteq toHost, DataMatchesKey'
    PROVE  IInv'
  <1>1. hState' = state /\ UNCHANGED hAge
    BY DEF HostEnters
  <1>2. slot \in Viewers /\ generation # 0 /\ state \in HostStates
    BY DEF IInv, Types, HostSlot, HostStates
  <1>3. \A m \in toViewer' : m \in toViewer \/ SaidByHost(generation', m)
    <2>1. toViewer' \subseteq toViewer \cup ServerState(slot, state, generation)
      BY NoneAdded DEF HostEnters
    <2>2. QED BY <1>2, <2>1, ServerSaid
  <1>4. /\ slot' \in Viewers \cup {NoPeer} /\ hState' \in HostStates
        /\ hAge' \in 0..(ConnectLimit + 1)
        /\ generation' \in 0 .. MaxGenerations /\ generation <= generation'
    BY <1>1, <1>2 DEF IInv, Types, HandshakeAssumption
  <1>5. HostSlot' /\ HostHalf' 
    BY <1>1, <1>2 DEF HostSlot, HostHalf, viewerVars
  <1>6. QED BY <1>3, <1>4, <1>5, HostMoves

(* A step in which the host keeps its connection as it is.                 *)
LEMMA HostStays ==
    ASSUME IInv, HandshakeAssumption,
           UNCHANGED <<viewerVars, slot, hState, generation, authenticated>>,
           hAge' \in 0..(ConnectLimit + 1),
           toHost' \subseteq toHost, DataMatchesKey',
           \A m \in toViewer' : m \in toViewer \/ SaidByHost(generation, m)
    PROVE  IInv'
  <1>1. /\ slot' \in Viewers \cup {NoPeer} /\ hState' \in HostStates
        /\ generation' \in 0 .. MaxGenerations /\ generation <= generation'
    BY DEF IInv, Types, HandshakeAssumption
  <1>2. HostSlot' /\ HostHalf'
    BY DEF IInv, HostSlot, HostHalf, viewerVars
  <1>3. QED BY <1>1, <1>2, HostMoves

(* The branches of SERVER_ProcessControlMessages.                          *)
LEMMA HostBranches ==
    ASSUME NEW m, HostHandles(m)
    PROVE  \/ HostCloses(toViewer)
           \/ HostEnters("SAYING_HI") /\ UNCHANGED authenticated
           \/ /\ m.text = "PASSWORD" /\ PasswordValid(m.viewer)
              /\ HostEnters("CONNECTED")
              /\ authenticated' = authenticated \cup {generation}
           \/ /\ toViewer' \in After(toViewer, {FromHost("Pong")})
              /\ UNCHANGED <<hState, hAge, authenticated>>
           \/ hAge' = 0 /\ UNCHANGED <<hState, toViewer, authenticated>>
           \/ HostIgnores
  BY DEF HostHandles

LEMMA HostRecvKeeps ==
    ASSUME IInv, HandshakeAssumption, NEW m \in toHost, HostRecv(m)
    PROVE  IInv'
  <1>1. GoodToHost(m)
    BY DEF IInv, Wires
  <1>2. /\ toHost' \subseteq toHost /\ slot # NoPeer
        /\ UNCHANGED <<viewerVars, slot, generation>>
    BY DEF HostRecv
  <1>3. DataMatchesKey'
    <2>1. CASE HostTakes(m)
      <3>1. accepted' = accepted \cup {[by |-> generation, sent |-> m.about]}
        BY <2>1 DEF HostRecv
      <3>2. m.about = generation
        BY <1>1, <1>2, <2>1 DEF GoodToHost, HostTakes, IInv, HostHalf
      <3>3. QED BY <3>1, <3>2 DEF IInv, DataMatchesKey
    <2>2. CASE ~HostTakes(m)
      BY <2>2 DEF HostRecv, IInv, DataMatchesKey
    <2>3. QED BY <2>1, <2>2
  <1>4. hAge \in 0..(ConnectLimit + 1) /\ 0 \in 0..(ConnectLimit + 1)
    BY DEF IInv, Types, HandshakeAssumption
  <1>5. CASE HostIgnores
    BY <1>2, <1>3, <1>4, <1>5, HostStays DEF HostIgnores
  <1>6. CASE HostCloses(toViewer)
    BY <1>2, <1>3, <1>6, HostClosesKeeps
  <1>7. CASE HostHandles(m) /\ m.viewer = slot /\ ~Unreadable(m)
    <2>1. CASE HostEnters("SAYING_HI") /\ UNCHANGED authenticated
      BY <1>2, <1>3, <2>1, HostEntersKeeps
    <2>2. CASE /\ m.text = "PASSWORD" /\ PasswordValid(m.viewer)
               /\ HostEnters("CONNECTED")
               /\ authenticated' = authenticated \cup {generation}
      <3>1. m.key # 0 /\ m.key = vKey[slot]
        BY <1>1, <1>7, <2>2 DEF GoodToHost
      <3>2. m.key = generation
        BY <1>7, <3>1 DEF Unreadable
      <3>3. slot \in Trusted
        BY <1>7, <2>2 DEF PasswordValid
      <3>4. QED BY <1>2, <1>3, <2>2, <3>1, <3>2, <3>3, HostEntersKeeps
    <2>3. CASE /\ toViewer' \in After(toViewer, {FromHost("Pong")})
               /\ UNCHANGED <<hState, hAge, authenticated>>
      <3>1. toViewer' \subseteq toViewer \cup {FromHost("Pong")}
        BY <2>3, NoneAdded
      <3>2. SaidByHost(generation, FromHost("Pong"))
        BY <1>2, <2>3, FromHostSaid DEF Texts
      <3>3. QED BY <1>2, <1>3, <1>4, <2>3, <3>1, <3>2, HostStays
    <2>4. CASE hAge' = 0 /\ UNCHANGED <<hState, toViewer, authenticated>>
      BY <1>2, <1>3, <1>4, <2>4, HostStays
    <2>5. QED BY <1>5, <1>6, <1>7, <2>1, <2>2, <2>3, <2>4, HostBranches
  <1>8. QED BY <1>5, <1>6, <1>7 DEF HostRecv

LEMMA HostAcceptsKeeps ==
    ASSUME IInv, HandshakeAssumption, NEW m \in toHost, HostAccepts(m)
    PROVE  IInv'
  <1> DEFINE g == generation + 1
  <1>1. m.viewer \in Viewers
    BY DEF IInv, Wires, GoodToHost, Messages
  <1>2. /\ generation' = g /\ slot' = m.viewer /\ hAge' = 0
        /\ toHost' \subseteq toHost /\ UNCHANGED <<viewerVars, history>>
    BY DEF HostAccepts
  <1>3. /\ g \in 1 .. MaxGenerations /\ g # 0
        /\ generation' \in 0 .. MaxGenerations /\ generation <= generation'
    <2>1. generation \in 0 .. MaxGenerations /\ MaxGenerations \in Nat
      BY DEF IInv, Types, HandshakeAssumption
    <2>2. generation < MaxGenerations
      BY DEF HostAccepts
    <2>3. QED BY <1>2, <2>1, <2>2
  <1>4. hState' \in {"SAYING_HI", "DISCONNECTED", "SERVER_WAITING"}
    BY DEF HostAccepts
  <1>5. \A n \in toViewer' : n \in toViewer \/ SaidByHost(g, n)
    <2>1. CASE toViewer' \in After(toViewer, ServerState(m.viewer, "SAYING_HI", g))
      <3>1. toViewer' \subseteq toViewer \cup ServerState(m.viewer, "SAYING_HI", g)
        BY <2>1, NoneAdded
      <3>2. "SAYING_HI" \in HostStates
        BY DEF HostStates
      <3>3. \A n \in ServerState(m.viewer, "SAYING_HI", g) : SaidByHost(g, n)
        BY <1>1, <1>3, <3>2, ServerSaid
      <3>4. QED BY <3>1, <3>3
    <2>2. CASE toViewer' \in After(toViewer,
                   {Message(m.viewer, "Disconnect: reason", "SERVER_WAITING", 0, g)})
      <3>1. toViewer' \subseteq toViewer \cup
                   {Message(m.viewer, "Disconnect: reason", "SERVER_WAITING", 0, g)}
        BY <2>2, NoneAdded
      <3>2. Message(m.viewer, "Disconnect: reason", "SERVER_WAITING", 0, g)
            = Message(m.viewer, "Disconnect: reason", "SERVER_WAITING", g, g)
        BY StatesEncrypting DEF Message
      <3>3. "SERVER_WAITING" \in HostStates /\ "Disconnect: reason" \in Texts
        BY DEF HostStates, Texts
      <3>4. SaidByHost(g, Message(m.viewer, "Disconnect: reason", "SERVER_WAITING", g, g))
        BY <1>1, <1>3, <3>3 DEF SaidByHost
      <3>5. QED BY <3>1, <3>2, <3>4
    <2>3. CASE UNCHANGED toViewer
      BY <2>3
    <2>4. QED BY <2>1, <2>2, <2>3 DEF HostAccepts
  <1>6. HostSlot' /\ HostHalf'
    BY <1>1, <1>2, <1>3, <1>4 DEF HostSlot, HostHalf, HandshakeAssumption
  <1>7. slot' \in Viewers \cup {NoPeer} /\ hState' \in HostStates /\ hAge' \in 0..(ConnectLimit + 1)
    BY <1>1, <1>2, <1>4 DEF HostStates, HandshakeAssumption
  <1>8. DataMatchesKey' /\ authenticated \subseteq authenticated'
    BY <1>2 DEF IInv, DataMatchesKey, history
  <1>9. QED BY <1>2, <1>3, <1>5, <1>6, <1>7, <1>8, HostMoves

LEMMA HostStateSaid ==
    ASSUME IInv, HandshakeAssumption, slot # NoPeer,
           authenticated \subseteq authenticated',
           NEW m \in HostState
    PROVE  SaidByHost(generation, m)
  <1>1. slot \in Viewers /\ hState \in HostStates /\ generation # 0
    BY DEF IInv, Types, HostSlot
  <1>2. hState = "CONNECTED" => generation \in authenticated' /\ slot \in Trusted
    BY DEF IInv, HostSlot, HostHalf
  <1>3. m \in ServerState(slot, hState, generation)
    BY DEF HostState
  <1>4. QED BY <1>1, <1>2, <1>3, ServerSaid

LEMMA HostTickKeepsKeeps ==
    ASSUME IInv, HandshakeAssumption, HostTickKeeps
    PROVE  IInv'
  <1> DEFINE data == IF hState = "CONNECTED" THEN {FromHost("data")} ELSE {}
  <1>1. /\ slot # NoPeer /\ toHost' \subseteq toHost
        /\ UNCHANGED <<viewerVars, slot, hState, hAge, generation, authenticated, accepted>>
    BY DEF HostTickKeeps, hostVars, history
  <1>2. \A m \in toViewer' : m \in toViewer \/ SaidByHost(generation, m)
    <2>1. toViewer' \subseteq toViewer \cup (HostState \cup data)
      BY NoneAdded DEF HostTickKeeps
    <2>2. \A m \in HostState : SaidByHost(generation, m)
      BY <1>1, HostStateSaid
    <2>3. \A m \in data : SaidByHost(generation, m)
      BY <1>1, FromHostSaid DEF Texts
    <2>4. QED BY <2>1, <2>2, <2>3
  <1>3. DataMatchesKey' /\ hAge' \in 0..(ConnectLimit + 1)
    BY <1>1 DEF IInv, DataMatchesKey, Types
  <1>4. QED BY <1>1, <1>2, <1>3, HostStays

LEMMA HostTickDropsKeeps ==
    ASSUME IInv, HandshakeAssumption, HostTickDrops
    PROVE  IInv'
  <1>1. /\ slot # NoPeer /\ slot' = NoPeer /\ hState' = "DISCONNECTED" /\ hAge' = 0
        /\ UNCHANGED <<viewerVars, generation, toHost, authenticated, accepted>>
    BY DEF HostTickDrops, history
  <1>2. \A m \in toViewer' : m \in toViewer \/ SaidByHost(generation', m)
    <2>1. toViewer' \subseteq toViewer \cup (HostState \cup {FromHost("Disconnect: reason")})
      BY NoneAdded DEF HostTickDrops
    <2>2. \A m \in HostState : SaidByHost(generation, m)
      BY <1>1, HostStateSaid
    <2>3. SaidByHost(generation, FromHost("Disconnect: reason"))
      BY <1>1, FromHostSaid DEF Texts
    <2>4. QED BY <1>1, <2>1, <2>2, <2>3
  <1>3. /\ slot' \in Viewers \cup {NoPeer} /\ hState' \in HostStates
        /\ hAge' \in 0..(ConnectLimit + 1)
        /\ generation' \in 0 .. MaxGenerations /\ generation <= generation'
    BY <1>1 DEF IInv, Types, HostStates, HandshakeAssumption
  <1>4. HostSlot' /\ HostHalf' /\ DataMatchesKey' /\ authenticated \subseteq authenticated'
    BY <1>1 DEF HostSlot, HostHalf, IInv, DataMatchesKey
  <1>5. QED BY <1>1, <1>2, <1>3, <1>4, HostMoves
-----------------------------------------------------------------------------
(* Time and the network.                                                   *)

LEMMA OlderStays ==
    ASSUME HandshakeAssumption, NEW age \in 0 .. (ConnectLimit + 1)
    PROVE  Older(age) \in 0 .. (ConnectLimit + 1)
  BY DEF Older, HandshakeAssumption

(* Only what is on the wire and the ages change.                           *)
LEMMA PassiveKeeps ==
    ASSUME IInv, HandshakeAssumption,
           UNCHANGED <<vState, vKey, slot, hState, generation, history>>,
           vAge' \in [Viewers -> 0..(ConnectLimit + 1)], hAge' \in 0..(ConnectLimit + 1),
           toHost' \subseteq toHost, toViewer' \subseteq toViewer
    PROVE  IInv'
  <1>1. generation' \in Nat /\ generation <= generation'
    BY DEF IInv, Types, HandshakeAssumption
  <1>2. authenticated' = authenticated /\ accepted' = accepted
    BY DEF history
  <1>3. Wires'
    BY <1>1, <1>2, WiresStay DEF Wires
  <1>4. Types' /\ Keys' /\ HostSlot'
    BY <1>2 DEF IInv, Types, Keys, HostSlot
  <1>5. ViewerHalf' /\ HostHalf' /\ DataMatchesKey'
    BY <1>2 DEF IInv, ViewerHalf, HostHalf, DataMatchesKey
  <1>6. QED BY <1>3, <1>4, <1>5 DEF IInv

LEMMA ElapseKeeps ==
    ASSUME IInv, HandshakeAssumption, Elapse
    PROVE  IInv'
  <1>1. vAge' \in [Viewers -> 0..(ConnectLimit + 1)] /\ hAge' \in 0..(ConnectLimit + 1)
    BY OlderStays DEF IInv, Types, Elapse
  <1>2. QED BY <1>1, PassiveKeeps DEF Elapse

LEMMA LossKeeps ==
    ASSUME IInv, HandshakeAssumption,
           UNCHANGED <<viewerVars, hostVars, history>>,
           toHost' \subseteq toHost, toViewer' \subseteq toViewer
    PROVE  IInv'
  BY PassiveKeeps DEF IInv, Types, viewerVars, hostVars

LEMMA InitHolds ==
    ASSUME HandshakeAssumption, Init
    PROVE  IInv
  <1>1. Types /\ Keys
    BY StatesEncrypting DEF Init, Types, Keys, ViewerStates, HostStates, HandshakeAssumption
  <1>2. HostSlot /\ Wires /\ ViewerHalf /\ HostHalf /\ DataMatchesKey
    BY DEF Init, HostSlot, Wires, ViewerHalf, HostHalf, DataMatchesKey
  <1>3. QED BY <1>1, <1>2 DEF IInv

LEMMA NextKeeps ==
    ASSUME IInv, HandshakeAssumption, [Next]_vars
    PROVE  IInv'
  <1>1. ASSUME NEW v \in Viewers, Connect(v) PROVE IInv'
    BY <1>1, ConnectKeeps
  <1>2. ASSUME NEW v \in Viewers, ViewerTick(v) PROVE IInv'
    BY <1>2, ViewerTickKeeps
  <1>3. ASSUME NEW m \in toViewer, ViewerRecv(m) PROVE IInv'
    BY <1>3, ViewerRecvKeeps
  <1>4. ASSUME NEW m \in toHost, HostRecv(m) PROVE IInv'
    BY <1>4, HostRecvKeeps
  <1>5. ASSUME NEW m \in toHost, HostAccepts(m) PROVE IInv'
    BY <1>5, HostAcceptsKeeps
  <1>6. CASE HostTickKeeps
    BY <1>6, HostTickKeepsKeeps
  <1>7. CASE HostTickDrops
    BY <1>7, HostTickDropsKeeps
  <1>8. CASE Elapse
    BY <1>8, ElapseKeeps
  <1>9. ASSUME NEW m \in toHost, LoseToHost(m) PROVE IInv'
    BY <1>9, LossKeeps DEF LoseToHost
  <1>10. ASSUME NEW m \in toViewer, LoseToViewer(m) PROVE IInv'
    BY <1>10, LossKeeps DEF LoseToViewer
  <1>11. CASE UNCHANGED vars
    BY <1>11, LossKeeps DEF vars
  <1>12. QED
    BY <1>1, <1>2, <1>3, <1>4, <1>5, <1>6, <1>7, <1>8, <1>9, <1>10, <1>11 DEF Next
-----------------------------------------------------------------------------
(* Theorems.                                                               *)

(* The parts of the invariant hold in every reachable state: states, keys  *)
(* and messages of connections belong together.                            *)
THEOREM HandshakeInvariance == Spec => []IInv
  <1>1. Init => IInv
    BY HandshakeAssumption, InitHolds
  <1>2. IInv /\ [Next]_vars => IInv'
    BY HandshakeAssumption, NextKeeps
  <1>3. QED BY <1>1, <1>2, PTL DEF Spec

(* The connections and the network hold what the code's fields and messages *)
(* can hold, and on the wire the password and all that follows it is        *)
(* encrypted.                                                              *)
THEOREM HandshakeTypeCorrect == Spec => []TypeOK
  <1>1. ASSUME IInv PROVE TypeOK
    <2>1. \A m \in toHost \cup toViewer :
              m \in Messages /\ (m.key # 0 <=> m.state \in {"CLIENT_AUTHENTICATE_PASSWORD", "CONNECTED"})
      BY <1>1, StatesEncrypting DEF IInv, Wires, GoodToHost, GoodToViewer, Sealed
    <2>2. Types
      BY <1>1 DEF IInv
    <2>3. QED BY <2>1, <2>2 DEF Types, TypeOK
  <1>2. QED BY <1>1, HandshakeInvariance, PTL

(* The host is connected only to a viewer that knows the password and holds *)
(* the connection's key, and a viewer only to a connection that accepted   *)
(* its password, whatever the network loses, repeats and reorders.         *)
THEOREM OnlyTrustedConnect == Spec => []MutualAuthentication
  <1>1. IInv => MutualAuthentication
    BY DEF IInv, ViewerHalf, HostHalf, MutualAuthentication
  <1>2. QED BY <1>1, HandshakeInvariance, PTL

(* Data that a connection passes to its transcoders was sent under the key *)
(* it holds, although the data itself says nothing of a key.               *)
THEOREM DataStaysWithKey == Spec => []DataMatchesKey
  <1>1. IInv => DataMatchesKey
    BY DEF IInv
  <1>2. QED BY <1>1, HandshakeInvariance, PTL
=============================================================================
