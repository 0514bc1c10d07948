------------------------- MODULE ConnectionHandshake -----------------------
(***************************************************************************)
(* NetworkConnection (SPPNetworking/SPPNetworkConnection.cpp) as the host  *)
(* and the LAN viewers use it.  A viewer process owns one client           *)
(* connection; the host owns at most one server connection, makes it for   *)
(* whoever sends the first datagram and drops it when it is no longer      *)
(* valid (applications/applicationhost.cpp, remoteviewer.cpp).             *)
(*                                                                         *)
(* A server connection is known by its generation, which stands for the    *)
(* AES key it generated; key 0 marks a message that is not encrypted.  The *)
(* network loses, repeats and reorders datagrams.                          *)
(***************************************************************************)
EXTENDS Integers, FiniteSets

CONSTANTS Viewers,        \* viewer processes, each with an address of its own
          NoPeer,         \* stands for the host's empty videoConnection
          Trusted,        \* those that know the host's password
          ConnectLimit,   \* 10 s: limit on a handshake, in units of the clock
          ActiveLimit,    \* 5 s: limit on silence while connected
          MaxGenerations, \* bound: server connections in a behaviour
          Capacity        \* bound: messages in the network, each direction

ASSUME HandshakeAssumption ==
    /\ Trusted \subseteq Viewers
    /\ NoPeer \notin Viewers
    /\ ActiveLimit \in Nat /\ ConnectLimit \in Nat
    /\ ActiveLimit <= ConnectLimit
    /\ MaxGenerations \in Nat /\ Capacity \in Nat

VARIABLES
    vState,     \* viewer: _networkState of its connection
    vKey,       \* viewer: the key set in _aesCipherShared, 0 before
    vAge,       \* viewer: time since _lastKeepAlive
    slot,       \* host: peer of videoConnection, or NoPeer
    hState,     \* host: _networkState of videoConnection
    hAge,       \* host: time since _lastKeepAlive
    generation, \* host: server connections made so far; the last is in slot
    toHost, toViewer,   \* network
    authenticated,      \* history: generations that accepted a password
    accepted            \* history: data passed to the transcoders

viewerVars == <<vState, vKey, vAge>>
hostVars   == <<slot, hState, hAge, generation>>
history    == <<authenticated, accepted>>
vars == <<viewerVars, hostVars, toHost, toViewer, history>>

ViewerStates == {"UNKNOWN", "SAYING_HI", "CLIENT_AUTHENTICATE_PASSWORD",
                 "CONNECTED", "DISCONNECTED"}
HostStates == {"SERVER_WAITING", "SAYING_HI", "CONNECTED", "DISCONNECTED"}

(* Definitions named Faulty... are a slip the code might have had in place  *)
(* of the definition that follows; with it, a property below must fail.    *)

FaultyEncrypts(state) == state = "CONNECTED"

\* States above FULL_ENCRYPTION_START encrypt what they send.
Encrypts(state) == state \in {"CLIENT_AUTHENTICATE_PASSWORD", "CONNECTED"}

\* A message carries what it says, the sender's state, and the key it is
\* encrypted with; "about" is the key a host's greeting or a datum is about.
Message(viewer, text, state, key, about) ==
    [viewer |-> viewer, text |-> text, state |-> state, about |-> about,
     key |-> IF Encrypts(state) THEN key ELSE 0]

FromViewer(v, text) == Message(v, text, vState[v], vKey[v], vKey[v])
FromHost(text) == Message(slot, text, hState, generation, generation)

\* What the network may hold after messages were sent into it: any of them
\* may be lost at once, and those beyond its capacity are.
After(net, messages) ==
    {net \cup kept : kept \in {k \in SUBSET messages : Cardinality(net \cup k) <= Capacity}}

Init ==
    /\ vState = [v \in Viewers |-> "UNKNOWN"]
    /\ vKey = [v \in Viewers |-> 0]
    /\ vAge = [v \in Viewers |-> 0]
    /\ slot = NoPeer /\ hState = "DISCONNECTED" /\ hAge = 0 /\ generation = 0
    /\ toHost = {} /\ toViewer = {}
    /\ authenticated = {} /\ accepted = {}

-----------------------------------------------------------------------------
(* Viewer. *)

Live(v) == vState[v] \notin {"UNKNOWN", "DISCONNECTED"}

\* What CLIENT_SendState sends in a state; 0 before the key is known.
ClientState(v, state, key) ==
    {Message(v, CASE state = "SAYING_HI" -> "RSA"
                  [] state = "CLIENT_AUTHENTICATE_PASSWORD" -> "PASSWORD"
                  [] OTHER -> "Ping", state, key, key)}

\* _SetState sends the new state at once.
ViewerEnters(v, state, key, rest) ==
    /\ vState' = [vState EXCEPT ![v] = state]
    /\ vKey' = [vKey EXCEPT ![v] = key]
    /\ toHost' \in After(rest, ClientState(v, state, key))

\* The process starts: the connection is constructed and Connect is called.
Connect(v) ==
    /\ vState[v] = "UNKNOWN"
    /\ ViewerEnters(v, "SAYING_HI", 0, toHost)
    /\ UNCHANGED <<vAge, hostVars, toViewer, history>>

\* CloseDown tells the peer, still in the old state.
ViewerCloses(v, before) ==
    /\ toHost' \in After(toHost, before \cup {FromViewer(v, "Disconnect: reason")})
    /\ vState' = [vState EXCEPT ![v] = "DISCONNECTED"]
    /\ UNCHANGED <<vKey, vAge>>

\* Tick: below CONNECTED the state is sent again, then the time is checked;
\* in CONNECTED the time is checked, then the transcoders send.
FaultyTimedOut(v) == vState[v] # "CONNECTED" /\ vAge[v] > ConnectLimit
TimedOut(v) == vAge[v] > IF vState[v] = "CONNECTED" THEN ActiveLimit ELSE ConnectLimit
ViewerTick(v) ==
    /\ Live(v)
    /\ LET state == ClientState(v, vState[v], vKey[v])
           data  == IF vState[v] = "CONNECTED" THEN {FromViewer(v, "data")} ELSE {}
       IN  IF TimedOut(v)
           THEN ViewerCloses(v, state)
           ELSE toHost' \in After(toHost, state \cup data) /\ UNCHANGED viewerVars
    /\ UNCHANGED <<hostVars, toViewer, history>>

\* CLIENT_ProcessControlMessages on a message that was read.
ViewerIgnores == UNCHANGED <<viewerVars, toHost>>
ViewerHandles(v, m) ==
    CASE m.text = "Disconnect: reason" -> ViewerCloses(v, {})
      [] vState[v] = "SAYING_HI" /\ m.text = "RSA+AES" ->
            ViewerEnters(v, "CLIENT_AUTHENTICATE_PASSWORD", m.about, toHost) /\ UNCHANGED vAge
      [] vState[v] = "CLIENT_AUTHENTICATE_PASSWORD" /\ m.state = "CONNECTED" ->
            ViewerEnters(v, "CONNECTED", vKey[v], toHost) /\ UNCHANGED vAge
      [] vState[v] = "CONNECTED" /\ m.text = "Ping" ->
            toHost' \in After(toHost, {FromViewer(v, "Pong")}) /\ UNCHANGED viewerVars
      [] vState[v] = "CONNECTED" /\ m.text = "Pong" ->
            vAge' = [vAge EXCEPT ![v] = 0] /\ UNCHANGED <<vState, vKey, toHost>>
      [] OTHER -> ViewerIgnores

\* ReceivedRawData and ProcessControlMessages.
ViewerRecv(m) ==
    LET v == m.viewer
    IN  /\ m \in toViewer
        /\ toViewer' \in {toViewer, toViewer \ {m}}
        /\ IF ~Live(v) \/ m.text = "data"
           THEN ViewerIgnores
           ELSE IF m.key # 0 /\ m.key # vKey[v] THEN ViewerCloses(v, {})
           ELSE IF m.key = 0 /\ vState[v] = "CONNECTED" THEN ViewerIgnores
           ELSE ViewerHandles(v, m)
        /\ accepted' = IF m.text = "data" /\ vState[v] = "CONNECTED"
                       THEN accepted \cup {[by |-> vKey[v], sent |-> m.about]} ELSE accepted
        /\ UNCHANGED <<hostVars, authenticated>>

-----------------------------------------------------------------------------
(* Host. *)

ServerState(v, state, key) ==
    CASE state = "SAYING_HI" -> {Message(v, "RSA+AES", state, key, key)}
      [] state = "CONNECTED" -> {Message(v, "Ping", state, key, key)}
      [] OTHER -> {}

HostCloses(rest) ==
    /\ hState' = "DISCONNECTED"
    /\ toViewer' \in After(rest, {FromHost("Disconnect: reason")})
    /\ UNCHANGED <<hAge, authenticated>>

HostEnters(state) ==
    /\ hState' = state
    /\ toViewer' \in After(toViewer, ServerState(slot, state, generation))
    /\ UNCHANGED hAge

\* SERVER_ProcessControlMessages on a message that was read.  It compares the
\* text with "Disconnect" as a whole, and CloseDown always adds the reason.
HostIgnores == UNCHANGED <<hState, hAge, toViewer, authenticated>>
FaultyPasswordValid(v) == TRUE
PasswordValid(v) == v \in Trusted
HostHandles(m) ==
    CASE m.text = "Disconnect" -> HostCloses(toViewer)
      [] hState = "SERVER_WAITING" /\ m.text = "RSA" ->
            HostEnters("SAYING_HI") /\ UNCHANGED authenticated
      [] hState = "SAYING_HI" /\ m.text = "PASSWORD" /\ PasswordValid(m.viewer) ->
            HostEnters("CONNECTED") /\ authenticated' = authenticated \cup {generation}
      [] hState = "SAYING_HI" /\ m.text = "PASSWORD" /\ ~PasswordValid(m.viewer) ->
            HostCloses(toViewer)
      [] hState = "CONNECTED" /\ m.text = "Ping" ->
            toViewer' \in After(toViewer, {FromHost("Pong")})
            /\ UNCHANGED <<hState, hAge, authenticated>>
      [] hState = "CONNECTED" /\ m.text = "Pong" ->
            hAge' = 0 /\ UNCHANGED <<hState, toViewer, authenticated>>
      [] OTHER -> HostIgnores

\* Whether a message can be read: one in clear is, and one in another key
\* fails to decrypt or to parse.
Unreadable(m) == m.key # 0 /\ m.key # generation

\* Only a connected connection passes data to its transcoders.
FaultyHostTakes(m) == m.text = "data" /\ m.viewer = slot
HostTakes(m) == m.text = "data" /\ m.viewer = slot /\ hState = "CONNECTED"

\* A datagram from the peer of the connection there is.
HostRecv(m) ==
    /\ m \in toHost
    /\ slot # NoPeer
    /\ toHost' \in {toHost, toHost \ {m}}
    /\ IF m.viewer # slot \/ hState = "DISCONNECTED" \/ m.text = "data"
       THEN HostIgnores
       ELSE IF Unreadable(m) THEN HostCloses(toViewer)
       ELSE IF m.key = 0 /\ hState = "CONNECTED" THEN HostIgnores
       ELSE HostHandles(m)
    /\ accepted' = accepted \cup
           IF HostTakes(m) THEN {[by |-> generation, sent |-> m.about]} ELSE {}
    /\ UNCHANGED <<viewerVars, slot, generation>>

\* The first datagram, whatever it says, makes a connection for its sender and
\* is then received by it; SERVER_WAITING understands nothing but "RSA".
HostAccepts(m) ==
    /\ m \in toHost
    /\ slot = NoPeer
    /\ generation < MaxGenerations
    /\ toHost' \in {toHost, toHost \ {m}}
    /\ generation' = generation + 1
    /\ slot' = m.viewer
    /\ hAge' = 0
    /\ \/ /\ m.text = "RSA"
          /\ hState' = "SAYING_HI"
          /\ toViewer' \in After(toViewer, ServerState(m.viewer, "SAYING_HI", generation + 1))
       \/ /\ m.key # 0
          /\ m.text # "data"
          /\ hState' = "DISCONNECTED"
          /\ toViewer' \in After(toViewer,
                 {Message(m.viewer, "Disconnect: reason", "SERVER_WAITING", 0, generation + 1)})
       \/ /\ m.text = "data" \/ (m.key = 0 /\ m.text # "RSA")
          /\ hState' = "SERVER_WAITING"
          /\ UNCHANGED toViewer
    /\ UNCHANGED <<viewerVars, history>>

\* The network timer of the host: Tick, then the connection is dropped if it
\* is no longer valid.
HostLimit == IF hState = "CONNECTED" THEN ActiveLimit ELSE ConnectLimit
HostState == ServerState(slot, hState, generation)

HostTickKeeps ==
    /\ slot # NoPeer
    /\ hState # "DISCONNECTED"
    /\ hAge <= HostLimit
    /\ toViewer' \in After(toViewer,
           HostState \cup IF hState = "CONNECTED" THEN {FromHost("data")} ELSE {})
    /\ UNCHANGED <<viewerVars, hostVars, toHost, history>>

FaultyHostTickDrops ==
    /\ slot # NoPeer
    /\ \/ hState = "DISCONNECTED" /\ UNCHANGED toViewer
       \/ /\ hState = "CONNECTED"
          /\ hAge > HostLimit
          /\ toViewer' \in After(toViewer, HostState \cup {FromHost("Disconnect: reason")})
    /\ slot' = NoPeer
    /\ hState' = "DISCONNECTED"
    /\ hAge' = 0
    /\ UNCHANGED <<viewerVars, generation, toHost, history>>

HostTickDrops ==
    /\ slot # NoPeer
    /\ \/ hState = "DISCONNECTED" /\ UNCHANGED toViewer
       \/ /\ hState # "DISCONNECTED"
          /\ hAge > HostLimit
          /\ toViewer' \in After(toViewer, HostState \cup {FromHost("Disconnect: reason")})
    /\ slot' = NoPeer
    /\ hState' = "DISCONNECTED"
    /\ hAge' = 0
    /\ UNCHANGED <<viewerVars, generation, toHost, history>>

-----------------------------------------------------------------------------
Older(age) == IF age > ConnectLimit THEN age ELSE age + 1

Elapse ==
    /\ vAge' = [v \in Viewers |-> IF Live(v) THEN Older(vAge[v]) ELSE vAge[v]]
    /\ hAge' = IF slot # NoPeer THEN Older(hAge) ELSE hAge
    /\ UNCHANGED <<vState, vKey, slot, hState, generation, toHost, toViewer, history>>

LoseToHost(m) ==
    /\ m \in toHost
    /\ toHost' = toHost \ {m}
    /\ UNCHANGED <<viewerVars, hostVars, toViewer, history>>
LoseToViewer(m) ==
    /\ m \in toViewer
    /\ toViewer' = toViewer \ {m}
    /\ UNCHANGED <<viewerVars, hostVars, toHost, history>>

Next ==
    \/ \E v \in Viewers : Connect(v) \/ ViewerTick(v)
    \/ \E m \in toViewer : ViewerRecv(m)
    \/ \E m \in toHost : HostRecv(m)
    \/ \E m \in toHost : HostAccepts(m)
    \/ HostTickKeeps
    \/ HostTickDrops
    \/ Elapse
    \/ \E m \in toHost : LoseToHost(m)
    \/ \E m \in toViewer : LoseToViewer(m)

Spec == Init /\ [][Next]_vars

-----------------------------------------------------------------------------
(* Properties. *)

Texts == {"RSA", "PASSWORD", "RSA+AES", "Ping", "Pong", "data", "Disconnect: reason"}
Messages ==
    [viewer : Viewers, text : Texts, state : ViewerStates \cup HostStates,
     about : 0..MaxGenerations, key : 0..MaxGenerations]

\* The variables hold what the code's fields can hold, and on the wire the
\* password and all that follows it is encrypted.
TypeOK ==
    /\ vState \in [Viewers -> ViewerStates]
    /\ vKey \in [Viewers -> 0..generation]
    /\ vAge \in [Viewers -> 0..(ConnectLimit + 1)]
    /\ slot \in Viewers \cup {NoPeer}
    /\ hState \in HostStates
    /\ hAge \in 0..(ConnectLimit + 1)
    /\ generation \in 0..MaxGenerations
    /\ toHost \subseteq Messages /\ toViewer \subseteq Messages
    /\ \A m \in toHost \cup toViewer :
          m.key # 0 <=> m.state \in {"CLIENT_AUTHENTICATE_PASSWORD", "CONNECTED"}

\* A host connection is CONNECTED only to a viewer that knows the password and
\* holds this connection's key, and a viewer only to one that accepted its
\* password, however greetings of several connections are mixed up.
MutualAuthentication ==
    /\ (slot # NoPeer /\ hState = "CONNECTED") =>
           slot \in Trusted /\ vKey[slot] = generation
    /\ \A v \in Viewers :
           vState[v] = "CONNECTED" => v \in Trusted /\ vKey[v] \in authenticated

\* Data is not encrypted and names no connection, and yet what a connection
\* passes to its transcoders was sent under the key it holds: a new
\* connection never takes over the indices of an old one.
DataMatchesKey == \A a \in accepted : a.by = a.sent

FairSpec ==
    /\ Spec
    /\ WF_vars(Elapse /\ (vAge' # vAge \/ hAge' # hAge))
    /\ WF_vars(HostTickDrops)
    /\ \A v \in Viewers : WF_vars(TimedOut(v) /\ ViewerTick(v))
    /\ WF_vars(\E m \in toHost : LoseToHost(m) \/ (HostRecv(m) /\ toHost' = toHost \ {m}))
    /\ WF_vars(\E m \in toViewer : LoseToViewer(m) \/ (ViewerRecv(m) /\ toViewer' = toViewer \ {m}))

\* The host does not hear that a viewer is gone, and still it does not keep
\* the only slot for it, not even one that a last datagram of it opens.
SlotIsReleased ==
    \A v \in Viewers : (slot = v /\ vState[v] = "DISCONNECTED") ~> slot # v

HostHolds(v) == slot = v /\ hState = "CONNECTED" /\ generation = vKey[v]

\* A viewer whose host connection is gone notices it.
HalfOpenIsNoticed ==
    \A v \in Viewers :
        (vState[v] = "CONNECTED" /\ ~HostHolds(v)) ~> vState[v] = "DISCONNECTED"
=============================================================================
