# A verification project for the remote application client and server

This directory models the parts of the repository that carry its own protocol
logic in TLA+, checks the models with TLC on small instances, and proves the
central ones with TLAPS for every instance. It covers the network stack, through
which two peers, host and viewer, exchange video frames and input over UDP; how
the two find each other through the coordinator; the threads and timers that all
of it runs on; and the monitor that keeps the coordinator alive.

Contents: [system](#the-system) · [modules](#modules-and-the-code) ·
[runs](#what-the-runs-check) · [bounds](#bounds) · [fairness](#fairness) ·
[proofs](#what-is-proved) · [findings](#disagreements-found) ·
[limits](#what-is-not-modelled) · [plan](#plan)

## The system

| Component | Source | State | Operations |
|---|---|---|---|
| ReliabilityTranscoder | `SPPNetworking/SPPNetworkMessenger.*` | two pairs of 16-bit indices, list of unacknowledged messages, list of messages that came early | Send, Recv (acks, reliable, unreliable), Update |
| MessageSplitTranscoder | same | pending chunk count, assembly buffer | Send, Recv |
| NetworkConnection | `SPPNetworking/SPPNetworkConnection.*` | connection state, keys, time of the last Pong, rate control, incoming and outgoing streams | Connect, Tick, ReceivedRawData, CloseDown, SendMessage |
| Host loop | `applications/applicationhost.cpp` | at most one connection, its peer address, NAT socket | timers: network, coordinator, beacon, stop flag |
| Viewer loop | `applications/remoteviewer.cpp` | one connection | network timer; with NAT also the coordinator |
| Coordinator | `SPPNetworking/SPPNatTraversal.cpp`, `applications/simpleconnectioncoordinator.cpp` | connection per address, client table in SQLite | Update, SQLRequest, cleanup timer |
| UDPJuiceSocket | `SPPNetworking/SPPNatTraversal.cpp` | ICE agent state, receive queue filled by another thread | Connect, Send, Receive |
| ThreadPool | `SPPCore/ThreadPool.*` | workers, queue, stop flag | enqueue, worker loop, RunOnce, destructor |
| TimerController | `SPPCore/SPPHandledTimers.*` | sorted list of timers, mutex | AddTimer, RemoveTimer, RunOnce, Run, Stop |
| Memory and IPC | `SPPCore/SPPMemory.*` | mapped memory with a semaphore, message queue, deadlock reports, free lists | ReadMemory, WriteMemory, ReportToAppMonitor, CheckReporter, PushMessage, allocate, free |
| Application monitor | `applications/SPPApplicationMonitor.cpp`, `SPPCore/SPPLinuxCore.cpp` | table of children and its mutex, last tag seen and when | main loop, CreateChildProcess, CloseChild, SIGCHLD handler |
| Bit array, pools | `SPPCore/SPPBitSetArray.cpp`, `SPPPooledChunkBuffer.cpp` | bits lent out | get, release, expand |
| Objects and GC | `SPPObject/*` | object graph, marks | mark, sweep, delete |
| Coroutines | `SPPCoroutines/SPPCoroutines.h` | stacks of suspended coroutines | schedule, run |

The rest (rendering back ends, mathematics, importers, wrappers of third-party
libraries, user interfaces) is listed in `PROJECT.json` with the reason it is
left out.

How the parts interact: an application timer of a TimerController reads the
socket and calls `ReceivedRawData`, then `Tick`. `ReceivedRawData` hands control
messages to the state machine of the connection and, only when CONNECTED, data
to the transcoders: reliability first, then splitting, then the application.
`Tick` sends the state again and checks the time limits, and in CONNECTED calls
`Update` of the transcoders, which send, send again and acknowledge. Everything
of one connection runs on one thread; concurrency is between processes, through
datagrams that may be lost, repeated and reordered, and between processes that
restart their side of a connection at any time. Beyond the LAN, host and viewer
each push their keys (GUID, session description) to the coordinator, which keeps
them in a table; each asks for the rows of the other and hands the description
it finds to its UDPJuiceSocket, over which the same connection then runs. The
coordinator reports to the monitor through mapped memory, from one of its
timers; the monitor restarts it when the reports stop or the process ends.

What is hard, and what each part must get right:

* *Reliability*: order and exactly-once delivery over such a network while
  16-bit indices wrap; nothing cleared that the peer lacks; progress although
  retransmission is triggered by acknowledgements alone; loops that erase from
  the list they walk.
* *Splitting*: whole, unmixed messages, although two kinds of traffic share one
  assembly buffer, and counts that fit their bit fields.
* *Connection*: only a password holder is ever CONNECTED; old datagrams never
  confuse a new connection; a side that is left alone notices; the host's only
  slot comes free.
* *Rendezvous*: host and viewer take descriptions from rows and answers that may
  be old, replace their sockets at times of their own, and compete for one host;
  a pair that works must stay, a socket without a partner must be replaced.
* *Thread pool and timers*: no task lost or run twice, no wake-up lost, a
  destructor that returns; timers that come in order and not too late, although
  the loop reads its list without the mutex.
* *Monitor*: a slow child is not a dead one, a dead one is replaced, and the
  signal handler shares a mutex and a table with the code it interrupts.

## Modules and the code

| Module | Models |
|---|---|
| `OrderedDelivery` | The promise of the reliable channel: messages come out in the order they were accepted, each once, until the receiver closes. |
| `ReliableTranscoder` | One direction of the reliable channel: sender, receiver, network. Lists are sets, loops are closed formulas. Implements `OrderedDelivery`. |
| `ReliableTranscoderProofs` | TLAPS proofs about it. |
| `MCReliableTranscoder` | Values for TLC. |
| `ReliabilityLists` | The same code with its real data: wrapping indices, lists in order, the loop over an acknowledgement round by round (`Round`, `AckLoop`), the loops that deliver and store as the first position where they stop (`Drained`, `Place`). Implements `ReliableTranscoder`. |
| `ReliabilityListsProofs` | TLAPS proofs about it, the refinement included, through those of `ReliableTranscoder`. |
| `UnreliableTranscoder` | The unreliable half of the same class. |
| `MessageSplit` | `MessageSplitTranscoder`, over an ordered queue (what the reliable half is shown to be) and an instance of `UnreliableTranscoder`. |
| `MessageSplitProofs` | TLAPS proofs about it. |
| `ConnectionHandshake` | Viewer connections and the host's connection: handshake, keys, time limits, the host's slot. |
| `HandshakeProofs` | TLAPS proofs about it. |
| `MCConnectionHandshake` | Viewers for TLC, one that knows the password and one that does not. |
| `Rendezvous` | Host, viewers and the coordinator's table: pushes, queries, answers, ICE sockets, the video connection as none, open or connected, faults. |
| `RendezvousProofs` | TLAPS proofs about it. |
| `MCRendezvous` | A host with two viewers and no faults, or one viewer and faults. |
| `TaskExecutor` | The promise of a thread pool: tasks start in the order accepted, each once, and none is left undone when a pool with workers is gone. |
| `ThreadPool` | The pool with its queue, condition variable, workers, RunOnce and destructor. Implements `TaskExecutor`. |
| `ThreadPoolProofs` | TLAPS proofs about it, the refinement included. |
| `TimerController` | The timer loop with its mutex and sorted list, other threads that add, remove and stop, and time. |
| `TimerProofs` | TLAPS proofs about it. |
| `MCTimerController` | Two timers that loop, one of which takes longer than it waits, and one that runs once. |
| `DeadlockMonitor` | The monitor, its SIGCHLD handler and the mapped memory, over `TimerController` as the loop of the process it watches. |
| `MonitorProofs` | TLAPS proofs about it, on top of `TimerProofs`. |
| `MCDeadlockMonitor` | The timers of the coordinator. |

How state and actions correspond to the code:

* `ReliableTranscoder`. `next` and `expected` are `_outGoingIndices.Reliable`
  and `_incomingIndices.Reliable` counted without wrap; every comparison goes
  through `Wire` and `DistanceToIndex`, as in the code. `unacked` and `stored`
  are the two lists, `hasSent` the flag `bHasSent`, `overdue` the messages whose
  `_lastSendTime` is more than 300 ms old. `Send` and `SendUpdate` are `Send`
  and the first half of `Update`, where `IsSaturated` may stop the loop
  anywhere; `RecvUpdate` is the second half, the acknowledgement. The two halves
  act on the two directions of a connection, and the model has one direction.
  `RecvAck` is the whole ack branch of `Recv`: `Cleared` covers the cumulative
  index and the iterator that is advanced twice, `Listed` the last index that is
  never read, `Skipped` and `overdue` what is sent again. `RecvExpected`,
  `RecvTooFar`, `RecvNewer` and `RecvOld` are the four branches for a message.
* `ReliabilityLists` keeps each field as the code does. The field `id` of a
  message is its payload; `ghost` of an acknowledgement records the state it was
  made in, and no guard or assignment of the code's own variables uses either,
  except the environment's window and lag. Here a datagram is consumed when it
  arrives, which keeps the instance small; repeated arrivals come from sending
  again, and duplication by the network itself is checked in
  `ReliableTranscoder`, whose network includes this one's steps.
* `MessageSplit` knows a byte by message and place, so misplaced, missing or
  mixed bytes show. `sent` and `received` are kept apart by the mask
  `IS_RELIABLE` that a message is sent with. `smashed` records that a copy went
  `Astray`: outside the assembly buffer, or with a size that the part does not carry,
  where `MemoryView::Read` asserts (an announcement taken for a chunk). After it
  nothing is claimed of the program.
* `ConnectionHandshake`. A server connection is known by its generation, which
  stands for the AES key it generates; a message carries the key it is encrypted
  with, 0 for none. `FromViewer` and `FromHost` are `_SendJsonMessage`: the
  state at the time of sending decides about encryption. Every message may travel
  alone; in the code several share a datagram, which only removes behaviours.
  `ViewerTick`, `HostTickKeeps` and `HostTickDrops` are `Tick`, the last with
  the application's `videoConnection.reset()`; `HostAccepts` is the first
  datagram, which makes a connection and is then received by it. The age
  `vAge`, `hAge` is the time since `_lastKeepAlive`, which the constructor and a
  Pong set and nothing else: entering CONNECTED does not.

* `Rendezvous`. `peer[p]` holds what an application knows: `socket` numbers the
  UDPJuiceSocket it has now (an SDP is owner and number), `ready` is
  `IsReady`, `remote` what `SetRemoteSDP` was given, `ice` the state of the
  agent, `video` the `videoConnection`, `keys` the pairs it pushes. `row` is the
  clients table; a query is answered from the rows of that moment (`Offers`) and
  its answer may be taken any time later, after the socket it was asked for is
  gone. `answer[p]` is the queue of answers under way to `p`, because a query is made
  every second whatever is outstanding; one pass of `Update` takes the first few of
  them, each through the callback (`Found`: after one with offers nothing is left to
  take). `HostCoordinatorTimer` is the one timer of the host in the order of its
  lambda; a viewer has `ViewerCoordinatorTimer` and `ViewerJuiceTimer`.
  `RenewsSocket`, `OpensVideo` and the `...Ends` actions are the branches of the
  network timers. A fault is anything that need not happen while processes run
  and datagrams arrive (a session lost, the coordinator restarted, a socket or a
  video connection that fails although both ends are fit, a row that ages
  although its owner pushes); what follows by itself from an earlier step, such
  as ICE failing over a description whose socket is gone, is not counted.
* `ThreadPool`. What the code does between locking and unlocking `queue_mutex` is
  one action; a notification after the unlock is another (`notifying`), and so is
  running a task. A waiting worker is woken by a notification or by itself
  (`SpuriousWake`), and looks at the condition again.
* `TimerController`. `left[t]` is `NextTrigger` relative to now, `pc` and `at` the
  place in `Run` and in the loop of `RunOnce`, `since` how old the `CurrentTime`
  is that the loop compares with. `RunLoops` is the test of `_IsRunning`, `RunOnce` the
  lock that follows it: a `Stop` between the two is heard one pass later, or never when
  the mutex does not come free. Callbacks run with the mutex held. `ByTrigger` is
  the contract of `std::list::sort`: the same timers, by trigger, those with the same
  trigger as before. `Cost` bounds a callback, and `TotalCost` those of a set of
  timers; a callback that takes longer than its timer waits, which a comment at
  `SPPHandledTimers.h:103` asks about, makes it late by its `Overrun` each time. `RemoveTimer`
  of a timer that is not the first spins for ever (`spinning`), as the code does.
* `DeadlockMonitor`. `tag` and `seen` are the two `_memTag`, `locked` the semaphore.
  The table is `hosted`, with the mutex held where `HoldsMutex` says; `signal` is a
  pending SIGCHLD, and `HandlesSignal` may come between any two steps of the
  monitor, because it runs on the monitor's only thread. `LocksMemory` and
  `CheckReporter` are the two halves of `ReadMemory`, so a signal may come while the
  monitor has the semaphore, and a report then waits (`Waiting`). The handler loops
  while a child remains (`loop = "handler"`, `resume` is the step it interrupted) and
  returns when the last one has died (`HandlerEnds`); one that needs a mutex its own
  thread holds never does (`loop = "mutex"`). The child's steps are
  those of `TimerController`, with the report as the callback of one timer.

Definitions named `Faulty...` are slips the code might have had. Each stands
before the definition it would replace, and shows that a property can fail.

## What the runs check

| Run | Shows |
|---|---|
| `reliable_safety` | `InOrder`, `NoMessageLost`, `NothingStuck`, `StoredWindow`, `AcksTruthful`, `TypeOK`, and refinement of `OrderedDelivery`: loss, duplication and reordering of messages and acknowledgements, with seven messages over nine indices, so that indices wrap while messages are in flight (with the acknowledgements' lag, distances are taken across the wrap at both ends). |
| `reliable_live` | `EventuallyDelivered`, `EventuallyCleared`: messages get through and the sender's list drains, although only an acknowledgement triggers sending again and the ack loop steps over messages. `NoSpuriousClose`. |
| `reliability_lists` | `ListsSorted`, and that the real loops implement the formulas of `ReliableTranscoder`, so that everything shown there is shown of the loops. |
| `message_split` | `MessagesIntact`, `AllDeliveredWhenDrained`, `TypeOK`: messages of one to four chunks, reliable or not, in any interleaving; four is the count that does not fit its field, which `AllDeliveredWhenDrained` excepts by `CountsFit`. |
| `split_count_overflow` | `AdmittedLengthsArrive`, the same without that exception, is violated; see below. |
| `handshake` | `MutualAuthentication`, `DataMatchesKey`, `TypeOK`: two viewers, two generations of the host's connection, stale messages of one arriving at the other. |
| `handshake_live` | `SlotIsReleased`, `HalfOpenIsNoticed`: by the time limits alone. |
| `rendezvous` | `NamesItsViewer`, `PairStays`: who the host names and that a working pair is taken apart by faults only. `FirstViewerConnects`: without faults the host and one of two competing viewers connect. `ProblemIsNoticed`: a socket that can never connect is replaced. `TypeOK`. |
| `thread_pool` | `EachTaskOnce`, `NoLostWakeup`, `StopIsHeard`, `EveryTaskRuns`, `DestructorReturns`, `TypeOK`, and refinement of `TaskExecutor`: with two, one or no workers, and tasks that submit tasks while the pool is destroyed. |
| `timer_controller` | `SortedWhenFree`, `Punctual`: the list is sorted whenever the mutex is free, and no timer is later than its own overrun, the granularity and the callbacks of the others explain. `EveryTimerRuns`, and `StopEndsRun`: a stopped loop ends, wherever the `Stop` finds it. All but the first except a `RemoveTimer` that spins. |
| `deadlock_monitor` | `NoFalseAlarm`: only a child that hangs or is dead is replaced. `FaultIsNoticed`: such a child is replaced, also when the signal of another came in the middle of a step and kept the handler looping for a while; excepted are memory left locked by the dead, a handler that interrupted a holder of `childMutex`, and one that loops over a child that hangs, for which the code has no defence. `CrashesAreHandled`: without hangs the signal handler never loops. `TypeOK`. |
| `unreliable_ahead` | `AheadIsProcessed`, what a comment says, is violated; see below. |

`MessagesIntact` and `AllDeliveredWhenDrained` are stated for behaviours in which
no unreliable message is split. That is a real limit of the code: an unreliable
message that loses a chunk leaves the assembly pending.

## Bounds

* `Modulus` replaces 2^16. It is 9 to 11: smallest values with room for the
  window and the lag on both sides. `FirstIndex` lies just before the wrap, as
  65500 does. With 7 messages over 9 indices starting at 7 the wire index wraps
  while messages are in flight; the proofs cover every modulus.
* `Window` and `Lag` are assumptions about the environment, not bounds of
  the check: the code has no send window, and the comment at `DistanceToIndex`
  hopes that the peers are never 32k messages apart. The model states that hope:
  less than half the index space is in flight, and no datagram is older than
  that. Nothing is claimed beyond it.
* `BehindThreshold` 2 with a window of 4 reaches the branch that closes the
  connection; 4 with a window of 3 shows that it is not reached otherwise.
* `MaxAcks` 1: one acknowledgement in flight, held back as long as TLC likes and
  repeated; the proofs cover any number.
* `ReliabilityLists`: 4 messages with a window of 4 give every shape of a list of
  up to four entries, enough for the ack loop to erase, skip, switch to listed
  indices and stop.
* `MessageSplit`: `CountLimit` 4 replaces 2^15 and `ChunkSize` 2 replaces 1024;
  lengths 1, 3, 5 and 7 are one to four chunks with a partial last one. Three messages
  put each kind before, between and after the chunks of another. `SplitOverflow.cfg`
  has lengths 1 and 7 only, which is enough for its counterexample.
* `ConnectionHandshake`: limits of 2 and 1 clock units keep the order of the
  10 s and 5 s limits; two generations suffice for old and new to be mixed up;
  `Capacity` 2 per direction allows a stale message beside a fresh one.
  `CHECK_DEADLOCK FALSE`, because the generations and the clock are used up.
  The same holds of `MessageSplit`, which stops when its messages are sent.
* `Rendezvous`: each application makes at most two sockets, so every description
  has an older and a newer one to be mistaken for; two faults, with one viewer,
  or two viewers without (`MCInit`): the competition of viewers and the faults are
  explored apart, and the proofs cover them together. `MaxAnswers` is 1: an answer
  may be as late as TLC likes, but the next query waits for it. Two and more, one
  after the other, are covered for `NamesItsViewer` and `PairStays` by the proofs,
  which hold for any number (TLC agrees with 2); for the liveness properties they are
  not, since with 2 the run would take four times as long. A run in which all sockets
  are used up may stop (`CHECK_DEADLOCK FALSE`).
* `ThreadPool`: four tasks, two producers and up to two workers: two workers may
  take, wait and be notified in every order, a batch of `RunOnce` may be followed
  by another, and the proofs cover any number. A destroyed pool stops
  (`CHECK_DEADLOCK FALSE`).
* `TimerController`: waits of 1, 10 and 1 units, callbacks of up to 2, 1 and 1 and a
  granularity of 2, so that sleeps are cut by the granularity, by the front of the
  list and by neither, and one timer is late by its own callback. Lateness is counted
  up to `Overdue`, past every `MaxLate`; nothing compares what lies beyond.
  `CHECK_DEADLOCK FALSE`: a loop that has ended does no more.
* `DeadlockMonitor`: half seconds: the coordinator's waits of 0.5 and 2.5 seconds, the
  limits of 8 and 3 as in the code, a start of up to one second and callbacks of up to
  a half; two faults; tags modulo 4, enough for a new child's tags to meet those of its
  predecessor.
  `CHECK_DEADLOCK FALSE`: memory that a dead process left locked stops everybody.

## Fairness

`ReliableTranscoder!FairSpec`: both peers tick again and again, so queued
messages are sent (weak fairness of `SendAll`: `_UpdateNetworkFlow` clamps the
rate to at least 1 KB/s, so saturation ends) and acknowledgements are made
(strong, since the network may be full); time passes (weak fairness of
`PassTime`); an acknowledgement does not stay in the network for ever
(weak); and what is sent again and again is received at some time (strong, for
each message and for acknowledgements that are up to date), which is the least
one can ask of a network on which anything is to arrive.

`ConnectionHandshake!FairSpec`: time passes, both applications tick (their timers
loop), and no datagram stays in the network for ever. No message is assumed to
arrive: both liveness properties hold when the network loses everything.

`Rendezvous!Fairness`: the timers loop, so each application takes its answers,
pushes and asks again and again; libjuice gathers, connects or fails without
help; what a timeout does by itself happens. All of it is weak fairness of steps
that are not faults. After a fault no pair is claimed to form again: both ends
can go on replacing their sockets in turn, each just after the other asked.

`ThreadPool!FairSpec`: threads run and tasks end (weak fairness of each worker, of
`NotifyOne`, of the destructor), and the timer that calls `RunOnce` comes again.
Nobody has to destroy the pool.

`TimerController!TimerSpec`: the loop takes its steps; it gets the mutex if it is
free again and again (strong fairness of `RunOnce`: other threads hold it only
for an insertion, unless one spins in `RemoveTimer`, which the properties except), and
time passes. Nobody has to add, remove or stop.

`DeadlockMonitor!FairSpec`: both processes run, a pending signal is delivered, the
handler returns when no child remains, a process that was sent SIGTERM ends, and time
passes.

## What is proved

`ReliableTranscoderProofs`, from `ConstantsAssumption` only (any modulus of at
least 2, any first index, any threshold, window and lag up to half the index
space, any number of messages and acknowledgements):

1. *Index arithmetic.* `DistanceIsDifference`: within half the index space
   `DistanceToIndex` of wire indices is the difference of message numbers;
   `WireInjective`: messages less than the index space apart have different
   indices.
2. *Drain loop.* `DrainEndIsFirstMissing`: the loop stops exactly at the first
   message that is not stored. `LeastMissing` gets the witness from
   well-foundedness of `<`, and the pigeonhole bound from cardinalities.
3. *Invariant.* `IInv` is `TypeOK` (with the sender's window), `InOrder`,
   `NoMessageLost`, `NothingStuck`, `StoredWindow` and `AcksTruthful`. None is
   inductive alone. Comparisons are exact only if the receiver is within half the
   index space of the sender (`ReceiverBounds`); that follows because the awaited
   message is still with the sender, which is `NoMessageLost`; which is kept
   because an acknowledgement clears only what the receiver has
   (`AcknowledgedIsReceived`); which needs `AcksTruthful` and exact comparisons.
   One lemma per action, then `Invariance`.
4. *Consequences.* `TypeCorrect`, `DeliveryInOrder`, `NothingIsLost`,
   `DrainIsComplete`, `StoredIsBounded`, `AcksStayTruthful`,
   `NeverClosedInWindow`, and `Refinement`: the specification implements
   `OrderedDelivery`, `RecvExpected` as `Deliver`, `Send` as `Accept`,
   `RecvTooFar` as `Close`, and every other action as a stutter.

Each conjunct of `IInv` is also an invariant of the run `reliable_safety`.
Two assumptions came out of the proof: a window of 0 is excluded (`Send` with an
empty list would exceed it), and the lag bounds acknowledgements as well as
messages.

`ReliabilityListsProofs`, from `ListsAssumption` only (the same constants, as the code
sees them). The mapped state is that of `ReliableTranscoder`, so its theorems are
used through the instance `P`. `LInv` is `Shape` and the mapped `IInv`; `Shape` says
that both lists ascend, that every index is the one of its number (`Wired`), and that
an acknowledgement lists its numbers in ascending order. It needs the mapped `IInv`:
that all numbers compared are within half the index space is `StoredWindow` and the
sender's window, and without it the loops compare across the wrap.

1. *Searches.* `PlaceFound` and `DrainedToGap`: the loops that store and deliver stop
   at the position where the numbers say so, hence `StoreRefines` and `DrainRefines`.
2. *The acknowledgement loop.* `AckPlan` tells from the numbers what becomes of each
   place (`Fates`): up to the cumulative index every other entry is erased, since the
   iterator is advanced after `erase` has already moved it; further on an entry is
   erased if its index is listed, and marked to be sent again if a later one is or if
   it is the first that the last listed index does not reach.
   `RoundInNumbers` reads one round as a comparison of numbers; the loop is `Clearing`,
   then `Comparing`, then `Over`, and `StageNext` takes each round from one to the
   next. `LoopEffect`: after `Rounds` rounds it is over, and the list is what
   `Acknowledged` and `Skipped` of `ReliableTranscoder` say.
3. One lemma per action, then `ListInvariance`, `ListsStaySorted` and
   `ListsRefinement`. With `Refinement` of `ReliableTranscoderProofs`, the lists
   implement `OrderedDelivery`.

`HandshakeProofs`, from `HandshakeAssumption` only (any viewers and any trusted set
among them, any limits, generations and capacity). `MutualAuthentication` relates
states at the two ends, which nothing compares at run time; it holds because of
what is true of every message that is under way, so `IInv` is mostly about these:

1. `Keys`: a viewer gets one key in its life, when it leaves SAYING_HI. So a
   message of its that is encrypted, and all of its data, is of the key it has now
   (`GoodToHost`), however old.
2. `HostSlot`: a host connection that is CONNECTED has accepted a password, and so
   had, when it said so, whatever is under way in that state (`GoodToViewer`).
3. A password that the host can read is therefore of the slot's viewer and of its
   own generation (`HostHalf`); a greeting that a viewer can read in
   CLIENT_AUTHENTICATE_PASSWORD is of a generation that accepted its password
   (`ViewerHalf`); and data has the key of who receives it while CONNECTED.

`ViewerMoves` and `HostMoves` say what a step must satisfy to keep `IInv`; one lemma
per action shows that it does. Then `HandshakeInvariance`, `HandshakeTypeCorrect`,
`OnlyTrustedConnect` and `DataStaysWithKey`.

`RendezvousProofs`, from `RendezvousAssumption` only (any viewers, sockets, faults and
number of answers under way).
`IInv` adds to the types that rows and answers tell of a peer only what that peer
published of itself; so the GUID of an offer and the owner of its description are
the same, which `HostNamesItsViewer` needs. `PairsStayTogether` is an action
property: a step that leaves both sockets and their descriptions keeps the pair
(`PairHolds`); neither end of a pair is doomed (`PairIsNotDoomed`), so what ends a
socket or a video connection counts as a fault; and an answer changes nothing
once a description was taken.

`ThreadPoolProofs`, from `ThreadPoolAssumption` only (any tasks, producers and
workers). `IInv` is `TypeOK`, `EachTaskOnce`, `NoLostWakeup`, `StopIsHeard` and
`Roles`: workers that the pool was not made with stay awake and without a task,
only a pool without workers has a batch or a runner's task, and a pool that is
joining or destroyed has `stop` set and, when destroyed, only workers that ended
over an empty queue. `NoLostWakeup` needs that a worker which ends leaves no task
behind; the refinement needs `Roles` for `Retire` and `EachTaskOnce` for `Submit`
and `Start`. Then `PoolTypeCorrect`, `TasksAreKept`, `NoWakeupIsLost`,
`StopReachesWorkers` and `PoolRefinement`.

`MessageSplitProofs`, from `SplitAssumption` only (any chunk size, lengths, index
space and number of messages). `TypeCorrect` needs nothing else. The other two say of a
behaviour what holds as long as `CountsFit`: the chunk counts of the reliable messages
sent so far are below 2^15, as the 15 bits of `MsgCountOrIndex` ask. `SE_ASSERT` in
`Send` admits one count more, and with it the message is lost (see below):
`AllDeliveredWhenDrained` is false without `CountsFit`, as `AdmittedLengthsArrive` shows,
and `MessagesIntact` is claimed under it only, because the model stops at the copy that
goes astray before it could show anything broken. `IInv` is `TypeOK` and, while nothing
unreliable is split and `CountsFit`, `InOrder`:

1. *Chunks.* `ChunkBounds` and `ChunkFacts`: the chunks of a message lie one behind
   the other and cover it, and only the last may be shorter; `PartsFacts`: what
   `Send` makes of a message, by whether it has one chunk or more.
2. *Places.* `Tracks` gives every part in the queue its place (which message, which
   part), each the one after the part before; `ReceiverAt` ties the place of the
   first to the receiver: it has passed on all messages before, and its assembly
   buffer holds the chunks before. `SendTracks` appends places; `RecvInPlace` shows
   that `Recv` of the part at a place leads to the next one, whether the part is whole,
   an announcement or a chunk, and that no chunk is copied outside the buffer. No step
   needs more than the places of neighbours, so nothing is proved by induction on a
   sequence.
3. *The other kind.* A whole unreliable message comes between two chunks without
   touching the assembly (`RecvUnreliableKeeps`): only control parts do.

Then `MessagesStayIntact` and `NothingLeftBehind`: with the queue empty, the next place
is the first of a message that was not sent yet.

`TimerProofs`, from `TimerAssumption` only (any timers, waits, costs and
granularity; `TotalCost` adds up over disjoint sets). Sorting is known by its contract
(`SortOrders`). `IInv` is:

1. `Consistent`: where the running thread is, what the mutex protects, and that the
   part of the list it has passed holds timers that loop.
2. `SortedAhead`: what the pass has not visited is in order although callbacks move
   the triggers of what it has. This is what the early `break` of `RunOnce` relies on:
   behind a timer that is not due nothing is (`PassEndsKeeps`).
3. `Timely`: a pass took no longer than the callbacks it has run (`PassTime`), and how
   late each timer may be wherever the thread is (`InTime`): a pass starts with
   no timer later than its overrun, the others' callbacks and a sleep, and ends with
   none later than its overrun and the others' callbacks.

A timer that another thread adds while the loop computes its sleep without the mutex
is late by no more than that sleep, because the clamp bounds it (`SleepsABit`). Then
`TimersTyped`, `ListSortedWhenFree` and `TimersPunctual`. The proof corrected the
model: `MaxLate` did not have the `Overrun`, and without it `Punctual` is false as
soon as a callback takes longer than its timer waits, which the values for TLC had
not allowed.

`MonitorProofs`, from `MonitorAssumption`, `TimerAssumption` and `InTheLimit`: the
monitor's limit is longer than a start and two periods of the report, and longer than
the sleep after a restart and one period. A period is the wait, the greatest
lateness and the callback of the report; the code has limits of 8 and 3 seconds
(`SPPApplicationMonitor.cpp:85`, `:96`) against reports every half second, and leaves
the costs of callbacks open, so this is what it asks of them. `MInv` is:

1. `Coordinator`: the invariant of `TimerProofs` for the process under watch, with
   both timers in the list from the start and never late beyond `TimersPunctual`. So
   `NextTag`, the time until the next tag, is bounded whatever the process does
   (`NextTagBound`), and every tick brings it closer (`TickSteps`).
2. `Alarm`: how old the last tag may be when the monitor looks. A child that has
   written none is in its first tag; one whose tag was seen writes the next in time;
   and one whose tag was not seen is one or two tags ahead of the monitor with no time
   passed (`Ahead1`, `Ahead2`), so that the tags differ also where they wrap and
   where a new child's first tags meet the last of its predecessor.
3. `Faultless` and `Waited`: without faults nobody is killed or leaves the memory
   locked; without hangs whoever died is waited for before its successor starts, so
   the handler of SIGCHLD finds no living child.

One lemma per action, then `MonitorTyped`, `NoFalseAlarms` (an action property) and
`CrashesHandled`. They need `InTheLimit`: if it fails, a child that is merely slow is
closed, which may leave the memory locked or the handler in its loop.

The conjuncts of these invariants were invariants of a TLC run first, where TLC can
evaluate them (not the places of `MessageSplitProofs`).

Only model-checked: liveness (`EventuallyDelivered`, `EventuallyCleared`,
`SlotIsReleased`, `HalfOpenIsNoticed`, `EveryTaskRuns`, `DestructorReturns`,
`EveryTimerRuns`, `StopEndsRun`, `FaultIsNoticed`, `FirstViewerConnects`,
`ProblemIsNoticed`), which is out of the prover's reach, and the runs that end in a
violation.

## Disagreements found

* `unreliable_ahead`. "if its ahead process it" (`SPPNetworkMessenger.cpp:481`): the
  arguments of the comparison are exchanged, so messages ahead of the awaited one
  are dropped.
* `split_count_overflow`. "SE_ASSERT(DataLength < MAX_MESSAGE_SIZE)"
  (`SPPNetworkMessenger.cpp:34`) admits lengths of 2^15 chunks, and line 51 stores that
  count in 15 bits, as 0. The receiver then takes each chunk for an announcement, and
  in the end one for a chunk of what is not there: the message never arrives.

Behaviours of the code that the models have, and that a reader should know of,
without a run of their own:

* The server compares a control message with the whole text "Disconnect"
  (`SPPNetworkConnection.cpp:276`), and `CloseDown` always sends a reason with it
  (line 105): the branch that logs "Disconnect Message Received" is never taken, and
  the host keeps the connection until its limit. `SlotIsReleased` shows that the limit
  does free it.
* The loop that clears acknowledged messages erases and then advances once more
  (`SPPNetworkMessenger.cpp:350`), so every second covered message stays until a
  later acknowledgement, where the comment at line 316 speaks of all of them.
  `EventuallyCleared` shows that the list drains in the end.
* `RemoveTimer` advances only by erasing (`SPPHandledTimers.cpp:101`): for any timer
  but the first it spins with the mutex held. Nothing in the repository calls it.
  A `Stop` before `Run` is lost (`SPPHandledTimers.cpp:79`), and so is one that comes
  after the test of the loop when the mutex is held for ever.
* The SIGCHLD handler calls `waitpid` until it fails, and does not return while
  another child lives (`SPPLinuxCore.cpp:65`), perhaps with the semaphore of the
  memory taken, which the report of that child then waits for; it locks a mutex that
  the code it interrupts may hold (line 67).
* A viewer sets `GUIDCONNECTTO` to the empty string when it connects
  (`remoteviewer.cpp:920`) and never again to the host, so after a drop the host is
  not told of it. It also takes the host's description whomever the host names.

## What is not modelled

Beyond the components listed as not modelled:

* *Connection*: the rate control as arithmetic (a connection may be saturated at
  any time), the statistics kept for reports, the layout of headers, encryption
  itself (a message in another key is unreadable), and the reassembly of messages
  from a byte stream, since a datagram holds whole messages.
* *Rendezvous*: the handshake of the coordinator's own connections (a session is
  there or lost as a whole), libjuice (external: gathering, connecting and
  failing), a LAN viewer that takes the host's slot while a NAT socket is being
  negotiated, and the text of SDPs and SQL. The host's second connection over a
  socket whose other end is gone is there for as long as libjuice reports it
  connected.
* *Timers and pool*: the destructor of a TimerController that another thread still
  uses; a TimerHandle that goes away with its timer (`AddTimerHandled` has no
  caller).
* *Monitor*: the variant for Windows, `posix_spawn` that fails, children without
  `-watchdeadlock`.
* *Memory*: the queue of IPC messages, which is sequential under its lock, and the
  allocators, which only tests use.
* *JavaScript*: everything under `Assets/web` is third-party or page layout, but for
  `remotedesktop/simpleStateMachine.js`, thirty lines of a stack of page states. The
  program's own logic is C++, and that is what the modules map.

## Plan

1. Done: the reliable channel and its proofs, the lists, splitting, the handshake
   and its proofs.
2. Done: the rendezvous through the coordinator and its safety proofs; the thread
   pool, its abstract specification and proofs; timers; the monitor over them.
3. `GarbageCollection`: mark and sweep while parents are deleted during the sweep.
4. `BuddyAllocator`, the linear-fit allocator and `BitSetArray`: long sequences of
   calls against a reference definition; no overlap, no loss.
5. `Coroutines`: the scheduler's stack of coroutines that wait on each other.
6. Done: proofs of splitting, of the timers and of the monitor.
7. Done: proofs of the lists, with their loops as first positions and as rounds.

To stay readable, later components share runs where their questions belong
together (for example the allocators), and a run of today that a composed one
subsumes is replaced by it.
