# Verification of corebroker

TLA+ models of corebroker, a TCP message broker: programs ("nodes") connect, log
in with a numeric id, and send JSON messages that name the id they are for. The
modules below are translated from the code under `src/`; TLC checks them on small
instances and TLAPS proves the main safety properties for every instance.
`PROJECT.json` lists the runs, the mutants, the hazards and the source lines each
definition stands for.

## 1. The system

| Component | State | Operations | Modelled |
|---|---|---|---|
| Broker: `TSocketServer`, `TRemoteNode` (`src/common/tnodenet`) | `m_lstNodes`, the route mutex; per node its descriptor number, id, two statuses, message list and mutex | constructor, `start`, `pause`, `stop`; accept loop; per node a thread: login, answer, message loop, `routeMessage`, `EnqueueMsg` | `SocketServer`, `Sockets`, `ServerLifecycle` |
| Client library: `TClientNode`, `TSocketClient` | descriptor, status, id | `connect`, `login`, `sendMessage`, `readMessage` | `Clients`, `FrameReader`, `CanRouter` |
| Messages: `TMessage`, `msgdef.h` | name, from, to, JSON | `toString`, `fromRawData`, `fromFile`, `readValue`, `writeValue` | the first two: `FrameReader`; the others as canrouter uses them: `CanRouter` |
| `exampleclient` | a `TClientNode` | connect, log in, then send and read | `Clients` |
| `canrouter`, `TCan` | a `TClientNode`, a CAN socket, the last frame | main thread: bus to broker; reader thread: broker to bus | `CanRouter`; its login in `Clients` |
| `simpleserver` | a `TSocketServer` | start it, wait for `SS_ERROR` | `ServerLifecycle` |
| `corebroker` (boost::asio) | list of `TNodeClient`s and of their threads; per client a `TNode` | accept loop, one login per connection; no routing | `AsioBroker`, `LoginProtocol` |
| `corebroker_oldcpp` (pthreads) | that of the broker | that of the broker and of a client, in one program | `OldBroker` |
| `TFile` | lines of a file | `fileExists`, `readByLine` | `CanRouter` |
| `TConfigMng`, `memfile` | a JSON table, a file in memory | sequential file reading | no |
| jsoncpp | | vendored | no |

The broker's threads share `m_lstNodes`, the ids and statuses of all nodes, and
the descriptor numbers of the process. `routeMessage` runs in the thread of the
node that read the message: under `m_mutexRoute` it searches the list for the
first node with the destination's id and calls its `EnqueueMsg`, which, under
that node's queue mutex, queues the message and writes it to the node's
descriptor. Clients and broker interact only through the TCP streams.

What makes it hard:

- **Descriptor numbers.** A node stores a number; nodes are never removed from
  the list; the kernel gives a closed number to the next client.
- **Threads start before `start()`.** A node's thread may have finished when the
  accept thread sets its status.
- **Blocking writes under two mutexes.**
- **A stream cut anywhere.** Both reading loops parse the first frame of their
  buffer and clear all of it.
- **Login.** The id is visible to other threads before the answer is sent; the
  client takes the next message for the answer; any message that parses logs in.
- **One process, two threads, one descriptor table.** After the broker is gone
  canrouter's reader reads and closes the old number for ever, while its main
  thread goes on opening `canmessage.json`, which gets that number.
- **Construction.** The server's thread runs before most members exist; `start`,
  `pause`, `stop` and the bind error all assign one variable that it polls.
- **Exceptions in the boost::asio broker.** A client that resets its connection at
  the wrong moment, or one too many, ends the accept loop for everybody.
- **Death.** A write to a reset connection raises SIGPIPE, and a failed login
  answer throws in a thread without a handler; both end the process.

## 2. Modules

| Module | Contents |
|---|---|
| `Sockets` | The kernel (external): connections, queues, the descriptor table, `accept`, `read`, `write`, `close`; arbitrary clients |
| `SocketServer` | The broker: accept thread and node threads; its properties |
| `Clients` | Broker composed with clients that use `TClientNode`; its properties |
| `LossyFifo` | Abstract: what one direction of a connection promises |
| `FrameReader` | Byte stream, sentinels, the two reading loops; refines `LossyFifo` |
| `CanRouter` | canrouter's two threads, the descriptor table, the file, the bus and the broker's end; its properties |
| `ServerLifecycle` | Constructor, life cycle and gateway connection of the server, and its owner; refines `SocketServer` |
| `LoginProtocol` | Abstract: what a login promises |
| `AsioBroker` | Server and clients of `src/corebroker`; refines `LoginProtocol` |
| `OldBroker` | Server and clients of `src/corebroker_oldcpp`, in terms of `Clients` |
| `MCSocketServer`, `MCClients`, `MCOldBroker` | Symmetry sets, the clients' ids and bounds for TLC; the other modules are checked directly |
| `SocketServerProofs`, `DeliveryProofs`, `FrameReaderProofs`, `ClientsProofs`, `CanRouterProofs`, `LifecycleProofs`, `AsioProofs`, `OldBrokerProofs` | Theorems |

**SocketServer.** A step is one thread up to its next lock, system call or access
to shared state. `Accept`, `NodeStart` and `PushBack` are the three statements of
the accept loop; `LoginRead`, `SendLoginAnswer`, `CloseSocket`, `LoopExit`,
`LoopRead` and `PopMessage` (two steps: the unlocked `empty()`, the locked pop) are
`TRemoteNode::operator()`; `RouteLock`,
`RouteVisit` (one list element), `RouteMiss`, `EnqueueMsg` and `WriteData` are
`routeMessage`. `pc[c] = "loop"` with `TH_PAUSE` has no step: the thread sleeps
and looks again. `up` is FALSE once the process has died. `revived` is a history
variable: the nodes whose `TH_STOP` was overwritten. Several properties hold only
without that (`revived = {}`); it is a defect of its own (run `lost_stop`), and a
thread that survives its `close` reads and closes other clients' sockets.

**Sockets.** Frames travel whole, and a read returns one or more of them; of those
the node gets the first or, because of what the reading loops lose, none (see
`FrameReader`). `write` blocks at `SndCap` unread frames. A client that closes
with unread data resets the connection; `ECONNRESET` is reported once, then read
gives 0 and write raises SIGPIPE. `src` and `n` in a message are for the
properties only.

**FrameReader.** A frame is seven pieces, cut where the code can tell the
difference (inside and between the sentinels, at the `{` line, inside the text).
`ReadData(k)` takes any number of pieces up to `BufSize`. `std::string(buffer)`
runs past the bytes read when the buffer is full or was never cleared (`Junk`);
what is behind them is arbitrary, so the loop may then find any frame that is
complete in the buffer, or none. A message whose *content* such bytes change
without making it unparseable is not modelled.

**Clients.** The client follows `connect`, `login` and then `sendMessage` and
`readMessage` for ever, as `exampleclient` does; `Exit` is `canrouter` after a
failed login, or any client being stopped. `readMessage` closes the socket when it
meets the end of the stream (`ClientReadEof`), which happens when a node's thread
whose `TH_STOP` was overwritten has closed another node's number. `ClientIds` is the
set of assignments of ids to the client programs.

**CanRouter.** `Connect` to `StartReader` are `main` up to its loop, where every
`return -1` ends the process; `ReadCan`, `StatFile`, `OpenFile`, `ReadLines`,
`CloseFile`, `SendFrameToNode` and `AnswerOnCan` are one turn of the loop, one
system call each, so that the reader (`ReaderRead`, `ReaderClose`,
`SendMessageToCAN`) can run between any two. `desc` says what each number is.
`forwarded` and `broken` are histories. `stop` is the `m_internalStatus` that no
constructor sets: `getStatus` may return `SC_STOP`, and then the reader never
runs. A `can_frame` keeps what tells frames apart: whether its id and first bytes
are uninitialised, the bus's, or the answer that `main` wrote over them. What is
queued to the broker is a number, since `BrokerRead` takes it all. The file is
read by one `read` and has no sentinels, so that the reader, when it gets the
file's bytes, finds no message in them. A write to the bus may fail (`can_dlc` is
never set). Frames the kernel drops when main is slow are not modelled, nor what
follows when a number is given to a library's own file.

**ServerLifecycle.** `ConstructMembers` to `Initialized` are the constructor after
the thread was started; `WaitInitialized` to `LoopBody` are
`TSocketServer::operator()`, whose turns contain the accept steps of
`SocketServer`; `Start`, `Pause` and `Stop` are the owner's calls, the first
`Start` and `Poll` being `simpleserver`'s main. `RouteToGw` replaces `RouteMiss`:
the gateway is a connection with a login, a send queue of `SndCap` and an end that
may close. `late` and `errorLost` are histories.

**AsioBroker.** The two programs of `src/corebroker`. A connection carries at most
one message each way, and that it arrives in two parts is a choice of the reader.
Every call without an `error_code` may throw: `EndLoop` is the one handler, which
also destroys the acceptor, so that the kernel resets who was waiting (`dropped`).
That the node threads go on using sockets of an `io_service` that was destroyed
there has no modelled effect. The client's own `TNode` thread only sleeps and looks
at the clock: `sendKeepAlive` is never called. When the port is in use the program
stays in `while (1)`.

**OldBroker.** Most of its code is that of `tnodenet` before its translation to
C++11, so its actions name those of `SocketServer` and `Clients` and add what
differs: `OldSendLoginAnswer`, and `toSend`, because its client sends once, if its login
succeeded, and then once per message it has got. Its server starts its thread at the end of the
constructor; the rest of its life is that of `ServerLifecycle`.

Further abstractions: `m_lstNodes.push_back` is atomic, although it is not under
the mutex (with the build's `std::list` a walker sees the new node or not);
in `SocketServer` `accept` never fails and the gateway is a list of messages handed
to it plus the SIGPIPE its write may raise (both are refined in `ServerLifecycle`); `readMessagesFromGw` always returns early, because the gateway is null or
blocking (a non-blocking `TClientNode` does not survive its constructor);
`m_lstMessages` is its length, since its contents are only logged; the worker
thread of `TSocketClient` changes nothing but its own position.

## 3. Runs

| Run | Checks | Result |
|---|---|---|
| `routing` | `TypeOK`, `PairsInOrder` (refinement of `LossyFifo`, for each two clients), `RouteLockReleased`, `ClosedClientThreadEnds` | hold |
| `frames` | `ReadsInOrder` (refinement of `LossyFifo`), `SegmentBounded`, `AlternationLosesNothing` | hold |
| `clients` | `DescriptorOwnership`, `AddressedDelivery`, `LoginAgreement` | hold |
| `lifecycle` | `LifecycleImplementsBroker` (refinement of `SocketServer`'s `Spec`), `ConstructedBeforeUse`, `OneAcceptedAfterStop`, `BindErrorEndsOwner`, `StartTakesEffect`, `StopEndsLoop`, `ConnectedClientAccepted`, `RoutingEnds` | hold |
| `asio` | `ImplementsLogin` (refinement of `LoginProtocol`), `OrderlyClientsServed`, `LoginDecided` | hold |
| `old_broker` | `DescriptorOwnership`, `RouteLockDiscipline`, `DeliveredAtMostOnce`, `MessagesBounded`, `WritesDoNotBlock` | hold |
| `can_router` | `CanSocketKept`, `WholeMessagesOnly`, `ForwardedInOrder`, `FramesForwarded` | hold |
| `misdelivery` | `DeliveredToDestination` | violated |
| `lost_stop` | `DisconnectedNodeEnds` | violated |
| `frames_lost` | `EverythingHandedOver` | violated |
| `broker_stalls` | `RoutingGoesOn` | violated |
| `broadcast` | `EveryNodeGetsCopy` | violated |

What the violated ones show:

- `misdelivery`: client A (id 1) leaves; B connects and gets A's descriptor
  number; a message for 1 finds A's node in the list and is written to B.
- `lost_stop`: a client closes before `n->start()`; `TH_STOP` becomes `TH_START`
  and the thread reads a closed descriptor in a loop that ignores `-1`.
- `frames_lost`: two frames in one read; the second is cleared with the first.
- `broker_stalls`: A's login has set its id; before A's answer is written B's
  thread routes a message to A; A's `login()` takes it for the answer and fails. A,
  not being `NODE_ACCEPTED`, never reads again; the broker's next write to it blocks
  under `m_mutexRoute`, and nobody's messages are routed any more.
- `broadcast`: the comment on `routeMessage` calls it a broadcaster
  (`TSocketServer.cpp:207-211`); the search stops at the first node with the
  destination's id, and the other connected nodes get nothing. The models follow the
  code: that there is one copy is what `DeliveredAtMostOnce` says, and that it goes to a
  node with the right id, `AddressedDelivery`.

`old_broker` is the counterpart of `broker_stalls`: the race is there, but its clients
send only in return for what they got, so that no more frames are ever unread at a
connection than there are clients. A send queue of that size never fills, and no write
waits for the client whose login failed and that never reads (`WritesDoNotBlock`). It
takes that much room: with three clients and queues of one frame the late answer to
such a client stays unread and the next message for it blocks, as in `broker_stalls`.
A client that sends without having got something breaks the bound
(`OldReadMessageUnchecked`), and so does a broker that repeats the answer to a login
until it is read (`OldSendLoginAnswerRepeats`).

`StartTakesEffect` excepts one case, which is what the code does and nothing in the
repository denies: after a `stop()` that ended the accept loop the thread is gone, and a
further `start()` has no effect.

What `can_router` shows: the reader's closes are harmless, for a reason that is not
in the code. The bus's socket was opened before the reader ran, so the number
that is closed is free or the template file's; and a file read under that number
may be incomplete, but then the connection is gone and nobody gets the message.
Starting the reader one statement earlier breaks it (mutant of `Login`). In order
and once (`ForwardedInOrder`) holds because `main` overwrites the frame it sent:
what it sends again, when it read nothing, has the id 0xAA.

More comments the code contradicts, for which there is no run: "WAIT FOR LOGIN"
(`TRemoteNode.cpp:105`) ends with any message that parses, whose sender is accepted
under id 0; `tcan.h:23` says "Blocks until a message is read", but `openCAN` sets `O_NONBLOCK`
(`tcan.cpp:53`); `sendMessageToCAN` is "Given a TMessage it's sent through CAN"
(canrouter's `main.cpp:37`), but a payload under `data0` to `data7` goes out as
zeros, because the keys are built from a `uint8_t`; "Join all threads"
(`TSocketServer.cpp:204`) joins none, so that the server's destructor ends the
process; and "WAIT FOR RESPONSE" (`src/corebroker/src/TNode.cpp:67`) waits for ever
when the node was rejected, since nothing is sent then. The last two are allowed for
in `BindErrorEndsOwner` and `LoginDecided`.

**Bounds.** `misdelivery` and `clients` have three connections for two
numbers, the least with which a number is reused while another client is sending.
A node drops what its client sends to its own id, so that with `clients`' two ids
(`OneDiffers`: two clients have id 1, one has id 2) a message for 1 is routed to
another client, and with destination 0 to one that has not logged in; three frames
are two logins and a message. `routing` has two clients, one id and three frames, enough
for two messages after the one that is taken for a login, and for two logins and a
message that blocks; destination 0 meets nodes before their login and `DefaultGw` the
search that fails. It has no symmetry, because of the liveness properties.
`SndCap = 1` makes every second write block. `broadcast` has three logins and a message.
`frames` has four frames of
seven pieces and a buffer of nine, so that a read can cover a frame and the
beginning of the next, and fill the buffer. `can_router` has three numbers (the
connection, the bus and the file need one each), two frames and two messages,
enough for a change of order, and a send queue of one, so that main blocks. `MaxSend`
and `MaxFrames` bound what is sent; when it is used up the system waits, hence
`CHECK_DEADLOCK FALSE`. `lifecycle` has one client with a login and two messages, which
go to the gateway, the second of them blocking, and two calls after the first
`start()`, so that a start can follow a stop; `asio` has three clients and descriptors
for two, so that both ways of ending the accept loop are met with clients in every
stage; `old_broker` has three clients with two ids, all messages being for one of them
(`SharedId`). If two clients have that id, the search passes two nodes that match; if
one has, the two others route at the same time, and send to a client whose login may
have failed. Six frames are three logins and three messages, and the send queues hold
three frames, the least for which `WritesDoNotBlock` says something. It and `broadcast`
are bounded to one client that leaves (`OneGone`). `RouteLockDiscipline` and
`DeliveredAtMostOnce` are checked here, where three clients are within reach: the
routing code of the two brokers is the same, and the theorems are about both.

**Fairness.** Weak fairness of each thread (the operating system schedules them;
`std::mutex` and blocking calls are guards). In `routing` each connected client also
reads what it is sent: without that `RouteLockReleased` is false, as
`broker_stalls` shows for the client library as it is, where the fairness is that
of the programs' threads only. In `can_router` both threads are scheduled, and a
broker that stays connected reads; the broker may leave instead. In `lifecycle` the
gateway, itself a broker, reads while it is connected, but it need not answer the
login; the owner makes its first call, and further ones or not. In `asio` the threads
of all programs are scheduled, and nothing is assumed of the clients beyond their code.

## 4. Proofs

All are for every value of the constants that satisfies the named assumptions
`SocketsAssumption`, `ServerAssumption`, `ClientsAssumption`, `LifecycleAssumption`,
`FrameAssumption`, `CanAssumption`, `AsioAssumption` and `OldAssumption`. The sets of connections may be
finite or infinite and the bounds are arbitrary; only `OldBroker`, where clients are
counted, asks for finitely many of them (`OldAssumption`). `CanAssumption` gives
canrouter's process at least three descriptor numbers, what it has open at most.

| Theorem | States | Invariant |
|---|---|---|
| `TypeCorrect` | `[]TypeOK` | `TypeInv`: `TypeOK`; `Struct`, which says where a thread is when its list position, message and descriptor are meaningful; and `PopOK`: between the unlocked `empty()` and the pop the queue stays nonempty, since only its own thread pops it |
| `DescriptorsOwned` | `[]DescriptorOwnership` | `OwnInv`: adds that a waiting connection is in the backlog once and has no node or descriptor yet (`BacklogOK`), and what the statuses of a node say about its position (`NodesOK`); without these `accept` could give one connection two numbers |
| `LocksHeldAsTaken` | `[]RouteLockDiscipline` | itself, with `TypeInv` |
| `Addressed` | `[]AddressedDelivery` | `AddrInv`: adds that ids are set once, by login (`IdOK`), and that between search and write the node found still has the id searched for, or had 0 (`FoundOK`) |
| `AtMostOnce` | `[]DeliveredAtMostOnce` | `OnceInv`: the numbers of the frames in a client's queue increase (`QueuesOK`); what a thread carries was taken from the front of a queue, is carried by no other thread and is written nowhere (`CarriedOK`); what is written, to a client or the gateway, was taken from a queue (`WrittenOK`) |
| `PairsKeepOrder` | `Spec => PairsInOrder`, the refinement of `LossyFifo` for each two clients | `OrderInv`: until a `TH_STOP` is overwritten a thread carries its own client's message, which is newer than all of that client's that are written; so a write appends something newer than the last (`LastWritten`, `LastStep`) and each step is one of every pair's FIFO or none (`PairStep`) |
| `ReadersImplementFifo` | `Spec => Fifo!FifoSpec` | `OrderInv`: what is in the buffer is later than `last` and in stream order |
| `AlternationSafe` | `[]AlternationLosesNothing` | `AlternationInv`: without mixing or overrun the buffer is the unfinished frame's beginning |
| `SegmentsBounded` | `[]SegmentBounded` | `BoundInv`: without overrun the buffer is a contiguous stretch of the stream that lacks a sentinel |
| `BrokerSafeAmongClients` | the four safety invariants and `PairsInOrder` under `ClientsSpec` | from the above: each client step is a `Client` step of `SocketServer` (`ClientsBroker`) |
| `LoginsAgree` | `[]LoginAgreement` | `AgreeInv`: what a client that is not accepted has queued is its login, with its own id (`HonestOK`); the node has the client's id before the answer is written, and so before the client takes itself for accepted (`AgreeOK`) |
| `BusSocketKept`, `BrokerGetsWholeMessages` | `[]CanSocketKept`, `[]WholeMessagesOnly` | `DescInv`: which numbers are valid where (`NumbersOK`), that the connection's is never the bus's (`SharingOK`), and that while the connection is open main's file has a number of its own and is read whole (`FileOK`) |
| `OrderKept` | `[]ForwardedInOrder` | `ToBrokerOK`, `ToCanOK`: what was sent is older than what is carried, and that is older than what is unread |
| `LifecycleRefines`, `ServerSafe` | `LifecycleSpec => Spec`, and the four safety invariants and `PairsInOrder` with it | `GwInv`: only a server that was given a gateway has one connected, so that what `RouteToGw` does is allowed by `RouteMiss` |
| `MembersConstructedFirst` | `[]ConstructedBeforeUse` | `ConstructionInv`: until `m_initialized` is set the thread is in its first wait, and until it leaves that there is no node, hence no thread that could use a member |
| `StopAdmitsOne` | `[]OneAcceptedAfterStop` | `LateInv`: a client accepted after `stop()` was accepted in a turn that had begun before, and no other call came between |
| `LoginRefines` | `AsioBroker`'s `Spec => LoginSpec` | `StageInv`: a client is unconnected, waiting, being accepted or has its thread, never two of these, so that the provisional id cannot overwrite that of a login; `LoginInv`: what each stage of a login has established |
| `OrderlyServed` | `[]OrderlyClientsServed` | `CauseInv`: each end of the loop has its cause, and accepted connections never exceed the descriptors |
| `OldBrokerSafe` | the broker's four safety invariants and `LoginAgreement` under `OldSpec` | `SafeInv`: the invariants above. Every step of `OldBroker` is a step of `Clients` or stutters (`OldStep`), but for a login answer that could not be sent (`AnswerNotSent`), which keeps each of them (`SafeNotSent`) |
| `OldMessagesBounded` | `[]MessagesBounded` | `BoundInv`: the set `Pot` has no more members than there are clients. It holds the messages under way, every unread frame, login answers included, because each may make a client send, and the connections that are yet to be answered. Each step takes members away or exchanges one for another (`PotExchanges`), so that it never grows |
| `OldWritesDoNotBlock` | `[]WritesDoNotBlock` | `SafeInv` and `BoundInv`: a thread about to write has a member of `Pot` of its own, its message or the login it answers, besides the frames unread at the connection it writes to (`UnreadBounded`) |

`OldBroker` does not refine `Clients`: after an answer that could not be sent its
thread goes on, where in `tnodenet` an exception ends the process. So its safety is
proved with the lemmas of the other proofs and not inherited from their theorems.

The inductive invariants were checked by TLC on the instances of the runs before
they were proved.

Only model-checked are the liveness properties, because temporal reasoning under
fairness and `ENABLED` are out of the prover's reach: `RouteLockReleased`,
`ClosedClientThreadEnds`, `FramesForwarded`, `BindErrorEndsOwner`,
`StartTakesEffect`, `StopEndsLoop`, `ConnectedClientAccepted`, `RoutingEnds`
and `LoginDecided`. Every safety property that a run finds to hold
is also proved.

## 5. Plan

The code that can be modelled has been, and its safety properties are proved. What
could follow:

1. `Clients` as a refinement of `LoginProtocol`, as `AsioBroker` is: its `login` can
   fail by taking a routed message for the answer, which the abstract one would have
   to allow.
2. Lemmas shared by `DeliveryProofs` and `OldBrokerProofs` on what a step adds to the
   wires, which both derive on their own.

## 6. Not modelled

- jsoncpp: third-party code, seven copies of which (source and headers) are about
  four fifths of the repository's lines. What the programs rely on is whether a text
  parses and the fields it then has, and that is a choice in the models.
- `TConfigMng` (several copies), `memfile`, and the writing half of `TFile`:
  sequential file access whose results decide nothing; `simpleserver` constructs a
  `TConfigMng` and does not use it, `corebroker` overwrites the port it read.
- `new_connection` in `TSocketServer.cpp`, `EnqueueMsg` and `sendKeepAlive` in
  `src/corebroker`, `setNodeId` of a server, and `pause` and `stop` of a
  `TRemoteNode`: nothing calls them.
- The non-blocking mode of `TClientNode`: its constructor ends the process.
- Throughout, logging, sleeps (a sleeping thread takes its next step later) and the
  text of messages.
