# GEF_engine: TLA+ models, checks and proofs

This directory models the engine below its renderer: the session between a game server
and its clients, the peers of a mesh with the replication of their entities, the sockets and
the byte formats under both, the simulation thread with its subsystem threads, the clocks that
drive it, and the platformer that runs on it. Paths below are relative to the repository.

## 1. Inventory

| Component | Source | State | Operations | Talks to |
|---|---|---|---|---|
| sessionServer | `src/networking/sessionServer.cpp` | client map, retired slots, roster log and queue, departures, newest states, inbox, per-slot outbox and sequence numbers, snapshot version | join and update handlers, watchdog, start, stop, send, broadcast, drains, publishScene, applyClientStates | responseHandler per client; sceneReplicator; the game's threads, through one mutex |
| sessionClient | `src/networking/sessionClient.cpp` | id, port, outbox, inbox, roster version, pending state, newest snapshot | join with retries, start, update loop, leave, send, submitScene, drains | requestHandler; the game's threads, through one mutex |
| requestHandler, connectionManager | `src/networking/requestHandler.cpp` | a REQ socket | send, receive with timeout, reconnect | ZeroMQ |
| responseHandler | `src/networking/responseHandler.cpp`, `include/engine/networking/responseHandler.hpp` | a REP socket, stop flag | receive-handle-reply loop | ZeroMQ |
| session protocol | `src/networking/sessionProtocol.hpp` | none | records, acknowledgement and accept rules | both sides |
| SimulationThread | `src/simulationThread.cpp` | timeline mutex, flags, failure, task queue, keyboard and frame mailboxes, one stepper per thread | start, stop, advanceFrame, post, pause, the two frame loops | Timeline, LatestValue, ThreadSafeQueue |
| Timeline, Stepper | `src/timeline.cpp` | banked ticks, remainder, rate, pause; consumed, target, budget | now, rate and speed changes, pause; beginFrame, step | each other |
| LatestValue, ThreadSafeQueue | `include/engine/threading/` | one slot; a bounded deque | publish, take; push, pop, drain | any thread |
| sceneReplicator | `src/networking/sceneReplicator.cpp` | the maps from NetId to entity and back, extras, ids received per source | track, untrack, bind, apply, dropOwner, encode | Scene |
| peerSession, publisher, subscriber | `src/networking/` | roster, one subscriber per peer | connect, publish, applyUpdates, leave | sessionClient, ZeroMQ topics |
| byte codec | `src/networking/byteCodec.hpp`, `sessionProtocol.hpp`, `sceneReplicator.cpp` | a position and a flag per reader | put, get; encode, decode | session, peers |
| Scene | `src/entity.cpp`, `include/engine/entity.hpp` | component stores | create, destroy, add, remove, get | everything |
| physics | `src/physics.cpp` | gravity | step, collision tests | Scene |
| input | `src/keyboardState.cpp`, `src/inputHandler.cpp` | the pressed scancodes | capture, isKeyPressed, justPressed | SDL |
| multithread_demo | `examples/multithread_demo/main.cpp` | the game of four threads | main, onTick, world, fakeNetThread | SimulationThread, queues, physics, input |
| networking_demo | `examples/networking_demo/` | none | a client and a server for each kind of request, and for topics | requestHandler, responseHandler, publisher, subscriber |
| animation, renderer, window, log, benchmarks | `src/`, `bench/` | | | |

What is hard in them:

* **Threads and ownership** (sessionServer): the slot of a client, which owns a
  running thread, moves between four containers under the control of the join thread,
  its own thread, the watchdog and the owner in `stop()`.
* **Lost, late and repeated messages** (session): a request whose reply timed out may
  still be handled, after newer ones, and even by another client's handler, because
  ephemeral ports are reused.
* **Retry and timeout**: a join is retried with a token, a scene state is put back when
  its exchange fails, the server times clients out that may still be talking.
* **Interleaving with a lock held across a callback** (SimulationThread): a pause must
  wait for the callbacks in progress and see none after.
* **Failure of one thread among many**: the first exception must stop all threads and
  must be the one that is reported.
* **Two maps and many writers** (sceneReplicator): the maps between ids and entities are
  changed by the game, by the server's snapshots, by those of every peer and by departures,
  and the game destroys entities without telling the replicator.
* **A call that waits for threads** (peerSession): `applyUpdates()` and `leave()` join
  listener threads that come and go with the roster, and may be called in orders the
  documents say little about.
* **Sockets that threads share** (requestHandler, publisher): one lock must keep requests
  with their replies and frames with their messages, whatever is lost or late.
* **Bytes that are not what they should be**: a packet that was cut, that goes on, or that
  is of another version must be refused before it changes anything.
* **State that is sampled** (multithread_demo): a keyboard, a platform position and a pause
  each cross threads through a mailbox that forgets, so that edges may be seen twice or
  never.
* **Boundaries**: a queue at its capacity, running out of client ids, a simulation further
  behind than its step limit.

What makes each correct is what its properties say; section 4 lists them by run, and
`PROJECT.json` lists the hazards line by line.

## 2. Modules

| Module | Models |
|---|---|
| `SessionProtocol` | the records on the wire and the rules both sides share: what an acknowledgement pops, which messages of a list are new, what the roster is after some roster events |
| `SessionServer` | every operation of sessionServer as an action; no specification of its own |
| `ServerAlone` | a server in an arbitrary environment: any join, update or leave may arrive at any time. Specification, type invariant, thread, roster and scene properties |
| `ServerAloneProofs` | theorems about `ServerAlone` |
| `SessionClient` | every operation of sessionClient as an action |
| `Session` | server and clients composed over request sockets that time out; the promises of the protocol |
| `SessionProofs` | theorems about `Session` |
| `Timeline` | the clock arithmetic: a root timeline on a counter and one derived from it, with every change of rate, speed and pause |
| `TimelineProofs` | theorems about `Timeline` |
| `Stepper` | Stepper as functions on records |
| `SimulationThread` | the sim thread, the subsystem threads and their owner |
| `SimulationThreadProofs` | theorems about `SimulationThread` |
| `SceneReplicator` | sceneReplicator, with the entities of its Scene, as functions on a record |
| `SceneReplicatorProofs` | what those functions preserve, one lemma for each |
| `PeerSession` | one peer: its calls, its listener threads, its replicator, in an arbitrary environment of server, peers and game |
| `PeerSessionProofs` | theorems about `PeerSession` |
| `Roster` | abstract: a set of members that changes by a join or by some leaving together, and the history of it |
| `Channel` | abstract: messages that arrive in order, once each |
| `ByteCodec` | byteWriter and byteReader, and records put and got by the list of their fields |
| `SessionCodec` | the layouts of the session's packets, with their encoders and decoders |
| `Scene` | the component stores of a Scene, on the worlds of `SceneReplicator` |
| `SceneCodec` | a snapshot's two formats, binary and JSON |
| `Replication` | encode and apply with components and extra bytes, between the games of two clients |
| `RequestReply` | a requestHandler shared by threads and the responseHandler it talks to |
| `PubSub` | a publisher shared by threads and a subscriber |
| `Networking` | the last three together, as the programs of networking_demo and a session use them |
| `NetworkingProofs` | theorems about `Networking` |
| `ThreadSafeQueue`, `LatestValue` | the two containers, as functions |
| `Keyboard` | KeyboardState and InputHandler, as functions |
| `Physics` | a step of the physics and the collision tests, as functions on a Scene |
| `MultithreadDemo` | the platformer: main, sim, world and net threads |
| `MultithreadDemoProofs` | theorems about `MultithreadDemo` |
| `MC...` | the finite values the `.cfg` files substitute for constants |

`SessionServer` only defines steps, so that the same definitions run against an
arbitrary environment (`ServerAlone`) and against real clients (`Session`). The first
asks less of its environment, so what it shows holds with any clients at all. The
second has what needs both sides.

Two modules are abstract specifications, which the detailed ones implement. `ServerAlone`
implements `Roster` with the client map as members, the roster log as history and "serving"
as open (`RosterIsKept`). `Session` implements `Channel` once in each direction
(`MessagesUseChannels`): what was sent is what the sender numbered, the inbox is what the
receiver accepted and its application did not take yet. Lost exchanges, repeated messages,
acknowledgements and outboxes are all hidden by the mapping.

A definition whose name ends in `_Something` under a comment that starts with "Slip:"
is not part of any specification: it is the definition that follows it with a mistake in
it, of the kind a change to the code could make. A property is only kept here if putting
such a slip in place of the real definition breaks it in the run that checks it.
`PROJECT.json` ("mutants") pairs them.

### How the models correspond to the code

*Session.* A step is one critical section of the mutex. Receiving a request, handling it
and sending the reply touch no other shared state than the handler's critical section
does, so they are one step (`Serve`). The members of `impl` keep their names: `clients`,
`retired`, `rosterLog`, `departed`, `states` and so on; a slot's thread and its
`responseHandler`'s stop flag are `thread[id]` and `stopFlag[id]`.

* Messages are numbered bodies; a queue with sequence numbers is a set of records, since
  the numbers carry the order.
* The inbox is kept per client id: the code's single queue interleaves clients, and no
  property is about that order.
* A lost request is one that is never handled; a lost reply is one whose socket was
  replaced before it was taken. A late request stays in `requests` until it is handled,
  by whichever slot is then bound to its port. Sockets are numbered for as long as they
  have a request in flight only.
* Time is abstract: with "timeout" among the `Calls` the watchdog may at any scan find any
  set of clients silent for too long (`WatchdogScan(silent)`); a receive may time out
  whenever no reply has come. Heartbeat, polling and `pollRequested` only decide how soon
  an exchange starts; the model may start one at any time.
* A client's port is free again when its slot is destroyed, which is when its thread has
  been joined.
* `stop()` joins slots in the order of their ids, as it does by iterating over them.

*SimulationThread.* One program counter per thread. The exclusive section of
`timelineMutex_` (posted tasks) is one step that waits until no thread is inside its
callback, the one shared section that spans several steps. `onTick` runs without the lock.

* The timeline is its tick count. It advances by itself while not paused, at any rate:
  the rate is left open, so `setSpeed()` is a task without effect.
* `advanceFrame()` runs the same frame steps with `owner = "advancing"`: each thread's
  counter then stands for the owner running that frame, first the subsystems and then the
  sim. An exception ends the call instead of going to `recordFailure`.
* A batch of tasks runs in one step, up to the first that throws: it runs under one
  exclusive lock.
* The scene and what callbacks do with the keyboard are left out: a frame is its tick and
  pause status, and of the keyboards only the mailbox is kept.
* What a frame keeps in locals (the drained tasks, the count of its steps, whether it is the
  first) is reset when the frame ends or throws (`LocalsGone`).

*Timelines.* `root` and `derived` are the members of the two; `children` is `children_` of
the root. A call is one step, as all are made by one thread (or under `timelineMutex_`).

* The source of a timeline is read through `SourceNow`, which for a derived one is `now()` of
  the root, as in `sourceNow()`.
* Integers have no width, and the rounding of a speed to a fraction is left out: a speed is a
  fraction in lowest terms. Calls that refuse their argument change nothing, but a timeline
  derived with a refused rate takes that of its source.
* `exact` is a history variable: the time each timeline should have counted, in parts of a
  tick that every fraction of the instance divides, so that it is never rounded. `changes`
  counts the computations of a rate, the only ones that may round time away.

*Replicator and peers.* A "world" is the record of what one process has: `entities` and
`netIds` for `entities_` and `netIds_`, `nextLocal`, `receivedFrom`, and of the Scene the
`live` entities and the `nextEntity` handle. A NetId is the pair of its owner and its local
number. Each operation of sceneReplicator is a function from world to world; the game's
actions and the steps of `applyUpdates()` apply them.

* A snapshot is the set of its ids. Components and extra bytes are copied as they are and
  left out. The order of the records decides which entity gets which handle
  (`Numberings`). A malformed snapshot is rejected before anything changes, which is the same
  as an empty mailbox.
* `applyUpdates()` is one step for each roster event, one for the server's snapshot and one
  for each peer in the order of the map; a departure whose peer has a listener takes two, as
  `disconnect()` raises the flag and then waits.
* A `LatestValue` is full or empty; which of the states its sender published is in it is
  chosen when it is taken. This also covers every loss and delay of a topic.
* The environment is free: the server may send any ids, those of this peer included (it may
  bind and relay what a client submits), and a peer any of its own. Its roster
  events come in order, and an id joins once and leaves once, which is what `ServerAlone` and
  `session_clients` show of the server.
* A copy is an entity that `apply()` created and the game did not untrack, bind or destroy
  since. The history variable `copies` holds them, so that what must be cleaned up can be
  told from what the game made its own.

*Packets.* A packet is a sequence of bytes; each scalar of more than one byte takes two, the
least that can be cut in the middle. A reader is a record of its input, position, flag and the
fields read so far; as in the code a get that does not fit clears the flag, and whoever decodes
asks for `ok() && atEnd()` (`Whole`) at the end. A layout is the list of a record's fields, so
that one encoder and one decoder serve all records. A JSON document is a record behind an
opening brace; no cut or longer text parses as one.

*Sockets.* `RequestReply` has one step from `send()` taking the mutex to its wait, one for the
reply, one for a timeout with its `reconnect()`. A late request goes on in `requests` under the
number of the socket it came from; a reply to a socket that was replaced has nowhere to go.
`run()` is left in two steps because its guard clears `stop_` and then `running_`, and a second
thread may enter between two of them. `pairing` chooses the overloads of `send()` and `run()`:
text, bytes, a fixed-size structure, and the two handlers of sessionServer on their packets, of
which only what they make of the packet is kept. `PubSub` sends frame by frame under the
publisher's mutex. The application's thread connects and disconnects the subscriber between
calls of `listen()`; while it is not connected, or its queue is full, messages are lost.

*Components.* `Scene` adds transforms and the stores of five component kinds to a world;
`Replication` gives the records of a snapshot their contents and applies them to the copies.
`SceneReplicator` has which entities that creates and destroys, the maps and the lists, and
`Replication` uses its functions. The sender's game adds, edits, destroys and untracks entities;
the receiver's, between any two snapshots, creates entities of its own, labels, retextures, destroys
and untracks what is in its scene, binds any of it to an id of the sender's or of its own, and sets
the extra bytes of any such id, shown or not. Scenes and pulses are published by different threads,
and what arrives under the topic may also be damaged.

*The platformer.* One program counter per thread. A frame of the sim begins in one step
(tasks, keyboard, clock), as anything that reaches a mailbox meanwhile could as well come
after it, and `SimulationThread` has the steps inside. `onTick` is one step per tick, a
callback of world is one step under the lock, and `waitPop` is a wait that a push or its timeout
ends. Physics is in integers, in units of 1/180 pixel and a sixtieth of a second: in these the
program's own lengths, speeds and gravity (49 units per tick and tick) are whole, so that a jump
of the model is the jump of the program but for the rounding of floats. The scene, the queue, the mailboxes, the keyboards and the steppers are the functions of their own
modules. `pressed`, `pauseShown` and `ticksRun` are history variables.

## 3. Fairness

* `ServerAlone`: each network thread goes on running (weak fairness on its steps), and the
  owner goes on with a `stop()` it has begun. Nothing makes it call `stop()`, and no
  request is ever guaranteed to arrive.
* `Session`: the update thread and a `leave()` in progress go on; a receive times out
  (`ZMQ_RCVTIMEO`). Two assumptions are about the network and are strong: a client that
  sends again and again is handled again and again *in time* (`ServeCurrent`), and takes
  such replies again and again. Without them nothing can be promised; with them alone a
  message may still be resent any number of times. Nothing keeps the watchdog from timing
  a client out, so the properties allow for that.
* `SimulationThread`: every thread goes on and its callbacks return. That a posted task
  runs also needs that the exclusive lock is granted: weak fairness on the sim's step is
  enough in the model because time there is bounded, so that callbacks end. With subsystems
  that are always inside callbacks, a `shared_mutex` that prefers readers could starve the
  tasks; that depends on the library and is not modelled (section 6).
* `Timeline`: none. Its properties are about what a step may do; nothing need happen.
* `PeerSession`: the game's thread goes on with the call it is in, and a listener that was
  told to stop ends, as its receive times out every `kPollMs` (50 ms) and the loop then looks
  at the flag. Nothing makes the game call anything, or anything arrive.

* `Networking`: a thread inside `run()` is scheduled and its wait for a request ends
  (`setReceiveTimeout()` is set before `run()`). Nothing makes anyone send, call `run()` or call
  `stop()`.
* `MultithreadDemo`: each of the four threads runs, which for `waitPop` includes its timeout.
  Nothing lets time pass or presses a key; the user closes the window after `MaxPolls`
  iterations, which is the bound.

## 4. Runs

| Run | Instance | Shows |
|---|---|---|
| `server` | 2 clients, 2 ports, 2 ids, any update or leave under any id, every call; a message each way and a snapshot while only one client joined | thread ownership, ghosts, one id per client; the server implements `Roster`; `stop()` returns and retired threads are joined |
| `session_messages` | 1 client, 2 sockets, 2 messages each way, timeouts, leaves | both directions implement `Channel`: in order, without gap or repetition; nothing forgotten |
| `session_clients` | 2 clients, 2 ports, 1 socket each, timeouts, leaves | what clients drain adds up to a past roster; late requests at a reused port retire nobody else |
| `session_liveness` | 1 client, 1 message each way, 2 states | messages and the newest state arrive; `leave()` returns |
| `session_stale_state` | 1 client, 2 states | *violation*: a late request puts an older state over a newer one |
| `session_lost_snapshot` | 1 client, 1 snapshot | *violation*: a snapshot whose reply was lost is never sent again |
| `simulation` | 1 subsystem, step limit 1, 2 ticks, 2 posted tasks out of a toggle of the pause and a task that throws, 2 starts, one key, every callback may throw | pause, budget, ticks, frames, failures, advanceFrame; calls return, failures stop all threads, tasks run |
| `timeline` | counter up to 4 at 2 units a second, rates 3 and 4, speeds 1/2 and 3/2, 3 changes | time is monotonic and continuous, and kept up to rounding |
| `peers` | 1 other peer, 1 own and 1 foreign id, 3 entities, every call of the game, any snapshots | maps, own entities, clean-up, listeners; calls return |
| `peer_after_leave` | the same with 1 entity, and `applyUpdates()` called after `leave()` | *violation*: the session is destroyed with a listener running |
| `networking` | 2 threads that send, 2 that may call `run()`, 1 timeout, every pairing, every packet whole, cut anywhere or a byte longer; or 2 publishers, 2 listeners, 2 messages of queue, 2 publications of a scene of up to 2 entities in either format, 2 edits of either game | answers belong to their requests, damaged packets and snapshots are refused and change nothing, updates are whole, copies mirror the sender, what is no longer shown leaves nothing behind, `stop()` is heeded |
| `demo` | 2 ticks in one frame or two, a step limit of 2, a queue of 1, 3 polls of main, each with no key down or Space and P together | every tick is reported or counted as dropped, the player stands on blocks, one press jumps once, a paused game stands still, main returns |

Why these bounds reach the interesting cases. Two ids let a slot be retired while another
joins, is served and is stopped, and the second client may be given the port of the first
while a request of the first to that port is in flight. Two sockets per client let one old request be in flight beside the current one,
which is the least that makes a late request overtake; a second old one only repeats what
the first does. Two messages are the least that can arrive out of order or be acknowledged
in part. A limit of one step and two ticks put a frame behind by more than its limit. Two
tasks make a pause and an unpause, in one batch or in two. Two threads are enough to hold
a callback against a pause and a failure against another thread; the theorems of section 5
hold for any number. Rates 3 and 4 on a counter of 2 units a second with speeds of 1/2 and
3/2 make fractions with denominators up to 12, so that remainders are banked, rescaled and
rounded; three changes let a rounding be followed by another on either side of it. Two starts make a restart, or a
frame by hand after a failure. In `peers` an own id and a foreign one with three handles are
enough for one id to move between two entities and one entity between two ids, and for a
destroyed entity to be created again; the foreign id reaches the peer from two sources, its
owner and the server. The theorems hold for any number of peers, ids and entities.
In `networking` one timeout leaves an old request behind a new one, on a new socket; two
senders and two callers of `run()` are the least that share a lock and a guard; the packets are
cut at every byte. The first entity has extra bytes from the start, so that two edits are enough
for the receiver's game to destroy its copy or bind it away, which leaves the bytes behind, and for
the sender to stop showing it; they also let a component be added and taken away. Two publications let one be lost and the other heard, with the
pulse of a second thread between their frames. A queue of two messages fills. In `demo` a
frame of two ticks repeats one keyboard, three polls press, hold and release a key, and
a queue of one drops a state at the second tick. A queue of one shows the order of what is received
but not of what waits, and with as many steps as ticks no stepper tick is dropped: any capacity, any
keys and any backlog are the theorems' part (`TicksReported`, `OneJump`, `PauseHolds`). Two ticks are enough to fall, land on the floor and
jump off it, since the level is that of the program but for the start, which is a hair above the
floor instead of 136 pixels. Falls from further up, jumps to their end, runs off the edge and pushes
at its side are the theorem's part (`BlocksHold`); random walks of TLC over thousands of ticks
agreed with its invariant.

In `server` messages and snapshots are there only while one client has joined (the constraint
`MCOneClientTalks`): none of its properties is about them, and they would multiply the threads'
interleavings; `Session` has them with real clients. Its liveness properties are checked on the
graph within the constraint.

Symmetry is used between clients and between ports, in runs without liveness properties:
both are model values there and no definition tells them apart.

Deadlock checking is off in the session runs because sessions end there: every client has
left, every bound is used up and nothing is in flight. It is off in the peer
runs because nothing happens after the session is destroyed, in `networking` because nobody has
to go on sending or calling `run()`, and in `demo` because main returns. It is on elsewhere.

`FrameIsCurrent` is stated for the first start only. After a failed first frame a restart
has a stepper already, so the code does not publish a first frame again.

### Disagreements between code and documents

* `AppliesNewestState` (`session_stale_state`): `handleUpdate` stores whatever state the
  request it handles carries, without comparing ticks. The header says each client's
  *newest* submitted state is applied.
* `NewestSnapshotArrives` (`session_lost_snapshot`): `sentSnapshotVersion` is recorded when
  the snapshot is put in a reply. A comment says that after a lost reply the next exchange
  carries a newer one; when nothing newer is published none does.
* `NoListenerLeft` (`peer_after_leave`): `leave()` disconnects every peer once and a second
  call returns at once. Roster events that arrived late stay queued, an `applyUpdates()` after
  `leave()` connects to the peers they name, and the destructor's `leave()` does nothing more:
  the slot is destroyed with a joinable thread, which terminates the process. The header says
  that the destructor leaves and that leaving disconnects every peer. In `peers`, where
  `applyUpdates()` is not called after `leave()`, the same property holds, and is proved.

Two more were met while reading and have no run here. `handleJoin` looks for a token among
the connected clients only, so a join that is repeated after its first id was timed out takes
a second id (`sessionClient.hpp:35` says that retries get the same one). A subsystem discards
its due ticks only if it sees the timeline paused, and does not see a pause that is undone
before it looks (`simulationThread.hpp:70` says that pausing discards them).

The platformer's comment on the jump says that it triggers on exactly one tick per key press
(`main.cpp:154`). It is at most one: a press that is released before the sim takes a keyboard is
overwritten in the mailbox and never seen. `OnePressOneJump` states the half that holds.

## 5. Proofs

Everything here holds for every value of the constants that satisfies the named
assumptions (`ServerAssumption`, `EnvironmentAssumption`, `SimulationAssumption`, `PeerAssumption`, `TimelineAssumption`, `DemoAssumption`, `LevelAssumption`,
`RequestAssumption`, `PublisherAssumption`, `NetworkingAssumption`, `PacketAssumption`,
`ReplicationAssumption`: the bounds are natural
numbers, "nobody" is not a thread, the receiver is not the sender, the game's publisher is one of the publishers, requests carry the kinds and states they can carry, ids of
entities are a finite set of pairs of an owner and a number, rates and speeds are positive and
divide the `Scale` of the history variable; a number fits the field it is sent in; a packet of a
session is the encoding of a request, or was cut, or has bytes after its end; of the level of the
platformer see below).

**`ServerAloneProofs`.** `TypeCorrect` is inductive as it stands. `ThreadOwnership` is not:
`EveryThreadHasOneOwner` does not say that a thread whose id was never given out does not
exist, nor which containers are empty in which phase of `stop()`. `ThreadInv` adds that:
ids in use are below `nextId`; the watchdog's list is empty unless it is joining; `stop()`'s
list is empty before it takes the slots, and afterwards the other containers are. The same
invariant gives `StopJoinsAll`: when `stop()` is done the list is empty, and every thread
that exists is in some container. `GhostFreedom` is inductive with `TypeOK`: a retirement
erases the state and records the departure in one critical section. `ClientHasOneId` needs that a
slot keeps its token (`TokensKept`) and that only a join adds a client.

`ImplementsRoster` is the refinement. Beside the invariants above it needs `LogInv`: the ids in the
log were given out, so that a new one is larger than all. `JoinRoster` and `RetireRoster` show
that a new join is a `Join` of the abstract roster and any retirement, of the client that leaves or
of all that the watchdog found silent, a `LeaveTogether`; `StopTakeSlots` is its `Close`, and
every other step leaves members, log and openness alone.

**`SimulationThreadProofs`.**

* `RunsAlone`: `OwnerRunsAlone` is inductive together with the type of `pc`. In
  `advanceFrame()` one thread has the turn and the others are off, so only it can step, and
  ending its frame hands the turn on. A failure cannot intervene, as `joinAll` has waited.
* `PauseIsQuiet`: only `SubCallback` takes a thread into its callback, and it needs a
  timeline that is not paused; only `SimTasks` pauses it, and it needs that no thread is in
  a callback. Every other step satisfies `NoNewCallback` and leaves `paused` alone.
* `BudgetCovers`, `NoRepeats` and `TypeCorrect` rest on `StepperInv`: no stepper is ahead
  of the timeline or has dropped more than it consumed (`Behind`), in the steps of a frame
  the budget covers what is due (`Covered`), and the steps the sim has taken and its
  remaining budget add up to at most the limit (`SimSteps`). `Behind` is what makes the
  discard at a pause safe: a new stepper starts at the timeline's time, never before the
  old one. `SimSteps` is what bounds the steps of a frame.
* `FrameStaysCurrent` rests on `DrawnInv`: in a frame either a frame will be published
  (a step was taken, a task ran or it is the first), or a step is still due, or what was
  published last is still true. TLC checked it in the bounds of `simulation` first. The
  theorem assumes `MaxSteps > 0`. The code does not check `maxStepsPerFrame`, and with 0
  every tick is dropped and time goes on without a frame.

The lemmas `NewStepperFacts`, `BeginFrameFacts` and `StepFacts` say what the functions of
`Stepper` preserve, once.

**`PeerSessionProofs`**, on `SceneReplicatorProofs`.

* `TypeCorrect` and `MapsStayInverse` rest on `WorldInv`: the types of a world, the two maps
  inverse to each other, own ids below `nextLocal` (so that `track()` never gives out an id
  that `bind()` was given), and no own id on the list of a source. Each operation has a lemma
  that it preserves `WorldInv`, for any ids, entities and sources; erasing an id erases its
  entity on the other side (`EraseBoth`), and new pairs are only added where neither part is
  in use (`PutBoth`, `RebindBoth`, and in `SpawnInv` because handles are never used twice).
* `OwnStayUntouched`: snapshots only create and list foreign ids, and as the maps are inverse
  a foreign id never shares an entity with an own one, so forgetting it spares that
  (`ForgetKeepsOwn`).
* `PeersFollow`: between start and `leave()` the listeners are those of the roster after
  every single event, not only between calls; only `leave()` takes one away from a
  client that is still there, and by then the session is left (`LeavingIsLeft`).
* `NoListenerIsLeft`: `leave()` ends with no listener, and without `UseAfterLeave` nothing
  creates one afterwards (`AfterLeave`). The run `peer_after_leave` shows the assumption is
  needed.

Its second part, on the same lemmas, is about what the others left in the scene of a peer:
`CopiesStayListed` and `GhostFreedom`. Neither property is inductive. `CopiesInv` adds that a list
of a peer only holds ids of that peer, that a client that is not in the roster has an empty list
and no listener, and that an entity that is mapped under a foreign id is on some list. A snapshot
that no longer names an id forgets it, whichever other sources list it too; then the id is not mapped
any more and needs no list, while every id the snapshot does name is on the list it leaves.

**`TimelineProofs`.** `TypeCorrect` and `TimeIsContinuous` rest on `TimeInv`: the remainder of a
timeline is less than a tick (`Good`) and its start is not after the present of its source.
That is what makes banking invisible: after it `now()` is what was banked, because less than a
tick scales to no tick (`NothingPassed`), and `recomputeRate` keeps the remainder below a tick
for any two denominators (`RecomputeFacts`). `StepKinds` sorts the steps: the counter moves and
nothing else, or the counter stands still and each timeline is left alone, `Rebased` at the
instant its source is at, new, or gone. `ScaleFacts` is the exactness of `scaleElapsed`: ticks
and remainder together are the parts they were made from.

`TimeStaysExact` counts in parts so small that every rate and speed is a whole number of them
per tick. `KeptInv` says that the fraction of a timeline is exact in these parts (`Exact`: its
denominator divides `Scale`), and that what the timeline shows, remainder included, is exact time
less at most one tick per change. It is kept because banking loses nothing (`BankSettles`); only
`recomputeRate`, which rounds the remainder down to the new denominator, does, by less than a part
of a tick (`RoundingLoss`). TLC checked `KeptInv` in the bounds of `timeline` first.

**`MultithreadDemoProofs`.** The theorems hold for any sets of keys, any capacity, any step
limit and any time, and the first three for any layout of the level.

* `OneJump`: a keyboard moves from main to the slot, to the frame and to what the last tick
  saw. `PressInv` says for each later place against each earlier one that if Space is down in
  the later and up in the earlier, a press is still owed (`Owed`). It is inductive because
  every step either moves a keyboard on by one place or is a poll, which counts a new press; a
  slot that is overwritten unseen loses presses but invents none.
* `PauseHolds`: what main can see of a pause is a frame that was published paused. `StillInv`
  says that by then the sim's stepper is at the present: the steps of the frame in which the
  pause came used up all that was due or dropped it (`simStepper.target = now` while it is paused),
  and no time passes afterwards. The platform's part needs only the guard of `WorldTick`.
* `TicksReported`: `ReportInv` adds to the count that the ticks received, waiting and due to
  come are in order (`Ordered`), which a push preserves whether or not it drops
  (`PushOrdered`).
* `BlocksHold` is about every run, jump and fall, for any sequence of keys and any movement of
  the platform to the sides. `LevelInv` adds to it what the player can have of speed and height. A
  tick of gravity keeps v(v + g) + 2g(standing - y) exactly (`EnergyKept`), and landing, bumping a
  head and starting again leave at most what the highest jump or the first fall has (`Tame`). So a
  fall is bounded
  (`FallIsShort`), a player that was clear of the floor gets into it less than either is wide or
  high along one axis (`StepsInto`), and the push along the shallower axis, away from the other's
  centre, makes the two flush (`PushIsFlush`, `FloorResolved`). The platform is above all of
  that (`BelowPlatform`), so that a push out of one block never ends in the other.

  `LevelAssumption` is what is needed of the level: whole lengths, run and jump slower per tick
  than the player and the floor are large, the longest fall too, and the platform out of
  reach. TLC evaluates it on the numbers of the program, and `ProgramSpawn` for the
  program's start. The last of them is a fact of the program worth knowing: a jump of 600 pixels
  per second under a gravity of 980 lifts the player's head from 936 to 752, and the platform
  ends at 732, so that nobody ever stands on it. In a level where it is in reach the property can fail: the
  platform moves by itself, and may come to overlap the player deeper than the player's step.

**`NetworkingProofs`.** Which packet goes where, what is read from it byte by byte, and what that
does to the scene of the receiver.

* `AnswersBelong`: `AnswersMatch` says only what a call returned. `ExchangeInv` says why it
  may: the present socket carries one exchange at a time, so that its request is on the way, with
  the handler, or answered, and the caller is still inside the mutex. A timeout makes a new socket,
  and what the old one still carries stays out of the way because no request is from a socket that
  is not made yet (`SocketInv`). `LoopInv` is the guard of `run()`: one thread at a time is inside,
  so that `handling` is of that thread.
* `UpdatesStayWhole`: `SendingInv` says that the open frames are those of the thread inside the
  publisher's mutex, topic first, and `TopicInv` that each queued message is one published update
  with the subscribed prefix.
* `NothingIsLeftBehind` and `SnapshotIsMirrored` are about the functions of `Replication`: for any
  scenes in order (`SceneInv`) and any number of records. The scene may hold extra bytes of ids that
  are mapped to nothing; `Forgotten` says that apply() takes them away with everything else of an id
  that was on the source's list and is not in the snapshot. That the receiver shows no *other* entity
  of the sender holds only while all of them are on its list (`Listed`), which a game breaks by
  binding an id that was never shown. `ApplyEach` folds over the records; `FoldSteps` unrolls the fold into its `Stages`, one
  for each record, and an induction over the stages shows what all of them preserve
  (`ApplyEachFollows`) and that a record whose id is not repeated is shown at the end as it was
  applied (`ApplyEachShows`). The library's induction theorems take an operator and cannot be used;
  `Induction` is stated for a set of numbers instead and proved from the least number of a set.
  `MaskFacts` reads the four bits back from their sum, `RecordFacts` that a record shows the entity
  it was made from, and `CleanUpFacts` that forgetting what is gone leaves the rest as it is.
* `RequestsAreUnderstood`, `RepliesAreUnderstood` and `SnapshotsAreUnderstood` are the codecs. A writer and its reader go
  through the same layout, so one lemma about a field is enough (`FieldRead`: a reader that finds the
  bytes of a value gets it, or fails where the input ends; `Gets`), and folds of fields
  (`FieldsRead`) and of lists (`ListRead`) follow by `Induction` over their length. `Pieces` cuts an
  encoding into its fields, `Carries` says that the input has these bytes as far as it goes, which
  covers the whole packet, one that was cut anywhere and one with bytes after its end. A field that is there
  only under a condition is the reason for `Orderly`: what it depends on comes before it. The invariant
  is that every packet on its way is one that `Packets` allows (`PacketInv`).
* `NothingStaysBehind` and `ScenesAreMirrored` put the codec, the replicator and the sockets
  together. `CopiesMirror` speaks of one step, and `NetInv` says what must hold before it:
  the scene of the sender can be sent (`SenderOK`: its entities are its own, what they carry fits
  its fields, and it never had so many that a count would not fit); the receiver's is in order and
  its stores hold nothing of dead entities (`ReceiverOK`); the list of the sender is what the scene
  applied last showed, whatever the receiver's game did since, as none of its calls touches the list
  (`ListInv`); a published frame that can be read is of the scene that
  was shown on its tick, however it was damaged (`FramesInv`; a damaged frame that can be read at all is
  a whole one); and what waits at the receiver is newer than what was applied, in the order of the
  ticks, the frame included that the publisher has begun (`OrderInv`). `OwnedSnapshot` is the link:
  reading what `encodeOwned()` wrote, in either format, gives the records of the owned entities
  again, and `FrameDecodes` and `PulseDecodes` say the same of a message. The calls of the two games keep
  their scenes in order (`SenderEdits`, `ReceiverTouches`), and
  `AppliedSnapshot` applies `SnapshotIsMirrored` and `NothingIsLeftBehind` to what was heard.
  `NothingOutlives` does not say that extra bytes are there only with an entity, because the code
  does not do that: destroyEntity() and bind() leave those of the id until a scene no longer shows
  it, setExtra() sets them for an id that is mapped to nothing, and dropOwner() goes by the mapping,
  so that those of an id that bind() unmapped stay after its owner has left. Nothing in the repository
  promises otherwise; a game that binds ids by hand can call untrack() first, which removes them.

**`SessionProofs`.** All six theorems hold for any number of clients, sockets and ports and for
any lost, late, repeated or misdirected request. They need `ServerAssumption` only.

* `IdsName` and `LeaversLeave` rest on `ExchangeInv`, which `IdNamesOwnSlot` needs because an id
  is given out by one handler and taken by one client with a network in between: a socket is
  replaced at every timeout, so that at most one request on its way is of the present exchange of
  its client (`CurrentInv`), and an "ok" on the present socket that answers a join names a slot
  with the token of the client that waits for it (`ReplyInv`). Ids are given out once
  (`ServerInv`), so that an old answer cannot name a slot of somebody else. `LeaversLeave` needs
  of it that a request on its way carries the id its sender has (`RequestInv`).
* `MessagesKept` and `MessagesInOrder` rest on `MessageInv`. A message is the pair of its sender
  and its number, and an outbox is a `Stream`: all numbers after some acknowledgement the other
  side did send, up to the last. So is each list of messages on its way, however old the request
  or reply that carries it (`GoodRequest`, `GoodReply`); an inbox is a `Run`, the numbers up to
  the last one accepted. A `Link` puts together what a client and its slot keep; a slot that is
  nobody's yet is `Fresh`. That an acknowledgement on its way is never above what was received
  is what makes popping the outbox safe; that a stream never starts above the last number received
  is what makes accepting it leave no gap.
* `MessagesInOrder` is the refinement. Every step of `Session` is one of four for each direction
  of each client (`Hop`: one more is sent, some that are next arrive, the queue is drained,
  nothing), and each `Hop` is a step of `Channel` under the mapping.
* `ViewsArePast` rests on `ViewsInv`: the log is a list of joins and departures of which the
  client map is the outcome (`LogInv`); what a client drained and what it holds undrained make the
  members at the version it reports (`View`); a reply on its way brings a client that knows the
  version in its request to another version (`News`), and between a request and its answer that
  version does not change. `AfterMeans` says what `RosterAfter` gives (whoever joined and did not
  leave afterwards, or was there and did not leave), from which `AfterCompose` and the rest follow.
* `StatesKept` is the safe half of `NewestStateArrives`: the newest state a client submitted is the
  pending one, or the one in the exchange under way, or the server had it (`NoStateForgotten`).
  `StateInv` adds that the pending state is always the newest, so that a failed exchange may put
  its state back only when nothing was submitted meanwhile (`Keeps`), that the request on the
  present socket carries the state being sent (`Carried`), and that an "ok" there says the server
  has it (`Answered`). The one exception is real and part of the property: a client that the
  server no longer knows loses the state it was sending.

The invariants were checked by TLC before they were proved: the first three in the bounds of
`session_clients` and `session_messages`, `StateInv` with one client that submits twice, times
out and leaves.

**Only model-checked**: the liveness properties, which are out of the prover's reach. Every
invariant and every action property that a run checks is proved.

**Only proved**: `TypeCorrect` of four modules, `StopJoinsAll`, `BudgetCovers`,
`CopiesStayListed`, `NothingIsLeftBehind`, `SnapshotIsMirrored`, `RepliesAreUnderstood`,
`SnapshotsAreUnderstood` and `StatesKept` hold for every value of the constants and have no run;
the runs are for what TLC can add.

## 6. Not modelled

* Real time: heartbeats, and the agreement of the server's 2 s client timeout with the client's
  retries. Timeouts happen at any time instead.
* A server that is started again after `stop()`, overflow of sequence numbers, statistics
  counters (those of LatestValue too), and rate products beyond 64 bits in Timeline.
* A socket that breaks while a thread waits on it (`Closed`); it ends the loops as `stop()` does.
* A `shared_mutex` that prefers readers and starves the sim's exclusive lock.
* Component types other than the five built-in ones, `each()`, `setKey()`, `setGravity()`, scales
  other than 1 and floating-point physics: the models use integers.
* Animation (one sequential loop over floating-point frame times), the renderer, the window and
  the log (wrappers of SDL and of a logging library), and the benchmarks (they measure the
  session and add no behaviour).

`PROJECT.json` gives the reason for each component. Every hazard it lists has a property; those
without one are the items above (overflow, a starved lock, a client that is silent for 2 s
while it retries, an animation of frames without length).

## 7. Open

* Clocks for heartbeats and timeouts in `Session`, so that the 2 s of the server can be set
  against the retries of the client.
* Advancing an animation, as a function in fractions of a second.
