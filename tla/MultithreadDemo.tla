---------------------------- MODULE MultithreadDemo ----------------------------
(***************************************************************************)
(* The platformer of examples/multithread_demo/main.cpp.                   *)
(*                                                                         *)
(*   main     pumps SDL, submits the keyboard, posts requests, and at the  *)
(*            end stops the other threads.                                 *)
(*   sim      runs frames of onTick on its own Scene.                      *)
(*   world    the subsystem, which publishes where the platform is.        *)
(*   net      fakeNetThread, which waits for the player states of onTick.  *)
(*                                                                         *)
(* Of the SimulationThread the program sees the mailboxes and when the     *)
(* callbacks run.  So a frame of the sim begins in one step: what reaches  *)
(* a mailbox while it does could as well come after it.  A callback of     *)
(* world is one step too, as the timeline is locked while it runs.  The    *)
(* module SimulationThread has all the steps.  No callback of the program  *)
(* throws.  The frames that main draws are left out, and the rate of the   *)
(* timeline is left open, so that a request for another speed is a task    *)
(* without effect.                                                         *)
(***************************************************************************)
EXTENDS Sequences, FiniteSets, Stepper, ThreadSafeQueue, LatestValue, Keyboard

CONSTANTS
    Gravity, RunSpeed, JumpSpeed,             \* in units of length and tick
    SpawnAt, Bottom, PlayerSize,                \* the player
    FloorAt, FloorSize,                       \* the floor
    PlatformAt, PlatformSize, Swing(_),       \* the platform; 600 * sin
    QueueCapacity,                            \* of playerStateQueue
    MaxSteps,                                 \* config_.maxStepsPerFrame
    Holds,                                    \* sets of keys that may be held down
    MaxPolls,                                 \* bound: when the window is closed
    MaxTime                                   \* bound: ticks of the timeline

ASSUME DemoAssumption == MaxSteps \in Nat /\ QueueCapacity \in Nat

P == INSTANCE Physics

(***************************************************************************)
(* The level.  In the units of the model its lengths are whole.  In one    *)
(* tick the player goes less far than it and the floor are wide and high,  *)
(* in a run, in a jump and at the end of the longest fall; and the         *)
(* platform hangs above what a jump reaches.  All of it is so of the       *)
(* numbers of main.cpp:52-55, 106, 116-121, 159-161 and 173.               *)
(***************************************************************************)
Standing == FloorAt.y - PlayerSize.y

\* Twice what a tick keeps: of the speed, and of the height above where the player stands.
Energy(y, speed) == speed * (speed + Gravity) + 2 * Gravity * (Standing - y)

MostEnergy == P!Upper(Energy(Standing, -JumpSpeed), Energy(SpawnAt.y, 0))

Smallest == P!Lower(P!Lower(PlayerSize.x, PlayerSize.y), P!Lower(FloorSize.x, FloorSize.y))

ASSUME LevelAssumption ==
    /\ Gravity \in Nat /\ RunSpeed \in Nat /\ JumpSpeed \in Nat /\ Bottom \in Int
    /\ {SpawnAt, PlayerSize, FloorAt, FloorSize, PlatformAt, PlatformSize}
           \subseteq [x : Int, y : Int]
    /\ SpawnAt.y <= Standing /\ Standing <= Bottom
    /\ RunSpeed < Smallest /\ JumpSpeed < Smallest
    /\ MostEnergy + 2 * Gravity * (Bottom - Standing) < Smallest * (Smallest - Gravity)
    /\ MostEnergy + Gravity * Gravity < Energy(PlatformAt.y + PlatformSize.y, 0)

VARIABLES
    main,              \* "loop", "join", "netjoin", "done"
    shouldClose, polls,
    previous,          \* the keyboard of the iteration before
    requests,          \* tasks this iteration has still to post
    now, paused,       \* gameTime
    tasks, keyboardSlot,
    stopRequested,
    sim, world,        \* "new", "loop", "frame", "exited"
    simStepper, worldStepper,
    frameKeyboard, lastTickKeyboard,
    scene, lastPlatform, grounded,
    platformSlot,
    worldSeconds,      \* calls of the subsystem
    playerStateQueue,
    fakeNetRunning,
    net,               \* "top", "waiting", "exited"
    messages, lastTick,
    \* Ghosts:
    ticksRun,          \* calls of onTick
    pressed,           \* Space went down since onTick last saw it do so
    pauseShown         \* the game is paused and a frame that says so was published

mainVars  == <<main, shouldClose, polls, previous, requests>>
timeVars  == <<now, paused>>
frameVars == <<tasks, keyboardSlot, frameKeyboard, sim, simStepper, pauseShown>>
tickVars  == <<lastTickKeyboard, scene, lastPlatform, grounded, playerStateQueue,
               ticksRun, pressed>>
worldVars == <<world, worldStepper, worldSeconds>>
stopVars  == <<stopRequested, fakeNetRunning>>
netVars   == <<net, messages, lastTick>>
vars      == <<mainVars, timeVars, frameVars, tickVars, worldVars, stopVars, platformSlot,
               netVars>>

-----------------------------------------------------------------------------
\* A solid rectangle.
AddBlock(w, position, size) ==
    LET e == w.nextEntity
        placed == P!SetTransform(P!Create(w), e, position)
    IN  P!Attach(P!Attach(placed, P!Shape, e, size), P!Collider, e, size)

Floor    == 1
Platform == 2
Player   == 3

FirstScene ==
    P!Attach(AddBlock(AddBlock(AddBlock(P!NewScene({}), FloorAt, FloorSize),
                               PlatformAt, PlatformSize),
                      SpawnAt, PlayerSize),
             P!RigidBody, Player, P!Vec(0, 0))

Init ==
    /\ main = "loop" /\ shouldClose = FALSE /\ polls = 0
    /\ previous = {} /\ requests = <<>>
    /\ now = 0 /\ paused = FALSE
    /\ tasks = NewQueue /\ keyboardSlot = NewMailbox
    /\ stopRequested = FALSE
    /\ sim = "new" /\ world = "new"
    /\ simStepper = NewStepper(0) /\ worldStepper = NewStepper(0)
    /\ frameKeyboard = {} /\ lastTickKeyboard = {}
    /\ scene = FirstScene /\ lastPlatform = PlatformAt /\ grounded = FALSE
    /\ platformSlot = NewMailbox /\ worldSeconds = 0
    /\ playerStateQueue = NewQueue
    /\ fakeNetRunning = TRUE
    /\ net = "top" /\ messages = 0 /\ lastTick = 0
    /\ ticksRun = 0 /\ pressed = FALSE /\ pauseShown = FALSE

-----------------------------------------------------------------------------
(***************************************************************************)
(* The sim thread.                                                         *)
(***************************************************************************)
\* Whether the centre of a is to the left of that of b, or above it.
Before(w, a, b, axis) ==
    2 * w.transforms[a][axis] + P!Get(w, P!Collider, a)[axis]
        < 2 * w.transforms[b][axis] + P!Get(w, P!Collider, b)[axis]

Pushed(w, by) == P!SetTransform(w, Player, P!Plus(w.transforms[Player], by))

\* Pushes the player out of another block along the shallower axis; landed says that
\* it is on top.
ResolveCollision(w, other) ==
    LET depth == P!GetCollisionOverlap(w, Player, other).size
        v     == P!Get(w, P!RigidBody, Player)
    IN  IF ~P!IsCollision(w, Player, other)
        THEN [scene |-> w, landed |-> FALSE]
        ELSE IF depth.y > depth.x
        THEN [scene |-> Pushed(w, P!Vec(IF Before(w, Player, other, "x")
                                        THEN -depth.x ELSE depth.x, 0)),
              landed |-> FALSE]
        ELSE IF Before(w, Player, other, "y")
        THEN [scene |-> P!Attach(Pushed(w, P!Vec(0, -depth.y)), P!RigidBody, Player,
                                 P!Vec(v.x, 0)),
              landed |-> TRUE]
        ELSE [scene |-> P!Attach(Pushed(w, P!Vec(0, depth.y)), P!RigidBody, Player,
                                 P!Vec(v.x, P!Upper(v.y, 0))),
              landed |-> FALSE]

JumpPressed == JustPressed(frameKeyboard, KeySpace, lastTickKeyboard)

\* The player as the keys steer it.
Steered(w) ==
    LET v == P!Get(w, P!RigidBody, Player)
    IN  P!Attach(w, P!RigidBody, Player,
            P!Vec(IF IsKeyPressed(frameKeyboard, KeyD) THEN RunSpeed
                  ELSE IF IsKeyPressed(frameKeyboard, KeyA) THEN -RunSpeed ELSE 0,
                  IF grounded /\ JumpPressed THEN -JumpSpeed ELSE v.y))

\* Back to the start from below the screen.
Respawned(w) ==
    IF w.transforms[Player].y > Bottom
    THEN P!Attach(P!SetTransform(w, Player, SpawnAt), P!RigidBody, Player, P!Vec(0, 0))
    ELSE w

\* Slip: the player moves after the collisions are resolved.
OnTick_ResolveFirst(tick) ==
    /\ lastPlatform' = TakenOr(platformSlot, lastPlatform)
    /\ platformSlot' = Taken(platformSlot)
    /\ \E steered \in {Steered(P!SetTransform(scene, Platform, lastPlatform'))} :
       \E a \in {ResolveCollision(steered, Floor)} :
       \E b \in {ResolveCollision(a.scene, Platform)} :
          /\ grounded' = (a.landed \/ b.landed)
          /\ scene' = Respawned(P!Advance(b.scene, Gravity))
    /\ playerStateQueue' = Push(playerStateQueue, QueueCapacity, tick)
    /\ ticksRun' = ticksRun + 1
    /\ pressed' = (pressed /\ ~JumpPressed)

\* onTick, of the tick that the stepper is at.
OnTick(tick) ==
    /\ lastPlatform' = TakenOr(platformSlot, lastPlatform)
    /\ platformSlot' = Taken(platformSlot)
    /\ \E moved \in {P!Advance(Steered(P!SetTransform(scene, Platform, lastPlatform')),
                               Gravity)} :
       \E a \in {ResolveCollision(moved, Floor)} :
       \E b \in {ResolveCollision(a.scene, Platform)} :
          /\ grounded' = (a.landed \/ b.landed)
          /\ scene' = Respawned(b.scene)
    /\ playerStateQueue' = Push(playerStateQueue, QueueCapacity, tick)
    /\ ticksRun' = ticksRun + 1
    /\ pressed' = (pressed /\ ~JumpPressed)

\* The posted requests run, the newest keyboard is taken and the time is read.
SimBegin ==
    /\ sim \in {"new", "loop"} /\ ~stopRequested
    /\ paused' = (paused # (Cardinality({i \in DOMAIN tasks.items :
                                            tasks.items[i] = "toggle"}) % 2 = 1))
    /\ tasks' = NewQueue
    /\ frameKeyboard' = TakenOr(keyboardSlot, frameKeyboard)
    /\ keyboardSlot' = Taken(keyboardSlot)
    /\ simStepper' = BeginFrame(IF sim = "new" THEN NewStepper(now) ELSE simStepper,
                               now, MaxSteps)
    /\ sim' = "frame" /\ pauseShown' = (pauseShown /\ ~HasItem(tasks))
    /\ UNCHANGED <<mainVars, now, tickVars, worldVars, stopVars, platformSlot,
                   netVars>>

\* Slip: the keyboard of the last frame stays the earlier one until the frame ends.
SimTick_EdgePerFrame ==
    /\ sim = "frame" /\ CanStep(simStepper)
    /\ simStepper' = Step(simStepper)
    /\ OnTick(simStepper'.consumed)
    /\ lastTickKeyboard' = IF CanStep(simStepper') THEN lastTickKeyboard ELSE frameKeyboard
    /\ UNCHANGED <<mainVars, timeVars, tasks, keyboardSlot, frameKeyboard, sim,
                   pauseShown, worldVars, stopVars, netVars>>

SimTick ==
    /\ sim = "frame" /\ CanStep(simStepper)
    /\ simStepper' = Step(simStepper)
    /\ OnTick(simStepper'.consumed)
    /\ lastTickKeyboard' = frameKeyboard
    /\ UNCHANGED <<mainVars, timeVars, tasks, keyboardSlot, frameKeyboard, sim,
                   pauseShown, worldVars, stopVars, netVars>>

SimEnd ==
    /\ sim = "frame" /\ ~CanStep(simStepper)
    /\ sim' = "loop" /\ pauseShown' = paused
    /\ UNCHANGED <<mainVars, timeVars, tasks, keyboardSlot, frameKeyboard, simStepper,
                   tickVars, worldVars, stopVars, platformSlot, netVars>>

SimExit ==
    /\ sim \in {"new", "loop"} /\ stopRequested
    /\ sim' = "exited"
    /\ UNCHANGED <<mainVars, timeVars, tasks, keyboardSlot, frameKeyboard, simStepper,
                   pauseShown, tickVars, worldVars, stopVars, platformSlot, netVars>>

SimThread == SimBegin \/ SimTick \/ SimEnd \/ SimExit

-----------------------------------------------------------------------------
(***************************************************************************)
(* The world subsystem.                                                    *)
(***************************************************************************)
WorldUnchanged == UNCHANGED <<mainVars, timeVars, frameVars, tickVars, stopVars, netVars>>

WorldBegin ==
    /\ world \in {"new", "loop"} /\ ~stopRequested
    /\ worldStepper' = BeginFrame(IF world = "new" THEN NewStepper(now) ELSE worldStepper,
                                 now, MaxSteps)
    /\ world' = "frame"
    /\ UNCHANGED <<worldSeconds, platformSlot>> /\ WorldUnchanged

\* Slip: looks at the pause only when the frame begins.
WorldTick_PausedOrNot ==
    /\ world = "frame" /\ CanStep(worldStepper)
    /\ worldStepper' = Step(worldStepper)
    /\ worldSeconds' = worldSeconds + 1
    /\ platformSlot' = Published(platformSlot,
                           P!Plus(PlatformAt, P!Vec(Swing(worldSeconds'), 0)))
    /\ UNCHANGED world /\ WorldUnchanged

WorldTick ==
    /\ world = "frame" /\ ~paused /\ CanStep(worldStepper)
    /\ worldStepper' = Step(worldStepper)
    /\ worldSeconds' = worldSeconds + 1
    /\ platformSlot' = Published(platformSlot,
                           P!Plus(PlatformAt, P!Vec(Swing(worldSeconds'), 0)))
    /\ UNCHANGED world /\ WorldUnchanged

\* A pause discards what was due.
WorldEnd ==
    /\ world = "frame" /\ (paused \/ ~CanStep(worldStepper))
    /\ worldStepper' = IF paused THEN NewStepper(now) ELSE worldStepper
    /\ world' = "loop"
    /\ UNCHANGED <<worldSeconds, platformSlot>> /\ WorldUnchanged

WorldExit ==
    /\ world \in {"new", "loop"} /\ stopRequested
    /\ world' = "exited"
    /\ UNCHANGED <<worldStepper, worldSeconds, platformSlot>> /\ WorldUnchanged

WorldThread == WorldBegin \/ WorldTick \/ WorldEnd \/ WorldExit

-----------------------------------------------------------------------------
(***************************************************************************)
(* fakeNetThread: waitPop in a loop.                                       *)
(***************************************************************************)
PopState ==
    /\ HasItem(playerStateQueue)
    /\ playerStateQueue' = Popped(playerStateQueue)
    /\ messages' = messages + 1
    /\ lastTick' = Front(playerStateQueue)

NetUnchanged ==
    UNCHANGED <<mainVars, timeVars, frameVars, lastTickKeyboard, scene, lastPlatform,
                grounded, ticksRun, pressed, worldVars, stopVars, platformSlot>>

NetPop ==
    /\ net = "top" /\ fakeNetRunning
    /\ PopState
    /\ UNCHANGED net /\ NetUnchanged

NetWait ==
    /\ net = "top" /\ fakeNetRunning
    /\ ~HasItem(playerStateQueue)
    /\ net' = "waiting"
    /\ UNCHANGED <<playerStateQueue, messages, lastTick>> /\ NetUnchanged

\* Slip: waits without a timeout.
NetWaited_ForEver ==
    /\ net = "waiting"
    /\ PopState
    /\ net' = "top" /\ NetUnchanged

\* A push notified the thread, or the time is over.
NetWaited ==
    /\ net = "waiting"
    /\ PopState \/ UNCHANGED <<playerStateQueue, messages, lastTick>>
    /\ net' = "top" /\ NetUnchanged

NetExit ==
    /\ net = "top" /\ ~fakeNetRunning
    /\ net' = "exited"
    /\ UNCHANGED <<playerStateQueue, messages, lastTick>> /\ NetUnchanged

NetThread == NetPop \/ NetWait \/ NetWaited \/ NetExit

-----------------------------------------------------------------------------
(***************************************************************************)
(* main().                                                                 *)
(***************************************************************************)
MainUnchanged ==
    UNCHANGED <<timeVars, sim, simStepper, pauseShown, frameKeyboard, lastTickKeyboard, scene,
                lastPlatform, grounded, playerStateQueue, ticksRun, worldVars, platformSlot,
                netVars>>

\* The requests for the keys that went down since the iteration before.
Requests(keyboard) ==
    LET If(key, task) == IF JustPressed(keyboard, key, previous) THEN <<task>> ELSE <<>>
    IN  If(KeyP, "toggle") \o If(Key1, "speed") \o If(Key2, "speed") \o If(Key3, "speed")

\* Pumps the events, copies the keyboard and submits it.  Main may run ahead of the other
\* threads, so that it makes no difference which iteration closes the window.
MainPoll(held) ==
    /\ main = "loop" /\ requests = <<>> /\ ~shouldClose
    /\ polls' = polls + 1
    /\ shouldClose' = (polls' = MaxPolls)
    /\ previous' = Capture(held)
    /\ keyboardSlot' = Published(keyboardSlot, previous')
    /\ requests' = Requests(previous')
    /\ pressed' = (pressed \/ JustPressed(previous', KeySpace, previous))
    /\ UNCHANGED <<main, tasks, stopVars>> /\ MainUnchanged

MainPost ==
    /\ requests # <<>>
    /\ tasks' = Push(tasks, 0, Head(requests))
    /\ requests' = Tail(requests)
    /\ UNCHANGED <<main, shouldClose, polls, previous, keyboardSlot, pressed, stopVars>>
    /\ MainUnchanged

\* A step of the shutdown, from one place in main to the next.
Shutdown(from, to) ==
    /\ main = from /\ main' = to
    /\ UNCHANGED <<shouldClose, polls, previous, requests, tasks, keyboardSlot,
                   pressed>> /\ MainUnchanged

MainStop    == Shutdown("loop", "join") /\ shouldClose /\ requests = <<>>
               /\ stopRequested' = TRUE /\ UNCHANGED fakeNetRunning
MainStopped == Shutdown("join", "netjoin") /\ sim = "exited" /\ world = "exited"
               /\ fakeNetRunning' = FALSE /\ UNCHANGED stopRequested
MainNetJoin == Shutdown("netjoin", "done") /\ net = "exited" /\ UNCHANGED stopVars

MainThread ==
    \/ \E held \in Holds : MainPoll(held)
    \/ MainPost \/ MainStop \/ MainStopped \/ MainNetJoin

-----------------------------------------------------------------------------
Tick ==
    /\ ~paused /\ now < MaxTime
    /\ now' = now + 1
    /\ UNCHANGED <<mainVars, paused, frameVars, tickVars, worldVars, stopVars, platformSlot,
                   netVars>>

Next == MainThread \/ SimThread \/ WorldThread \/ NetThread \/ Tick

Spec == Init /\ [][Next]_vars

(***************************************************************************)
(* Fairness: every thread runs, and a waitPop that is not notified times   *)
(* out.  Nothing makes the user close the window.                          *)
(***************************************************************************)
Fairness ==
    /\ WF_vars(MainThread) /\ WF_vars(SimThread)
    /\ WF_vars(WorldThread) /\ WF_vars(NetThread)

FairSpec == Spec /\ Fairness

-----------------------------------------------------------------------------
(***************************************************************************)
(* Safety.                                                                 *)
(***************************************************************************)
\* The states that reached fakeNetThread or wait for it, oldest first.
Reported == <<lastTick>> \o playerStateQueue.items

\* One state per tick (main.cpp:178-180): each was received, waits, or is counted as
\* dropped, and the receiver can order them by tick, across pauses and dropped ticks.
EveryTickReported ==
    /\ ticksRun = messages + playerStateQueue.dropped + Len(playerStateQueue.items)
    /\ \A i \in 2..Len(Reported) : Reported[i - 1] < Reported[i]

\* A press of Space jumps at most once, however many ticks a frame runs, frames repeat
\* a keyboard and keyboards are overwritten unseen (main.cpp:153-155).
OnePressOneJump == [][SimTick /\ JumpPressed => pressed]_vars

\* Once a frame that says that the game is paused is out, and until the next request,
\* neither the Scene changes nor does the platform move on (main.cpp:194-195): of the
\* ticks that were due none is left for later.
PausedStandsStill ==
    [][pauseShown /\ pauseShown' => scene' = scene /\ worldSeconds' = worldSeconds]_vars

BottomOf(w, e) == w.transforms[e].y + P!Get(w, P!Collider, e).y

\* After every tick the player is inside of no block, and when it may jump it stands
\* exactly on one: its fall in one tick never takes it through (main.cpp:164-170).
StandsOnBlocks ==
    /\ \A other \in {Floor, Platform} :
          LET depth == P!Shared(scene, Player, other).size
          IN  depth.x <= 0 \/ depth.y <= 0
    /\ grounded => \E other \in {Floor, Platform} :
          /\ P!IsCollision(scene, Player, other)
          /\ BottomOf(scene, Player) = scene.transforms[other].y

-----------------------------------------------------------------------------
\* When the window is closed main returns, paused or not, with every thread joined:
\* fakeNetThread notices within one wait that it has to stop (main.cpp:207-209, 295-297).
DemoEnds == shouldClose ~> main = "done"
=============================================================================
