--------------------------- MODULE SimulationThread ---------------------------
(***************************************************************************)
(* SimulationThread (src/simulationThread.cpp): a sim thread and subsystem *)
(* threads that step one timeline, and their owner, which starts and stops *)
(* them or runs single frames itself with advanceFrame().                  *)
(*                                                                         *)
(* Shared: the timeline under timelineMutex_ (exclusive for the posted     *)
(* tasks, shared for everything else), the atomic flags running_ and       *)
(* stopRequested_, the failure, and the three mailboxes (tasks_,           *)
(* keyboardSlot_, frameSlot_).  The exclusive section is one step that     *)
(* waits for the shared ones; the only shared section that spans several   *)
(* steps is a subsystem's callback.                                        *)
(*                                                                         *)
(* The timeline is its tick count, which advances by itself while it is    *)
(* not paused; its rate is left open, so setSpeed() is a task without      *)
(* effect.  What a callback does with the keyboard it is given is left     *)
(* open, and so only the mailbox of keyboards is kept.  A frame of thread  *)
(* t runs on t or, in advanceFrame(), on the owner: the same steps, with   *)
(* owner = "advancing".                                                    *)
(***************************************************************************)
EXTENDS Sequences, FiniteSets, Stepper

CONSTANTS
    Subsystems,   \* how many subsystem threads
    MaxSteps,     \* config_.maxStepsPerFrame
    Keyboards,    \* what keyboardSlot_ may hold
    Tasks,        \* which of TaskNames are posted
    Throws,       \* the threads whose callbacks may throw
    MaxTime,      \* bound: ticks of the timeline
    MaxPosts,     \* bound: calls of post
    MaxStarts     \* bound: calls of start or advanceFrame that take effect

TaskNames == {"pause", "unpause", "toggle", "other", "throw"}

ASSUME SimulationAssumption ==
    /\ Subsystems \in Nat /\ MaxSteps \in Nat
    /\ MaxTime \in Nat /\ MaxPosts \in Nat /\ MaxStarts \in Nat
    /\ Tasks \subseteq TaskNames

Sim == Subsystems + 1        \* subsystems run before the sim in advanceFrame()
Threads == 1..Sim
NoKeyboard == <<>>          \* a keyboard in the slot is a sequence of one
NoFailure == 0
NoFrame == [tick |-> 0]

VARIABLES
    owner,          \* "idle", "starting", "stopping", "waiting", "advancing"
    running,        \* running_
    stopRequested,  \* stopRequested_
    failure,        \* the thread whose exception is in failure_, or NoFailure
    pc,             \* per thread: "off", "loop", "tasks", "begin", "steps",
                    \* "callback", "failed", "failing", "exited"
    stepper,        \* per thread; meaningful once created
    created,        \* threads whose stepper exists
    now, paused,    \* gameTime_
    tasks, batch,   \* posted; drained by the frame in progress
    keyboardSlot, frameSlot,
    first, steps,   \* of the frame in progress on the sim
    posted,         \* bound: calls of post so far
    starts          \* bound: starts and advances so far

ownerVars    == <<owner, running, stopRequested, failure, starts>>
timelineVars == <<now, paused>>
stepperVars  == <<stepper, created>>
taskVars     == <<tasks, batch, posted>>
frameVars    == <<frameSlot, first, steps>>
vars == <<ownerVars, pc, timelineVars, stepperVars, taskVars, keyboardSlot, frameVars>>

Init ==
    /\ owner = "idle" /\ running = FALSE /\ stopRequested = FALSE
    /\ failure = NoFailure /\ starts = 0
    /\ pc = [t \in Threads |-> "off"]
    /\ now = 0 /\ paused = FALSE
    /\ stepper = [t \in Threads |-> NewStepper(0)] /\ created = {}
    /\ tasks = <<>> /\ batch = <<>> /\ posted = 0
    /\ keyboardSlot = NoKeyboard
    /\ frameSlot = NoFrame /\ first = FALSE /\ steps = 0

-----------------------------------------------------------------------------
(***************************************************************************)
(* The owner: start(), stop() and advanceFrame().  Each joins the threads. *)
(***************************************************************************)
\* Slip: forgets the sim thread.
AllJoinable_SubsystemsOnly == \A t \in Threads \ {Sim} : pc[t] \in {"off", "exited"}

AllJoinable == \A t \in Threads : pc[t] \in {"off", "exited"}

\* The threads after joinAll().
Joined == [t \in Threads |-> IF pc[t] = "exited" THEN "off" ELSE pc[t]]

\* A no-op while running.
Start ==
    /\ owner = "idle" /\ ~running /\ starts < MaxStarts
    /\ owner' = "starting" /\ starts' = starts + 1
    /\ UNCHANGED <<running, stopRequested, failure, pc, timelineVars, stepperVars,
                   taskVars, keyboardSlot, frameVars>>

StartThreads ==
    /\ owner = "starting" /\ AllJoinable
    /\ owner' = "idle" /\ running' = TRUE /\ stopRequested' = FALSE
    /\ failure' = NoFailure
    /\ pc' = [t \in Threads |-> "loop"]
    /\ UNCHANGED <<starts, timelineVars, stepperVars, taskVars, keyboardSlot, frameVars>>

Stop ==
    /\ owner = "idle"
    /\ owner' = "stopping" /\ stopRequested' = TRUE
    /\ UNCHANGED <<running, failure, starts, pc, timelineVars, stepperVars, taskVars,
                   keyboardSlot, frameVars>>

StopDone ==
    /\ owner = "stopping" /\ AllJoinable
    /\ owner' = "idle" /\ running' = FALSE
    /\ pc' = Joined
    /\ UNCHANGED <<stopRequested, failure, starts, timelineVars, stepperVars, taskVars,
                   keyboardSlot, frameVars>>

\* A no-op while running; after a failure it waits for the other threads.
AdvanceFrame ==
    /\ owner = "idle" /\ ~running /\ starts < MaxStarts
    /\ owner' = "waiting" /\ starts' = starts + 1
    /\ UNCHANGED <<running, stopRequested, failure, pc, timelineVars, stepperVars,
                   taskVars, keyboardSlot, frameVars>>

AdvanceBegin ==
    /\ owner = "waiting" /\ AllJoinable
    /\ owner' = "advancing"
    /\ pc' = [Joined EXCEPT ![1] = "loop"]
    /\ UNCHANGED <<running, stopRequested, failure, starts, timelineVars, stepperVars,
                   taskVars, keyboardSlot, frameVars>>

-----------------------------------------------------------------------------
(***************************************************************************)
(* What thread t, or the owner in its place, does around its frames.       *)
(***************************************************************************)
MayBeginFrame(t) == pc[t] = "loop" /\ (owner = "advancing" \/ ~stopRequested)

\* A frame of t is over: on to the next one, or to the next in advanceFrame().
EndFrame(t) ==
    IF owner # "advancing"
    THEN pc' = [pc EXCEPT ![t] = "loop"] /\ owner' = owner
    ELSE IF t = Sim
    THEN pc' = [pc EXCEPT ![t] = "off"] /\ owner' = "idle"
    ELSE pc' = [pc EXCEPT ![t] = "off", ![t + 1] = "loop"] /\ owner' = owner

\* A callback or task of t threw: advanceFrame() lets the exception through.
Thrown(t) ==
    IF owner # "advancing"
    THEN pc' = [pc EXCEPT ![t] = "failed"] /\ owner' = owner
    ELSE pc' = [pc EXCEPT ![t] = "off"] /\ owner' = "idle"

RecordFailure(t) ==
    /\ pc[t] = "failed"
    /\ failure' = IF failure = NoFailure THEN t ELSE failure
    /\ pc' = [pc EXCEPT ![t] = "failing"]
    /\ UNCHANGED <<owner, running, stopRequested, starts, timelineVars, stepperVars,
                   taskVars, keyboardSlot, frameVars>>

\* The main function of t returns; only the sim thread's clears running_.
Returns(t) ==
    /\ pc' = [pc EXCEPT ![t] = "exited"]
    /\ running' = IF t = Sim THEN FALSE ELSE running

\* Slip: does not tell the other threads.
FailureExit_Alone(t) ==
    /\ pc[t] = "failing"
    /\ stopRequested' = stopRequested
    /\ Returns(t)
    /\ UNCHANGED <<owner, failure, starts, timelineVars, stepperVars, taskVars,
                   keyboardSlot, frameVars>>

FailureExit(t) ==
    /\ pc[t] = "failing"
    /\ stopRequested' = TRUE
    /\ Returns(t)
    /\ UNCHANGED <<owner, failure, starts, timelineVars, stepperVars, taskVars,
                   keyboardSlot, frameVars>>

StoppedExit(t) ==
    /\ pc[t] = "loop" /\ owner # "advancing" /\ stopRequested
    /\ Returns(t)
    /\ UNCHANGED <<owner, stopRequested, failure, starts, timelineVars, stepperVars,
                   taskVars, keyboardSlot, frameVars>>

-----------------------------------------------------------------------------
(***************************************************************************)
(* A frame of the sim: runFrame().                                         *)
(***************************************************************************)
\* What the frame in progress kept in locals is gone when it ends.
LocalsGone == batch' = <<>> /\ steps' = 0 /\ first' = FALSE

\* Slip: leaves the tasks alone while nothing is due.
SimDrain_WhenDue ==
    /\ MayBeginFrame(Sim)
    /\ first' = (Sim \notin created)
    /\ created' = created \cup {Sim}
    /\ stepper' = IF Sim \in created THEN stepper
                  ELSE [stepper EXCEPT ![Sim] = NewStepper(now)]
    /\ IF now > stepper[Sim].consumed
       THEN batch' = tasks /\ tasks' = <<>>
       ELSE batch' = <<>> /\ tasks' = tasks
    /\ steps' = 0
    /\ pc' = [pc EXCEPT ![Sim] = IF batch' = <<>> THEN "begin" ELSE "tasks"]
    /\ UNCHANGED <<ownerVars, timelineVars, posted, keyboardSlot, frameSlot>>

\* Creates the stepper at the first frame, and drains the posted tasks.
SimDrain ==
    /\ MayBeginFrame(Sim)
    /\ first' = (Sim \notin created)
    /\ created' = created \cup {Sim}
    /\ stepper' = IF Sim \in created THEN stepper
                  ELSE [stepper EXCEPT ![Sim] = NewStepper(now)]
    /\ batch' = tasks /\ tasks' = <<>>
    /\ steps' = 0
    /\ pc' = [pc EXCEPT ![Sim] = IF tasks = <<>> THEN "begin" ELSE "tasks"]
    /\ UNCHANGED <<ownerVars, timelineVars, posted, keyboardSlot, frameSlot>>

\* The tasks of a batch run up to the first that throws.
Ran(ts) ==
    LET bad == {i \in DOMAIN ts : ts[i] = "throw"}
    IN  IF bad = {} THEN Len(ts) ELSE (CHOOSE i \in bad : \A j \in bad : i <= j) - 1

\* Whether the timeline is paused after the first n tasks: what the last pause or
\* unpause made it, negated by every toggle since.
PausedAfter(ts, n) ==
    LET decisive == {i \in 1..n : ts[i] \in {"pause", "unpause"}}
        last     == CHOOSE i \in decisive \cup {0} : \A j \in decisive : j <= i
        toggles  == {i \in (last + 1)..n : ts[i] = "toggle"}
    IN  (IF last = 0 THEN paused ELSE ts[last] = "pause") # (Cardinality(toggles) % 2 = 1)

\* Slip: does not wait for the callbacks that hold the lock.
SimTasks_NoLock ==
    /\ pc[Sim] = "tasks"
    /\ paused' = PausedAfter(batch, Ran(batch))
    /\ IF Ran(batch) = Len(batch)
       THEN /\ pc' = [pc EXCEPT ![Sim] = "begin"]
            /\ UNCHANGED <<owner, batch, first, steps>>
       ELSE Thrown(Sim) /\ LocalsGone
    /\ UNCHANGED <<running, stopRequested, failure, starts, now, stepperVars, tasks,
                   posted, keyboardSlot, frameSlot>>

\* The exclusive lock waits for the callbacks, which hold it shared.
SimTasks ==
    /\ pc[Sim] = "tasks"
    /\ \A t \in Threads : pc[t] # "callback"
    /\ paused' = PausedAfter(batch, Ran(batch))
    /\ IF Ran(batch) = Len(batch)
       THEN /\ pc' = [pc EXCEPT ![Sim] = "begin"]
            /\ UNCHANGED <<owner, batch, first, steps>>
       ELSE Thrown(Sim) /\ LocalsGone
    /\ UNCHANGED <<running, stopRequested, failure, starts, now, stepperVars, tasks,
                   posted, keyboardSlot, frameSlot>>

SimBegin ==
    /\ pc[Sim] = "begin"
    /\ keyboardSlot' = NoKeyboard
    /\ stepper' = [stepper EXCEPT ![Sim] = BeginFrame(@, now, MaxSteps)]
    /\ pc' = [pc EXCEPT ![Sim] = "steps"]
    /\ UNCHANGED <<ownerVars, timelineVars, created, taskVars, frameVars>>

\* onTick runs without the lock.
SimTick ==
    /\ pc[Sim] = "steps" /\ CanStep(stepper[Sim])
    /\ stepper' = [stepper EXCEPT ![Sim] = Step(@)]
    /\ \/ /\ steps' = steps + 1
          /\ UNCHANGED <<pc, owner, batch, first>>
       \/ /\ Sim \in Throws
          /\ Thrown(Sim) /\ LocalsGone
    /\ UNCHANGED <<running, stopRequested, failure, starts, timelineVars, created, tasks,
                   posted, keyboardSlot, frameSlot>>

\* Slip: publishes only when time moved.
SimPublish_StepsOnly ==
    /\ pc[Sim] = "steps" /\ ~CanStep(stepper[Sim])
    /\ frameSlot' = IF steps > 0
                    THEN [tick |-> stepper[Sim].consumed, paused |-> paused]
                    ELSE frameSlot
    /\ EndFrame(Sim) /\ LocalsGone
    /\ UNCHANGED <<running, stopRequested, failure, starts, timelineVars, stepperVars,
                   tasks, posted, keyboardSlot>>

\* Publishes a frame when something may have changed, and ends the frame.
SimPublish ==
    /\ pc[Sim] = "steps" /\ ~CanStep(stepper[Sim])
    /\ frameSlot' = IF steps > 0 \/ batch # <<>> \/ first
                    THEN [tick |-> stepper[Sim].consumed, paused |-> paused]
                    ELSE frameSlot
    /\ EndFrame(Sim) /\ LocalsGone
    /\ UNCHANGED <<running, stopRequested, failure, starts, timelineVars, stepperVars,
                   tasks, posted, keyboardSlot>>

-----------------------------------------------------------------------------
(***************************************************************************)
(* A frame of a subsystem: runSubsystemFrame().                            *)
(***************************************************************************)
SubBegin(t) ==
    /\ t # Sim /\ MayBeginFrame(t)
    /\ created' = created \cup {t}
    /\ stepper' = [stepper EXCEPT
            ![t] = BeginFrame(IF t \in created THEN @ ELSE NewStepper(now), now, MaxSteps)]
    /\ pc' = [pc EXCEPT ![t] = "steps"]
    /\ UNCHANGED <<ownerVars, timelineVars, taskVars, keyboardSlot, frameVars>>

\* Takes the lock, sees that the timeline runs and that a step is due: the lock is
\* kept until the callback returns.
SubCallback(t) ==
    /\ t # Sim /\ pc[t] = "steps" /\ ~paused /\ CanStep(stepper[t])
    /\ stepper' = [stepper EXCEPT ![t] = Step(@)]
    /\ pc' = [pc EXCEPT ![t] = "callback"]
    /\ UNCHANGED <<ownerVars, timelineVars, created, taskVars, keyboardSlot, frameVars>>

SubReturns(t) ==
    /\ pc[t] = "callback"
    /\ \/ pc' = [pc EXCEPT ![t] = "steps"] /\ owner' = owner
       \/ t \in Throws /\ Thrown(t)
    /\ UNCHANGED <<running, stopRequested, failure, starts, timelineVars, stepperVars,
                   taskVars, keyboardSlot, frameVars>>

\* The frame ends when nothing is due, or at once when the timeline is paused:
\* then the steps that were due are discarded with the stepper.
SubEnd(t) ==
    /\ t # Sim /\ pc[t] = "steps" /\ (paused \/ ~CanStep(stepper[t]))
    /\ stepper' = IF paused THEN [stepper EXCEPT ![t] = NewStepper(now)] ELSE stepper
    /\ EndFrame(t)
    /\ UNCHANGED <<running, stopRequested, failure, starts, timelineVars, created, taskVars,
                   keyboardSlot, frameVars>>

-----------------------------------------------------------------------------
(***************************************************************************)
(* Other threads, and time.                                                *)
(***************************************************************************)
Post(task) ==
    /\ posted < MaxPosts
    /\ tasks' = Append(tasks, task) /\ posted' = posted + 1
    /\ UNCHANGED <<ownerVars, pc, timelineVars, stepperVars, batch, keyboardSlot, frameVars>>

SubmitKeyboard(k) ==
    /\ keyboardSlot' = k
    /\ UNCHANGED <<ownerVars, pc, timelineVars, stepperVars, taskVars, frameVars>>

TakeRenderFrame ==
    /\ frameSlot # NoFrame
    /\ frameSlot' = NoFrame
    /\ UNCHANGED <<ownerVars, pc, timelineVars, stepperVars, taskVars, keyboardSlot,
                   first, steps>>

Tick ==
    /\ ~paused /\ now < MaxTime
    /\ now' = now + 1
    /\ UNCHANGED <<ownerVars, pc, paused, stepperVars, taskVars, keyboardSlot, frameVars>>

OwnerStep == Start \/ StartThreads \/ Stop \/ StopDone \/ AdvanceFrame \/ AdvanceBegin
SimStep == SimDrain \/ SimTasks \/ SimBegin \/ SimTick \/ SimPublish
SubStep(t) == SubBegin(t) \/ SubCallback(t) \/ SubReturns(t) \/ SubEnd(t)
ThreadStep(t) ==
    \/ RecordFailure(t) \/ FailureExit(t) \/ StoppedExit(t)
    \/ t = Sim /\ SimStep
    \/ SubStep(t)

Next ==
    \/ OwnerStep
    \/ \E t \in Threads : ThreadStep(t)
    \/ \E task \in Tasks : Post(task)
    \/ \E k \in Keyboards : SubmitKeyboard(k)
    \/ TakeRenderFrame
    \/ Tick

Spec == Init /\ [][Next]_vars

(***************************************************************************)
(* Fairness: every thread keeps running and its callbacks return.  The     *)
(* owner finishes a call it has begun.                                     *)
(***************************************************************************)
Fairness ==
    /\ WF_vars(StartThreads \/ StopDone \/ AdvanceBegin)
    /\ \A t \in Threads : WF_vars(ThreadStep(t))

FairSpec == Spec /\ Fairness

-----------------------------------------------------------------------------
(***************************************************************************)
(* Type invariant.                                                         *)
(***************************************************************************)
StepperType == [consumed : 0..MaxTime, target : 0..MaxTime, budget : 0..MaxSteps,
                dropped : 0..MaxTime]

\* The types of the variables.
TypeOK ==
    /\ owner \in {"idle", "starting", "stopping", "waiting", "advancing"}
    /\ running \in BOOLEAN /\ stopRequested \in BOOLEAN
    /\ failure \in Threads \cup {NoFailure}
    /\ pc \in [Threads -> {"off", "loop", "tasks", "begin", "steps", "callback",
                           "failed", "failing", "exited"}]
    /\ now \in 0..MaxTime /\ paused \in BOOLEAN
    /\ stepper \in [Threads -> StepperType] /\ created \subseteq Threads
    /\ tasks \in Seq(Tasks) /\ batch \in Seq(Tasks)
    /\ posted \in 0..MaxPosts /\ starts \in 0..MaxStarts
    /\ keyboardSlot \in Keyboards \cup {NoKeyboard}
    /\ first \in BOOLEAN /\ steps \in 0..MaxSteps

-----------------------------------------------------------------------------
(***************************************************************************)
(* Safety.                                                                 *)
(***************************************************************************)
\* A posted pause waits for the subsystem callbacks in progress, and none starts
\* until the timeline is unpaused (the two uses of timelineMutex_).
PausedMeansQuiet == paused => \A t \in Threads : pc[t] # "callback"

\* Frames that the owner runs never overlap a frame of a thread, and one at a time
\* has its turn: after a failure the threads may still be finishing a callback when
\* running() is already false (the joinAll in advanceFrame).
OwnerRunsAlone ==
    owner = "advancing" => \E t \in Threads :
        /\ pc[t] \in {"loop", "tasks", "begin", "steps", "callback"}
        /\ \A u \in Threads \ {t} : pc[u] = "off"

\* Within a frame the budget covers what is due, so a frame never ends with ticks
\* that were neither run nor counted as dropped (Stepper::beginFrame).
BudgetCoversBacklog ==
    \A t \in Threads : pc[t] \in {"steps", "callback"} =>
        stepper[t].target - stepper[t].consumed <= stepper[t].budget

\* No thread steps backwards or repeats a tick, whatever is paused, discarded,
\* stopped or restarted.
TicksNeverRepeat ==
    [][\A t \in Threads : t \in created => stepper'[t].consumed >= stepper[t].consumed]_vars

\* What the application last drew is current when the sim has nothing to do: the
\* newest frame shows the last tick and whether the timeline is paused.
FrameIsCurrent ==
    /\ frameSlot # NoFrame /\ pc[Sim] = "loop" /\ owner = "idle" /\ failure = NoFailure
    /\ starts = 1
    => frameSlot.tick = stepper[Sim].consumed /\ frameSlot.paused = paused

-----------------------------------------------------------------------------
(***************************************************************************)
(* Liveness.                                                               *)
(***************************************************************************)
\* start(), stop() and advanceFrame() return: none waits for a thread that goes on.
OwnerReturns == owner # "idle" ~> owner = "idle"

\* One failure stops every thread, subsystems included (recordFailure).
FailureStopsAll == failure # NoFailure ~> AllJoinable

\* While the threads run, a posted task runs (or is lost to a task before it that
\* threw) before long.
TasksRun ==
    tasks # <<>> /\ running ~> (tasks = <<>> /\ pc[Sim] # "tasks") \/ stopRequested
=============================================================================
