------------------------ MODULE SimulationThreadProofs ------------------------
(***************************************************************************)
(* What holds of a SimulationThread for any number of subsystems, any step *)
(* limit and any bounds.                                                   *)
(***************************************************************************)
EXTENDS SimulationThread, FiniteSetTheorems, TLAPS

USE SimulationAssumption

(***************************************************************************)
(* The stepper.                                                            *)
(***************************************************************************)
\* A stepper stands where its timeline was: it has not consumed, and does not
\* aim at, more than that, and dropped no more than it consumed.
Behind(s, n) == s.dropped <= s.consumed /\ s.consumed <= n /\ s.target <= n

\* What is due in the frame is covered by the budget.
Covered(s) == s.target - s.consumed <= s.budget

LEMMA NewStepperFacts ==
    ASSUME NEW n \in 0..MaxTime
    PROVE  /\ NewStepper(n) \in StepperType
           /\ Behind(NewStepper(n), n)
           /\ Covered(NewStepper(n))
           /\ NewStepper(n).consumed = n
BY DEF NewStepper, StepperType, Behind, Covered

LEMMA BeginFrameFacts ==
    ASSUME NEW n \in 0..MaxTime, NEW s \in StepperType, Behind(s, n)
    PROVE  /\ BeginFrame(s, n, MaxSteps) \in StepperType
           /\ Behind(BeginFrame(s, n, MaxSteps), n)
           /\ Covered(BeginFrame(s, n, MaxSteps))
           /\ BeginFrame(s, n, MaxSteps).consumed >= s.consumed
           /\ BeginFrame(s, n, MaxSteps).budget = MaxSteps
BY DEF BeginFrame, StepperType, Behind, Covered

LEMMA StepFacts ==
    ASSUME NEW n \in 0..MaxTime, NEW s \in StepperType, Behind(s, n), CanStep(s)
    PROVE  /\ Step(s) \in StepperType
           /\ Behind(Step(s), n)
           /\ Covered(s) => Covered(Step(s))
           /\ Step(s).consumed >= s.consumed
           /\ Step(s).budget = s.budget - 1
BY DEF Step, CanStep, StepperType, Behind, Covered

-----------------------------------------------------------------------------
(***************************************************************************)
(* Frames of the owner do not overlap.  The property is inductive: in      *)
(* advanceFrame() only the thread whose turn it is can take a step.        *)
(***************************************************************************)
States == {"off", "loop", "tasks", "begin", "steps", "callback", "failed", "failing", "exited"}
PcType == pc \in [Threads -> States]

LEMMA SimIsThread == Sim \in Threads /\ 1 \in Threads
BY DEF Sim, Threads

LEMMA AloneInit == Init => PcType /\ OwnerRunsAlone
BY DEF Init, PcType, States, OwnerRunsAlone

LEMMA AloneEnd ==
    ASSUME NEW t \in Threads, PcType, OwnerRunsAlone, EndFrame(t),
           pc[t] \notin {"off", "failed", "failing", "exited"}
    PROVE  PcType' /\ OwnerRunsAlone'
<1>1. PcType'
  BY DEF EndFrame, PcType, States
<1>2. CASE owner # "advancing"
  BY <1>1, <1>2 DEF EndFrame, OwnerRunsAlone
<1>3. CASE owner = "advancing" /\ t = Sim
  BY <1>1, <1>3 DEF EndFrame, OwnerRunsAlone
<1>4. CASE owner = "advancing" /\ t # Sim
  <2>1. t + 1 \in Threads /\ t + 1 # t
    BY <1>4 DEF Threads, Sim
  <2>2. \A u \in Threads \ {t} : pc[u] = "off"
    BY <1>4 DEF OwnerRunsAlone
  <2>3. pc' = [pc EXCEPT ![t] = "off", ![t + 1] = "loop"]
    BY <1>4 DEF EndFrame
  <2>4. pc'[t + 1] = "loop" /\ \A u \in Threads \ {t + 1} : pc'[u] = "off"
    BY <2>1, <2>2, <2>3 DEF PcType
  <2> QED
    BY <1>1, <2>1, <2>4 DEF OwnerRunsAlone
<1> QED
  BY <1>2, <1>3, <1>4

LEMMA AloneThrown ==
    ASSUME NEW t \in Threads, PcType, OwnerRunsAlone, Thrown(t)
    PROVE  PcType' /\ OwnerRunsAlone'
BY DEF Thrown, PcType, States, OwnerRunsAlone

\* A step that moves the thread whose turn it is to another state of its frame.
LEMMA AloneMove ==
    ASSUME NEW t \in Threads, NEW s \in {"loop", "tasks", "begin", "steps", "callback"},
           PcType, OwnerRunsAlone, pc[t] \notin {"off", "failed", "failing", "exited"},
           pc' = [pc EXCEPT ![t] = s], owner' = owner
    PROVE  PcType' /\ OwnerRunsAlone'
<1>1. PcType'
  BY DEF PcType, States
<1>2. ASSUME owner = "advancing"
      PROVE  \A u \in Threads \ {t} : pc[u] = "off"
  BY <1>2 DEF OwnerRunsAlone
<1> QED
  BY <1>1, <1>2 DEF PcType, OwnerRunsAlone

\* A step that takes thread t, while it runs on its own, out of its frames.
LEMMA AloneLeave ==
    ASSUME NEW t \in Threads, NEW s \in States, PcType, OwnerRunsAlone,
           pc[t] \in {"failed", "failing"} \/ owner # "advancing",
           pc' = [pc EXCEPT ![t] = s], owner' = owner
    PROVE  PcType' /\ OwnerRunsAlone'
BY DEF PcType, States, OwnerRunsAlone

LEMMA AloneSubStep ==
    ASSUME PcType, OwnerRunsAlone, NEW t \in Threads, SubStep(t)
    PROVE  PcType' /\ OwnerRunsAlone'
<1>1. CASE SubBegin(t)
  BY <1>1, AloneMove DEF SubBegin, MayBeginFrame, ownerVars
<1>2. CASE SubCallback(t)
  BY <1>2, AloneMove DEF SubCallback, ownerVars
<1>3. CASE SubReturns(t)
  BY <1>3, AloneMove, AloneThrown DEF SubReturns
<1>4. CASE SubEnd(t)
  BY <1>4, AloneEnd DEF SubEnd
<1> QED
  BY <1>1, <1>2, <1>3, <1>4 DEF SubStep

LEMMA AloneSimStep ==
    ASSUME PcType, OwnerRunsAlone, SimStep
    PROVE  PcType' /\ OwnerRunsAlone'
<1> USE SimIsThread
<1>1. CASE SimDrain
  BY <1>1, AloneMove DEF SimDrain, MayBeginFrame, ownerVars
<1>2. CASE SimTasks
  BY <1>2, AloneMove, AloneThrown DEF SimTasks
<1>3. CASE SimBegin
  BY <1>3, AloneMove DEF SimBegin, ownerVars
<1>4. CASE SimTick
  <2>1. CASE Thrown(Sim)
    BY <2>1, AloneThrown
  <2>2. CASE UNCHANGED <<pc, owner>>
    BY <2>2 DEF PcType, OwnerRunsAlone
  <2> QED
    BY <1>4, <2>1, <2>2 DEF SimTick
<1>5. CASE SimPublish
  BY <1>5, AloneEnd DEF SimPublish
<1> QED
  BY <1>1, <1>2, <1>3, <1>4, <1>5 DEF SimStep

LEMMA AloneOwnerStep ==
    ASSUME PcType, OwnerRunsAlone, OwnerStep
    PROVE  PcType' /\ OwnerRunsAlone'
<1>1. CASE Start \/ Stop \/ AdvanceFrame
  BY <1>1 DEF Start, Stop, AdvanceFrame, PcType, OwnerRunsAlone
<1>2. CASE StartThreads \/ StopDone
  BY <1>2 DEF StartThreads, StopDone, Joined, PcType, States, OwnerRunsAlone
<1>3. CASE AdvanceBegin
  BY <1>3, SimIsThread DEF AdvanceBegin, AllJoinable, Joined, PcType, States, OwnerRunsAlone
<1> QED
  BY <1>1, <1>2, <1>3 DEF OwnerStep

LEMMA AloneNext == PcType /\ OwnerRunsAlone /\ [Next]_vars => PcType' /\ OwnerRunsAlone'
<1> SUFFICES ASSUME PcType, OwnerRunsAlone, [Next]_vars
             PROVE  PcType' /\ OwnerRunsAlone'
  OBVIOUS
<1>1. CASE OwnerStep
  BY <1>1, AloneOwnerStep
<1>2. ASSUME NEW t \in Threads, ThreadStep(t)
      PROVE  PcType' /\ OwnerRunsAlone'
  <2>1. CASE RecordFailure(t)
    BY <2>1, AloneLeave DEF RecordFailure, States
  <2>2. CASE FailureExit(t)
    BY <2>2, AloneLeave DEF FailureExit, Returns, States
  <2>3. CASE StoppedExit(t)
    BY <2>3, AloneLeave DEF StoppedExit, Returns, States
  <2>4. CASE SimStep
    BY <2>4, AloneSimStep
  <2>5. CASE SubStep(t)
    BY <2>5, AloneSubStep
  <2> QED
    BY <1>2, <2>1, <2>2, <2>3, <2>4, <2>5 DEF ThreadStep
<1>3. CASE UNCHANGED <<pc, owner>>
  BY <1>3 DEF PcType, OwnerRunsAlone
<1> QED
  BY <1>1, <1>2, <1>3
  DEF Next, Post, SubmitKeyboard, TakeRenderFrame, Tick, vars, ownerVars

\* advanceFrame() never overlaps a frame of a thread, however the threads ended
\* (the joinAll in SimulationThread::advanceFrame).
THEOREM RunsAlone == Spec => []OwnerRunsAlone
BY AloneInit, AloneNext, PTL DEF Spec

-----------------------------------------------------------------------------
(***************************************************************************)
(* A pause and the callbacks.  Only SubCallback takes a thread into its    *)
(* callback, and it needs a timeline that is not paused; only SimTasks     *)
(* pauses the timeline, and it needs that no thread is in its callback.    *)
(***************************************************************************)
NoNewCallback == \A t \in Threads : pc'[t] = "callback" => pc[t] = "callback"

LEMMA MoveQuiet ==
    ASSUME PcType, NEW t \in Threads, NEW s \in States \ {"callback"},
           pc' = [pc EXCEPT ![t] = s]
    PROVE  NoNewCallback
BY DEF PcType, NoNewCallback

LEMMA EndFrameQuiet ==
    ASSUME PcType, NEW t \in Threads, EndFrame(t) \/ Thrown(t)
    PROVE  NoNewCallback
<1>1. CASE EndFrame(t) /\ owner = "advancing" /\ t # Sim
  <2>1. t + 1 \in Threads /\ pc' = [pc EXCEPT ![t] = "off", ![t + 1] = "loop"]
    BY <1>1 DEF Threads, Sim, EndFrame
  <2> QED
    BY <2>1 DEF PcType, NoNewCallback
<1>2. CASE EndFrame(t) /\ ~(owner = "advancing" /\ t # Sim)
  BY <1>2 DEF EndFrame, PcType, NoNewCallback
<1>3. CASE Thrown(t)
  BY <1>3 DEF Thrown, PcType, NoNewCallback
<1> QED
  BY <1>1, <1>2, <1>3

LEMMA QuietOwnerStep ==
    ASSUME PcType, OwnerStep
    PROVE  NoNewCallback /\ paused' = paused
<1>1. CASE Start \/ Stop \/ AdvanceFrame
  BY <1>1 DEF Start, Stop, AdvanceFrame, NoNewCallback, timelineVars
<1>2. CASE StartThreads \/ StopDone \/ AdvanceBegin
  BY <1>2 DEF StartThreads, StopDone, AdvanceBegin, Joined, NoNewCallback, timelineVars
<1> QED
  BY <1>1, <1>2 DEF OwnerStep

LEMMA QuietSimStep ==
    ASSUME PcType, PausedMeansQuiet, SimStep
    PROVE  PausedMeansQuiet'
<1> USE SimIsThread
<1>1. CASE SimTasks
  <2>1. NoNewCallback
    BY <1>1, MoveQuiet, EndFrameQuiet DEF SimTasks, States
  <2> QED
    BY <1>1, <2>1 DEF SimTasks, NoNewCallback, PausedMeansQuiet
<1>2. ASSUME SimDrain \/ SimBegin \/ SimTick \/ SimPublish
      PROVE  NoNewCallback /\ paused' = paused
  <2>1. CASE SimDrain
    <3>1. paused' = paused
      BY <2>1 DEF SimDrain, timelineVars
    <3>2. CASE tasks = <<>>
      <4>1. pc' = [pc EXCEPT ![Sim] = "begin"]
        BY <2>1, <3>2 DEF SimDrain
      <4> QED
        BY <3>1, <4>1, MoveQuiet DEF States
    <3>3. CASE tasks # <<>>
      <4>1. pc' = [pc EXCEPT ![Sim] = "tasks"]
        BY <2>1, <3>3 DEF SimDrain
      <4> QED
        BY <3>1, <4>1, MoveQuiet DEF States
    <3> QED
      BY <3>2, <3>3
  <2>2. CASE SimBegin
    BY <2>2, MoveQuiet DEF SimBegin, States, timelineVars
  <2>3. CASE SimTick
    <3>1. paused' = paused /\ (UNCHANGED pc \/ Thrown(Sim))
      BY <2>3 DEF SimTick, timelineVars
    <3> QED
      BY <3>1, EndFrameQuiet DEF NoNewCallback
  <2>4. CASE SimPublish
    BY <2>4, EndFrameQuiet DEF SimPublish, timelineVars
  <2> QED
    BY <1>2, <2>1, <2>2, <2>3, <2>4
<1> QED
  BY <1>1, <1>2 DEF SimStep, NoNewCallback, PausedMeansQuiet

LEMMA QuietSubStep ==
    ASSUME PcType, PausedMeansQuiet, NEW t \in Threads, SubStep(t)
    PROVE  PausedMeansQuiet'
<1>1. CASE SubCallback(t)
  BY <1>1 DEF SubCallback, timelineVars, PausedMeansQuiet
<1>2. ASSUME SubBegin(t) \/ SubReturns(t) \/ SubEnd(t)
      PROVE  NoNewCallback /\ paused' = paused
  <2>1. CASE SubBegin(t)
    BY <2>1, MoveQuiet DEF SubBegin, States, timelineVars
  <2>2. CASE SubReturns(t)
    BY <2>2, MoveQuiet, EndFrameQuiet DEF SubReturns, States, timelineVars
  <2>3. CASE SubEnd(t)
    BY <2>3, EndFrameQuiet DEF SubEnd, timelineVars
  <2> QED
    BY <1>2, <2>1, <2>2, <2>3
<1> QED
  BY <1>1, <1>2 DEF SubStep, NoNewCallback, PausedMeansQuiet

LEMMA QuietNext ==
    PcType /\ PausedMeansQuiet /\ [Next]_vars => PausedMeansQuiet'
<1> SUFFICES ASSUME PcType, PausedMeansQuiet, [Next]_vars
             PROVE  PausedMeansQuiet'
  OBVIOUS
<1>1. CASE OwnerStep
  BY <1>1, QuietOwnerStep DEF NoNewCallback, PausedMeansQuiet
<1>2. ASSUME NEW t \in Threads, ThreadStep(t)
      PROVE  PausedMeansQuiet'
  <2>1. CASE RecordFailure(t)
    BY <2>1, MoveQuiet DEF RecordFailure, States, timelineVars, NoNewCallback, PausedMeansQuiet
  <2>2. CASE FailureExit(t)
    BY <2>2, MoveQuiet
    DEF FailureExit, Returns, States, timelineVars, NoNewCallback, PausedMeansQuiet
  <2>3. CASE StoppedExit(t)
    BY <2>3, MoveQuiet
    DEF StoppedExit, Returns, States, timelineVars, NoNewCallback, PausedMeansQuiet
  <2>4. CASE SimStep
    BY <2>4, QuietSimStep
  <2>5. CASE SubStep(t)
    BY <2>5, QuietSubStep
  <2> QED
    BY <1>2, <2>1, <2>2, <2>3, <2>4, <2>5 DEF ThreadStep
<1>3. CASE UNCHANGED <<pc, paused>>
  BY <1>3 DEF PausedMeansQuiet
<1> QED
  BY <1>1, <1>2, <1>3
  DEF Next, Post, SubmitKeyboard, TakeRenderFrame, Tick, vars, timelineVars

\* Once a posted pause has run, no subsystem callback is in progress, however many
\* subsystems there are (timelineMutex_, exclusive for tasks, shared for callbacks).
THEOREM PauseIsQuiet == Spec => []PausedMeansQuiet
<1>1. Init => PausedMeansQuiet
  BY DEF Init, PausedMeansQuiet
<1> QED
  BY <1>1, AloneInit, AloneNext, QuietNext, PTL DEF Spec

-----------------------------------------------------------------------------
(***************************************************************************)
(* The steppers.  A frame takes at most MaxSteps steps because every step  *)
(* uses up budget, and covers its backlog because beginFrame() drops the   *)
(* rest; no stepper is ahead of the timeline, so starting afresh at the    *)
(* timeline's time, after a pause, never goes back.                        *)
(***************************************************************************)
InSteps(t) == pc[t] \in {"steps", "callback"}

SimSteps ==
    /\ steps \in 0..MaxSteps
    /\ pc[Sim] \in {"tasks", "begin"} => steps = 0
    /\ InSteps(Sim) => steps + stepper[Sim].budget <= MaxSteps

TimeType == now \in 0..MaxTime /\ paused \in BOOLEAN

StepperInv ==
    /\ TimeType
    /\ stepper \in [Threads -> StepperType] /\ created \subseteq Threads
    /\ \A t \in Threads : Behind(stepper[t], now)
    /\ \A t \in Threads : InSteps(t) => Covered(stepper[t])
    /\ SimSteps

NoRepeat == \A t \in Threads : t \in created => stepper'[t].consumed >= stepper[t].consumed

LEMMA StepperInitial == Init => StepperInv
<1> SUFFICES ASSUME Init PROVE StepperInv
  OBVIOUS
<1>1. TimeType
  <2>1. paused \in BOOLEAN
    BY Zenon DEF Init
  <2>2. 0 \in 0..MaxTime
    BY DEF SimulationAssumption
  <2> QED
    BY <2>1, <2>2 DEF Init, TimeType
<1>2. \A t \in Threads : stepper[t] = NewStepper(0) /\ pc[t] = "off"
  BY DEF Init
<1>3. stepper \in [Threads -> StepperType] /\ created \subseteq Threads
  BY NewStepperFacts DEF Init
<1>4. \A t \in Threads : Behind(stepper[t], now) /\ Covered(stepper[t])
  BY <1>2, NewStepperFacts DEF Init
<1>5. SimSteps
  BY <1>2, SimIsThread DEF Init, SimSteps, InSteps
<1> QED
  BY <1>1, <1>3, <1>4, <1>5 DEF StepperInv

\* A step that changes no stepper, starts no frame's steps and, on the sim, leaves
\* the count of steps alone or resets it.
LEMMA StepperKept ==
    ASSUME StepperInv, UNCHANGED <<stepper, created>>, steps' \in {steps, 0},
           TimeType', now' >= now,
           \A t \in Threads : InSteps(t)' => InSteps(t),
           pc'[Sim] \in {"tasks", "begin"} => pc[Sim] \in {"tasks", "begin"}
    PROVE  StepperInv' /\ NoRepeat
<1>1. \A t \in Threads : stepper[t] \in StepperType
  BY DEF StepperInv
<1>2. \A t \in Threads : Behind(stepper'[t], now')
  BY <1>1 DEF StepperInv, Behind, StepperType, TimeType
<1>3. SimSteps'
  <2>1. stepper[Sim].budget \in 0..MaxSteps
    BY <1>1, SimIsThread DEF StepperType
  <2> QED
    BY <2>1, SimIsThread DEF StepperInv, SimSteps, InSteps, SimulationAssumption
<1>4. NoRepeat
  BY <1>1 DEF NoRepeat, StepperType
<1> QED
  BY <1>2, <1>3, <1>4 DEF StepperInv, InSteps

\* A step that gives thread t the stepper s.
LEMMA StepperSet ==
    ASSUME StepperInv, NEW t \in Threads, NEW s \in StepperType, Behind(s, now),
           stepper' = [stepper EXCEPT ![t] = s],
           created' \subseteq Threads, UNCHANGED <<now, paused>>,
           \A u \in Threads \ {t} : InSteps(u)' => InSteps(u),
           InSteps(t)' => Covered(s),
           t \in created => s.consumed >= stepper[t].consumed,
           SimSteps'
    PROVE  StepperInv' /\ NoRepeat
<1>1. \A u \in Threads : stepper[u] \in StepperType
  BY DEF StepperInv
<1>2. /\ stepper' \in [Threads -> StepperType] /\ stepper'[t] = s
      /\ \A u \in Threads \ {t} : stepper'[u] = stepper[u]
  BY DEF StepperInv
<1>3. \A u \in Threads : Behind(stepper'[u], now')
  BY <1>2 DEF StepperInv
<1>4. \A u \in Threads : InSteps(u)' => Covered(stepper'[u])
  BY <1>2 DEF StepperInv
<1>5. NoRepeat
  BY <1>1, <1>2 DEF NoRepeat, StepperType
<1>6. TimeType'
  BY DEF StepperInv, TimeType
<1> QED
  BY <1>2, <1>3, <1>4, <1>5, <1>6 DEF StepperInv

Resting == {"off", "loop", "failed"}

LEMMA FrameOver ==
    ASSUME PcType, NEW t \in Threads, EndFrame(t) \/ Thrown(t)
    PROVE  /\ \A u \in Threads : pc'[u] \in {pc[u]} \cup Resting
           /\ pc'[t] \in Resting
<1>1. CASE EndFrame(t) /\ owner = "advancing" /\ t # Sim
  <2>1. t + 1 \in Threads /\ t + 1 # t
        /\ pc' = [pc EXCEPT ![t] = "off", ![t + 1] = "loop"]
    BY <1>1 DEF Threads, Sim, EndFrame
  <2> QED
    BY <2>1 DEF PcType, Resting
<1>2. CASE EndFrame(t) /\ ~(owner = "advancing" /\ t # Sim)
  BY <1>2 DEF EndFrame, PcType, Resting
<1>3. CASE Thrown(t)
  BY <1>3 DEF Thrown, PcType, Resting
<1> QED
  BY <1>1, <1>2, <1>3

\* A subsystem's step leaves the steps of the sim's frame alone.
LEMMA SimStepsKept ==
    ASSUME StepperInv, NEW t \in Threads, t # Sim, NEW s \in StepperType,
           stepper' = [stepper EXCEPT ![t] = s], steps' = steps,
           pc'[Sim] \in {pc[Sim]} \cup Resting
    PROVE  SimSteps'
<1>1. stepper'[Sim] = stepper[Sim]
  BY SimIsThread DEF StepperInv
<1>2. SimSteps
  BY DEF StepperInv
<1> QED
  BY <1>1, <1>2 DEF SimSteps, InSteps, Resting

LEMMA StepperSubStep ==
    ASSUME StepperInv, PcType, NEW t \in Threads, SubStep(t)
    PROVE  StepperInv' /\ NoRepeat
<1> USE SimIsThread
<1>0. /\ now \in 0..MaxTime /\ stepper[t] \in StepperType /\ Behind(stepper[t], now)
      /\ created \subseteq Threads
  BY DEF StepperInv, TimeType
<1>1. CASE SubBegin(t)
  <2> DEFINE old == IF t \in created THEN stepper[t] ELSE NewStepper(now)
             s == BeginFrame(old, now, MaxSteps)
  <2>1. old \in StepperType /\ Behind(old, now)
    BY <1>0, NewStepperFacts
  <2> HIDE DEF old
  <2>2. /\ s \in StepperType /\ Behind(s, now) /\ Covered(s)
        /\ s.consumed >= old.consumed
    BY <1>0, <2>1, BeginFrameFacts
  <2> HIDE DEF s
  <2>3. stepper' = [stepper EXCEPT ![t] = s]
    BY <1>1 DEF SubBegin, s, old
  <2>4. /\ t # Sim /\ pc' = [pc EXCEPT ![t] = "steps"] /\ steps' = steps
        /\ created' \subseteq Threads /\ UNCHANGED <<now, paused>>
    BY <1>0, <1>1 DEF SubBegin, timelineVars, frameVars
  <2>5. t \in created => s.consumed >= stepper[t].consumed
    BY <2>2 DEF old
  <2>6. SimSteps'
    BY <2>2, <2>3, <2>4, SimStepsKept DEF PcType
  <2> QED
    BY <2>2, <2>3, <2>4, <2>5, <2>6, StepperSet DEF PcType, InSteps
<1>2. CASE SubCallback(t)
  <2> DEFINE s == Step(stepper[t])
  <2>1. Covered(stepper[t]) /\ CanStep(stepper[t])
    BY <1>2 DEF SubCallback, StepperInv, InSteps
  <2>2. /\ s \in StepperType /\ Behind(s, now) /\ Covered(s)
        /\ s.consumed >= stepper[t].consumed
    BY <1>0, <2>1, StepFacts
  <2> HIDE DEF s
  <2>3. stepper' = [stepper EXCEPT ![t] = s]
    BY <1>2 DEF SubCallback, s
  <2>4. /\ t # Sim /\ pc' = [pc EXCEPT ![t] = "callback"] /\ steps' = steps
        /\ created' \subseteq Threads /\ UNCHANGED <<now, paused>>
    BY <1>0, <1>2 DEF SubCallback, timelineVars, frameVars
  <2>5. SimSteps'
    BY <2>2, <2>3, <2>4, SimStepsKept DEF PcType
  <2> QED
    BY <2>2, <2>3, <2>4, <2>5, StepperSet DEF PcType, InSteps
<1>3. CASE SubReturns(t)
  <2>1. UNCHANGED <<stepper, created, steps>> /\ UNCHANGED <<now, paused>>
    BY <1>3 DEF SubReturns, stepperVars, frameVars, timelineVars
  <2>2. TimeType' /\ now' >= now
    BY <2>1, <1>0 DEF StepperInv, TimeType
  <2>3. CASE pc' = [pc EXCEPT ![t] = "steps"]
    <3>1. \A u \in Threads : InSteps(u)' => InSteps(u)
      BY <1>3, <2>3 DEF SubReturns, InSteps, PcType
    <3>2. pc'[Sim] \in {"tasks", "begin"} => pc[Sim] \in {"tasks", "begin"}
      BY <2>3 DEF PcType
    <3> QED
      BY <2>1, <2>2, <3>1, <3>2, StepperKept
  <2>4. CASE Thrown(t)
    <3>1. \A u \in Threads : InSteps(u)' => InSteps(u)
      BY <2>4, FrameOver DEF InSteps, Resting
    <3>2. pc'[Sim] \in {"tasks", "begin"} => pc[Sim] \in {"tasks", "begin"}
      BY <2>4, FrameOver DEF Resting
    <3> QED
      BY <2>1, <2>2, <3>1, <3>2, StepperKept
  <2> QED
    BY <1>3, <2>3, <2>4 DEF SubReturns
<1>4. CASE SubEnd(t)
  <2>1. /\ t # Sim /\ EndFrame(t) /\ steps' = steps /\ created' = created
        /\ UNCHANGED <<now, paused>>
    BY <1>4 DEF SubEnd, frameVars, timelineVars
  <2>2. /\ \A u \in Threads : pc'[u] \in {pc[u]} \cup Resting
        /\ pc'[t] \in Resting
    BY <2>1, FrameOver
  <2>3. \A u \in Threads : InSteps(u)' => InSteps(u)
    BY <2>2 DEF InSteps, Resting
  <2>4. CASE paused
    <3> DEFINE s == NewStepper(now)
    <3>1. s \in StepperType /\ Behind(s, now) /\ Covered(s) /\ s.consumed = now
      BY <1>0, NewStepperFacts
    <3> HIDE DEF s
    <3>2. stepper' = [stepper EXCEPT ![t] = s]
      BY <1>4, <2>4 DEF SubEnd, s
    <3>3. s.consumed >= stepper[t].consumed
      BY <1>0, <3>1 DEF Behind, StepperType
    <3>4. SimSteps'
      BY <2>1, <2>2, <3>1, <3>2, SimStepsKept
    <3> QED
      BY <1>0, <2>1, <2>3, <3>1, <3>2, <3>3, <3>4, StepperSet
  <2>5. CASE ~paused
    <3>1. stepper' = stepper
      BY <1>4, <2>5 DEF SubEnd
    <3>2. TimeType' /\ now' >= now
      BY <2>1, <1>0 DEF StepperInv, TimeType
    <3>3. pc'[Sim] \in {"tasks", "begin"} => pc[Sim] \in {"tasks", "begin"}
      BY <2>2 DEF Resting
    <3> QED
      BY <2>1, <2>3, <3>1, <3>2, <3>3, StepperKept
  <2> QED
    BY <2>4, <2>5
<1> QED
  BY <1>1, <1>2, <1>3, <1>4 DEF SubStep

LEMMA StepperSimStep ==
    ASSUME StepperInv, PcType, SimStep
    PROVE  StepperInv' /\ NoRepeat
<1> USE SimIsThread
<1> DEFINE cur == stepper[Sim]
<1>0. /\ now \in 0..MaxTime /\ cur \in StepperType /\ Behind(cur, now)
      /\ created \subseteq Threads /\ SimSteps
  BY DEF StepperInv, TimeType
<1>1. CASE SimDrain
  <2> DEFINE s == IF Sim \in created THEN cur ELSE NewStepper(now)
  <2>1. s \in StepperType /\ Behind(s, now)
    BY <1>0, NewStepperFacts
  <2>2. stepper' = [stepper EXCEPT ![Sim] = s]
    <3>1. stepper \in [Threads -> StepperType]
      BY DEF StepperInv
    <3> QED
      BY <1>1, <3>1 DEF SimDrain
  <2>3. Sim \in created => s.consumed >= cur.consumed
    BY <1>0 DEF StepperType
  <2> HIDE DEF s
  <2>4. /\ pc'[Sim] \in {"begin", "tasks"} /\ steps' = 0
        /\ \A u \in Threads \ {Sim} : pc'[u] = pc[u]
    BY <1>1 DEF SimDrain, PcType
  <2>5. created' \subseteq Threads /\ UNCHANGED <<now, paused>>
    BY <1>0, <1>1 DEF SimDrain, timelineVars
  <2>6. SimSteps'
    BY <2>4 DEF SimSteps, InSteps, SimulationAssumption
  <2> QED
    BY <2>1, <2>2, <2>3, <2>4, <2>5, <2>6, StepperSet DEF InSteps
<1>2. CASE SimTasks
  <2>1. UNCHANGED <<stepper, created>> /\ steps' \in {steps, 0} /\ now' = now
    BY <1>2 DEF SimTasks, stepperVars, LocalsGone
  <2>2. paused' \in BOOLEAN
    BY <1>2 DEF SimTasks, PausedAfter
  <2>3. TimeType' /\ now' >= now
    BY <1>0, <2>1, <2>2 DEF StepperInv, TimeType
  <2>4. \A u \in Threads : pc'[u] \in {pc[u], "begin"} \cup Resting
    BY <1>2, FrameOver DEF SimTasks, PcType
  <2>5. \A u \in Threads : InSteps(u)' => InSteps(u)
    BY <2>4 DEF InSteps, Resting
  <2> QED
    BY <1>2, <2>1, <2>3, <2>5, StepperKept DEF SimTasks
<1>3. CASE SimBegin
  <2> DEFINE s == BeginFrame(cur, now, MaxSteps)
  <2>1. /\ s \in StepperType /\ Behind(s, now) /\ Covered(s)
        /\ s.consumed >= cur.consumed /\ s.budget = MaxSteps
    BY <1>0, BeginFrameFacts
  <2> HIDE DEF s
  <2>2. stepper' = [stepper EXCEPT ![Sim] = s]
    BY <1>3 DEF SimBegin, s
  <2>3. /\ pc[Sim] = "begin" /\ pc' = [pc EXCEPT ![Sim] = "steps"]
        /\ steps' = steps /\ created' = created /\ UNCHANGED <<now, paused>>
    BY <1>3 DEF SimBegin, frameVars, timelineVars
  <2>4. stepper'[Sim] = s /\ pc'[Sim] = "steps"
    BY <2>2, <2>3 DEF StepperInv, PcType
  <2>5. SimSteps'
    BY <1>0, <2>1, <2>3, <2>4 DEF SimSteps, SimulationAssumption
  <2> QED
    BY <1>0, <2>1, <2>2, <2>3, <2>5, StepperSet DEF PcType, InSteps
<1>4. CASE SimTick
  <2> DEFINE s == Step(cur)
  <2>1. Covered(cur) /\ CanStep(cur) /\ steps + cur.budget <= MaxSteps
    BY <1>0, <1>4 DEF SimTick, StepperInv, InSteps, SimSteps
  <2>2. /\ s \in StepperType /\ Behind(s, now) /\ Covered(s)
        /\ s.consumed >= cur.consumed /\ s.budget = cur.budget - 1
    BY <1>0, <2>1, StepFacts
  <2> HIDE DEF s
  <2>3. stepper' = [stepper EXCEPT ![Sim] = s]
    BY <1>4 DEF SimTick, s
  <2>4. created' = created /\ UNCHANGED <<now, paused>> /\ stepper'[Sim] = s
    BY <1>4, <2>3 DEF SimTick, timelineVars, StepperInv
  <2>5. CASE steps' = steps + 1 /\ UNCHANGED pc
    <3>1. SimSteps'
      BY <1>0, <1>4, <2>1, <2>2, <2>4, <2>5
      DEF SimTick, SimSteps, InSteps, StepperType, SimulationAssumption
    <3> QED
      BY <1>0, <2>2, <2>3, <2>4, <2>5, <3>1, StepperSet DEF InSteps
  <2>6. CASE Thrown(Sim) /\ steps' = 0
    <3>1. /\ \A u \in Threads : pc'[u] \in {pc[u]} \cup Resting
          /\ pc'[Sim] \in Resting
      BY <2>6, FrameOver
    <3>2. SimSteps'
      BY <2>6, <3>1 DEF SimSteps, InSteps, Resting, SimulationAssumption
    <3>3. \A u \in Threads : InSteps(u)' => InSteps(u)
      BY <3>1 DEF InSteps, Resting
    <3> QED
      BY <1>0, <2>2, <2>3, <2>4, <3>2, <3>3, StepperSet
  <2> QED
    BY <1>4, <2>5, <2>6 DEF SimTick, LocalsGone
<1>5. CASE SimPublish
  <2>1. /\ UNCHANGED <<stepper, created, now, paused>> /\ steps' = 0
        /\ EndFrame(Sim)
    BY <1>5 DEF SimPublish, stepperVars, timelineVars, LocalsGone
  <2>2. \A u \in Threads : pc'[u] \in {pc[u]} \cup Resting
    BY <2>1, FrameOver
  <2>3. TimeType' /\ now' >= now
    BY <1>0, <2>1 DEF StepperInv, TimeType
  <2>4. \A u \in Threads : InSteps(u)' => InSteps(u)
    BY <2>2 DEF InSteps, Resting
  <2>5. pc'[Sim] \in {"tasks", "begin"} => pc[Sim] \in {"tasks", "begin"}
    BY <2>2 DEF Resting
  <2> QED
    BY <2>1, <2>3, <2>4, <2>5, StepperKept
<1> QED
  BY <1>1, <1>2, <1>3, <1>4, <1>5 DEF SimStep

LEMMA StepperNext ==
    PcType /\ StepperInv /\ [Next]_vars => StepperInv' /\ NoRepeat
<1> SUFFICES ASSUME PcType, StepperInv, [Next]_vars
             PROVE  StepperInv' /\ NoRepeat
  OBVIOUS
<1> DEFINE Still == UNCHANGED <<stepper, created, steps>> /\ TimeType' /\ now' >= now
<1> USE SimIsThread
<1>0. TimeType
  BY DEF StepperInv
<1>1. ASSUME Still, \A u \in Threads : pc'[u] \in {pc[u], "failing", "exited"} \cup Resting
      PROVE  StepperInv' /\ NoRepeat
  <2>1. \A u \in Threads : InSteps(u)' => InSteps(u)
    BY <1>1 DEF InSteps, Resting
  <2>2. pc'[Sim] \in {"tasks", "begin"} => pc[Sim] \in {"tasks", "begin"}
    BY <1>1 DEF Resting
  <2> QED
    BY <1>1, <2>1, <2>2, StepperKept
<1>2. CASE OwnerStep
  <2>1. Still
    BY <1>0, <1>2
    DEF OwnerStep, Start, StartThreads, Stop, StopDone, AdvanceFrame, AdvanceBegin,
        timelineVars, stepperVars, frameVars, TimeType
  <2>2. \A u \in Threads : pc'[u] \in {pc[u]} \cup Resting
    BY <1>2 DEF OwnerStep, Start, StartThreads, Stop, StopDone, AdvanceFrame,
        AdvanceBegin, Joined, Resting
  <2> QED
    BY <1>1, <2>1, <2>2
<1>3. ASSUME NEW t \in Threads, RecordFailure(t) \/ FailureExit(t) \/ StoppedExit(t)
      PROVE  StepperInv' /\ NoRepeat
  <2>1. Still
    BY <1>0, <1>3 DEF RecordFailure, FailureExit, StoppedExit, timelineVars, stepperVars,
        frameVars, TimeType
  <2>2. \A u \in Threads : pc'[u] \in {pc[u], "failing", "exited"}
    BY <1>3 DEF RecordFailure, FailureExit, StoppedExit, Returns, PcType
  <2> QED
    BY <1>1, <2>1, <2>2
<1>4. ASSUME NEW t \in Threads, ThreadStep(t)
      PROVE  StepperInv' /\ NoRepeat
  BY <1>3, <1>4, StepperSimStep, StepperSubStep DEF ThreadStep
<1>5. CASE Tick
  <2>1. Still
    BY <1>0, <1>5 DEF Tick, stepperVars, frameVars, TimeType, SimulationAssumption
  <2> QED
    BY <1>1, <1>5, <2>1 DEF Tick
<1>6. ASSUME UNCHANGED <<pc, timelineVars, stepperVars, steps>>
      PROVE  StepperInv' /\ NoRepeat
  <2>1. Still
    BY <1>0, <1>6 DEF timelineVars, stepperVars, TimeType
  <2> QED
    BY <1>1, <1>6, <2>1
<1>7. ASSUME NEW x, Post(x) \/ SubmitKeyboard(x) \/ TakeRenderFrame
      PROVE  StepperInv' /\ NoRepeat
  BY <1>6, <1>7 DEF Post, SubmitKeyboard, TakeRenderFrame, frameVars
<1>8. CASE UNCHANGED vars
  BY <1>6, <1>8 DEF vars, frameVars
<1> QED
  BY <1>2, <1>4, <1>5, <1>7, <1>8 DEF Next

\* Whatever is due in a frame is within its budget (Stepper::beginFrame and step).
THEOREM BudgetCovers == Spec => []BudgetCoversBacklog
<1>1. StepperInv => BudgetCoversBacklog
  BY DEF StepperInv, InSteps, Covered, BudgetCoversBacklog
<1> QED
  BY <1>1, AloneInit, AloneNext, StepperInitial, StepperNext, PTL DEF Spec

\* No thread repeats a tick or goes back, through pauses, failures and restarts.
THEOREM NoRepeats == Spec => TicksNeverRepeat
<1>1. PcType /\ StepperInv /\ [Next]_vars =>
        [\A t \in Threads : t \in created => stepper'[t].consumed >= stepper[t].consumed]_vars
  BY StepperNext DEF NoRepeat
<1> QED
  BY <1>1, AloneInit, AloneNext, StepperInitial, StepperNext, PTL DEF Spec, TicksNeverRepeat

-----------------------------------------------------------------------------
(***************************************************************************)
(* Types of the other variables, one group at a time.                      *)
(***************************************************************************)
OwnerType ==
    /\ owner \in {"idle", "starting", "stopping", "waiting", "advancing"}
    /\ failure \in Threads \cup {NoFailure} /\ starts \in 0..MaxStarts

FlagType == running \in BOOLEAN /\ stopRequested \in BOOLEAN /\ first \in BOOLEAN

MailType ==
    /\ tasks \in Seq(Tasks) /\ batch \in Seq(Tasks) /\ posted \in 0..MaxPosts
    /\ keyboardSlot \in Keyboards \cup {NoKeyboard}

RestType == OwnerType /\ FlagType /\ MailType

LEMMA RestInit == Init => RestType
<1> SUFFICES ASSUME Init PROVE RestType
  OBVIOUS
<1>1. OwnerType
  BY DEF Init, OwnerType, NoFailure, SimulationAssumption
<1>2. FlagType
  BY Zenon DEF Init, FlagType
<1>3. MailType
  BY DEF Init, MailType, SimulationAssumption
<1> QED
  BY <1>1, <1>2, <1>3 DEF RestType

LEMMA OwnerTypeNext == OwnerType /\ [Next]_vars => OwnerType'
<1> SUFFICES ASSUME OwnerType, [Next]_vars PROVE OwnerType'
  OBVIOUS
<1>1. CASE OwnerStep
  BY <1>1 DEF OwnerStep, Start, StartThreads, Stop, StopDone, AdvanceFrame,
      AdvanceBegin, OwnerType, SimulationAssumption
<1>2. ASSUME NEW t \in Threads, ThreadStep(t) PROVE OwnerType'
  <2>1. failure' \in {failure, t} /\ starts' = starts
    BY <1>2 DEF ThreadStep, RecordFailure, FailureExit, StoppedExit, SimStep, SimDrain,
        SimTasks, SimBegin, SimTick, SimPublish, SubStep, SubBegin, SubCallback,
        SubReturns, SubEnd, ownerVars
  <2>2. owner' \in {owner, "idle"}
    BY <1>2 DEF ThreadStep, RecordFailure, FailureExit, StoppedExit, SimStep, SimDrain,
        SimTasks, SimBegin, SimTick, SimPublish, SubStep, SubBegin, SubCallback,
        SubReturns, SubEnd, ownerVars, EndFrame, Thrown
  <2> QED
    BY <2>1, <2>2 DEF OwnerType
<1>3. CASE UNCHANGED ownerVars
  BY <1>3 DEF ownerVars, OwnerType
<1> QED
  BY <1>1, <1>2, <1>3 DEF Next, Post, SubmitKeyboard, TakeRenderFrame, Tick, vars

LEMMA FlagTypeNext == FlagType /\ [Next]_vars => FlagType'
<1> SUFFICES ASSUME FlagType, [Next]_vars PROVE FlagType'
  OBVIOUS
<1>1. CASE OwnerStep
  BY <1>1, Zenon DEF OwnerStep, Start, StartThreads, Stop, StopDone, AdvanceFrame,
      AdvanceBegin, FlagType, frameVars
<1>2. ASSUME NEW t \in Threads, RecordFailure(t) \/ FailureExit(t) \/ StoppedExit(t)
      PROVE  FlagType'
  <2>1. running' = running \/ running' = FALSE
    BY <1>2 DEF RecordFailure, FailureExit, StoppedExit, Returns
  <2>2. stopRequested' = stopRequested \/ stopRequested' = TRUE
    BY <1>2 DEF RecordFailure, FailureExit, StoppedExit
  <2>3. first' = first
    BY <1>2 DEF RecordFailure, FailureExit, StoppedExit, frameVars
  <2> QED
    BY <2>1, <2>2, <2>3, Zenon DEF FlagType
<1>3. CASE SimDrain
  <2>1. first' \in BOOLEAN
    BY <1>3, Zenon DEF SimDrain
  <2> QED
    BY <1>3, <2>1, Zenon DEF SimDrain, FlagType, ownerVars
<1>4. ASSUME NEW t \in Threads, SubStep(t) \/ (SimStep /\ ~SimDrain) PROVE FlagType'
  <2>1. UNCHANGED <<running, stopRequested>> /\ (first' = first \/ first' = FALSE)
    BY <1>4 DEF SimStep, SimTasks, SimBegin, SimTick, SimPublish, SubStep, SubBegin,
        SubCallback, SubReturns, SubEnd, ownerVars, frameVars, LocalsGone
  <2> QED
    BY <2>1, Zenon DEF FlagType
<1>5. CASE UNCHANGED <<running, stopRequested, first>>
  BY <1>5, Zenon DEF FlagType
<1>6. ASSUME NEW t \in Threads, ThreadStep(t) PROVE FlagType'
  BY <1>2, <1>3, <1>4, <1>6 DEF ThreadStep
<1> QED
  BY <1>1, <1>5, <1>6
  DEF Next, Post, SubmitKeyboard, TakeRenderFrame, Tick, vars, ownerVars, frameVars

LEMMA MailTypeNext == MailType /\ [Next]_vars => MailType'
<1> SUFFICES ASSUME MailType, [Next]_vars PROVE MailType'
  OBVIOUS
<1>1. CASE SimDrain
  BY <1>1 DEF SimDrain, MailType
<1>2. CASE SimBegin
  BY <1>2 DEF SimBegin, MailType, taskVars
<1>3. CASE SimTasks \/ SimTick \/ SimPublish
  <2>1. UNCHANGED <<tasks, posted, keyboardSlot>> /\ (batch' = batch \/ batch' = <<>>)
    BY <1>3 DEF SimTasks, SimTick, SimPublish, LocalsGone
  <2>2. <<>> \in Seq(Tasks)
    OBVIOUS
  <2>3. batch' \in Seq(Tasks)
    BY <2>1, <2>2, Zenon DEF MailType
  <2> QED
    BY <2>1, <2>3 DEF MailType
<1>4. ASSUME NEW task \in Tasks, Post(task) PROVE MailType'
  BY <1>4 DEF Post, MailType, SimulationAssumption
<1>5. ASSUME NEW k \in Keyboards, SubmitKeyboard(k) PROVE MailType'
  BY <1>5 DEF SubmitKeyboard, MailType, taskVars
<1>6. CASE UNCHANGED <<taskVars, keyboardSlot>>
  BY <1>6 DEF taskVars, MailType
<1>7. ASSUME NEW t \in Threads, ThreadStep(t) PROVE MailType'
  <2>1. SimDrain \/ SimBegin \/ SimTasks \/ SimTick \/ SimPublish
        \/ UNCHANGED <<taskVars, keyboardSlot>>
    BY <1>7 DEF ThreadStep, RecordFailure, FailureExit, StoppedExit, SimStep,
        SubStep, SubBegin, SubCallback, SubReturns, SubEnd
  <2> QED
    BY <1>1, <1>2, <1>3, <1>6, <2>1
<1>8. CASE OwnerStep
  BY <1>6, <1>8 DEF OwnerStep, Start, StartThreads, Stop, StopDone, AdvanceFrame,
      AdvanceBegin
<1> QED
  BY <1>4, <1>5, <1>6, <1>7, <1>8 DEF Next, TakeRenderFrame, Tick, vars

\* Type correctness; the stepper invariant bounds the steps of a frame.
THEOREM TypeCorrect == Spec => []TypeOK
<1>1. PcType /\ StepperInv /\ RestType => TypeOK
  BY DEF PcType, States, StepperInv, TimeType, SimSteps, RestType, OwnerType, FlagType,
      MailType, TypeOK
<1>2. RestType /\ [Next]_vars => RestType'
  BY OwnerTypeNext, FlagTypeNext, MailTypeNext DEF RestType
<1> QED
  BY <1>1, <1>2, AloneInit, AloneNext, StepperInitial, StepperNext, RestInit, PTL DEF Spec

-----------------------------------------------------------------------------
(***************************************************************************)
(* The frames.  FrameIsCurrent says nothing of a frame in progress.  In    *)
(* one, either a frame will be published, or a step is still due, or the   *)
(* last published frame is still true.  Before its first frame the sim has *)
(* published nothing.                                                      *)
(***************************************************************************)
Shown == frameSlot # NoFrame =>
    frameSlot.tick = stepper[Sim].consumed /\ frameSlot.paused = paused

WillShow == steps > 0 \/ batch # <<>> \/ first

InFrame == {"tasks", "begin", "steps"}

Drawn ==
    /\ starts = 0 => owner \in {"idle", "stopping"}
    /\ starts = 0 \/ owner \in {"starting", "waiting"} => pc[Sim] = "off" /\ Sim \notin created
    /\ owner = "advancing" /\ pc[Sim] \notin InFrame => Sim \notin created
    /\ pc[Sim] \in InFrame => Sim \in created
    /\ Sim \notin created => frameSlot = NoFrame
    /\ pc[Sim] # "callback"
    /\ pc[Sim] = "loop" => Shown
    /\ pc[Sim] = "tasks" => batch # <<>>
    /\ pc[Sim] = "begin" => WillShow \/ Shown
    /\ pc[Sim] = "steps" => WillShow \/ CanStep(stepper[Sim]) \/ Shown

DrawnInv == starts <= 1 => Drawn

\* What Drawn says of the sim and its stepper.
SameSim ==
    /\ stepper'[Sim] = stepper[Sim] /\ (Sim \in created') = (Sim \in created)
    /\ pc'[Sim] = pc[Sim] /\ UNCHANGED <<paused, starts>>

\* A step of anybody else; the application may take the frame.
LEMMA DrawnAway ==
    ASSUME DrawnInv, SameSim, frameSlot' \in {frameSlot, NoFrame},
           UNCHANGED <<batch, first, steps>>, owner' \in {owner, "idle", "stopping"}
    PROVE  DrawnInv'
<1>1. Shown => Shown'
  BY DEF SameSim, Shown
<1>2. WillShow' = WillShow
  BY DEF WillShow
<1>3. CanStep(stepper'[Sim]) = CanStep(stepper[Sim])
  BY DEF SameSim
<1> QED
  BY <1>1, <1>2, <1>3 DEF DrawnInv, Drawn, SameSim, InFrame

\* The sim leaves its frames, or the owner its frame.
LEMMA DrawnOut ==
    ASSUME DrawnInv, pc[Sim] # "off", pc'[Sim] \in {"off", "failed", "failing", "exited"},
           (Sim \in created') = (Sim \in created), starts' = starts,
           Sim \notin created => frameSlot' = NoFrame,
           owner' \in {owner, "idle"}, owner' = "advancing" => Sim \notin created
    PROVE  DrawnInv'
BY DEF DrawnInv, Drawn, InFrame

LEMMA DrawnThrown ==
    ASSUME DrawnInv, PcType, pc[Sim] \in InFrame, Thrown(Sim),
           (Sim \in created') = (Sim \in created), UNCHANGED <<starts, frameSlot>>
    PROVE  DrawnInv'
<1> USE SimIsThread
<1>1. /\ pc[Sim] # "off" /\ pc'[Sim] \in {"off", "failed"} /\ owner' \in {owner, "idle"}
      /\ owner' # "advancing"
  BY DEF Thrown, PcType, InFrame
<1>2. starts <= 1 => (Sim \notin created => frameSlot' = NoFrame)
  BY DEF DrawnInv, Drawn
<1>3. CASE starts <= 1
  BY <1>1, <1>2, <1>3, DrawnOut
<1> QED
  BY <1>3 DEF DrawnInv

LEMMA DrawnOwnerStep ==
    ASSUME DrawnInv, PcType, OwnerType, OwnerStep
    PROVE  DrawnInv'
<1> USE SimIsThread
<1>0. starts \in Nat
  BY DEF OwnerType, SimulationAssumption
<1>1. ASSUME Start \/ AdvanceFrame PROVE DrawnInv'
  <2>1. /\ owner = "idle" /\ owner' \in {"starting", "waiting"} /\ starts' = starts + 1
        /\ UNCHANGED <<pc, stepper, created, frameSlot>>
    BY <1>1 DEF Start, AdvanceFrame, stepperVars, frameVars
  <2>2. CASE starts' <= 1
    <3>1. starts = 0 /\ Drawn
      BY <1>0, <2>1, <2>2 DEF DrawnInv
    <3> QED
      BY <2>1, <2>2, <3>1 DEF DrawnInv, Drawn, InFrame
  <2> QED
    BY <2>2 DEF DrawnInv
<1>2. CASE Stop
  BY <1>2, DrawnAway DEF Stop, SameSim, stepperVars, frameVars, timelineVars, taskVars
<1>3. CASE StopDone
  <2>1. /\ owner' = "idle" /\ pc'[Sim] = IF pc[Sim] = "exited" THEN "off" ELSE pc[Sim]
        /\ UNCHANGED <<stepper, created, frameSlot, paused, starts, batch, first, steps>>
    BY <1>3 DEF StopDone, Joined, stepperVars, frameVars, timelineVars, taskVars
  <2>2. CASE pc[Sim] = "exited"
    BY <2>1, <2>2 DEF DrawnInv, Drawn, InFrame
  <2>3. CASE pc[Sim] # "exited"
    BY <2>1, <2>3, DrawnAway DEF SameSim
  <2> QED
    BY <2>2, <2>3
<1>4. ASSUME StartThreads \/ AdvanceBegin PROVE DrawnInv'
  <2>1. /\ owner \in {"starting", "waiting"} /\ owner' \in {"idle", "advancing"}
        /\ UNCHANGED <<stepper, created, frameSlot, paused, starts>>
    BY <1>4 DEF StartThreads, AdvanceBegin, stepperVars, frameVars, timelineVars
  <2>2. pc'[Sim] \in {"loop", "off", pc[Sim]}
    BY <1>4 DEF StartThreads, AdvanceBegin, Joined, PcType
  <2>3. CASE starts <= 1
    <3>1. /\ Sim \notin created /\ frameSlot = NoFrame /\ starts # 0
          /\ pc'[Sim] \in {"loop", "off"}
      BY <2>1, <2>2, <2>3 DEF DrawnInv, Drawn
    <3>2. Shown'
      BY <2>1, <3>1 DEF Shown
    <3> QED
      BY <2>1, <3>1, <3>2 DEF DrawnInv, Drawn, InFrame
  <2> QED
    BY <2>1, <2>3 DEF DrawnInv
<1> QED
  BY <1>1, <1>2, <1>3, <1>4 DEF OwnerStep

LEMMA DrawnFailure ==
    ASSUME DrawnInv, PcType, NEW t \in Threads,
           RecordFailure(t) \/ FailureExit(t) \/ StoppedExit(t)
    PROVE  DrawnInv'
<1> USE SimIsThread
<1>1. /\ UNCHANGED <<owner, starts, stepper, created, frameSlot, paused, batch, first, steps>>
      /\ pc[t] \in {"failed", "failing", "loop"}
      /\ pc[t] = "loop" => owner # "advancing"
  BY DEF RecordFailure, FailureExit, StoppedExit, stepperVars, frameVars, timelineVars, taskVars
<1>2. \E s \in {"failing", "exited"} : pc' = [pc EXCEPT ![t] = s]
  BY DEF RecordFailure, FailureExit, StoppedExit, Returns
<1>3. CASE t = Sim
  <2>1. pc[Sim] # "off" /\ pc'[Sim] \in {"failing", "exited"}
    BY <1>1, <1>2, <1>3 DEF PcType
  <2>2. CASE starts <= 1
    <3>1. /\ Sim \notin created => frameSlot' = NoFrame
          /\ owner' = "advancing" => Sim \notin created
      BY <1>1, <1>3, <2>2 DEF DrawnInv, Drawn, InFrame
    <3> QED
      BY <1>1, <2>1, <3>1, DrawnOut
  <2> QED
    BY <1>1, <2>2 DEF DrawnInv
<1>4. CASE t # Sim
  <2>1. SameSim
    BY <1>1, <1>2, <1>4 DEF SameSim, PcType
  <2> QED
    BY <1>1, <2>1, DrawnAway
<1> QED
  BY <1>3, <1>4

LEMMA DrawnSubStep ==
    ASSUME DrawnInv, PcType, OwnerRunsAlone, StepperInv, NEW t \in Threads, SubStep(t)
    PROVE  DrawnInv'
<1> USE SimIsThread
<1>0. stepper \in [Threads -> StepperType]
  BY DEF StepperInv
<1>1. /\ UNCHANGED <<starts, frameSlot, paused, batch, first, steps>>
      /\ pc[t] \in {"loop", "steps", "callback"}
      /\ owner' \in {owner, "idle"}
  BY DEF SubStep, SubBegin, MayBeginFrame, SubCallback, SubReturns, SubEnd, EndFrame, Thrown,
     ownerVars, frameVars, timelineVars, taskVars
<1>2. CASE t = Sim
  <2>1. pc[Sim] = "callback" /\ UNCHANGED <<stepper, created>>
    BY <1>2 DEF SubStep, SubBegin, SubCallback, SubReturns, SubEnd, stepperVars
  <2> QED
    BY <1>1, <2>1 DEF DrawnInv, Drawn
<1>3. CASE t # Sim
  <2>1. stepper'[Sim] = stepper[Sim] /\ (Sim \in created') = (Sim \in created)
    BY <1>0, <1>3 DEF SubStep, SubBegin, SubCallback, SubReturns, SubEnd, stepperVars
  <2>2. CASE pc'[Sim] = pc[Sim]
    BY <1>1, <2>1, <2>2, DrawnAway DEF SameSim
  <2>3. CASE pc'[Sim] # pc[Sim]
    <3>1. EndFrame(t) /\ owner = "advancing" /\ pc[t] = "steps"
      BY <1>3, <2>3 DEF SubStep, SubBegin, SubCallback, SubReturns, SubEnd, EndFrame, Thrown,
         PcType
    <3>2. pc'[Sim] = "loop" /\ owner' = owner
      BY <1>3, <2>3, <3>1 DEF EndFrame, PcType
    <3>3. pc[Sim] = "off"
      BY <1>3, <3>1 DEF OwnerRunsAlone
    <3>4. CASE starts <= 1
      <4>1. Sim \notin created /\ frameSlot = NoFrame /\ starts # 0
        BY <3>1, <3>3, <3>4 DEF DrawnInv, Drawn, InFrame
      <4>2. Shown'
        BY <1>1, <4>1 DEF Shown
      <4> QED
        BY <1>1, <2>1, <3>1, <3>2, <4>1, <4>2 DEF DrawnInv, Drawn, InFrame
    <3> QED
      BY <1>1, <3>4 DEF DrawnInv
  <2> QED
    BY <2>2, <2>3
<1> QED
  BY <1>2, <1>3

\* What beginFrame() drops it drops because more is due than a frame may take.
LEMMA BeginFrameKeeps ==
    ASSUME MaxSteps > 0, NEW n \in 0..MaxTime, NEW s \in StepperType, Behind(s, n)
    PROVE  \/ CanStep(BeginFrame(s, n, MaxSteps))
           \/ BeginFrame(s, n, MaxSteps).consumed = s.consumed
BY DEF BeginFrame, CanStep, StepperType, Behind

LEMMA DrawnSimStep ==
    ASSUME DrawnInv, PcType, OwnerType, StepperInv, MaxSteps > 0, SimStep
    PROVE  DrawnInv'
<1> USE SimIsThread
<1> DEFINE cur == stepper[Sim]
<1>0. /\ stepper \in [Threads -> StepperType] /\ now \in 0..MaxTime
      /\ cur \in StepperType /\ Behind(cur, now) /\ steps \in Nat
  BY DEF StepperInv, TimeType, SimSteps, SimulationAssumption
<1>1. CASE SimDrain
  <2>1. /\ pc[Sim] = "loop" /\ pc'[Sim] = IF tasks = <<>> THEN "begin" ELSE "tasks"
        /\ Sim \in created' /\ first' = (Sim \notin created) /\ batch' = tasks
        /\ UNCHANGED <<owner, starts, paused, frameSlot>>
        /\ Sim \in created => stepper' = stepper
    BY <1>1 DEF SimDrain, MayBeginFrame, PcType, ownerVars, timelineVars
  <2>2. CASE starts <= 1
    <3>1. Drawn /\ Shown
      BY <2>1, <2>2 DEF DrawnInv, Drawn
    <3>2. WillShow' \/ Shown'
      BY <2>1, <3>1 DEF WillShow, Shown
    <3> QED
      BY <2>1, <3>1, <3>2 DEF DrawnInv, Drawn, InFrame
  <2> QED
    BY <2>1, <2>2 DEF DrawnInv
<1>2. CASE SimTasks
  <2>1. pc[Sim] = "tasks" /\ UNCHANGED <<starts, stepper, created, frameSlot>>
    BY <1>2 DEF SimTasks, stepperVars
  <2>2. CASE Thrown(Sim)
    BY <2>1, <2>2, DrawnThrown DEF InFrame
  <2>3. CASE pc' = [pc EXCEPT ![Sim] = "begin"] /\ UNCHANGED <<owner, batch, first, steps>>
    <3>1. pc'[Sim] = "begin"
      BY <2>3 DEF PcType
    <3>2. CASE starts <= 1
      <4>1. Drawn /\ batch # <<>>
        BY <2>1, <3>2 DEF DrawnInv, Drawn
      <4>2. WillShow'
        BY <2>3, <4>1 DEF WillShow
      <4> QED
        BY <2>1, <2>3, <3>1, <4>1, <4>2 DEF DrawnInv, Drawn, InFrame
    <3> QED
      BY <2>1, <3>2 DEF DrawnInv
  <2> QED
    BY <1>2, <2>2, <2>3 DEF SimTasks
<1>3. CASE SimBegin
  <2> DEFINE s == BeginFrame(cur, now, MaxSteps)
  <2>1. CanStep(s) \/ s.consumed = cur.consumed
    BY <1>0, BeginFrameKeeps
  <2> HIDE DEF s
  <2>2. /\ pc[Sim] = "begin" /\ pc'[Sim] = "steps" /\ stepper'[Sim] = s
        /\ UNCHANGED <<owner, starts, created, paused, frameSlot, first, steps, batch>>
    BY <1>0, <1>3 DEF SimBegin, PcType, ownerVars, timelineVars, taskVars, frameVars, s
  <2>3. CASE starts <= 1
    <3>1. Drawn /\ (WillShow \/ Shown)
      BY <2>2, <2>3 DEF DrawnInv, Drawn
    <3>2. WillShow' \/ CanStep(s) \/ Shown'
      BY <2>1, <2>2, <3>1 DEF WillShow, Shown
    <3> QED
      BY <2>2, <3>1, <3>2 DEF DrawnInv, Drawn, InFrame
  <2> QED
    BY <2>2, <2>3 DEF DrawnInv
<1>4. CASE SimTick
  <2>1. pc[Sim] = "steps" /\ UNCHANGED <<starts, created, frameSlot>>
    BY <1>4 DEF SimTick
  <2>2. CASE Thrown(Sim)
    BY <2>1, <2>2, DrawnThrown DEF InFrame
  <2>3. CASE steps' = steps + 1 /\ UNCHANGED <<pc, owner, batch, first>>
    <3>1. WillShow'
      BY <1>0, <2>3 DEF WillShow
    <3> QED
      BY <2>1, <2>3, <3>1 DEF DrawnInv, Drawn, InFrame
  <2> QED
    BY <1>4, <2>2, <2>3 DEF SimTick
<1>5. CASE SimPublish
  <2>1. /\ pc[Sim] = "steps" /\ ~CanStep(cur)
        /\ UNCHANGED <<starts, created, stepper, paused>>
        /\ frameSlot' = IF WillShow THEN [tick |-> cur.consumed, paused |-> paused]
                        ELSE frameSlot
    BY <1>5 DEF SimPublish, WillShow, stepperVars, timelineVars
  <2>2. \/ owner' = owner /\ owner # "advancing" /\ pc'[Sim] = "loop"
        \/ owner = "advancing" /\ owner' = "idle" /\ pc'[Sim] = "off"
    BY <1>5 DEF SimPublish, EndFrame, PcType
  <2>3. CASE starts <= 1
    <3>1. Drawn /\ Sim \in created /\ (WillShow \/ Shown)
      BY <2>1, <2>3 DEF DrawnInv, Drawn, InFrame
    <3>2. Shown'
      BY <2>1, <3>1 DEF Shown
    <3> QED
      BY <2>1, <2>2, <3>1, <3>2 DEF DrawnInv, Drawn, InFrame
  <2> QED
    BY <2>1, <2>3 DEF DrawnInv
<1> QED
  BY <1>1, <1>2, <1>3, <1>4, <1>5 DEF SimStep

LEMMA DrawnNext ==
    ASSUME DrawnInv, PcType, OwnerRunsAlone, OwnerType, StepperInv, MaxSteps > 0, [Next]_vars
    PROVE  DrawnInv'
<1>1. ASSUME NEW t \in Threads, ThreadStep(t) PROVE DrawnInv'
  BY <1>1, DrawnFailure, DrawnSimStep, DrawnSubStep DEF ThreadStep
<1>2. ASSUME UNCHANGED <<owner, starts, pc, paused, stepper, created, batch, first, steps>>,
             frameSlot' \in {frameSlot, NoFrame}
      PROVE  DrawnInv'
  BY <1>2, DrawnAway DEF SameSim
<1>3. ASSUME NEW x, Post(x) \/ SubmitKeyboard(x) \/ TakeRenderFrame \/ Tick PROVE DrawnInv'
  BY <1>2, <1>3 DEF Post, SubmitKeyboard, TakeRenderFrame, Tick, ownerVars, timelineVars,
     stepperVars, taskVars, frameVars
<1>4. CASE UNCHANGED vars
  BY <1>2, <1>4 DEF vars, ownerVars, timelineVars, stepperVars, taskVars, frameVars
<1> QED
  BY <1>1, <1>3, <1>4, DrawnOwnerStep DEF Next

\* What the application drew last is current whenever the sim has nothing to do, if a
\* frame may take steps at all (the condition of frameSlot_.publish in runFrame).
THEOREM FrameStaysCurrent == ASSUME MaxSteps > 0 PROVE Spec => []FrameIsCurrent
<1>1. Init => DrawnInv
  BY SimIsThread DEF Init, DrawnInv, Drawn, InFrame
<1>2. /\ PcType /\ OwnerRunsAlone /\ OwnerType /\ StepperInv /\ DrawnInv /\ [Next]_vars
      => DrawnInv'
  BY DrawnNext
<1>3. DrawnInv => FrameIsCurrent
  BY DEF DrawnInv, Drawn, Shown, FrameIsCurrent
<1>4. Init => OwnerType
  BY RestInit DEF RestType
<1> QED
  BY <1>1, <1>2, <1>3, <1>4, AloneInit, AloneNext, StepperInitial, StepperNext,
     OwnerTypeNext, PTL DEF Spec
=============================================================================
