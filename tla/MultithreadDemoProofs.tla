------------------------- MODULE MultithreadDemoProofs -------------------------
(***************************************************************************)
(* Proofs about MultithreadDemo: a press of Space jumps once, a paused     *)
(* game stands still, every tick is reported, and the player stands on     *)
(* blocks, for any keyboards, lengths of the queue and of the frames, any  *)
(* level of which LevelAssumption is true, and any interleaving.           *)
(***************************************************************************)
EXTENDS MultithreadDemo, FiniteSetTheorems, TLAPS

-----------------------------------------------------------------------------
(***************************************************************************)
(* Presses.  A keyboard goes from previous to the slot, from there to the  *)
(* frame, and from there to what the last tick saw: wherever Space is down *)
(* in a later place and not in an earlier one, the press is still owed.    *)
(***************************************************************************)
Owed(late, early) == JustPressed(late, KeySpace, early) => pressed

PressInv ==
    /\ keyboardSlot = NewMailbox \/ keyboardSlot = <<previous>>
    /\ keyboardSlot = NewMailbox => previous = frameKeyboard
    /\ Owed(previous, frameKeyboard) /\ Owed(previous, lastTickKeyboard)
    /\ Owed(frameKeyboard, lastTickKeyboard)

keyVars == <<keyboardSlot, previous, frameKeyboard, lastTickKeyboard, pressed>>

\* Only a poll, the beginning of a frame and a tick move a keyboard on.
LEMMA KeysStay ==
  ASSUME Next, ~(\E held \in Holds : MainPoll(held)), ~SimBegin, ~SimTick
  PROVE  UNCHANGED keyVars
<1>. USE DEF keyVars, mainVars, timeVars, frameVars, tickVars, worldVars, stopVars, netVars
<1>1. CASE MainThread
  BY <1>1 DEF MainThread, MainPost, MainStop, MainStopped, MainNetJoin, Shutdown,
              MainUnchanged
<1>2. CASE SimThread
  BY <1>2 DEF SimThread, SimEnd, SimExit
<1>3. CASE WorldThread
  BY <1>3 DEF WorldThread, WorldBegin, WorldTick, WorldEnd, WorldExit, WorldUnchanged
<1>4. CASE NetThread
  BY <1>4 DEF NetThread, NetPop, NetWait, NetWaited, NetExit, NetUnchanged
<1>5. CASE Tick
  BY <1>5 DEF Tick
<1>. QED BY <1>1, <1>2, <1>3, <1>4, <1>5 DEF Next

LEMMA PressStep == PressInv /\ [Next]_vars => PressInv'
<1>. SUFFICES ASSUME PressInv, [Next]_vars PROVE PressInv' OBVIOUS
<1>. USE DEF PressInv, Owed, JustPressed
<1>1. CASE \E held \in Holds : MainPoll(held)
  <2>. PICK held \in Holds : MainPoll(held) BY <1>1
  <2>1. /\ keyboardSlot' = <<previous'>>
        /\ pressed' = (pressed \/ JustPressed(previous', KeySpace, previous))
        /\ UNCHANGED <<frameKeyboard, lastTickKeyboard>>
    BY DEF MainPoll, MainUnchanged, Published
  <2>. QED BY <2>1 DEF NewMailbox
<1>2. CASE SimBegin
  <2>1. /\ keyboardSlot' = NewMailbox /\ frameKeyboard' = previous
        /\ UNCHANGED <<previous, lastTickKeyboard, pressed>>
    BY <1>2 DEF SimBegin, Taken, TakenOr, HasPending, NewMailbox, mainVars, tickVars
  <2>. QED BY <2>1
<1>3. CASE SimTick
  <2>1. /\ lastTickKeyboard' = frameKeyboard
        /\ pressed' = (pressed /\ ~JumpPressed)
        /\ UNCHANGED <<keyboardSlot, previous, frameKeyboard>>
    BY <1>3 DEF SimTick, OnTick, mainVars
  <2>. QED BY <2>1 DEF JumpPressed
<1>4. CASE UNCHANGED keyVars
  BY <1>4 DEF keyVars
<1>5. CASE UNCHANGED vars
  BY <1>4, <1>5 DEF vars, keyVars, mainVars, frameVars, tickVars
<1>. QED BY <1>1, <1>2, <1>3, <1>4, <1>5, KeysStay

\* A press of Space jumps at most once (MultithreadDemo!OnePressOneJump; main.cpp:153-155).
THEOREM OneJump == Spec => OnePressOneJump
<1>1. Init => PressInv
  BY DEF Init, PressInv, Owed, JustPressed, NewMailbox
<1>2. PressInv /\ [Next]_vars => PressInv'
  BY PressStep
<1>3. PressInv /\ [Next]_vars => [SimTick /\ JumpPressed => pressed]_vars
  BY DEF PressInv, Owed, JumpPressed
<1>. QED BY <1>1, <1>2, <1>3, PTL DEF Spec, OnePressOneJump

-----------------------------------------------------------------------------
(***************************************************************************)
(* Pauses.  The steps of a frame use up what is due, and in a pause no     *)
(* time passes: after the frame in which the pause came nothing is due.    *)
(***************************************************************************)
Steppers == [consumed : Int, target : Int, budget : Nat, dropped : Int]

StillInv ==
    /\ now \in Nat /\ paused \in BOOLEAN /\ pauseShown \in BOOLEAN
    /\ simStepper \in Steppers /\ simStepper.consumed <= now
    /\ sim = "frame" =>
          /\ simStepper.consumed <= simStepper.target /\ simStepper.target <= now
          /\ simStepper.target - simStepper.consumed <= simStepper.budget
          /\ paused => simStepper.target = now
    /\ pauseShown => paused /\ sim # "new" /\ simStepper.consumed = now

stillVars == <<now, paused, pauseShown, simStepper, sim, scene>>

\* Only the sim and time move what a pause stops, but for the platform.
LEMMA StillStay ==
  ASSUME Next, ~SimThread, ~Tick
  PROVE  UNCHANGED stillVars
<1>. USE DEF stillVars, mainVars, timeVars, frameVars, tickVars, worldVars, stopVars, netVars
<1>1. CASE MainThread
  BY <1>1 DEF MainThread, MainPoll, MainPost, MainStop, MainStopped, MainNetJoin, Shutdown,
              MainUnchanged
<1>2. CASE WorldThread
  BY <1>2 DEF WorldThread, WorldBegin, WorldTick, WorldEnd, WorldExit, WorldUnchanged
<1>3. CASE NetThread
  BY <1>3 DEF NetThread, NetPop, NetWait, NetWaited, NetExit, NetUnchanged
<1>. QED BY <1>1, <1>2, <1>3 DEF Next

\* The beginning of a frame leaves at most its budget due, and all of it is due by now.
LEMMA FrameBegins ==
  ASSUME NEW s \in Steppers, NEW t \in Nat, NEW max \in Nat, s.consumed <= t
  PROVE  LET b == BeginFrame(s, t, max)
         IN  /\ b \in Steppers /\ b.target = t
             /\ s.consumed <= b.consumed /\ b.consumed <= t
             /\ t - b.consumed <= b.budget
             /\ s.consumed = t => b.consumed = t
BY DEF Steppers, BeginFrame

\* Without a request a frame leaves the pause alone.
LEMMA NoRequestNoChange ==
  ASSUME SimBegin, ~HasItem(tasks), paused \in BOOLEAN
  PROVE  paused' = paused
<1>1. {i \in DOMAIN tasks.items : tasks.items[i] = "toggle"} = {}
  BY DEF HasItem
<1>2. Cardinality({i \in DOMAIN tasks.items : tasks.items[i] = "toggle"}) % 2 # 1
  BY <1>1, FS_EmptySet
<1>. QED BY <1>2 DEF SimBegin

LEMMA StillStep == DemoAssumption /\ StillInv /\ [Next]_vars => StillInv'
<1>. SUFFICES ASSUME DemoAssumption, StillInv, [Next]_vars PROVE StillInv' OBVIOUS
<1>. USE DEF StillInv, DemoAssumption
<1>1. CASE SimBegin
  <2>. DEFINE from == IF sim = "new" THEN NewStepper(now) ELSE simStepper
  <2>1. /\ from \in Steppers /\ from.consumed <= now
        /\ pauseShown => from.consumed = now
    BY DEF NewStepper, Steppers
  <2>2. simStepper' = BeginFrame(from, now, MaxSteps)
    BY <1>1 DEF SimBegin
  <2>3. /\ sim' = "frame" /\ now' = now
        /\ pauseShown' = (pauseShown /\ ~HasItem(tasks)) /\ paused' \in BOOLEAN
    BY <1>1 DEF SimBegin
  <2>4. pauseShown' => paused'
    BY <1>1, <2>3, NoRequestNoChange
  <2>. HIDE DEF from
  <2>5. /\ simStepper' \in Steppers /\ simStepper'.target = now
        /\ simStepper'.consumed <= now
        /\ now - simStepper'.consumed <= simStepper'.budget
        /\ from.consumed = now => simStepper'.consumed = now
    BY <2>1, <2>2, FrameBegins
  <2>. QED BY <2>1, <2>3, <2>4, <2>5
<1>2. CASE SimTick
  <2>1. /\ simStepper' = Step(simStepper) /\ CanStep(simStepper) /\ sim = "frame"
        /\ UNCHANGED <<now, paused, pauseShown, sim>>
    BY <1>2 DEF SimTick, timeVars
  <2>. QED BY <2>1 DEF Step, CanStep, Steppers
<1>3. CASE SimEnd
  <2>1. /\ sim = "frame" /\ sim' = "loop" /\ pauseShown' = paused /\ ~CanStep(simStepper)
        /\ UNCHANGED <<now, paused, simStepper>>
    BY <1>3 DEF SimEnd, timeVars
  <2>2. simStepper.consumed = simStepper.target
    BY <2>1 DEF CanStep, Steppers
  <2>. QED BY <2>1, <2>2
<1>4. CASE SimExit
  BY <1>4 DEF SimExit, timeVars
<1>5. CASE Tick
  BY <1>5 DEF Tick, frameVars, Steppers
<1>6. CASE UNCHANGED stillVars
  BY <1>6 DEF stillVars
<1>7. CASE UNCHANGED vars
  BY <1>6, <1>7 DEF vars, stillVars, timeVars, frameVars, tickVars
<1>. QED BY <1>1, <1>2, <1>3, <1>4, <1>5, <1>6, <1>7, StillStay DEF SimThread

\* A pause that main can see holds (MultithreadDemo!PausedStandsStill; main.cpp:194-195).
THEOREM PauseHolds == Spec => PausedStandsStill
<1>1. ASSUME Init PROVE StillInv
  <2>1. /\ now = 0 /\ ~paused /\ paused \in BOOLEAN /\ ~pauseShown /\ pauseShown \in BOOLEAN
        /\ sim = "new" /\ simStepper = NewStepper(0)
    BY <1>1 DEF Init
  <2>2. simStepper \in Steppers /\ simStepper.consumed = 0
    BY <2>1 DEF Steppers, NewStepper
  <2>. QED BY <2>1, <2>2 DEF StillInv
<1>2. DemoAssumption /\ StillInv /\ [Next]_vars => StillInv'
  BY StillStep
<1>3. StillInv /\ [Next]_vars
      => [pauseShown /\ pauseShown' => scene' = scene /\ worldSeconds' = worldSeconds]_vars
  <2>. SUFFICES ASSUME StillInv, Next, pauseShown
                PROVE  scene' = scene /\ worldSeconds' = worldSeconds
    OBVIOUS
  <2>1. ~SimTick /\ ~WorldTick
    <3>1. ~(sim = "frame" /\ CanStep(simStepper))
      BY DEF StillInv, Steppers, CanStep
    <3>. QED BY <3>1 DEF StillInv, SimTick, WorldTick
  <2>2. CASE SimThread
    BY <2>1, <2>2 DEF SimThread, SimBegin, SimEnd, SimExit, tickVars, worldVars
  <2>3. CASE WorldThread
    BY <2>1, <2>3 DEF WorldThread, WorldBegin, WorldEnd, WorldExit, WorldUnchanged, tickVars
  <2>4. CASE MainThread
    BY <2>4 DEF MainThread, MainPoll, MainPost, MainStop, MainStopped, MainNetJoin, Shutdown,
                MainUnchanged, worldVars
  <2>5. CASE NetThread
    BY <2>5 DEF NetThread, NetPop, NetWait, NetWaited, NetExit, NetUnchanged, worldVars
  <2>6. CASE Tick
    BY <2>6 DEF Tick, tickVars, worldVars
  <2>. QED BY <2>2, <2>3, <2>4, <2>5, <2>6 DEF Next
<1>. QED BY <1>1, <1>2, <1>3, DemoAssumption, PTL DEF Spec, PausedStandsStill

-----------------------------------------------------------------------------
(***************************************************************************)
(* Reports.  What is received and what waits is in the order of the ticks, *)
(* and none is later than the tick the stepper is at.                      *)
(***************************************************************************)
Ordered(last, items, top) ==
    /\ last \in Int /\ items \in Seq(Int) /\ top \in Int /\ last <= top
    /\ \A i \in 1..Len(items) : last < items[i] /\ items[i] <= top
    /\ \A i \in 1..Len(items) : \A j \in 1..Len(items) : i < j => items[i] < items[j]

Queues == [items : Seq(Int), dropped : Int]

ReportInv ==
    /\ playerStateQueue \in Queues /\ ticksRun \in Int /\ messages \in Int
    /\ ticksRun = messages + playerStateQueue.dropped + Len(playerStateQueue.items)
    /\ Ordered(lastTick, playerStateQueue.items, simStepper.consumed)

LEMMA OrderedTail ==
  ASSUME NEW last, NEW items, NEW top, Ordered(last, items, top), items # <<>>
  PROVE  /\ Ordered(last, Tail(items), top) /\ Ordered(Head(items), Tail(items), top)
         /\ Len(Tail(items)) = Len(items) - 1
<1>. USE DEF Ordered
<1>1. /\ Len(items) \in Nat \ {0} /\ Tail(items) \in Seq(Int)
      /\ Head(items) = items[1] /\ Len(Tail(items)) = Len(items) - 1
      /\ \A i \in 1..Len(Tail(items)) : Tail(items)[i] = items[i + 1]
  OBVIOUS
<1>2. items[1] \in Int /\ \A i \in 1..Len(Tail(items)) :
          /\ i + 1 \in 1..Len(items) /\ 1 < i + 1 /\ 1 \in 1..Len(items)
          /\ items[1] < Tail(items)[i] /\ last < Tail(items)[i] /\ Tail(items)[i] <= top
  BY <1>1
<1>3. \A i \in 1..Len(Tail(items)) : \A j \in 1..Len(Tail(items)) :
          i < j => Tail(items)[i] < Tail(items)[j]
  BY <1>1
<1>. QED BY <1>1, <1>2, <1>3

LEMMA OrderedAppend ==
  ASSUME NEW last, NEW items, NEW top, Ordered(last, items, top)
  PROVE  /\ Ordered(last, Append(items, top + 1), top + 1)
         /\ Len(Append(items, top + 1)) = Len(items) + 1
<1>. USE DEF Ordered
<1>. DEFINE more == Append(items, top + 1)
<1>1. /\ more \in Seq(Int) /\ Len(items) \in Nat /\ Len(more) = Len(items) + 1
      /\ more[Len(items) + 1] = top + 1
      /\ \A i \in 1..Len(items) : more[i] = items[i] /\ items[i] \in Int
      /\ top \in Int /\ last \in Int
  OBVIOUS
<1>2. \A i \in 1..Len(more) : i \in 1..Len(items) \/ i = Len(items) + 1
  BY <1>1
<1>. HIDE DEF more
<1>3. \A i \in 1..Len(items) : more[i] \in Int /\ last < more[i] /\ more[i] <= top
  <2>1. \A i \in 1..Len(items) : last < items[i] /\ items[i] <= top
    OBVIOUS
  <2>. QED BY <1>1, <2>1
<1>4. \A i \in 1..Len(more) : last < more[i] /\ more[i] <= top + 1
  BY <1>1, <1>2, <1>3
<1>5. ASSUME NEW i \in 1..Len(more), NEW j \in 1..Len(more), i < j
      PROVE  more[i] < more[j]
  <2>1. i \in 1..Len(items)
    BY <1>1, <1>5
  <2>2. CASE j = Len(items) + 1
    BY <1>1, <1>3, <2>1, <2>2
  <2>3. CASE j \in 1..Len(items)
    BY <1>1, <1>5, <2>1, <2>3
  <2>. QED BY <1>2, <2>2, <2>3
<1>6. Ordered(last, more, top + 1)
  BY <1>1, <1>4, <1>5
<1>. QED BY <1>1, <1>6 DEF more

\* A push keeps the order and counts what it drops.
LEMMA PushOrdered ==
  ASSUME DemoAssumption,
         NEW q \in Queues, NEW last, NEW top, Ordered(last, q.items, top)
  PROVE  LET p == Push(q, QueueCapacity, top + 1)
         IN  /\ p \in Queues /\ Ordered(last, p.items, top + 1)
             /\ p.dropped + Len(p.items) = q.dropped + Len(q.items) + 1
<1>. DEFINE p == Push(q, QueueCapacity, top + 1)
<1>1. CASE Full(q, QueueCapacity)
  <2>1. q.items # <<>>
    BY <1>1 DEF Full, Queues, DemoAssumption
  <2>2. /\ p = [items |-> Append(Tail(q.items), top + 1), dropped |-> q.dropped + 1]
        /\ p.items = Append(Tail(q.items), top + 1) /\ p.dropped = q.dropped + 1
    BY <1>1 DEF Push
  <2>3. /\ Ordered(last, Append(Tail(q.items), top + 1), top + 1)
        /\ Len(Append(Tail(q.items), top + 1)) = Len(q.items)
        /\ Len(q.items) \in Int /\ q.dropped \in Int
    BY <2>1, OrderedTail, OrderedAppend DEF Queues
  <2>4. Append(Tail(q.items), top + 1) \in Seq(Int)
    BY <2>3 DEF Ordered
  <2> HIDE DEF p
  <2>5. p \in Queues
    <3> DEFINE more == Append(Tail(q.items), top + 1)
    <3>1. more \in Seq(Int) /\ q.dropped + 1 \in Int
      BY <2>3, <2>4
    <3>2. p = [items |-> more, dropped |-> q.dropped + 1]
      BY <2>2
    <3> HIDE DEF more
    <3> QED BY <3>1, <3>2 DEF Queues
  <2>6. p.dropped + Len(p.items) = q.dropped + Len(q.items) + 1
    BY <2>2, <2>3
  <2>7. Ordered(last, p.items, top + 1)
    BY <2>2, <2>3
  <2>. QED BY <2>5, <2>6, <2>7 DEF p
<1>2. CASE ~Full(q, QueueCapacity)
  <2>1. /\ p = [q EXCEPT !.items = Append(@, top + 1)]
        /\ p.items = Append(q.items, top + 1) /\ p.dropped = q.dropped
    BY <1>2 DEF Push, Queues
  <2>2. /\ Ordered(last, Append(q.items, top + 1), top + 1)
        /\ Len(Append(q.items, top + 1)) = Len(q.items) + 1 /\ Len(q.items) \in Int
        /\ q.dropped \in Int
    BY OrderedAppend DEF Queues
  <2>3. Append(q.items, top + 1) \in Seq(Int)
    BY <2>2 DEF Ordered
  <2>4. p \in Queues
    BY <2>1, <2>3 DEF Queues
  <2>5. p.dropped + Len(p.items) = q.dropped + Len(q.items) + 1
    BY <2>1, <2>2
  <2>. HIDE DEF p
  <2>6. Ordered(last, p.items, top + 1)
    BY <2>1, <2>2
  <2>. QED BY <2>4, <2>5, <2>6 DEF p
<1>. QED BY <1>1, <1>2

reportVars == <<playerStateQueue, ticksRun, messages, lastTick>>

\* Only a tick and the receiver touch the queue, and only the sim its stepper.
LEMMA ReportsStay ==
  ASSUME Next, ~SimTick, ~NetThread
  PROVE  UNCHANGED reportVars /\ (SimBegin \/ UNCHANGED simStepper)
<1>. USE DEF reportVars, mainVars, timeVars, frameVars, tickVars, worldVars, stopVars, netVars
<1>1. CASE MainThread
  BY <1>1 DEF MainThread, MainPoll, MainPost, MainStop, MainStopped, MainNetJoin, Shutdown,
              MainUnchanged
<1>2. CASE SimThread
  BY <1>2 DEF SimThread, SimBegin, SimEnd, SimExit
<1>3. CASE WorldThread
  BY <1>3 DEF WorldThread, WorldBegin, WorldTick, WorldEnd, WorldExit, WorldUnchanged
<1>4. CASE Tick
  BY <1>4 DEF Tick
<1>. QED BY <1>1, <1>2, <1>3, <1>4 DEF Next

LEMMA ReportStep ==
  DemoAssumption /\ StillInv /\ ReportInv /\ [Next]_vars => ReportInv'
<1>. SUFFICES ASSUME DemoAssumption, StillInv, ReportInv, [Next]_vars PROVE ReportInv'
  OBVIOUS
<1>1. CASE SimTick
  <2>1. /\ simStepper'.consumed = simStepper.consumed + 1
        /\ simStepper.consumed + 1 \in Int
    BY <1>1 DEF SimTick, Step, StillInv, Steppers
  <2>2. /\ playerStateQueue' = Push(playerStateQueue, QueueCapacity, simStepper'.consumed)
        /\ ticksRun' = ticksRun + 1 /\ UNCHANGED <<messages, lastTick>>
    BY <1>1 DEF SimTick, OnTick, netVars
  <2>3. /\ playerStateQueue' \in Queues
        /\ Ordered(lastTick, playerStateQueue'.items, simStepper.consumed + 1)
        /\ playerStateQueue'.dropped + Len(playerStateQueue'.items)
               = playerStateQueue.dropped + Len(playerStateQueue.items) + 1
    BY <2>1, <2>2, PushOrdered DEF ReportInv
  <2>4. /\ playerStateQueue'.dropped \in Int /\ Len(playerStateQueue'.items) \in Int
        /\ playerStateQueue.dropped \in Int /\ Len(playerStateQueue.items) \in Int
    BY <2>3 DEF Queues, ReportInv
  <2>5. Ordered(lastTick', playerStateQueue'.items, simStepper'.consumed)
    BY <2>1, <2>2, <2>3
  <2>6. /\ ticksRun \in Int /\ messages \in Int /\ messages' = messages
        /\ ticksRun = messages + playerStateQueue.dropped + Len(playerStateQueue.items)
    BY <2>2 DEF ReportInv
  <2>7. /\ ticksRun' \in Int /\ messages' \in Int
        /\ ticksRun' = messages' + playerStateQueue'.dropped + Len(playerStateQueue'.items)
    <3>1. ticksRun' = ticksRun + 1 BY <2>2
    <3>2. playerStateQueue'.dropped + Len(playerStateQueue'.items)
              = playerStateQueue.dropped + Len(playerStateQueue.items) + 1
      BY <2>3
    <3>3. ticksRun' = messages' + playerStateQueue'.dropped + Len(playerStateQueue'.items)
      <4>. DEFINE n == Len(playerStateQueue.items)
                  m == Len(playerStateQueue'.items)
                  d == playerStateQueue.dropped
                  e == playerStateQueue'.dropped
      <4>1. /\ n \in Int /\ m \in Int /\ d \in Int /\ e \in Int /\ messages \in Int
            /\ ticksRun = messages + d + n /\ e + m = d + n + 1
        BY <2>4, <2>6, <3>2
      <4>. HIDE DEF n, m, d, e
      <4>2. ticksRun + 1 = messages + e + m
        BY <4>1
      <4>. QED BY <2>6, <3>1, <4>2 DEF m, e
    <3>. QED BY <2>6, <3>1, <3>3
  <2>. QED BY <2>3, <2>5, <2>7 DEF ReportInv
<1>2. CASE NetThread /\ PopState
  <2>1. UNCHANGED <<simStepper, ticksRun>>
    BY <1>2 DEF NetThread, NetPop, NetWait, NetWaited, NetExit, NetUnchanged, frameVars,
                PopState, HasItem
  <2>2. /\ playerStateQueue.items # <<>>
        /\ playerStateQueue' = [playerStateQueue EXCEPT !.items = Tail(@)]
        /\ messages' = messages + 1 /\ lastTick' = Head(playerStateQueue.items)
    BY <1>2 DEF PopState, HasItem, Popped, Front
  <2>3. /\ Ordered(lastTick', Tail(playerStateQueue.items), simStepper.consumed)
        /\ Len(Tail(playerStateQueue.items)) = Len(playerStateQueue.items) - 1
    BY <2>2, OrderedTail DEF ReportInv
  <2>4. /\ playerStateQueue'.items = Tail(playerStateQueue.items)
        /\ playerStateQueue'.dropped = playerStateQueue.dropped
        /\ Len(playerStateQueue.items) \in Int /\ playerStateQueue.dropped \in Int
    BY <2>2 DEF ReportInv, Queues
  <2>5. Tail(playerStateQueue.items) \in Seq(Int)
    BY <2>3 DEF Ordered
  <2>6. playerStateQueue' \in Queues
    BY <2>2, <2>5 DEF ReportInv, Queues
  <2>7. Ordered(lastTick', playerStateQueue'.items, simStepper'.consumed)
    BY <2>1, <2>3, <2>4
  <2>8. /\ ticksRun' \in Int /\ messages' \in Int
        /\ ticksRun' = messages' + playerStateQueue'.dropped + Len(playerStateQueue'.items)
    <3>1. /\ ticksRun \in Int /\ messages \in Int /\ ticksRun' = ticksRun
          /\ messages' = messages + 1
          /\ ticksRun = messages + playerStateQueue.dropped + Len(playerStateQueue.items)
      BY <2>1, <2>2 DEF ReportInv
    <3>2. Len(playerStateQueue'.items) = Len(playerStateQueue.items) - 1
      BY <2>3, <2>4
    <3>3. playerStateQueue'.dropped = playerStateQueue.dropped
      BY <2>4
    <3>4. Len(playerStateQueue.items) \in Int /\ playerStateQueue.dropped \in Int
      BY <2>4
    <3>. QED BY <3>1, <3>2, <3>3, <3>4
  <2>. QED BY <2>6, <2>7, <2>8 DEF ReportInv
<1>3. CASE UNCHANGED reportVars /\ SimBegin
  <2>1. /\ simStepper'.consumed \in Int /\ simStepper.consumed <= simStepper'.consumed
    <3>. DEFINE from == IF sim = "new" THEN NewStepper(now) ELSE simStepper
    <3>1. from \in Steppers /\ from.consumed <= now /\ simStepper.consumed <= from.consumed
      BY DEF StillInv, NewStepper, Steppers
    <3>2. simStepper' = BeginFrame(from, now, MaxSteps)
      BY <1>3 DEF SimBegin
    <3>. HIDE DEF from
    <3>3. simStepper' \in Steppers /\ from.consumed <= simStepper'.consumed
      BY <3>1, <3>2, FrameBegins DEF StillInv, DemoAssumption
    <3>. QED BY <3>1, <3>3 DEF StillInv, Steppers
  <2>. QED BY <1>3, <2>1 DEF reportVars, ReportInv, Ordered
<1>4. CASE UNCHANGED <<reportVars, simStepper>>
  BY <1>4 DEF reportVars, ReportInv, Ordered
<1>5. CASE NetThread /\ ~PopState
  <2>1. UNCHANGED <<reportVars, simStepper>>
    BY <1>5 DEF NetThread, NetPop, NetWait, NetWaited, NetExit, NetUnchanged, frameVars,
                reportVars
  <2>. QED BY <1>4, <2>1
<1>6. CASE UNCHANGED vars
  BY <1>4, <1>6 DEF vars, reportVars, frameVars, tickVars, netVars
<1>. QED BY <1>1, <1>2, <1>3, <1>4, <1>5, <1>6, ReportsStay

\* One state per tick, in order, and none is lost uncounted
\* (MultithreadDemo!EveryTickReported; main.cpp:178-180).
THEOREM TicksReported == Spec => []EveryTickReported
<1>1. ASSUME Init PROVE StillInv /\ ReportInv
  <2>1. /\ now = 0 /\ ~paused /\ paused \in BOOLEAN /\ ~pauseShown /\ pauseShown \in BOOLEAN
        /\ sim = "new" /\ simStepper = NewStepper(0)
    BY <1>1 DEF Init
  <2>2. simStepper \in Steppers /\ simStepper.consumed = 0
    BY <2>1 DEF Steppers, NewStepper
  <2>3. /\ playerStateQueue = [items |-> <<>>, dropped |-> 0]
        /\ ticksRun = 0 /\ messages = 0 /\ lastTick = 0
    BY <1>1 DEF Init, NewQueue
  <2>4. ReportInv
    BY <2>2, <2>3 DEF ReportInv, Queues, Ordered
  <2>. QED BY <2>1, <2>2, <2>4 DEF StillInv
<1>2. DemoAssumption /\ StillInv /\ ReportInv /\ [Next]_vars => StillInv' /\ ReportInv'
  BY StillStep, ReportStep
<1>3. ReportInv => EveryTickReported
  <2>. SUFFICES ASSUME ReportInv PROVE EveryTickReported OBVIOUS
  <2>. DEFINE items == playerStateQueue.items
  <2>1. /\ items \in Seq(Int) /\ Len(items) \in Nat /\ lastTick \in Int
        /\ \A i \in 1..Len(items) : lastTick < items[i]
        /\ \A i \in 1..Len(items) : \A j \in 1..Len(items) : i < j => items[i] < items[j]
    BY DEF ReportInv, Ordered
  <2>2. /\ Len(Reported) = Len(items) + 1 /\ Reported[1] = lastTick
        /\ \A i \in 2..(Len(items) + 1) : Reported[i] = items[i - 1]
    BY <2>1 DEF Reported
  <2>. HIDE DEF items
  <2>3. ASSUME NEW i \in 2..Len(Reported) PROVE Reported[i - 1] < Reported[i]
    <3>1. i - 1 \in 1..Len(items) /\ Reported[i] = items[i - 1]
      BY <2>1, <2>2
    <3>2. CASE i = 2
      BY <2>1, <2>2, <3>1, <3>2
    <3>3. CASE i # 2
      <4>1. /\ i - 1 \in 2..(Len(items) + 1) /\ (i - 1) - 1 \in 1..Len(items)
            /\ (i - 1) - 1 < i - 1
        BY <2>1, <2>2, <3>3
      <4>2. Reported[i - 1] = items[(i - 1) - 1]
        BY <2>2, <4>1
      <4>. QED BY <2>1, <3>1, <4>1, <4>2
    <3>. QED BY <3>2, <3>3
  <2>. QED BY <2>3 DEF ReportInv, EveryTickReported
<1>. QED BY <1>1, <1>2, <1>3, DemoAssumption, PTL DEF Spec

-----------------------------------------------------------------------------
(***************************************************************************)
(* Blocks.  A tick keeps the sum of what the player has of speed and of    *)
(* height, and a collision only takes of it.  So there is a fastest fall,  *)
(* by less in a tick than the player or the floor is high, and a highest   *)
(* jump, which ends below the platform.  A player that was clear of the    *)
(* floor is then in it by less than either of the two along one axis, and  *)
(* the push along the shallower axis makes the two flush.                  *)
(***************************************************************************)
Points == [x : Int, y : Int]

\* w is the level with the player at p, its velocity v, and the platform at q.
Level(w, p, v, q) ==
    /\ {"live", "transforms", "stores"} \subseteq DOMAIN w
    /\ w.live = {Floor, Platform, Player}
    /\ DOMAIN w.transforms = {Floor, Platform, Player}
    /\ w.transforms[Floor] = FloorAt
    /\ w.transforms[Platform] = q
    /\ w.transforms[Player] = p
    /\ {P!Collider, P!RigidBody} \subseteq DOMAIN w.stores
    /\ DOMAIN w.stores[P!Collider] = {Floor, Platform, Player}
    /\ w.stores[P!Collider][Floor] = FloorSize
    /\ w.stores[P!Collider][Platform] = PlatformSize
    /\ w.stores[P!Collider][Player] = PlayerSize
    /\ DOMAIN w.stores[P!RigidBody] = {Player}
    /\ w.stores[P!RigidBody][Player] = v

\* What an interval at p that is a long shares with one at f that is b long.
Overlap(p, a, f, b) == P!Lower(p + a, f + b) - P!Upper(p, f)

\* How deep the player is in the floor when it is at p.
Across(p) == Overlap(p.x, PlayerSize.x, FloorAt.x, FloorSize.x)
Down(p)   == Overlap(p.y, PlayerSize.y, FloorAt.y, FloorSize.y)

Clear(p) == Across(p) <= 0 \/ Down(p) <= 0

\* The player is not so deep in the floor that the way out is on the far side.
Shallow(p) == Across(p) < Smallest \/ Down(p) < Smallest

\* How fast and how high the player can be.
Tame(p, v) == v.y >= -JumpSpeed /\ Energy(p.y, v.y) <= MostEnergy

\* The scene between two ticks.
InLevel(w, landed) ==
    \E p \in Points, v \in Points : \E q :
       /\ Level(w, p, v, q) /\ q.y = PlatformAt.y
       /\ Clear(p) /\ Tame(p, v) /\ p.y <= Bottom
       /\ landed => p.y = Standing /\ Across(p) >= 0

LevelInv ==
    /\ lastPlatform.y = PlatformAt.y
    /\ HasPending(platformSlot) => Head(platformSlot).y = PlatformAt.y
    /\ grounded \in BOOLEAN
    /\ InLevel(scene, grounded)

\* What a fall can reach: a speed of which this is known is, a tick later, less than S.
LEMMA FallBounded ==
  ASSUME NEW S \in Nat, NEW g \in Nat, NEW K \in Nat, NEW v \in Int,
         K < S * (S - g), v * (v + g) <= K
  PROVE  v + g < S
<1>1. S > g
  <2>1. SUFFICES ASSUME S - g <= 0 PROVE FALSE OBVIOUS
  <2>2. S * (S - g) <= 0 BY <2>1
  <2>. QED BY <2>2
<1>2. SUFFICES ASSUME v + g >= S PROVE FALSE OBVIOUS
<1>3. (v + g - S) * (v + S) >= 0
  <2>1. v + g - S \in Nat /\ v + S \in Nat BY <1>1, <1>2
  <2>. QED BY <2>1
<1>4. (v + g - S) * (v + S) = v * (v + g) - S * (S - g)
  OBVIOUS
<1>. QED BY <1>3, <1>4

\* A tick keeps the energy.
LEMMA EnergyKept ==
  ASSUME Gravity \in Int, Standing \in Int, NEW y \in Int, NEW v \in Int
  PROVE  Energy(y + (v + Gravity), v + Gravity) = Energy(y, v)
<1>. DEFINE g == Gravity
            s == Standing
<1>1. (v + g) * ((v + g) + g) = v * (v + g) + 2 * g * (v + g)
  OBVIOUS
<1>2. 2 * g * (s - (y + (v + g))) = 2 * g * (s - y) - 2 * g * (v + g)
  OBVIOUS
<1>. HIDE DEF g, s
<1>. QED BY <1>1, <1>2 DEF Energy, g, s

\* Lower down there is less of it.
LEMMA EnergyFalls ==
  ASSUME Gravity \in Int, Standing \in Int, NEW y \in Int, NEW z \in Int, NEW v \in Int
  PROVE  /\ Energy(y, v) \in Int
         /\ Energy(z, v) = Energy(y, v) - (2 * Gravity) * (z - y)
<1>. DEFINE k == v * (v + Gravity)
            g == 2 * Gravity
<1>1. k \in Int /\ g \in Int OBVIOUS
<1>2. Energy(y, v) = k + g * (Standing - y) /\ Energy(z, v) = k + g * (Standing - z)
  BY DEF Energy
<1>. HIDE DEF k, g
<1>3. g * (Standing - z) = g * (Standing - y) - g * (z - y)
  BY <1>1
<1>. QED BY <1>1, <1>2, <1>3 DEF g

LEMMA EnergyOf ==
  ASSUME Gravity \in Int, Standing \in Int, NEW y \in Int, NEW v \in Int
  PROVE  /\ Energy(y, v) = v * (v + Gravity) + (2 * Gravity) * (Standing - y)
         /\ v * (v + Gravity) \in Int
         /\ v = 0 => Energy(y, v) = (2 * Gravity) * (Standing - y)
<1>1. v * (v + Gravity) \in Int /\ (2 * Gravity) * (Standing - y) \in Int
  OBVIOUS
<1>2. Energy(y, v) = v * (v + Gravity) + (2 * Gravity) * (Standing - y)
  BY DEF Energy
<1>3. v = 0 => v * (v + Gravity) = 0
  OBVIOUS
<1>. QED BY <1>1, <1>2, <1>3

LEMMA LeastEnergy ==
  ASSUME NEW g \in Nat, NEW v \in Int
  PROVE  v * (v + g) >= - (g * g)
<1>1. CASE v >= 0
  <2>1. v \in Nat /\ v + g \in Nat BY <1>1
  <2>2. v * (v + g) >= 0 BY <2>1
  <2>3. g * g >= 0 OBVIOUS
  <2>. QED BY <2>2, <2>3
<1>2. CASE v + g <= 0
  <2>1. -v \in Nat /\ -(v + g) \in Nat BY <1>2
  <2>2. (-v) * (-(v + g)) >= 0 BY <2>1
  <2>3. v * (v + g) = (-v) * (-(v + g)) OBVIOUS
  <2>4. g * g >= 0 OBVIOUS
  <2>. QED BY <2>2, <2>3, <2>4
<1>3. CASE v < 0 /\ v + g > 0
  <2>1. g + v \in Nat /\ -v \in Nat BY <1>3
  <2>2. g * (g + v) >= 0 /\ (-v) * (-v) >= 0 BY <2>1
  <2>3. g * g + v * (v + g) = g * (g + v) + (-v) * (-v) OBVIOUS
  <2>. QED BY <2>2, <2>3
<1>. QED BY <1>1, <1>2, <1>3

-----------------------------------------------------------------------------
\* What the calls of onTick do to the level.
LEMMA LevelPlaced ==
  ASSUME NEW w, NEW p, NEW v, NEW q, NEW r, Level(w, p, v, q)
  PROVE  /\ Level(P!SetTransform(w, Player, r), r, v, q)
         /\ Level(P!SetTransform(w, Platform, r), p, v, r)
<1>1. ASSUME NEW e \in {Platform, Player}
      PROVE  LET u == P!SetTransform(w, e, r)
             IN  /\ DOMAIN u = DOMAIN w /\ u.live = w.live /\ u.stores = w.stores
                 /\ DOMAIN u.transforms = DOMAIN w.transforms /\ u.transforms[e] = r
                 /\ \A f \in {Floor, Platform, Player} \ {e} :
                       u.transforms[f] = w.transforms[f]
  BY DEF Level, P!SetTransform, P!HasEntity
<1>. QED BY <1>1 DEF Level, Floor, Platform, Player

LEMMA LevelSped ==
  ASSUME NEW w, NEW p, NEW v, NEW q, NEW r, Level(w, p, v, q)
  PROVE  Level(P!Attach(w, P!RigidBody, Player, r), p, r, q)
<1>. DEFINE u == P!Attach(w, P!RigidBody, Player, r)
<1>1. u = [w EXCEPT !.stores[P!RigidBody] = P!Put(@, Player, r)]
  BY DEF Level, P!Attach, P!HasEntity
<1>2. /\ DOMAIN u = DOMAIN w /\ u.live = w.live /\ u.transforms = w.transforms
      /\ DOMAIN u.stores = DOMAIN w.stores
      /\ u.stores[P!Collider] = w.stores[P!Collider]
      /\ u.stores[P!RigidBody] = P!Put(w.stores[P!RigidBody], Player, r)
  BY <1>1 DEF Level, P!Collider, P!RigidBody
<1>3. /\ DOMAIN u.stores[P!RigidBody] = {Player}
      /\ u.stores[P!RigidBody][Player] = r
  BY <1>2 DEF Level, P!Put
<1>. HIDE DEF u
<1>. QED BY <1>2, <1>3 DEF Level, u

LEMMA LevelAdvanced ==
  ASSUME NEW w, NEW p, NEW v, NEW q, Level(w, p, v, q)
  PROVE  LET n == P!Plus(v, P!Vec(0, Gravity))
         IN  Level(P!Advance(w, Gravity), P!Plus(p, n), n, q)
<1>. DEFINE n == P!Plus(v, P!Vec(0, Gravity))
            f == P!Fall(w, Gravity)
            u == P!Move(f)
<1>1. Level(f, p, n, q)
  <2>1. /\ DOMAIN f = DOMAIN w /\ f.live = w.live /\ f.transforms = w.transforms
        /\ DOMAIN f.stores = DOMAIN w.stores
        /\ f.stores[P!Collider] = w.stores[P!Collider]
        /\ f.stores[P!RigidBody]
             = [e \in DOMAIN w.stores[P!RigidBody] |->
                   P!Plus(w.stores[P!RigidBody][e], P!Vec(0, Gravity))]
    BY DEF Level, P!Fall, P!Collider, P!RigidBody
  <2>2. DOMAIN f.stores[P!RigidBody] = {Player} /\ f.stores[P!RigidBody][Player] = n
    BY <2>1 DEF Level
  <2>. HIDE DEF f, n
  <2>. QED BY <2>1, <2>2 DEF Level
<1>2. Level(u, P!Plus(p, n), n, q)
  <2>. HIDE DEF f, n
  <2>1. /\ DOMAIN u = DOMAIN f /\ u.live = f.live /\ u.stores = f.stores
        /\ u.transforms = [e \in DOMAIN f.transforms |->
              IF P!Has(f, P!RigidBody, e)
              THEN P!Plus(f.transforms[e], P!Get(f, P!RigidBody, e))
              ELSE f.transforms[e]]
    BY <1>1 DEF Level, P!Move
  <2>2. \A e : P!Has(f, P!RigidBody, e) <=> e = Player
    BY <1>1 DEF Level, P!Has
  <2>3. P!Get(f, P!RigidBody, Player) = n
    BY <1>1, <2>2 DEF Level, P!Get
  <2>4. /\ DOMAIN u.transforms = {Floor, Platform, Player}
        /\ u.transforms[Floor] = FloorAt /\ u.transforms[Platform] = q
        /\ u.transforms[Player] = P!Plus(p, n)
    BY <1>1, <2>1, <2>2, <2>3 DEF Level, Floor, Platform, Player
  <2>. HIDE DEF u
  <2>. QED BY <1>1, <2>1, <2>4 DEF Level
<1>. QED BY <1>2 DEF P!Advance

\* What the boxes of the player and the floor share, and those of the player and the platform.
LEMMA LevelShared ==
  ASSUME NEW w, NEW p, NEW v, NEW q, Level(w, p, v, q)
  PROVE  /\ P!HaveColliders(w, Player, Floor) /\ P!HaveColliders(w, Player, Platform)
         /\ P!Shared(w, Player, Floor).size.x = Across(p)
         /\ P!Shared(w, Player, Floor).size.y = Down(p)
         /\ P!Shared(w, Player, Platform).size.y
              = Overlap(p.y, PlayerSize.y, q.y, PlatformSize.y)
<1>1. /\ P!Get(w, P!Collider, Floor) = FloorSize
      /\ P!Get(w, P!Collider, Platform) = PlatformSize
      /\ P!Get(w, P!Collider, Player) = PlayerSize
      /\ P!HaveColliders(w, Player, Floor) /\ P!HaveColliders(w, Player, Platform)
  BY DEF Level, P!Get, P!Has, P!HaveColliders, Floor, Platform, Player
<1>2. /\ w.transforms[Floor] = FloorAt /\ w.transforms[Platform] = q
      /\ w.transforms[Player] = p
  BY DEF Level
<1>. QED BY <1>1, <1>2 DEF P!Shared, P!Vec, Across, Down, Overlap

-----------------------------------------------------------------------------
(***************************************************************************)
(* The collision with the floor.                                           *)
(***************************************************************************)
\* A step of less than s takes two intervals that are apart less than s into each other.
LEMMA StepsInto ==
  ASSUME NEW p \in Int, NEW a \in Int, NEW f \in Int, NEW b \in Int, NEW k \in Int,
         NEW s \in Int, Overlap(p, a, f, b) <= 0, -s < k, k < s
  PROVE  Overlap(p + k, a, f, b) < s
BY DEF Overlap, P!Lower, P!Upper

\* The push by the overlap, away from the other centre, makes the intervals flush.
LEMMA PushIsFlush ==
  ASSUME NEW p \in Int, NEW a \in Int, NEW f \in Int, NEW b \in Int, NEW d \in Int,
         d = Overlap(p, a, f, b), 0 <= d, d < a, d < b
  PROVE  /\ 2 * p + a < 2 * f + b => p - d = f - a /\ Overlap(p - d, a, f, b) = 0
         /\ ~(2 * p + a < 2 * f + b) => p + d = f + b /\ Overlap(p + d, a, f, b) = 0
BY DEF Overlap, P!Lower, P!Upper

LEMMA LevelFacts ==
  LevelAssumption =>
    /\ Gravity \in Nat /\ RunSpeed \in Nat /\ JumpSpeed \in Nat /\ Bottom \in Int
    /\ Standing \in Int /\ Smallest \in Nat /\ MostEnergy \in Nat
    /\ PlayerSize \in Points /\ FloorAt \in Points /\ FloorSize \in Points
    /\ SpawnAt \in Points /\ PlatformAt \in Points /\ PlatformSize \in Points
    /\ Smallest <= PlayerSize.x /\ Smallest <= PlayerSize.y
    /\ Smallest <= FloorSize.x /\ Smallest <= FloorSize.y
    /\ RunSpeed < Smallest /\ JumpSpeed < Smallest /\ 0 < Smallest
    /\ SpawnAt.y <= Standing /\ Standing <= Bottom
    /\ Standing = FloorAt.y - PlayerSize.y
    /\ Energy(Standing, -JumpSpeed) <= MostEnergy /\ Energy(SpawnAt.y, 0) <= MostEnergy
<1>. SUFFICES ASSUME LevelAssumption
     PROVE  /\ Gravity \in Nat /\ RunSpeed \in Nat /\ JumpSpeed \in Nat /\ Bottom \in Int
            /\ Standing \in Int /\ Smallest \in Nat /\ MostEnergy \in Nat
            /\ PlayerSize \in Points /\ FloorAt \in Points /\ FloorSize \in Points
            /\ SpawnAt \in Points /\ PlatformAt \in Points /\ PlatformSize \in Points
            /\ Smallest <= PlayerSize.x /\ Smallest <= PlayerSize.y
            /\ Smallest <= FloorSize.x /\ Smallest <= FloorSize.y
            /\ RunSpeed < Smallest /\ JumpSpeed < Smallest /\ 0 < Smallest
            /\ SpawnAt.y <= Standing /\ Standing <= Bottom
            /\ Standing = FloorAt.y - PlayerSize.y
            /\ Energy(Standing, -JumpSpeed) <= MostEnergy /\ Energy(SpawnAt.y, 0) <= MostEnergy
  OBVIOUS
<1>1. /\ Gravity \in Nat /\ RunSpeed \in Nat /\ JumpSpeed \in Nat /\ Bottom \in Int
      /\ PlayerSize \in Points /\ FloorAt \in Points /\ FloorSize \in Points
      /\ SpawnAt \in Points /\ PlatformAt \in Points /\ PlatformSize \in Points
      /\ RunSpeed < Smallest /\ JumpSpeed < Smallest
      /\ SpawnAt.y <= Standing /\ Standing <= Bottom
  BY DEF LevelAssumption, Points
<1>2. /\ PlayerSize.x \in Int /\ PlayerSize.y \in Int /\ FloorSize.x \in Int
      /\ FloorSize.y \in Int /\ FloorAt.y \in Int /\ SpawnAt.y \in Int
  BY <1>1 DEF Points
<1>3. /\ Smallest \in Int
      /\ Smallest <= PlayerSize.x /\ Smallest <= PlayerSize.y
      /\ Smallest <= FloorSize.x /\ Smallest <= FloorSize.y
  BY <1>2 DEF Smallest, P!Lower
<1>4. 0 < Smallest /\ Smallest \in Nat
  BY <1>1, <1>3
<1>5. Standing \in Int /\ Standing = FloorAt.y - PlayerSize.y
  BY <1>2 DEF Standing
<1>6. Energy(Standing, -JumpSpeed) \in Int /\ Energy(SpawnAt.y, 0) \in Nat
  <2>1. Energy(Standing, -JumpSpeed) \in Int
    BY <1>1, <1>5 DEF Energy
  <2>2. 2 * Gravity \in Nat /\ Standing - SpawnAt.y \in Nat
    BY <1>1, <1>2, <1>5
  <2>3. (2 * Gravity) * (Standing - SpawnAt.y) \in Nat /\ 0 * (0 + Gravity) = 0
    BY ONLY <2>2, <1>1
  <2>. QED BY <2>1, <2>3, <1>1 DEF Energy
<1>7. /\ Energy(Standing, -JumpSpeed) <= MostEnergy /\ Energy(SpawnAt.y, 0) <= MostEnergy
      /\ MostEnergy \in Nat
  BY <1>6 DEF MostEnergy, P!Upper
<1>. QED BY <1>1, <1>3, <1>4, <1>5, <1>7

\* A player at rest on the floor, or below where it stands, has no energy to speak of.
LEMMA RestIsTame ==
  ASSUME LevelAssumption, NEW p \in Points, NEW v \in Points, v.y = 0, p.y >= Standing
  PROVE  Tame(p, v)
<1>. USE LevelFacts
<1>1. p.y \in Int /\ 2 * Gravity \in Nat /\ p.y - Standing \in Nat
  BY DEF Points
<1>2. (2 * Gravity) * (p.y - Standing) \in Nat
  BY ONLY <1>1
<1>3. v.y \in Int /\ Gravity \in Int /\ Standing \in Int /\ MostEnergy >= 0 /\ JumpSpeed >= 0
  BY DEF Points
<1>4. Energy(p.y, v.y) = (2 * Gravity) * (Standing - p.y)
  BY ONLY <1>1, <1>3, v.y = 0, EnergyOf
<1>5. (2 * Gravity) * (Standing - p.y) = -((2 * Gravity) * (p.y - Standing))
  BY ONLY <1>1, <1>3
<1>. QED BY <1>2, <1>3, <1>4, <1>5 DEF Tame

\* Lower down at the same speed there is less energy.
LEMMA LowerIsTame ==
  ASSUME LevelAssumption, NEW p \in Points, NEW r \in Points, NEW v \in Points, Tame(p, v),
         p.y <= r.y
  PROVE  Tame(r, v)
<1>. USE LevelFacts
<1>1. /\ p.y \in Int /\ r.y \in Int /\ v.y \in Int /\ 2 * Gravity \in Nat
      /\ r.y - p.y \in Nat
  BY DEF Points
<1>2. (2 * Gravity) * (r.y - p.y) \in Nat
  BY <1>1
<1>3. /\ Energy(r.y, v.y) = Energy(p.y, v.y) - (2 * Gravity) * (r.y - p.y)
      /\ Energy(p.y, v.y) \in Int
  BY <1>1, EnergyFalls
<1>. QED BY <1>2, <1>3 DEF Tame

\* What is left of a collision with the floor.
Settled(r, q) ==
    \E p \in Points, v \in Points :
       /\ Level(r.scene, p, v, q) /\ Clear(p) /\ Tame(p, v)
       /\ r.landed \in BOOLEAN
       /\ r.landed => p.y = Standing /\ Across(p) >= 0

LEMMA FloorResolved ==
  ASSUME LevelAssumption, NEW w, NEW p \in Points, NEW v \in Points, NEW q,
         Level(w, p, v, q), Shallow(p), Tame(p, v)
  PROVE  Settled(ResolveCollision(w, Floor), q)
<1>. USE LevelFacts
<1>. DEFINE r == ResolveCollision(w, Floor)
            dx == Across(p)
            dy == Down(p)
<1>1. /\ p.x \in Int /\ p.y \in Int /\ v.x \in Int /\ v.y \in Int
      /\ FloorAt.x \in Int /\ FloorAt.y \in Int /\ FloorSize.x \in Int /\ FloorSize.y \in Int
      /\ PlayerSize.x \in Int /\ PlayerSize.y \in Int
  BY DEF Points
<1>2. dx \in Int /\ dy \in Int
  BY <1>1 DEF Across, Down, Overlap, P!Lower, P!Upper
<1>3. P!IsCollision(w, Player, Floor) <=> dx >= 0 /\ dy >= 0
  BY LevelShared DEF P!IsCollision
<1>4. P!IsCollision(w, Player, Floor) =>
        LET d == P!GetCollisionOverlap(w, Player, Floor).size
        IN  d.x = dx /\ d.y = dy
  BY LevelShared DEF P!GetCollisionOverlap
<1>5. /\ w.transforms[Player] = p /\ w.transforms[Floor] = FloorAt
      /\ P!Get(w, P!RigidBody, Player) = v
      /\ P!Get(w, P!Collider, Player) = PlayerSize
      /\ P!Get(w, P!Collider, Floor) = FloorSize
  BY DEF Level, P!Get, P!Has
<1>6. /\ Before(w, Player, Floor, "x") <=> 2 * p.x + PlayerSize.x < 2 * FloorAt.x + FloorSize.x
      /\ Before(w, Player, Floor, "y") <=> 2 * p.y + PlayerSize.y < 2 * FloorAt.y + FloorSize.y
  BY <1>5 DEF Before
<1>7. \A k : Pushed(w, k) = P!SetTransform(w, Player, P!Plus(p, k))
  BY <1>5 DEF Pushed
<1>8. CASE ~P!IsCollision(w, Player, Floor)
  <2>1. r = [scene |-> w, landed |-> FALSE]
    BY <1>8 DEF ResolveCollision
  <2>2. Clear(p)
    BY <1>2, <1>3, <1>8 DEF Clear
  <2>. QED BY <2>1, <2>2 DEF Settled
<1>9. CASE P!IsCollision(w, Player, Floor) /\ dy > dx
  <2>1. dx >= 0 /\ dx < PlayerSize.x /\ dx < FloorSize.x
    BY <1>1, <1>2, <1>3, <1>9 DEF Shallow
  <2>2. PICK k \in {-dx, dx} :
           /\ r = [scene |-> Pushed(w, P!Vec(k, 0)), landed |-> FALSE]
           /\ Overlap(p.x + k, PlayerSize.x, FloorAt.x, FloorSize.x) = 0
    <3>. HIDE DEF dy
    <3>1. dx = Overlap(p.x, PlayerSize.x, FloorAt.x, FloorSize.x)
      BY DEF Across
    <3>. HIDE DEF dx
    <3>2. /\ 2 * p.x + PlayerSize.x < 2 * FloorAt.x + FloorSize.x
                => Overlap(p.x - dx, PlayerSize.x, FloorAt.x, FloorSize.x) = 0
          /\ ~(2 * p.x + PlayerSize.x < 2 * FloorAt.x + FloorSize.x)
                => Overlap(p.x + dx, PlayerSize.x, FloorAt.x, FloorSize.x) = 0
      BY <1>1, <1>2, <2>1, <3>1, PushIsFlush
    <3>3. r = [scene |-> Pushed(w, P!Vec(IF Before(w, Player, Floor, "x")
                                         THEN -dx ELSE dx, 0)),
               landed |-> FALSE]
      BY <1>4, <1>9 DEF ResolveCollision
    <3>4. p.x + (-dx) = p.x - dx
      BY <1>1, <1>2
    <3>. QED BY <1>6, <3>2, <3>3, <3>4
  <2>. DEFINE s == P!Plus(p, P!Vec(k, 0))
  <2>3. s \in Points /\ s.x = p.x + k /\ s.y = p.y
    BY <1>1, <1>2, <2>2 DEF Points, P!Plus, P!Vec
  <2>4. Level(r.scene, s, v, q)
    BY <1>7, <2>2, LevelPlaced
  <2>5. Clear(s)
    BY <2>2, <2>3 DEF Clear, Across
  <2>6. Tame(s, v)
    BY <2>3 DEF Tame
  <2>7. r.landed = FALSE
    BY <2>2
  <2>. HIDE DEF s, r
  <2>. QED BY <2>3, <2>4, <2>5, <2>6, <2>7 DEF Settled, r
<1>10. CASE P!IsCollision(w, Player, Floor) /\ ~(dy > dx)
  <2>1. dy >= 0 /\ dx >= 0 /\ dy < PlayerSize.y /\ dy < FloorSize.y
    BY <1>1, <1>2, <1>3, <1>10 DEF Shallow
  <2>2. dy = Overlap(p.y, PlayerSize.y, FloorAt.y, FloorSize.y)
    BY DEF Down
  <2>3. CASE Before(w, Player, Floor, "y")
    <3>. DEFINE s == P!Plus(p, P!Vec(0, -dy))
                u == P!Vec(v.x, 0)
    <3>1. r = [scene |-> P!Attach(Pushed(w, P!Vec(0, -dy)), P!RigidBody, Player, u),
               landed |-> TRUE]
      BY <1>4, <1>5, <1>10, <2>3 DEF ResolveCollision
    <3>2. s \in Points /\ s.x = p.x /\ s.y = p.y - dy /\ u \in Points /\ u.y = 0
      BY <1>1, <1>2 DEF Points, P!Plus, P!Vec
    <3>3. Level(Pushed(w, P!Vec(0, -dy)), s, v, q)
      BY <1>7, LevelPlaced
    <3>4. Level(r.scene, s, u, q)
      BY <3>1, <3>3, LevelSped
    <3>5. /\ p.y - dy = FloorAt.y - PlayerSize.y
          /\ Overlap(p.y - dy, PlayerSize.y, FloorAt.y, FloorSize.y) = 0
      <4>1. 2 * p.y + PlayerSize.y < 2 * FloorAt.y + FloorSize.y
        BY <1>6, <2>3
      <4>. HIDE DEF dx, dy
      <4>. QED BY ONLY <1>1, <1>2, <2>1, <2>2, <4>1, PushIsFlush
    <3>6. s.y = Standing /\ Clear(s) /\ Across(s) >= 0
      BY <2>1, <3>2, <3>5 DEF Clear, Across, Down
    <3>7. r.landed = TRUE
      BY <3>1
    <3>. HIDE DEF s, u, r
    <3>8. Tame(s, u)
      BY <1>1, <3>2, <3>6, RestIsTame
    <3>. QED BY <3>2, <3>4, <3>6, <3>7, <3>8 DEF Settled, r
  <2>4. CASE ~Before(w, Player, Floor, "y")
    <3>. DEFINE s == P!Plus(p, P!Vec(0, dy))
                u == P!Vec(v.x, P!Upper(v.y, 0))
    <3>1. r = [scene |-> P!Attach(Pushed(w, P!Vec(0, dy)), P!RigidBody, Player, u),
               landed |-> FALSE]
      BY <1>4, <1>5, <1>10, <2>4 DEF ResolveCollision
    <3>2. s \in Points /\ s.x = p.x /\ s.y = p.y + dy /\ u \in Points
          /\ (u.y = v.y \/ u.y = 0)
      BY <1>1, <1>2 DEF Points, P!Plus, P!Vec, P!Upper
    <3>3. Level(Pushed(w, P!Vec(0, dy)), s, v, q)
      BY <1>7, LevelPlaced
    <3>4. Level(r.scene, s, u, q)
      BY <3>1, <3>3, LevelSped
    <3>5. /\ p.y + dy = FloorAt.y + FloorSize.y
          /\ Overlap(p.y + dy, PlayerSize.y, FloorAt.y, FloorSize.y) = 0
      <4>1. ~(2 * p.y + PlayerSize.y < 2 * FloorAt.y + FloorSize.y)
        BY <1>6, <2>4
      <4>. HIDE DEF dx, dy
      <4>. QED BY ONLY <1>1, <1>2, <2>1, <2>2, <4>1, PushIsFlush
    <3>6. s.y = FloorAt.y + FloorSize.y /\ Clear(s)
      BY <3>2, <3>5 DEF Clear, Down
    <3>7. r.landed = FALSE
      BY <3>1
    <3>. HIDE DEF s, u, r
    <3>8. CASE u.y = v.y
      <4>1. s.y >= p.y /\ Tame(p, u)
        BY <1>1, <1>2, <2>1, <3>2, <3>8 DEF Tame
      <4>2. Tame(s, u)
        BY <3>2, <4>1, LowerIsTame
      <4>. QED BY <3>2, <3>4, <3>6, <3>7, <4>2 DEF Settled, r
    <3>9. CASE u.y = 0
      <4>1. s.y >= Standing
        BY <1>1, <3>6
      <4>2. Tame(s, u)
        BY <3>2, <3>9, <4>1, RestIsTame
      <4>. QED BY <3>2, <3>4, <3>6, <3>7, <4>2 DEF Settled, r
    <3>. QED BY <3>2, <3>8, <3>9
  <2>. QED BY <2>3, <2>4
<1>. QED BY <1>8, <1>9, <1>10

-----------------------------------------------------------------------------
(***************************************************************************)
(* A tick.                                                                 *)
(***************************************************************************)
\* Steering sets the speed to the sides, and a jump the one upwards.
LEMMA SteeredLevel ==
  ASSUME LevelAssumption, NEW w, NEW p \in Points, NEW v \in Points, NEW q,
         Level(w, p, v, q), Tame(p, v), grounded => p.y = Standing
  PROVE  \E u \in Points : /\ Level(Steered(w), p, u, q) /\ Tame(p, u)
                           /\ -Smallest < u.x /\ u.x < Smallest
<1>. USE LevelFacts
<1>1. P!Get(w, P!RigidBody, Player) = v
  BY DEF Level, P!Get, P!Has
<1>. DEFINE across == IF IsKeyPressed(frameKeyboard, KeyD) THEN RunSpeed
                      ELSE IF IsKeyPressed(frameKeyboard, KeyA) THEN -RunSpeed ELSE 0
            up     == IF grounded /\ JumpPressed THEN -JumpSpeed ELSE v.y
            u      == P!Vec(across, up)
<1>2. Steered(w) = P!Attach(w, P!RigidBody, Player, u)
  BY <1>1 DEF Steered
<1>3. across \in Int /\ -Smallest < across /\ across < Smallest
  OBVIOUS
<1>4. up \in Int /\ (up = v.y \/ (up = -JumpSpeed /\ p.y = Standing))
  BY DEF Points
<1>. HIDE DEF across, up
<1>5. u \in Points /\ u.x = across /\ u.y = up
  BY <1>3, <1>4 DEF Points, P!Vec
<1>6. Tame(p, u)
  <2>1. CASE u.y = v.y
    BY <2>1 DEF Tame
  <2>2. CASE u.y = -JumpSpeed /\ p.y = Standing
    <3>1. Energy(p.y, u.y) = Energy(Standing, -JumpSpeed)
      BY ONLY <2>2
    <3>2. -JumpSpeed >= -JumpSpeed
      OBVIOUS
    <3>. QED BY <2>2, <3>1, <3>2 DEF Tame
  <2>. QED BY <1>4, <1>5, <2>1, <2>2
<1>7. Level(Steered(w), p, u, q)
  BY <1>2, LevelSped
<1>. HIDE DEF u
<1>. QED BY <1>3, <1>5, <1>6, <1>7

\* The speed of a fall is bounded by the height of the level.
LEMMA FallIsShort ==
  ASSUME LevelAssumption, NEW p \in Points, NEW v \in Points, Tame(p, v), p.y <= Bottom
  PROVE  -Smallest < v.y + Gravity /\ v.y + Gravity < Smallest
<1>. USE LevelFacts
<1>1. p.y \in Int /\ v.y \in Int /\ -JumpSpeed <= v.y
  BY DEF Points, Tame
<1>. DEFINE K == MostEnergy + 2 * Gravity * (Bottom - Standing)
            k == v.y * (v.y + Gravity)
<1>2. K \in Nat
  <2>1. 2 * Gravity \in Nat /\ Bottom - Standing \in Nat OBVIOUS
  <2>2. (2 * Gravity) * (Bottom - Standing) \in Nat BY ONLY <2>1
  <2>. QED BY <2>2
<1>3. K < Smallest * (Smallest - Gravity)
  BY DEF LevelAssumption
<1>4. k <= K
  <2>1. k + (2 * Gravity) * (Standing - p.y) <= MostEnergy /\ k \in Int
    <3>1. Gravity \in Int /\ Standing \in Int OBVIOUS
    <3>2. /\ Energy(p.y, v.y) = k + (2 * Gravity) * (Standing - p.y)
          /\ k \in Int
      BY ONLY <1>1, <3>1, EnergyOf
    <3>3. Energy(p.y, v.y) <= MostEnergy
      BY DEF Tame
    <3>. HIDE DEF k
    <3>. QED BY ONLY <3>2, <3>3
  <2>2. (2 * Gravity) * (Bottom - p.y) >= 0
    <3>1. 2 * Gravity \in Nat /\ Bottom - p.y \in Nat BY <1>1
    <3>. QED BY ONLY <3>1
  <2>3. (2 * Gravity) * (Standing - p.y)
          = (2 * Gravity) * (Bottom - p.y) - 2 * Gravity * (Bottom - Standing)
    <3>1. Gravity \in Int /\ Standing \in Int /\ Bottom \in Int OBVIOUS
    <3>. QED BY ONLY <1>1, <3>1
  <2>. HIDE DEF k
  <2>. QED BY <1>1, <1>2, <2>1, <2>2, <2>3
<1>5. v.y + Gravity < Smallest
  <2>. HIDE DEF K
  <2>. QED BY <1>1, <1>2, <1>3, <1>4, FallBounded
<1>. QED BY <1>1, <1>5

LEMMA AdvancedLevel ==
  ASSUME LevelAssumption, NEW w, NEW p \in Points, NEW v \in Points, NEW q,
         Level(w, p, v, q), Clear(p), Tame(p, v), p.y <= Bottom,
         -Smallest < v.x, v.x < Smallest
  PROVE  \E r \in Points, n \in Points :
            Level(P!Advance(w, Gravity), r, n, q) /\ Shallow(r) /\ Tame(r, n)
<1>. USE LevelFacts
<1>. DEFINE n == P!Plus(v, P!Vec(0, Gravity))
            r == P!Plus(p, n)
<1>1. p.x \in Int /\ p.y \in Int /\ v.x \in Int /\ v.y \in Int
  BY DEF Points
<1>2. /\ n \in Points /\ n.x = v.x /\ n.y = v.y + Gravity
      /\ r \in Points /\ r.x = p.x + v.x /\ r.y = p.y + (v.y + Gravity)
  BY <1>1 DEF Points, P!Plus, P!Vec
<1>3. Level(P!Advance(w, Gravity), r, n, q)
  BY LevelAdvanced
<1>. HIDE DEF r, n
<1>4. Tame(r, n)
  <2>1. Energy(r.y, n.y) = Energy(p.y, v.y)
    <3>1. Gravity \in Int /\ Standing \in Int OBVIOUS
    <3>. QED BY ONLY <1>1, <1>2, <3>1, EnergyKept
  <2>. QED BY <1>1, <1>2, <2>1 DEF Tame
<1>5. Shallow(r)
  <2>1. /\ FloorAt.x \in Int /\ FloorAt.y \in Int /\ FloorSize.x \in Int
        /\ FloorSize.y \in Int /\ PlayerSize.x \in Int /\ PlayerSize.y \in Int
        /\ Smallest \in Int
    BY DEF Points
  <2>2. CASE Across(p) <= 0
    <3>1. Overlap(p.x + v.x, PlayerSize.x, FloorAt.x, FloorSize.x) < Smallest
      <4>1. Overlap(p.x, PlayerSize.x, FloorAt.x, FloorSize.x) <= 0
        BY <2>2 DEF Across
      <4>2. -Smallest < v.x /\ v.x < Smallest OBVIOUS
      <4>. QED BY ONLY <1>1, <2>1, <4>1, <4>2, StepsInto
    <3>. QED BY <1>2, <3>1 DEF Shallow, Across
  <2>3. CASE Down(p) <= 0
    <3>1. Overlap(p.y + (v.y + Gravity), PlayerSize.y, FloorAt.y, FloorSize.y) < Smallest
      <4>1. Overlap(p.y, PlayerSize.y, FloorAt.y, FloorSize.y) <= 0
        BY <2>3 DEF Down
      <4>2. -Smallest < v.y + Gravity /\ v.y + Gravity < Smallest
        BY FallIsShort
      <4>3. v.y + Gravity \in Int
        BY <1>1
      <4>. QED BY ONLY <1>1, <2>1, <4>1, <4>2, <4>3, StepsInto
    <3>. QED BY <1>2, <3>1 DEF Shallow, Down
  <2>. QED BY <2>2, <2>3 DEF Clear
<1>. QED BY <1>2, <1>3, <1>4, <1>5

\* The platform is out of reach.
LEMMA BelowPlatform ==
  ASSUME LevelAssumption, NEW p \in Points, NEW v \in Points, Tame(p, v)
  PROVE  PlatformAt.y + PlatformSize.y < p.y
<1>. USE LevelFacts
<1>. DEFINE b == PlatformAt.y + PlatformSize.y
            g == Gravity
            k == v.y * (v.y + g)
            x == (2 * g) * (Standing - p.y)
            y == (2 * g) * (Standing - b)
<1>1. p.y \in Int /\ v.y \in Int /\ b \in Int /\ g \in Nat /\ Standing \in Int
      /\ MostEnergy \in Int
  BY DEF Points
<1>2. k >= -(g * g) /\ k \in Int /\ g * g \in Int
  BY <1>1, LeastEnergy
<1>3. k + x <= MostEnergy
  <2>1. Energy(p.y, v.y) = k + x
    <3>1. Gravity \in Int BY <1>1
    <3>. QED BY ONLY <1>1, <3>1, EnergyOf
  <2>2. Energy(p.y, v.y) <= MostEnergy
    BY DEF Tame
  <2>. HIDE DEF k, x
  <2>. QED BY ONLY <2>1, <2>2
<1>4. MostEnergy + g * g < y
  <2>1. PICK z \in Int : z = 0 OBVIOUS
  <2>2. Energy(b, z) = y
    BY <1>1, <2>1, EnergyOf
  <2>. QED BY <2>1, <2>2 DEF LevelAssumption
<1>5. SUFFICES ASSUME p.y <= b PROVE FALSE
  BY <1>1
<1>6. (2 * g) * (b - p.y) >= 0
  <2>1. 2 * g \in Nat /\ b - p.y \in Nat BY <1>1, <1>5
  <2>. QED BY ONLY <2>1
<1>7. x = y + (2 * g) * (b - p.y) /\ x \in Int /\ y \in Int /\ (2 * g) * (b - p.y) \in Int
  <2>. HIDE DEF b, g
  <2>. QED BY ONLY <1>1 DEF x, y
<1>. HIDE DEF x, y, k
<1>. QED BY ONLY <1>1, <1>2, <1>3, <1>4, <1>6, <1>7

LEMMA PlatformResolved ==
  ASSUME LevelAssumption, NEW w, NEW p \in Points, NEW v \in Points, NEW q,
         Level(w, p, v, q), Tame(p, v), q.y = PlatformAt.y
  PROVE  /\ P!Shared(w, Player, Platform).size.y < 0
         /\ ResolveCollision(w, Platform).scene = w
         /\ ResolveCollision(w, Platform).landed = FALSE
<1>. USE LevelFacts
<1>1. P!Shared(w, Player, Platform).size.y
        = Overlap(p.y, PlayerSize.y, PlatformAt.y, PlatformSize.y)
  BY LevelShared
<1>2. PlatformAt.y + PlatformSize.y < p.y
  BY BelowPlatform
<1>3. P!Shared(w, Player, Platform).size.y < 0
  BY <1>1, <1>2 DEF Overlap, P!Lower, P!Upper, Points
<1>4. P!Shared(w, Player, Platform).size.y \in Int
  BY <1>1 DEF Overlap, P!Lower, P!Upper, Points
<1>5. ~P!IsCollision(w, Player, Platform)
  BY <1>3, <1>4 DEF P!IsCollision
<1>. QED BY <1>3, <1>5 DEF ResolveCollision

\* A player that fell out of the level starts again, clear of the floor.
LEMMA RespawnedLevel ==
  ASSUME LevelAssumption, NEW w, NEW p \in Points, NEW v \in Points, NEW q,
         Level(w, p, v, q), q.y = PlatformAt.y, Clear(p), Tame(p, v),
         NEW landed \in BOOLEAN, landed => p.y = Standing /\ Across(p) >= 0
  PROVE  InLevel(Respawned(w), landed)
<1>. USE LevelFacts
<1>1. p.y \in Int /\ w.transforms[Player] = p
  BY DEF Points, Level
<1>2. CASE p.y > Bottom
  <2>. DEFINE rest == P!Vec(0, 0)
              u    == P!SetTransform(w, Player, SpawnAt)
  <2>1. Respawned(w) = P!Attach(u, P!RigidBody, Player, rest)
    BY <1>1, <1>2 DEF Respawned
  <2>2. Level(u, SpawnAt, v, q)
    BY LevelPlaced
  <2>3. Level(Respawned(w), SpawnAt, rest, q)
    BY <2>1, <2>2, LevelSped
  <2>4. rest \in Points /\ rest.y = 0
    BY DEF Points, P!Vec
  <2>5. Clear(SpawnAt)
    BY DEF Clear, Down, Overlap, P!Lower, P!Upper, Points
  <2>6. Tame(SpawnAt, rest)
    BY <2>4 DEF Tame
  <2>7. ~landed
    BY <1>1, <1>2
  <2>8. SpawnAt.y <= Bottom
    BY DEF Points
  <2>. HIDE DEF u, rest
  <2>. QED BY <2>3, <2>4, <2>5, <2>6, <2>7, <2>8 DEF InLevel
<1>3. CASE p.y <= Bottom
  <2>1. Respawned(w) = w
    BY <1>1, <1>3 DEF Respawned
  <2>. QED BY <1>3, <2>1 DEF InLevel
<1>. QED BY <1>1, <1>2, <1>3

LEMMA TickInLevel ==
  ASSUME LevelAssumption, LevelInv, NEW tick, OnTick(tick)
  PROVE  LevelInv'
<1>. USE LevelFacts
<1>. DEFINE q == lastPlatform'
            placed == P!SetTransform(scene, Platform, q)
            moved == P!Advance(Steered(placed), Gravity)
            a == ResolveCollision(moved, Floor)
            b == ResolveCollision(a.scene, Platform)
<1>1. /\ q.y = PlatformAt.y /\ platformSlot' = <<>>
  BY DEF LevelInv, OnTick, Taken, TakenOr
<1>2. grounded' = (a.landed \/ b.landed) /\ scene' = Respawned(b.scene)
  BY DEF OnTick
<1>3. PICK p \in Points, v \in Points :
         /\ Level(placed, p, v, q) /\ Clear(p) /\ Tame(p, v) /\ p.y <= Bottom
         /\ grounded => p.y = Standing
  BY LevelPlaced DEF LevelInv, InLevel
<1>. HIDE DEF placed, q
<1>4. PICK u \in Points : /\ Level(Steered(placed), p, u, q) /\ Tame(p, u)
                          /\ -Smallest < u.x /\ u.x < Smallest
  BY <1>3, SteeredLevel
<1>5. PICK r \in Points, n \in Points : Level(moved, r, n, q) /\ Shallow(r) /\ Tame(r, n)
  BY <1>3, <1>4, AdvancedLevel
<1>. HIDE DEF moved
<1>6. Settled(a, q)
  BY <1>5, FloorResolved
<1>. HIDE DEF a
<1>7. PICK s \in Points, k \in Points :
         /\ Level(a.scene, s, k, q) /\ Clear(s) /\ Tame(s, k) /\ a.landed \in BOOLEAN
         /\ a.landed => s.y = Standing /\ Across(s) >= 0
  BY <1>6 DEF Settled
<1>8. b.scene = a.scene /\ b.landed = FALSE
  BY <1>1, <1>7, PlatformResolved
<1>. HIDE DEF b
<1>9. scene' = Respawned(a.scene) /\ grounded' = a.landed
  BY <1>2, <1>7, <1>8
<1>10. InLevel(Respawned(a.scene), a.landed)
  BY <1>1, <1>7, RespawnedLevel
<1>11. InLevel(scene, grounded)'
  BY <1>9, <1>10 DEF InLevel, Level, Clear, Across, Down, Tame, Energy
<1>. QED BY <1>1, <1>7, <1>9, <1>11 DEF LevelInv, HasPending, q

-----------------------------------------------------------------------------
\* The level that main builds.
LEMMA FirstLevel ==
  LevelAssumption => InLevel(FirstScene, FALSE)
<1>. SUFFICES ASSUME LevelAssumption PROVE InLevel(FirstScene, FALSE) OBVIOUS
<1>. USE LevelFacts
<1>. DEFINE fields == {"live", "nextEntity", "nextLocal", "entities", "netIds",
                       "receivedFrom", "transforms", "stores", "extras"}
            Built(w, n, at, sizes) ==
               /\ DOMAIN w = fields /\ w.live = 1..n /\ w.nextEntity = n + 1
               /\ DOMAIN w.transforms = 1..n
               /\ \A e \in 1..n : w.transforms[e] = at[e]
               /\ DOMAIN w.stores = P!Kinds
               /\ DOMAIN w.stores[P!Collider] = 1..n
               /\ \A e \in 1..n : w.stores[P!Collider][e] = sizes[e]
               /\ DOMAIN w.stores[P!RigidBody] = {}
            at == <<FloorAt, PlatformAt, SpawnAt>>
            sizes == <<FloorSize, PlatformSize, PlayerSize>>
            rest == P!Vec(0, 0)
            w0 == P!NewScene({})
            w1 == AddBlock(w0, FloorAt, FloorSize)
            w2 == AddBlock(w1, PlatformAt, PlatformSize)
            w3 == AddBlock(w2, SpawnAt, PlayerSize)
<1>1. Built(w0, 0, at, sizes)
  BY DEF P!NewScene, P!NewWorld, P!Kinds, P!Collider, P!RigidBody
<1>2. ASSUME NEW w, NEW n \in 0..2, Built(w, n, at, sizes)
      PROVE  Built(AddBlock(w, at[n + 1], sizes[n + 1]), n + 1, at, sizes)
  <2>. DEFINE e == n + 1
              u == P!Create(w)
              x == P!SetTransform(u, e, at[e])
              y == P!Attach(x, P!Shape, e, sizes[e])
              z == P!Attach(y, P!Collider, e, sizes[e])
  <2>0. n \in Int /\ 1..e = 1..n \cup {e} /\ e \notin 1..n
    OBVIOUS
  <2>1. /\ DOMAIN u = fields /\ u.live = 1..e /\ u.nextEntity = e + 1
        /\ DOMAIN u.transforms = 1..e /\ u.stores = w.stores
        /\ \A f \in 1..n : u.transforms[f] = at[f]
    BY <1>2, <2>0 DEF P!Create, P!CreateEntity, P!GiveTransforms
  <2>. HIDE DEF u
  <2>2. /\ DOMAIN x = fields /\ x.live = 1..e /\ x.nextEntity = e + 1
        /\ DOMAIN x.transforms = 1..e /\ x.stores = w.stores
        /\ \A f \in 1..e : x.transforms[f] = at[f]
    BY <2>0, <2>1 DEF P!SetTransform, P!HasEntity
  <2>. HIDE DEF x
  <2>3. /\ DOMAIN y = fields /\ y.live = 1..e /\ y.nextEntity = e + 1
        /\ y.transforms = x.transforms /\ DOMAIN y.stores = P!Kinds
        /\ y.stores[P!Collider] = w.stores[P!Collider]
        /\ y.stores[P!RigidBody] = w.stores[P!RigidBody]
    BY <1>2, <2>2 DEF P!Attach, P!HasEntity, P!Kinds, P!Shape, P!Collider, P!RigidBody
  <2>. HIDE DEF y
  <2>4. /\ DOMAIN z = fields /\ z.live = 1..e /\ z.nextEntity = e + 1
        /\ z.transforms = x.transforms /\ DOMAIN z.stores = P!Kinds
        /\ z.stores[P!Collider] = P!Put(w.stores[P!Collider], e, sizes[e])
        /\ z.stores[P!RigidBody] = w.stores[P!RigidBody]
    BY <2>0, <2>3 DEF P!Attach, P!HasEntity, P!Kinds, P!Collider, P!RigidBody
  <2>5. z = AddBlock(w, at[n + 1], sizes[n + 1])
    BY <1>2 DEF AddBlock, u, x, y
  <2>6. /\ DOMAIN z.stores[P!Collider] = 1..e
        /\ \A f \in 1..e : z.stores[P!Collider][f] = sizes[f]
    BY <1>2, <2>0, <2>4 DEF P!Put
  <2>. HIDE DEF z
  <2>. QED BY <1>2, <2>2, <2>4, <2>5, <2>6
<1>3. at[1] = FloorAt /\ at[2] = PlatformAt /\ at[3] = SpawnAt
      /\ sizes[1] = FloorSize /\ sizes[2] = PlatformSize /\ sizes[3] = PlayerSize
  OBVIOUS
<1>. HIDE DEF Built, at, sizes, w0
<1>4. Built(w1, 1, at, sizes)
  <2>1. Built(AddBlock(w0, at[0 + 1], sizes[0 + 1]), 0 + 1, at, sizes)
    BY <1>1, <1>2
  <2>. QED BY <1>3, <2>1
<1>. HIDE DEF w1
<1>5. Built(w2, 2, at, sizes)
  <2>1. Built(AddBlock(w1, at[1 + 1], sizes[1 + 1]), 1 + 1, at, sizes)
    BY <1>2, <1>4
  <2>. QED BY <1>3, <2>1
<1>. HIDE DEF w2
<1>6. Built(w3, 3, at, sizes)
  <2>1. Built(AddBlock(w2, at[2 + 1], sizes[2 + 1]), 2 + 1, at, sizes)
    BY <1>2, <1>5
  <2>. QED BY <1>3, <2>1
<1>. HIDE DEF w3
<1>7. Level(FirstScene, SpawnAt, rest, PlatformAt)
  <2>1. FirstScene = P!Attach(w3, P!RigidBody, Player, rest)
    BY DEF FirstScene, w3, w2, w1, w0
  <2>2. 1..3 = {1, 2, 3}
    OBVIOUS
  <2>3. /\ DOMAIN w3 = fields /\ w3.live = {1, 2, 3}
        /\ DOMAIN w3.transforms = {1, 2, 3}
        /\ w3.transforms[1] = FloorAt /\ w3.transforms[2] = PlatformAt
        /\ w3.transforms[3] = SpawnAt
        /\ DOMAIN w3.stores = P!Kinds
        /\ DOMAIN w3.stores[P!Collider] = {1, 2, 3}
        /\ w3.stores[P!Collider][1] = FloorSize /\ w3.stores[P!Collider][2] = PlatformSize
        /\ w3.stores[P!Collider][3] = PlayerSize
        /\ DOMAIN w3.stores[P!RigidBody] = {}
    BY <1>3, <1>6, <2>2 DEF Built
  <2>. DEFINE u == FirstScene
  <2>4. u = [w3 EXCEPT !.stores[P!RigidBody] = P!Put(@, Player, rest)]
    BY <2>1, <2>3 DEF P!Attach, P!HasEntity, Player
  <2>5. /\ DOMAIN u = DOMAIN w3 /\ u.live = w3.live /\ u.transforms = w3.transforms
        /\ DOMAIN u.stores = DOMAIN w3.stores
        /\ u.stores[P!Collider] = w3.stores[P!Collider]
        /\ u.stores[P!RigidBody] = P!Put(w3.stores[P!RigidBody], Player, rest)
    BY <2>3, <2>4 DEF P!Kinds, P!Collider, P!RigidBody
  <2>6. /\ DOMAIN u.stores[P!RigidBody] = {Player}
        /\ u.stores[P!RigidBody][Player] = rest
    BY <2>3, <2>5 DEF P!Put
  <2>7. {P!Collider, P!RigidBody} \subseteq P!Kinds
    BY DEF P!Kinds
  <2>. HIDE DEF u
  <2>8. Level(u, SpawnAt, rest, PlatformAt)
    BY <2>3, <2>5, <2>6, <2>7 DEF Level, Floor, Platform, Player
  <2>. QED BY <2>8 DEF u
<1>8. rest \in Points /\ rest.y = 0
  BY DEF Points, P!Vec
<1>9. Clear(SpawnAt) /\ SpawnAt.y <= Bottom
  BY DEF Clear, Down, Overlap, P!Lower, P!Upper, Points
<1>10. Tame(SpawnAt, rest)
  BY <1>8 DEF Tame
<1>. HIDE DEF rest
<1>. QED BY <1>7, <1>8, <1>9, <1>10 DEF InLevel

levelVars == <<scene, grounded, lastPlatform, platformSlot>>

\* Only a tick and the subsystem move what is in the level.
LEMMA LevelStays ==
  ASSUME Next, ~SimTick, ~WorldTick
  PROVE  UNCHANGED levelVars
<1>. USE DEF levelVars, mainVars, timeVars, frameVars, tickVars, worldVars, stopVars, netVars
<1>1. CASE MainThread
  BY <1>1 DEF MainThread, MainPoll, MainPost, MainStop, MainStopped, MainNetJoin, Shutdown,
              MainUnchanged
<1>2. CASE SimThread
  BY <1>2 DEF SimThread, SimBegin, SimEnd, SimExit
<1>3. CASE WorldThread
  BY <1>3 DEF WorldThread, WorldBegin, WorldEnd, WorldExit, WorldUnchanged
<1>4. CASE NetThread
  BY <1>4 DEF NetThread, NetPop, NetWait, NetWaited, NetExit, NetUnchanged
<1>5. CASE Tick
  BY <1>5 DEF Tick
<1>. QED BY <1>1, <1>2, <1>3, <1>4, <1>5 DEF Next

LEMMA LevelStep == LevelAssumption /\ LevelInv /\ [Next]_vars => LevelInv'
<1>. SUFFICES ASSUME LevelAssumption, LevelInv, [Next]_vars PROVE LevelInv' OBVIOUS
<1>1. CASE SimTick
  <2>. DEFINE tick == simStepper'.consumed
  <2>1. OnTick(tick) BY <1>1 DEF SimTick
  <2>. QED BY <2>1, TickInLevel
<1>2. CASE WorldTick
  <2>1. UNCHANGED <<scene, grounded, lastPlatform>>
    BY <1>2 DEF WorldTick, WorldUnchanged, tickVars
  <2>2. platformSlot' = << P!Plus(PlatformAt, P!Vec(Swing(worldSeconds'), 0)) >>
    BY <1>2 DEF WorldTick, Published
  <2>3. Head(platformSlot').y = PlatformAt.y
    <3>1. PlatformAt.y \in Int
      BY DEF LevelAssumption
    <3>. QED BY <2>2, <3>1 DEF P!Plus, P!Vec
  <2>4. InLevel(scene, grounded)' = InLevel(scene, grounded)
    BY <2>1 DEF InLevel, Level, Clear, Across, Down, Tame, Energy
  <2>. QED BY <2>1, <2>3, <2>4 DEF LevelInv
<1>3. CASE UNCHANGED levelVars
  <2>1. UNCHANGED <<scene, grounded, lastPlatform, platformSlot>>
    BY <1>3 DEF levelVars
  <2>2. InLevel(scene, grounded)' = InLevel(scene, grounded)
    BY <2>1 DEF InLevel, Level, Clear, Across, Down, Tame, Energy
  <2>. QED BY <2>1, <2>2 DEF LevelInv, HasPending
<1>4. CASE UNCHANGED vars
  BY <1>3, <1>4 DEF vars, levelVars, tickVars
<1>. QED BY <1>1, <1>2, <1>3, <1>4, LevelStays

\* The player is in no block and jumps only from where it stands
\* (MultithreadDemo!StandsOnBlocks; main.cpp:164-170).
THEOREM BlocksHold == Spec => []StandsOnBlocks
<1>1. Init => LevelInv
  <2>. SUFFICES ASSUME Init PROVE LevelInv OBVIOUS
  <2>1. /\ lastPlatform = PlatformAt /\ platformSlot = NewMailbox
        /\ scene = FirstScene /\ grounded = FALSE
    BY DEF Init
  <2>. QED BY <2>1, FirstLevel, LevelAssumption DEF LevelInv, HasPending, NewMailbox
<1>2. LevelInv /\ [Next]_vars => LevelInv'
  BY LevelStep, LevelAssumption
<1>3. LevelInv => StandsOnBlocks
  <2>. SUFFICES ASSUME LevelInv PROVE StandsOnBlocks OBVIOUS
  <2>1. PICK p \in Points, v \in Points : \E q :
           /\ Level(scene, p, v, q) /\ q.y = PlatformAt.y
           /\ Clear(p) /\ Tame(p, v) /\ p.y <= Bottom
           /\ grounded => p.y = Standing /\ Across(p) >= 0
    BY DEF LevelInv, InLevel
  <2>2. PICK q : /\ Level(scene, p, v, q) /\ q.y = PlatformAt.y
                 /\ grounded => p.y = Standing /\ Across(p) >= 0
    BY <2>1
  <2>3. /\ P!HaveColliders(scene, Player, Floor)
        /\ P!Shared(scene, Player, Floor).size.x = Across(p)
        /\ P!Shared(scene, Player, Floor).size.y = Down(p)
    BY <2>2, LevelShared
  <2>4. P!Shared(scene, Player, Platform).size.y < 0
    BY <2>1, <2>2, LevelAssumption, PlatformResolved
  <2>5. P!Shared(scene, Player, Platform).size.y <= 0
    <3>1. P!Shared(scene, Player, Platform).size.y \in Int
      BY <2>2, LevelShared, LevelAssumption, LevelFacts DEF Overlap, P!Lower, P!Upper, Points
    <3>. QED BY <2>4, <3>1
  <2>6. ASSUME grounded
        PROVE  /\ P!IsCollision(scene, Player, Floor)
               /\ BottomOf(scene, Player) = scene.transforms[Floor].y
    <3>1. p.y = Standing /\ Across(p) >= 0 BY <2>2, <2>6
    <3>2. /\ p.y + PlayerSize.y = FloorAt.y /\ FloorAt.y \in Int /\ PlayerSize.y \in Int
          /\ 0 < PlayerSize.y /\ FloorSize.y \in Int /\ 0 < FloorSize.y /\ p.y \in Int
      BY <3>1, LevelAssumption, LevelFacts DEF Points
    <3>3. Down(p) = 0
      BY <3>2 DEF Down, Overlap, P!Lower, P!Upper
    <3>4. P!IsCollision(scene, Player, Floor)
      BY <2>3, <3>1, <3>3 DEF P!IsCollision
    <3>5. /\ scene.transforms[Player] = p /\ scene.transforms[Floor] = FloorAt
          /\ P!Get(scene, P!Collider, Player) = PlayerSize
      BY <2>2 DEF Level, P!Get, P!Has
    <3>. QED BY <3>2, <3>4, <3>5 DEF BottomOf
  <2>. QED BY <2>1, <2>3, <2>5, <2>6 DEF StandsOnBlocks, Clear
<1>. QED BY <1>1, <1>2, <1>3, PTL DEF Spec
=============================================================================
