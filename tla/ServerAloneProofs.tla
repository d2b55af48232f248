-------------------------- MODULE ServerAloneProofs --------------------------
(***************************************************************************)
(* Proofs about a sessionServer in an arbitrary environment, for every     *)
(* number of clients, ports and requests.                                  *)
(***************************************************************************)
EXTENDS ServerAlone, FiniteSetTheorems, TLAPS

(***************************************************************************)
(* The roster events of a retirement are one per retired id.               *)
(***************************************************************************)
LEMMA SubsetsOfIds ==
    ASSUME NEW S, S \subseteq Ids
    PROVE  IsFiniteSet(S) /\ Cardinality(S) \in Nat
<1>1. IsFiniteSet(Ids)
  BY FS_Interval, ServerAssumption DEF Ids
<1>2. IsFiniteSet(S)
  BY <1>1, FS_Subset
<1> QED
  BY <1>2, FS_CardinalityType

LEMMA LeftEvents ==
    ASSUME NEW S, S \subseteq Ids, NEW order \in InIdOrder(S)
    PROVE  [i \in 1..Cardinality(S) |-> Left(order[i])] \in Seq(Event)
<1>1. Cardinality(S) \in Nat
  BY SubsetsOfIds
<1>2. order \in [1..Cardinality(S) -> S]
  BY DEF InIdOrder
<1>3. \A i \in 1..Cardinality(S) : Left(order[i]) \in Event
  BY <1>2 DEF Event
<1> QED
  BY <1>1, <1>3

LEMMA RetireType ==
    ASSUME TypeOK, NEW S, S \subseteq Ids, Retire(S)
    PROVE  /\ clients' \subseteq Ids /\ departed' \subseteq Ids
           /\ stopFlag' \in [Ids -> BOOLEAN]
           /\ rosterLog' \in Seq(Event) /\ rosterEvents' \in Seq(Event)
<1>1. PICK order \in InIdOrder(S) :
        AddRosterEvents([i \in 1..Cardinality(S) |-> Left(order[i])])
  BY DEF Retire
<1>2. [i \in 1..Cardinality(S) |-> Left(order[i])] \in Seq(Event)
  BY LeftEvents
<1>3. rosterLog' \in Seq(Event) /\ rosterEvents' \in Seq(Event)
  BY <1>1, <1>2 DEF AddRosterEvents, TypeOK
<1>4. stopFlag' \in [Ids -> BOOLEAN]
  BY DEF Retire, TypeOK
<1> QED
  BY <1>3, <1>4 DEF Retire, TypeOK
-----------------------------------------------------------------------------
(***************************************************************************)
(* Type correctness.                                                       *)
(***************************************************************************)
LEMMA InitType == ServerInit => TypeOK
<1> SUFFICES ASSUME ServerInit PROVE TypeOK
  OBVIOUS
<1>1. nextId \in 1..(MaxClientId + 1)
  BY ServerAssumption DEF ServerInit
<1>2. stopFlag \in [Ids -> BOOLEAN] /\ states \in [Ids -> Nat]
  BY DEF ServerInit, None
<1>3. thread \in [Ids -> {"none", "running", "exited", "joined"}]
  BY DEF ServerInit
<1>4. rosterLog \in Seq(Event) /\ rosterEvents \in Seq(Event)
  BY DEF ServerInit
<1> QED
  BY <1>1, <1>2, <1>3, <1>4 DEF ServerInit, TypeOK

LEMMA JoinType ==
    ASSUME TypeOK, NEW token, NEW reply, HandleJoin(token, reply)
    PROVE  TypeOK'
<1>1. CASE UNCHANGED serverVars
  BY <1>1 DEF TypeOK, serverVars, slotVars, rosterVars, threadVars, handlerVars, sceneVars
<1>2. CASE HandleNewJoin(token, reply)
  <2>1. nextId \in Ids /\ nextId' \in 1..(MaxClientId + 1)
    BY <1>2, ServerAssumption DEF HandleNewJoin, TypeOK, Ids
  <2>2. rosterLog' \in Seq(Event) /\ rosterEvents' \in Seq(Event)
    BY <1>2, <2>1 DEF HandleNewJoin, AddRosterEvents, TypeOK, Event
  <2>3. thread' \in [Ids -> {"none", "running", "exited", "joined"}]
    BY <1>2 DEF HandleNewJoin, TypeOK
  <2> QED
    BY <1>2, <2>1, <2>2, <2>3 DEF HandleNewJoin, TypeOK, threadVars, sceneVars
<1> QED
  BY <1>1, <1>2 DEF HandleJoin, HandleKnownJoin, HandleRefusedJoin

LEMMA UpdateType ==
    ASSUME TypeOK, NEW id \in Ids, NEW req \in UpdateRequests, HandleUpdate(id, req)
    PROVE  TypeOK'
<1>1. thread' \in [Ids -> {"none", "running", "exited", "joined"}]
  BY DEF HandleUpdate, TypeOK
<1>2. CASE RefuseUpdate(id, req)
  BY <1>1, <1>2 DEF HandleUpdate, RefuseUpdate, TypeOK, slotVars, rosterVars, threadVars, sceneVars
<1>3. CASE AcceptUpdate(id, req)
  <2>1. states' \in [Ids -> Nat]
    BY <1>3, EnvironmentAssumption DEF AcceptUpdate, TypeOK
  <2> QED
    BY <1>1, <1>3, <2>1 DEF HandleUpdate, AcceptUpdate, TypeOK, rosterVars, threadVars, sceneVars
<1>4. CASE AcceptLeave(id, req)
  <2>1. {id} \subseteq Ids /\ Retire({id}) /\ retired' = retired \cup {id}
    BY <1>4 DEF AcceptLeave
  <2>2. states' \in [Ids -> Nat]
    BY <1>4 DEF AcceptLeave, TypeOK, None
  <2> QED
    BY <1>1, <1>4, <2>1, <2>2, RetireType
    DEF HandleUpdate, AcceptLeave, TypeOK, threadVars, sceneVars
<1> QED
  BY <1>2, <1>3, <1>4 DEF HandleUpdate

LEMMA ScanType ==
    ASSUME TypeOK, NEW silent, WatchdogScan(silent)
    PROVE  TypeOK'
<1>1. silent \subseteq Ids
  BY DEF WatchdogScan, TypeOK
<1>2. Retire(silent)
  BY DEF WatchdogScan
<1>3. states' \in [Ids -> Nat]
  BY DEF WatchdogScan, TypeOK, None
<1> QED
  BY <1>1, <1>2, <1>3, RetireType DEF WatchdogScan, TypeOK, sceneVars

LEMMA ThreadStepType ==
    ASSUME TypeOK, ServerThreadStep
    PROVE  TypeOK'
<1> USE DEF TypeOK, slotVars, rosterVars, threadVars, handlerVars, sceneVars
<1>1. ASSUME NEW id \in Ids,
             HandlerExit(id) \/ WatchdogJoin(id) \/ StopSlot(id) \/ JoinSlot(id)
      PROVE  TypeOK'
  BY <1>1 DEF HandlerExit, WatchdogJoin, StopSlot, JoinSlot
<1>2. CASE JoinThreadExit \/ StopWatchdog \/ WatchdogExit \/ WatchdogDone
  BY <1>2 DEF JoinThreadExit, StopWatchdog, WatchdogExit, WatchdogDone
<1>3. CASE StopTakeSlots \/ StopDone
  BY <1>3 DEF StopTakeSlots, StopDone
<1>4. CASE WatchdogScan({})
  BY <1>4, ScanType
<1> QED
  BY <1>1, <1>2, <1>3, <1>4 DEF ServerThreadStep

LEMMA CallStepType ==
    ASSUME TypeOK, ServerCallStep
    PROVE  TypeOK'
<1> USE DEF TypeOK, slotVars, rosterVars, threadVars, handlerVars, sceneVars
<1>1. CASE Start \/ StopJoining
  BY <1>1 DEF Start, StopJoining
<1>2. CASE Broadcast \/ \E id \in Ids : Send(id)
  BY <1>2 DEF Broadcast, Send
<1>3. CASE DrainMessages
  BY <1>3 DEF DrainMessages
<1>4. CASE DrainRosterEvents
  <2>1. rosterEvents' \in Seq(Event)
    BY <1>4 DEF DrainRosterEvents
  <2> QED
    BY <1>4, <2>1 DEF DrainRosterEvents
<1>5. CASE ApplyStates
  <2>1. states' \in [Ids -> Nat]
    BY <1>5 DEF ApplyStates, None
  <2>2. scene' \subseteq Ids /\ applying' \in BOOLEAN
    BY <1>5 DEF ApplyStates
  <2> QED
    BY <1>5, <2>1, <2>2 DEF ApplyStates
<1>6. CASE PublishScene
  BY <1>6 DEF PublishScene
<1>8. CASE DropDeparted
  BY <1>8 DEF DropDeparted
<1>7. CASE \E silent \in SUBSET clients : WatchdogScan(silent)
  BY <1>7, ScanType
<1> QED
  BY <1>1, <1>2, <1>3, <1>4, <1>5, <1>6, <1>7, <1>8 DEF ServerCallStep

LEMMA NextType == TypeOK /\ [Next]_serverVars => TypeOK'
<1> SUFFICES ASSUME TypeOK, [Next]_serverVars
             PROVE  TypeOK'
  OBVIOUS
<1>1. CASE ServerStep
  BY <1>1, ThreadStepType, CallStepType DEF ServerStep
<1>2. ASSUME NEW token, NEW reply, HandleJoin(token, reply)
      PROVE  TypeOK'
  BY <1>2, JoinType
<1>3. ASSUME NEW id \in Ids, NEW req \in UpdateRequests, HandleUpdate(id, req)
      PROVE  TypeOK'
  BY <1>3, UpdateType
<1>4. CASE UNCHANGED serverVars
  BY <1>4 DEF TypeOK, serverVars, slotVars, rosterVars, threadVars, handlerVars, sceneVars
<1> QED
  BY <1>1, <1>2, <1>3, <1>4 DEF Next

\* The server's variables always have their types, whatever requests arrive
\* (sessionServer::impl).
THEOREM TypeCorrect == Spec => []TypeOK
<1>1. ServerInit => TypeOK
  BY InitType
<1>2. TypeOK /\ [Next]_serverVars => TypeOK'
  BY NextType
<1> QED
  BY <1>1, <1>2, PTL DEF Spec
-----------------------------------------------------------------------------
(***************************************************************************)
(* Threads.  EveryThreadHasOneOwner is not inductive: that a list of slots *)
(* taken by the watchdog or by stop() is empty when it is overwritten      *)
(* follows from how far those two threads are.                             *)
(***************************************************************************)
ThreadInv ==
    /\ EveryThreadHasOneOwner
    /\ \A id \in Ids : id >= nextId => thread[id] = "none" /\ id \notin LiveSlots
    /\ phase = "idle" => joinThread = "off" /\ watchdog = "off"
    /\ phase \in {"stopWatchdog", "stopSlots", "stopped"} => joinThread = "exited"
    /\ phase \in {"stopSlots", "stopped"} =>
          watchdog = "exited" /\ clients = {} /\ retired = {}
    /\ finished # {} => watchdog = "joining"
    /\ doomed # {} => phase = "stopSlots"

LEMMA InitThreads == ServerInit => ThreadInv
BY DEF ServerInit, ThreadInv, EveryThreadHasOneOwner, LiveSlots

LEMMA JoinThreads ==
    ASSUME TypeOK, ThreadInv, NEW token, NEW reply, HandleJoin(token, reply)
    PROVE  ThreadInv'
<1> USE DEF ThreadInv, EveryThreadHasOneOwner, LiveSlots
<1>1. CASE UNCHANGED serverVars
  BY <1>1 DEF serverVars, slotVars, rosterVars, threadVars, handlerVars, sceneVars
<1>2. CASE HandleNewJoin(token, reply)
  <2>1. nextId \in Ids /\ nextId \notin LiveSlots /\ thread[nextId] = "none"
    BY <1>2, ServerAssumption DEF HandleNewJoin, TypeOK, Ids
  <2>2. /\ clients' = clients \cup {nextId} /\ nextId' = nextId + 1
        /\ UNCHANGED <<retired, finished, doomed, phase, joinThread, watchdog>>
    BY <1>2 DEF HandleNewJoin, threadVars
  <2>3. /\ thread'[nextId] = "running"
        /\ \A id \in Ids : id # nextId => thread'[id] = thread[id]
    BY <1>2, <2>1 DEF HandleNewJoin, TypeOK
  <2>4. phase \notin {"stopWatchdog", "stopSlots", "stopped"}
    BY DEF HandleJoin
  <2>5. EveryThreadHasOneOwner'
    BY <2>1, <2>2, <2>3
  <2>6. \A id \in Ids : id >= nextId' => thread'[id] = "none" /\ id \notin LiveSlots'
    <3> SUFFICES ASSUME NEW id \in Ids, id >= nextId + 1
                 PROVE  thread'[id] = "none" /\ id \notin LiveSlots'
      BY <2>2
    <3>1. id # nextId /\ id >= nextId
      BY DEF TypeOK, Ids
    <3> QED
      BY <3>1, <2>2, <2>3
  <2> QED
    BY <2>2, <2>4, <2>5, <2>6
<1> QED
  BY <1>1, <1>2 DEF HandleJoin, HandleKnownJoin, HandleRefusedJoin

LEMMA UpdateThreads ==
    ASSUME TypeOK, ThreadInv, NEW id \in Ids, NEW req \in UpdateRequests,
           HandleUpdate(id, req)
    PROVE  ThreadInv'
<1> USE DEF ThreadInv, EveryThreadHasOneOwner, LiveSlots
<1>1. /\ thread[id] = "running"
      /\ thread'[id] \in {"running", "exited"}
      /\ \A other \in Ids : other # id => thread'[other] = thread[other]
      /\ UNCHANGED threadVars
  BY DEF HandleUpdate, TypeOK
<1>2. UNCHANGED nextId
  BY DEF HandleUpdate, RefuseUpdate, AcceptUpdate, AcceptLeave, rosterVars
<1>3. CASE UNCHANGED <<clients, retired>>
  BY <1>1, <1>2, <1>3 DEF threadVars
<1>4. CASE AcceptLeave(id, req)
  <2>1. id \in clients /\ clients' = clients \ {id} /\ retired' = retired \cup {id}
    BY <1>4 DEF AcceptLeave, Retire
  <2>2. LiveSlots' = LiveSlots
    BY <1>1, <2>1 DEF threadVars
  <2>3. EveryThreadHasOneOwner'
    BY <1>1, <2>1, <2>2 DEF threadVars
  <2> QED
    BY <1>1, <1>2, <2>1, <2>2, <2>3 DEF threadVars
<1> QED
  BY <1>3, <1>4 DEF HandleUpdate, RefuseUpdate, AcceptUpdate, rosterVars

LEMMA ScanThreads ==
    ASSUME TypeOK, ThreadInv, NEW silent, WatchdogScan(silent)
    PROVE  ThreadInv'
<1> USE DEF ThreadInv, EveryThreadHasOneOwner, LiveSlots
<1>1. /\ silent \subseteq clients /\ clients' = clients \ silent
      /\ retired' = {} /\ finished' = retired \cup silent
      /\ watchdog = "waiting" /\ watchdog' = "joining"
      /\ UNCHANGED <<thread, nextId, phase, joinThread, doomed>>
  BY DEF WatchdogScan, Retire
<1>2. finished = {}
  BY <1>1
<1>3. LiveSlots' = LiveSlots
  BY <1>1, <1>2
<1>4. EveryThreadHasOneOwner'
  BY <1>1, <1>2, <1>3
<1> QED
  BY <1>1, <1>2, <1>3, <1>4

LEMMA ThreadStepThreads ==
    ASSUME TypeOK, ThreadInv, ServerThreadStep
    PROVE  ThreadInv'
<1> USE DEF ThreadInv, EveryThreadHasOneOwner, LiveSlots
<1>1. ASSUME NEW id \in Ids, HandlerExit(id) \/ WatchdogJoin(id) \/ JoinSlot(id)
      PROVE  ThreadInv'
  <2>1. /\ thread[id] \in {"running", "exited"} /\ thread'[id] # "none"
        /\ \A other \in Ids : other # id => thread'[other] = thread[other]
        /\ UNCHANGED <<rosterVars, threadVars>>
    BY <1>1 DEF HandlerExit, WatchdogJoin, JoinSlot, TypeOK
  <2> QED
    BY <2>1 DEF rosterVars, threadVars
<1>2. ASSUME NEW id \in Ids, StopSlot(id)
      PROVE  ThreadInv'
  BY <1>2 DEF StopSlot, rosterVars, threadVars
<1>3. CASE JoinThreadExit \/ StopWatchdog
  BY <1>3 DEF JoinThreadExit, StopWatchdog, rosterVars, handlerVars
<1>4. CASE WatchdogExit
  BY <1>4 DEF WatchdogExit, rosterVars, handlerVars
<1>5. CASE WatchdogDone
  <2>1. /\ \A id \in finished : thread[id] = "joined"
        /\ finished' = {} /\ watchdog' = "waiting" /\ watchdog = "joining"
        /\ UNCHANGED <<clients, retired, doomed, thread, nextId, phase, joinThread>>
    BY <1>5 DEF WatchdogDone, rosterVars, handlerVars
  <2> QED
    BY <2>1
<1>6. CASE StopTakeSlots
  <2>1. /\ phase = "stopWatchdog" /\ phase' = "stopSlots" /\ watchdog = "exited"
        /\ doomed' = clients \cup retired /\ clients' = {} /\ retired' = {}
        /\ UNCHANGED <<finished, thread, nextId, watchdog, joinThread>>
    BY <1>6 DEF StopTakeSlots, handlerVars
  <2>2. doomed = {} /\ finished = {}
    BY <2>1
  <2> QED
    BY <2>1, <2>2
<1>7. CASE StopDone
  <2>1. /\ phase = "stopSlots" /\ phase' = "stopped" /\ doomed' = {}
        /\ \A id \in doomed : thread[id] = "joined"
        /\ UNCHANGED <<clients, retired, finished, thread, nextId, watchdog, joinThread>>
    BY <1>7 DEF StopDone, Unjoined, rosterVars, handlerVars
  <2> QED
    BY <2>1
<1>8. CASE WatchdogScan({})
  BY <1>8, ScanThreads
<1> QED
  BY <1>1, <1>2, <1>3, <1>4, <1>5, <1>6, <1>7, <1>8 DEF ServerThreadStep

LEMMA CallStepThreads ==
    ASSUME TypeOK, ThreadInv, ServerCallStep
    PROVE  ThreadInv'
<1> USE DEF ThreadInv, EveryThreadHasOneOwner, LiveSlots
<1>1. CASE Start
  BY <1>1 DEF Start, rosterVars, handlerVars
<1>2. CASE StopJoining
  BY <1>2 DEF StopJoining, rosterVars, handlerVars
<1>3. CASE UNCHANGED <<clients, retired, finished, doomed, thread, nextId,
                       phase, joinThread, watchdog>>
  BY <1>3
<1>4. CASE \E silent \in SUBSET clients : WatchdogScan(silent)
  BY <1>4, ScanThreads
<1> QED
  BY <1>1, <1>2, <1>3, <1>4
  DEF ServerCallStep, Broadcast, PublishScene, Send, DrainMessages, DrainRosterEvents,
      ApplyStates, DropDeparted, rosterVars, threadVars, handlerVars

LEMMA NextThreads == TypeOK /\ ThreadInv /\ [Next]_serverVars => ThreadInv'
<1> SUFFICES ASSUME TypeOK, ThreadInv, [Next]_serverVars
             PROVE  ThreadInv'
  OBVIOUS
<1>1. CASE ServerStep
  BY <1>1, ThreadStepThreads, CallStepThreads DEF ServerStep
<1>2. ASSUME NEW token, NEW reply, HandleJoin(token, reply)
      PROVE  ThreadInv'
  BY <1>2, JoinThreads
<1>3. ASSUME NEW id \in Ids, NEW req \in UpdateRequests, HandleUpdate(id, req)
      PROVE  ThreadInv'
  BY <1>3, UpdateThreads
<1>4. CASE UNCHANGED serverVars
  BY <1>4 DEF ThreadInv, EveryThreadHasOneOwner, LiveSlots,
              serverVars, slotVars, rosterVars, threadVars, handlerVars, sceneVars
<1> QED
  BY <1>1, <1>2, <1>3, <1>4 DEF Next

\* No slot is destroyed with a joinable thread and none is joined twice, however
\* leaves, timeouts, the watchdog's joins and stop() interleave.
THEOREM ThreadOwnership == Spec => []EveryThreadHasOneOwner
<1>1. ServerInit => TypeOK /\ ThreadInv
  BY InitType, InitThreads
<1>2. TypeOK /\ ThreadInv /\ [Next]_serverVars => TypeOK' /\ ThreadInv'
  BY NextType, NextThreads
<1>3. ThreadInv => EveryThreadHasOneOwner
  BY DEF ThreadInv
<1> QED
  BY <1>1, <1>2, <1>3, PTL DEF Spec

\* When stop() has returned, every network thread was joined.
THEOREM StopJoinsAll == Spec => []StoppedMeansJoined
<1>1. ServerInit => TypeOK /\ ThreadInv
  BY InitType, InitThreads
<1>2. TypeOK /\ ThreadInv /\ [Next]_serverVars => TypeOK' /\ ThreadInv'
  BY NextType, NextThreads
<1>3. TypeOK /\ ThreadInv => StoppedMeansJoined
  BY DEF TypeOK, ThreadInv, EveryThreadHasOneOwner, LiveSlots, StoppedMeansJoined
<1> QED
  BY <1>1, <1>2, <1>3, PTL DEF Spec
-----------------------------------------------------------------------------
(***************************************************************************)
(* The server's Scene.                                                     *)
(***************************************************************************)
LEMMA JoinGhosts ==
    ASSUME TypeOK, NoGhostEntities, NEW token, NEW reply, HandleJoin(token, reply)
    PROVE  NoGhostEntities'
<1> USE DEF NoGhostEntities, Serving
<1>1. CASE UNCHANGED serverVars
  BY <1>1 DEF serverVars, slotVars, rosterVars, threadVars, sceneVars
<1>2. CASE HandleNewJoin(token, reply)
  BY <1>2 DEF HandleNewJoin, threadVars, sceneVars
<1> QED
  BY <1>1, <1>2 DEF HandleJoin, HandleKnownJoin, HandleRefusedJoin

LEMMA UpdateGhosts ==
    ASSUME TypeOK, NoGhostEntities, NEW id \in Ids, NEW req \in UpdateRequests,
           HandleUpdate(id, req)
    PROVE  NoGhostEntities'
<1> USE DEF NoGhostEntities, Serving
<1>1. UNCHANGED <<phase, scene>>
  BY DEF HandleUpdate, threadVars, sceneVars
<1>2. CASE RefuseUpdate(id, req)
  BY <1>1, <1>2 DEF RefuseUpdate, slotVars, rosterVars
<1>3. CASE AcceptUpdate(id, req)
  <2>1. id \in clients /\ UNCHANGED <<clients, departed>>
    BY <1>3 DEF AcceptUpdate, rosterVars
  <2>2. \A other \in Ids : other # id => states'[other] = states[other]
    BY <1>3 DEF AcceptUpdate, TypeOK
  <2> QED
    BY <1>1, <2>1, <2>2
<1>4. CASE AcceptLeave(id, req)
  <2>1. clients' = clients \ {id} /\ departed' = departed \cup {id}
    BY <1>4 DEF AcceptLeave, Retire
  <2>2. /\ states'[id] = None
        /\ \A other \in Ids : other # id => states'[other] = states[other]
    BY <1>4 DEF AcceptLeave, TypeOK
  <2> QED
    BY <1>1, <2>1, <2>2
<1> QED
  BY <1>2, <1>3, <1>4 DEF HandleUpdate

LEMMA ScanGhosts ==
    ASSUME NoGhostEntities, NEW silent, WatchdogScan(silent)
    PROVE  NoGhostEntities'
<1>1. /\ clients' = clients \ silent /\ departed' = departed \cup silent
      /\ UNCHANGED <<phase, scene>>
      /\ states' = [id \in Ids |-> IF id \in silent THEN None ELSE states[id]]
  BY DEF WatchdogScan, Retire, sceneVars
<1> QED
  BY <1>1 DEF NoGhostEntities, Serving

LEMMA StepGhosts ==
    ASSUME NoGhostEntities, ServerStep
    PROVE  NoGhostEntities'
<1> USE DEF NoGhostEntities, Serving
<1>1. ASSUME NEW id \in Ids,
             HandlerExit(id) \/ WatchdogJoin(id) \/ StopSlot(id) \/ JoinSlot(id) \/ Send(id)
      PROVE  NoGhostEntities'
  BY <1>1 DEF HandlerExit, WatchdogJoin, StopSlot, JoinSlot, Send,
              slotVars, rosterVars, threadVars, sceneVars
<1>2. CASE Start \/ StopJoining \/ JoinThreadExit \/ StopWatchdog \/ WatchdogExit
  BY <1>2 DEF Start, StopJoining, JoinThreadExit, StopWatchdog, WatchdogExit,
              slotVars, rosterVars, sceneVars
<1>3. CASE StopTakeSlots \/ StopDone
  BY <1>3 DEF StopTakeSlots, StopDone
<1>4. CASE WatchdogDone
  BY <1>4 DEF WatchdogDone, slotVars, rosterVars, sceneVars
<1>5. CASE \E silent \in SUBSET clients : WatchdogScan(silent)
  BY <1>5, ScanGhosts
<1>6. CASE WatchdogScan({})
  BY <1>6, ScanGhosts
<1>7. CASE Broadcast \/ DrainMessages \/ DrainRosterEvents \/ PublishScene
  BY <1>7 DEF Broadcast, DrainMessages, DrainRosterEvents, PublishScene,
              slotVars, rosterVars, threadVars, sceneVars
<1>8. CASE ApplyStates
  <2>1. /\ scene' = scene \cup {id \in Ids : states[id] # None}
        /\ \A id \in Ids : states'[id] = None
        /\ UNCHANGED <<phase, clients, departed>>
    BY <1>8 DEF ApplyStates, rosterVars, threadVars
  <2> QED
    BY <2>1
<1>9. CASE DropDeparted
  <2>1. /\ scene' = scene \ departed /\ departed' = {}
        /\ UNCHANGED <<phase, clients, states>>
    BY <1>9 DEF DropDeparted, slotVars, threadVars
  <2> QED
    BY <2>1
<1> QED
  BY <1>1, <1>2, <1>3, <1>4, <1>5, <1>6, <1>7, <1>8, <1>9
  DEF ServerStep, ServerThreadStep, ServerCallStep

\* A state that arrived before its client left is never applied after the departure
\* was processed, so no entity outlives its owner for good.
THEOREM GhostFreedom == Spec => []NoGhostEntities
<1>1. ServerInit => TypeOK /\ NoGhostEntities
  <2>1. ServerInit => NoGhostEntities
    BY DEF ServerInit, NoGhostEntities, Serving
  <2> QED
    BY <2>1, InitType
<1>2. TypeOK /\ NoGhostEntities /\ [Next]_serverVars => TypeOK' /\ NoGhostEntities'
  <2> SUFFICES ASSUME TypeOK, NoGhostEntities, [Next]_serverVars
               PROVE  TypeOK' /\ NoGhostEntities'
    OBVIOUS
  <2>1. ASSUME NEW token, NEW reply, HandleJoin(token, reply)
        PROVE  NoGhostEntities'
    BY <2>1, JoinGhosts
  <2>2. ASSUME NEW id \in Ids, NEW req \in UpdateRequests, HandleUpdate(id, req)
        PROVE  NoGhostEntities'
    BY <2>2, UpdateGhosts
  <2>3. ASSUME UNCHANGED serverVars
        PROVE  NoGhostEntities'
    <3>1. UNCHANGED <<phase, scene, clients, departed, states>>
      BY <2>3 DEF serverVars, slotVars, rosterVars, threadVars, sceneVars
    <3> QED
      BY <3>1 DEF NoGhostEntities, Serving
  <2> QED
    BY <2>1, <2>2, <2>3, StepGhosts, NextType DEF Next
<1> QED
  BY <1>1, <1>2, PTL DEF Spec

-----------------------------------------------------------------------------
(***************************************************************************)
(* Tokens.  A slot keeps its token, and only a join adds a client.         *)
(***************************************************************************)
TokensHere == DOMAIN slot = Ids /\ \A id \in Ids : "token" \in DOMAIN slot[id]

TokenInv == TokensHere /\ OneIdPerClient

\* The members that a step may not give back or take away.
TokensKept ==
    /\ clients' \subseteq clients
    /\ DOMAIN slot' = Ids
    /\ \A id \in Ids : "token" \in DOMAIN slot'[id] /\ slot'[id].token = slot[id].token

LEMMA TokensKeptInv == TypeOK /\ TokenInv /\ TokensKept => TokenInv'
BY DEF TokenInv, TokensHere, TokensKept, OneIdPerClient, TypeOK

LEMMA JoinTokens ==
    ASSUME TypeOK, ThreadInv, TokenInv, NEW token, NEW reply, HandleJoin(token, reply)
    PROVE  TokenInv'
<1>1. CASE UNCHANGED serverVars
  BY <1>1 DEF TokenInv, TokensHere, OneIdPerClient, serverVars, slotVars, rosterVars
<1>2. CASE HandleNewJoin(token, reply)
  <2>1. /\ nextId \in Ids /\ clients' = clients \cup {nextId}
        /\ \A id \in clients : slot[id].token # token
    BY <1>2, ServerAssumption DEF HandleNewJoin, TypeOK, Ids
  <2>2. PICK port : slot' = [slot EXCEPT ![nextId] = NewSlot(token, port)]
    BY <1>2 DEF HandleNewJoin
  <2>3. /\ DOMAIN slot' = Ids /\ slot'[nextId] = NewSlot(token, port)
        /\ \A id \in Ids : id # nextId => slot'[id] = slot[id]
    BY <2>1, <2>2 DEF TokenInv, TokensHere
  <2>4. "token" \in DOMAIN NewSlot(token, port) /\ NewSlot(token, port).token = token
    BY DEF NewSlot
  <2>5. TokensHere'
    BY <2>3, <2>4 DEF TokenInv, TokensHere
  <2>6. OneIdPerClient'
    BY <2>1, <2>3, <2>4 DEF TokenInv, OneIdPerClient, TypeOK
  <2> QED
    BY <2>5, <2>6 DEF TokenInv
<1> QED
  BY <1>1, <1>2 DEF HandleJoin, HandleKnownJoin, HandleRefusedJoin

LEMMA UpdateTokens ==
    ASSUME TypeOK, TokensHere, NEW id \in Ids, NEW req \in UpdateRequests,
           HandleUpdate(id, req)
    PROVE  TokensKept
<1>1. CASE UNCHANGED <<slot, clients>>
  BY <1>1 DEF TokensKept, TokensHere
<1>2. CASE ReceiveUpdate(id, req) /\ clients' \subseteq clients
  <2>1. /\ DOMAIN slot' = DOMAIN slot
        /\ DOMAIN slot'[id] = DOMAIN slot[id] /\ slot'[id].token = slot[id].token
        /\ \A other \in Ids : other # id => slot'[other] = slot[other]
    BY <1>2 DEF ReceiveUpdate, TokensHere
  <2> QED
    BY <1>2, <2>1 DEF TokensKept, TokensHere
<1> QED
  BY <1>1, <1>2
  DEF HandleUpdate, RefuseUpdate, AcceptUpdate, AcceptLeave, Retire, slotVars, rosterVars

LEMMA EnqueueTokens ==
    ASSUME TokensHere, NEW S, Enqueue(S), UNCHANGED clients
    PROVE  TokensKept
<1> DEFINE queued(id) ==
      [slot[id] EXCEPT !.outbox = @ \cup {WireMessage(slot[id].nextSendSeq,
                                                      <<id, slot[id].sent + 1>>)},
                       !.nextSendSeq = @ + 1,
                       !.sent = @ + 1]
<1>1. slot' = [id \in Ids |-> IF id \notin S THEN slot[id] ELSE queued(id)]
  BY Zenon DEF Enqueue
<1>2. ASSUME NEW id \in Ids
      PROVE  "token" \in DOMAIN queued(id) /\ queued(id).token = slot[id].token
  BY DEF TokensHere
<1> HIDE DEF queued
<1>3. DOMAIN slot' = Ids /\ \A id \in Ids : slot'[id] \in {slot[id], queued(id)}
  BY <1>1
<1> QED
  BY <1>2, <1>3 DEF TokensKept, TokensHere

LEMMA StepTokens ==
    ASSUME TypeOK, TokensHere, ServerStep
    PROVE  TokensKept
<1>1. CASE UNCHANGED slot /\ clients' \subseteq clients
  BY <1>1 DEF TokensKept, TokensHere
<1>2. CASE Broadcast \/ \E id \in Ids : Send(id)
  BY <1>2, EnqueueTokens DEF Broadcast, Send, rosterVars
<1>3. ASSUME NEW silent, WatchdogScan(silent)
      PROVE  TokensKept
  BY <1>1, <1>3 DEF WatchdogScan, Retire
<1>4. CASE ServerThreadStep
  BY <1>1, <1>3, <1>4
  DEF ServerThreadStep, JoinThreadExit, StopWatchdog, WatchdogExit, StopTakeSlots, StopDone,
      WatchdogDone, HandlerExit, WatchdogJoin, StopSlot, JoinSlot, slotVars, rosterVars
<1>5. CASE ServerCallStep
  BY <1>1, <1>2, <1>3, <1>5
  DEF ServerCallStep, Start, StopJoining, PublishScene, DrainMessages, DrainRosterEvents,
      ApplyStates, DropDeparted, slotVars, rosterVars
<1> QED
  BY <1>4, <1>5 DEF ServerStep

\* A join that is repeated while its first id is connected never takes a second one
\* (sessionServer.cpp, handleJoin).
THEOREM ClientHasOneId == Spec => []OneIdPerClient
<1>1. ServerInit => TypeOK /\ ThreadInv /\ TokenInv
  <2>1. ServerInit => TokenInv
    BY DEF ServerInit, TokenInv, TokensHere, OneIdPerClient, NewSlot
  <2> QED
    BY <2>1, InitType, InitThreads
<1>2. TypeOK /\ ThreadInv /\ TokenInv /\ [Next]_serverVars => TypeOK' /\ ThreadInv' /\ TokenInv'
  <2> SUFFICES ASSUME TypeOK, ThreadInv, TokenInv, [Next]_serverVars
               PROVE  TokenInv'
    BY NextType, NextThreads
  <2>1. CASE ServerStep
    BY <2>1, StepTokens, TokensKeptInv DEF TokenInv
  <2>2. ASSUME NEW token, NEW reply, HandleJoin(token, reply)
        PROVE  TokenInv'
    BY <2>2, JoinTokens
  <2>3. ASSUME NEW id \in Ids, NEW req \in UpdateRequests, HandleUpdate(id, req)
        PROVE  TokenInv'
    BY <2>3, UpdateTokens, TokensKeptInv DEF TokenInv
  <2>4. CASE UNCHANGED serverVars
    BY <2>4 DEF TokenInv, TokensHere, OneIdPerClient, serverVars, slotVars, rosterVars
  <2> QED
    BY <2>1, <2>2, <2>3, <2>4 DEF Next
<1>3. TokenInv => OneIdPerClient
  BY DEF TokenInv
<1> QED
  BY <1>1, <1>2, <1>3, PTL DEF Spec
-----------------------------------------------------------------------------
(***************************************************************************)
(* The roster.  The server implements Roster: a join or a retirement is a  *)
(* step of it, taking the slots closes it, and the rest stutters.          *)
(***************************************************************************)
\* The log names ids that were given out.
LogInv == \A k \in DOMAIN rosterLog : rosterLog[k].id < nextId

abstractVars == <<clients, rosterLog, Serving>>

\* A step keeps the log or appends to it.
LEMMA LogAppended ==
    ASSUME LogInv, rosterLog \in Seq(Event), nextId \in Nat, nextId' \in Nat,
           nextId <= nextId', NEW events \in Seq(Event),
           \A k \in DOMAIN events : events[k].id < nextId',
           rosterLog' = rosterLog \o events
    PROVE  LogInv'
<1> SUFFICES ASSUME NEW k \in DOMAIN rosterLog'
             PROVE  rosterLog'[k].id < nextId'
  BY DEF LogInv
<1>1. CASE k <= Len(rosterLog)
  <2>1. k \in DOMAIN rosterLog /\ rosterLog'[k] = rosterLog[k]
    BY <1>1
  <2>2. rosterLog[k].id \in Nat
    BY <2>1 DEF Event, Joined, Left, Ids
  <2> QED
    BY <2>1, <2>2 DEF LogInv
<1>2. CASE k > Len(rosterLog)
  <2>1. k - Len(rosterLog) \in DOMAIN events /\ rosterLog'[k] = events[k - Len(rosterLog)]
    BY <1>2
  <2> QED
    BY <2>1
<1> QED
  BY <1>1, <1>2

LEMMA JoinRoster ==
    ASSUME TypeOK, ThreadInv, LogInv, NEW token, NEW reply, HandleJoin(token, reply)
    PROVE  LogInv' /\ [R!Next]_abstractVars
<1>1. CASE UNCHANGED serverVars
  BY <1>1 DEF LogInv, abstractVars, Serving, serverVars, rosterVars, threadVars
<1>2. CASE HandleNewJoin(token, reply)
  <2>1. /\ nextId \in Ids /\ nextId' = nextId + 1 /\ clients' = clients \cup {nextId}
        /\ rosterLog' = rosterLog \o <<Joined(nextId)>> /\ phase' = phase
    BY <1>2, ServerAssumption DEF HandleNewJoin, AddRosterEvents, TypeOK, Ids, threadVars
  <2>2. Serving /\ Serving'
    BY <2>1 DEF HandleJoin, ThreadInv, TypeOK, Serving
  <2>3. <<Joined(nextId)>> \in Seq(Event) /\ Joined(nextId).id = nextId
    BY <2>1 DEF Event, Joined
  <2>7. rosterLog \in Seq(Event) /\ nextId \in Nat /\ nextId' \in Nat /\ nextId <= nextId'
    BY <2>1 DEF TypeOK, Ids
  <2>8. \A k \in DOMAIN <<Joined(nextId)>> : <<Joined(nextId)>>[k].id < nextId'
    BY <2>1, <2>3, <2>7
  <2>4. LogInv'
    BY <2>1, <2>3, <2>7, <2>8, LogAppended
  <2>5. rosterLog' = Append(rosterLog, R!Joined(nextId))
    BY <2>1, <2>3 DEF TypeOK, Joined, R!Joined
  <2>6. R!Join(nextId)
    BY <2>1, <2>2, <2>5 DEF R!Join, LogInv
  <2> QED
    BY <2>1, <2>4, <2>6 DEF R!Next
<1> QED
  BY <1>1, <1>2 DEF HandleJoin, HandleKnownJoin, HandleRefusedJoin

LEMMA RetireRoster ==
    ASSUME TypeOK, ThreadInv, LogInv, NEW S, S \subseteq clients, Retire(S), Serving,
           UNCHANGED <<nextId, phase>>
    PROVE  LogInv' /\ [R!Next]_abstractVars
<1> DEFINE n == Cardinality(S)
<1>1. PICK order \in InIdOrder(S) : AddRosterEvents([i \in 1..n |-> Left(order[i])])
  BY DEF Retire
<1> DEFINE events == [i \in 1..n |-> Left(order[i])]
<1>2. /\ order \in [1..n -> S]
      /\ \A i, j \in 1..n : i < j => order[i] < order[j]
  BY DEF InIdOrder
<1>3. n \in Nat /\ S \subseteq Ids /\ \A id \in S : id \in Int /\ id < nextId
  <2>1. S \subseteq Ids /\ Ids \subseteq Int /\ nextId \in Nat
    BY DEF TypeOK, Ids
  <2>2. \A id \in S : id < nextId
    BY <2>1 DEF ThreadInv, LiveSlots
  <2> QED
    BY <2>1, <2>2, SubsetsOfIds
<1>4. events \in Seq(Event) /\ rosterLog' = rosterLog \o events
  BY <1>1, <1>3, LeftEvents DEF AddRosterEvents
<1>5. DOMAIN events = 1..n /\ \A k \in 1..n : events[k].id < nextId
  BY <1>2, <1>3 DEF Left
<1>6. LogInv'
  <2>1. rosterLog \in Seq(Event) /\ nextId \in Nat /\ nextId' = nextId
    BY DEF TypeOK
  <2>2. \A k \in DOMAIN events : events[k].id < nextId'
    BY <1>5, <2>1
  <2>3. events \in Seq(Event) /\ rosterLog' = rosterLog \o events
    BY <1>4
  <2> HIDE DEF events, n
  <2>4. nextId' \in Nat /\ nextId <= nextId'
    BY <2>1
  <2> QED
    BY <2>1, <2>2, <2>3, <2>4, LogAppended
<1>7. \A i, j \in 1..n : order[i] = order[j] => i = j
  <2> SUFFICES ASSUME NEW i \in 1..n, NEW j \in 1..n, order[i] = order[j] PROVE i = j
    OBVIOUS
  <2>1. order[i] \in Int /\ ~(order[i] < order[j]) /\ ~(order[j] < order[i])
    BY <1>2, <1>3
  <2>2. ~(i < j) /\ ~(j < i)
    BY <1>2, <2>1
  <2> QED
    BY <2>2, <1>3
<1>8. rosterLog' = rosterLog \o [i \in 1..n |-> R!Left(order[i])]
  BY <1>4 DEF Left, R!Left
<1>9. R!LeaveTogether(S)
  <2>1. clients' = clients \ S
    BY DEF Retire
  <2>2. Serving' = Serving
    BY DEF Serving
  <2>3. order \in [1..n -> S]
    BY <1>2
  <2>4. \E o \in [1..n -> S] :
          /\ \A i, j \in 1..n : o[i] = o[j] => i = j
          /\ rosterLog' = rosterLog \o [i \in 1..n |-> R!Left(o[i])]
    <3> HIDE DEF n
    <3> QED
      BY <1>7, <1>8, <2>3, Zenon
  <2>5. R!Cardinality(S) = Cardinality(S)
    BY Zenon DEF R!Cardinality, Cardinality
  <2> QED
    BY <2>1, <2>2, <2>4, <2>5, Zenon DEF R!LeaveTogether
<1>10. R!Next
  BY <1>9 DEF R!Next
<1> QED
  BY <1>6, <1>10

LEMMA UpdateRoster ==
    ASSUME TypeOK, ThreadInv, LogInv, NEW id \in Ids, NEW req \in UpdateRequests,
           HandleUpdate(id, req)
    PROVE  LogInv' /\ [R!Next]_abstractVars
<1>1. phase' = phase
  BY DEF HandleUpdate, threadVars
<1>2. CASE UNCHANGED rosterVars
  BY <1>1, <1>2 DEF LogInv, abstractVars, Serving, rosterVars
<1>3. CASE AcceptLeave(id, req)
  <2>1. {id} \subseteq clients /\ Retire({id}) /\ UNCHANGED nextId
    BY <1>3 DEF AcceptLeave
  <2>2. Serving
    BY <2>1 DEF ThreadInv, TypeOK, Serving
  <2> QED
    BY <1>1, <2>1, <2>2, RetireRoster
<1> QED
  BY <1>2, <1>3 DEF HandleUpdate, RefuseUpdate, AcceptUpdate

LEMMA ScanRoster ==
    ASSUME TypeOK, ThreadInv, LogInv, NEW silent, WatchdogScan(silent)
    PROVE  LogInv' /\ [R!Next]_abstractVars
<1>1. /\ silent \subseteq clients /\ Retire(silent) /\ UNCHANGED <<nextId, phase>>
      /\ watchdog = "waiting"
  BY DEF WatchdogScan
<1>2. Serving
  BY <1>1 DEF ThreadInv, TypeOK, Serving
<1> QED
  BY <1>1, <1>2, RetireRoster

LEMMA StepRoster ==
    ASSUME TypeOK, ThreadInv, LogInv, ServerStep
    PROVE  LogInv' /\ [R!Next]_abstractVars
<1>1. CASE UNCHANGED <<clients, rosterLog, nextId>> /\ Serving' = Serving
  BY <1>1 DEF LogInv, abstractVars
<1>2. CASE UNCHANGED <<clients, rosterLog, nextId, phase>>
  BY <1>1, <1>2 DEF Serving
<1>3. ASSUME NEW silent, WatchdogScan(silent)
      PROVE  LogInv' /\ [R!Next]_abstractVars
  BY <1>3, ScanRoster
<1>4. CASE StopTakeSlots
  <2>1. UNCHANGED <<rosterLog, nextId>> /\ clients' = {} /\ Serving /\ ~Serving'
    BY <1>4 DEF StopTakeSlots, Serving
  <2> QED
    BY <2>1 DEF LogInv, R!Next, R!Close
<1>5. CASE StopWatchdog \/ StopDone \/ Start \/ StopJoining
  <2>1. UNCHANGED <<clients, rosterLog, nextId>> /\ (Serving' <=> Serving)
    BY <1>5 DEF StopWatchdog, StopDone, Start, StopJoining, Serving, rosterVars
  <2>2. Serving' = Serving
    BY <2>1 DEF Serving
  <2> QED
    BY <1>1, <2>1, <2>2
<1>6. CASE ServerThreadStep
  BY <1>2, <1>3, <1>4, <1>5, <1>6
  DEF ServerThreadStep, JoinThreadExit, WatchdogExit, WatchdogDone, HandlerExit, WatchdogJoin,
      StopSlot, JoinSlot, rosterVars, threadVars
<1>7. CASE ServerCallStep
  BY <1>2, <1>3, <1>5, <1>7
  DEF ServerCallStep, Broadcast, Send, PublishScene, DrainMessages, DrainRosterEvents,
      ApplyStates, DropDeparted, rosterVars, threadVars
<1> QED
  BY <1>6, <1>7 DEF ServerStep

\* The server implements Roster: whatever joins, leaves, times out and stops, members
\* change by one join or by some leaving together, and the log tells each change once
\* (sessionServer.cpp, addRosterEvent and its callers).
THEOREM ImplementsRoster == Spec => RosterIsKept
<1>1. ServerInit => TypeOK /\ ThreadInv /\ LogInv /\ R!Init
  <2>1. ServerInit => LogInv /\ R!Init
    BY DEF ServerInit, LogInv, R!Init, Serving
  <2> QED
    BY <2>1, InitType, InitThreads
<1>2. TypeOK /\ ThreadInv /\ LogInv /\ [Next]_serverVars
        => TypeOK' /\ ThreadInv' /\ LogInv' /\ [R!Next]_abstractVars
  <2> SUFFICES ASSUME TypeOK, ThreadInv, LogInv, [Next]_serverVars
               PROVE  LogInv' /\ [R!Next]_abstractVars
    BY NextType, NextThreads
  <2>1. CASE ServerStep
    BY <2>1, StepRoster
  <2>2. ASSUME NEW token, NEW reply, HandleJoin(token, reply)
        PROVE  LogInv' /\ [R!Next]_abstractVars
    BY <2>2, JoinRoster
  <2>3. ASSUME NEW id \in Ids, NEW req \in UpdateRequests, HandleUpdate(id, req)
        PROVE  LogInv' /\ [R!Next]_abstractVars
    BY <2>3, UpdateRoster
  <2>4. CASE UNCHANGED serverVars
    BY <2>4 DEF LogInv, abstractVars, Serving, serverVars, rosterVars, threadVars
  <2> QED
    BY <2>1, <2>2, <2>3, <2>4 DEF Next
<1> QED
  BY <1>1, <1>2, PTL DEF Spec, RosterIsKept, R!Spec, abstractVars
=============================================================================
