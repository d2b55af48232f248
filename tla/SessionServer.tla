---------------------------- MODULE SessionServer ----------------------------
(***************************************************************************)
(* sessionServer (src/networking/sessionServer.cpp): its threads, the      *)
(* state they share under one mutex, and what every operation does to it.  *)
(*                                                                         *)
(* Threads: the owner (start, stop), one join thread, one thread per       *)
(* client slot, the watchdog, the simulation thread (publishScene,         *)
(* applyClientStates) and any thread that sends.  A step is one critical   *)
(* section of the mutex; receiving a request and replying to it touch no   *)
(* shared state, so they belong to the step that handles the request.      *)
(*                                                                         *)
(* This module only defines the steps.  ServerAlone runs them against an   *)
(* arbitrary environment, Session against real clients over a network.     *)
(***************************************************************************)
EXTENDS SessionProtocol

CONSTANTS
    Tokens,          \* the join tokens, one per client process
    Ports,           \* the ephemeral ports the system can hand out
    MaxClientId,     \* kMaxClientIdPerRun
    MaxServerSends,  \* bound: messages queued per client by send / broadcast
    MaxPublishes,    \* bound: calls of publishScene
    Calls            \* bound: which of CallNames an instance includes

\* What an application may or may not do, and whether clients can be silent for
\* longer than the client timeout ("timeout").
CallNames == {"stop", "timeout", "leave", "drainMessages", "drainServerRoster",
              "drainClientRoster", "applyClientStates"}

ASSUME ServerAssumption ==
    /\ Calls \subseteq CallNames
    /\ MaxClientId \in Nat
    /\ MaxServerSends \in Nat
    /\ MaxPublishes \in Nat
    /\ Ports \cap {0} = {}

ServerId == 0
Ids == 1..MaxClientId

VARIABLES
    phase,            \* how far the owner is through start() and stop()
    joinThread,       \* "off", "running", "exited"
    watchdog,         \* "off", "waiting", "joining", "exited"
    finished,         \* ids whose slots the watchdog took out of retired
    doomed,           \* ids whose slots stop() took, still to destroy
    thread,           \* thread of each slot: "none", "running", "exited", "joined"
    stopFlag,         \* stop flag of each slot's responseHandler
    slot,             \* the rest of each slot
    clients,          \* ids of the connected clients
    retired,          \* ids that left, thread still to join
    nextId,
    rosterLog,        \* version n = first n entries
    rosterEvents,     \* roster events not yet drained
    departed,         \* ids for applyClientStates to drop
    states,           \* newest scene state received per id, not yet applied
    inbox,            \* received messages per id, not yet drained
    snapshotVersion,  \* 0 = nothing published yet
    scene,            \* ids whose entities are in the server's Scene
    applying          \* the simulation thread is inside applyClientStates

slotVars     == <<slot, inbox, states>>
rosterVars   == <<clients, retired, nextId, rosterLog, rosterEvents, departed>>
threadVars   == <<phase, joinThread, watchdog, finished, doomed>>
handlerVars  == <<thread, stopFlag>>
sceneVars    == <<snapshotVersion, scene, applying>>
serverVars   == <<slotVars, rosterVars, threadVars, handlerVars, sceneVars>>

NewSlot(token, port) ==
    [token |-> token, port |-> port, lastReceivedSeq |-> 0, nextSendSeq |-> 1,
     outbox |-> {}, sentSnapshotVersion |-> 0,
     sent |-> 0,                \* history: messages queued so far
     newestState |-> 0]         \* history: newest scene state received

ServerInit ==
    /\ phase = "idle" /\ joinThread = "off" /\ watchdog = "off"
    /\ finished = {} /\ doomed = {}
    /\ thread = [id \in Ids |-> "none"]
    /\ stopFlag = [id \in Ids |-> FALSE]
    /\ slot = [id \in Ids |-> NewSlot(None, 0)]
    /\ clients = {} /\ retired = {} /\ nextId = 1
    /\ rosterLog = <<>> /\ rosterEvents = <<>> /\ departed = {}
    /\ states = [id \in Ids |-> None]
    /\ inbox = [id \in Ids |-> <<>>]
    /\ snapshotVersion = 0 /\ scene = {} /\ applying = FALSE

-----------------------------------------------------------------------------
(***************************************************************************)
(* The roster.                                                             *)
(***************************************************************************)
\* Slip: tells the application but not the clients.
AddRosterEvents_QueueOnly(events) ==
    /\ rosterLog' = rosterLog
    /\ rosterEvents' = rosterEvents \o events

AddRosterEvents(events) ==
    /\ rosterLog' = rosterLog \o events
    /\ rosterEvents' = rosterEvents \o events

\* The sequence that lists S in increasing order, the order of the client map.
InIdOrder(S) ==
    {s \in [1..Cardinality(S) -> S] :
        /\ \A i, j \in 1..Cardinality(S) : i < j => s[i] < s[j]
        /\ \A id \in S : \E i \in 1..Cardinality(S) : s[i] = id}

\* Takes the clients in S out of the roster and tells their handlers to stop.
Retire(S) ==
    /\ clients' = clients \ S
    /\ stopFlag' = [id \in Ids |-> stopFlag[id] \/ id \in S]
    /\ departed' = departed \cup S
    /\ \E order \in InIdOrder(S) :
          AddRosterEvents([i \in 1..Cardinality(S) |-> Left(order[i])])

-----------------------------------------------------------------------------
(***************************************************************************)
(* Joining: the join thread's handler.  A slot holds its port until it is  *)
(* destroyed.                                                              *)
(***************************************************************************)
LiveSlots == clients \cup retired \cup finished \cup doomed
FreePorts == {p \in Ports : \A id \in LiveSlots : slot[id].port # p}

\* Slip: answers with some client's id instead of the one with the token.
HandleKnownJoin_AnyClient(token, reply) ==
    /\ \E id \in clients : reply = JoinReply("Ok", id, slot[id].port)
    /\ UNCHANGED serverVars

HandleKnownJoin(token, reply) ==
    /\ \E id \in clients :
          /\ slot[id].token = token
          /\ reply = JoinReply("Ok", id, slot[id].port)
    /\ UNCHANGED serverVars

HandleRefusedJoin(token, reply) ==
    /\ \A id \in clients : slot[id].token # token
    /\ nextId > MaxClientId \/ FreePorts = {}
    /\ reply = JoinReply("Rejected", ServerId, 0)
    /\ UNCHANGED serverVars

\* Slip: does not look for the token among the clients.
HandleNewJoin_NoLookup(token, reply) ==
    /\ nextId <= MaxClientId
    /\ \E port \in FreePorts :
          /\ slot' = [slot EXCEPT ![nextId] = NewSlot(token, port)]
          /\ reply = JoinReply("Ok", nextId, port)
    /\ thread' = [thread EXCEPT ![nextId] = "running"]
    /\ AddRosterEvents(<<Joined(nextId)>>)
    /\ clients' = clients \cup {nextId}
    /\ nextId' = nextId + 1
    /\ UNCHANGED <<inbox, states, retired, departed, stopFlag, threadVars, sceneVars>>

HandleNewJoin(token, reply) ==
    /\ \A id \in clients : slot[id].token # token
    /\ nextId <= MaxClientId
    /\ \E port \in FreePorts :
          /\ slot' = [slot EXCEPT ![nextId] = NewSlot(token, port)]
          /\ reply = JoinReply("Ok", nextId, port)
    /\ thread' = [thread EXCEPT ![nextId] = "running"]
    /\ AddRosterEvents(<<Joined(nextId)>>)
    /\ clients' = clients \cup {nextId}
    /\ nextId' = nextId + 1
    /\ UNCHANGED <<inbox, states, retired, departed, stopFlag, threadVars, sceneVars>>

HandleJoin(token, reply) ==
    /\ joinThread = "running"
    /\ \/ HandleKnownJoin(token, reply)
       \/ HandleRefusedJoin(token, reply)
       \/ HandleNewJoin(token, reply)

-----------------------------------------------------------------------------
(***************************************************************************)
(* Updates: the handler of client slot id.                                 *)
(***************************************************************************)
\* Slip: starts one event too late.
RosterNews_SkipsOne(version) ==
    IF version = 0
    THEN LET order == CHOOSE s \in InIdOrder(clients) : TRUE
         IN  [i \in DOMAIN order |-> Joined(order[i])]
    ELSE SubSeq(rosterLog, version + 2, Len(rosterLog))

RosterNews(version) ==
    IF version = 0
    THEN LET order == CHOOSE s \in InIdOrder(clients) : TRUE
         IN  [i \in DOMAIN order |-> Joined(order[i])]
    ELSE SubSeq(rosterLog, version + 1, Len(rosterLog))

\* A Leave is answered before the snapshot is considered.
SnapshotFor(id, req) ==
    IF \/ req.kind = "Leave"
       \/ slot[id].sentSnapshotVersion = snapshotVersion
    THEN None ELSE snapshotVersion

UpdateAnswer(id, req) ==
    IF req.id # id THEN BareReply("Rejected")
    ELSE IF id \notin clients THEN BareReply("UnknownClient")
    ELSE UpdateReply("Ok",
                     LastInOrder(slot[id].lastReceivedSeq, req.messages),
                     Len(rosterLog), RosterNews(req.rosterVersion),
                     Unacked(slot[id].outbox, req.ackSeq), SnapshotFor(id, req))

\* A request for another client's slot, or for one that is no longer connected.
RefuseUpdate(id, req) ==
    /\ req.id # id \/ id \notin clients
    /\ UNCHANGED <<slotVars, rosterVars, stopFlag>>

ReceiveUpdate(id, req) ==
    /\ inbox' = [inbox EXCEPT ![id] =
                    @ \o InOrder(slot[id].lastReceivedSeq, req.messages)]
    /\ slot' = [slot EXCEPT
                    ![id].lastReceivedSeq = LastInOrder(@, req.messages),
                    ![id].outbox = Unacked(@, req.ackSeq),
                    ![id].newestState = IF req.state > @ THEN req.state ELSE @,
                    ![id].sentSnapshotVersion =
                        IF SnapshotFor(id, req) = None THEN @ ELSE snapshotVersion]

AcceptUpdate(id, req) ==
    /\ req.id = id /\ id \in clients /\ req.kind = "Update"
    /\ ReceiveUpdate(id, req)
    /\ states' = [states EXCEPT ![id] = IF req.state = None THEN @ ELSE req.state]
    /\ UNCHANGED <<rosterVars, stopFlag>>

\* Slip: keeps a state that is not applied yet.
AcceptLeave_KeepsState(id, req) ==
    /\ req.id = id /\ id \in clients /\ req.kind = "Leave"
    /\ ReceiveUpdate(id, req)
    /\ Retire({id})
    /\ retired' = retired \cup {id}
    /\ UNCHANGED <<nextId, states>>

\* Slip: trusts the port to tell who is leaving.
AcceptLeave_AnySender(id, req) ==
    /\ id \in clients /\ req.kind = "Leave"
    /\ ReceiveUpdate(id, req)
    /\ Retire({id})
    /\ retired' = retired \cup {id}
    /\ states' = [states EXCEPT ![id] = None]
    /\ UNCHANGED nextId

AcceptLeave(id, req) ==
    /\ req.id = id /\ id \in clients /\ req.kind = "Leave"
    /\ ReceiveUpdate(id, req)
    /\ Retire({id})
    /\ retired' = retired \cup {id}
    /\ states' = [states EXCEPT ![id] = None]
    /\ UNCHANGED nextId

\* The thread looks at its stop flag after every reply.
HandleUpdate(id, req) ==
    /\ thread[id] = "running"
    /\ \/ RefuseUpdate(id, req)
       \/ AcceptUpdate(id, req)
       \/ AcceptLeave(id, req)
    /\ thread' = [thread EXCEPT ![id] = IF stopFlag'[id] THEN "exited" ELSE @]
    /\ UNCHANGED <<threadVars, sceneVars>>

\* Nothing arrived within the receive timeout and the stop flag is up.
HandlerExit(id) ==
    /\ thread[id] = "running" /\ stopFlag[id]
    /\ thread' = [thread EXCEPT ![id] = "exited"]
    /\ UNCHANGED <<slotVars, rosterVars, threadVars, stopFlag, sceneVars>>

-----------------------------------------------------------------------------
(***************************************************************************)
(* The watchdog.  Time is abstract: any set of clients may have been       *)
(* silent for longer than the client timeout when it looks.  It joins the  *)
(* threads of retired slots outside the mutex, then destroys the slots.    *)
(* Looking at watchdogStop belongs to the scan: raising the flag between   *)
(* the two only makes the exit possible, which comes after this scan.      *)
(***************************************************************************)
\* Slip: leaves the slots of clients that left by themselves in retired.
WatchdogScan_OnlySilent(silent) ==
    /\ watchdog = "waiting"
    /\ phase # "stopWatchdog"           \* watchdogStop
    /\ silent \subseteq clients
    /\ silent \cup retired # {}          \* otherwise nothing changes
    /\ Retire(silent)
    /\ retired' = retired
    /\ finished' = silent
    /\ watchdog' = "joining"
    /\ states' = [id \in Ids |-> IF id \in silent THEN None ELSE states[id]]
    /\ UNCHANGED <<slot, inbox, nextId, phase, joinThread, doomed, thread, sceneVars>>

WatchdogScan(silent) ==
    /\ watchdog = "waiting"
    /\ phase # "stopWatchdog"           \* watchdogStop
    /\ silent \subseteq clients
    /\ silent \cup retired # {}          \* otherwise nothing changes
    /\ Retire(silent)
    /\ retired' = {}
    /\ finished' = retired \cup silent
    /\ watchdog' = "joining"
    /\ states' = [id \in Ids |-> IF id \in silent THEN None ELSE states[id]]
    /\ UNCHANGED <<slot, inbox, nextId, phase, joinThread, doomed, thread, sceneVars>>

WatchdogJoin(id) ==
    /\ watchdog = "joining"
    /\ id \in finished /\ thread[id] = "exited"
    /\ thread' = [thread EXCEPT ![id] = "joined"]
    /\ UNCHANGED <<slotVars, rosterVars, threadVars, stopFlag, sceneVars>>

WatchdogDone ==
    /\ watchdog = "joining"
    /\ \A id \in finished : thread[id] = "joined"
    /\ finished' = {}
    /\ watchdog' = "waiting"
    /\ UNCHANGED <<slotVars, rosterVars, phase, joinThread, doomed, handlerVars, sceneVars>>

-----------------------------------------------------------------------------
(***************************************************************************)
(* The owner's thread: start(), then stop() step by step.                  *)
(***************************************************************************)
Start ==
    /\ phase = "idle"
    /\ phase' = "running" /\ joinThread' = "running" /\ watchdog' = "waiting"
    /\ UNCHANGED <<slotVars, rosterVars, finished, doomed, handlerVars, sceneVars>>

StopJoining ==
    /\ phase = "running"
    /\ phase' = "stopJoin"
    /\ UNCHANGED <<slotVars, rosterVars, joinThread, watchdog, finished, doomed,
                   handlerVars, sceneVars>>

JoinThreadExit ==
    /\ phase = "stopJoin" /\ joinThread = "running"
    /\ joinThread' = "exited"
    /\ UNCHANGED <<slotVars, rosterVars, phase, watchdog, finished, doomed,
                   handlerVars, sceneVars>>

StopWatchdog ==
    /\ phase = "stopJoin" /\ joinThread = "exited"
    /\ phase' = "stopWatchdog"
    /\ UNCHANGED <<slotVars, rosterVars, joinThread, watchdog, finished, doomed,
                   handlerVars, sceneVars>>

WatchdogExit ==
    /\ phase = "stopWatchdog" /\ watchdog = "waiting"
    /\ watchdog' = "exited"
    /\ UNCHANGED <<slotVars, rosterVars, phase, joinThread, finished, doomed,
                   handlerVars, sceneVars>>

\* Slip: takes the connected clients only.
StopTakeSlots_ForgetsRetired ==
    /\ phase = "stopWatchdog" /\ watchdog = "exited"
    /\ phase' = "stopSlots"
    /\ doomed' = clients
    /\ clients' = {} /\ retired' = {}
    /\ UNCHANGED <<slotVars, nextId, rosterLog, rosterEvents, departed,
                   joinThread, watchdog, finished, handlerVars, sceneVars>>

\* Takes every slot that is left; the clients get no roster event.
StopTakeSlots ==
    /\ phase = "stopWatchdog" /\ watchdog = "exited"
    /\ phase' = "stopSlots"
    /\ doomed' = clients \cup retired
    /\ clients' = {} /\ retired' = {}
    /\ UNCHANGED <<slotVars, nextId, rosterLog, rosterEvents, departed,
                   joinThread, watchdog, finished, handlerVars, sceneVars>>

\* stop() goes through the slots one at a time, here in id order.
Unjoined == {id \in doomed : thread[id] # "joined"}

\* Slip: joins the thread without telling it to stop.
StopSlot_NoFlag(id) ==
    /\ phase = "stopSlots"
    /\ id \in Unjoined /\ \A other \in Unjoined : id <= other
    /\ ~stopFlag[id]
    /\ UNCHANGED <<slotVars, rosterVars, threadVars, handlerVars, sceneVars>>

StopSlot(id) ==
    /\ phase = "stopSlots"
    /\ id \in Unjoined /\ \A other \in Unjoined : id <= other
    /\ ~stopFlag[id]
    /\ stopFlag' = [stopFlag EXCEPT ![id] = TRUE]
    /\ UNCHANGED <<slotVars, rosterVars, threadVars, thread, sceneVars>>

JoinSlot(id) ==
    /\ phase = "stopSlots"
    /\ id \in Unjoined /\ \A other \in Unjoined : id <= other
    /\ thread[id] = "exited"
    /\ thread' = [thread EXCEPT ![id] = "joined"]
    /\ UNCHANGED <<slotVars, rosterVars, threadVars, stopFlag, sceneVars>>

StopDone ==
    /\ phase = "stopSlots" /\ Unjoined = {}
    /\ phase' = "stopped" /\ doomed' = {}
    /\ UNCHANGED <<slotVars, rosterVars, joinThread, watchdog, finished,
                   handlerVars, sceneVars>>

-----------------------------------------------------------------------------
(***************************************************************************)
(* The application: messages, roster and scene.                            *)
(***************************************************************************)
Enqueue(S) ==
    slot' = [id \in Ids |->
        IF id \notin S THEN slot[id]
        ELSE [slot[id] EXCEPT
                !.outbox = @ \cup {WireMessage(slot[id].nextSendSeq,
                                               <<id, slot[id].sent + 1>>)},
                !.nextSendSeq = @ + 1,
                !.sent = @ + 1]]

\* A message to an id that is not connected is dropped: no step.
Send(id) ==
    /\ id \in clients /\ slot[id].sent < MaxServerSends
    /\ Enqueue({id})
    /\ UNCHANGED <<inbox, states, rosterVars, threadVars, handlerVars, sceneVars>>

Broadcast ==
    /\ clients # {} /\ \A id \in clients : slot[id].sent < MaxServerSends
    /\ Enqueue(clients)
    /\ UNCHANGED <<inbox, states, rosterVars, threadVars, handlerVars, sceneVars>>

DrainMessages ==
    /\ \E id \in Ids : inbox[id] # <<>>
    /\ inbox' = [id \in Ids |-> <<>>]
    /\ UNCHANGED <<slot, states, rosterVars, threadVars, handlerVars, sceneVars>>

DrainRosterEvents ==
    /\ rosterEvents # <<>>
    /\ rosterEvents' = <<>>
    /\ UNCHANGED <<clients, retired, nextId, rosterLog, departed, slotVars,
                   threadVars, handlerVars, sceneVars>>

PublishScene ==
    /\ ~applying
    /\ snapshotVersion < MaxPublishes
    /\ snapshotVersion' = snapshotVersion + 1
    /\ UNCHANGED <<scene, applying, slotVars, rosterVars, threadVars, handlerVars>>

\* applyClientStates takes the mutex twice: once for the states ...
ApplyStates ==
    /\ ~applying
    /\ applying' = TRUE
    /\ scene' = scene \cup {id \in Ids : states[id] # None}
    /\ states' = [id \in Ids |-> None]
    /\ UNCHANGED <<slot, inbox, snapshotVersion, rosterVars, threadVars, handlerVars>>

\* ... and then for the clients that left, dropping what they own.
DropDeparted ==
    /\ applying
    /\ applying' = FALSE
    /\ scene' = scene \ departed
    /\ departed' = {}
    /\ UNCHANGED <<snapshotVersion, clients, retired, nextId, rosterLog, rosterEvents,
                   slotVars, threadVars, handlerVars>>

\* The steps of the server's own threads ...
ServerThreadStep ==
    \/ JoinThreadExit \/ StopWatchdog \/ WatchdogExit \/ StopTakeSlots \/ StopDone
    \/ WatchdogScan({}) \/ WatchdogDone
    \/ \E id \in Ids : \/ HandlerExit(id) \/ WatchdogJoin(id)
                       \/ StopSlot(id) \/ JoinSlot(id)

\* ... and what the application makes it do.
ServerCallStep ==
    \/ Start \/ Broadcast \/ PublishScene \/ \E id \in Ids : Send(id)
    \/ "stop" \in Calls /\ StopJoining
    \/ "timeout" \in Calls /\ \E silent \in SUBSET clients : WatchdogScan(silent)
    \/ "drainMessages" \in Calls /\ DrainMessages
    \/ "drainServerRoster" \in Calls /\ DrainRosterEvents
    \/ "applyClientStates" \in Calls /\ (ApplyStates \/ DropDeparted)

ServerStep == ServerThreadStep \/ ServerCallStep
=============================================================================
