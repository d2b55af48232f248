---------------------------- MODULE SessionProofs ----------------------------
(***************************************************************************)
(* Proofs about Session: the promises of the protocol, for any number of   *)
(* clients, sockets, timeouts and late requests.                           *)
(***************************************************************************)
EXTENDS Session, FiniteSetTheorems, SequenceTheorems, TLAPS

USE ServerAssumption DEF Clients, ServerId, JoinPort, None

(***************************************************************************)
(* The inductive invariant.  First, what the records are made of.          *)
(***************************************************************************)
ClientFields ==
    {"app", "loop", "id", "updatePort", "connected", "outbox", "nextSendSeq",
     "lastReceivedSeq", "inbox", "rosterVersion", "rosterEvents", "pendingState", "sending",
     "lastTick", "latestSnapshot", "sent", "roster", "applied"}

SlotFields ==
    {"token", "port", "lastReceivedSeq", "nextSendSeq", "outbox", "sentSnapshotVersion",
     "sent", "newestState"}

ShapeInv ==
    /\ DOMAIN client = Clients /\ DOMAIN replies = Clients /\ DOMAIN socket = Clients
    /\ DOMAIN slot = Ids /\ DOMAIN inbox = Ids
    /\ \A c \in Clients : DOMAIN client[c] = ClientFields
    /\ \A id \in Ids : DOMAIN slot[id] = SlotFields

(***************************************************************************)
(* The server: ids are given out in order, and nobody joins or is retired  *)
(* once stop() took the slots.                                             *)
(***************************************************************************)
Given == 1..(nextId - 1)

Serving == phase \in {"idle", "running", "stopJoin", "stopWatchdog"}

ServerInv ==
    /\ nextId \in 1..(MaxClientId + 1)
    /\ LiveSlots \subseteq Given
    /\ \A id \in Given : slot[id].port \in Ports
    /\ joinThread = "running" => phase \in {"running", "stopJoin"}
    /\ watchdog \in {"waiting", "joining"} => Serving
    /\ ~Serving => clients = {}

(***************************************************************************)
(* Who a client is: from its join on it has an id, whose slot is its own.  *)
(***************************************************************************)
Nobody(c) == client[c].app \in {"new", "joining"}

Owns(c, id) == id \in Given /\ slot[id].token = c

IdInv ==
    \A c \in Clients :
        /\ client[c].app \in {"new", "joining", "joined", "running", "leaving", "leaveSent", "left"}
        /\ client[c].app \in {"new", "joining", "joined"} => client[c].loop = "off"
        /\ client[c].app \in {"leaveSent", "left"} => client[c].loop \in {"off", "exited"}
        /\ Nobody(c) => client[c].id = ServerId
        /\ ~Nobody(c) => Owns(c, client[c].id) /\ client[c].updatePort \in Ports

(***************************************************************************)
(* One exchange at a time.  The request of the present exchange is on its  *)
(* way, or was answered, or is lost; what older sockets still carry was    *)
(* sent by the same client under the same id.                              *)
(***************************************************************************)
Exchanging(c) ==
    client[c].app = "joining" \/ client[c].loop = "exchange" \/ client[c].app = "leaveSent"

Current(m) == m.socket = socket[m.from]

RequestInv ==
    \A m \in requests :
        /\ m.from \in Clients
        /\ m.port = JoinPort => m.req.token = m.from
        /\ m.port # JoinPort => m.req.id = client[m.from].id /\ ~Nobody(m.from)

CurrentInv ==
    /\ \A m \in requests :
          Current(m) => /\ Exchanging(m.from) /\ replies[m.from] = NoReply
                        /\ m.port = JoinPort <=> client[m.from].app = "joining"
    /\ \A m, n \in requests : Current(m) /\ Current(n) /\ m.from = n.from => m = n

ReplyInv ==
    \A c \in Clients :
        replies[c] # NoReply =>
            /\ Exchanging(c)
            /\ client[c].app = "joining" /\ replies[c].status = "Ok" =>
                  Owns(c, replies[c].id) /\ replies[c].updatePort \in Ports

ExchangeInv == ShapeInv /\ ServerInv /\ IdInv /\ RequestInv /\ CurrentInv /\ ReplyInv

(***************************************************************************)
(* Messages.  An outbox is a stretch of the messages a side has sent, up   *)
(* to the last; it starts at one the other side has asked for.  So does    *)
(* every list of messages on its way, wherever it ends.                    *)
(***************************************************************************)
Stream(who, low, high) == {WireMessage(n, <<who, n>>) : n \in (low + 1)..high}

IsStream(messages, who, last, high) ==
    \E low \in 0..last : messages = Stream(who, low, high)

\* What was accepted and not yet taken: the last messages up to number last.
Run(who, last, n) == [i \in 1..n |-> <<who, last - n + i>>]

IsRun(queue, who, last) == \E n \in 0..last : queue = Run(who, last, n)

\* Client c with what it keeps, the slot it has, and the server's queue for it.
Link(c, me, it, queue) ==
    /\ me.sent \in Nat /\ me.nextSendSeq = me.sent + 1
    /\ it.sent \in Nat /\ it.nextSendSeq = it.sent + 1
    /\ it.lastReceivedSeq \in 0..me.sent /\ me.lastReceivedSeq \in 0..it.sent
    /\ IsStream(me.outbox, c, it.lastReceivedSeq, me.sent)
    /\ IsStream(it.outbox, me.id, me.lastReceivedSeq, it.sent)
    /\ IsRun(queue, c, it.lastReceivedSeq)
    /\ IsRun(me.inbox, me.id, me.lastReceivedSeq)

LinkInv == \A c \in Clients : Link(c, client[c], ServerSlot(c), ServerInbox(c))

\* A slot nobody knows yet to be its own has received nothing.
Fresh(id, it, queue) ==
    /\ it.sent \in Nat /\ it.nextSendSeq = it.sent + 1
    /\ it.outbox = Stream(id, 0, it.sent)
    /\ it.lastReceivedSeq = 0 /\ queue = <<>>

SlotInv ==
    \A id \in Ids :
        (\A c \in Clients : client[c].id # id) => Fresh(id, slot[id], inbox[id])

GoodRequest(c, me, it, req) ==
    /\ req.ackSeq \in 0..me.lastReceivedSeq
    /\ \E high \in 0..me.sent : IsStream(req.messages, c, it.lastReceivedSeq, high)

GoodReply(c, me, it, reply) ==
    /\ reply.ackSeq \in 0..it.lastReceivedSeq
    /\ \E high \in 0..it.sent : IsStream(reply.messages, me.id, me.lastReceivedSeq, high)

TransitInv ==
    /\ \A m \in requests :
          m.port # JoinPort => GoodRequest(m.from, client[m.from], ServerSlot(m.from), m.req)
    /\ \A c \in Clients :
          replies[c] # NoReply /\ replies[c].status = "Ok" /\ client[c].app # "joining" =>
              GoodReply(c, client[c], ServerSlot(c), replies[c])

MessageInv == LinkInv /\ SlotInv /\ TransitInv

(***************************************************************************)
(* The roster.  A reply on its way tells what the client does not know.    *)
(***************************************************************************)
Event == {Joined(id) : id \in Ids} \cup {Left(id) : id \in Ids}

LogInv ==
    /\ rosterLog \in Seq(Event)
    /\ Serving => clients = RosterAfter({}, rosterLog)

\* What a client has and what it was told make a version of the server's roster.
View(log, me) ==
    /\ me.rosterVersion \in 0..Len(log) /\ me.rosterEvents \in Seq(Event)
    /\ RosterAfter(me.roster, me.rosterEvents) = Members(log, me.rosterVersion)

\* A reply brings a client that knows this version to another one.
News(log, version, reply) ==
    /\ reply.rosterVersion \in 0..Len(log) /\ reply.rosterEvents \in Seq(Event)
    /\ RosterAfter(Members(log, version), reply.rosterEvents) = Members(log, reply.rosterVersion)

ViewInv == \A c \in Clients : View(rosterLog, client[c])

NewsInv ==
    /\ \A m \in requests : Current(m) /\ m.port # JoinPort =>
          m.req.rosterVersion = client[m.from].rosterVersion
    /\ \A c \in Clients :
          replies[c] # NoReply /\ replies[c].status = "Ok" /\ client[c].app # "joining" =>
              News(rosterLog, client[c].rosterVersion, replies[c])

ViewsInv == LogInv /\ ViewInv /\ NewsInv

-----------------------------------------------------------------------------
(***************************************************************************)
(* What the steps of a client do to its record.                            *)
(***************************************************************************)
\* What the messages and the roster of a client are kept in.
Links == {"id", "updatePort", "outbox", "nextSendSeq", "lastReceivedSeq", "inbox", "sent"}
Views == {"rosterVersion", "rosterEvents", "roster"}

\* Client c takes a step that leaves the fields F alone.
Step(c, F) ==
    /\ DOMAIN client' = Clients
    /\ \A d \in Clients : DOMAIN client'[d] = ClientFields
    /\ \A d \in Clients \ {c} : client'[d] = client[d]
    /\ \A f \in F : client'[c][f] = client[c][f]

\* One more message is sent.
Pushed(who, me, now) ==
    /\ now.sent = me.sent + 1 /\ now.nextSendSeq = me.nextSendSeq + 1
    /\ now.outbox = me.outbox \cup {WireMessage(me.nextSendSeq, <<who, me.sent + 1>>)}

Goes(c, app, loop) == client'[c].app = app /\ client'[c].loop = loop

LEMMA CallEffects ==
    ASSUME ShapeInv, NEW c \in Clients
    PROVE  /\ StartUpdates(c) => client[c].app = "joined" /\ Goes(c, "running", "ready")
                                 /\ Step(c, Links \cup Views)
           /\ LoopExit(c) => client[c].loop = "ready" /\ Goes(c, client[c].app, "exited")
                             /\ Step(c, Links \cup Views)
           /\ SubmitScene(c) => Goes(c, client[c].app, client[c].loop)
                                /\ Step(c, Links \cup Views)
           /\ ApplySnapshot(c) => Goes(c, client[c].app, client[c].loop)
                                  /\ Step(c, Links \cup Views)
           /\ Leave(c) => client[c].app \in {"joined", "running"}
                          /\ Goes(c, "leaving", client[c].loop) /\ Step(c, Links \cup Views)
BY DEF ShapeInv, ClientFields, Links, Views, Step, Goes, StartUpdates, LoopExit, SubmitScene,
       ApplySnapshot, Leave

LEMMA DataEffects ==
    ASSUME ShapeInv, NEW c \in Clients
    PROVE  /\ ClientSend(c) =>
                /\ Goes(c, client[c].app, client[c].loop)
                /\ Step(c, Views \cup {"id", "updatePort", "lastReceivedSeq", "inbox"})
                /\ Pushed(c, client[c], client'[c])
           /\ ClientDrainMessages(c) =>
                /\ Goes(c, client[c].app, client[c].loop)
                /\ Step(c, Views \cup (Links \ {"inbox"})) /\ client'[c].inbox = <<>>
           /\ ClientDrainRoster(c) =>
                /\ Goes(c, client[c].app, client[c].loop)
                /\ Step(c, Links \cup {"rosterVersion"}) /\ client'[c].rosterEvents = <<>>
                /\ client'[c].roster = RosterAfter(client[c].roster, client[c].rosterEvents)
BY DEF ShapeInv, ClientFields, Links, Views, Step, Goes, ClientSend, ClientDrainMessages,
       ClientDrainRoster, Pushed

LEMMA BeginEffects ==
    ASSUME ShapeInv, NEW c \in Clients
    PROVE  /\ BeginJoin(c) => client[c].app = "new" /\ Goes(c, "joining", client[c].loop)
                              /\ Step(c, Links \cup Views)
           /\ BeginUpdate(c) => client[c].loop = "ready" /\ Goes(c, client[c].app, "exchange")
                                /\ Step(c, Links \cup Views)
           /\ BeginLeave(c) => /\ client[c].app = "leaving"
                               /\ client[c].loop \in {"off", "exited"}
                               /\ Goes(c, "leaveSent", client[c].loop)
                               /\ Step(c, Links \cup Views)
BY DEF ShapeInv, ClientFields, Links, Views, Step, Goes, BeginJoin, BeginUpdate, BeginLeave

LEMMA EndEffects ==
    ASSUME ShapeInv, NEW c \in Clients
    PROVE  /\ JoinFails(c) => client[c].app = "joining" /\ Goes(c, "new", client[c].loop)
                              /\ Step(c, Links \cup Views)
           /\ UpdateFails(c) => client[c].loop = "exchange" /\ Goes(c, client[c].app, "ready")
                                /\ Step(c, Links \cup Views)
           /\ LeaveFails(c) => client[c].app = "leaveSent" /\ Goes(c, "left", client[c].loop)
                               /\ Step(c, Links \cup Views)
           /\ \A reply : UpdateDropped(c, reply) =>
                client[c].loop = "exchange" /\ Goes(c, client[c].app, "exited")
                /\ Step(c, Links \cup Views)
BY DEF ShapeInv, ClientFields, Links, Views, Step, Goes, JoinFails, UpdateFails, LeaveFails,
       UpdateDropped

LEMMA JoinOkEffects ==
    ASSUME ShapeInv, NEW c \in Clients, NEW reply, JoinOk(c, reply)
    PROVE  /\ client[c].app = "joining" /\ reply.status = "Ok"
           /\ Goes(c, "joined", client[c].loop)
           /\ client'[c].id = reply.id /\ client'[c].updatePort = reply.updatePort
           /\ Step(c, Views \cup (Links \ {"id", "updatePort"}))
<1> USE DEF ShapeInv, ClientFields, JoinOk
<1>1. client[c].app = "joining" /\ reply.status = "Ok" /\ Goes(c, "joined", client[c].loop)
  BY DEF Goes
<1>2. client'[c].id = reply.id /\ client'[c].updatePort = reply.updatePort
  OBVIOUS
<1>3. Step(c, Views \cup (Links \ {"id", "updatePort"}))
  BY DEF Step, Views, Links
<1> QED
  BY <1>1, <1>2, <1>3

\* What a client takes from a reply to an update or a leave, and what it keeps.
Absorbed(now, me, reply) ==
    /\ now.outbox = Unacked(me.outbox, reply.ackSeq)
    /\ now.inbox = me.inbox \o InOrder(me.lastReceivedSeq, reply.messages)
    /\ now.lastReceivedSeq = LastInOrder(me.lastReceivedSeq, reply.messages)
    /\ now.rosterEvents = me.rosterEvents \o reply.rosterEvents
    /\ now.rosterVersion = reply.rosterVersion
    /\ now.id = me.id /\ now.updatePort = me.updatePort
    /\ now.nextSendSeq = me.nextSendSeq /\ now.sent = me.sent /\ now.roster = me.roster

Absorbs(c, reply) == Step(c, {}) /\ Absorbed(client'[c], client[c], reply)

LEMMA AbsorbEffects ==
    ASSUME NEW me, DOMAIN me = ClientFields, NEW reply, NEW now, now = Absorb(me, reply)
    PROVE  /\ DOMAIN now = ClientFields /\ now.app = me.app /\ now.loop = me.loop
           /\ Absorbed(now, me, reply)
<1> USE DEF ClientFields
<1>1. DOMAIN now = ClientFields /\ now.app = me.app /\ now.loop = me.loop
  BY DEF Absorb
<1>2. now.outbox = Unacked(me.outbox, reply.ackSeq)
  BY DEF Absorb
<1>3. now.inbox = me.inbox \o InOrder(me.lastReceivedSeq, reply.messages)
  BY DEF Absorb
<1>4. now.lastReceivedSeq = LastInOrder(me.lastReceivedSeq, reply.messages)
  BY DEF Absorb
<1>5. now.rosterEvents = me.rosterEvents \o reply.rosterEvents
  BY DEF Absorb
<1>6. now.rosterVersion = reply.rosterVersion
  BY DEF Absorb
<1>7. /\ now.id = me.id /\ now.updatePort = me.updatePort
      /\ now.nextSendSeq = me.nextSendSeq /\ now.sent = me.sent /\ now.roster = me.roster
  BY DEF Absorb
<1> QED
  BY <1>1, <1>2, <1>3, <1>4, <1>5, <1>6, <1>7 DEF Absorbed

LEMMA UpdateOkEffects ==
    ASSUME ShapeInv, NEW c \in Clients, NEW reply, UpdateOk(c, reply)
    PROVE  /\ client[c].loop = "exchange" /\ reply.status = "Ok"
           /\ Goes(c, client[c].app, "ready") /\ Absorbs(c, reply)
<1> DEFINE now == Absorb(client[c], reply)
<1>1. /\ client[c].loop = "exchange" /\ reply.status = "Ok"
      /\ client' = [client EXCEPT ![c] = [now EXCEPT !.loop = "ready", !.connected = TRUE, !.sending = None]]
  BY DEF UpdateOk
<1>2. DOMAIN client = Clients /\ \A d \in Clients : DOMAIN client[d] = ClientFields
  BY DEF ShapeInv
<1>3. now = Absorb(client[c], reply)
  OBVIOUS
<1> HIDE DEF now
<1>4. /\ DOMAIN now = ClientFields /\ now.app = client[c].app /\ now.loop = client[c].loop
      /\ Absorbed(now, client[c], reply)
  BY <1>2, <1>3, AbsorbEffects
<1>5. /\ client'[c] = [now EXCEPT !.loop = "ready", !.connected = TRUE, !.sending = None]
      /\ DOMAIN client' = Clients /\ \A d \in Clients \ {c} : client'[d] = client[d]
  BY <1>1, <1>2
<1>6. DOMAIN client'[c] = ClientFields /\ Goes(c, client[c].app, "ready")
  BY <1>4, <1>5 DEF Goes, ClientFields
<1>7. Step(c, {})
  BY <1>2, <1>5, <1>6 DEF Step
<1>8. Absorbed(client'[c], client[c], reply)
  <2>1. /\ client'[c].outbox = now.outbox /\ client'[c].inbox = now.inbox
        /\ client'[c].lastReceivedSeq = now.lastReceivedSeq
        /\ client'[c].rosterEvents = now.rosterEvents
        /\ client'[c].rosterVersion = now.rosterVersion
        /\ client'[c].id = now.id /\ client'[c].updatePort = now.updatePort
        /\ client'[c].nextSendSeq = now.nextSendSeq /\ client'[c].sent = now.sent
        /\ client'[c].roster = now.roster
    BY <1>4, <1>5 DEF ClientFields
  <2> QED
    BY <1>4, <2>1, Zenon DEF Absorbed
<1> QED
  BY <1>1, <1>6, <1>7, <1>8 DEF Absorbs

LEMMA LeaveOkEffects ==
    ASSUME ShapeInv, NEW c \in Clients, NEW reply, LeaveOk(c, reply)
    PROVE  /\ client[c].app = "leaveSent" /\ reply.status = "Ok"
           /\ Goes(c, "left", client[c].loop) /\ Absorbs(c, reply)
<1> DEFINE now == Absorb(client[c], reply)
<1>1. /\ client[c].app = "leaveSent" /\ reply.status = "Ok"
      /\ client' = [client EXCEPT ![c] = [now EXCEPT !.app = "left", !.connected = FALSE]]
  BY DEF LeaveOk
<1>2. DOMAIN client = Clients /\ \A d \in Clients : DOMAIN client[d] = ClientFields
  BY DEF ShapeInv
<1>3. now = Absorb(client[c], reply)
  OBVIOUS
<1> HIDE DEF now
<1>4. /\ DOMAIN now = ClientFields /\ now.app = client[c].app /\ now.loop = client[c].loop
      /\ Absorbed(now, client[c], reply)
  BY <1>2, <1>3, AbsorbEffects
<1>5. /\ client'[c] = [now EXCEPT !.app = "left", !.connected = FALSE]
      /\ DOMAIN client' = Clients /\ \A d \in Clients \ {c} : client'[d] = client[d]
  BY <1>1, <1>2
<1>6. DOMAIN client'[c] = ClientFields /\ Goes(c, "left", client[c].loop)
  BY <1>4, <1>5 DEF Goes, ClientFields
<1>7. Step(c, {})
  BY <1>2, <1>5, <1>6 DEF Step
<1>8. Absorbed(client'[c], client[c], reply)
  <2>1. /\ client'[c].outbox = now.outbox /\ client'[c].inbox = now.inbox
        /\ client'[c].lastReceivedSeq = now.lastReceivedSeq
        /\ client'[c].rosterEvents = now.rosterEvents
        /\ client'[c].rosterVersion = now.rosterVersion
        /\ client'[c].id = now.id /\ client'[c].updatePort = now.updatePort
        /\ client'[c].nextSendSeq = now.nextSendSeq /\ client'[c].sent = now.sent
        /\ client'[c].roster = now.roster
    BY <1>4, <1>5 DEF ClientFields
  <2> QED
    BY <1>4, <2>1, Zenon DEF Absorbed
<1> QED
  BY <1>1, <1>6, <1>7, <1>8 DEF Absorbs

-----------------------------------------------------------------------------
(***************************************************************************)
(* What the steps of the server do to its slots and its roster.            *)
(***************************************************************************)
\* The slots of S change, in other fields than those of F.
SlotStep(S, F) ==
    /\ DOMAIN slot' = Ids /\ DOMAIN inbox' = Ids
    /\ \A id \in Ids : DOMAIN slot'[id] = SlotFields
    /\ \A id \in Ids \ S : slot'[id] = slot[id]
    /\ \A id \in Ids, f \in F : slot'[id][f] = slot[id][f]

\* What a slot has to do with who its client is.
Names == {"token", "port"}

LEMMA EnqueueEffects ==
    ASSUME ShapeInv, NEW S, Enqueue(S), UNCHANGED inbox
    PROVE  /\ SlotStep(S, Names \cup {"lastReceivedSeq"})
           /\ \A id \in S \cap Ids : Pushed(id, slot[id], slot'[id])
BY DEF ShapeInv, SlotFields, Enqueue, SlotStep, Names, Pushed

Received(id, req) ==
    /\ inbox'[id] = inbox[id] \o InOrder(slot[id].lastReceivedSeq, req.messages)
    /\ slot'[id].lastReceivedSeq = LastInOrder(slot[id].lastReceivedSeq, req.messages)
    /\ slot'[id].outbox = Unacked(slot[id].outbox, req.ackSeq)

LEMMA ReceiveEffects ==
    ASSUME ShapeInv, NEW id \in Ids, NEW req, ReceiveUpdate(id, req)
    PROVE  /\ SlotStep({id}, Names \cup {"sent", "nextSendSeq"})
           /\ Received(id, req)
           /\ \A other \in Ids \ {id} : inbox'[other] = inbox[other]
<1>1. SlotStep({id}, Names \cup {"sent", "nextSendSeq"})
  BY DEF ShapeInv, SlotFields, ReceiveUpdate, SlotStep, Names
<1>2. slot'[id].lastReceivedSeq = LastInOrder(slot[id].lastReceivedSeq, req.messages)
  BY DEF ShapeInv, SlotFields, ReceiveUpdate
<1>3. slot'[id].outbox = Unacked(slot[id].outbox, req.ackSeq)
  BY DEF ShapeInv, SlotFields, ReceiveUpdate
<1>4. /\ inbox'[id] = inbox[id] \o InOrder(slot[id].lastReceivedSeq, req.messages)
      /\ \A other \in Ids \ {id} : inbox'[other] = inbox[other]
  BY DEF ShapeInv, ReceiveUpdate
<1> QED
  BY <1>1, <1>2, <1>3, <1>4 DEF Received

\* A client is given the next id, and a slot.
Joins(token, reply) ==
    /\ nextId \in Ids /\ nextId' = nextId + 1
    /\ SlotStep({nextId}, {}) /\ UNCHANGED inbox
    /\ slot'[nextId] = NewSlot(token, slot'[nextId].port) /\ slot'[nextId].port \in Ports
    /\ reply = JoinReply("Ok", nextId, slot'[nextId].port)
    /\ clients' = clients \cup {nextId} /\ rosterLog' = rosterLog \o <<Joined(nextId)>>
    /\ UNCHANGED <<retired, threadVars>>

LEMMA NewJoinEffects ==
    ASSUME ShapeInv, ServerInv, NEW token, NEW reply, HandleNewJoin(token, reply)
    PROVE  Joins(token, reply)
<1>1. nextId \in Ids /\ DOMAIN slot = Ids /\ DOMAIN inbox = Ids
  BY DEF ShapeInv, ServerInv, HandleNewJoin, Ids
<1>2. PICK port \in Ports : /\ slot' = [slot EXCEPT ![nextId] = NewSlot(token, port)]
                            /\ reply = JoinReply("Ok", nextId, port)
  BY DEF HandleNewJoin, FreePorts
<1>3. slot'[nextId] = NewSlot(token, port) /\ NewSlot(token, port).port = port
  BY <1>1, <1>2 DEF NewSlot
<1>4. DOMAIN NewSlot(token, port) = SlotFields
  BY DEF NewSlot, SlotFields
<1>5. SlotStep({nextId}, {}) /\ UNCHANGED inbox
  BY <1>1, <1>2, <1>4 DEF SlotStep, ShapeInv, HandleNewJoin
<1> QED
  BY <1>1, <1>2, <1>3, <1>5 DEF HandleNewJoin, AddRosterEvents, Joins

\* The server retires some of its clients, and tells the others.
Retires(S) ==
    /\ clients' = clients \ S
    /\ \E order \in InIdOrder(S) :
          rosterLog' = rosterLog \o [i \in 1..Cardinality(S) |-> Left(order[i])]

\* What the server's own steps do to its messages, and to its roster.
MessageStep ==
    \/ UNCHANGED <<slot, inbox>>
    \/ \E S \in SUBSET clients : Enqueue(S) /\ UNCHANGED inbox
    \/ slot' = slot /\ inbox' = [id \in Ids |-> <<>>]

RosterStep ==
    \/ UNCHANGED <<clients, rosterLog>> /\ (Serving' => Serving)
    \/ rosterLog' = rosterLog /\ ~Serving'
    \/ UNCHANGED phase /\ \E S \in SUBSET clients : Retires(S)

LEMMA ScanEffects ==
    ASSUME NEW silent, WatchdogScan(silent)
    PROVE  /\ nextId' = nextId /\ MessageStep /\ RosterStep
           /\ LiveSlots' \subseteq LiveSlots
           /\ UNCHANGED <<phase, joinThread>> /\ watchdog = "waiting" /\ clients' \subseteq clients
<1>1. UNCHANGED <<slot, inbox, nextId, phase, joinThread>> /\ watchdog = "waiting"
  BY DEF WatchdogScan
<1>2. silent \in SUBSET clients /\ Retires(silent)
  BY DEF WatchdogScan, Retire, AddRosterEvents, Retires
<1>3. LiveSlots' \subseteq LiveSlots /\ clients' \subseteq clients
  BY <1>2 DEF WatchdogScan, LiveSlots, Retires
<1> QED
  BY <1>1, <1>2, <1>3 DEF MessageStep, RosterStep

\* Every step of the server's own, sorted by what it does to all of this.
LEMMA ServerStepEffects ==
    ASSUME ServerInv, ServerStep
    PROVE  /\ nextId' = nextId /\ MessageStep /\ RosterStep
           /\ LiveSlots' \subseteq LiveSlots
           /\ joinThread' = "running" => phase' \in {"running", "stopJoin"}
           /\ watchdog' \in {"waiting", "joining"} => Serving'
           /\ ~Serving' => clients' = {}
<1> USE DEF ServerInv, Serving, LiveSlots, MessageStep, RosterStep
<1>1. CASE JoinThreadExit
  BY <1>1 DEF JoinThreadExit, slotVars, rosterVars
<1>2. CASE StopWatchdog
  BY <1>2 DEF StopWatchdog, slotVars, rosterVars
<1>3. CASE WatchdogExit
  BY <1>3 DEF WatchdogExit, slotVars, rosterVars
<1>4. CASE StopTakeSlots
  BY <1>4 DEF StopTakeSlots, slotVars
<1>5. CASE StopDone
  BY <1>5 DEF StopDone, slotVars, rosterVars
<1>6. ASSUME NEW silent, WatchdogScan(silent)
      PROVE  /\ nextId' = nextId /\ MessageStep /\ RosterStep
             /\ LiveSlots' \subseteq LiveSlots
             /\ joinThread' = "running" => phase' \in {"running", "stopJoin"}
             /\ watchdog' \in {"waiting", "joining"} => Serving'
             /\ ~Serving' => clients' = {}
  BY <1>6, ScanEffects
<1>7. CASE WatchdogDone
  BY <1>7 DEF WatchdogDone, slotVars, rosterVars
<1>8. ASSUME NEW id \in Ids, HandlerExit(id) \/ WatchdogJoin(id) \/ StopSlot(id) \/ JoinSlot(id)
      PROVE  UNCHANGED <<slotVars, rosterVars, threadVars>>
  BY <1>8 DEF HandlerExit, WatchdogJoin, StopSlot, JoinSlot
<1>9. CASE Start
  BY <1>9 DEF Start, slotVars, rosterVars
<1>10. CASE Broadcast
  BY <1>10 DEF Broadcast, rosterVars, threadVars
<1>11. CASE PublishScene
  BY <1>11 DEF PublishScene, slotVars, rosterVars, threadVars
<1>12. ASSUME NEW id \in Ids, Send(id)
       PROVE  /\ UNCHANGED <<rosterVars, threadVars, inbox>>
              /\ \E S \in SUBSET clients : Enqueue(S)
  BY <1>12 DEF Send
<1>13. CASE StopJoining
  BY <1>13 DEF StopJoining, slotVars, rosterVars
<1>14. CASE DrainMessages
  BY <1>14 DEF DrainMessages, rosterVars, threadVars
<1>15. CASE DrainRosterEvents
  BY <1>15 DEF DrainRosterEvents, slotVars, threadVars
<1>16. CASE ApplyStates \/ DropDeparted
  BY <1>16 DEF ApplyStates, DropDeparted, slotVars, rosterVars, threadVars
<1>17. CASE ServerThreadStep
  BY <1>1, <1>2, <1>3, <1>4, <1>5, <1>6, <1>7, <1>8, <1>17
  DEF ServerThreadStep, slotVars, rosterVars, threadVars
<1>18. CASE ServerCallStep
  BY <1>6, <1>9, <1>10, <1>11, <1>12, <1>13, <1>14, <1>15, <1>16, <1>18
  DEF ServerCallStep, rosterVars, threadVars
<1> QED
  BY <1>17, <1>18 DEF ServerStep

LEMMA MessageStepEffects ==
    ASSUME ShapeInv, MessageStep
    PROVE  SlotStep(Ids, Names \cup {"lastReceivedSeq"})
<1>1. CASE UNCHANGED <<slot, inbox>>
  BY <1>1 DEF ShapeInv, SlotStep
<1>2. CASE \E S \in SUBSET clients : Enqueue(S) /\ UNCHANGED inbox
  BY <1>2, EnqueueEffects DEF SlotStep
<1>3. CASE slot' = slot /\ inbox' = [id \in Ids |-> <<>>]
  BY <1>3 DEF ShapeInv, SlotStep
<1> QED
  BY <1>1, <1>2, <1>3 DEF MessageStep

\* What the handler of an update may do to the server.
Accepts(id, req) == req.id = id /\ id \in clients /\ ReceiveUpdate(id, req)

LEMMA HandleUpdateEffects ==
    ASSUME NEW id, NEW req, HandleUpdate(id, req)
    PROVE  /\ nextId' = nextId /\ UNCHANGED threadVars /\ LiveSlots' \subseteq LiveSlots
           /\ \/ /\ UNCHANGED <<slot, inbox, clients, rosterLog>>
                 /\ req.id # id \/ id \notin clients
              \/ Accepts(id, req) /\ UNCHANGED <<clients, rosterLog>>
              \/ Accepts(id, req) /\ Retires({id})
<1>1. CASE RefuseUpdate(id, req)
  BY <1>1 DEF HandleUpdate, RefuseUpdate, LiveSlots, slotVars, rosterVars, threadVars
<1>2. CASE AcceptUpdate(id, req)
  BY <1>2 DEF HandleUpdate, AcceptUpdate, Accepts, LiveSlots, rosterVars, threadVars
<1>3. CASE AcceptLeave(id, req)
  BY <1>3 DEF HandleUpdate, AcceptLeave, Accepts, LiveSlots, threadVars, Retire,
              AddRosterEvents, Retires
<1> QED
  BY <1>1, <1>2, <1>3 DEF HandleUpdate

-----------------------------------------------------------------------------
(***************************************************************************)
(* One exchange at a time, under an id of one's own.                       *)
(***************************************************************************)
LEMMA InitExchange == ASSUME Init PROVE ExchangeInv
<1> USE DEF Init, ServerInit, ClientInit
<1>1. ShapeInv
  BY DEF ShapeInv, ClientFields, SlotFields, NewClient, NewSlot
<1>2. ServerInv
  BY DEF ServerInv, LiveSlots, Given, Serving
<1>3. IdInv /\ RequestInv /\ CurrentInv /\ ReplyInv
  BY DEF IdInv, RequestInv, CurrentInv, ReplyInv, NewClient, Nobody
<1> QED
  BY <1>1, <1>2, <1>3 DEF ExchangeInv

\* A server that gives out no id keeps what it promised.
LEMMA NamesKept ==
    ASSUME ShapeInv, ServerInv, nextId' = nextId, SlotStep(Ids, Names),
           LiveSlots' \subseteq LiveSlots,
           joinThread' = "running" => phase' \in {"running", "stopJoin"},
           watchdog' \in {"waiting", "joining"} => Serving',
           ~Serving' => clients' = {}
    PROVE  /\ ServerInv'
           /\ \A c, id : Owns(c, id) => Owns(c, id)'
<1>1. Given \subseteq Ids /\ Given' = Given
  BY DEF ServerInv, Given, Ids
<1>2. \A id \in Given : slot'[id].port = slot[id].port /\ slot'[id].token = slot[id].token
  BY <1>1 DEF SlotStep, Names
<1>3. \A c, id : Owns(c, id) => Owns(c, id)'
  BY <1>1, <1>2 DEF Owns
<1> QED
  BY <1>1, <1>2, <1>3 DEF ServerInv

LEMMA JoinKeepsNames ==
    ASSUME ShapeInv, ServerInv, NEW token, NEW reply, HandleNewJoin(token, reply),
           joinThread = "running"
    PROVE  /\ ServerInv' /\ nextId \in Given' /\ slot'[nextId].token = token
           /\ \A c, id : Owns(c, id) => Owns(c, id)'
<1>1. /\ nextId \in Ids /\ nextId' = nextId + 1 /\ SlotStep({nextId}, {})
      /\ slot'[nextId] = NewSlot(token, slot'[nextId].port) /\ slot'[nextId].port \in Ports
      /\ clients' = clients \cup {nextId} /\ UNCHANGED <<retired, threadVars>>
      /\ reply = JoinReply("Ok", nextId, slot'[nextId].port)
  <2>1. Joins(token, reply)
    BY NewJoinEffects
  <2> QED
    BY <2>1 DEF Joins
<1>2. Given \subseteq Ids /\ Given' = Given \cup {nextId} /\ nextId \notin Given
  BY <1>1 DEF ServerInv, Given, Ids
<1>3. \A id \in Given : slot'[id] = slot[id]
  BY <1>1, <1>2 DEF SlotStep
<1>4. slot'[nextId].token = token
  BY <1>1 DEF NewSlot
<1>5. \A c, id : Owns(c, id) => Owns(c, id)'
  BY <1>2, <1>3 DEF Owns
<1>6. nextId \in Given'
  BY <1>2
<1>7. LiveSlots' \subseteq Given'
  BY <1>1, <1>2 DEF ServerInv, LiveSlots, threadVars
<1>8. nextId' \in 1..(MaxClientId + 1)
  BY <1>1 DEF Ids
<1> QED
  BY <1>1, <1>2, <1>3, <1>4, <1>5, <1>6, <1>7, <1>8 DEF ServerInv, Serving, threadVars

LEMMA ServerStepExchange ==
    ASSUME ExchangeInv, ServerStep, UNCHANGED <<client, networkVars>>
    PROVE  ExchangeInv'
<1> USE DEF ExchangeInv, networkVars
<1>1. SlotStep(Ids, Names)
  BY ServerStepEffects, MessageStepEffects DEF SlotStep
<1>2. ServerInv' /\ \A c, id : Owns(c, id) => Owns(c, id)'
  BY <1>1, ServerStepEffects, NamesKept
<1>3. ShapeInv'
  BY <1>1 DEF ShapeInv, SlotStep
<1>4. IdInv' /\ RequestInv' /\ CurrentInv' /\ ReplyInv'
  BY <1>2 DEF IdInv, RequestInv, CurrentInv, ReplyInv, Nobody, Exchanging, Current
<1> QED
  BY <1>2, <1>3, <1>4

\* A step of client c alone is told by where it goes.
LEMMA ClientStepMoves ==
    ASSUME ShapeInv, NEW c \in Clients, ClientStep(c)
    PROVE  /\ Step(c, {"id", "updatePort"})
           /\ \/ Goes(c, client[c].app, client[c].loop)
              \/ client[c].app = "joined" /\ Goes(c, "running", "ready")
              \/ client[c].loop = "ready" /\ Goes(c, client[c].app, "exited")
              \/ client[c].app \in {"joined", "running"} /\ Goes(c, "leaving", client[c].loop)
<1>1. CASE StartUpdates(c) \/ LoopExit(c) \/ SubmitScene(c) \/ ApplySnapshot(c) \/ Leave(c)
  BY <1>1, CallEffects DEF Step, Links
<1>2. CASE ClientSend(c) \/ ClientDrainMessages(c) \/ ClientDrainRoster(c)
  BY <1>2, DataEffects DEF Step, Links
<1> QED
  BY <1>1, <1>2 DEF ClientStep

LEMMA ClientStepExchange ==
    ASSUME ExchangeInv, NEW c \in Clients, ClientStep(c), UNCHANGED <<serverVars, networkVars>>
    PROVE  ExchangeInv'
<1> USE DEF ExchangeInv, networkVars
<1>1. UNCHANGED <<slot, inbox, nextId, clients, retired, finished, doomed, phase, joinThread,
                  watchdog>>
  BY DEF serverVars, slotVars, rosterVars, threadVars
<1>2. ShapeInv' /\ ServerInv'
  BY <1>1, ClientStepMoves
  DEF ShapeInv, ServerInv, Step, LiveSlots, Given, Serving
<1>3. /\ Nobody(c)' = Nobody(c) /\ Exchanging(c)' = Exchanging(c)
      /\ client'[c].app = "joining" <=> client[c].app = "joining"
      /\ client'[c].id = client[c].id /\ client'[c].updatePort = client[c].updatePort
  BY ClientStepMoves DEF Step, Goes, IdInv, Nobody, Exchanging
<1>4. IdInv'
  BY <1>1, <1>3, ClientStepMoves DEF IdInv, Step, Goes, Nobody, Owns, Given
<1>5. RequestInv' /\ CurrentInv'
  BY <1>3, ClientStepMoves DEF RequestInv, CurrentInv, Step, Nobody, Exchanging, Current
<1>6. ReplyInv'
  BY <1>1, <1>3, ClientStepMoves DEF ReplyInv, Step, Exchanging, Owns, Given
<1> QED
  BY <1>2, <1>4, <1>5, <1>6

\* What a request of client c that is just sent looks like.
Sends(c, m) ==
    /\ requests' = requests \cup {m} /\ UNCHANGED <<replies, socket>>
    /\ m.from = c /\ m.socket = socket[c]

LEMMA SendExchange ==
    ASSUME ExchangeInv, NEW c \in Clients, NEW m, Sends(c, m), UNCHANGED serverVars,
           Step(c, {"id", "updatePort"}), ~Exchanging(c), Exchanging(c)',
           Nobody(c)' = Nobody(c),
           client'[c].app \in {"joining", "running", "leaving", "leaveSent"},
           client'[c].app = "leaveSent" => client'[c].loop \in {"off", "exited"},
           client'[c].app = "joining" => client'[c].loop = "off",
           m.port = JoinPort <=> client'[c].app = "joining",
           m.port = JoinPort => m.req.token = c,
           m.port # JoinPort => m.req.id = client[c].id
    PROVE  ExchangeInv'
<1> USE DEF ExchangeInv
<1>1. UNCHANGED <<slot, inbox, nextId, clients, retired, finished, doomed, phase, joinThread,
                  watchdog>>
  BY DEF serverVars, slotVars, rosterVars, threadVars
<1>2. ShapeInv' /\ ServerInv'
  BY <1>1 DEF Sends, ShapeInv, ServerInv, Step, LiveSlots, Given, Serving
<1>3. client'[c].id = client[c].id /\ client'[c].updatePort = client[c].updatePort
  BY DEF Step
<1>4. \A d \in Clients \ {c} : client'[d] = client[d]
  BY DEF Step
<1>5. IdInv'
  BY <1>1, <1>3, <1>4 DEF IdInv, Nobody, Owns, Given
<1>6. \A n \in requests : n.from \in Clients
  BY DEF RequestInv
<1>7. RequestInv'
  <2>1. ASSUME NEW n \in requests
        PROVE  /\ n.port = JoinPort => n.req.token = n.from
               /\ n.port # JoinPort => n.req.id = client'[n.from].id /\ ~Nobody(n.from)'
    BY <1>3, <1>4, <1>6 DEF RequestInv, Nobody
  <2>2. m.port # JoinPort => ~Nobody(c)'
    BY DEF Nobody, IdInv
  <2> QED
    BY <1>3, <1>6, <2>1, <2>2 DEF Sends, RequestInv
<1>8. \A n \in requests : n.from = c => ~Current(n)
  BY <1>6 DEF CurrentInv
<1>9. replies[c] = NoReply
  BY DEF ReplyInv
<1>10. CurrentInv'
  <2>1. \A n \in requests : Current(n)' = Current(n)
    BY DEF Sends, Current
  <2>2. ASSUME NEW n \in requests, Current(n)
        PROVE  /\ n.from # c /\ Exchanging(n.from)' /\ replies'[n.from] = NoReply
               /\ n.port = JoinPort <=> client'[n.from].app = "joining"
    BY <1>4, <1>6, <1>8, <2>2 DEF CurrentInv, Exchanging, Sends
  <2> QED
    BY <1>9, <2>1, <2>2 DEF CurrentInv, Sends
<1>11. ReplyInv'
  BY <1>1, <1>4, <1>9 DEF ReplyInv, Sends, Exchanging, Owns, Given
<1> QED
  BY <1>2, <1>5, <1>7, <1>10, <1>11

LEMMA CallsExchange ==
    ASSUME ExchangeInv, NEW c \in Clients, CallJoin(c) \/ CallUpdate(c) \/ CallLeave(c)
    PROVE  ExchangeInv'
<1> USE DEF ExchangeInv
<1>0. Ports \cap {JoinPort} = {}
  OBVIOUS
<1>1. CASE CallJoin(c)
  <2> DEFINE m == [from |-> c, socket |-> socket[c], port |-> JoinPort, req |-> [token |-> c]]
  <2>1. Sends(c, m) /\ UNCHANGED serverVars /\ m.port = JoinPort /\ m.req.token = c
    BY <1>1 DEF CallJoin, SendRequest, Sends
  <2>2. client[c].app = "new" /\ Goes(c, "joining", client[c].loop) /\ Step(c, Links \cup Views)
    BY <1>1, BeginEffects DEF CallJoin
  <2> HIDE DEF m
  <2> QED
    BY <2>1, <2>2, SendExchange DEF Goes, Step, Links, IdInv, Exchanging, Nobody
<1>2. CASE CallUpdate(c)
  <2> DEFINE m == [from |-> c, socket |-> socket[c], port |-> client[c].updatePort,
                   req |-> Request(c, "Update", client[c].pendingState)]
  <2>1. /\ Sends(c, m) /\ UNCHANGED serverVars /\ m.port = client[c].updatePort
        /\ m.req.id = client[c].id
    BY <1>2 DEF CallUpdate, SendRequest, Sends, Request, UpdateRequest
  <2>2. /\ client[c].loop = "ready" /\ Goes(c, client[c].app, "exchange")
        /\ Step(c, Links \cup Views) /\ client[c].app \in {"running"}
    BY <1>2, BeginEffects DEF CallUpdate, IdInv, BeginUpdate, Stopping
  <2> HIDE DEF m
  <2> QED
    BY <1>0, <2>1, <2>2, SendExchange DEF Goes, Step, Links, IdInv, Exchanging, Nobody
<1>3. CASE CallLeave(c)
  <2> DEFINE m == [from |-> c, socket |-> socket[c], port |-> client[c].updatePort,
                   req |-> Request(c, "Leave", None)]
  <2>1. /\ Sends(c, m) /\ UNCHANGED serverVars /\ m.port = client[c].updatePort
        /\ m.req.id = client[c].id
    BY <1>3 DEF CallLeave, SendRequest, Sends, Request, UpdateRequest
  <2>2. /\ client[c].app = "leaving" /\ client[c].loop \in {"off", "exited"}
        /\ Goes(c, "leaveSent", client[c].loop) /\ Step(c, Links \cup Views)
    BY <1>3, BeginEffects DEF CallLeave
  <2> HIDE DEF m
  <2> QED
    BY <1>0, <2>1, <2>2, SendExchange DEF Goes, Step, Links, IdInv, Exchanging, Nobody
<1> QED
  BY <1>1, <1>2, <1>3

\* What a reply, or none, makes of the exchange of client c.
Ends(c) ==
    /\ Step(c, {"id", "updatePort"})
    /\ \/ client[c].app = "joining" /\ Goes(c, "new", client[c].loop)
       \/ client[c].loop = "exchange" /\ Goes(c, client[c].app, "ready")
       \/ client[c].loop = "exchange" /\ Goes(c, client[c].app, "exited")
       \/ client[c].app = "leaveSent" /\ Goes(c, "left", client[c].loop)

LEMMA ReplyEnds ==
    ASSUME ShapeInv, NEW c \in Clients, NEW reply, ReceiveReply(c, reply)
    PROVE  JoinOk(c, reply) \/ Ends(c)
<1>1. CASE UpdateOk(c, reply)
  BY <1>1, UpdateOkEffects DEF Ends, Absorbs, Absorbed, Step
<1>2. CASE LeaveOk(c, reply)
  BY <1>2, LeaveOkEffects DEF Ends, Absorbs, Absorbed, Step
<1>3. CASE JoinFails(c) \/ UpdateDropped(c, reply) \/ UpdateFails(c) \/ LeaveFails(c)
  BY <1>3, EndEffects DEF Ends, Step, Links
<1> QED
  BY <1>1, <1>2, <1>3 DEF ReceiveReply

LEMMA TimeoutEnds ==
    ASSUME ShapeInv, NEW c \in Clients, NoReplyInTime(c)
    PROVE  Ends(c) /\ Step(c, Links \cup Views)
BY EndEffects DEF NoReplyInTime, Ends, Step, Links

LEMMA EndExchange ==
    ASSUME ExchangeInv, NEW c \in Clients, Ends(c), UNCHANGED serverVars,
           requests' \subseteq requests, DOMAIN replies' = Clients, DOMAIN socket' = Clients,
           \A d \in Clients \ {c} : replies'[d] = replies[d] /\ socket'[d] = socket[d],
           \A m \in requests' : m.from = c => m.socket # socket'[c],
           replies'[c] = NoReply
    PROVE  ExchangeInv'
<1> USE DEF ExchangeInv
<1>1. UNCHANGED <<slot, inbox, nextId, clients, retired, finished, doomed, phase, joinThread,
                  watchdog>>
  BY DEF serverVars, slotVars, rosterVars, threadVars
<1>2. ShapeInv' /\ ServerInv'
  BY <1>1 DEF Ends, ShapeInv, ServerInv, Step, LiveSlots, Given, Serving
<1>3. /\ client'[c].id = client[c].id /\ client'[c].updatePort = client[c].updatePort
      /\ \A d \in Clients \ {c} : client'[d] = client[d]
  BY DEF Step, Ends
<1>4. Nobody(c)' = Nobody(c)
  BY DEF Ends, Goes, IdInv, Nobody
<1>5. IdInv'
  BY <1>1, <1>3, <1>4 DEF IdInv, Ends, Goes, Nobody, Owns, Given
<1>6. RequestInv'
  BY <1>3, <1>4 DEF RequestInv, Nobody
<1>7. \A m \in requests' : Current(m)' => Current(m) /\ m.from # c
  BY DEF Current, RequestInv
<1>8. CurrentInv'
  BY <1>3, <1>7 DEF CurrentInv, RequestInv, Exchanging
<1>9. ReplyInv'
  BY <1>1, <1>3 DEF ReplyInv, Exchanging, Owns, Given
<1> QED
  BY <1>2, <1>5, <1>6, <1>8, <1>9

LEMMA TakeReplyExchange ==
    ASSUME ExchangeInv, NEW c \in Clients, TakeReply(c)
    PROVE  ExchangeInv'
<1> USE DEF ExchangeInv
<1> DEFINE reply == replies[c]
<1>1. /\ reply # NoReply /\ ReceiveReply(c, reply)
      /\ replies' = [replies EXCEPT ![c] = NoReply]
      /\ UNCHANGED <<requests, socket, serverVars>>
  BY DEF TakeReply
<1>2. \A m \in requests : m.from = c => m.socket # socket[c]
  BY <1>1 DEF CurrentInv, Current
<1>3. CASE Ends(c)
  BY <1>1, <1>2, <1>3, EndExchange DEF ShapeInv
<1>4. CASE JoinOk(c, reply)
  <2>1. /\ client[c].app = "joining" /\ reply.status = "Ok"
        /\ Goes(c, "joined", client[c].loop)
        /\ client'[c].id = reply.id /\ client'[c].updatePort = reply.updatePort
        /\ Step(c, {})
    BY <1>4, JoinOkEffects DEF Step
  <2>2. Owns(c, reply.id) /\ reply.updatePort \in Ports
    BY <1>1, <2>1 DEF ReplyInv
  <2> HIDE DEF reply
  <2>3. UNCHANGED <<slot, inbox, nextId, clients, retired, finished, doomed, phase, joinThread,
                    watchdog>>
    BY <1>1 DEF serverVars, slotVars, rosterVars, threadVars
  <2>4. ShapeInv' /\ ServerInv'
    BY <1>1, <2>1, <2>3 DEF ShapeInv, ServerInv, Step, LiveSlots, Given, Serving
  <2>5. \A d \in Clients \ {c} : client'[d] = client[d]
    BY <2>1 DEF Step
  <2>6. IdInv'
    BY <2>1, <2>2, <2>3, <2>5 DEF IdInv, Goes, Nobody, Owns, Given
  <2>7. RequestInv'
    BY <1>1, <2>1, <2>5 DEF RequestInv, Nobody
  <2>8. CurrentInv'
    BY <1>1, <1>2, <2>5 DEF CurrentInv, RequestInv, Exchanging, Current, ShapeInv
  <2>9. ReplyInv'
    BY <1>1, <2>3, <2>5 DEF ReplyInv, Exchanging, Owns, Given, ShapeInv
  <2> QED
    BY <2>4, <2>6, <2>7, <2>8, <2>9
<1> QED
  BY <1>1, <1>3, <1>4, ReplyEnds

LEMMA TimeoutExchange ==
    ASSUME ExchangeInv, NEW c \in Clients, Timeout(c)
    PROVE  ExchangeInv'
<1> USE DEF ExchangeInv
<1>1. PICK k \in NewSockets(c) :
        /\ socket' = [socket EXCEPT ![c] = k]
        /\ requests' = {m \in requests : ~(m.from = c /\ m.socket = k)}
        /\ replies' = [replies EXCEPT ![c] = NoReply]
  BY DEF Timeout, Reconnect
<1>2. Ends(c) /\ UNCHANGED serverVars
  BY TimeoutEnds DEF Timeout
<1> QED
  BY <1>1, <1>2, EndExchange DEF ShapeInv

LEMMA ServeExchange ==
    ASSUME ExchangeInv, NEW m \in requests, NEW reply, Reply(m, reply), UNCHANGED client,
           ShapeInv', ServerInv', \A c, id : Owns(c, id) => Owns(c, id)',
           client[m.from].app = "joining" /\ Current(m) /\ reply.status = "Ok" =>
              /\ reply.id \in Given' /\ slot'[reply.id].token = m.from
              /\ reply.updatePort \in Ports
    PROVE  ExchangeInv'
<1> USE DEF ExchangeInv
<1>1. IdInv' /\ RequestInv'
  BY DEF IdInv, RequestInv, Reply, Nobody
<1>2. \A d \in Clients : replies'[d] = IF d = m.from /\ Current(m) THEN reply ELSE replies[d]
  BY DEF Reply, Current, ShapeInv, RequestInv
<1>3. CurrentInv'
  <2>1. ASSUME NEW n \in requests', Current(n)'
        PROVE  /\ Exchanging(n.from)' /\ replies'[n.from] = NoReply
               /\ n.port = JoinPort <=> client'[n.from].app = "joining"
    BY <1>2, <2>1 DEF CurrentInv, RequestInv, Reply, Current, Exchanging
  <2> QED
    BY <2>1 DEF CurrentInv, Reply, Current
<1>4. ReplyInv'
  <2>1. ASSUME NEW d \in Clients, replies'[d] # NoReply
        PROVE  /\ Exchanging(d)'
               /\ client'[d].app = "joining" /\ replies'[d].status = "Ok" =>
                     /\ replies'[d].id \in Given' /\ slot'[replies'[d].id].token = d
                     /\ replies'[d].updatePort \in Ports
    <3>1. CASE d = m.from /\ Current(m)
      BY <1>2, <3>1 DEF CurrentInv, Exchanging
    <3>2. CASE ~(d = m.from /\ Current(m))
      <4>1. replies'[d] = replies[d]
        BY <1>2, <3>2
      <4> QED
        BY <2>1, <4>1 DEF ReplyInv, Exchanging, Owns, Given
    <3> QED
      BY <3>1, <3>2
  <2> QED
    BY <2>1 DEF ReplyInv, Owns
<1> QED
  BY <1>1, <1>3, <1>4

LEMMA ServeJoinExchange ==
    ASSUME ExchangeInv, NEW m \in requests, ServeJoin(m)
    PROVE  ExchangeInv'
<1> USE DEF ExchangeInv
<1>1. PICK status, id, port :
        /\ HandleJoin(m.req.token, JoinReply(status, id, port))
        /\ Reply(m, JoinReply(status, id, port))
  BY DEF ServeJoin
<1> DEFINE reply == JoinReply(status, id, port)
<1>2. /\ HandleJoin(m.req.token, reply) /\ Reply(m, reply) /\ m.port = JoinPort
      /\ UNCHANGED client /\ m.req.token = m.from /\ DOMAIN replies' = Clients
  BY <1>1 DEF ServeJoin, RequestInv, Reply, ShapeInv
<1> HIDE DEF reply
<1>3. CASE HandleNewJoin(m.req.token, reply)
  <2>1. /\ nextId \in Ids /\ SlotStep({nextId}, {})
        /\ reply = JoinReply("Ok", nextId, slot'[nextId].port) /\ slot'[nextId].port \in Ports
    <3>1. Joins(m.req.token, reply)
      BY <1>3, NewJoinEffects
    <3> QED
      BY <3>1 DEF Joins
  <2>2. /\ ServerInv' /\ nextId \in Given' /\ slot'[nextId].token = m.req.token
        /\ \A c, i : Owns(c, i) => Owns(c, i)'
    BY <1>2, <1>3, JoinKeepsNames DEF HandleJoin
  <2>3. ShapeInv'
    BY <1>2, <2>1 DEF ShapeInv, SlotStep, Reply
  <2>4. reply.id = nextId /\ reply.updatePort = slot'[nextId].port
    BY <2>1 DEF JoinReply
  <2>5. slot'[reply.id].token = m.from
    BY <1>2, <2>2, <2>4
  <2> QED
    BY <1>2, <2>1, <2>2, <2>3, <2>4, <2>5, ServeExchange
<1>4. CASE HandleKnownJoin(m.req.token, reply) \/ HandleRefusedJoin(m.req.token, reply)
  <2>1. UNCHANGED <<slot, inbox, nextId, clients, retired, finished, doomed, phase, joinThread,
                    watchdog>>
    BY <1>4 DEF HandleKnownJoin, HandleRefusedJoin, serverVars, slotVars, rosterVars, threadVars
  <2>2. ShapeInv' /\ ServerInv' /\ \A c, i : Owns(c, i) => Owns(c, i)'
    BY <1>2, <2>1 DEF ShapeInv, ServerInv, LiveSlots, Given, Serving, Owns, Reply
  <2>3. reply.status = "Ok" => Owns(m.from, reply.id) /\ reply.updatePort \in Ports
    BY <1>2, <1>4
    DEF HandleKnownJoin, HandleRefusedJoin, JoinReply, Owns, ServerInv, LiveSlots
  <2>4. reply.status = "Ok" => reply.id \in Given' /\ slot'[reply.id].token = m.from
    BY <2>1, <2>3 DEF Owns, Given
  <2> QED
    BY <1>2, <2>2, <2>3, <2>4, ServeExchange
<1> QED
  BY <1>2, <1>3, <1>4 DEF HandleJoin

\* A request reaches the handler of a slot only by the slot's port.
LEMMA ServeUpdateCase ==
    ASSUME ExchangeInv, NEW m \in requests, ServeUpdate(m)
    PROVE  \E id \in Given \cap Ids :
              /\ id \in LiveSlots /\ HandleUpdate(id, m.req)
              /\ Reply(m, UpdateAnswer(id, m.req)) /\ UNCHANGED client
              /\ m.port # JoinPort /\ m.req.id = client[m.from].id /\ ~Nobody(m.from)
<1>1. PICK id \in LiveSlots :
        slot[id].port = m.port /\ HandleUpdate(id, m.req) /\ Reply(m, UpdateAnswer(id, m.req))
  BY DEF ServeUpdate
<1>2. id \in Given /\ id \in Ids /\ slot[id].port \in Ports
  BY DEF ExchangeInv, ServerInv, Given, Ids
<1>3. m.port # JoinPort
  BY <1>1, <1>2
<1> QED
  BY <1>1, <1>2, <1>3 DEF ServeUpdate, ExchangeInv, RequestInv

\* What an update may leave of the server.
LEMMA UpdateKeepsNames ==
    ASSUME ShapeInv, ServerInv, NEW id \in Ids, NEW req, HandleUpdate(id, req)
    PROVE  ServerInv' /\ SlotStep({id}, Names) /\ \A c, i : Owns(c, i) => Owns(c, i)'
<1>1. ReceiveUpdate(id, req) => SlotStep({id}, Names)
  BY ReceiveEffects DEF SlotStep
<1>2. UNCHANGED <<slot, inbox>> => SlotStep({id}, Names)
  BY DEF ShapeInv, SlotStep
<1>3. SlotStep({id}, Names)
  BY <1>1, <1>2, HandleUpdateEffects DEF Accepts
<1>4. UNCHANGED threadVars /\ nextId' = nextId /\ LiveSlots' \subseteq LiveSlots
  BY HandleUpdateEffects
<1>5. clients' \subseteq clients
  BY HandleUpdateEffects DEF Retires
<1> QED
  BY <1>3, <1>4, <1>5, NamesKept DEF SlotStep, ServerInv, Serving, threadVars

LEMMA ServeUpdateExchange ==
    ASSUME ExchangeInv, NEW m \in requests, ServeUpdate(m)
    PROVE  ExchangeInv'
<1> USE DEF ExchangeInv
<1>1. PICK id \in Given \cap Ids :
        /\ HandleUpdate(id, m.req) /\ Reply(m, UpdateAnswer(id, m.req)) /\ UNCHANGED client
        /\ m.port # JoinPort /\ ~Nobody(m.from)
  BY ServeUpdateCase
<1>2. ServerInv' /\ SlotStep({id}, Names) /\ \A c, i : Owns(c, i) => Owns(c, i)'
  BY <1>1, UpdateKeepsNames
<1>3. ShapeInv'
  BY <1>1, <1>2 DEF ShapeInv, SlotStep, Reply
<1> QED
  BY <1>1, <1>2, <1>3, ServeExchange DEF Nobody

LEMMA NextExchange == ASSUME ExchangeInv, [Next]_vars PROVE ExchangeInv'
<1>1. CASE UNCHANGED vars
  BY <1>1 DEF vars, serverVars, slotVars, rosterVars, threadVars, networkVars, ExchangeInv,
              ShapeInv, ServerInv, IdInv, RequestInv, CurrentInv, ReplyInv, LiveSlots, Given,
              Serving, Nobody, Owns, Exchanging, Current
<1>2. CASE Next
  BY <1>2, ServerStepExchange, ClientStepExchange, CallsExchange, TakeReplyExchange,
     TimeoutExchange, ServeJoinExchange, ServeUpdateExchange DEF Next, Serve
<1> QED
  BY <1>1, <1>2

LEMMA ExchangeAlways == Spec => []ExchangeInv
<1>1. Init => ExchangeInv
  BY InitExchange
<1>2. ExchangeInv /\ [Next]_vars => ExchangeInv'
  BY NextExchange
<1> QED
  BY <1>1, <1>2, PTL DEF Spec

\* Whatever was lost, late or misdirected, and however often ports were reused, an id
\* that a client was given names that client's slot on the server (handleJoin).
THEOREM IdsName == Spec => []IdNamesOwnSlot
<1>1. ExchangeInv => IdNamesOwnSlot
  BY DEF ExchangeInv, IdInv, Nobody, Owns, IdNamesOwnSlot
<1> QED
  BY <1>1, ExchangeAlways, PTL

\* A request takes nobody but its sender out of the roster, however late it is handled
\* and whoever has its port by then (the guard on req.id in handleUpdate).
THEOREM LeaversLeave == Spec => OnlyLeaversLeave
<1> DEFINE Leavers == \A m \in requests \ requests' : clients \ clients' \subseteq {client[m.from].id}
<1>1. ASSUME ExchangeInv, Next PROVE Leavers
  <2>1. CASE UNCHANGED networkVars
    BY <2>1 DEF networkVars
  <2>2. ASSUME NEW c \in Clients,
               CallJoin(c) \/ CallUpdate(c) \/ CallLeave(c) \/ TakeReply(c) \/ Timeout(c)
        PROVE  UNCHANGED clients
    BY <2>2 DEF CallJoin, CallUpdate, CallLeave, TakeReply, Timeout, serverVars, rosterVars
  <2>3. ASSUME NEW m \in requests, ServeJoin(m) PROVE clients \subseteq clients'
    BY <2>3 DEF ServeJoin, HandleJoin, HandleKnownJoin, HandleRefusedJoin, HandleNewJoin,
                serverVars, rosterVars
  <2>4. ASSUME NEW m \in requests, ServeUpdate(m) PROVE Leavers
    <3>1. PICK id \in Given \cap Ids :
            /\ HandleUpdate(id, m.req) /\ Reply(m, UpdateAnswer(id, m.req))
            /\ m.req.id = client[m.from].id
      BY <1>1, <2>4, ServeUpdateCase
    <3>2. requests \ requests' \subseteq {m}
      BY <3>1 DEF Reply
    <3>3. clients \ clients' \subseteq {m.req.id}
      BY <3>1, HandleUpdateEffects DEF Retires, Accepts
    <3> QED
      BY <3>1, <3>2, <3>3
  <2> QED
    BY <1>1, <2>1, <2>2, <2>3, <2>4 DEF Next, Serve
<1>2. ExchangeInv /\ [Next]_vars => [Leavers]_vars
  BY <1>1
<1> QED
  BY <1>2, ExchangeAlways, PTL DEF Spec, OnlyLeaversLeave

-----------------------------------------------------------------------------
(***************************************************************************)
(* The operators of the protocol on streams and runs.                      *)
(***************************************************************************)
LEMMA StreamSeqs ==
    ASSUME NEW who, NEW low \in Nat, NEW high \in Nat, NEW m \in Stream(who, low, high)
    PROVE  m.seq \in (low + 1)..high /\ m.seq \in Nat
BY DEF Stream, WireMessage

LEMMA StreamHas ==
    ASSUME NEW who, NEW low \in Nat, NEW high \in Nat, NEW n \in Nat
    PROVE  HasSeq(Stream(who, low, high), n) <=> n \in (low + 1)..high
<1> DEFINE S == Stream(who, low, high)
           m == WireMessage(n, <<who, n>>)
<1>1. n \in (low + 1)..high => m \in S /\ m.seq = n
  BY DEF Stream, WireMessage
<1>2. \A k \in S : k.seq \in (low + 1)..high
  BY StreamSeqs
<1> HIDE DEF S, m
<1>3. HasSeq(S, n) <=> n \in (low + 1)..high
  BY <1>1, <1>2 DEF HasSeq
<1> QED
  BY <1>3 DEF S

LEMMA StreamUnacked ==
    ASSUME NEW who, NEW low \in Nat, NEW high \in Nat, NEW ack \in Nat
    PROVE  Unacked(Stream(who, low, high), ack)
              = Stream(who, IF ack > low THEN ack ELSE low, high)
<1>1. ASSUME NEW m \in Stream(who, low, high), m.seq > ack
      PROVE  m \in Stream(who, IF ack > low THEN ack ELSE low, high)
  BY <1>1 DEF Stream, WireMessage
<1>2. ASSUME NEW m \in Stream(who, IF ack > low THEN ack ELSE low, high)
      PROVE  m \in Stream(who, low, high) /\ m.seq > ack
  BY DEF Stream, WireMessage
<1> QED
  BY <1>1, <1>2 DEF Unacked

\* How far a stream takes a receiver that has all up to number last.
Top(last, high) == IF high > last THEN high ELSE last

LEMMA StreamLast ==
    ASSUME NEW who, NEW last \in Nat, NEW low \in 0..last, NEW high \in Nat
    PROVE  LastInOrder(last, Stream(who, low, high)) = Top(last, high)
<1> DEFINE S == Stream(who, low, high)
           seqs == {last} \cup {m.seq : m \in S}
<1>1. \A n \in Nat : HasSeq(S, n) <=> n \in (low + 1)..high
  BY StreamHas
<1>2. seqs \subseteq Nat /\ (high > low => high \in seqs)
  <2>1. \A m \in S : m.seq \in (low + 1)..high
    BY StreamSeqs
  <2>2. high > low => \E m \in S : m.seq = high
    BY <1>1 DEF HasSeq
  <2> HIDE DEF S
  <2> QED
    BY <2>1, <2>2
<1>3. Top(last, high) \in seqs
  BY <1>2 DEF Top
<1> HIDE DEF seqs, S
<1>4. InOrderUpTo(last, S, Top(last, high))
  BY <1>1 DEF InOrderUpTo, Top
<1>5. ASSUME NEW n \in Nat, InOrderUpTo(last, S, n) PROVE n = Top(last, high)
  <2>1. n >= last /\ (\A k \in (last + 1)..n : k \in (low + 1)..high)
        /\ n + 1 \notin (low + 1)..high
    BY <1>1, <1>5 DEF InOrderUpTo
  <2>2. n >= high
    BY <2>1
  <2>3. n > last => n <= high
    BY <2>1
  <2> QED
    BY <2>1, <2>2, <2>3 DEF Top
<1>6. LastInOrder(last, S) = CHOOSE n \in seqs : InOrderUpTo(last, S, n)
  BY DEF LastInOrder, seqs
<1>7. (CHOOSE n \in seqs : InOrderUpTo(last, S, n)) = Top(last, high)
  BY <1>2, <1>3, <1>4, <1>5
<1> QED
  BY <1>6, <1>7 DEF S

LEMMA StreamInOrder ==
    ASSUME NEW who, NEW last \in Nat, NEW low \in 0..last, NEW high \in Nat
    PROVE  InOrder(last, Stream(who, low, high))
              = [i \in 1..(Top(last, high) - last) |-> <<who, last + i>>]
<1> DEFINE S == Stream(who, low, high)
           Pick(i) == CHOOSE m \in S : m.seq = last + i
<1>1. ASSUME NEW i \in 1..(Top(last, high) - last) PROVE Pick(i).body = <<who, last + i>>
  <2>1. last + i \in (low + 1)..high /\ last + i \in Nat
    BY DEF Top
  <2>2. HasSeq(S, last + i)
    BY <2>1, StreamHas
  <2>3. \A m \in S : m.body = <<who, m.seq>>
    BY DEF Stream, WireMessage
  <2> HIDE DEF S
  <2> QED
    BY <2>2, <2>3 DEF HasSeq
<1>2. LastInOrder(last, S) = Top(last, high)
  BY StreamLast
<1>3. InOrder(last, S) = [i \in 1..(LastInOrder(last, S) - last) |-> Pick(i).body]
  BY Zenon DEF InOrder
<1> HIDE DEF S, Pick
<1>4. InOrder(last, S) = [i \in 1..(Top(last, high) - last) |-> <<who, last + i>>]
  BY <1>1, <1>2, <1>3
<1> QED
  BY <1>4 DEF S

\* The messages after number last, up to number next, as they are accepted.
Delivered(who, last, next) == [i \in 1..(next - last) |-> <<who, last + i>>]

LEMMA DeliveredIsRun ==
    ASSUME NEW who, NEW last \in Nat, NEW next \in Nat, next >= last
    PROVE  Delivered(who, last, next) = Run(who, next, next - last)
<1>1. next - (next - last) = last
  OBVIOUS
<1> QED
  BY <1>1 DEF Delivered, Run

LEMMA RunAppend ==
    ASSUME NEW who, NEW last \in Nat, NEW n \in Nat, NEW next \in Nat, next >= last
    PROVE  Run(who, last, n) \o Delivered(who, last, next) = Run(who, next, n + next - last)
<1> DEFINE S == {who} \X Int
           a == Run(who, last, n)
           b == Run(who, next, next - last)
           whole == Run(who, next, n + next - last)
<1>1. next - last \in Nat /\ n + next - last \in Nat
  OBVIOUS
<1>2. a \in Seq(S) /\ Len(a) = n /\ \A i \in 1..n : a[i] = <<who, last - n + i>>
  BY DEF Run
<1>3. /\ b \in Seq(S) /\ Len(b) = next - last
      /\ \A i \in 1..(next - last) : b[i] = <<who, last + i>>
  BY <1>1 DEF Run
<1>4. /\ whole \in Seq(S) /\ Len(whole) = n + next - last
      /\ \A i \in 1..(n + next - last) : whole[i] = <<who, last - n + i>>
  BY <1>1 DEF Run
<1> HIDE DEF S, a, b, whole
<1>5. /\ a \o b \in Seq(S) /\ Len(a \o b) = Len(a) + Len(b)
      /\ \A i \in 1..Len(a) + Len(b) : (a \o b)[i] = IF i <= Len(a) THEN a[i] ELSE b[i - Len(a)]
  BY <1>2, <1>3, ConcatProperties, Zenon
<1>6. ASSUME NEW i \in 1..Len(a \o b) PROVE (a \o b)[i] = whole[i]
  <2>1. i \in 1..(n + next - last) /\ (a \o b)[i] = IF i <= n THEN a[i] ELSE b[i - n]
    BY <1>1, <1>2, <1>3, <1>5
  <2>2. whole[i] = <<who, last - n + i>>
    BY <1>4, <2>1
  <2>3. CASE i <= n
    BY <1>2, <2>1, <2>2, <2>3
  <2>4. CASE i > n
    <3>1. i - n \in 1..(next - last) /\ last + (i - n) = last - n + i
      BY <2>1, <2>4
    <3> QED
      BY <1>3, <2>1, <2>2, <2>4, <3>1
  <2> QED
    BY <2>1, <2>3, <2>4
<1>7. Len(a \o b) = Len(whole)
  BY <1>1, <1>2, <1>3, <1>4, <1>5
<1>8. a \o b = whole
  BY <1>4, <1>5, <1>6, <1>7, SeqEqual
<1> QED
  BY <1>8, DeliveredIsRun DEF a, b, whole

-----------------------------------------------------------------------------
(***************************************************************************)
(* What a step may do to the messages of one sender, who has sent number   *)
(* sent: nothing, one more is sent, some arrive, or all that wait are      *)
(* taken.  Everything a channel promises is in it.                         *)
(***************************************************************************)
Hop(who, sent, last, queue, sent2, last2, queue2) ==
    \/ sent2 = sent /\ last2 = last /\ queue2 = queue
    \/ sent2 \in Nat /\ sent2 > sent /\ last2 = last /\ queue2 = queue
    \/ /\ sent2 = sent /\ last2 \in last..sent
       /\ queue2 = queue \o Delivered(who, last, last2)
    \/ sent2 = sent /\ last2 = last /\ queue2 = <<>>

LEMMA HopSends ==
    ASSUME NEW who, NEW sent \in Nat, NEW last, NEW queue
    PROVE  Hop(who, sent, last, queue, sent + 1, last, queue)
BY DEF Hop

LEMMA RunHop ==
    ASSUME NEW who, NEW sent \in Nat, NEW last \in 0..sent, NEW queue, IsRun(queue, who, last),
           NEW sent2, NEW last2, NEW queue2, Hop(who, sent, last, queue, sent2, last2, queue2)
    PROVE  IsRun(queue2, who, last2) /\ sent2 \in Nat /\ last2 \in last..sent2 /\ sent2 >= sent
<1>1. PICK n \in 0..last : queue = Run(who, last, n)
  BY DEF IsRun
<1>2. sent2 \in Nat /\ last2 \in last..sent2 /\ sent2 >= sent
  BY DEF Hop
<1>3. CASE last2 = last /\ queue2 = queue
  BY <1>2, <1>3
<1>4. CASE last2 \in last..sent /\ queue2 = queue \o Delivered(who, last, last2)
  <2>0. n \in Nat /\ last \in Nat /\ last2 \in Nat /\ last2 >= last
    BY <1>4
  <2>1. queue2 = Run(who, last2, n + last2 - last)
    <3>1. Run(who, last, n) \o Delivered(who, last, last2) = Run(who, last2, n + last2 - last)
      BY <2>0, RunAppend, ZenonT(40)
    <3> QED
      BY <1>1, <1>4, <3>1, Zenon
  <2>2. n + last2 - last \in 0..last2
    BY <1>4
  <2> QED
    BY <1>2, <2>1, <2>2 DEF IsRun
<1>5. CASE last2 = last /\ queue2 = <<>>
  <2>1. queue2 = Run(who, last2, 0)
    BY <1>5 DEF Run
  <2> QED
    BY <1>2, <1>5, <2>1 DEF IsRun
<1> QED
  BY <1>2, <1>3, <1>4, <1>5 DEF Hop

LEMMA StreamGrows ==
    ASSUME NEW who, NEW last \in Nat, NEW last2 \in Nat, last2 >= last, NEW high \in Nat,
           NEW messages, IsStream(messages, who, last, high)
    PROVE  IsStream(messages, who, last2, high)
BY DEF IsStream

\* What is acknowledged is popped; the acknowledgement is of what was received.
LEMMA StreamPops ==
    ASSUME NEW who, NEW last \in Nat, NEW high \in Nat, NEW messages,
           IsStream(messages, who, last, high), NEW ack \in 0..last
    PROVE  IsStream(Unacked(messages, ack), who, last, high)
<1>1. PICK low \in 0..last : messages = Stream(who, low, high)
  BY DEF IsStream
<1>2. Unacked(messages, ack) = Stream(who, IF ack > low THEN ack ELSE low, high)
  BY <1>1, StreamUnacked
<1>3. (IF ack > low THEN ack ELSE low) \in 0..last
  OBVIOUS
<1> QED
  BY <1>2, <1>3 DEF IsStream

\* The next message is sent.
LEMMA StreamPushes ==
    ASSUME NEW who, NEW last \in Nat, NEW high \in Nat, last <= high, NEW messages,
           IsStream(messages, who, last, high)
    PROVE  IsStream(messages \cup {WireMessage(high + 1, <<who, high + 1>>)}, who, last, high + 1)
<1>1. PICK low \in 0..last : messages = Stream(who, low, high)
  BY DEF IsStream
<1>2. (low + 1)..(high + 1) = ((low + 1)..high) \cup {high + 1}
  OBVIOUS
<1>3. messages \cup {WireMessage(high + 1, <<who, high + 1>>)} = Stream(who, low, high + 1)
  BY <1>1, <1>2, Zenon DEF Stream
<1> QED
  BY <1>3 DEF IsStream

\* What a receiver makes of a list of messages on its way to it.
LEMMA StreamArrives ==
    ASSUME NEW who, NEW sent \in Nat, NEW last \in 0..sent, NEW high \in 0..sent, NEW messages,
           IsStream(messages, who, last, high), NEW queue
    PROVE  Hop(who, sent, last, queue, sent, LastInOrder(last, messages),
               queue \o InOrder(last, messages))
<1>1. PICK low \in 0..last : messages = Stream(who, low, high)
  BY DEF IsStream
<1>2. LastInOrder(last, messages) = Top(last, high) /\ Top(last, high) \in last..sent
  BY <1>1, StreamLast DEF Top
<1>3. InOrder(last, messages) = Delivered(who, last, Top(last, high))
  BY <1>1, StreamInOrder DEF Delivered
<1> QED
  BY <1>2, <1>3 DEF Hop

-----------------------------------------------------------------------------
(***************************************************************************)
(* The link between a client and its slot, one end's step at a time.       *)
(***************************************************************************)
\* Both directions of a link at once.
Hops(c, me, it, queue, me2, it2, queue2) ==
    /\ Hop(c, me.sent, it.lastReceivedSeq, queue, me2.sent, it2.lastReceivedSeq, queue2)
    /\ Hop(me.id, it.sent, me.lastReceivedSeq, me.inbox,
           it2.sent, me2.lastReceivedSeq, me2.inbox)

LinkStep(c, me, it, queue, me2, it2, queue2) ==
    Link(c, me2, it2, queue2) /\ Hops(c, me, it, queue, me2, it2, queue2)

LEMMA LinkStays ==
    ASSUME NEW c, NEW me, NEW it, NEW queue, Link(c, me, it, queue),
           NEW now, \A f \in Links : now[f] = me[f]
    PROVE  LinkStep(c, me, it, queue, now, it, queue)
BY DEF Links, Link, Hop, Hops, LinkStep

LEMMA PushedStream ==
    ASSUME NEW who, NEW me, NEW now, Pushed(who, me, now), me.nextSendSeq = me.sent + 1,
           NEW last \in 0..me.sent, me.sent \in Nat, IsStream(me.outbox, who, last, me.sent)
    PROVE  /\ IsStream(now.outbox, who, last, now.sent)
           /\ now.sent = me.sent + 1 /\ now.nextSendSeq = now.sent + 1
<1>1. last \in Nat /\ last <= me.sent
  OBVIOUS
<1>2. IsStream(me.outbox \cup {WireMessage(me.sent + 1, <<who, me.sent + 1>>)}, who, last,
               me.sent + 1)
  BY <1>1, StreamPushes, Zenon
<1>3. now.sent = me.sent + 1 /\ now.nextSendSeq = now.sent + 1
  BY DEF Pushed
<1>4. now.outbox = me.outbox \cup {WireMessage(me.sent + 1, <<who, me.sent + 1>>)}
  BY Zenon DEF Pushed
<1> QED
  BY <1>2, <1>3, <1>4, Zenon

LEMMA LinkClientSends ==
    ASSUME NEW c, NEW me, NEW it, NEW queue, Link(c, me, it, queue), NEW now, Pushed(c, me, now),
           now.id = me.id, now.lastReceivedSeq = me.lastReceivedSeq, now.inbox = me.inbox
    PROVE  LinkStep(c, me, it, queue, now, it, queue)
<1>1. /\ IsStream(now.outbox, c, it.lastReceivedSeq, now.sent)
      /\ now.sent = me.sent + 1 /\ now.nextSendSeq = now.sent + 1
  BY PushedStream DEF Link
<1> QED
  BY <1>1 DEF Link, Hop, Hops, LinkStep

LEMMA LinkServerSends ==
    ASSUME NEW c, NEW me, NEW it, NEW queue, Link(c, me, it, queue),
           NEW now, Pushed(me.id, it, now), now.lastReceivedSeq = it.lastReceivedSeq
    PROVE  LinkStep(c, me, it, queue, me, now, queue)
<1>1. /\ IsStream(now.outbox, me.id, me.lastReceivedSeq, now.sent)
      /\ now.sent = it.sent + 1 /\ now.nextSendSeq = now.sent + 1
  BY PushedStream DEF Link
<1>2. Hops(c, me, it, queue, me, now, queue)
  <2>1. Hop(me.id, it.sent, me.lastReceivedSeq, me.inbox, now.sent, me.lastReceivedSeq, me.inbox)
    BY <1>1, HopSends DEF Link
  <2>2. Hop(c, me.sent, it.lastReceivedSeq, queue, me.sent, now.lastReceivedSeq, queue)
    BY DEF Hop
  <2> QED
    BY <2>1, <2>2 DEF Hops
<1>3. now.sent \in Nat /\ me.lastReceivedSeq \in 0..now.sent
  BY <1>1 DEF Link
<1> QED
  BY <1>1, <1>2, <1>3 DEF Link, LinkStep

LEMMA LinkClientTakes ==
    ASSUME NEW c, NEW me, NEW it, NEW queue, Link(c, me, it, queue),
           NEW now, \A f \in Links \ {"inbox"} : now[f] = me[f], now.inbox = <<>>
    PROVE  LinkStep(c, me, it, queue, now, it, queue)
<1>1. Hops(c, me, it, queue, now, it, queue)
  BY DEF Links, Hop, Hops
<1>2. IsRun(now.inbox, me.id, me.lastReceivedSeq)
  BY <1>1, RunHop DEF Hops, Link, Links
<1> QED
  BY <1>1, <1>2 DEF Links, Link, LinkStep

LEMMA LinkServerTakes ==
    ASSUME NEW c, NEW me, NEW it, NEW queue, Link(c, me, it, queue)
    PROVE  LinkStep(c, me, it, queue, me, it, <<>>)
<1>1. Hops(c, me, it, queue, me, it, <<>>)
  BY DEF Hop, Hops
<1>2. IsRun(<<>>, c, it.lastReceivedSeq)
  BY <1>1, RunHop DEF Hops, Link
<1> QED
  BY <1>1, <1>2 DEF Link, LinkStep

LEMMA LinkClientHears ==
    ASSUME NEW c, NEW me, NEW it, NEW queue, Link(c, me, it, queue),
           NEW reply, GoodReply(c, me, it, reply), NEW now, Absorbed(now, me, reply)
    PROVE  LinkStep(c, me, it, queue, now, it, queue)
<1>1. PICK high \in 0..it.sent : IsStream(reply.messages, me.id, me.lastReceivedSeq, high)
  BY DEF GoodReply
<1>2. Hop(me.id, it.sent, me.lastReceivedSeq, me.inbox,
          it.sent, now.lastReceivedSeq, now.inbox)
  BY <1>1, StreamArrives, Zenon DEF Link, Absorbed
<1>3. /\ IsRun(now.inbox, me.id, now.lastReceivedSeq)
      /\ now.lastReceivedSeq \in me.lastReceivedSeq..it.sent
  BY <1>2, RunHop DEF Link
<1>4. IsStream(now.outbox, c, it.lastReceivedSeq, me.sent)
  BY StreamPops DEF Link, GoodReply, Absorbed
<1>5. IsStream(it.outbox, me.id, now.lastReceivedSeq, it.sent)
  BY <1>3, StreamGrows DEF Link
<1>6. Hop(c, me.sent, it.lastReceivedSeq, queue, now.sent, it.lastReceivedSeq, queue)
  BY DEF Absorbed, Hop
<1> QED
  BY <1>2, <1>3, <1>4, <1>5, <1>6 DEF Link, Hops, LinkStep, Absorbed

LEMMA LinkServerHears ==
    ASSUME NEW c, NEW me, NEW it, NEW queue, Link(c, me, it, queue),
           NEW req, GoodRequest(c, me, it, req),
           NEW now, now.sent = it.sent, now.nextSendSeq = it.nextSendSeq,
           now.lastReceivedSeq = LastInOrder(it.lastReceivedSeq, req.messages),
           now.outbox = Unacked(it.outbox, req.ackSeq)
    PROVE  LinkStep(c, me, it, queue, me, now,
                    queue \o InOrder(it.lastReceivedSeq, req.messages))
<1> DEFINE queue2 == queue \o InOrder(it.lastReceivedSeq, req.messages)
<1>1. PICK high \in 0..me.sent : IsStream(req.messages, c, it.lastReceivedSeq, high)
  BY DEF GoodRequest
<1>2. Hop(c, me.sent, it.lastReceivedSeq, queue, me.sent, now.lastReceivedSeq, queue2)
  BY <1>1, StreamArrives, Zenon DEF Link
<1> HIDE DEF queue2
<1>3. /\ IsRun(queue2, c, now.lastReceivedSeq)
      /\ now.lastReceivedSeq \in it.lastReceivedSeq..me.sent
  BY <1>2, RunHop DEF Link
<1>4. IsStream(now.outbox, me.id, me.lastReceivedSeq, it.sent)
  BY StreamPops DEF Link, GoodRequest
<1>5. IsStream(me.outbox, c, now.lastReceivedSeq, me.sent)
  BY <1>3, StreamGrows DEF Link
<1>6. Hop(me.id, it.sent, me.lastReceivedSeq, me.inbox, now.sent, me.lastReceivedSeq, me.inbox)
  BY DEF Hop
<1>7. LinkStep(c, me, it, queue, me, now, queue2)
  BY <1>2, <1>3, <1>4, <1>5, <1>6 DEF Link, Hops, LinkStep
<1> QED
  BY <1>7 DEF queue2

-----------------------------------------------------------------------------
(***************************************************************************)
(* Every step is, for each client, a step of its link.                     *)
(***************************************************************************)
LinkKept(c) ==
    LinkStep(c, client[c], ServerSlot(c), ServerInbox(c),
             client'[c], ServerSlot(c)', ServerInbox(c)')

Wired == (\A c \in Clients : LinkKept(c)) /\ SlotInv'

\* The ids of clients are ids; a nobody has none.
LEMMA IdsHere ==
    ASSUME ExchangeInv, NEW c \in Clients
    PROVE  /\ Nobody(c) => client[c].id = ServerId
           /\ ~Nobody(c) => /\ client[c].id \in Ids /\ client[c].id # ServerId
                            /\ client[c].id \in Given /\ slot[client[c].id].token = c
BY DEF ExchangeInv, IdInv, ServerInv, Owns, Given, Ids

LEMMA ClientWired ==
    ASSUME LinkInv, SlotInv, NEW c \in Clients, Step(c, {"id"}), UNCHANGED <<slot, inbox>>,
           LinkStep(c, client[c], ServerSlot(c), ServerInbox(c),
                    client'[c], ServerSlot(c), ServerInbox(c))
    PROVE  Wired
<1>1. \A d \in Clients : client'[d].id = client[d].id
  BY DEF Step
<1>2. \A d \in Clients : ServerSlot(d)' = ServerSlot(d) /\ ServerInbox(d)' = ServerInbox(d)
  BY <1>1, Zenon DEF ServerSlot, ServerInbox
<1>3. \A d \in Clients : client'[d] = client[d] \/ d = c
  BY DEF Step
<1>4. ASSUME NEW d \in Clients PROVE LinkKept(d)
  <2>1. CASE d = c
    BY <1>2, <2>1, Zenon DEF LinkKept
  <2>2. CASE client'[d] = client[d]
    <3>1. Link(d, client[d], ServerSlot(d), ServerInbox(d))
      BY DEF LinkInv
    <3>2. \A f \in Links : client'[d][f] = client[d][f]
      BY <2>2
    <3> QED
      BY <1>2, <3>1, <3>2, LinkStays, Zenon DEF LinkKept
  <2> QED
    BY <1>3, <2>1, <2>2
<1>5. SlotInv'
  BY <1>1 DEF SlotInv
<1> QED
  BY <1>4, <1>5 DEF Wired

LEMMA NothingWired ==
    ASSUME LinkInv, SlotInv, NEW c \in Clients, Step(c, Links), UNCHANGED <<slot, inbox>>
    PROVE  Wired
<1>1. \A f \in Links : client'[c][f] = client[c][f]
  BY DEF Step
<1>2. LinkStep(c, client[c], ServerSlot(c), ServerInbox(c),
               client'[c], ServerSlot(c), ServerInbox(c))
  BY <1>1, LinkStays, Zenon DEF LinkInv
<1>3. Step(c, {"id"})
  BY DEF Step, Links
<1> QED
  BY <1>2, <1>3, ClientWired

LEMMA ClientStepWired ==
    ASSUME ExchangeInv, LinkInv, SlotInv, NEW c \in Clients, ClientStep(c),
           UNCHANGED <<slot, inbox>>
    PROVE  Wired
<1>0. ShapeInv
  BY DEF ExchangeInv
<1>1. CASE StartUpdates(c) \/ LoopExit(c) \/ SubmitScene(c) \/ ApplySnapshot(c) \/ Leave(c)
           \/ ClientDrainRoster(c)
  <2>1. Step(c, Links)
    BY <1>0, <1>1, CallEffects, DataEffects DEF Step
  <2> QED
    BY <2>1, NothingWired
<1>2. CASE ClientSend(c)
  <2>1. Step(c, Views \cup {"id", "updatePort", "lastReceivedSeq", "inbox"})
        /\ Pushed(c, client[c], client'[c])
    BY <1>0, <1>2, DataEffects
  <2>2. Step(c, {"id"}) /\ client'[c].id = client[c].id
        /\ client'[c].lastReceivedSeq = client[c].lastReceivedSeq
        /\ client'[c].inbox = client[c].inbox
    BY <2>1 DEF Step
  <2>3. LinkStep(c, client[c], ServerSlot(c), ServerInbox(c),
                 client'[c], ServerSlot(c), ServerInbox(c))
    BY <2>1, <2>2, LinkClientSends, Zenon DEF LinkInv
  <2> QED
    BY <2>2, <2>3, ClientWired
<1>3. CASE ClientDrainMessages(c)
  <2>1. Step(c, Views \cup (Links \ {"inbox"})) /\ client'[c].inbox = <<>>
    BY <1>0, <1>3, DataEffects
  <2>2. Step(c, {"id"}) /\ \A f \in Links \ {"inbox"} : client'[c][f] = client[c][f]
    BY <2>1 DEF Step, Links
  <2>3. LinkStep(c, client[c], ServerSlot(c), ServerInbox(c),
                 client'[c], ServerSlot(c), ServerInbox(c))
    BY <2>1, <2>2, LinkClientTakes, Zenon DEF LinkInv
  <2> QED
    BY <2>2, <2>3, ClientWired
<1> QED
  BY <1>1, <1>2, <1>3 DEF ClientStep

LEMMA AbsorbWired ==
    ASSUME LinkInv, SlotInv, NEW c \in Clients, NEW reply, Absorbs(c, reply),
           GoodReply(c, client[c], ServerSlot(c), reply), UNCHANGED <<slot, inbox>>
    PROVE  Wired
<1>1. LinkStep(c, client[c], ServerSlot(c), ServerInbox(c),
               client'[c], ServerSlot(c), ServerInbox(c))
  BY LinkClientHears, Zenon DEF LinkInv, Absorbs
<1>2. Step(c, {"id"})
  BY DEF Absorbs, Absorbed, Step
<1> QED
  BY <1>1, <1>2, ClientWired

\* A client finds its slot as it left it: whatever was sent before is still to come.
LEMMA LinkJoins ==
    ASSUME NEW c, NEW me, Link(c, me, NewSlot(c, 0), <<>>),
           NEW id, NEW it, NEW queue, Fresh(id, it, queue),
           NEW now, now.id = id, \A f \in Links \ {"id", "updatePort"} : now[f] = me[f]
    PROVE  LinkStep(c, me, NewSlot(c, 0), <<>>, now, it, queue)
<1>1. NewSlot(c, 0).sent = 0 /\ NewSlot(c, 0).lastReceivedSeq = 0
  BY DEF NewSlot
<1>2. /\ me.lastReceivedSeq = 0 /\ me.sent \in Nat /\ me.nextSendSeq = me.sent + 1
      /\ IsStream(me.outbox, c, 0, me.sent) /\ IsRun(<<>>, c, 0)
      /\ IsRun(me.inbox, me.id, 0)
  BY <1>1 DEF Link
<1>3. me.inbox = <<>>
  <2>1. PICK n \in 0..0 : me.inbox = Run(me.id, 0, n)
    BY <1>2 DEF IsRun
  <2> QED
    BY <2>1 DEF Run
<1>4. IsRun(<<>>, id, 0)
  <2>1. Run(id, 0, 0) = <<>>
    BY DEF Run
  <2> QED
    BY <2>1 DEF IsRun
<1>5. IsStream(it.outbox, id, 0, it.sent)
  BY DEF Fresh, IsStream
<1>6. /\ now.lastReceivedSeq = 0 /\ now.inbox = <<>> /\ now.sent = me.sent
      /\ now.outbox = me.outbox /\ now.nextSendSeq = me.nextSendSeq
  BY <1>2, <1>3 DEF Links
<1>7. it.sent \in Nat /\ it.nextSendSeq = it.sent + 1 /\ it.lastReceivedSeq = 0 /\ queue = <<>>
  BY DEF Fresh
<1>8. Link(c, now, it, queue)
  BY <1>2, <1>4, <1>5, <1>6, <1>7 DEF Link
<1>9. Hops(c, me, NewSlot(c, 0), <<>>, now, it, queue)
  <2>1. Hop(c, me.sent, 0, <<>>, now.sent, 0, <<>>)
    BY <1>6 DEF Hop
  <2>2. Hop(me.id, 0, 0, <<>>, it.sent, 0, <<>>)
    BY <1>7 DEF Hop
  <2> QED
    BY <1>1, <1>2, <1>3, <1>6, <1>7, <2>1, <2>2, Zenon DEF Hops
<1> QED
  BY <1>8, <1>9 DEF LinkStep

LEMMA JoinOkWired ==
    ASSUME ExchangeInv, LinkInv, SlotInv, NEW c \in Clients, NEW reply, reply = replies[c],
           reply # NoReply, JoinOk(c, reply), UNCHANGED <<slot, inbox>>
    PROVE  Wired
<1>1. /\ client[c].app = "joining" /\ reply.status = "Ok" /\ client'[c].id = reply.id
      /\ Step(c, Views \cup (Links \ {"id", "updatePort"}))
  BY JoinOkEffects DEF ExchangeInv
<1>2. Owns(c, reply.id) /\ reply.id \in Ids /\ reply.id # ServerId
  BY <1>1 DEF ExchangeInv, ReplyInv, ServerInv, Owns, Given, Ids
<1>3. Nobody(c) /\ client[c].id = ServerId
  BY <1>1, IdsHere DEF Nobody
<1>4. \A d \in Clients : client[d].id # reply.id
  BY <1>2, <1>3, IdsHere DEF Owns
<1>5. Fresh(reply.id, slot[reply.id], inbox[reply.id])
  BY <1>2, <1>4 DEF SlotInv
<1>6. ServerSlot(c) = NewSlot(c, 0) /\ ServerInbox(c) = <<>>
  BY <1>3 DEF ServerSlot, ServerInbox
<1>7. ServerSlot(c)' = slot[reply.id] /\ ServerInbox(c)' = inbox[reply.id]
  BY <1>1, <1>2 DEF ServerSlot, ServerInbox
<1>8. \A f \in Links \ {"id", "updatePort"} : client'[c][f] = client[c][f]
  BY <1>1 DEF Step
<1>9. LinkKept(c)
  <2>1. Link(c, client[c], NewSlot(c, 0), <<>>)
    BY <1>6 DEF LinkInv
  <2>2. LinkStep(c, client[c], NewSlot(c, 0), <<>>,
                 client'[c], slot[reply.id], inbox[reply.id])
    BY <1>1, <1>5, <1>8, <2>1, LinkJoins, Zenon
  <2> QED
    BY <1>6, <1>7, <2>2, Zenon DEF LinkKept
<1>10. ASSUME NEW d \in Clients, d # c PROVE LinkKept(d) /\ client'[d].id = client[d].id
  <2>1. client'[d] = client[d]
    BY <1>1, <1>10 DEF Step
  <2>2. ServerSlot(d)' = ServerSlot(d) /\ ServerInbox(d)' = ServerInbox(d)
    BY <2>1, Zenon DEF ServerSlot, ServerInbox
  <2>3. Link(d, client[d], ServerSlot(d), ServerInbox(d))
    BY DEF LinkInv
  <2>4. \A f \in Links : client'[d][f] = client[d][f]
    BY <2>1
  <2> QED
    BY <2>1, <2>2, <2>3, <2>4, LinkStays, Zenon DEF LinkKept
<1>11. SlotInv'
  <2>1. ASSUME NEW id \in Ids, \A d \in Clients : client'[d].id # id
        PROVE  Fresh(id, slot'[id], inbox'[id])
    <3>1. \A d \in Clients : client[d].id # id
      BY <1>2, <1>3, <1>10, <2>1 DEF Ids
    <3> QED
      BY <3>1 DEF SlotInv
  <2> QED
    BY <2>1 DEF SlotInv
<1> QED
  BY <1>9, <1>10, <1>11 DEF Wired

\* The server's steps are told slot by slot.
SlotWired(id) ==
    \/ /\ \E c \in Clients : client[c].id = id
       /\ \A c \in Clients : client[c].id = id =>
             LinkStep(c, client[c], slot[id], inbox[id], client[c], slot'[id], inbox'[id])
    \/ /\ \A c \in Clients : client[c].id # id
       /\ Fresh(id, slot'[id], inbox'[id])

LEMMA ServerWired ==
    ASSUME ExchangeInv, LinkInv, UNCHANGED client, \A id \in Ids : SlotWired(id)
    PROVE  Wired
<1>1. ASSUME NEW c \in Clients PROVE LinkKept(c)
  <2>1. CASE client[c].id = ServerId
    <3>1. /\ ServerSlot(c) = NewSlot(c, 0) /\ ServerInbox(c) = <<>>
          /\ ServerSlot(c)' = NewSlot(c, 0) /\ ServerInbox(c)' = <<>>
      BY <2>1 DEF ServerSlot, ServerInbox
    <3>2. Link(c, client[c], ServerSlot(c), ServerInbox(c))
      BY DEF LinkInv
    <3>3. LinkStep(c, client[c], ServerSlot(c), ServerInbox(c),
                   client[c], ServerSlot(c), ServerInbox(c))
      BY <3>2, LinkStays, Zenon
    <3> QED
      BY <3>1, <3>3, Zenon DEF LinkKept
  <2>2. CASE client[c].id # ServerId
    <3>1. client[c].id \in Ids
      BY <2>2, IdsHere
    <3>2. /\ ServerSlot(c) = slot[client[c].id] /\ ServerInbox(c) = inbox[client[c].id]
          /\ ServerSlot(c)' = slot'[client[c].id] /\ ServerInbox(c)' = inbox'[client[c].id]
      BY <2>2 DEF ServerSlot, ServerInbox
    <3>3. SlotWired(client[c].id)
      BY <3>1
    <3>4. LinkStep(c, client[c], slot[client[c].id], inbox[client[c].id],
                   client[c], slot'[client[c].id], inbox'[client[c].id])
      BY <3>3, Zenon DEF SlotWired
    <3> QED
      BY <3>2, <3>4, Zenon DEF LinkKept
  <2> QED
    BY <2>1, <2>2
<1>2. SlotInv'
  <2>1. ASSUME NEW id \in Ids, \A c \in Clients : client'[c].id # id
        PROVE  Fresh(id, slot'[id], inbox'[id])
    BY <2>1, Zenon DEF SlotWired
  <2> QED
    BY <2>1 DEF SlotInv
<1> QED
  BY <1>1, <1>2 DEF Wired

LEMMA SlotLink ==
    ASSUME LinkInv, NEW c \in Clients, NEW id \in Ids, client[c].id = id
    PROVE  Link(c, client[c], slot[id], inbox[id])
<1>1. ServerSlot(c) = slot[id] /\ ServerInbox(c) = inbox[id]
  BY DEF ServerSlot, ServerInbox, Ids
<1> QED
  BY <1>1 DEF LinkInv

LEMMA SlotStill ==
    ASSUME LinkInv, SlotInv, NEW id \in Ids, slot'[id] = slot[id], inbox'[id] = inbox[id]
    PROVE  SlotWired(id)
<1>1. ASSUME NEW c \in Clients, client[c].id = id
      PROVE  LinkStep(c, client[c], slot[id], inbox[id], client[c], slot[id], inbox[id])
  BY <1>1, SlotLink, LinkStays, Zenon
<1> QED
  BY <1>1, Zenon DEF SlotWired, SlotInv

LEMMA SlotSends ==
    ASSUME LinkInv, SlotInv, NEW id \in Ids, Pushed(id, slot[id], slot'[id]),
           slot'[id].lastReceivedSeq = slot[id].lastReceivedSeq, inbox'[id] = inbox[id]
    PROVE  SlotWired(id)
<1>1. ASSUME NEW c \in Clients, client[c].id = id
      PROVE  LinkStep(c, client[c], slot[id], inbox[id], client[c], slot'[id], inbox'[id])
  <2>1. Link(c, client[c], slot[id], inbox[id])
    BY <1>1, SlotLink
  <2>2. Pushed(client[c].id, slot[id], slot'[id])
    BY <1>1
  <2> QED
    BY <2>1, <2>2, LinkServerSends, Zenon
<1>2. ASSUME Fresh(id, slot[id], inbox[id]) PROVE Fresh(id, slot'[id], inbox'[id])
  <2>1. /\ slot[id].sent \in Nat /\ slot[id].nextSendSeq = slot[id].sent + 1
        /\ slot[id].outbox = Stream(id, 0, slot[id].sent)
        /\ slot[id].lastReceivedSeq = 0 /\ inbox[id] = <<>>
    BY <1>2 DEF Fresh
  <2>2. slot'[id].sent = slot[id].sent + 1 /\ slot'[id].nextSendSeq = slot'[id].sent + 1
    BY <2>1 DEF Pushed
  <2>3. slot'[id].outbox = Stream(id, 0, slot[id].sent)
                              \cup {WireMessage(slot[id].sent + 1, <<id, slot[id].sent + 1>>)}
    BY <2>1, Zenon DEF Pushed
  <2>4. (0 + 1)..(slot[id].sent + 1) = ((0 + 1)..slot[id].sent) \cup {slot[id].sent + 1}
    BY <2>1
  <2>5. slot'[id].outbox = Stream(id, 0, slot'[id].sent)
    BY <2>2, <2>3, <2>4, Zenon DEF Stream
  <2> QED
    BY <2>1, <2>2, <2>5 DEF Fresh
<1> QED
  BY <1>1, <1>2, Zenon DEF SlotWired, SlotInv

LEMMA SlotTaken ==
    ASSUME LinkInv, SlotInv, NEW id \in Ids, slot'[id] = slot[id], inbox'[id] = <<>>
    PROVE  SlotWired(id)
<1>1. ASSUME NEW c \in Clients, client[c].id = id
      PROVE  LinkStep(c, client[c], slot[id], inbox[id], client[c], slot[id], <<>>)
  BY <1>1, SlotLink, LinkServerTakes, Zenon
<1>2. ASSUME Fresh(id, slot[id], inbox[id]) PROVE Fresh(id, slot'[id], inbox'[id])
  BY <1>2 DEF Fresh
<1> QED
  BY <1>1, <1>2, Zenon DEF SlotWired, SlotInv

LEMMA MessageStepWired ==
    ASSUME ExchangeInv, LinkInv, SlotInv, MessageStep, UNCHANGED client
    PROVE  Wired
<1>1. ASSUME NEW id \in Ids PROVE SlotWired(id)
  <2>1. CASE UNCHANGED <<slot, inbox>>
    BY <2>1, SlotStill
  <2>2. ASSUME NEW S, Enqueue(S), UNCHANGED inbox PROVE SlotWired(id)
    <3>1. SlotStep(S, Names \cup {"lastReceivedSeq"})
          /\ \A i \in S \cap Ids : Pushed(i, slot[i], slot'[i])
      BY <2>2, EnqueueEffects DEF ExchangeInv
    <3>2. CASE id \in S
      <4>1. Pushed(id, slot[id], slot'[id])
        BY <3>1, <3>2
      <4>2. slot'[id].lastReceivedSeq = slot[id].lastReceivedSeq
        BY <3>1 DEF SlotStep
      <4> QED
        BY <2>2, <4>1, <4>2, SlotSends
    <3>3. CASE id \notin S
      <4>1. slot'[id] = slot[id]
        BY <3>1, <3>3 DEF SlotStep
      <4> QED
        BY <2>2, <4>1, SlotStill
    <3> QED
      BY <3>2, <3>3
  <2>3. CASE slot' = slot /\ inbox' = [i \in Ids |-> <<>>]
    BY <2>3, SlotTaken
  <2> QED
    BY <2>1, <2>2, <2>3 DEF MessageStep
<1> QED
  BY <1>1, ServerWired

LEMMA ReceiveWired ==
    ASSUME ExchangeInv, LinkInv, SlotInv, UNCHANGED client, NEW c \in Clients, NEW req,
           NEW id \in Ids, client[c].id = id, ReceiveUpdate(id, req),
           GoodRequest(c, client[c], ServerSlot(c), req)
    PROVE  Wired
<1>1. /\ SlotStep({id}, Names \cup {"sent", "nextSendSeq"}) /\ Received(id, req)
      /\ \A other \in Ids \ {id} : inbox'[other] = inbox[other]
  BY ReceiveEffects, Zenon DEF ExchangeInv
<1>2. \A d \in Clients : client[d].id = id => d = c
  BY IdsHere DEF Ids
<1>3. LinkStep(c, client[c], slot[id], inbox[id], client[c], slot'[id], inbox'[id])
  <2>1. Link(c, client[c], slot[id], inbox[id])
    BY SlotLink
  <2>2. ServerSlot(c) = slot[id]
    BY DEF ServerSlot, Ids
  <2>3. slot'[id].sent = slot[id].sent /\ slot'[id].nextSendSeq = slot[id].nextSendSeq
    BY <1>1 DEF SlotStep
  <2> QED
    <3>1. /\ inbox'[id] = inbox[id] \o InOrder(slot[id].lastReceivedSeq, req.messages)
          /\ slot'[id].lastReceivedSeq = LastInOrder(slot[id].lastReceivedSeq, req.messages)
          /\ slot'[id].outbox = Unacked(slot[id].outbox, req.ackSeq)
      BY <1>1, Zenon DEF Received
    <3> QED
      BY <2>1, <2>2, <2>3, <3>1, LinkServerHears, ZenonT(40)
<1>4. SlotWired(id)
  BY <1>2, <1>3, Zenon DEF SlotWired
<1>5. ASSUME NEW other \in Ids, other # id PROVE SlotWired(other)
  <2>1. slot'[other] = slot[other] /\ inbox'[other] = inbox[other]
    BY <1>1, <1>5 DEF SlotStep
  <2> QED
    BY <2>1, SlotStill
<1> QED
  BY <1>4, <1>5, ServerWired

LEMMA NewJoinWired ==
    ASSUME ExchangeInv, LinkInv, SlotInv, UNCHANGED client,
           NEW token, NEW reply, HandleNewJoin(token, reply)
    PROVE  Wired
<1>1. Joins(token, reply)
  BY NewJoinEffects DEF ExchangeInv
<1>2. /\ nextId \in Ids /\ SlotStep({nextId}, {}) /\ UNCHANGED inbox
      /\ slot'[nextId] = NewSlot(token, slot'[nextId].port)
  BY <1>1 DEF Joins
<1>3. \A c \in Clients : client[c].id # nextId
  BY <1>2, IdsHere DEF Given, Ids
<1>4. Fresh(nextId, slot[nextId], inbox[nextId])
  BY <1>2, <1>3 DEF SlotInv
<1>5. Fresh(nextId, slot'[nextId], inbox'[nextId])
  <2>1. Stream(nextId, 0, 0) = {}
    BY DEF Stream
  <2> QED
    <3>1. /\ slot'[nextId].sent = 0
          /\ slot'[nextId].lastReceivedSeq = 0 /\ slot'[nextId].outbox = {}
          /\ slot'[nextId].nextSendSeq = slot'[nextId].sent + 1 /\ slot'[nextId].sent \in Nat
      BY <1>2 DEF NewSlot
    <3>2. inbox'[nextId] = <<>>
      BY <1>2, <1>4 DEF Fresh
    <3> QED
      BY <2>1, <3>1, <3>2, Zenon DEF Fresh
<1>6. ASSUME NEW id \in Ids PROVE SlotWired(id)
  <2>1. CASE id = nextId
    BY <1>3, <1>5, <2>1, Zenon DEF SlotWired
  <2>2. CASE id # nextId
    BY <1>2, <2>2, SlotStill DEF SlotStep
  <2> QED
    BY <2>1, <2>2
<1> QED
  BY <1>6, ServerWired

LEMMA TakeReplyWired ==
    ASSUME ExchangeInv, MessageInv, NEW c \in Clients, TakeReply(c)
    PROVE  Wired
<1> USE DEF MessageInv
<1> DEFINE reply == replies[c]
<1>1. /\ reply # NoReply /\ ReceiveReply(c, reply) /\ UNCHANGED <<slot, inbox>>
      /\ reply = replies[c]
  BY DEF TakeReply, serverVars, slotVars
<1> HIDE DEF reply
<1>2. CASE JoinOk(c, reply)
  BY <1>1, <1>2, JoinOkWired
<1>3. CASE UpdateOk(c, reply) \/ LeaveOk(c, reply)
  <2>1. Absorbs(c, reply) /\ reply.status = "Ok" /\ client[c].app # "joining"
    BY <1>3, UpdateOkEffects, LeaveOkEffects DEF ExchangeInv, IdInv
  <2>2. GoodReply(c, client[c], ServerSlot(c), reply)
    BY <1>1, <2>1 DEF TransitInv
  <2> QED
    BY <1>1, <2>1, <2>2, AbsorbWired
<1>4. CASE JoinFails(c) \/ UpdateDropped(c, reply) \/ UpdateFails(c) \/ LeaveFails(c)
  <2>1. Step(c, Links)
    BY <1>4, EndEffects DEF Step, ExchangeInv
  <2> QED
    BY <1>1, <2>1, NothingWired
<1> QED
  BY <1>1, <1>2, <1>3, <1>4 DEF ReceiveReply

LEMMA ServeUpdateWired ==
    ASSUME ExchangeInv, MessageInv, NEW m \in requests, ServeUpdate(m)
    PROVE  Wired
<1> USE DEF MessageInv
<1>1. PICK id \in Given \cap Ids :
        /\ HandleUpdate(id, m.req) /\ UNCHANGED client
        /\ m.port # JoinPort /\ m.req.id = client[m.from].id
  BY ServeUpdateCase
<1>2. m.from \in Clients /\ GoodRequest(m.from, client[m.from], ServerSlot(m.from), m.req)
  BY <1>1 DEF TransitInv, ExchangeInv, RequestInv
<1>3. CASE UNCHANGED <<slot, inbox>>
  <2>1. MessageStep
    BY <1>3 DEF MessageStep
  <2> QED
    BY <1>1, <2>1, MessageStepWired
<1>4. CASE Accepts(id, m.req)
  <2>1. client[m.from].id = id /\ ReceiveUpdate(id, m.req)
    BY <1>1, <1>4 DEF Accepts
  <2> QED
    BY <1>1, <1>2, <2>1, ReceiveWired
<1> QED
  BY <1>1, <1>3, <1>4, HandleUpdateEffects

LEMMA NextWired == ASSUME ExchangeInv, MessageInv, Next PROVE Wired
<1> USE DEF MessageInv
<1>1. CASE ServerStep /\ UNCHANGED client
  BY <1>1, ServerStepEffects, MessageStepWired DEF ExchangeInv
<1>2. ASSUME NEW c \in Clients, ClientStep(c), UNCHANGED serverVars PROVE Wired
  BY <1>2, ClientStepWired DEF serverVars, slotVars
<1>3. ASSUME NEW c \in Clients, CallJoin(c) \/ CallUpdate(c) \/ CallLeave(c) \/ Timeout(c)
      PROVE  Wired
  <2>1. Step(c, Links)
    BY <1>3, BeginEffects, TimeoutEnds
    DEF CallJoin, CallUpdate, CallLeave, Timeout, Step, ExchangeInv
  <2>2. UNCHANGED <<slot, inbox>>
    BY <1>3 DEF CallJoin, CallUpdate, CallLeave, Timeout, serverVars, slotVars
  <2> QED
    BY <2>1, <2>2, NothingWired
<1>4. ASSUME NEW m \in requests, ServeJoin(m) PROVE Wired
  <2>1. PICK reply : HandleJoin(m.req.token, reply) /\ UNCHANGED client
    BY <1>4 DEF ServeJoin
  <2>2. CASE HandleNewJoin(m.req.token, reply)
    BY <2>1, <2>2, NewJoinWired
  <2>3. CASE UNCHANGED serverVars
    <3>1. MessageStep
      BY <2>3 DEF MessageStep, serverVars, slotVars
    <3> QED
      BY <2>1, <3>1, MessageStepWired
  <2> QED
    BY <2>1, <2>2, <2>3 DEF HandleJoin, HandleKnownJoin, HandleRefusedJoin
<1> QED
  BY <1>1, <1>2, <1>3, <1>4, TakeReplyWired, ServeUpdateWired DEF Next, Serve, networkVars

-----------------------------------------------------------------------------
(***************************************************************************)
(* What is on its way stays good: either end only gets further.            *)
(***************************************************************************)
LEMMA LinkGrows ==
    ASSUME NEW c, NEW me, NEW it, NEW queue, Link(c, me, it, queue),
           NEW me2, NEW it2, NEW queue2, LinkStep(c, me, it, queue, me2, it2, queue2)
    PROVE  /\ me.sent \in Nat /\ me2.sent \in Nat /\ me2.sent >= me.sent
           /\ it.sent \in Nat /\ it2.sent \in Nat /\ it2.sent >= it.sent
           /\ it.lastReceivedSeq \in Nat /\ it2.lastReceivedSeq \in Nat
           /\ it2.lastReceivedSeq >= it.lastReceivedSeq
           /\ me.lastReceivedSeq \in Nat /\ me2.lastReceivedSeq \in Nat
           /\ me2.lastReceivedSeq >= me.lastReceivedSeq
<1>1. /\ Hop(c, me.sent, it.lastReceivedSeq, queue, me2.sent, it2.lastReceivedSeq, queue2)
      /\ Hop(me.id, it.sent, me.lastReceivedSeq, me.inbox,
             it2.sent, me2.lastReceivedSeq, me2.inbox)
  BY Zenon DEF LinkStep, Hops
<1>2. /\ me.sent \in Nat /\ it.lastReceivedSeq \in 0..me.sent /\ it.sent \in Nat
      /\ me.lastReceivedSeq \in 0..it.sent
      /\ IsRun(queue, c, it.lastReceivedSeq) /\ IsRun(me.inbox, me.id, me.lastReceivedSeq)
  BY DEF Link
<1>3. /\ me2.sent \in Nat /\ it2.lastReceivedSeq \in it.lastReceivedSeq..me2.sent
      /\ me2.sent >= me.sent
  BY <1>1, <1>2, RunHop
<1>4. /\ it2.sent \in Nat /\ me2.lastReceivedSeq \in me.lastReceivedSeq..it2.sent
      /\ it2.sent >= it.sent
  BY <1>1, <1>2, RunHop
<1> QED
  BY <1>2, <1>3, <1>4

LEMMA GoodRequestKept ==
    ASSUME NEW c, NEW me, NEW it, NEW queue, Link(c, me, it, queue),
           NEW me2, NEW it2, NEW queue2, LinkStep(c, me, it, queue, me2, it2, queue2),
           NEW req, GoodRequest(c, me, it, req)
    PROVE  GoodRequest(c, me2, it2, req)
<1>1. PICK high \in 0..me.sent : IsStream(req.messages, c, it.lastReceivedSeq, high)
  BY DEF GoodRequest
<1>2. high \in 0..me2.sent
  BY LinkGrows
<1>3. IsStream(req.messages, c, it2.lastReceivedSeq, high)
  BY <1>1, LinkGrows, StreamGrows
<1>4. req.ackSeq \in 0..me2.lastReceivedSeq
  BY LinkGrows DEF GoodRequest
<1> QED
  BY <1>2, <1>3, <1>4 DEF GoodRequest

LEMMA GoodReplyKept ==
    ASSUME NEW c, NEW me, NEW it, NEW queue, Link(c, me, it, queue),
           NEW me2, NEW it2, NEW queue2, LinkStep(c, me, it, queue, me2, it2, queue2),
           NEW reply, GoodReply(c, me, it, reply), me2.id = me.id
    PROVE  GoodReply(c, me2, it2, reply)
<1>1. PICK high \in 0..it.sent : IsStream(reply.messages, me.id, me.lastReceivedSeq, high)
  BY DEF GoodReply
<1>2. high \in 0..it2.sent
  BY LinkGrows
<1>3. IsStream(reply.messages, me2.id, me2.lastReceivedSeq, high)
  BY <1>1, LinkGrows, StreamGrows
<1>4. reply.ackSeq \in 0..it2.lastReceivedSeq
  BY LinkGrows DEF GoodReply
<1> QED
  BY <1>2, <1>3, <1>4 DEF GoodReply

FineRequest(m) ==
    m.port # JoinPort => GoodRequest(m.from, client[m.from], ServerSlot(m.from), m.req)

\* A reply that is no news, or good news.
FineReply(c) ==
    \/ replies'[c] = NoReply
    \/ /\ replies'[c] = replies[c] /\ client'[c].id = client[c].id
       /\ client[c].app = "joining" => client'[c].app = "joining"
    \/ client'[c].app = "joining"
    \/ replies'[c].status = "Ok" => GoodReply(c, client'[c], ServerSlot(c)', replies'[c])

LEMMA TransitKept ==
    ASSUME ExchangeInv, MessageInv, Wired,
           \A m \in requests' : m \in requests \/ FineRequest(m)',
           \A c \in Clients : FineReply(c)
    PROVE  MessageInv'
<1> USE DEF MessageInv
<1>1. \A c \in Clients : Link(c, client'[c], ServerSlot(c)', ServerInbox(c)')
  BY Zenon DEF Wired, LinkKept, LinkStep
<1>2. LinkInv' /\ SlotInv'
  BY <1>1 DEF LinkInv, Wired
<1>3. ASSUME NEW m \in requests', m.port # JoinPort
      PROVE  GoodRequest(m.from, client'[m.from], ServerSlot(m.from)', m.req)
  <2>1. CASE FineRequest(m)'
    BY <1>3, <2>1 DEF FineRequest
  <2>2. CASE m \in requests
    <3>1. m.from \in Clients
      BY <2>2 DEF ExchangeInv, RequestInv
    <3>2. GoodRequest(m.from, client[m.from], ServerSlot(m.from), m.req)
      BY <1>3, <2>2 DEF TransitInv
    <3>3. /\ Link(m.from, client[m.from], ServerSlot(m.from), ServerInbox(m.from))
          /\ LinkStep(m.from, client[m.from], ServerSlot(m.from), ServerInbox(m.from),
                      client'[m.from], ServerSlot(m.from)', ServerInbox(m.from)')
      BY <3>1, Zenon DEF LinkInv, Wired, LinkKept
    <3> QED
      BY <3>2, <3>3, GoodRequestKept, Zenon
  <2> QED
    BY <2>1, <2>2
<1>4. ASSUME NEW c \in Clients, replies'[c] # NoReply, replies'[c].status = "Ok",
             client'[c].app # "joining"
      PROVE  GoodReply(c, client'[c], ServerSlot(c)', replies'[c])
  <2>1. CASE GoodReply(c, client'[c], ServerSlot(c)', replies'[c])
    BY <2>1
  <2>2. CASE replies'[c] = replies[c] /\ client'[c].id = client[c].id /\ client[c].app # "joining"
    <3>1. GoodReply(c, client[c], ServerSlot(c), replies[c])
      BY <1>4, <2>2 DEF TransitInv
    <3>2. /\ Link(c, client[c], ServerSlot(c), ServerInbox(c))
          /\ LinkStep(c, client[c], ServerSlot(c), ServerInbox(c),
                      client'[c], ServerSlot(c)', ServerInbox(c)')
      BY Zenon DEF LinkInv, Wired, LinkKept
    <3> QED
      BY <2>2, <3>1, <3>2, GoodReplyKept, Zenon
  <2>3. FineReply(c)
    OBVIOUS
  <2> QED
    BY <1>4, <2>1, <2>2, <2>3 DEF FineReply
<1> QED
  BY <1>2, <1>3, <1>4 DEF TransitInv

LEMMA NewRequestFine ==
    ASSUME ExchangeInv, MessageInv, NEW c \in Clients, NEW kind, NEW state,
           Step(c, Links), UNCHANGED serverVars, NEW m, m.from = c,
           m.req = Request(c, kind, state)
    PROVE  FineRequest(m)'
<1>1. /\ client'[c].lastReceivedSeq = client[c].lastReceivedSeq
      /\ client'[c].sent = client[c].sent /\ client'[c].id = client[c].id
  BY DEF Step, Links
<1>2. ServerSlot(c)' = ServerSlot(c)
  BY <1>1 DEF ServerSlot, serverVars, slotVars
<1>3. m.req.ackSeq = client[c].lastReceivedSeq /\ m.req.messages = client[c].outbox
  BY DEF Request, UpdateRequest
<1>4. /\ client[c].sent \in Nat /\ client[c].lastReceivedSeq \in Nat
      /\ IsStream(client[c].outbox, c, ServerSlot(c).lastReceivedSeq, client[c].sent)
  BY DEF MessageInv, LinkInv, Link
<1>5. /\ m.req.ackSeq \in 0..client'[c].lastReceivedSeq
      /\ client'[c].sent \in 0..client'[c].sent
      /\ IsStream(m.req.messages, c, ServerSlot(c)'.lastReceivedSeq, client'[c].sent)
  BY <1>1, <1>2, <1>3, <1>4
<1>6. GoodRequest(c, client'[c], ServerSlot(c)', m.req)
  BY <1>5 DEF GoodRequest
<1> QED
  BY <1>6 DEF FineRequest

LEMMA ServeUpdateMessages ==
    ASSUME ExchangeInv, MessageInv, NEW m \in requests, ServeUpdate(m), Wired
    PROVE  MessageInv'
<1> DEFINE c == m.from
<1>1. PICK id \in Given \cap Ids :
        /\ HandleUpdate(id, m.req) /\ Reply(m, UpdateAnswer(id, m.req)) /\ UNCHANGED client
        /\ m.port # JoinPort /\ m.req.id = client[c].id
  BY ServeUpdateCase
<1>2. c \in Clients /\ requests' \subseteq requests /\ DOMAIN replies = Clients
  BY <1>1 DEF Reply, ExchangeInv, RequestInv, ShapeInv
<1>3. \A d \in Clients : d # c => replies'[d] = replies[d]
  BY <1>1, <1>2 DEF Reply
<1>4. replies'[c] = replies[c] \/ replies'[c] = UpdateAnswer(id, m.req)
  BY <1>1, <1>2 DEF Reply
<1>5. GoodRequest(c, client[c], ServerSlot(c), m.req)
  BY <1>1 DEF MessageInv, TransitInv
<1>6. ASSUME UpdateAnswer(id, m.req).status = "Ok"
      PROVE  GoodReply(c, client'[c], ServerSlot(c)', UpdateAnswer(id, m.req))
  <2>1. m.req.id = id /\ id \in clients
    BY <1>6 DEF UpdateAnswer, BareReply, UpdateReply
  <2>2. ReceiveUpdate(id, m.req)
    BY <1>1, <2>1, HandleUpdateEffects DEF Accepts
  <2>3. Received(id, m.req)
    BY <2>2, ReceiveEffects, Zenon DEF ExchangeInv
  <2>4. ServerSlot(c) = slot[id] /\ ServerSlot(c)' = slot'[id] /\ client'[c] = client[c]
    BY <1>1, <2>1 DEF ServerSlot, Ids
  <2>5. /\ UpdateAnswer(id, m.req).ackSeq = LastInOrder(slot[id].lastReceivedSeq, m.req.messages)
        /\ UpdateAnswer(id, m.req).messages = Unacked(slot[id].outbox, m.req.ackSeq)
    BY <2>1 DEF UpdateAnswer, UpdateReply
  <2>6. /\ UpdateAnswer(id, m.req).ackSeq = slot'[id].lastReceivedSeq
        /\ UpdateAnswer(id, m.req).messages = slot'[id].outbox
    BY <2>3, <2>5, Zenon DEF Received
  <2>7. Link(c, client'[c], ServerSlot(c)', ServerInbox(c)')
    BY <1>2, Zenon DEF Wired, LinkKept, LinkStep
  <2>8. /\ slot'[id].lastReceivedSeq \in 0..slot'[id].lastReceivedSeq
        /\ slot'[id].sent \in 0..slot'[id].sent
        /\ IsStream(slot'[id].outbox, client[c].id, client[c].lastReceivedSeq, slot'[id].sent)
    BY <2>4, <2>7 DEF Link
  <2> QED
    BY <2>4, <2>6, <2>8 DEF GoodReply
<1> HIDE DEF c
<1>7. \A d \in Clients : FineReply(d)
  BY <1>1, <1>3, <1>4, <1>6 DEF FineReply
<1> QED
  BY <1>2, <1>7, TransitKept

LEMMA NextMessages == ASSUME ExchangeInv, MessageInv, Next PROVE MessageInv'
<1>0. Wired
  BY NextWired
<1>1. CASE UNCHANGED <<client, networkVars>>
  <2>1. requests' = requests /\ \A c \in Clients : FineReply(c)
    BY <1>1 DEF FineReply, networkVars
  <2> QED
    BY <1>0, <2>1, TransitKept
<1>2. ASSUME NEW c \in Clients, ClientStep(c), UNCHANGED networkVars PROVE MessageInv'
  <2>1. requests' = requests /\ replies' = replies
    BY <1>2 DEF networkVars
  <2>2. /\ client[c].app = "joining" => client'[c].app = "joining"
        /\ client'[c].id = client[c].id /\ \A d \in Clients \ {c} : client'[d] = client[d]
    BY <1>2, ClientStepMoves DEF ExchangeInv, IdInv, Goes, Step
  <2>3. \A d \in Clients : FineReply(d)
    BY <2>1, <2>2 DEF FineReply
  <2> QED
    BY <1>0, <2>1, <2>3, TransitKept
<1>3. ASSUME NEW c \in Clients, CallJoin(c) PROVE MessageInv'
  <2>1. client[c].app = "new" /\ Goes(c, "joining", client[c].loop) /\ Step(c, Links \cup Views)
    BY <1>3, BeginEffects DEF CallJoin, ExchangeInv
  <2>2. replies' = replies /\ \A m \in requests' : m \in requests \/ m.port = JoinPort
    BY <1>3 DEF CallJoin, SendRequest
  <2>3. \A d \in Clients : FineReply(d)
    BY <2>1, <2>2 DEF FineReply, Goes, Step
  <2>4. \A m \in requests' : m \in requests \/ FineRequest(m)'
    BY <2>2 DEF FineRequest
  <2> QED
    BY <1>0, <2>3, <2>4, TransitKept
<1>4. ASSUME NEW c \in Clients, NEW port, NEW kind, NEW state, Step(c, Links \cup Views),
             client'[c].app # "joining" \/ client[c].app = "joining", UNCHANGED serverVars,
             client[c].app = "joining" => client'[c].app = "joining",
             NEW req, req = Request(c, kind, state), SendRequest(c, port, req)
      PROVE  MessageInv'
  <2>1. replies' = replies /\ \A m \in requests' : m \in requests \/ (m.from = c /\ m.req = req)
    BY <1>4 DEF SendRequest
  <2>2. client'[c].id = client[c].id /\ \A d \in Clients \ {c} : client'[d] = client[d]
    BY <1>4 DEF Step, Links
  <2>3. \A d \in Clients : FineReply(d)
    BY <1>4, <2>1, <2>2 DEF FineReply
  <2>4. Step(c, Links)
    BY <1>4 DEF Step
  <2>5. \A m \in requests' : m \in requests \/ FineRequest(m)'
    BY <1>4, <2>1, <2>4, NewRequestFine
  <2> QED
    BY <1>0, <2>3, <2>5, TransitKept
<1>5. ASSUME NEW c \in Clients, CallUpdate(c) \/ CallLeave(c) PROVE MessageInv'
  <2>1. Step(c, Links \cup Views) /\ client[c].app # "joining" /\ client'[c].app # "joining"
    BY <1>5, BeginEffects DEF CallUpdate, CallLeave, ExchangeInv, IdInv, Goes
  <2> QED
    BY <1>4, <1>5, <2>1 DEF CallUpdate, CallLeave
<1>6. ASSUME NEW c \in Clients, TakeReply(c) \/ Timeout(c) PROVE MessageInv'
  <2>1. /\ requests' \subseteq requests /\ replies' = [replies EXCEPT ![c] = NoReply]
        /\ DOMAIN replies = Clients
    BY <1>6 DEF TakeReply, Timeout, Reconnect, ExchangeInv, ShapeInv
  <2>2. \A d \in Clients \ {c} : client'[d] = client[d]
    BY <1>6, ReplyEnds, TimeoutEnds, JoinOkEffects
    DEF TakeReply, Timeout, Ends, Step, ExchangeInv
  <2>3. \A d \in Clients : FineReply(d)
    BY <2>1, <2>2 DEF FineReply
  <2> QED
    BY <1>0, <2>1, <2>3, TransitKept
<1>7. ASSUME NEW m \in requests, ServeJoin(m) PROVE MessageInv'
  <2>1. PICK reply : Reply(m, reply) /\ UNCHANGED client /\ m.port = JoinPort
    BY <1>7 DEF ServeJoin
  <2>2. m.from \in Clients /\ requests' \subseteq requests /\ DOMAIN replies = Clients
    BY <2>1 DEF Reply, ExchangeInv, RequestInv, ShapeInv
  <2>3. Current(m) => client'[m.from].app = "joining"
    BY <2>1 DEF ExchangeInv, CurrentInv
  <2>4. \A d \in Clients : replies'[d] = replies[d] \/ (d = m.from /\ Current(m))
    <3>1. (replies' = [replies EXCEPT ![m.from] = reply] /\ Current(m)) \/ replies' = replies
      BY <2>1 DEF Reply, Current
    <3> QED
      BY <2>2, <3>1
  <2>5. \A d \in Clients : FineReply(d)
    BY <2>1, <2>3, <2>4 DEF FineReply
  <2> QED
    BY <1>0, <2>2, <2>5, TransitKept
<1> QED
  BY <1>0, <1>1, <1>2, <1>3, <1>5, <1>6, <1>7, ServeUpdateMessages DEF Next, Serve

LEMMA InitMessages == ASSUME Init PROVE MessageInv
<1> USE DEF Init, ServerInit, ClientInit
<1>1. \A who : Stream(who, 0, 0) = {} /\ Run(who, 0, 0) = <<>>
  BY DEF Stream, Run
<1>2. \A who : IsStream({}, who, 0, 0) /\ IsRun(<<>>, who, 0)
  <2>1. 0 \in 0..0
    OBVIOUS
  <2> QED
    BY <1>1, <2>1, Zenon DEF IsStream, IsRun
<1>3. ASSUME NEW c \in Clients PROVE Link(c, client[c], ServerSlot(c), ServerInbox(c))
  <2>1. /\ client[c].sent = 0 /\ client[c].nextSendSeq = 1 /\ client[c].lastReceivedSeq = 0
        /\ client[c].outbox = {} /\ client[c].inbox = <<>> /\ client[c].id = ServerId
    BY DEF NewClient
  <2>2. ServerSlot(c) = NewSlot(c, 0) /\ ServerInbox(c) = <<>>
    BY <2>1 DEF ServerSlot, ServerInbox
  <2>3. /\ ServerSlot(c).sent = 0 /\ ServerSlot(c).nextSendSeq = 1
        /\ ServerSlot(c).lastReceivedSeq = 0 /\ ServerSlot(c).outbox = {}
    BY <2>2 DEF NewSlot
  <2>4. /\ IsStream(client[c].outbox, c, 0, 0) /\ IsStream(ServerSlot(c).outbox, client[c].id, 0, 0)
        /\ IsRun(ServerInbox(c), c, 0) /\ IsRun(client[c].inbox, client[c].id, 0)
    BY <1>2, <2>1, <2>2, <2>3, Zenon
  <2> QED
    BY <2>1, <2>3, <2>4 DEF Link
<1>4. ASSUME NEW id \in Ids PROVE Fresh(id, slot[id], inbox[id])
  <2>1. /\ slot[id].sent = 0 /\ slot[id].nextSendSeq = 1
        /\ slot[id].lastReceivedSeq = 0 /\ slot[id].outbox = {} /\ inbox[id] = <<>>
    BY DEF NewSlot
  <2>2. Stream(id, 0, 0) = {}
    BY <1>1, Zenon
  <2>3. slot[id].sent \in Nat /\ slot[id].nextSendSeq = slot[id].sent + 1
    BY <2>1
  <2>4. slot[id].outbox = Stream(id, 0, slot[id].sent)
    BY <2>1, <2>2, Zenon
  <2> QED
    BY <2>1, <2>3, <2>4, Zenon DEF Fresh
<1>5. TransitInv
  BY DEF TransitInv
<1> QED
  BY <1>3, <1>4, <1>5 DEF MessageInv, LinkInv, SlotInv

\* When nothing changes, every link makes no step.
LEMMA StillWired == ASSUME MessageInv, UNCHANGED vars PROVE Wired /\ MessageInv'
<1>1. UNCHANGED <<slot, inbox, client, requests, replies>>
  BY DEF vars, serverVars, slotVars, networkVars
<1>2. ASSUME NEW c \in Clients PROVE LinkKept(c)
  <2>1. ServerSlot(c)' = ServerSlot(c) /\ ServerInbox(c)' = ServerInbox(c)
    BY <1>1, Zenon DEF ServerSlot, ServerInbox
  <2>2. Link(c, client[c], ServerSlot(c), ServerInbox(c)) /\ client'[c] = client[c]
    BY <1>1 DEF MessageInv, LinkInv
  <2> QED
    BY <2>1, <2>2, LinkStays, Zenon DEF LinkKept
<1>3. MessageInv'
  BY <1>1 DEF MessageInv, LinkInv, SlotInv, TransitInv, ServerSlot, ServerInbox
<1> QED
  BY <1>2, <1>3 DEF Wired, MessageInv

LEMMA MessagesAlways == Spec => []MessageInv
<1>1. Init => MessageInv
  BY InitMessages
<1>2. ExchangeInv /\ MessageInv /\ [Next]_vars => MessageInv'
  BY NextMessages, StillWired
<1> QED
  BY <1>1, <1>2, ExchangeAlways, PTL DEF Spec

LEMMA StreamKeeps ==
    ASSUME NEW who, NEW last \in Nat, NEW high \in Nat, NEW messages,
           IsStream(messages, who, last, high), NEW n \in 1..high
    PROVE  (\E m \in messages : m.body = <<who, n>>) \/ n <= last
<1>1. PICK low \in 0..last : messages = Stream(who, low, high)
  BY DEF IsStream
<1>2. n > low => WireMessage(n, <<who, n>>) \in messages
  BY <1>1 DEF Stream
<1>3. WireMessage(n, <<who, n>>).body = <<who, n>>
  BY DEF WireMessage
<1> QED
  BY <1>2, <1>3

\* A message stays in the outbox of its sender until the other side has it, whatever
\* was lost or acknowledged late (Unacked in exchange and handleUpdate).
THEOREM MessagesKept == Spec => []NoMessageForgotten
<1>1. ASSUME ExchangeInv, MessageInv PROVE NoMessageForgotten
  <2>1. ASSUME NEW c \in Clients, NEW n \in 1..client[c].sent
        PROVE  \/ \E m \in client[c].outbox : m.body = <<c, n>>
               \/ client[c].id # ServerId /\ n <= slot[client[c].id].lastReceivedSeq
    <3>1. /\ client[c].sent \in Nat /\ ServerSlot(c).lastReceivedSeq \in Nat
          /\ IsStream(client[c].outbox, c, ServerSlot(c).lastReceivedSeq, client[c].sent)
      BY <1>1 DEF MessageInv, LinkInv, Link
    <3>2. (\E m \in client[c].outbox : m.body = <<c, n>>) \/ n <= ServerSlot(c).lastReceivedSeq
      BY <3>1, StreamKeeps
    <3>3. client[c].id = ServerId => ServerSlot(c).lastReceivedSeq = 0
      BY DEF ServerSlot, NewSlot
    <3>4. client[c].id # ServerId => ServerSlot(c) = slot[client[c].id]
      BY DEF ServerSlot
    <3> QED
      BY <3>2, <3>3, <3>4
  <2>2. ASSUME NEW c \in Clients, client[c].id # ServerId, NEW n \in 1..slot[client[c].id].sent
        PROVE  \/ \E m \in slot[client[c].id].outbox : m.body = <<client[c].id, n>>
               \/ n <= client[c].lastReceivedSeq
    <3>1. ServerSlot(c) = slot[client[c].id]
      BY <2>2 DEF ServerSlot
    <3>2. /\ ServerSlot(c).sent \in Nat /\ client[c].lastReceivedSeq \in Nat
          /\ IsStream(ServerSlot(c).outbox, client[c].id, client[c].lastReceivedSeq,
                      ServerSlot(c).sent)
      BY <1>1 DEF MessageInv, LinkInv, Link
    <3> QED
      BY <3>1, <3>2, StreamKeeps
  <2> QED
    BY <2>1, <2>2 DEF NoMessageForgotten
<1> QED
  BY <1>1, ExchangeAlways, MessagesAlways, PTL

-----------------------------------------------------------------------------
(***************************************************************************)
(* The messages go through channels: a hop of a link is a step of a        *)
(* channel on the numbers of the messages that wait.                       *)
(***************************************************************************)
Upto(last, n) == [i \in 1..n |-> last - n + i]

LEMMA UptoSeq ==
    ASSUME NEW last \in Int, NEW n \in Nat
    PROVE  Upto(last, n) \in Seq(Int) /\ Len(Upto(last, n)) = n
           /\ \A i \in 1..n : Upto(last, n)[i] = last - n + i
BY DEF Upto

LEMMA RunNumbers ==
    ASSUME NEW who, NEW last \in Nat, NEW n \in Nat
    PROVE  Len(Run(who, last, n)) = n /\ Numbers(Run(who, last, n), who) = Upto(last, n)
<1> DEFINE q == Run(who, last, n)
<1>1. DOMAIN q = 1..n /\ Len(q) = n /\ \A i \in 1..n : q[i] = <<who, last - n + i>>
  BY DEF Run
<1> HIDE DEF q
<1>2. Numbers(q, who) = Upto(last, n)
  <2>1. \A i \in 1..n : q[i][1] = who /\ q[i][2] = last - n + i
    BY <1>1
  <2> QED
    BY <1>1, <2>1 DEF Numbers, Upto
<1> QED
  BY <1>1, <1>2 DEF q

LEMMA QueueNumbers ==
    ASSUME NEW who, NEW last \in Nat, NEW queue, IsRun(queue, who, last)
    PROVE  Len(queue) \in 0..last /\ Numbers(queue, who) = Upto(last, Len(queue))
<1>1. PICK n \in 0..last : queue = Run(who, last, n)
  BY DEF IsRun
<1>2. Len(Run(who, last, n)) = n /\ Numbers(Run(who, last, n), who) = Upto(last, n)
  BY RunNumbers
<1> QED
  BY <1>1, <1>2

LEMMA UptoAppend ==
    ASSUME NEW last \in Nat, NEW n \in 0..last, NEW k \in Nat
    PROVE  Upto(last + k, n + k) = Upto(last, n) \o [i \in 1..k |-> last - n + n + i]
<1> DEFINE a == Upto(last, n)
           b == [i \in 1..k |-> last - n + n + i]
           whole == Upto(last + k, n + k)
<1>0. last \in Int /\ n \in Nat /\ last + k \in Int /\ n + k \in Nat
  OBVIOUS
<1>1. a \in Seq(Int) /\ Len(a) = n /\ \A i \in 1..n : a[i] = last - n + i
  BY <1>0, UptoSeq, Zenon
<1>2. b \in Seq(Int) /\ Len(b) = k /\ \A i \in 1..k : b[i] = last + i
  OBVIOUS
<1>3. /\ whole \in Seq(Int) /\ Len(whole) = n + k
      /\ \A i \in 1..(n + k) : whole[i] = (last + k) - (n + k) + i
  BY <1>0, UptoSeq, Zenon
<1> HIDE DEF a, b, whole
<1>4. /\ a \o b \in Seq(Int) /\ Len(a \o b) = Len(a) + Len(b)
      /\ \A i \in 1..Len(a) + Len(b) : (a \o b)[i] = IF i <= Len(a) THEN a[i] ELSE b[i - Len(a)]
  BY <1>1, <1>2, ConcatProperties, Zenon
<1>5. ASSUME NEW i \in 1..Len(a \o b) PROVE (a \o b)[i] = whole[i]
  <2>1. i \in 1..(n + k) /\ (a \o b)[i] = IF i <= n THEN a[i] ELSE b[i - n]
    BY <1>1, <1>2, <1>4
  <2>2. whole[i] = last - n + i
    BY <1>3, <2>1
  <2>3. CASE i <= n
    BY <1>1, <2>1, <2>2, <2>3
  <2>4. CASE i > n
    <3>1. i - n \in 1..k /\ b[i - n] = last - n + i
      BY <1>2, <2>1, <2>4
    <3> QED
      BY <2>1, <2>2, <2>4, <3>1
  <2> QED
    BY <2>1, <2>3, <2>4
<1>6. Len(a \o b) = Len(whole)
  BY <1>1, <1>2, <1>3, <1>4
<1>7. a \o b = whole
  BY <1>3, <1>4, <1>5, <1>6, SeqEqual
<1> QED
  BY <1>7 DEF a, b, whole

\* Channel!Next for one sender, in terms of the six values it is about.
ChannelStep(sent, queue, taken, sent2, queue2, taken2) ==
    \/ sent2 = sent /\ queue2 = queue /\ taken2 = taken
    \/ sent2 > sent /\ queue2 = queue /\ taken2 = taken
    \/ queue2 = <<>> /\ taken2 = taken + Len(queue) /\ sent2 = sent
    \/ \E n \in 1..(sent - taken - Len(queue)) :
          /\ queue2 = queue \o [i \in 1..n |-> taken + Len(queue) + i]
          /\ sent2 = sent /\ taken2 = taken

LEMMA HopChannel ==
    ASSUME NEW who, NEW sent \in Nat, NEW last \in 0..sent, NEW queue, IsRun(queue, who, last),
           NEW sent2, NEW last2, NEW queue2, Hop(who, sent, last, queue, sent2, last2, queue2)
    PROVE  ChannelStep(sent, Upto(last, Len(queue)), last - Len(queue),
                       sent2, Upto(last2, Len(queue2)), last2 - Len(queue2))
<1> DEFINE n == Len(queue)
<1>1. n \in 0..last /\ last \in Nat /\ n \in Nat
  BY QueueNumbers
<1>2. Len(Upto(last, n)) = n
  BY <1>1, UptoSeq
<1> HIDE DEF n
<1>3. CASE last2 = last /\ queue2 = queue /\ (sent2 = sent \/ sent2 > sent)
  BY <1>3 DEF ChannelStep, n
<1>4. CASE sent2 = sent /\ last2 = last /\ queue2 = <<>>
  <2>1. Len(queue2) = 0 /\ Upto(last2, 0) = <<>>
    BY <1>4 DEF Upto
  <2>2. last2 - 0 = last - n + Len(Upto(last, n))
    BY <1>1, <1>2, <1>4
  <2> QED
    BY <1>4, <2>1, <2>2 DEF ChannelStep, n
<1>5. CASE sent2 = sent /\ last2 \in last..sent /\ queue2 = queue \o Delivered(who, last, last2)
  <2> DEFINE k == last2 - last
  <2>1. k \in 0..(sent - last) /\ last2 = last + k /\ last2 \in Nat /\ last2 >= last
    BY <1>1, <1>5
  <2>2. PICK m \in 0..last : queue = Run(who, last, m)
    BY DEF IsRun
  <2>3. m = n
    BY <1>1, <2>2, RunNumbers DEF n
  <2>4. queue2 = Run(who, last2, n + last2 - last)
    <3>0. last \in Nat /\ n \in Nat /\ last2 \in Nat /\ last2 >= last
      BY <1>1, <2>1
    <3>1. Run(who, last, n) \o Delivered(who, last, last2) = Run(who, last2, n + last2 - last)
      BY <3>0, RunAppend, ZenonT(40)
    <3>2. queue = Run(who, last, n)
      BY <2>2, <2>3
    <3>3. queue2 = Run(who, last, n) \o Delivered(who, last, last2)
      BY <1>5, <3>2, Zenon
    <3> QED
      BY <3>1, <3>3, Zenon
  <2>5. Len(queue2) = n + k
    BY <1>1, <2>1, <2>4, RunNumbers
  <2> HIDE DEF k
  <2>6. Upto(last2, n + k) = Upto(last, n) \o [i \in 1..k |-> last - n + n + i]
    <3>1. k \in Nat
      BY <1>1, <2>1
    <3> QED
      BY <1>1, <2>1, <3>1, UptoAppend, Zenon
  <2>7. last2 - (n + k) = last - n /\ sent - (last - n) - n = sent - last
    BY <1>1, <2>1
  <2>8. CASE k = 0
    BY <1>1, <1>5, <2>1, <2>5, <2>8 DEF ChannelStep, n
  <2>9. CASE k \in 1..(sent - last)
    BY <1>2, <1>5, <2>5, <2>6, <2>7, <2>9, Zenon DEF ChannelStep, n
  <2> QED
    BY <2>1, <2>8, <2>9
<1> QED
  BY <1>3, <1>4, <1>5 DEF Hop

LEMMA LinkChannels ==
    ASSUME NEW c, NEW me, NEW it, NEW queue, Link(c, me, it, queue),
           NEW me2, NEW it2, NEW queue2, LinkStep(c, me, it, queue, me2, it2, queue2)
    PROVE  /\ ChannelStep(me.sent, Numbers(queue, c), it.lastReceivedSeq - Len(queue),
                          me2.sent, Numbers(queue2, c), it2.lastReceivedSeq - Len(queue2))
           /\ ChannelStep(it.sent, Numbers(me.inbox, me.id), me.lastReceivedSeq - Len(me.inbox),
                          it2.sent, Numbers(me2.inbox, me2.id),
                          me2.lastReceivedSeq - Len(me2.inbox))
<1>1. /\ Hop(c, me.sent, it.lastReceivedSeq, queue, me2.sent, it2.lastReceivedSeq, queue2)
      /\ Hop(me.id, it.sent, me.lastReceivedSeq, me.inbox,
             it2.sent, me2.lastReceivedSeq, me2.inbox)
  BY Zenon DEF LinkStep, Hops
<1>2. /\ me.sent \in Nat /\ it.lastReceivedSeq \in 0..me.sent /\ it.sent \in Nat
      /\ me.lastReceivedSeq \in 0..it.sent
      /\ IsRun(queue, c, it.lastReceivedSeq) /\ IsRun(me.inbox, me.id, me.lastReceivedSeq)
  BY DEF Link
<1>3. /\ it2.lastReceivedSeq \in Nat /\ me2.lastReceivedSeq \in Nat
      /\ IsRun(queue2, c, it2.lastReceivedSeq) /\ IsRun(me2.inbox, me2.id, me2.lastReceivedSeq)
  BY DEF LinkStep, Link
<1>4. /\ Numbers(queue, c) = Upto(it.lastReceivedSeq, Len(queue))
      /\ Numbers(me.inbox, me.id) = Upto(me.lastReceivedSeq, Len(me.inbox))
  BY <1>2, QueueNumbers
<1>5. /\ Numbers(queue2, c) = Upto(it2.lastReceivedSeq, Len(queue2))
      /\ Numbers(me2.inbox, me2.id) = Upto(me2.lastReceivedSeq, Len(me2.inbox))
  BY <1>3, QueueNumbers
<1>6. ChannelStep(me.sent, Upto(it.lastReceivedSeq, Len(queue)), it.lastReceivedSeq - Len(queue),
                  me2.sent, Upto(it2.lastReceivedSeq, Len(queue2)),
                  it2.lastReceivedSeq - Len(queue2))
  BY <1>1, <1>2, HopChannel
<1>7. ChannelStep(it.sent, Upto(me.lastReceivedSeq, Len(me.inbox)),
                  me.lastReceivedSeq - Len(me.inbox),
                  it2.sent, Upto(me2.lastReceivedSeq, Len(me2.inbox)),
                  me2.lastReceivedSeq - Len(me2.inbox))
  BY <1>1, <1>2, HopChannel
<1> QED
  BY <1>4, <1>5, <1>6, <1>7

LEMMA WiredChannels ==
    ASSUME MessageInv, Wired
    PROVE  ToServer!Next /\ ToClient!Next
<1>1. ASSUME NEW e \in Clients
      PROVE  /\ ChannelStep(client[e].sent, Numbers(ServerInbox(e), e),
                            ServerSlot(e).lastReceivedSeq - Len(ServerInbox(e)),
                            client'[e].sent, Numbers(ServerInbox(e)', e),
                            ServerSlot(e)'.lastReceivedSeq - Len(ServerInbox(e)'))
             /\ ChannelStep(ServerSlot(e).sent, Numbers(client[e].inbox, client[e].id),
                            client[e].lastReceivedSeq - Len(client[e].inbox),
                            ServerSlot(e)'.sent, Numbers(client'[e].inbox, client'[e].id),
                            client'[e].lastReceivedSeq - Len(client'[e].inbox))
  <2>1. /\ Link(e, client[e], ServerSlot(e), ServerInbox(e))
        /\ LinkStep(e, client[e], ServerSlot(e), ServerInbox(e),
                    client'[e], ServerSlot(e)', ServerInbox(e)')
    BY Zenon DEF MessageInv, LinkInv, Wired, LinkKept
  <2> QED
    BY <2>1, LinkChannels, Zenon
<1>2. ToServer!Next
  BY <1>1 DEF ChannelStep, ToServer!Next, ToServer!Idle, ToServer!Send, ToServer!Take,
              ToServer!Deliver
<1>3. ToClient!Next
  <2> DEFINE S == [c \in Clients |-> ServerSlot(c).sent]
             Q == [c \in Clients |-> Numbers(client[c].inbox, client[c].id)]
             T == [c \in Clients |-> client[c].lastReceivedSeq - Len(client[c].inbox)]
  <2>1. ASSUME NEW e \in Clients PROVE ChannelStep(S[e], Q[e], T[e], S'[e], Q'[e], T'[e])
    <3>1. /\ S[e] = ServerSlot(e).sent /\ S'[e] = ServerSlot(e)'.sent
          /\ Q[e] = Numbers(client[e].inbox, client[e].id)
          /\ Q'[e] = Numbers(client'[e].inbox, client'[e].id)
          /\ T[e] = client[e].lastReceivedSeq - Len(client[e].inbox)
          /\ T'[e] = client'[e].lastReceivedSeq - Len(client'[e].inbox)
      BY Zenon
    <3> HIDE DEF S, Q, T
    <3> QED
      BY <1>1, <3>1, Zenon
  <2> QED
    BY <2>1, Zenon DEF ChannelStep, ToClient!Next, ToClient!Idle, ToClient!Send, ToClient!Take,
                ToClient!Deliver
<1> QED
  BY <1>2, <1>3

\* "every one delivered, in order, per client" (sessionServer.hpp:26): whatever is lost,
\* resent, late or misdirected, the messages of a client to the server, and those of the
\* server to a client, take only the steps of a Channel.
THEOREM MessagesInOrder == Spec => MessagesUseChannels
<1>1. ASSUME Init PROVE ToServer!Init /\ ToClient!Init
  <2>1. \A who : Numbers(<<>>, who) = <<>>
    BY DEF Numbers
  <2>2. ASSUME NEW e \in Clients
        PROVE  /\ client[e].sent = 0 /\ ServerSlot(e).sent = 0
               /\ Numbers(ServerInbox(e), e) = <<>>
               /\ Numbers(client[e].inbox, client[e].id) = <<>>
               /\ ServerSlot(e).lastReceivedSeq - Len(ServerInbox(e)) = 0
               /\ client[e].lastReceivedSeq - Len(client[e].inbox) = 0
    <3>1. /\ client[e].sent = 0 /\ client[e].lastReceivedSeq = 0
          /\ client[e].inbox = <<>> /\ client[e].id = ServerId
      BY <1>1 DEF Init, ClientInit, NewClient
    <3>2. ServerSlot(e) = NewSlot(e, 0) /\ ServerInbox(e) = <<>>
      BY <3>1 DEF ServerSlot, ServerInbox
    <3>3. ServerSlot(e).sent = 0 /\ ServerSlot(e).lastReceivedSeq = 0
      BY <3>2 DEF NewSlot
    <3>4. Len(ServerInbox(e)) = 0 /\ Len(client[e].inbox) = 0
      BY <3>1, <3>2
    <3>5. Numbers(ServerInbox(e), e) = <<>> /\ Numbers(client[e].inbox, client[e].id) = <<>>
      BY <2>1, <3>1, <3>2, Zenon
    <3>6. /\ ServerSlot(e).lastReceivedSeq - Len(ServerInbox(e)) = 0
          /\ client[e].lastReceivedSeq - Len(client[e].inbox) = 0
      <4>1. \A x, n : x = 0 /\ n = 0 => x - n = 0
        OBVIOUS
      <4> QED
        BY <3>1, <3>3, <3>4, <4>1, Zenon
    <3> QED
      BY <3>1, <3>3, <3>5, <3>6, Zenon
  <2>3. ToServer!Init
    BY <2>2, Zenon DEF ToServer!Init
  <2>4. ToClient!Init
    BY <2>2, Zenon DEF ToClient!Init
  <2> QED
    BY <2>3, <2>4
<1>2. ExchangeInv /\ MessageInv /\ [Next]_vars => ToServer!Next /\ ToClient!Next
  BY NextWired, StillWired, WiredChannels
<1> QED
  BY <1>1, <1>2, ExchangeAlways, MessagesAlways, PTL
  DEF Spec, MessagesUseChannels, ToServer!Spec, ToClient!Spec

-----------------------------------------------------------------------------
(***************************************************************************)
(* The roster of an observer, event by event.                              *)
(***************************************************************************)
Stays(S, events, id) == id \in S /\ \A k \in DOMAIN events : events[k] # Left(id)

Comes(events, id) ==
    \E j \in DOMAIN events :
        events[j] = Joined(id) /\ \A i \in DOMAIN events : events[i] = Left(id) => i < j

LEMMA EventKinds ==
    ASSUME NEW e \in Event
    PROVE  /\ e.id \in Ids
           /\ e.change = "Joined" <=> e = Joined(e.id)
           /\ \A id : e = Joined(id) => e.id = id /\ e.change = "Joined"
           /\ \A id, other : e = Joined(id) => e # Left(other)
BY DEF Event, Joined, Left

LEMMA AfterMeans ==
    ASSUME NEW S, NEW events \in Seq(Event), NEW id
    PROVE  id \in RosterAfter(S, events) <=> Stays(S, events, id) \/ Comes(events, id)
<1>1. \A k \in DOMAIN events : events[k] \in Event
  OBVIOUS
<1>2. \A k \in DOMAIN events :
          events[k] = Joined(id) <=> events[k].change = "Joined" /\ events[k].id = id
  BY <1>1, EventKinds
<1>3. id \in RosterAfter(S, events) <=>
        \/ Stays(S, events, id)
        \/ \E j \in DOMAIN events :
              /\ events[j].change = "Joined" /\ events[j].id = id
              /\ \A i \in DOMAIN events : events[i] = Left(events[j].id) => i < j
  BY Zenon DEF RosterAfter, Stays
<1> QED
  BY <1>2, <1>3 DEF Comes

\* An id that came did not come before it left.
LEMMA AfterCompose ==
    ASSUME NEW S, NEW a \in Seq(Event), NEW b \in Seq(Event)
    PROVE  RosterAfter(S, a \o b) = RosterAfter(RosterAfter(S, a), b)
<1> DEFINE ab == a \o b
           T == RosterAfter(S, a)
           m == Len(a)
           n == Len(b)
<1>0. m \in Nat /\ n \in Nat /\ DOMAIN a = 1..m /\ DOMAIN b = 1..n
  OBVIOUS
<1>1. /\ ab \in Seq(Event) /\ DOMAIN ab = 1..(m + n)
      /\ \A k \in 1..m : ab[k] = a[k]
      /\ \A k \in 1..n : ab[m + k] = b[k]
  <2>1. /\ a \o b \in Seq(Event) /\ Len(a \o b) = Len(a) + Len(b)
        /\ \A i \in 1..Len(a) + Len(b) :
              (a \o b)[i] = IF i <= Len(a) THEN a[i] ELSE b[i - Len(a)]
    BY ConcatProperties, Zenon
  <2> HIDE DEF ab, m, n
  <2>2. /\ ab \in Seq(Event) /\ Len(ab) = m + n
        /\ \A i \in 1..m + n : ab[i] = IF i <= m THEN a[i] ELSE b[i - m]
    BY <2>1, Zenon DEF ab, m, n
  <2>3. ASSUME NEW k \in 1..n PROVE ab[m + k] = b[k]
    <3>1. m + k \in 1..m + n /\ (m + k) - m = k /\ ~(m + k <= m)
      BY <1>0
    <3> QED
      BY <2>2, <3>1
  <2>4. DOMAIN ab = 1..(m + n)
    BY <2>2
  <2> QED
    BY <1>0, <2>2, <2>3, <2>4
<1> HIDE DEF ab, m, n
<1>2. \A k \in DOMAIN ab : k \in 1..m \/ (k - m \in 1..n /\ m + (k - m) = k)
  BY <1>0, <1>1
<1>3. ASSUME NEW id PROVE id \in RosterAfter(S, ab) <=> id \in RosterAfter(T, b)
  <2>1. id \in RosterAfter(S, ab) <=> Stays(S, ab, id) \/ Comes(ab, id)
    BY <1>1, AfterMeans
  <2>2. id \in RosterAfter(T, b) <=> Stays(T, b, id) \/ Comes(b, id)
    BY AfterMeans
  <2>3. id \in T <=> Stays(S, a, id) \/ Comes(a, id)
    BY AfterMeans
  <2> HIDE DEF T
  <2>4. Stays(S, ab, id) <=> Stays(S, a, id) /\ \A k \in DOMAIN b : b[k] # Left(id)
    <3>1. ASSUME NEW k \in 1..n PROVE m + k \in DOMAIN ab /\ ab[m + k] = b[k]
      BY <1>0, <1>1
    <3>2. ASSUME NEW k \in 1..m PROVE k \in DOMAIN ab /\ ab[k] = a[k]
      BY <1>0, <1>1
    <3>3. ASSUME NEW k \in DOMAIN ab
          PROVE  (k \in 1..m /\ ab[k] = a[k]) \/ \E i \in 1..n : ab[k] = b[i]
      BY <1>1, <1>2
    <3> QED
      BY <1>0, <3>1, <3>2, <3>3 DEF Stays
  <2>5. Comes(b, id) => Comes(ab, id)
    <3>1. ASSUME NEW j \in 1..n, b[j] = Joined(id),
                 \A i \in DOMAIN b : b[i] = Left(id) => i < j
          PROVE  Comes(ab, id)
      <4>1. m + j \in DOMAIN ab /\ ab[m + j] = Joined(id)
        BY <1>0, <1>1, <3>1
      <4>2. ASSUME NEW i \in DOMAIN ab, ab[i] = Left(id) PROVE i < m + j
        <5>1. CASE i \in 1..m
          BY <1>0, <5>1
        <5>2. CASE i - m \in 1..n /\ m + (i - m) = i
          <6>1. b[i - m] = Left(id)
            BY <1>1, <4>2, <5>2
          <6>2. i - m < j
            BY <1>0, <3>1, <5>2, <6>1
          <6> QED
            BY <1>0, <5>2, <6>2
        <5> QED
          BY <1>2, <5>1, <5>2
      <4> QED
        BY <4>1, <4>2 DEF Comes
    <3> QED
      BY <1>0, <3>1 DEF Comes
  <2>6. Comes(a, id) /\ (\A k \in DOMAIN b : b[k] # Left(id)) => Comes(ab, id)
    <3>1. ASSUME NEW j \in 1..m, a[j] = Joined(id),
                 \A i \in DOMAIN a : a[i] = Left(id) => i < j,
                 \A k \in DOMAIN b : b[k] # Left(id)
          PROVE  Comes(ab, id)
      <4>1. j \in DOMAIN ab /\ ab[j] = Joined(id)
        BY <1>0, <1>1, <3>1
      <4>2. ASSUME NEW i \in DOMAIN ab, ab[i] = Left(id) PROVE i < j
        BY <1>0, <1>1, <1>2, <3>1, <4>2
      <4> QED
        BY <4>1, <4>2 DEF Comes
    <3> QED
      BY <1>0, <3>1 DEF Comes
  <2>7. Comes(ab, id) => Comes(b, id) \/ (Comes(a, id) /\ \A k \in DOMAIN b : b[k] # Left(id))
    <3>1. ASSUME NEW j \in DOMAIN ab, ab[j] = Joined(id),
                 \A i \in DOMAIN ab : ab[i] = Left(id) => i < j
          PROVE  Comes(b, id) \/ (Comes(a, id) /\ \A k \in DOMAIN b : b[k] # Left(id))
      <4>1. ASSUME NEW k \in 1..n
            PROVE  m + k \in DOMAIN ab /\ (b[k] = Left(id) => m + k < j)
        <5>1. m + k \in DOMAIN ab /\ ab[m + k] = b[k]
          BY <1>0, <1>1
        <5> QED
          BY <3>1, <5>1
      <4>2. ASSUME NEW k \in 1..m PROVE k \in DOMAIN ab /\ (a[k] = Left(id) => k < j)
        <5>1. k \in DOMAIN ab /\ ab[k] = a[k]
          BY <1>0, <1>1
        <5> QED
          BY <3>1, <5>1
      <4>3. CASE j \in 1..m
        <5>1. a[j] = Joined(id)
          BY <1>1, <3>1, <4>3
        <5>2. \A k \in DOMAIN b : b[k] # Left(id)
          BY <1>0, <4>1, <4>3
        <5>3. Comes(a, id)
          BY <1>0, <4>2, <4>3, <5>1 DEF Comes
        <5> QED
          BY <5>2, <5>3
      <4>4. CASE j - m \in 1..n /\ m + (j - m) = j
        <5>1. b[j - m] = Joined(id)
          BY <1>1, <3>1, <4>4
        <5>2. \A k \in DOMAIN b : b[k] = Left(id) => k < j - m
          BY <1>0, <1>1, <4>1, <4>4
        <5> QED
          BY <1>0, <4>4, <5>1, <5>2 DEF Comes
      <4> QED
        BY <1>2, <3>1, <4>3, <4>4
    <3> QED
      BY <3>1 DEF Comes
  <2>8. Stays(T, b, id) <=> id \in T /\ \A k \in DOMAIN b : b[k] # Left(id)
    BY DEF Stays
  <2> QED
    BY <2>1, <2>2, <2>3, <2>4, <2>5, <2>6, <2>7, <2>8, Zenon
<1>4. RosterAfter(S, ab) = RosterAfter(T, b)
  BY <1>3
<1> QED
  BY <1>4, Zenon DEF ab, T

LEMMA AfterNothing == ASSUME NEW S PROVE RosterAfter(S, <<>>) = S
<1>1. ASSUME NEW id PROVE id \in RosterAfter(S, <<>>) <=> id \in S
  <2>1. <<>> \in Seq(Event) /\ DOMAIN <<>> = {}
    OBVIOUS
  <2>2. id \in RosterAfter(S, <<>>) <=> Stays(S, <<>>, id) \/ Comes(<<>>, id)
    BY <2>1, AfterMeans, Zenon
  <2>3. Stays(S, <<>>, id) <=> id \in S
    BY <2>1, Zenon DEF Stays
  <2>4. ~Comes(<<>>, id)
    BY <2>1, Zenon DEF Comes
  <2> QED
    BY <2>2, <2>3, <2>4
<1> QED
  BY <1>1

\* The events of a list of ids, all of whom join or leave.
Listed(order, n) == {order[i] : i \in 1..n}
Joining(order, n) == [i \in 1..n |-> Joined(order[i])]
Leaving(order, n) == [i \in 1..n |-> Left(order[i])]

LEMMA AfterJoins ==
    ASSUME NEW S, NEW n \in Nat, NEW order \in [1..n -> Ids]
    PROVE  /\ Joining(order, n) \in Seq(Event)
           /\ RosterAfter(S, Joining(order, n)) = S \cup Listed(order, n)
<1> DEFINE e == Joining(order, n)
<1>1. \A i \in 1..n : Joined(order[i]) \in Event
  BY DEF Event
<1>2. e \in Seq(Event) /\ DOMAIN e = 1..n /\ \A i \in 1..n : e[i] = Joined(order[i])
  BY <1>1 DEF Joining, Leaving
<1> HIDE DEF e
<1>3. ASSUME NEW id
      PROVE  id \in RosterAfter(S, e) <=> id \in S \cup Listed(order, n)
  <2>1. id \in RosterAfter(S, e) <=> Stays(S, e, id) \/ Comes(e, id)
    BY <1>2, AfterMeans
  <2>2. \A i \in 1..n : e[i] # Left(id) /\ (e[i] = Joined(id) <=> order[i] = id)
    BY <1>2 DEF Joined, Left
  <2>3. Stays(S, e, id) <=> id \in S
    BY <1>2, <2>2 DEF Stays
  <2>4. Comes(e, id) <=> \E i \in 1..n : order[i] = id
    BY <1>2, <2>2 DEF Comes
  <2> QED
    BY <2>1, <2>3, <2>4 DEF Listed
<1>4. RosterAfter(S, e) = S \cup Listed(order, n)
  BY <1>3
<1> QED
  BY <1>2, <1>4 DEF e

LEMMA AfterLeft ==
    ASSUME NEW S, NEW n \in Nat, NEW order \in [1..n -> Ids]
    PROVE  /\ Leaving(order, n) \in Seq(Event)
           /\ RosterAfter(S, Leaving(order, n)) = S \ Listed(order, n)
<1> DEFINE e == Leaving(order, n)
<1>1. \A i \in 1..n : Left(order[i]) \in Event
  BY DEF Event
<1>2. e \in Seq(Event) /\ DOMAIN e = 1..n /\ \A i \in 1..n : e[i] = Left(order[i])
  BY <1>1 DEF Joining, Leaving
<1> HIDE DEF e
<1>3. ASSUME NEW id
      PROVE  id \in RosterAfter(S, e) <=> id \in S \ Listed(order, n)
  <2>1. id \in RosterAfter(S, e) <=> Stays(S, e, id) \/ Comes(e, id)
    BY <1>2, AfterMeans
  <2>2. \A i \in 1..n : e[i] # Joined(id) /\ (e[i] = Left(id) <=> order[i] = id)
    BY <1>2 DEF Joined, Left
  <2>3. Stays(S, e, id) <=> id \in S /\ \A i \in 1..n : order[i] # id
    BY <1>2, <2>2 DEF Stays
  <2>4. ~Comes(e, id)
    BY <1>2, <2>2 DEF Comes
  <2> QED
    BY <2>1, <2>3, <2>4 DEF Listed
<1>4. RosterAfter(S, e) = S \ Listed(order, n)
  BY <1>3
<1> QED
  BY <1>2, <1>4 DEF e

\* Version n of the roster is what the first n entries of the log make of it.
LEMMA MembersKept ==
    ASSUME NEW log \in Seq(Event), NEW more \in Seq(Event), NEW n \in 0..Len(log)
    PROVE  Members(log \o more, n) = Members(log, n)
<1>1. SubSeq(log \o more, 1, n) = SubSeq(log, 1, n)
  <2>1. CASE n = 0
    <3>1. 1 \in Int /\ 0 \in Int /\ 0 < 1
      OBVIOUS
    <3> QED
      BY <2>1, <3>1, SubSeqEmpty, Zenon
  <2>2. CASE n # 0
    <3>1. 1 \in 1..Len(log) /\ n \in 1..Len(log)
      BY <2>2
    <3> QED
      BY <3>1, SubSeqOfConcat1, Zenon
  <2> QED
    BY <2>1, <2>2
<1> QED
  BY <1>1, Zenon DEF Members

LEMMA MembersNow ==
    ASSUME NEW log \in Seq(Event)
    PROVE  /\ Members(log, 0) = {}
           /\ Members(log, Len(log)) = RosterAfter({}, log)
<1>1. SubSeq(log, 1, Len(log)) = log
  BY SubSeqFull
<1>2. SubSeq(log, 1, 0) = <<>>
  <2>1. 1 \in Int /\ 0 \in Int /\ 0 < 1
    OBVIOUS
  <2> QED
    BY <2>1, SubSeqEmpty, Zenon
<1> QED
  BY <1>1, <1>2, AfterNothing, Zenon DEF Members

\* The rest of the log brings an observer of version n up to date.
LEMMA MembersCatchUp ==
    ASSUME NEW log \in Seq(Event), NEW n \in 0..Len(log)
    PROVE  /\ SubSeq(log, n + 1, Len(log)) \in Seq(Event)
           /\ RosterAfter(Members(log, n), SubSeq(log, n + 1, Len(log)))
                = Members(log, Len(log))
<1>1. /\ 1 \in 1..Len(log) + 1 /\ n \in 1 - 1..Len(log) /\ Len(log) \in n..Len(log)
      /\ n \in Int /\ n + 1 \in Int /\ Len(log) \in Int /\ 1 \in Int
  OBVIOUS
<1>2. SubSeq(log, 1, n) \o SubSeq(log, n + 1, Len(log)) = SubSeq(log, 1, Len(log))
  BY <1>1, ConcatAdjacentSubSeq, Zenon
<1>3. /\ \A i \in 1..n : log[i] \in Event
      /\ \A i \in n + 1..Len(log) : log[i] \in Event
  OBVIOUS
<1>4. SubSeq(log, 1, n) \in Seq(Event) /\ SubSeq(log, n + 1, Len(log)) \in Seq(Event)
  BY <1>1, <1>3, SubSeqProperties, Zenon
<1>5. RosterAfter({}, SubSeq(log, 1, n) \o SubSeq(log, n + 1, Len(log)))
        = RosterAfter(RosterAfter({}, SubSeq(log, 1, n)), SubSeq(log, n + 1, Len(log)))
  <2> DEFINE a == SubSeq(log, 1, n)
             b == SubSeq(log, n + 1, Len(log))
  <2>1. a \in Seq(Event) /\ b \in Seq(Event)
    BY <1>4
  <2> HIDE DEF a, b
  <2>2. RosterAfter({}, a \o b) = RosterAfter(RosterAfter({}, a), b)
    BY <2>1, AfterCompose, ZenonT(40)
  <2> QED
    BY <2>2 DEF a, b
<1> QED
  BY <1>2, <1>4, <1>5, Zenon DEF Members

LEMMA IdsFinite ==
    ASSUME NEW S, S \subseteq Ids PROVE IsFiniteSet(S) /\ Cardinality(S) \in Nat
<1>1. IsFiniteSet(1..MaxClientId)
  BY FS_Interval
<1> QED
  BY <1>1, FS_Subset, FS_CardinalityType DEF Ids

LEMMA OrderLists ==
    ASSUME NEW S, S \subseteq Ids, NEW order \in InIdOrder(S)
    PROVE  /\ Cardinality(S) \in Nat /\ order \in [1..Cardinality(S) -> Ids]
           /\ Listed(order, Cardinality(S)) = S
BY IdsFinite DEF InIdOrder, Listed

\* Ids can be listed in order: each at the place its rank gives.
LEMMA OrderExists == ASSUME NEW S, S \subseteq Ids PROVE InIdOrder(S) # {}
<1> DEFINE n == Cardinality(S)
           UpTo(id) == {x \in S : x <= id}
           rank == [id \in S |-> Cardinality(UpTo(id))]
           order == [i \in 1..n |-> CHOOSE id \in S : rank[id] = i]
<1>0. S \subseteq Int
  BY DEF Ids
<1>1. n \in Nat /\ IsFiniteSet(S)
  BY IdsFinite
<1>2. ASSUME NEW id \in S PROVE UpTo(id) \subseteq S /\ id \in UpTo(id) /\ IsFiniteSet(UpTo(id))
  <2>1. UpTo(id) \subseteq S /\ id \in UpTo(id)
    BY <1>0
  <2> HIDE DEF UpTo
  <2> QED
    BY <1>1, <2>1, FS_Subset
<1>3. ASSUME NEW a \in S, NEW b \in S, a < b
      PROVE  UpTo(a) \subseteq UpTo(b) /\ b \notin UpTo(a)
  <2>1. a \in Int /\ b \in Int
    BY <1>0
  <2>2. ASSUME NEW x \in S, x <= a PROVE x <= b
    <3>1. x \in Int
      BY <1>0
    <3> QED
      BY <1>3, <2>1, <2>2, <3>1
  <2>3. ~(b <= a)
    BY <1>3, <2>1
  <2> QED
    BY <2>2, <2>3
<1>4. \A id \in S : rank[id] = Cardinality(UpTo(id))
  OBVIOUS
<1>5. DOMAIN rank = S /\ rank \in [S -> {rank[id] : id \in S}]
  OBVIOUS
<1> HIDE DEF UpTo, rank, n
<1>6. ASSUME NEW id \in S PROVE rank[id] \in 1..n
  <2>1. Cardinality(UpTo(id)) \in Nat
    BY <1>2, FS_CardinalityType
  <2>2. Cardinality(UpTo(id)) <= n
    BY <1>1, <1>2, FS_Subset DEF n
  <2>3. Cardinality(UpTo(id)) # 0
    BY <1>2, FS_EmptySet
  <2> QED
    BY <1>1, <1>4, <2>1, <2>2, <2>3
<1>7. ASSUME NEW a \in S, NEW b \in S, a < b PROVE rank[a] < rank[b]
  <2>1. UpTo(a) \in SUBSET UpTo(b) /\ UpTo(a) # UpTo(b)
    BY <1>2, <1>3, <1>7
  <2>2. Cardinality(UpTo(a)) <= Cardinality(UpTo(b))
        /\ Cardinality(UpTo(a)) # Cardinality(UpTo(b))
    BY <1>2, <2>1, FS_Subset
  <2> QED
    BY <1>4, <1>6, <2>2
<1>8. rank \in Injection(S, 1..n)
  <2>1. rank \in [S -> 1..n]
    BY <1>5, <1>6
  <2>2. \A a, b \in S : rank[a] = rank[b] => a = b
    <3>1. \A a, b \in S : a < b \/ b < a \/ a = b
      BY <1>0
    <3>2. \A a, b \in S : rank[a] \in Int /\ (a < b => rank[a] < rank[b])
      BY <1>6, <1>7
    <3> QED
      BY <3>1, <3>2
  <2> QED
    BY <1>5, <2>1, <2>2, Zenon DEF Injection, IsInjective
<1>9. rank \in Surjection(S, 1..n)
  <2>1. IsFiniteSet(1..n) /\ Cardinality(1..n) = n
    BY <1>1, FS_Interval
  <2> QED
    BY <1>8, <2>1, FS_Injection, Zenon DEF n
<1>10. ASSUME NEW i \in 1..n PROVE order[i] \in S /\ rank[order[i]] = i
  <2>1. \E id \in S : rank[id] = i
    BY <1>9, Zenon DEF Surjection
  <2> QED
    BY <2>1
<1>11. order \in [1..n -> S]
  BY <1>10
<1> HIDE DEF order
<1>12. ASSUME NEW i \in 1..n, NEW j \in 1..n, i < j PROVE order[i] < order[j]
  <2>1. order[i] \in S /\ order[j] \in S /\ rank[order[i]] = i /\ rank[order[j]] = j
    BY <1>10
  <2>2. order[j] < order[i] => j < i
    BY <1>7, <2>1
  <2>3. order[i] # order[j]
    BY <1>12, <2>1
  <2> QED
    <3>1. i \in Int /\ j \in Int /\ ~(j < i)
      BY <1>1, <1>12
    <3>2. order[i] \in Int /\ order[j] \in Int
      BY <1>0, <2>1
    <3> QED
      BY <2>2, <2>3, <3>1, <3>2
<1>13. ASSUME NEW id \in S PROVE \E i \in 1..n : order[i] = id
  <2>1. rank[id] \in 1..n /\ order[rank[id]] \in S /\ rank[order[rank[id]]] = rank[id]
    BY <1>6, <1>10
  <2>2. order[rank[id]] = id
    BY <1>8, <1>5, <2>1, Zenon DEF Injection, IsInjective
  <2> QED
    BY <2>1, <2>2
<1>14. order \in InIdOrder(S)
  BY <1>11, <1>12, <1>13 DEF InIdOrder, n
<1> QED
  BY <1>14

-----------------------------------------------------------------------------
(***************************************************************************)
(* The log of the server.                                                  *)
(***************************************************************************)
Grows == \E more \in Seq(Event) : rosterLog' = rosterLog \o more

LEMMA StillLog ==
    ASSUME LogInv, rosterLog' = rosterLog, (clients' = clients /\ (Serving' => Serving)) \/ ~Serving'
    PROVE  LogInv' /\ Grows
<1>1. <<>> \in Seq(Event) /\ rosterLog \o <<>> = rosterLog
  BY ConcatEmptySeq DEF LogInv
<1>2. Grows
  BY <1>1, Zenon DEF Grows
<1> QED
  BY <1>2 DEF LogInv

LEMMA AppendLog ==
    ASSUME LogInv, NEW more \in Seq(Event), rosterLog' = rosterLog \o more,
           Serving' => Serving /\ clients' = RosterAfter(clients, more)
    PROVE  LogInv' /\ Grows
<1>1. rosterLog \in Seq(Event)
  BY DEF LogInv
<1>2. rosterLog \o more \in Seq(Event)
  BY <1>1, ConcatProperties, Zenon
<1>3. RosterAfter({}, rosterLog \o more) = RosterAfter(RosterAfter({}, rosterLog), more)
  BY <1>1, AfterCompose, Zenon
<1>4. Serving' => clients' = RosterAfter({}, rosterLog')
  BY <1>3, Zenon DEF LogInv
<1> QED
  BY <1>2, <1>4, Zenon DEF LogInv, Grows

LEMMA ClientsAreIds == ASSUME ServerInv PROVE clients \subseteq Ids
BY DEF ServerInv, LiveSlots, Given, Ids

LEMMA RetireLog ==
    ASSUME ServerInv, LogInv, NEW S, S \subseteq clients, Retires(S), phase' = phase
    PROVE  LogInv' /\ Grows
<1> DEFINE n == Cardinality(S)
<1>1. S \subseteq Ids
  BY ClientsAreIds
<1>2. PICK order \in InIdOrder(S) : rosterLog' = rosterLog \o [i \in 1..n |-> Left(order[i])]
  BY DEF Retires
<1>3. n \in Nat /\ order \in [1..n -> Ids] /\ Listed(order, n) = S
  BY <1>1, OrderLists
<1> DEFINE more == Leaving(order, n)
<1> HIDE DEF n
<1>4. more \in Seq(Event) /\ RosterAfter(clients, more) = clients \ S
  <2>1. more \in Seq(Event) /\ RosterAfter(clients, more) = clients \ Listed(order, n)
    BY <1>3, AfterLeft, Zenon
  <2> HIDE DEF more
  <2> QED
    BY <1>3, <2>1
<1>5. rosterLog' = rosterLog \o more
  BY <1>2, Zenon DEF Leaving
<1> HIDE DEF more
<1>6. Serving' => Serving /\ clients' = RosterAfter(clients, more)
  BY <1>4 DEF Serving, Retires
<1> QED
  BY <1>4, <1>5, <1>6, AppendLog

LEMMA JoinLog ==
    ASSUME ServerInv, LogInv, NEW token, NEW reply, Joins(token, reply), Serving
    PROVE  LogInv' /\ Grows
<1> DEFINE order == [i \in 1..1 |-> nextId]
           more == Joining(order, 1)
<1>1. nextId \in Ids /\ clients' = clients \cup {nextId}
      /\ rosterLog' = rosterLog \o <<Joined(nextId)>>
  BY Zenon DEF Joins
<1>2. 1 \in Nat /\ order \in [1..1 -> Ids] /\ Listed(order, 1) = {nextId}
      /\ <<Joined(nextId)>> = more
  BY <1>1 DEF Listed, Joining
<1> HIDE DEF order
<1>3. more \in Seq(Event) /\ RosterAfter(clients, more) = clients \cup {nextId}
  <2>1. more \in Seq(Event)
        /\ RosterAfter(clients, more) = clients \cup Listed(order, 1)
    BY <1>2, AfterJoins, Zenon
  <2> HIDE DEF more
  <2> QED
    BY <1>2, <2>1
<1> HIDE DEF more
<1>4. rosterLog' = rosterLog \o more /\ clients' = RosterAfter(clients, more)
  BY <1>1, <1>2, <1>3, Zenon
<1> QED
  BY <1>3, <1>4, AppendLog

LEMMA RosterStepLog ==
    ASSUME ServerInv, LogInv, RosterStep PROVE LogInv' /\ Grows
<1>1. CASE UNCHANGED <<clients, rosterLog>> /\ (Serving' => Serving)
  BY <1>1, StillLog
<1>2. CASE rosterLog' = rosterLog /\ ~Serving'
  BY <1>2, StillLog
<1>3. CASE UNCHANGED phase /\ \E S \in SUBSET clients : Retires(S)
  BY <1>3, RetireLog
<1> QED
  BY <1>1, <1>2, <1>3 DEF RosterStep

LEMMA UpdateLog ==
    ASSUME ServerInv, LogInv, NEW id, NEW req, HandleUpdate(id, req)
    PROVE  LogInv' /\ Grows
<1>1. UNCHANGED threadVars /\ phase' = phase
  BY HandleUpdateEffects DEF threadVars
<1>2. CASE UNCHANGED <<clients, rosterLog>>
  BY <1>1, <1>2, StillLog DEF Serving
<1>3. CASE Accepts(id, req) /\ Retires({id})
  BY <1>1, <1>3, RetireLog DEF Accepts
<1> QED
  BY <1>2, <1>3, HandleUpdateEffects

-----------------------------------------------------------------------------
(***************************************************************************)
(* The views of the clients, while the log grows.                          *)
(***************************************************************************)
LEMMA LogGrows ==
    ASSUME LogInv, Grows
    PROVE  /\ rosterLog \in Seq(Event) /\ rosterLog' \in Seq(Event)
           /\ Len(rosterLog) \in Nat /\ Len(rosterLog') \in Nat
           /\ Len(rosterLog) <= Len(rosterLog')
           /\ \A n \in 0..Len(rosterLog) : Members(rosterLog', n) = Members(rosterLog, n)
<1>1. PICK more \in Seq(Event) : rosterLog' = rosterLog \o more
  BY DEF Grows
<1>2. rosterLog \in Seq(Event)
  BY DEF LogInv
<1>3. rosterLog \o more \in Seq(Event) /\ Len(rosterLog \o more) = Len(rosterLog) + Len(more)
  BY <1>2, ConcatProperties, Zenon
<1>4. \A n \in 0..Len(rosterLog) : Members(rosterLog', n) = Members(rosterLog, n)
  BY <1>1, <1>2, MembersKept, Zenon
<1>5. rosterLog' \in Seq(Event) /\ Len(rosterLog') = Len(rosterLog) + Len(more)
  BY <1>1, <1>3, Zenon
<1>6. Len(rosterLog) \in Nat /\ Len(more) \in Nat /\ Len(rosterLog') \in Nat
  BY <1>1, <1>2, <1>5
<1> QED
  BY <1>2, <1>4, <1>5, <1>6

LEMMA ViewKept ==
    ASSUME LogInv, Grows, NEW me, View(rosterLog, me), NEW now, \A f \in Views : now[f] = me[f]
    PROVE  View(rosterLog', now)
<1>1. /\ now.rosterVersion = me.rosterVersion /\ now.rosterEvents = me.rosterEvents
      /\ now.roster = me.roster
  BY DEF Views
<1>2. me.rosterVersion \in 0..Len(rosterLog')
  BY LogGrows DEF View
<1>3. Members(rosterLog', me.rosterVersion) = Members(rosterLog, me.rosterVersion)
  BY LogGrows DEF View
<1> QED
  BY <1>1, <1>2, <1>3, Zenon DEF View

LEMMA NewsKept ==
    ASSUME LogInv, Grows, NEW version \in 0..Len(rosterLog), NEW reply,
           News(rosterLog, version, reply)
    PROVE  News(rosterLog', version, reply)
<1>1. reply.rosterVersion \in 0..Len(rosterLog')
  BY LogGrows DEF News
<1>2. /\ Members(rosterLog', version) = Members(rosterLog, version)
      /\ Members(rosterLog', reply.rosterVersion) = Members(rosterLog, reply.rosterVersion)
  BY LogGrows DEF News
<1> QED
  BY <1>1, <1>2, Zenon DEF News

\* The application takes the events that wait.
LEMMA ViewDrained ==
    ASSUME NEW log, NEW me, View(log, me), NEW now, now.rosterVersion = me.rosterVersion,
           now.rosterEvents = <<>>, now.roster = RosterAfter(me.roster, me.rosterEvents)
    PROVE  View(log, now)
<1>1. RosterAfter(now.roster, <<>>) = now.roster /\ <<>> \in Seq(Event)
  BY AfterNothing
<1> QED
  BY <1>1, Zenon DEF View

LEMMA ViewHears ==
    ASSUME NEW log, NEW me, View(log, me), NEW reply, News(log, me.rosterVersion, reply),
           NEW now, Absorbed(now, me, reply)
    PROVE  View(log, now)
<1>1. /\ now.rosterEvents = me.rosterEvents \o reply.rosterEvents
      /\ now.rosterVersion = reply.rosterVersion /\ now.roster = me.roster
  BY Zenon DEF Absorbed
<1>2. me.rosterEvents \in Seq(Event) /\ reply.rosterEvents \in Seq(Event)
  BY DEF View, News
<1>3. me.rosterEvents \o reply.rosterEvents \in Seq(Event)
  BY <1>2, ConcatProperties, Zenon
<1>4. RosterAfter(me.roster, me.rosterEvents \o reply.rosterEvents)
        = RosterAfter(RosterAfter(me.roster, me.rosterEvents), reply.rosterEvents)
  BY <1>2, AfterCompose, Zenon
<1> QED
  BY <1>1, <1>3, <1>4, Zenon DEF View, News

\* What handleUpdate tells a client is what brings it up to date.
LEMMA NewsMade ==
    ASSUME ServerInv, LogInv, NEW id \in clients, NEW req, req.id = id,
           req.rosterVersion \in 0..Len(rosterLog)
    PROVE  News(rosterLog, req.rosterVersion, UpdateAnswer(id, req))
<1> DEFINE version == req.rosterVersion
           reply == UpdateAnswer(id, req)
<1>1. reply.rosterVersion = Len(rosterLog) /\ reply.rosterEvents = RosterNews(version)
  BY DEF UpdateAnswer, UpdateReply
<1>2. Serving /\ rosterLog \in Seq(Event) /\ clients = RosterAfter({}, rosterLog)
      /\ clients \subseteq Ids
  BY ClientsAreIds DEF ServerInv, LogInv
<1> HIDE DEF reply
<1>3. CASE version = 0
  <2> DEFINE order == CHOOSE s \in InIdOrder(clients) : TRUE
             n == Cardinality(clients)
  <2>1. order \in InIdOrder(clients)
    BY <1>2, OrderExists
  <2>2. RosterNews(version) = [i \in DOMAIN order |-> Joined(order[i])]
    BY <1>3, Zenon DEF RosterNews
  <2> HIDE DEF order
  <2>3. n \in Nat /\ order \in [1..n -> Ids] /\ Listed(order, n) = clients
    BY <1>2, <2>1, OrderLists
  <2> HIDE DEF n
  <2>4. RosterNews(version) = Joining(order, n)
    BY <2>2, <2>3 DEF Joining
  <2>5. /\ Joining(order, n) \in Seq(Event)
        /\ RosterAfter({}, Joining(order, n)) = {} \cup Listed(order, n)
    BY <2>3, AfterJoins, Zenon
  <2>6. {} \cup Listed(order, n) = clients
    BY <2>3
  <2>7. Members(rosterLog, 0) = {} /\ Members(rosterLog, Len(rosterLog)) = clients
    BY <1>2, MembersNow
  <2>8. Len(rosterLog) \in 0..Len(rosterLog)
    BY <1>2
  <2> QED
    BY <1>1, <1>3, <2>4, <2>5, <2>6, <2>7, <2>8, Zenon DEF News, reply
<1>4. CASE version # 0
  <2>1. RosterNews(version) = SubSeq(rosterLog, version + 1, Len(rosterLog))
    BY <1>4, Zenon DEF RosterNews
  <2>2. /\ SubSeq(rosterLog, version + 1, Len(rosterLog)) \in Seq(Event)
        /\ RosterAfter(Members(rosterLog, version),
                       SubSeq(rosterLog, version + 1, Len(rosterLog)))
             = Members(rosterLog, Len(rosterLog))
    BY <1>2, MembersCatchUp, Zenon
  <2>3. Len(rosterLog) \in 0..Len(rosterLog)
    BY <1>2
  <2> QED
    BY <1>1, <2>1, <2>2, <2>3, Zenon DEF News, reply
<1> QED
  BY <1>3, <1>4

\* A reply that is no news, or good news, of the roster.
FineNews(c) ==
    \/ replies'[c] = NoReply
    \/ /\ replies'[c] = replies[c] /\ client'[c].rosterVersion = client[c].rosterVersion
       /\ client[c].app = "joining" => client'[c].app = "joining"
    \/ client'[c].app = "joining"
    \/ replies'[c].status = "Ok" => News(rosterLog', client'[c].rosterVersion, replies'[c])

\* A present request that says which version its client has.
FineVersion(m) ==
    \/ /\ m \in requests /\ Current(m)
       /\ client'[m.from].rosterVersion = client[m.from].rosterVersion
    \/ m.req.rosterVersion = client'[m.from].rosterVersion

LEMMA NewsStays ==
    ASSUME ViewsInv, LogInv', Grows, \A c \in Clients : View(rosterLog', client'[c]),
           \A m \in requests' : Current(m)' /\ m.port # JoinPort => FineVersion(m),
           \A c \in Clients : FineNews(c)
    PROVE  ViewsInv'
<1>1. ViewInv'
  BY DEF ViewInv
<1>2. ASSUME NEW m \in requests', Current(m)', m.port # JoinPort
      PROVE  m.req.rosterVersion = client'[m.from].rosterVersion
  BY <1>2 DEF FineVersion, ViewsInv, NewsInv
<1>3. ASSUME NEW c \in Clients, replies'[c] # NoReply, replies'[c].status = "Ok",
             client'[c].app # "joining"
      PROVE  News(rosterLog', client'[c].rosterVersion, replies'[c])
  <2>1. CASE News(rosterLog', client'[c].rosterVersion, replies'[c])
    BY <2>1
  <2>2. CASE /\ replies'[c] = replies[c] /\ client[c].app # "joining"
             /\ client'[c].rosterVersion = client[c].rosterVersion
    <3>1. News(rosterLog, client[c].rosterVersion, replies[c])
      BY <1>3, <2>2 DEF ViewsInv, NewsInv
    <3>2. client[c].rosterVersion \in 0..Len(rosterLog) /\ LogInv
      BY DEF ViewsInv, ViewInv, View
    <3>3. News(rosterLog', client[c].rosterVersion, replies[c])
      BY <3>1, <3>2, NewsKept
    <3> QED
      BY <2>2, <3>3
  <2>3. FineNews(c)
    OBVIOUS
  <2> QED
    BY <1>3, <2>1, <2>2, <2>3 DEF FineNews
<1>4. NewsInv'
  BY <1>2, <1>3 DEF NewsInv
<1> QED
  BY <1>1, <1>4 DEF ViewsInv

\* While the server does something, the clients keep their views.
LEMMA ServerViews ==
    ASSUME ViewsInv, LogInv', Grows, UNCHANGED <<client, socket>>, requests' \subseteq requests,
           \A c \in Clients : FineNews(c)
    PROVE  ViewsInv'
<1>1. ASSUME NEW c \in Clients PROVE View(rosterLog', client'[c])
  <2>1. View(rosterLog, client[c]) /\ \A f \in Views : client'[c][f] = client[c][f]
    BY DEF ViewsInv, ViewInv
  <2> QED
    BY <2>1, ViewKept DEF ViewsInv
<1>2. \A m \in requests' : Current(m)' => FineVersion(m)
  BY DEF Current, FineVersion
<1> QED
  BY <1>1, <1>2, NewsStays

\* While one client does something, the others and the log stay as they are.
LEMMA OneClientViews ==
    ASSUME ViewsInv, NEW c \in Clients, UNCHANGED serverVars, Step(c, {}),
           View(rosterLog, client[c]) => View(rosterLog, client'[c]),
           \A m \in requests' : Current(m)' /\ m.port # JoinPort => FineVersion(m),
           \A d \in Clients : FineNews(d)
    PROVE  ViewsInv'
<1>1. rosterLog' = rosterLog /\ clients' = clients /\ phase' = phase
  BY DEF serverVars, rosterVars, threadVars
<1>2. LogInv' /\ Grows
  BY <1>1, StillLog DEF ViewsInv, Serving
<1>3. \A d \in Clients : View(rosterLog', client'[d])
  BY <1>1 DEF ViewsInv, ViewInv, Step
<1> QED
  BY <1>2, <1>3, NewsStays

LEMMA SameView ==
    ASSUME NEW log, NEW c, View(log, client[c]), Step(c, Views)
    PROVE  View(log, client'[c])
<1>1. /\ client'[c].rosterVersion = client[c].rosterVersion
      /\ client'[c].rosterEvents = client[c].rosterEvents
      /\ client'[c].roster = client[c].roster
  BY DEF Step, Views
<1> QED
  BY <1>1, Zenon DEF View

LEMMA ClientStepViews ==
    ASSUME ExchangeInv, ViewsInv, NEW c \in Clients, ClientStep(c),
           UNCHANGED <<serverVars, networkVars>>
    PROVE  ViewsInv'
<1>0. ShapeInv
  BY DEF ExchangeInv
<1>1. requests' = requests /\ replies' = replies /\ socket' = socket
  BY DEF networkVars
<1>2. Step(c, {"rosterVersion"}) /\ (View(rosterLog, client[c]) => View(rosterLog, client'[c]))
  <2>1. CASE ClientDrainRoster(c)
    <3>1. /\ Step(c, Links \cup {"rosterVersion"}) /\ client'[c].rosterEvents = <<>>
          /\ client'[c].roster = RosterAfter(client[c].roster, client[c].rosterEvents)
      BY <1>0, <2>1, DataEffects
    <3>2. Step(c, {"rosterVersion"}) /\ client'[c].rosterVersion = client[c].rosterVersion
      BY <3>1 DEF Step
    <3> QED
      BY <3>1, <3>2, ViewDrained, Zenon
  <2>2. CASE ~ClientDrainRoster(c)
    <3>1. Step(c, Views)
      BY <1>0, <2>2, CallEffects, DataEffects DEF Step, ClientStep
    <3>2. Step(c, {"rosterVersion"})
      BY <3>1 DEF Step, Views
    <3> QED
      BY <3>1, <3>2, SameView
  <2> QED
    BY <2>1, <2>2
<1>3. client[c].app = "joining" => client'[c].app = "joining"
  BY ClientStepMoves DEF ExchangeInv, IdInv, Goes
<1>4. /\ \A d \in Clients \ {c} : client'[d] = client[d]
      /\ client'[c].rosterVersion = client[c].rosterVersion /\ Step(c, {})
  BY <1>2 DEF Step
<1>5. \A d \in Clients : FineNews(d)
  BY <1>1, <1>3, <1>4 DEF FineNews
<1>6. \A m \in requests' : Current(m)' => FineVersion(m)
  BY <1>1, <1>4 DEF FineVersion, Current, ExchangeInv, RequestInv
<1> QED
  BY <1>2, <1>4, <1>5, <1>6, OneClientViews

\* A client sends a request: it says which version its sender has.
LEMMA BeginViews ==
    ASSUME ExchangeInv, ViewsInv, NEW c \in Clients, Step(c, Links \cup Views),
           UNCHANGED serverVars, NEW port, NEW req, SendRequest(c, port, req),
           port # JoinPort => req.rosterVersion = client[c].rosterVersion,
           client[c].app = "joining" => client'[c].app = "joining"
    PROVE  ViewsInv'
<1>1. /\ Step(c, Views) /\ Step(c, {}) /\ client'[c].rosterVersion = client[c].rosterVersion
      /\ \A d \in Clients \ {c} : client'[d] = client[d]
  BY DEF Step, Views
<1>2. /\ replies' = replies /\ socket' = socket
      /\ \A m \in requests' : m \in requests \/ (m.from = c /\ m.port = port /\ m.req = req)
  BY DEF SendRequest
<1>3. \A m \in requests' : Current(m)' /\ m.port # JoinPort => FineVersion(m)
  BY <1>1, <1>2 DEF FineVersion, Current, ExchangeInv, RequestInv
<1>4. \A d \in Clients : FineNews(d)
  BY <1>1, <1>2 DEF FineNews
<1> QED
  BY <1>1, <1>3, <1>4, SameView, OneClientViews

LEMMA TakeReplyViews ==
    ASSUME ExchangeInv, ViewsInv, NEW c \in Clients, TakeReply(c)
    PROVE  ViewsInv'
<1> DEFINE reply == replies[c]
<1>0. ShapeInv
  BY DEF ExchangeInv
<1>1. /\ reply # NoReply /\ ReceiveReply(c, reply) /\ UNCHANGED serverVars
      /\ requests' = requests /\ socket' = socket /\ replies' = [replies EXCEPT ![c] = NoReply]
      /\ DOMAIN replies = Clients /\ reply = replies[c]
  BY DEF TakeReply, ExchangeInv, ShapeInv
<1> HIDE DEF reply
<1>2. Step(c, {}) /\ (View(rosterLog, client[c]) => View(rosterLog, client'[c]))
  <2>1. CASE UpdateOk(c, reply) \/ LeaveOk(c, reply)
    <3>1. Absorbs(c, reply) /\ reply.status = "Ok" /\ client[c].app # "joining"
      BY <1>0, <2>1, UpdateOkEffects, LeaveOkEffects DEF ExchangeInv, IdInv
    <3>2. News(rosterLog, client[c].rosterVersion, reply)
      BY <1>1, <3>1 DEF ViewsInv, NewsInv
    <3>3. Step(c, {}) /\ Absorbed(client'[c], client[c], reply)
      BY <3>1 DEF Absorbs
    <3> QED
      BY <3>2, <3>3, ViewHears
  <2>2. CASE ~(UpdateOk(c, reply) \/ LeaveOk(c, reply))
    <3>1. Step(c, Views)
      BY <1>0, <1>1, <2>2, JoinOkEffects, EndEffects DEF ReceiveReply, Step
    <3>2. Step(c, {})
      BY <3>1 DEF Step
    <3> QED
      BY <3>1, <3>2, SameView
  <2> QED
    BY <2>1, <2>2
<1>3. \A d \in Clients \ {c} : client'[d] = client[d]
  BY <1>2 DEF Step
<1>4. \A d \in Clients : FineNews(d)
  BY <1>1, <1>3 DEF FineNews
<1>5. ASSUME NEW m \in requests', Current(m)' PROVE FineVersion(m)
  <2>1. m \in requests /\ Current(m) /\ m.from \in Clients
    BY <1>1, <1>5 DEF Current, ExchangeInv, RequestInv
  <2>2. m.from # c
    BY <1>1, <2>1 DEF ExchangeInv, CurrentInv
  <2> QED
    BY <1>3, <2>1, <2>2 DEF FineVersion
<1> QED
  BY <1>1, <1>2, <1>4, <1>5, OneClientViews

LEMMA TimeoutViews ==
    ASSUME ExchangeInv, ViewsInv, NEW c \in Clients, Timeout(c)
    PROVE  ViewsInv'
<1>1. Step(c, Links \cup Views) /\ UNCHANGED serverVars
  BY TimeoutEnds DEF Timeout, ExchangeInv
<1>2. /\ Step(c, Views) /\ Step(c, {}) /\ \A d \in Clients \ {c} : client'[d] = client[d]
  BY <1>1 DEF Step, Views
<1>3. PICK k \in NewSockets(c) :
        /\ socket' = [socket EXCEPT ![c] = k]
        /\ requests' = {m \in requests : ~(m.from = c /\ m.socket = k)}
        /\ replies' = [replies EXCEPT ![c] = NoReply]
  BY DEF Timeout, Reconnect
<1>4. DOMAIN replies = Clients /\ DOMAIN socket = Clients
  BY DEF ExchangeInv, ShapeInv
<1>5. \A d \in Clients : FineNews(d)
  BY <1>2, <1>3, <1>4 DEF FineNews
<1>6. ASSUME NEW m \in requests', Current(m)' PROVE FineVersion(m)
  <2>1. m \in requests /\ m.from \in Clients /\ m.from # c
    BY <1>3, <1>4, <1>6 DEF Current, ExchangeInv, RequestInv
  <2> QED
    BY <1>2, <1>3, <1>4, <1>6, <2>1 DEF FineVersion, Current
<1> QED
  BY <1>1, <1>2, <1>5, <1>6, SameView, OneClientViews

LEMMA ServeJoinViews ==
    ASSUME ExchangeInv, ViewsInv, NEW m \in requests, ServeJoin(m)
    PROVE  ViewsInv'
<1>1. PICK reply : /\ HandleJoin(m.req.token, reply) /\ Reply(m, reply)
                   /\ UNCHANGED client /\ m.port = JoinPort
  BY DEF ServeJoin
<1>2. LogInv' /\ Grows
  <2>1. CASE UNCHANGED serverVars
    <3>1. rosterLog' = rosterLog /\ clients' = clients /\ phase' = phase
      BY <2>1 DEF serverVars, rosterVars, threadVars
    <3> QED
      BY <3>1, StillLog DEF ViewsInv, Serving
  <2>2. CASE HandleNewJoin(m.req.token, reply)
    <3>1. Joins(m.req.token, reply)
      BY <2>2, NewJoinEffects DEF ExchangeInv
    <3>2. Serving
      BY <1>1 DEF HandleJoin, ExchangeInv, ServerInv, Serving
    <3> QED
      BY <3>1, <3>2, JoinLog DEF ExchangeInv, ViewsInv
  <2> QED
    BY <1>1, <2>1, <2>2 DEF HandleJoin, HandleKnownJoin, HandleRefusedJoin
<1>3. /\ m.from \in Clients /\ requests' \subseteq requests /\ DOMAIN replies = Clients
      /\ socket' = socket
  BY <1>1 DEF Reply, ExchangeInv, RequestInv, ShapeInv
<1>4. Current(m) => client'[m.from].app = "joining"
  BY <1>1 DEF ExchangeInv, CurrentInv
<1>5. \A d \in Clients : replies'[d] = replies[d] \/ (d = m.from /\ Current(m))
  <2>1. (replies' = [replies EXCEPT ![m.from] = reply] /\ Current(m)) \/ replies' = replies
    BY <1>1 DEF Reply, Current
  <2> QED
    BY <1>3, <2>1
<1>6. \A d \in Clients : FineNews(d)
  BY <1>1, <1>4, <1>5 DEF FineNews
<1> QED
  BY <1>1, <1>2, <1>3, <1>6, ServerViews

LEMMA ServeUpdateViews ==
    ASSUME ExchangeInv, ViewsInv, NEW m \in requests, ServeUpdate(m)
    PROVE  ViewsInv'
<1> DEFINE c == m.from
<1>1. PICK id \in Given \cap Ids :
        /\ HandleUpdate(id, m.req) /\ Reply(m, UpdateAnswer(id, m.req)) /\ UNCHANGED client
        /\ m.port # JoinPort /\ m.req.id = client[c].id
  BY ServeUpdateCase
<1>2. LogInv' /\ Grows
  BY <1>1, UpdateLog DEF ExchangeInv, ViewsInv
<1>3. c \in Clients /\ requests' \subseteq requests /\ DOMAIN replies = Clients
      /\ socket' = socket
  BY <1>1 DEF Reply, ExchangeInv, RequestInv, ShapeInv
<1>4. \A d \in Clients : d # c => replies'[d] = replies[d]
  BY <1>1, <1>3 DEF Reply
<1>5. replies'[c] = replies[c] \/ (replies'[c] = UpdateAnswer(id, m.req) /\ Current(m))
  <2>1. (replies' = [replies EXCEPT ![c] = UpdateAnswer(id, m.req)] /\ Current(m))
        \/ replies' = replies
    BY <1>1, Zenon DEF Reply, Current
  <2> QED
    BY <1>3, <2>1
<1>6. ASSUME Current(m), UpdateAnswer(id, m.req).status = "Ok"
      PROVE  News(rosterLog', client'[c].rosterVersion, UpdateAnswer(id, m.req))
  <2>1. m.req.id = id /\ id \in clients
    BY <1>6 DEF UpdateAnswer, BareReply, UpdateReply
  <2>2. m.req.rosterVersion = client[c].rosterVersion
        /\ client[c].rosterVersion \in 0..Len(rosterLog)
    BY <1>1, <1>3, <1>6 DEF ViewsInv, NewsInv, ViewInv, View
  <2>3. News(rosterLog, m.req.rosterVersion, UpdateAnswer(id, m.req))
    BY <2>1, <2>2, NewsMade DEF ExchangeInv, ViewsInv
  <2> QED
    BY <1>1, <1>2, <2>2, <2>3, NewsKept DEF ViewsInv
<1> HIDE DEF c
<1>7. \A d \in Clients : FineNews(d)
  BY <1>1, <1>4, <1>5, <1>6 DEF FineNews
<1> QED
  BY <1>1, <1>2, <1>3, <1>7, ServerViews

LEMMA InitViews == ASSUME Init PROVE ViewsInv
<1> USE DEF Init, ServerInit, ClientInit
<1>1. <<>> \in Seq(Event) /\ RosterAfter({}, <<>>) = {} /\ Len(<<>>) = 0
  BY AfterNothing
<1>2. LogInv
  BY <1>1 DEF LogInv
<1>3. ASSUME NEW c \in Clients PROVE View(rosterLog, client[c])
  <2>1. client[c].rosterVersion = 0 /\ client[c].rosterEvents = <<>> /\ client[c].roster = {}
    BY DEF NewClient
  <2>2. rosterLog = <<>>
    OBVIOUS
  <2>3. Members(rosterLog, 0) = {} /\ 0 \in 0..Len(rosterLog)
    <3>1. rosterLog \in Seq(Event) /\ Len(rosterLog) = 0
      BY <1>1, <2>2
    <3>2. Members(rosterLog, 0) = {}
      BY <3>1, MembersNow, Zenon
    <3> QED
      BY <3>1, <3>2
  <2>4. RosterAfter(client[c].roster, client[c].rosterEvents) = RosterAfter({}, <<>>)
    BY <2>1
  <2>5. RosterAfter(client[c].roster, client[c].rosterEvents)
        = Members(rosterLog, client[c].rosterVersion)
    BY <1>1, <2>1, <2>3, <2>4
  <2>6. client[c].rosterVersion \in 0..Len(rosterLog) /\ client[c].rosterEvents \in Seq(Event)
    BY <1>1, <2>1, <2>2
  <2> QED
    BY <2>5, <2>6, Zenon DEF View
<1>4. NewsInv
  BY DEF NewsInv
<1> QED
  BY <1>2, <1>3, <1>4 DEF ViewsInv, ViewInv

LEMMA NextViews == ASSUME ExchangeInv, ViewsInv, [Next]_vars PROVE ViewsInv'
<1>1. CASE ServerStep /\ UNCHANGED <<client, networkVars>>
  <2>1. LogInv' /\ Grows
    BY <1>1, ServerStepEffects, RosterStepLog DEF ExchangeInv, ViewsInv
  <2>2. requests' = requests /\ \A c \in Clients : FineNews(c)
    BY <1>1 DEF FineNews, networkVars
  <2> QED
    BY <1>1, <2>1, <2>2, ServerViews DEF networkVars
<1>2. ASSUME NEW c \in Clients, CallJoin(c) PROVE ViewsInv'
  <2>1. client[c].app = "new" /\ Step(c, Links \cup Views)
    BY <1>2, BeginEffects DEF CallJoin, ExchangeInv
  <2> QED
    BY <1>2, <2>1, BeginViews DEF CallJoin
<1>3. ASSUME NEW c \in Clients, NEW kind, NEW state, Step(c, Links \cup Views),
             client[c].app # "joining", UNCHANGED serverVars,
             NEW port, SendRequest(c, port, Request(c, kind, state))
      PROVE  ViewsInv'
  <2>1. Request(c, kind, state).rosterVersion = client[c].rosterVersion
    BY DEF Request, UpdateRequest
  <2> QED
    BY <1>3, <2>1, BeginViews
<1>4. ASSUME NEW c \in Clients, CallUpdate(c) \/ CallLeave(c) PROVE ViewsInv'
  <2>1. Step(c, Links \cup Views) /\ client[c].app # "joining"
    BY <1>4, BeginEffects DEF CallUpdate, CallLeave, ExchangeInv, IdInv
  <2> QED
    BY <1>3, <1>4, <2>1 DEF CallUpdate, CallLeave
<1>5. CASE UNCHANGED vars
  <2>1. /\ UNCHANGED <<client, socket, requests, replies>>
        /\ rosterLog' = rosterLog /\ clients' = clients /\ phase' = phase
    BY <1>5 DEF vars, serverVars, rosterVars, threadVars, networkVars
  <2>2. LogInv' /\ Grows
    BY <2>1, StillLog DEF ViewsInv, Serving
  <2>3. \A c \in Clients : FineNews(c)
    BY <2>1 DEF FineNews
  <2> QED
    BY <2>1, <2>2, <2>3, ServerViews
<1> QED
  BY <1>1, <1>2, <1>4, <1>5, ClientStepViews, TakeReplyViews, TimeoutViews,
     ServeJoinViews, ServeUpdateViews DEF Next, Serve

\* Draining roster events in order always gives a roster the server had, at the version
\* the client reports, whatever replies were lost (RosterNews; Absorb).
THEOREM ViewsArePast == Spec => []RosterViewIsPastRoster
<1>1. Init => ViewsInv
  BY InitViews
<1>2. ExchangeInv /\ ViewsInv /\ [Next]_vars => ViewsInv'
  BY NextViews
<1>3. ViewsInv => RosterViewIsPastRoster
  BY DEF ViewsInv, ViewInv, View, RosterViewIsPastRoster
<1> QED
  BY <1>1, <1>2, <1>3, ExchangeAlways, PTL DEF Spec
-----------------------------------------------------------------------------
(***************************************************************************)
(* Scene states.  The newest state a client submitted waits, is being sent *)
(* or has arrived, unless the server answered that it dropped the client.  *)
(***************************************************************************)
\* For every client, whatever is lost or late and however often the application submits
\* while an exchange is under way: the newest state it submitted is the pending one, or the
\* one in the present exchange, or the server has had it or a newer one; it is lost only
\* with the connection, when the server no longer knows the client (updateLoop, which puts
\* the state of a failed exchange back unless a newer one came meanwhile).
NoStateForgotten ==
    \A c \in Clients :
        LET me == client[c] IN
        \/ me.lastTick \in {0, me.pendingState}
        \/ me.loop = "exchange" /\ me.sending = me.lastTick
        \/ me.loop = "exited" /\ ~me.connected
        \/ me.id # ServerId /\ slot[me.id].newestState >= me.lastTick

\* The state of one client, of which the server has had number n.
Safe(me, n) ==
    \/ me.lastTick \in {0, me.pendingState}
    \/ me.loop = "exchange" /\ me.sending = me.lastTick
    \/ me.loop = "exited" /\ ~me.connected
    \/ n >= me.lastTick

Keeps(me, n) ==
    /\ me.lastTick \in Nat /\ me.sending \in Nat
    /\ me.pendingState \in {None, me.lastTick}
    /\ me.loop = "exchange" /\ me.pendingState = None => me.sending \in {None, me.lastTick}
    /\ me.app \in {"new", "joining"} => me.lastTick = 0
    /\ Safe(me, n)

Newest(c) == ServerSlot(c).newestState

\* A request of the present exchange carries the state that is being sent ...
Carried(m) ==
    /\ m.port # JoinPort => m.req.state \in Nat
    /\ Current(m) /\ client[m.from].loop = "exchange" => m.req.state = client[m.from].sending

\* ... and once it is answered the server has it.
Answered(c) ==
    replies[c] # NoReply /\ client[c].loop = "exchange" /\ replies[c].status = "Ok" =>
        Newest(c) >= client[c].sending

StateInv ==
    /\ \A id \in Ids : slot[id].newestState \in Nat
    /\ \A c \in Clients : Keeps(client[c], Newest(c)) /\ Answered(c)
    /\ \A m \in requests : Carried(m)

States == {"lastTick", "pendingState", "sending"}

\* What the steps of a client do to its state.
LEMMA StepStates ==
    ASSUME ShapeInv, NEW c \in Clients
    PROVE  /\ StartUpdates(c) => Step(c, States)
           /\ LoopExit(c) \/ ApplySnapshot(c) \/ Leave(c) \/ ClientSend(c)
                 \/ ClientDrainMessages(c) \/ ClientDrainRoster(c)
              => Step(c, States \cup {"connected", "id"})
           /\ SubmitScene(c) =>
                 /\ Step(c, {"sending", "connected", "id"}) /\ client[c].id # ServerId
                 /\ client'[c].lastTick = client[c].lastTick + 1
                 /\ client'[c].pendingState = client[c].lastTick + 1
<1> USE DEF ShapeInv, ClientFields, States, Step
<1>1. StartUpdates(c) => Step(c, States)
  BY DEF StartUpdates
<1>2. LoopExit(c) \/ ApplySnapshot(c) \/ Leave(c) => Step(c, States \cup {"connected", "id"})
  BY DEF LoopExit, ApplySnapshot, Leave
<1>3. ClientSend(c) \/ ClientDrainMessages(c) \/ ClientDrainRoster(c)
      => Step(c, States \cup {"connected", "id"})
  BY DEF ClientSend, ClientDrainMessages, ClientDrainRoster
<1>4. SubmitScene(c) =>
         /\ Step(c, {"sending", "connected", "id"}) /\ client[c].id # ServerId
         /\ client'[c].lastTick = client[c].lastTick + 1
         /\ client'[c].pendingState = client[c].lastTick + 1
  BY DEF SubmitScene
<1> QED
  BY <1>1, <1>2, <1>3, <1>4

LEMMA BeginStates ==
    ASSUME ShapeInv, NEW c \in Clients
    PROVE  /\ BeginJoin(c) \/ BeginLeave(c) => Step(c, States \cup {"connected"})
           /\ BeginUpdate(c) =>
                 /\ Step(c, {"lastTick", "connected"})
                 /\ client'[c].sending = client[c].pendingState
                 /\ client'[c].pendingState = None
BY DEF ShapeInv, ClientFields, States, Step, BeginJoin, BeginLeave, BeginUpdate

LEMMA EndStates ==
    ASSUME ShapeInv, NEW c \in Clients
    PROVE  /\ JoinFails(c) => Step(c, States \cup {"connected"})
           /\ LeaveFails(c) => Step(c, States) /\ ~client'[c].connected
           /\ UpdateFails(c) =>
                 /\ Step(c, {"lastTick"}) /\ client'[c].sending = None
                 /\ client'[c].pendingState =
                       IF client[c].pendingState = None THEN client[c].sending
                       ELSE client[c].pendingState
           /\ \A reply :
                 /\ JoinOk(c, reply) => Step(c, States \cup {"connected"})
                 /\ UpdateDropped(c, reply) =>
                       /\ Step(c, {"lastTick", "pendingState"})
                       /\ client'[c].sending = None /\ ~client'[c].connected
<1> USE DEF ShapeInv, ClientFields, States, Step
<1>1. JoinFails(c) => Step(c, States \cup {"connected"})
  BY DEF JoinFails
<1>2. LeaveFails(c) => Step(c, States) /\ ~client'[c].connected
  BY DEF LeaveFails
<1>3. UpdateFails(c) =>
         /\ Step(c, {"lastTick"}) /\ client'[c].sending = None
         /\ client'[c].pendingState =
               IF client[c].pendingState = None THEN client[c].sending
               ELSE client[c].pendingState
  BY DEF UpdateFails
<1>4. ASSUME NEW reply, JoinOk(c, reply) PROVE Step(c, States \cup {"connected"})
  BY <1>4 DEF JoinOk
<1>5. ASSUME NEW reply, UpdateDropped(c, reply)
      PROVE  /\ Step(c, {"lastTick", "pendingState"})
             /\ client'[c].sending = None /\ ~client'[c].connected
  BY <1>5 DEF UpdateDropped
<1> QED
  BY <1>1, <1>2, <1>3, <1>4, <1>5

LEMMA OkStates ==
    ASSUME ShapeInv, NEW c \in Clients, NEW reply
    PROVE  /\ UpdateOk(c, reply) =>
                 Step(c, {"lastTick", "pendingState"}) /\ client'[c].sending = None
           /\ LeaveOk(c, reply) => Step(c, States) /\ ~client'[c].connected
<1> USE DEF ShapeInv, ClientFields
<1>1. /\ DOMAIN Absorb(client[c], reply) = ClientFields
      /\ \A f \in States : Absorb(client[c], reply)[f] = client[c][f]
  BY DEF Absorb, States
<1> DEFINE now == Absorb(client[c], reply)
<1>2. UpdateOk(c, reply) =>
         client' = [client EXCEPT
            ![c] = [now EXCEPT !.loop = "ready", !.connected = TRUE, !.sending = None]]
  BY DEF UpdateOk
<1>3. LeaveOk(c, reply) =>
         client' = [client EXCEPT ![c] = [now EXCEPT !.app = "left", !.connected = FALSE]]
  BY DEF LeaveOk
<1> HIDE DEF now
<1>4. DOMAIN now = ClientFields /\ \A f \in States : now[f] = client[c][f]
  BY <1>1 DEF now
<1>5. ASSUME UpdateOk(c, reply)
      PROVE  Step(c, {"lastTick", "pendingState"}) /\ client'[c].sending = None
  <2>1. /\ client'[c] = [now EXCEPT !.loop = "ready", !.connected = TRUE, !.sending = None]
        /\ DOMAIN client' = Clients /\ \A d \in Clients \ {c} : client'[d] = client[d]
    BY <1>2, <1>5
  <2>2. /\ DOMAIN client'[c] = ClientFields /\ client'[c].sending = None
        /\ client'[c].lastTick = now.lastTick /\ client'[c].pendingState = now.pendingState
    BY <1>4, <2>1
  <2> QED
    BY <1>4, <2>1, <2>2 DEF Step, States
<1>6. LeaveOk(c, reply) => Step(c, States) /\ ~client'[c].connected
  BY <1>3, <1>4 DEF Step, States
<1> QED
  BY <1>5, <1>6

LEMMA KeepsMore ==
    ASSUME NEW me, NEW n \in Nat, NEW more \in Nat, Keeps(me, n), more >= n
    PROVE  Keeps(me, more)
BY DEF Keeps, Safe

LEMMA ClientStepKeeps ==
    ASSUME ExchangeInv, NEW c \in Clients, NEW n \in Nat, Keeps(client[c], n), ClientStep(c)
    PROVE  Keeps(client'[c], n) /\ client'[c].sending = client[c].sending
<1> USE DEF Keeps, Safe
<1>0. ShapeInv
  BY DEF ExchangeInv
<1>1. CASE StartUpdates(c)
  <2>1. /\ client[c].app = "joined" /\ client[c].loop = "off" /\ Goes(c, "running", "ready")
        /\ Step(c, States)
    BY <1>0, <1>1, CallEffects, StepStates DEF ExchangeInv, IdInv
  <2> QED
    BY <2>1 DEF Goes, Step, States
<1>2. CASE SubmitScene(c)
  <2>1. /\ Goes(c, client[c].app, client[c].loop) /\ ~Nobody(c)
        /\ client'[c].sending = client[c].sending
        /\ client'[c].lastTick = client[c].lastTick + 1
        /\ client'[c].pendingState = client[c].lastTick + 1
    BY <1>0, <1>2, CallEffects, StepStates DEF ExchangeInv, IdInv, Step
  <2> QED
    BY <2>1 DEF Goes, Nobody
<1>3. CASE LoopExit(c)
  <2>1. /\ client[c].loop = "ready" /\ Goes(c, client[c].app, "exited")
        /\ Step(c, States \cup {"connected", "id"})
    BY <1>0, <1>3, CallEffects, StepStates
  <2> QED
    BY <2>1 DEF Goes, Step, States
<1>4. CASE ApplySnapshot(c) \/ Leave(c) \/ ClientSend(c) \/ ClientDrainMessages(c)
           \/ ClientDrainRoster(c)
  <2>1. /\ client'[c].loop = client[c].loop
        /\ client'[c].app = client[c].app \/ client'[c].app = "leaving"
        /\ Step(c, States \cup {"connected", "id"})
    BY <1>0, <1>4, CallEffects, DataEffects, StepStates DEF Goes
  <2> QED
    BY <2>1 DEF Step, States
<1> QED
  BY <1>1, <1>2, <1>3, <1>4 DEF ClientStep

LEMMA BeginKeeps ==
    ASSUME ExchangeInv, NEW c \in Clients, NEW n \in Nat, Keeps(client[c], n),
           BeginJoin(c) \/ BeginUpdate(c) \/ BeginLeave(c)
    PROVE  Keeps(client'[c], n)
<1> USE DEF Keeps, Safe
<1>0. ShapeInv
  BY DEF ExchangeInv
<1>1. CASE BeginJoin(c)
  <2>1. /\ client[c].app = "new" /\ client[c].loop = "off" /\ Goes(c, "joining", "off")
        /\ Step(c, States \cup {"connected"})
    BY <1>0, <1>1, BeginEffects, BeginStates DEF ExchangeInv, IdInv
  <2> QED
    BY <2>1 DEF Goes, Step, States
<1>2. CASE BeginUpdate(c)
  <2>1. /\ client[c].loop = "ready" /\ Goes(c, client[c].app, "exchange")
        /\ client'[c].lastTick = client[c].lastTick
        /\ client'[c].sending = client[c].pendingState /\ client'[c].pendingState = None
    BY <1>0, <1>2, BeginEffects, BeginStates DEF Step
  <2> QED
    BY <2>1 DEF Goes
<1>3. CASE BeginLeave(c)
  <2>1. /\ client[c].app = "leaving" /\ Goes(c, "leaveSent", client[c].loop)
        /\ Step(c, States \cup {"connected"})
    BY <1>0, <1>3, BeginEffects, BeginStates
  <2> QED
    BY <2>1 DEF Goes, Step, States
<1> QED
  BY <1>1, <1>2, <1>3

LEMMA FailKeeps ==
    ASSUME ExchangeInv, NEW c \in Clients, NEW n \in Nat, Keeps(client[c], n),
           JoinFails(c) \/ UpdateFails(c) \/ LeaveFails(c)
    PROVE  Keeps(client'[c], n)
<1> USE DEF Keeps, Safe
<1>0. ShapeInv
  BY DEF ExchangeInv
<1>1. CASE JoinFails(c)
  <2>1. /\ client[c].app = "joining" /\ Goes(c, "new", client[c].loop)
        /\ Step(c, States \cup {"connected"})
    BY <1>0, <1>1, EndEffects, EndStates
  <2> QED
    BY <2>1 DEF Goes, Step, States
<1>2. CASE UpdateFails(c)
  <2>1. /\ client[c].loop = "exchange" /\ Goes(c, client[c].app, "ready")
        /\ client'[c].lastTick = client[c].lastTick /\ client'[c].sending = None
        /\ client'[c].pendingState = IF client[c].pendingState = None THEN client[c].sending
                                     ELSE client[c].pendingState
    BY <1>0, <1>2, EndEffects, EndStates DEF Step
  <2> QED
    BY <2>1 DEF Goes
<1>3. CASE LeaveFails(c)
  <2>1. /\ client[c].app = "leaveSent" /\ Goes(c, "left", client[c].loop)
        /\ Step(c, States) /\ ~client'[c].connected
    BY <1>0, <1>3, EndEffects, EndStates
  <2> QED
    BY <2>1 DEF Goes, Step, States
<1> QED
  BY <1>1, <1>2, <1>3

LEMMA ReplyKeeps ==
    ASSUME ExchangeInv, NEW c \in Clients, NEW n \in Nat, Keeps(client[c], n), NEW reply,
           ReceiveReply(c, reply), UpdateOk(c, reply) => n >= client[c].sending
    PROVE  Keeps(client'[c], n)
<1> USE DEF Keeps, Safe
<1>0. ShapeInv
  BY DEF ExchangeInv
<1>1. CASE JoinOk(c, reply)
  <2>1. /\ client[c].app = "joining" /\ client[c].loop = "off" /\ Goes(c, "joined", "off")
        /\ Step(c, States \cup {"connected"})
    BY <1>0, <1>1, JoinOkEffects, EndStates DEF ExchangeInv, IdInv
  <2> QED
    BY <2>1 DEF Goes, Step, States
<1>2. CASE UpdateOk(c, reply)
  <2>1. /\ client[c].loop = "exchange" /\ Goes(c, client[c].app, "ready")
        /\ Step(c, {"lastTick", "pendingState"}) /\ client'[c].sending = None
        /\ n >= client[c].sending
    BY <1>0, <1>2, UpdateOkEffects, OkStates
  <2> QED
    BY <2>1 DEF Goes, Step
<1>3. CASE UpdateDropped(c, reply)
  <2>1. /\ client[c].loop = "exchange" /\ Goes(c, client[c].app, "exited")
        /\ Step(c, {"lastTick", "pendingState"})
        /\ client'[c].sending = None /\ ~client'[c].connected
    BY <1>0, <1>3, EndEffects, EndStates
  <2> QED
    BY <2>1 DEF Goes, Step
<1>4. CASE LeaveOk(c, reply)
  <2>1. /\ client[c].app = "leaveSent" /\ Goes(c, "left", client[c].loop)
        /\ Step(c, States) /\ ~client'[c].connected
    BY <1>0, <1>4, LeaveOkEffects, OkStates
  <2> QED
    BY <2>1 DEF Goes, Step, States
<1> QED
  BY <1>1, <1>2, <1>3, <1>4, FailKeeps DEF ReceiveReply

\* What the server has had of a client never gets less.
LEMMA NewestIs ==
    ASSUME ExchangeInv, StateInv, NEW c \in Clients
    PROVE  /\ Newest(c) \in Nat
           /\ Newest(c) = IF client[c].id = ServerId THEN 0 ELSE slot[client[c].id].newestState
           /\ client[c].id # ServerId => client[c].id \in Given \cap Ids
<1>1. Newest(c) = IF client[c].id = ServerId THEN 0 ELSE slot[client[c].id].newestState
  BY DEF Newest, ServerSlot, NewSlot
<1>2. client[c].id # ServerId => client[c].id \in Given \cap Ids
  BY DEF ExchangeInv, IdInv, Nobody, Owns, ServerInv, Given, Ids
<1> QED
  BY <1>1, <1>2 DEF StateInv

Grown == \A id \in Ids : /\ slot'[id].newestState \in Nat
                         /\ id \in Given => slot'[id].newestState >= slot[id].newestState

LEMMA ServerKeeps ==
    ASSUME ExchangeInv, StateInv, UNCHANGED client, Grown
    PROVE  \A c \in Clients : /\ Newest(c)' \in Nat /\ Newest(c)' >= Newest(c)
                              /\ Keeps(client[c], Newest(c))'
<1> SUFFICES ASSUME NEW c \in Clients
             PROVE  /\ Newest(c)' \in Nat /\ Newest(c)' >= Newest(c)
                    /\ Keeps(client[c], Newest(c))'
  OBVIOUS
<1>1. /\ Newest(c) \in Nat
      /\ Newest(c) = IF client[c].id = ServerId THEN 0 ELSE slot[client[c].id].newestState
      /\ client[c].id # ServerId => client[c].id \in Given \cap Ids
  BY NewestIs
<1>2. Newest(c)' = IF client[c].id = ServerId THEN 0 ELSE slot'[client[c].id].newestState
  BY DEF Newest, ServerSlot, NewSlot
<1>3. Newest(c)' >= Newest(c) /\ Newest(c)' \in Nat
  BY <1>1, <1>2 DEF Grown
<1>4. Keeps(client[c], Newest(c))
  BY DEF StateInv
<1>5. Keeps(client[c], Newest(c)')
  BY <1>1, <1>3, <1>4, KeepsMore
<1> QED
  BY <1>3, <1>5

LEMMA StillStates ==
    ASSUME ExchangeInv, StateInv, UNCHANGED <<client, networkVars>>, Grown
    PROVE  StateInv'
<1>1. \A c \in Clients : /\ Newest(c)' \in Nat /\ Newest(c)' >= Newest(c)
                         /\ Keeps(client[c], Newest(c))'
  BY ServerKeeps
<1>2. \A c \in Clients : client[c].sending \in Nat /\ Newest(c) \in Nat /\ Newest(c)' \in Nat
  BY <1>1, NewestIs DEF StateInv, Keeps
<1>3. \A c \in Clients : Answered(c)'
  BY <1>1, <1>2 DEF StateInv, Answered, networkVars
<1>4. \A m \in requests' : Carried(m)'
  BY DEF StateInv, Carried, Current, networkVars
<1> QED
  BY <1>1, <1>3, <1>4 DEF StateInv, Grown

\* The slots' numbers change with the requests that are handled, and for a new client.
LEMMA ServerStepStates ==
    ASSUME ExchangeInv, StateInv, ServerStep, UNCHANGED <<client, networkVars>>
    PROVE  StateInv'
<1>1. MessageStep /\ ShapeInv
  BY ServerStepEffects DEF ExchangeInv
<1>2. \A id \in Ids : slot'[id].newestState = slot[id].newestState
  <2>1. CASE slot' = slot
    BY <2>1
  <2>2. CASE \E S \in SUBSET clients : Enqueue(S)
    <3>1. PICK S : Enqueue(S)
      BY <2>2
    <3> SUFFICES ASSUME NEW id \in Ids PROVE slot'[id].newestState = slot[id].newestState
      OBVIOUS
    <3> DEFINE message == WireMessage(slot[id].nextSendSeq, <<id, slot[id].sent + 1>>)
    <3>2. /\ id \in S => slot'[id] = [slot[id] EXCEPT !.outbox = @ \cup {message},
                                                     !.nextSendSeq = @ + 1, !.sent = @ + 1]
          /\ id \notin S => slot'[id] = slot[id]
      BY <3>1, Zenon DEF Enqueue
    <3>3. DOMAIN slot[id] = SlotFields
      BY <1>1 DEF ShapeInv
    <3> QED
      BY <3>2, <3>3, Zenon DEF SlotFields
  <2> QED
    BY <1>1, <2>1, <2>2 DEF MessageStep
<1>3. Grown
  BY <1>2 DEF Grown, StateInv
<1> QED
  BY <1>3, StillStates

LEMMA ReceiveNewest ==
    ASSUME ShapeInv, NEW id \in Ids, NEW req, ReceiveUpdate(id, req), req.state \in Nat,
           \A i \in Ids : slot[i].newestState \in Nat
    PROVE  Grown /\ slot'[id].newestState >= req.state
<1>1. /\ \A other \in Ids \ {id} : slot'[other] = slot[other]
      /\ slot'[id].newestState =
            IF req.state > slot[id].newestState THEN req.state ELSE slot[id].newestState
  BY DEF ShapeInv, SlotFields, ReceiveUpdate
<1> QED
  BY <1>1 DEF Grown

\* A step of client c alone, which sends nothing.
LEMMA ClientStepStates ==
    ASSUME ExchangeInv, StateInv, NEW c \in Clients, ClientStep(c),
           UNCHANGED <<serverVars, networkVars>>
    PROVE  StateInv'
<1>1. slot' = slot /\ UNCHANGED <<requests, replies, socket>>
  BY DEF serverVars, slotVars, networkVars
<1>2. /\ client'[c].id = client[c].id /\ \A d \in Clients \ {c} : client'[d] = client[d]
      /\ client'[c].loop = "exchange" => client[c].loop = "exchange"
  BY ClientStepMoves DEF ExchangeInv, Step, Goes
<1>3. \A d \in Clients : Newest(d)' = Newest(d)
  BY <1>1, <1>2 DEF Newest, ServerSlot, NewSlot
<1>4. Keeps(client'[c], Newest(c)) /\ client'[c].sending = client[c].sending
  BY NewestIs, ClientStepKeeps DEF StateInv
<1>5. \A d \in Clients : Keeps(client'[d], Newest(d))
  BY <1>2, <1>4 DEF StateInv
<1>6. \A d \in Clients : Answered(d)'
  BY <1>1, <1>2, <1>3, <1>4 DEF StateInv, Answered
<1>7. \A m \in requests' : Carried(m)'
  <2> SUFFICES ASSUME NEW m \in requests PROVE Carried(m)'
    BY <1>1
  <2>1. Carried(m) /\ m.from \in Clients
    BY DEF StateInv, ExchangeInv, RequestInv
  <2> QED
    BY <1>1, <1>2, <1>4, <2>1 DEF Carried, Current
<1>8. \A d \in Clients : Keeps(client[d], Newest(d))'
  BY <1>3, <1>5
<1> QED
  BY <1>1, <1>6, <1>7, <1>8 DEF StateInv

LEMMA SendStates ==
    ASSUME ExchangeInv, StateInv, NEW c \in Clients, NEW m, Sends(c, m), slot' = slot,
           Step(c, {"id"}), ~Exchanging(c), Keeps(client'[c], Newest(c)),
           m.port # JoinPort => m.req.state \in Nat,
           client'[c].loop = "exchange" => m.req.state = client'[c].sending
    PROVE  StateInv'
<1>1. client'[c].id = client[c].id /\ \A d \in Clients \ {c} : client'[d] = client[d]
  BY DEF Step
<1>2. \A d \in Clients : Newest(d)' = Newest(d)
  BY <1>1 DEF Newest, ServerSlot, NewSlot
<1>3. \A d \in Clients : Keeps(client'[d], Newest(d))
  BY <1>1 DEF StateInv
<1>4. replies' = replies /\ replies[c] = NoReply
  BY DEF Sends, ExchangeInv, ReplyInv
<1>5. \A d \in Clients : Answered(d)'
  BY <1>1, <1>2, <1>4 DEF StateInv, Answered
<1>6. Carried(m)'
  BY DEF Sends, Carried
<1>7. ASSUME NEW n \in requests PROVE Carried(n)'
  <2>1. Carried(n) /\ n.from \in Clients /\ (Current(n) => n.from # c)
    BY DEF StateInv, ExchangeInv, RequestInv, CurrentInv
  <2>2. Current(n)' = Current(n)
    BY DEF Sends, Current
  <2> QED
    BY <1>1, <2>1, <2>2 DEF Carried
<1>8. \A d \in Clients : Keeps(client[d], Newest(d))'
  BY <1>2, <1>3
<1> QED
  BY <1>5, <1>6, <1>7, <1>8 DEF StateInv, Sends

LEMMA CallsStates ==
    ASSUME ExchangeInv, StateInv, NEW c \in Clients,
           CallJoin(c) \/ CallUpdate(c) \/ CallLeave(c)
    PROVE  StateInv'
<1>0. /\ ShapeInv /\ IdInv /\ Newest(c) \in Nat /\ Keeps(client[c], Newest(c))
      /\ slot' = slot
  BY NewestIs DEF ExchangeInv, StateInv, CallJoin, CallUpdate, CallLeave, serverVars, slotVars
<1>1. CASE CallJoin(c)
  <2> DEFINE m == [from |-> c, socket |-> socket[c], port |-> JoinPort, req |-> [token |-> c]]
  <2>1. Sends(c, m) /\ m.port = JoinPort
    BY <1>1 DEF CallJoin, SendRequest, Sends
  <2>2. /\ client[c].app = "new" /\ client[c].loop = "off" /\ client'[c].loop = "off"
        /\ Step(c, {"id"})
    BY <1>0, <1>1, BeginEffects DEF CallJoin, IdInv, Goes, Step, Links
  <2>3. Keeps(client'[c], Newest(c))
    BY <1>0, <1>1, BeginKeeps DEF CallJoin
  <2>4. ~Exchanging(c) /\ client'[c].loop # "exchange"
    BY <2>2 DEF Exchanging
  <2> HIDE DEF m
  <2> QED
    BY <1>0, <2>1, <2>2, <2>3, <2>4, SendStates
<1>2. CASE CallUpdate(c)
  <2> DEFINE m == [from |-> c, socket |-> socket[c], port |-> client[c].updatePort,
                   req |-> Request(c, "Update", client[c].pendingState)]
  <2>1. Sends(c, m) /\ m.req.state = client[c].pendingState
    BY <1>2 DEF CallUpdate, SendRequest, Sends, Request, UpdateRequest
  <2>2. /\ client[c].loop = "ready" /\ Step(c, Links \cup Views)
        /\ client'[c].sending = client[c].pendingState
    BY <1>0, <1>2, BeginEffects, BeginStates DEF CallUpdate
  <2>3. ~Exchanging(c) /\ Step(c, {"id"})
    BY <1>0, <2>2 DEF Exchanging, IdInv, Step, Links
  <2>4. Keeps(client'[c], Newest(c))
    BY <1>0, <1>2, BeginKeeps DEF CallUpdate
  <2>5. client[c].pendingState \in Nat
    BY <1>0 DEF Keeps
  <2> HIDE DEF m
  <2> QED
    BY <1>0, <2>1, <2>2, <2>3, <2>4, <2>5, SendStates
<1>3. CASE CallLeave(c)
  <2> DEFINE m == [from |-> c, socket |-> socket[c], port |-> client[c].updatePort,
                   req |-> Request(c, "Leave", None)]
  <2>1. Sends(c, m) /\ m.req.state = None
    BY <1>3 DEF CallLeave, SendRequest, Sends, Request, UpdateRequest
  <2>2. /\ client[c].app = "leaving" /\ client[c].loop \in {"off", "exited"}
        /\ client'[c].loop = client[c].loop /\ Step(c, {"id"})
    BY <1>0, <1>3, BeginEffects DEF CallLeave, Goes, Step, Links
  <2>3. Keeps(client'[c], Newest(c))
    BY <1>0, <1>3, BeginKeeps DEF CallLeave
  <2> HIDE DEF m
  <2> QED
    BY <1>0, <2>1, <2>2, <2>3, SendStates DEF Exchanging
<1> QED
  BY <1>1, <1>2, <1>3

\* The exchange of client c ends.
LEMMA EndsStates ==
    ASSUME ExchangeInv, StateInv, NEW c \in Clients, Step(c, {}), slot' = slot,
           requests' \subseteq requests, replies'[c] = NoReply,
           \A d \in Clients \ {c} : replies'[d] = replies[d] /\ socket'[d] = socket[d],
           \A m \in requests' : m.from = c => m.socket # socket'[c],
           Keeps(client[c], Newest(c))'
    PROVE  StateInv'
<1>1. \A d \in Clients \ {c} : client'[d] = client[d]
  BY DEF Step
<1>2. \A d \in Clients \ {c} : Newest(d)' = Newest(d)
  BY <1>1 DEF Newest, ServerSlot, NewSlot
<1>3. \A d \in Clients \ {c} : Keeps(client[d], Newest(d))'
  BY <1>1, <1>2 DEF StateInv
<1>4. \A d \in Clients : Answered(d)'
  BY <1>1, <1>2 DEF StateInv, Answered
<1>5. ASSUME NEW m \in requests' PROVE Carried(m)'
  <2>1. Carried(m) /\ m.from \in Clients
    BY DEF StateInv, ExchangeInv, RequestInv
  <2>2. CASE m.from = c
    BY <2>1, <2>2 DEF Carried, Current
  <2>3. CASE m.from # c
    BY <1>1, <2>1, <2>3 DEF Carried, Current
  <2> QED
    BY <2>2, <2>3
<1> QED
  BY <1>3, <1>4, <1>5 DEF StateInv

LEMMA TakeReplyStates ==
    ASSUME ExchangeInv, StateInv, NEW c \in Clients, TakeReply(c)
    PROVE  StateInv'
<1> DEFINE reply == replies[c]
<1>1. /\ reply # NoReply /\ ReceiveReply(c, reply) /\ slot' = slot
      /\ replies' = [replies EXCEPT ![c] = NoReply] /\ UNCHANGED <<requests, socket>>
  BY DEF TakeReply, serverVars, slotVars
<1>2. /\ ShapeInv /\ IdInv /\ ReplyInv /\ DOMAIN replies = Clients
      /\ \A m \in requests : m.from = c => m.socket # socket[c]
  BY <1>1 DEF ExchangeInv, ShapeInv, CurrentInv, Current
<1>3. Newest(c) \in Nat /\ Keeps(client[c], Newest(c)) /\ Answered(c)
  BY NewestIs DEF StateInv
<1>4. UpdateOk(c, reply) => Newest(c) >= client[c].sending
  BY <1>1, <1>3 DEF UpdateOk, Answered
<1>5. Keeps(client'[c], Newest(c))
  BY <1>1, <1>3, <1>4, ReplyKeeps
<1>6. CASE Ends(c)
  <2>1. Step(c, {}) /\ client'[c].id = client[c].id
    BY <1>6 DEF Ends, Step
  <2>2. Newest(c)' = Newest(c)
    BY <1>1, <2>1 DEF Newest, ServerSlot, NewSlot
  <2>3. Keeps(client[c], Newest(c))'
    BY <1>5, <2>2
  <2> QED
    BY <1>1, <1>2, <2>1, <2>3, EndsStates
<1>7. CASE JoinOk(c, reply)
  <2>1. /\ client[c].app = "joining" /\ Goes(c, "joined", client[c].loop)
        /\ client'[c].id = reply.id /\ Step(c, States)
    BY <1>2, <1>7, JoinOkEffects, EndStates DEF Step
  <2>2. Owns(c, reply.id) /\ client[c].loop = "off" /\ client[c].lastTick = 0
    BY <1>1, <1>2, <1>3, <1>7, <2>1 DEF ReplyInv, IdInv, Keeps, JoinOk
  <2>3. reply.id \in Ids
    BY <2>2 DEF Owns, Given, Ids, ExchangeInv, ServerInv
  <2>4. Newest(c)' \in Nat
    BY <1>1, <2>1, <2>3 DEF Newest, ServerSlot, NewSlot, StateInv
  <2>5. Keeps(client[c], Newest(c))'
    BY <1>3, <2>1, <2>2, <2>4 DEF Keeps, Safe, Goes, Step, States
  <2> HIDE DEF reply
  <2> QED
    BY <1>1, <1>2, <2>1, <2>5, EndsStates DEF Step
<1> QED
  BY <1>1, <1>2, <1>6, <1>7, ReplyEnds

LEMMA TimeoutStates ==
    ASSUME ExchangeInv, StateInv, NEW c \in Clients, Timeout(c)
    PROVE  StateInv'
<1>1. PICK k \in NewSockets(c) :
        /\ socket' = [socket EXCEPT ![c] = k]
        /\ requests' = {m \in requests : ~(m.from = c /\ m.socket = k)}
        /\ replies' = [replies EXCEPT ![c] = NoReply]
  BY DEF Timeout, Reconnect
<1>2. /\ NoReplyInTime(c) /\ slot' = slot
      /\ ShapeInv /\ DOMAIN replies = Clients /\ DOMAIN socket = Clients
  BY DEF Timeout, serverVars, slotVars, ExchangeInv, ShapeInv
<1>3. Ends(c) /\ Step(c, {}) /\ client'[c].id = client[c].id
  BY <1>2, TimeoutEnds DEF Ends, Step
<1>4. Newest(c)' = Newest(c)
  BY <1>2, <1>3 DEF Newest, ServerSlot, NewSlot
<1>5. Keeps(client'[c], Newest(c))
  BY <1>2, NewestIs, FailKeeps DEF StateInv, NoReplyInTime
<1>6. Keeps(client[c], Newest(c))'
  BY <1>4, <1>5
<1> QED
  BY <1>1, <1>2, <1>3, <1>6, EndsStates

\* The server handles request m, and its client has the state it carried.
LEMMA ServeStates ==
    ASSUME ExchangeInv, StateInv, NEW m \in requests, NEW reply, Reply(m, reply),
           UNCHANGED client, Grown,
           Current(m) /\ client[m.from].loop = "exchange" /\ reply.status = "Ok" =>
              Newest(m.from)' >= client[m.from].sending
    PROVE  StateInv'
<1>1. \A d \in Clients : /\ Newest(d)' \in Nat /\ Newest(d)' >= Newest(d)
                         /\ Keeps(client[d], Newest(d))'
  BY ServerKeeps
<1>2. \A d \in Clients : replies'[d] = IF d = m.from /\ Current(m) THEN reply ELSE replies[d]
  BY DEF ExchangeInv, Reply, Current, ShapeInv, RequestInv
<1>3. ASSUME NEW d \in Clients PROVE Answered(d)'
  <2>1. CASE d = m.from /\ Current(m)
    BY <1>2, <2>1 DEF Answered
  <2>2. CASE ~(d = m.from /\ Current(m))
    <3>1. Answered(d) /\ Newest(d) \in Nat /\ client[d].sending \in Nat
      BY NewestIs DEF StateInv, Keeps
    <3> QED
      BY <1>1, <1>2, <2>2, <3>1 DEF Answered
  <2> QED
    BY <2>1, <2>2
<1>4. \A n \in requests' : Carried(n)'
  BY DEF StateInv, Carried, Current, Reply
<1> QED
  BY <1>1, <1>3, <1>4 DEF StateInv, Grown

LEMMA ServeJoinStates ==
    ASSUME ExchangeInv, StateInv, NEW m \in requests, ServeJoin(m)
    PROVE  StateInv'
<1>1. PICK status, id, port :
        /\ HandleJoin(m.req.token, JoinReply(status, id, port))
        /\ Reply(m, JoinReply(status, id, port))
  BY DEF ServeJoin
<1> DEFINE reply == JoinReply(status, id, port)
<1>2. /\ HandleJoin(m.req.token, reply) /\ Reply(m, reply)
      /\ UNCHANGED client /\ m.port = JoinPort /\ m.from \in Clients
  BY <1>1 DEF ServeJoin, ExchangeInv, RequestInv
<1> HIDE DEF reply
<1>3. Current(m) => client[m.from].loop # "exchange"
  BY <1>2 DEF ExchangeInv, CurrentInv, IdInv
<1>4. Grown
  <2>1. CASE HandleNewJoin(m.req.token, reply)
    <3>1. Joins(m.req.token, reply)
      BY <2>1, NewJoinEffects DEF ExchangeInv
    <3>2. slot'[nextId].newestState = 0 /\ \A i \in Ids \ {nextId} : slot'[i] = slot[i]
      BY <3>1 DEF Joins, SlotStep, NewSlot
    <3>3. nextId \notin Given
      BY DEF ExchangeInv, ServerInv, Given
    <3> QED
      BY <3>2, <3>3 DEF Grown, StateInv
  <2>2. CASE HandleKnownJoin(m.req.token, reply) \/ HandleRefusedJoin(m.req.token, reply)
    BY <2>2 DEF HandleKnownJoin, HandleRefusedJoin, serverVars, slotVars, Grown, StateInv
  <2> QED
    BY <1>2, <2>1, <2>2 DEF HandleJoin
<1> QED
  BY <1>2, <1>3, <1>4, ServeStates

LEMMA ServeUpdateStates ==
    ASSUME ExchangeInv, StateInv, NEW m \in requests, ServeUpdate(m)
    PROVE  StateInv'
<1>1. PICK id \in Given \cap Ids :
        /\ HandleUpdate(id, m.req) /\ Reply(m, UpdateAnswer(id, m.req)) /\ UNCHANGED client
        /\ m.port # JoinPort /\ m.req.id = client[m.from].id
  BY ServeUpdateCase
<1>2. /\ ShapeInv /\ m.from \in Clients /\ m.req.state \in Nat /\ Carried(m)
      /\ \A i \in Ids : slot[i].newestState \in Nat
  BY <1>1 DEF ExchangeInv, RequestInv, StateInv, Carried
<1>3. CASE Accepts(id, m.req)
  <2>1. Grown /\ slot'[id].newestState >= m.req.state /\ m.req.id = id
    BY <1>2, <1>3, ReceiveNewest DEF Accepts
  <2>2. Newest(m.from)' = slot'[id].newestState
    BY <1>1, <2>1 DEF Newest, ServerSlot, Ids
  <2>3. Current(m) /\ client[m.from].loop = "exchange" =>
           Newest(m.from)' >= client[m.from].sending
    BY <1>2, <2>1, <2>2 DEF Carried
  <2> QED
    BY <1>1, <2>1, <2>3, ServeStates
<1>4. CASE slot' = slot /\ (m.req.id # id \/ id \notin clients)
  <2>1. Grown
    BY <1>2, <1>4 DEF Grown
  <2>2. UpdateAnswer(id, m.req).status # "Ok"
    BY <1>4 DEF UpdateAnswer, BareReply, UpdateReply
  <2> QED
    BY <1>1, <2>1, <2>2, ServeStates
<1> QED
  BY <1>1, <1>3, <1>4, HandleUpdateEffects

LEMMA InitStates == ASSUME Init PROVE StateInv
<1> USE DEF Init, ServerInit, ClientInit
<1>1. ASSUME NEW c \in Clients PROVE Keeps(client[c], Newest(c)) /\ Answered(c)
  BY DEF Keeps, Safe, Answered, Newest, ServerSlot, NewClient, NewSlot
<1>2. \A id \in Ids : slot[id].newestState \in Nat
  BY DEF NewSlot
<1> QED
  BY <1>1, <1>2 DEF StateInv

LEMMA NextStates == ASSUME ExchangeInv, StateInv, [Next]_vars PROVE StateInv'
<1>1. CASE UNCHANGED vars
  BY <1>1, StillStates DEF vars, serverVars, slotVars, Grown, StateInv
<1>2. CASE Next
  BY <1>2, ServerStepStates, ClientStepStates, CallsStates, TakeReplyStates, TimeoutStates,
     ServeJoinStates, ServeUpdateStates DEF Next, Serve
<1> QED
  BY <1>1, <1>2

\* A submitted state is never forgotten while the server knows the client, whatever is lost,
\* late or misdirected: why NewestStateArrives may hold at all (updateLoop).
THEOREM StatesKept == Spec => []NoStateForgotten
<1>1. Init => StateInv
  BY InitStates
<1>2. ExchangeInv /\ StateInv /\ [Next]_vars => StateInv'
  BY NextStates
<1>3. ASSUME ExchangeInv, StateInv PROVE NoStateForgotten
  <2> SUFFICES ASSUME NEW c \in Clients
               PROVE  LET me == client[c] IN
                      \/ me.lastTick \in {0, me.pendingState}
                      \/ me.loop = "exchange" /\ me.sending = me.lastTick
                      \/ me.loop = "exited" /\ ~me.connected
                      \/ me.id # ServerId /\ slot[me.id].newestState >= me.lastTick
    BY DEF NoStateForgotten
  <2>1. /\ Keeps(client[c], Newest(c))
        /\ Newest(c) = IF client[c].id = ServerId THEN 0 ELSE slot[client[c].id].newestState
    BY <1>3, NewestIs DEF StateInv
  <2>2. client[c].lastTick \in Nat /\ Safe(client[c], Newest(c))
    BY <2>1 DEF Keeps
  <2> QED
    BY <2>1, <2>2 DEF Safe
<1> QED
  BY <1>1, <1>2, <1>3, ExchangeAlways, PTL DEF Spec
=============================================================================
