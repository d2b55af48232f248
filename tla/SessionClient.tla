---------------------------- MODULE SessionClient ----------------------------
(***************************************************************************)
(* sessionClient (src/networking/sessionClient.cpp): the owner's calls     *)
(* join, start and leave, the update thread's loop, and the calls of the   *)
(* application.  One record per client process holds the members of impl.  *)
(*                                                                         *)
(* A step is one critical section of the client's mutex, together with the *)
(* send or the receive next to it.  The update loop may start an exchange  *)
(* at any time: it wakes for state, messages and polls, and otherwise for  *)
(* a heartbeat, so pollRequested only changes how soon it does.            *)
(***************************************************************************)
EXTENDS SessionServer

CONSTANTS
    MaxClientSends,  \* bound: calls of send per client
    MaxTicks         \* bound: calls of submitScene per client

Clients == Tokens       \* randomToken() gives every client process its own

VARIABLE client

NewClient ==
    [app |-> "new",             \* where the owner is: new, joining, joined,
                                \* running, leaving, leaveSent, left
     loop |-> "off",            \* update thread: off, ready, exchange, exited
     id |-> ServerId, updatePort |-> 0, connected |-> FALSE,
     outbox |-> {}, nextSendSeq |-> 1, lastReceivedSeq |-> 0, inbox |-> <<>>,
     rosterVersion |-> 0, rosterEvents |-> <<>>,
     pendingState |-> None,
     sending |-> None,          \* the state in the request being exchanged
     lastTick |-> 0, latestSnapshot |-> None,
     sent |-> 0,                \* history: calls of send
     roster |-> {},             \* history: roster the application drained
     applied |-> 0]             \* history: newest snapshot the application took

ClientInit == client = [c \in Clients |-> NewClient]

-----------------------------------------------------------------------------
(***************************************************************************)
(* Requests.  stopping is raised by leave().                               *)
(***************************************************************************)
Stopping(c) == client[c].app \in {"leaving", "leaveSent", "left"}

Request(c, kind, state) ==
    UpdateRequest(kind, client[c].id, client[c].lastReceivedSeq,
                  client[c].rosterVersion, state, client[c].outbox)

-----------------------------------------------------------------------------
(***************************************************************************)
(* join(): one attempt, with the same token every time.                    *)
(***************************************************************************)
BeginJoin(c) ==
    /\ client[c].app = "new"
    /\ client' = [client EXCEPT ![c].app = "joining"]

JoinOk(c, reply) ==
    /\ client[c].app = "joining" /\ reply.status = "Ok"
    /\ client' = [client EXCEPT ![c].app = "joined", ![c].id = reply.id,
                                ![c].updatePort = reply.updatePort]

JoinFails(c) ==
    /\ client[c].app = "joining"
    /\ client' = [client EXCEPT ![c].app = "new"]

StartUpdates(c) ==
    /\ client[c].app = "joined"
    /\ client' = [client EXCEPT ![c].app = "running", ![c].loop = "ready",
                                ![c].connected = TRUE]

-----------------------------------------------------------------------------
(***************************************************************************)
(* The update thread.                                                      *)
(***************************************************************************)
BeginUpdate(c) ==
    /\ client[c].loop = "ready" /\ ~Stopping(c)
    /\ client' = [client EXCEPT ![c].loop = "exchange",
                                ![c].sending = client[c].pendingState,
                                ![c].pendingState = None]

LoopExit(c) ==
    /\ client[c].loop = "ready" /\ Stopping(c)
    /\ client' = [client EXCEPT ![c].loop = "exited"]

\* Slip: takes any reply for an acknowledgement of everything queued.
Absorb_ClearsOutbox(me, reply) ==
    [me EXCEPT
        !.outbox = {},
        !.inbox = @ \o InOrder(me.lastReceivedSeq, reply.messages),
        !.lastReceivedSeq = LastInOrder(@, reply.messages),
        !.rosterEvents = @ \o reply.rosterEvents,
        !.rosterVersion = reply.rosterVersion,
        !.latestSnapshot = IF reply.snapshot = None THEN @ ELSE reply.snapshot]

\* What exchange() stores from a reply whose status is Ok.
Absorb(me, reply) ==
    [me EXCEPT
        !.outbox = Unacked(@, reply.ackSeq),
        !.inbox = @ \o InOrder(me.lastReceivedSeq, reply.messages),
        !.lastReceivedSeq = LastInOrder(@, reply.messages),
        !.rosterEvents = @ \o reply.rosterEvents,
        !.rosterVersion = reply.rosterVersion,
        !.latestSnapshot = IF reply.snapshot = None THEN @ ELSE reply.snapshot]

UpdateOk(c, reply) ==
    /\ client[c].loop = "exchange" /\ reply.status = "Ok"
    /\ client' = [client EXCEPT
            ![c] = [Absorb(@, reply) EXCEPT !.loop = "ready", !.connected = TRUE,
                                            !.sending = None]]

UpdateDropped(c, reply) ==
    /\ client[c].loop = "exchange" /\ reply.status = "UnknownClient"
    /\ client' = [client EXCEPT ![c].loop = "exited", ![c].connected = FALSE,
                                ![c].sending = None]

\* Slip: forgets the state that was being sent.
UpdateFails_DropsState(c) ==
    /\ client[c].loop = "exchange"
    /\ \E connected \in {client[c].connected, FALSE} :
          client' = [client EXCEPT
            ![c].loop = "ready", ![c].connected = connected, ![c].sending = None]

\* No reply, or Rejected: the state is kept unless a newer one arrived.  The
\* client calls itself disconnected once enough time has passed since an Ok.
UpdateFails(c) ==
    /\ client[c].loop = "exchange"
    /\ \E connected \in {client[c].connected, FALSE} :
          client' = [client EXCEPT
            ![c].loop = "ready", ![c].connected = connected, ![c].sending = None,
            ![c].pendingState = IF @ = None THEN client[c].sending ELSE @]

-----------------------------------------------------------------------------
(***************************************************************************)
(* leave(): stops the update thread, then one exchange, best effort.       *)
(***************************************************************************)
Leave(c) ==
    /\ client[c].app \in {"joined", "running"}
    /\ client' = [client EXCEPT ![c].app = "leaving"]

\* Slip: waits for an update thread that was never started.
BeginLeave_NeedsThread(c) ==
    /\ client[c].app = "leaving" /\ client[c].loop = "exited"
    /\ client' = [client EXCEPT ![c].app = "leaveSent"]

BeginLeave(c) ==
    /\ client[c].app = "leaving" /\ client[c].loop \in {"off", "exited"}
    /\ client' = [client EXCEPT ![c].app = "leaveSent"]

LeaveOk(c, reply) ==
    /\ client[c].app = "leaveSent" /\ reply.status = "Ok"
    /\ client' = [client EXCEPT
            ![c] = [Absorb(@, reply) EXCEPT !.app = "left", !.connected = FALSE]]

LeaveFails(c) ==
    /\ client[c].app = "leaveSent"
    /\ client' = [client EXCEPT ![c].app = "left", ![c].connected = FALSE]

-----------------------------------------------------------------------------
(***************************************************************************)
(* Outcomes of a request, and the application's calls.                     *)
(***************************************************************************)
ReceiveReply(c, reply) ==
    \/ JoinOk(c, reply)
    \/ reply.status # "Ok" /\ JoinFails(c)
    \/ UpdateOk(c, reply)
    \/ UpdateDropped(c, reply)
    \/ reply.status = "Rejected" /\ UpdateFails(c)
    \/ LeaveOk(c, reply)
    \/ reply.status # "Ok" /\ LeaveFails(c)

NoReplyInTime(c) == JoinFails(c) \/ UpdateFails(c) \/ LeaveFails(c)

ClientSend(c) ==
    /\ client[c].sent < MaxClientSends
    /\ client' = [client EXCEPT
            ![c].outbox = @ \cup {WireMessage(client[c].nextSendSeq,
                                              <<c, client[c].sent + 1>>)},
            ![c].nextSendSeq = @ + 1, ![c].sent = @ + 1]

SubmitScene(c) ==
    /\ client[c].id # ServerId /\ client[c].lastTick < MaxTicks
    /\ client' = [client EXCEPT ![c].lastTick = @ + 1,
                                ![c].pendingState = client[c].lastTick + 1]

ClientDrainRoster(c) ==
    /\ client[c].rosterEvents # <<>>
    /\ client' = [client EXCEPT ![c].rosterEvents = <<>>,
            ![c].roster = RosterAfter(@, client[c].rosterEvents)]

ClientDrainMessages(c) ==
    /\ client[c].inbox # <<>>
    /\ client' = [client EXCEPT ![c].inbox = <<>>]

ApplySnapshot(c) ==
    /\ client[c].latestSnapshot # None
    /\ client' = [client EXCEPT ![c].latestSnapshot = None,
                                ![c].applied = client[c].latestSnapshot]

\* The steps of client c that neither send nor receive.
ClientStep(c) ==
    \/ StartUpdates(c) \/ LoopExit(c) \/ ClientSend(c) \/ SubmitScene(c) \/ ApplySnapshot(c)
    \/ "leave" \in Calls /\ Leave(c)
    \/ "drainMessages" \in Calls /\ ClientDrainMessages(c)
    \/ "drainClientRoster" \in Calls /\ ClientDrainRoster(c)
=============================================================================
