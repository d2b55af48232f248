------------------------------- MODULE Session -------------------------------
(***************************************************************************)
(* A server and its clients, over request sockets that time out.           *)
(*                                                                         *)
(* A client has one exchange at a time.  When no reply comes in time it    *)
(* closes its REQ socket and opens another (requestHandler::reconnect): a  *)
(* reply to the old socket is then lost, but a request that was sent on it *)
(* may still reach the server, late and after newer ones.  A request stays *)
(* in "requests" until it is handled; one that is lost is simply never     *)
(* handled.  A request is addressed to a port, not to a slot: it reaches   *)
(* whichever handler is bound to that port when it arrives.                *)
(***************************************************************************)
EXTENDS SessionClient

CONSTANT Sockets    \* bound: a client's REQ sockets with traffic in flight

ASSUME SocketsAssumption == Sockets \subseteq Nat /\ 1 \in Sockets

JoinPort == 0
NoReply == [status |-> "none"]

VARIABLES
    requests,   \* requests sent and not yet handled
    replies,    \* per client, the reply on its way to its current socket
    socket      \* per client, the REQ socket it uses now

networkVars == <<requests, replies, socket>>
vars == <<serverVars, client, networkVars>>

Init ==
    /\ ServerInit
    /\ ClientInit
    /\ requests = {}
    /\ replies = [c \in Clients |-> NoReply]
    /\ socket = [c \in Clients |-> 1]

-----------------------------------------------------------------------------
(***************************************************************************)
(* The network.                                                            *)
(***************************************************************************)
SendRequest(c, port, req) ==
    /\ requests' = requests \cup
            {[from |-> c, socket |-> socket[c], port |-> port, req |-> req]}
    /\ UNCHANGED <<replies, socket>>

\* The reply goes back to the socket the request came from.
Reply(m, reply) ==
    /\ requests' = requests \ {m}
    /\ replies' = IF m.socket = socket[m.from]
                  THEN [replies EXCEPT ![m.from] = reply] ELSE replies
    /\ UNCHANGED socket

\* Sockets are numbered for the requests in flight only: a new socket takes a
\* number that none has or, when there is none, one whose old request is now lost.
InFlight(c, k) == \E m \in requests : m.from = c /\ m.socket = k

NewSockets(c) ==
    LET free == {k \in Sockets : ~InFlight(c, k)}
    IN  IF free = {} THEN Sockets ELSE {k \in free : \A j \in free : k <= j}

Reconnect(c) ==
    \E k \in NewSockets(c) :
        /\ socket' = [socket EXCEPT ![c] = k]
        /\ requests' = {m \in requests : ~(m.from = c /\ m.socket = k)}
        /\ replies' = [replies EXCEPT ![c] = NoReply]

-----------------------------------------------------------------------------
(***************************************************************************)
(* The clients.                                                            *)
(***************************************************************************)
CallJoin(c) ==
    /\ BeginJoin(c)
    /\ SendRequest(c, JoinPort, [token |-> c])
    /\ UNCHANGED serverVars

CallUpdate(c) ==
    /\ BeginUpdate(c)
    /\ SendRequest(c, client[c].updatePort,
                   Request(c, "Update", client[c].pendingState))
    /\ UNCHANGED serverVars

CallLeave(c) ==
    /\ BeginLeave(c)
    /\ SendRequest(c, client[c].updatePort, Request(c, "Leave", None))
    /\ UNCHANGED serverVars

TakeReply(c) ==
    /\ replies[c] # NoReply
    /\ ReceiveReply(c, replies[c])
    /\ replies' = [replies EXCEPT ![c] = NoReply]
    /\ UNCHANGED <<requests, socket, serverVars>>

Timeout(c) ==
    /\ NoReplyInTime(c)
    /\ Reconnect(c)
    /\ UNCHANGED serverVars

-----------------------------------------------------------------------------
(***************************************************************************)
(* The server's sockets.                                                   *)
(***************************************************************************)
ServeJoin(m) ==
    /\ m.port = JoinPort
    /\ \E status \in {"Ok", "Rejected"}, id \in Ids \cup {ServerId},
          port \in Ports \cup {0} :
          /\ HandleJoin(m.req.token, JoinReply(status, id, port))
          /\ Reply(m, JoinReply(status, id, port))
    /\ UNCHANGED client

ServeUpdate(m) ==
    /\ \E id \in LiveSlots :
          /\ slot[id].port = m.port
          /\ HandleUpdate(id, m.req)
          /\ Reply(m, UpdateAnswer(id, m.req))
    /\ UNCHANGED client

Serve(m) == ServeJoin(m) \/ ServeUpdate(m)

Next ==
    \/ ServerStep /\ UNCHANGED <<client, networkVars>>
    \/ \E c \in Clients :
          \/ ClientStep(c) /\ UNCHANGED <<serverVars, networkVars>>
          \/ CallJoin(c) \/ CallUpdate(c) \/ CallLeave(c)
          \/ TakeReply(c) \/ Timeout(c)
    \/ \E m \in requests : Serve(m)

Spec == Init /\ [][Next]_vars

(***************************************************************************)
(* Fairness.  A client's threads keep running and its receive timeouts     *)
(* fire; a client that keeps asking is heard, and answered in time, again  *)
(* and again.  Nothing makes an application join, send or leave, and       *)
(* nothing keeps the watchdog from timing a client out.                    *)
(***************************************************************************)
ServeCurrent(c) ==
    \E m \in requests : m.from = c /\ m.socket = socket[c] /\ Serve(m)

Fairness ==
    \A c \in Clients :
        /\ WF_vars(CallUpdate(c) \/ CallLeave(c))
        /\ WF_vars(LoopExit(c) /\ UNCHANGED <<serverVars, networkVars>>)
        /\ WF_vars(Timeout(c))
        /\ SF_vars(ServeCurrent(c))
        /\ SF_vars(TakeReply(c))

FairSpec == Spec /\ Fairness

-----------------------------------------------------------------------------
(***************************************************************************)
(* Safety.                                                                 *)
(***************************************************************************)
\* The id a client was given names its own slot on the server, so no client is
\* ever addressed, credited or retired under another's id, even after a port
\* was reused by a later client (handleJoin; the guard on req.id in handleUpdate).
IdNamesOwnSlot ==
    \A c \in Clients : client[c].id # ServerId => slot[client[c].id].token = c

\* Handling a request takes nobody out of the roster but the client that sent it,
\* even when a late request of a former client reaches a port that was handed to
\* another one (the guard on req.id in handleUpdate).
OnlyLeaversLeave ==
    [][\A m \in requests \ requests' : clients \ clients' \subseteq {client[m.from].id}]_vars

\* "every one delivered, in order, per client" (sessionServer.hpp:26): whatever was
\* lost, resent, late or misdirected, the messages of each client to the server and
\* of the server to each client go through what is, to the applications, a Channel.
Numbers(queue, sender) ==
    [i \in DOMAIN queue |-> IF queue[i][1] = sender THEN queue[i][2] ELSE 0]

ServerSlot(c) ==
    IF client[c].id = ServerId THEN NewSlot(c, 0) ELSE slot[client[c].id]

ServerInbox(c) == IF client[c].id = ServerId THEN <<>> ELSE inbox[client[c].id]

ToServer == INSTANCE Channel WITH
    Senders <- Clients,
    sent  <- [c \in Clients |-> client[c].sent],
    inbox <- [c \in Clients |-> Numbers(ServerInbox(c), c)],
    taken <- [c \in Clients |-> ServerSlot(c).lastReceivedSeq - Len(ServerInbox(c))]

ToClient == INSTANCE Channel WITH
    Senders <- Clients,
    sent  <- [c \in Clients |-> ServerSlot(c).sent],
    inbox <- [c \in Clients |-> Numbers(client[c].inbox, client[c].id)],
    taken <- [c \in Clients |-> client[c].lastReceivedSeq - Len(client[c].inbox)]

MessagesUseChannels == ToServer!Spec /\ ToClient!Spec

\* A message leaves an outbox only once the other side has it.
NoMessageForgotten ==
    \A c \in Clients :
        LET id == client[c].id IN
        /\ \A n \in 1..client[c].sent :
              \/ \E m \in client[c].outbox : m.body = <<c, n>>
              \/ id # ServerId /\ n <= slot[id].lastReceivedSeq
        /\ id # ServerId =>
              \A n \in 1..slot[id].sent :
                  \/ \E m \in slot[id].outbox : m.body = <<id, n>>
                  \/ n <= client[c].lastReceivedSeq

\* Applying the roster events in the order they are drained always gives the
\* server's roster as it was at the version the client reports, even when replies
\* that carried events were lost.
RosterViewIsPastRoster ==
    \A c \in Clients :
        RosterAfter(client[c].roster, client[c].rosterEvents) =
            Members(rosterLog, client[c].rosterVersion)

\* "Applies each client's newest submitted scene state" (sessionServer.hpp:79): the
\* state the server is about to apply for a client that has nothing left to send
\* is the newest one that client submitted.
AppliesNewestState ==
    \A c \in Clients :
        /\ client[c].loop = "ready" /\ client[c].pendingState = None
        /\ states[client[c].id] # None
        => states[client[c].id] = client[c].lastTick

-----------------------------------------------------------------------------
(***************************************************************************)
(* Liveness.                                                               *)
(***************************************************************************)
Connected(c) == client[c].app = "running" /\ client[c].id \in clients /\ phase = "running"

\* Every message a connected client sends reaches the server and every message the
\* server sends reaches a connected client, unless the client leaves, is timed out or
\* the server stops first ("resent until acknowledged").
MessagesArrive ==
    \A c \in Clients :
        /\ \A n \in 1..MaxClientSends :
              Connected(c) /\ client[c].sent >= n ~>
                  ~Connected(c) \/ slot[client[c].id].lastReceivedSeq >= n
        /\ \A n \in 1..MaxServerSends :
              Connected(c) /\ slot[client[c].id].sent >= n ~>
                  ~Connected(c) \/ client[c].lastReceivedSeq >= n

\* The newest scene state a connected client submitted reaches the server.
NewestStateArrives ==
    \A c \in Clients : \A n \in 1..MaxTicks :
        Connected(c) /\ client[c].lastTick = n ~>
            ~Connected(c) \/ slot[client[c].id].newestState >= n

\* "a lost reply is not resent: the next exchange carries a newer snapshot"
\* (sessionServer.cpp:200): a connected client gets the newest published scene.
NewestSnapshotArrives ==
    \A c \in Clients : \A n \in 1..MaxPublishes :
        Connected(c) /\ snapshotVersion = n ~>
            \/ ~Connected(c) \/ snapshotVersion > n
            \/ client[c].latestSnapshot = n \/ client[c].applied = n

\* leave() returns, whether or not the server is there to answer.
LeaveReturns == \A c \in Clients : client[c].app = "leaving" ~> client[c].app = "left"
=============================================================================
