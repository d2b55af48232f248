----------------------------- MODULE RequestReply -----------------------------
(***************************************************************************)
(* A requestHandler that several threads share and the responseHandler it  *)
(* is connected to (src/networking/requestHandler.cpp,                     *)
(* responseHandler.cpp, responseHandler.hpp).                              *)
(*                                                                         *)
(* A packet is what a caller means (record), the bytes it sends (body) and *)
(* whether these are all of what encodes the record (whole); only body     *)
(* goes over the wire.  `pairing` says which of the send() and run()       *)
(* overloads the two programs use; the handlers are those of the           *)
(* networking demo and of sessionServer.                                   *)
(***************************************************************************)
EXTENDS SessionCodec, FiniteSets

CONSTANTS
    Callers,        \* threads that share the requestHandler
    Threads,        \* threads that may call run()
    Pairings,       \* [client |-> a send() overload, server |-> a handler of run()]
    Packets(_),     \* what the callers of a pairing send
    MaxGenerations  \* bound: REQ sockets, that is timeouts

Nobody == "Nobody"
Idle   == <<>>

ASSUME RequestAssumption ==
    /\ Nobody \notin Callers
    /\ \A p \in Pairings :
          p.server \in {"string", "function", "template", "join", "update"}

Encoded(server, record) ==
    IF server = "join" THEN EncodeJoinRequest(record) ELSE EncodeUpdateRequest(record)

\* A packet of a session is made from a request; what is not whole was cut, or more follows.
PacketOK(server, packet) ==
    LET code == Encoded(server, packet.record)
    IN  /\ packet.record \in IF server = "join" THEN JoinRequests ELSE UpdateRequests
        /\ packet.body \in Seq(0 .. Base - 1)
        /\ packet.whole \in BOOLEAN
        /\ IF packet.whole THEN packet.body = code
           ELSE /\ Len(packet.body) # Len(code)
                /\ IsPrefix(packet.body, code) \/ IsPrefix(code, packet.body)

ASSUME PacketAssumption ==
    \A p \in Pairings : p.server \in {"join", "update"} =>
        \A packet \in Packets(p) : PacketOK(p.server, packet)

VARIABLES
    pairing,
    mutex,       \* the caller inside requestHandler's mutex_, or Nobody
    asking,      \* the packet it sent
    generation,  \* how often connection_ was made anew
    requests,    \* requests on their way, each with the socket it came from
    replies,     \* replies on their way to the present socket
    answer,      \* what the last send() returned, and to whom
    \* responseHandler
    running,     \* running_
    stop,        \* stop_
    loop,        \* [thread -> where it is in run()]
    handling     \* the request received, or Idle

requestVars == <<pairing, mutex, asking, generation, requests, replies, answer,
                 running, stop, loop, handling>>

NoAnswer == [error |-> "ReceiveFailed", reply |-> <<>>, asked |-> Idle, caller |-> Nobody]

RequestInit ==
    /\ pairing \in Pairings
    /\ mutex = Nobody /\ asking = Idle
    /\ generation = 1
    /\ requests = {} /\ replies = {}
    /\ answer = NoAnswer
    /\ running = FALSE /\ stop = FALSE
    /\ loop = [t \in Threads |-> "out"]
    /\ handling = Idle

-----------------------------------------------------------------------------
(***************************************************************************)
(* The handlers: every outcome they can have for a request.                *)
(***************************************************************************)
Answered(reply) == [error |-> "None", reply |-> reply]

\* run(): "Hello Client: you sent " and the text.
Greeting == <<72>>

\* The demo's Transform, two bytes here, which its handler moves by 5 and by 10.
TemplateSize == 2
Moved(body) == <<body[1] + 5, body[2] + 10>>

\* handleJoin() and handleUpdate() as far as the packets go: what they cannot decode is
\* refused.  Any other answer is made of the request here, so that no two are alike.
JoinAnswer(record) ==
    IF record = NotDecoded THEN [status |-> Rejected, id |-> 0, updatePort |-> 0]
    ELSE [status |-> Ok, id |-> record.token, updatePort |-> 5555]

BareReply(status) == [NewUpdateReply EXCEPT !.status = status]

UpdateAnswer(record) ==
    IF record = NotDecoded THEN BareReply(Rejected)
    ELSE [BareReply(Ok) EXCEPT
             !.ackSeq = Len(record.messages), !.messages = record.messages,
             !.rosterEvents = <<[change |-> 0, id |-> record.id, hello |-> record.state,
                                 peerEndpoint |-> <<>>]>>,
             !.hasSnapshot = record.hasState, !.snapshotTick = record.tick,
             !.snapshot = record.state]

Outcomes(server, body) ==
    CASE server = "string"   -> {Answered(Greeting \o body)}
      [] server = "function" -> {Answered(body), [error |-> "HandlerError", reply |-> <<>>]}
      [] server = "template" ->
            {IF Len(body) = TemplateSize THEN Answered(Moved(body))
             ELSE [error |-> "InvalidRequestSize", reply |-> <<0, 0>>]}
      [] server = "join"     ->
            {Answered(EncodeJoinReply(a)) : a \in {JoinAnswer(r) : r \in {DecodeJoinRequest(body)}}}
      [] server = "update"   ->
            {Answered(EncodeUpdateReply(a)) :
                a \in {UpdateAnswer(r) : r \in {DecodeUpdateRequest(body)}}}

-----------------------------------------------------------------------------
(***************************************************************************)
(* requestHandler.                                                         *)
(***************************************************************************)
\* send() up to the wait for the reply, with the mutex held.
Send(c, packet) ==
    /\ mutex = Nobody
    /\ mutex' = c /\ asking' = packet
    /\ answer' = NoAnswer
    /\ requests' = requests \cup {[from |-> generation, packet |-> packet]}
    /\ UNCHANGED <<pairing, generation, replies, running, stop, loop, handling>>

\* What the overload makes of the error and the reply it received.
Received(client, r) ==
    IF client = "template" /\ Len(r.reply) # TemplateSize
    THEN [error |-> "InvalidResponseSize", reply |-> <<0, 0>>] ELSE r

Return(c, result) ==
    /\ answer' = [error |-> result.error, reply |-> result.reply, asked |-> asking, caller |-> c]
    /\ mutex' = Nobody /\ asking' = Idle

Receive(c) ==
    /\ mutex = c
    /\ \E r \in replies : Return(c, Received(pairing.client, r)) /\ replies' = replies \ {r}
    /\ UNCHANGED <<pairing, generation, requests, running, stop, loop, handling>>

\* Slip: the socket is kept after a timeout.
TimeOut_KeepsSocket(c) ==
    /\ mutex = c /\ generation < MaxGenerations
    /\ Return(c, [error |-> "ReceiveFailed", reply |-> <<>>])
    /\ UNCHANGED <<pairing, generation, requests, replies, running, stop, loop, handling>>

\* No reply in time, or the wait failed: reconnect().  The abandoned request may have left
\* before its socket was closed; a reply to it has nowhere to go.
TimeOut(c) ==
    /\ mutex = c /\ generation < MaxGenerations
    /\ Return(c, [error |-> "ReceiveFailed", reply |-> <<>>])
    /\ generation' = generation + 1
    /\ requests' \in {requests, {r \in requests : r.from # generation}}
    /\ replies' = {}
    /\ UNCHANGED <<pairing, running, stop, loop, handling>>

-----------------------------------------------------------------------------
(***************************************************************************)
(* responseHandler.                                                        *)
(***************************************************************************)
GoTo(t, place) == loop' = [loop EXCEPT ![t] = place]

ClientUnchanged == UNCHANGED <<pairing, mutex, asking, generation, answer>>

\* run() on a handler that runs already returns at once.
Run(t) ==
    /\ loop[t] = "out" /\ ~running
    /\ running' = TRUE
    /\ GoTo(t, "check")
    /\ ClientUnchanged /\ UNCHANGED <<requests, replies, stop, handling>>

CheckStop(t) ==
    /\ loop[t] = "check"
    /\ GoTo(t, IF stop THEN "leaving" ELSE "receive")
    /\ ClientUnchanged /\ UNCHANGED <<requests, replies, running, stop, handling>>

TakeRequest(t) ==
    /\ loop[t] = "receive"
    /\ \E r \in requests : handling' = r /\ requests' = requests \ {r}
    /\ GoTo(t, "handle")
    /\ ClientUnchanged /\ UNCHANGED <<replies, running, stop>>

\* setReceiveTimeout() was called before run(), as stop() needs it.
NoRequest(t) ==
    /\ loop[t] = "receive"
    /\ GoTo(t, "check")
    /\ ClientUnchanged /\ UNCHANGED <<requests, replies, running, stop, handling>>

\* The handler, an exception in it included, and the reply.
Handle(t) ==
    /\ loop[t] = "handle"
    /\ \E r \in Outcomes(pairing.server, handling.packet.body) :
          replies' = replies \cup IF handling.from = generation THEN {r} ELSE {}
    /\ handling' = Idle
    /\ GoTo(t, "check")
    /\ ClientUnchanged /\ UNCHANGED <<requests, running, stop>>

\* Slip: the guard lets the next run() in before it clears stop_.
LeaveRun_RunningFirst(t) ==
    \/ /\ loop[t] = "leaving"
       /\ running' = FALSE
       /\ GoTo(t, "left")
       /\ ClientUnchanged /\ UNCHANGED <<requests, replies, stop, handling>>
    \/ /\ loop[t] = "left"
       /\ stop' = FALSE
       /\ GoTo(t, "out")
       /\ ClientUnchanged /\ UNCHANGED <<requests, replies, running, handling>>

\* ~RunningGuard: stop_, and then running_.
LeaveRun(t) ==
    \/ /\ loop[t] = "leaving"
       /\ stop' = FALSE
       /\ GoTo(t, "left")
       /\ ClientUnchanged /\ UNCHANGED <<requests, replies, running, handling>>
    \/ /\ loop[t] = "left"
       /\ running' = FALSE
       /\ GoTo(t, "out")
       /\ ClientUnchanged /\ UNCHANGED <<requests, replies, stop, handling>>

\* stop(), by any thread at any time.
Stop ==
    /\ ~stop
    /\ stop' = TRUE
    /\ ClientUnchanged /\ UNCHANGED <<requests, replies, running, loop, handling>>

-----------------------------------------------------------------------------
Meaning(server, body) ==
    IF server = "join" THEN DecodeJoinRequest(body) ELSE DecodeUpdateRequest(body)

\* Each send() that returns without an error returns what the handler made of its own
\* request: never the late answer to one that was given up, or to another caller's
\* (requestHandler.cpp:59-72, 122-151; responseHandler.hpp:43-72).
AnswersMatch ==
    answer.error = "None" =>
        Answered(answer.reply) \in Outcomes(pairing.server, answer.asked.body)

\* What a handler decodes is what the caller meant, and a packet that was cut or grew is
\* never taken for another (sessionProtocol.hpp:108-244, byteCodec.hpp:46-87).
OnlyWholePacketsDecode ==
    handling # Idle /\ pairing.server \in {"join", "update"} =>
        Meaning(pairing.server, handling.packet.body) =
            IF handling.packet.whole THEN handling.packet.record ELSE NotDecoded

\* A stop() that falls into a run() ends it, whoever else enters or leaves run() meanwhile
\* (responseHandler.hpp:76-79, 128-140).
StopIsHeeded ==
    \A t \in Threads : (stop /\ loop[t] \in {"check", "receive", "handle"}) ~> loop[t] = "out"
=============================================================================
