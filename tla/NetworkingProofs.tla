--------------------------- MODULE NetworkingProofs ---------------------------
(***************************************************************************)
(* Proofs about Networking.  An answer belongs to its request, a packet is *)
(* understood when it is whole and refused otherwise, an update is whole,  *)
(* and the scene of the receiver mirrors what the sender showed: for any   *)
(* number of threads, timeouts and messages, and every byte that is sent.  *)
(***************************************************************************)
EXTENDS Networking, SceneReplicatorProofs, SequenceTheorems, WellFoundedInduction, TLAPS

-----------------------------------------------------------------------------
(***************************************************************************)
(* Answers.  A socket carries one exchange at a time: its request is on    *)
(* the way, with the handler, or answered.                                 *)
(***************************************************************************)
Places == {"out", "check", "receive", "handle", "leaving", "left"}

\* One thread at a time is inside run().
LoopInv ==
    /\ loop \in [Threads -> Places]
    /\ \A t \in Threads : loop[t] # "out" => running
    /\ \A t, u \in Threads : loop[t] # "out" /\ loop[u] # "out" => t = u

InHandler == \E t \in Threads : loop[t] = "handle"

Known(r)   == r.from \in Nat /\ r.from <= generation
Present(r) == r.from = generation

\* No request comes from a socket that is not made yet.
SocketInv ==
    /\ generation \in Nat
    /\ \A r \in requests : Known(r)
    /\ InHandler => Known(handling)

\* The exchange of the present socket.
ExchangeInv ==
    /\ \A r \in requests :
          Present(r) => mutex # Nobody /\ r.packet = asking /\ replies = {}
    /\ \A r, s \in requests : Present(r) /\ Present(s) => r = s
    /\ InHandler /\ Present(handling) =>
          /\ mutex # Nobody /\ handling.packet = asking /\ replies = {}
          /\ \A r \in requests : ~Present(r)
    /\ replies # {} => mutex # Nobody
    /\ \A r, s \in replies : r = s
    /\ \A r \in replies : r \in Outcomes(pairing.server, asking.body)

AnswerInv == pairing \in Pairings /\ LoopInv /\ SocketInv /\ ExchangeInv

-----------------------------------------------------------------------------
LEMMA LoopStep ==
    ASSUME LoopInv, RequestNext
    PROVE  LoopInv'
<1>1. CASE UNCHANGED <<loop, running>>
  BY <1>1 DEF LoopInv
<1>2. ASSUME NEW t \in Threads, Run(t)
      PROVE  LoopInv'
  BY <1>2 DEF Run, GoTo, LoopInv, Places
<1>3. ASSUME NEW t \in Threads, NEW place \in Places, loop[t] # "out", GoTo(t, place),
             UNCHANGED running
      PROVE  LoopInv'
  BY <1>3 DEF GoTo, LoopInv
<1>4. ASSUME NEW t \in Threads, CheckStop(t)
      PROVE  LoopInv'
  BY <1>3, <1>4 DEF CheckStop, Places
<1>5. ASSUME NEW t \in Threads, TakeRequest(t) \/ NoRequest(t) \/ Handle(t)
      PROVE  LoopInv'
  BY <1>3, <1>5 DEF TakeRequest, NoRequest, Handle, Places
<1>6. ASSUME NEW t \in Threads, LeaveRun(t)
      PROVE  LoopInv'
  <2>1. CASE loop[t] = "leaving"
    BY <1>3, <1>6, <2>1 DEF LeaveRun, Places
  <2>2. CASE loop[t] = "left"
    <3>1. loop' = [loop EXCEPT ![t] = "out"]
      BY <1>6, <2>2 DEF LeaveRun, GoTo
    <3>2. \A u \in Threads : loop'[u] = "out"
      BY <2>2, <3>1 DEF LoopInv
    <3> QED
      BY <3>1, <3>2 DEF LoopInv, Places
  <2> QED
    BY <1>6, <2>1, <2>2 DEF LeaveRun
<1>7. ASSUME NEW c \in Callers, SendAny(c) \/ Receive(c) \/ TimeOut(c)
      PROVE  UNCHANGED <<loop, running>>
  BY <1>7 DEF SendAny, Send, Receive, TimeOut
<1>8. CASE Stop
  BY <1>1, <1>8 DEF Stop
<1> QED
  BY <1>1, <1>2, <1>4, <1>5, <1>6, <1>7, <1>8 DEF RequestNext

LEMMA SocketStep ==
    ASSUME AnswerInv, RequestNext
    PROVE  SocketInv'
<1> USE DEF AnswerInv, SocketInv, Known, InHandler
<1>1. CASE UNCHANGED <<generation, requests, handling>> /\ (InHandler' => InHandler)
  BY <1>1
<1>2. ASSUME NEW c \in Callers, SendAny(c)
      PROVE  SocketInv'
  BY <1>2 DEF SendAny, Send
<1>3. ASSUME NEW c \in Callers, Receive(c)
      PROVE  SocketInv'
  BY <1>1, <1>3 DEF Receive
<1>4. ASSUME NEW c \in Callers, TimeOut(c)
      PROVE  SocketInv'
  <2>1. /\ generation' = generation + 1 /\ requests' \subseteq requests
        /\ UNCHANGED <<loop, handling>>
    BY <1>4 DEF TimeOut
  <2> QED
    BY <2>1
<1>5. ASSUME NEW t \in Threads, Run(t) \/ CheckStop(t) \/ NoRequest(t) \/ LeaveRun(t)
      PROVE  SocketInv'
  <2>1. InHandler' => InHandler
    BY <1>5 DEF Run, CheckStop, NoRequest, LeaveRun, GoTo, LoopInv
  <2> QED
    BY <1>1, <1>5, <2>1 DEF Run, CheckStop, NoRequest, LeaveRun, ClientUnchanged
<1>6. ASSUME NEW t \in Threads, TakeRequest(t)
      PROVE  SocketInv'
  BY <1>6 DEF TakeRequest, ClientUnchanged
<1>7. ASSUME NEW t \in Threads, Handle(t)
      PROVE  SocketInv'
  <2>1. ~InHandler'
    BY <1>7 DEF Handle, GoTo, LoopInv
  <2> QED
    BY <1>7, <2>1 DEF Handle, ClientUnchanged
<1>8. CASE Stop
  BY <1>1, <1>8 DEF Stop, ClientUnchanged
<1> QED
  BY <1>2, <1>3, <1>4, <1>5, <1>6, <1>7, <1>8 DEF RequestNext

LEMMA ExchangeStep ==
    ASSUME AnswerInv, RequestNext
    PROVE  ExchangeInv'
<1> USE DEF AnswerInv, ExchangeInv, Present, InHandler
<1>1. CASE /\ UNCHANGED <<pairing, mutex, asking, generation, requests, replies, handling>>
           /\ InHandler' => InHandler
  BY <1>1
<1>2. ASSUME NEW c \in Callers, SendAny(c)
      PROVE  ExchangeInv'
  <2>1. PICK packet : Send(c, packet)
    BY <1>2 DEF SendAny
  <2>2. /\ mutex = Nobody /\ mutex' # Nobody /\ replies = {} /\ asking' = packet
        /\ requests' = requests \cup {[from |-> generation, packet |-> packet]}
        /\ UNCHANGED <<pairing, generation, replies, loop, handling>>
    BY <2>1, RequestAssumption DEF Send
  <2>3. /\ \A r \in requests : ~Present(r)
        /\ ~(InHandler /\ Present(handling))
    BY <2>2
  <2> QED
    BY <2>2, <2>3
<1>3. ASSUME NEW c \in Callers, Receive(c)
      PROVE  ExchangeInv'
  <2>1. /\ replies # {} /\ replies' = {}
        /\ UNCHANGED <<generation, requests, loop, handling>>
    BY <1>3 DEF Receive
  <2>2. /\ \A r \in requests : ~Present(r)
        /\ ~(InHandler /\ Present(handling))
    BY <2>1
  <2> QED
    BY <2>1, <2>2
<1>4. ASSUME NEW c \in Callers, TimeOut(c)
      PROVE  ExchangeInv'
  <2>1. /\ generation' = generation + 1 /\ requests' \subseteq requests /\ replies' = {}
        /\ UNCHANGED <<loop, handling>>
    BY <1>4 DEF TimeOut
  <2>2. /\ \A r \in requests : r.from # generation + 1
        /\ InHandler => handling.from # generation + 1
    BY DEF SocketInv, Known
  <2> QED
    BY <2>1, <2>2
<1>5. ASSUME NEW t \in Threads, Run(t) \/ CheckStop(t) \/ NoRequest(t) \/ LeaveRun(t)
      PROVE  ExchangeInv'
  <2>1. InHandler' => InHandler
    BY <1>5 DEF Run, CheckStop, NoRequest, LeaveRun, GoTo, LoopInv
  <2> QED
    BY <1>1, <1>5, <2>1 DEF Run, CheckStop, NoRequest, LeaveRun, ClientUnchanged
<1>6. ASSUME NEW t \in Threads, TakeRequest(t)
      PROVE  ExchangeInv'
  <2>1. /\ handling' \in requests /\ requests' = requests \ {handling'}
        /\ UNCHANGED <<pairing, mutex, asking, generation, replies>>
    BY <1>6 DEF TakeRequest, ClientUnchanged
  <2> QED
    BY <2>1
<1>7. ASSUME NEW t \in Threads, Handle(t)
      PROVE  ExchangeInv'
  <2>1. InHandler /\ ~InHandler'
    BY <1>7 DEF Handle, GoTo, LoopInv
  <2>2. PICK r \in Outcomes(pairing.server, handling.packet.body) :
          replies' = replies \cup IF handling.from = generation THEN {r} ELSE {}
    BY <1>7 DEF Handle
  <2>3. UNCHANGED <<pairing, mutex, asking, generation, requests>>
    BY <1>7 DEF Handle, ClientUnchanged
  <2>4. CASE Present(handling)
    <3>1. /\ replies' = {r} /\ mutex # Nobody /\ handling.packet = asking
          /\ \A q \in requests : ~Present(q)
      BY <2>1, <2>2, <2>4
    <3> QED
      BY <2>1, <2>2, <2>3, <3>1
  <2>5. CASE ~Present(handling)
    BY <2>1, <2>2, <2>3, <2>5
  <2> QED
    BY <2>4, <2>5
<1>8. CASE Stop
  BY <1>1, <1>8 DEF Stop, ClientUnchanged
<1> QED
  BY <1>2, <1>3, <1>4, <1>5, <1>6, <1>7, <1>8 DEF RequestNext

LEMMA AnswerStep == AnswerInv /\ [Next]_vars => AnswerInv'
<1> SUFFICES ASSUME AnswerInv, [Next]_vars PROVE AnswerInv'
  OBVIOUS
<1>1. CASE RequestNext
  <2>1. UNCHANGED pairing
    BY <1>1 DEF RequestNext, SendAny, Send, Receive, TimeOut, Run, CheckStop, TakeRequest,
                NoRequest, Handle, LeaveRun, Stop, ClientUnchanged
  <2> QED
    BY <1>1, <2>1, LoopStep, SocketStep, ExchangeStep DEF AnswerInv
<1>2. CASE UNCHANGED requestVars
  BY <1>2 DEF requestVars, AnswerInv, LoopInv, SocketInv, ExchangeInv, InHandler, Known,
              Present
<1>3. CASE SubPubNext
  BY <1>2, <1>3 DEF SubPubNext, SubPub
<1>4. CASE UNCHANGED vars
  BY <1>2, <1>4 DEF vars
<1> QED
  BY <1>1, <1>3, <1>4 DEF Next

\* What a handler makes of a request.
LEMMA OutcomeShape ==
    ASSUME pairing \in Pairings, NEW body, NEW r \in Outcomes(pairing.server, body)
    PROVE  r.error = "None" => r = Answered(r.reply)
<1>1. CASE \E reply : r = Answered(reply)
  BY <1>1 DEF Answered
<1>2. CASE \E error, reply : error # "None" /\ r = [error |-> error, reply |-> reply]
  BY <1>2
<1> QED
  BY <1>1, <1>2, RequestAssumption DEF Outcomes

\* Only the end of a send() sets an answer to one without an error.
LEMMA AnswerReturned ==
    ASSUME AnswerInv, AnswersMatch, RequestNext
    PROVE  AnswersMatch'
<1>1. UNCHANGED pairing
  BY DEF RequestNext, SendAny, Send, Receive, TimeOut, Run, CheckStop, TakeRequest,
         NoRequest, Handle, LeaveRun, Stop, ClientUnchanged
<1>2. CASE UNCHANGED answer
  BY <1>1, <1>2 DEF AnswersMatch
<1>3. ASSUME NEW c \in Callers, SendAny(c)
      PROVE  AnswersMatch'
  BY <1>3 DEF SendAny, Send, NoAnswer, AnswersMatch
<1>4. ASSUME NEW c \in Callers, NEW result, Return(c, result),
             result.error = "None" =>
                Answered(result.reply) \in Outcomes(pairing.server, asking.body)
      PROVE  AnswersMatch'
  BY <1>1, <1>4 DEF Return, AnswersMatch
<1>5. ASSUME NEW c \in Callers, Receive(c)
      PROVE  AnswersMatch'
  <2>1. PICK r \in replies : Return(c, Received(pairing.client, r))
    BY <1>5 DEF Receive
  <2>2. /\ r \in Outcomes(pairing.server, asking.body)
        /\ r.error = "None" => r = Answered(r.reply)
    BY OutcomeShape DEF AnswerInv, ExchangeInv
  <2>3. Received(pairing.client, r) \in {r, [error |-> "InvalidResponseSize", reply |-> <<0, 0>>]}
    BY DEF Received
  <2> QED
    BY <1>4, <2>1, <2>2, <2>3
<1>6. ASSUME NEW c \in Callers, TimeOut(c)
      PROVE  AnswersMatch'
  BY <1>4, <1>6 DEF TimeOut
<1> QED
  BY <1>2, <1>3, <1>5, <1>6 DEF RequestNext, Run, CheckStop, TakeRequest, NoRequest, Handle,
                                LeaveRun, Stop, ClientUnchanged

\* Whatever times out, arrives late and is sent by other threads, send() returns what the
\* handler made of its own request (requestHandler.cpp:59-72, 122-151).
THEOREM AnswersBelong == Spec => []AnswersMatch
<1>1. Init => AnswerInv /\ AnswersMatch
  <2> SUFFICES ASSUME Init PROVE AnswerInv /\ AnswersMatch
    OBVIOUS
  <2>1. AnswerInv
    BY DEF Init, RequestInit, AnswerInv, LoopInv, SocketInv, ExchangeInv, InHandler, Places
  <2>2. AnswersMatch
    BY DEF Init, RequestInit, AnswersMatch, NoAnswer
  <2> QED
    BY <2>1, <2>2
<1>2. AnswerInv /\ AnswersMatch /\ [Next]_vars => AnswerInv' /\ AnswersMatch'
  <2> SUFFICES ASSUME AnswerInv, AnswersMatch, [Next]_vars PROVE AnswersMatch'
    BY AnswerStep
  <2>1. CASE UNCHANGED requestVars
    BY <2>1 DEF requestVars, AnswersMatch
  <2>2. CASE SubPubNext
    BY <2>1, <2>2 DEF SubPubNext, SubPub
  <2>3. CASE UNCHANGED vars
    BY <2>1, <2>3 DEF vars
  <2> QED
    BY <2>2, <2>3, AnswerReturned DEF Next
<1> QED
  BY <1>1, <1>2, PTL DEF Spec
-----------------------------------------------------------------------------
(***************************************************************************)
(* Updates.  The frames that are sent are of one update, that of the       *)
(* thread inside the mutex, so that each message is a whole update.        *)
(***************************************************************************)
IsSequence(s) == \E S : s \in Seq(S)

IsUpdate(message, k) == message = <<published[k].topic, published[k].data>>

\* A message the subscriber may get.
IsWhole(message) ==
    \E k \in DOMAIN published : IsUpdate(message, k) /\ IsPrefix(Prefix, published[k].topic)

SendingInv ==
    /\ DOMAIN pending = Publishers
    /\ \A p \in Publishers : pending[p] # <<>> => pubMutex = p
    /\ pubMutex = NoThread => open = <<>>
    /\ pubMutex # NoThread =>
          \E k \in DOMAIN published : /\ open = <<published[k].topic>>
                                      /\ pending[pubMutex] = <<published[k].data>>

TopicInv ==
    /\ IsSequence(published) /\ IsSequence(queue)
    /\ SendingInv
    /\ \A i \in DOMAIN queue : IsWhole(queue[i])

LEMMA Appended ==
    ASSUME NEW s, IsSequence(s), NEW e
    PROVE  /\ IsSequence(Append(s, e))
           /\ DOMAIN Append(s, e) = 1..(Len(s) + 1) /\ DOMAIN s = 1..Len(s) /\ Len(s) \in Nat
           /\ \A i \in DOMAIN s : Append(s, e)[i] = s[i]
           /\ Append(s, e)[Len(s) + 1] = e
<1>1. PICK S : s \in Seq(S)
  BY DEF IsSequence
<1>2. s \in Seq(S \cup {e})
  BY <1>1
<1>3. Append(s, e) \in Seq(S \cup {e})
  BY <1>2
<1> QED
  BY <1>1, <1>3 DEF IsSequence

\* The two frames of an update, joined and taken apart.
LEMMA TwoFrames ==
    ASSUME NEW a, NEW b
    PROVE  /\ <<a>> \o <<b>> = <<a, b>> /\ Head(<<a, b>>) = a
           /\ Len(<<a, b>>) = 2 /\ <<a, b>>[2] = b /\ SubSeq(<<a, b>>, 3, 2) = <<>>
<1> DEFINE S == {a, b}
<1>1. <<a>> \in Seq(S) /\ <<b>> \in Seq(S) /\ <<a, b>> \in Seq(S)
  OBVIOUS
<1>2. <<a>> \o <<b>> \in Seq(S) /\ Len(<<a>> \o <<b>>) = 2
  BY <1>1
<1>3. (<<a>> \o <<b>>)[1] = a /\ (<<a>> \o <<b>>)[2] = b
  <2>1. Len(<<a>>) = 1 /\ Len(<<b>>) = 1 /\ <<a>>[1] = a /\ <<b>>[1] = b
    OBVIOUS
  <2>2. (<<a>> \o <<b>>)[1] = <<a>>[1]
    BY <1>1, <2>1
  <2>3. (<<a>> \o <<b>>)[2] = <<b>>[2 - 1]
    BY <1>1, <2>1
  <2> QED
    BY <2>1, <2>2, <2>3
<1>4. <<a>> \o <<b>> = <<a, b>>
  <2> DEFINE joined == <<a>> \o <<b>>
             pair == <<a, b>>
  <2>1. pair \in Seq(S) /\ Len(pair) = 2 /\ pair[1] = a /\ pair[2] = b
    BY <1>1
  <2>2. joined \in Seq(S) /\ Len(joined) = 2 /\ joined[1] = a /\ joined[2] = b
    BY <1>2, <1>3
  <2> HIDE DEF joined, pair
  <2>3. \A i \in 1 .. Len(joined) : joined[i] = pair[i]
    BY <2>1, <2>2
  <2>4. joined = pair
    BY <2>1, <2>2, <2>3, SeqEqual
  <2> QED
    BY <2>4 DEF joined, pair
<1>5. SubSeq(<<a, b>>, 3, 2) = <<>>
  BY SubSeqEmpty
<1> QED
  BY <1>1, <1>4, <1>5

LEMMA PublishWhole ==
    ASSUME TopicInv, UpdatesAreWhole, NEW p \in Publishers, NEW topic, NEW data,
           Publish(p, topic, data)
    PROVE  TopicInv' /\ UpdatesAreWhole'
<1> DEFINE u == [topic |-> topic, data |-> data]
<1>1. /\ published' = Append(published, u) /\ pubMutex = NoThread /\ pubMutex' = p
      /\ open' = Append(open, topic) /\ pending' = [pending EXCEPT ![p] = <<data>>]
      /\ UNCHANGED <<queue, heard>>
  BY DEF Publish
<1>2. u.topic = topic /\ u.data = data
  OBVIOUS
<1> HIDE DEF u
<1>3. /\ IsSequence(published') /\ DOMAIN published \subseteq DOMAIN published'
      /\ \A k \in DOMAIN published : published'[k] = published[k]
      /\ Len(published) + 1 \in DOMAIN published' /\ published'[Len(published) + 1] = u
  BY <1>1, Appended DEF TopicInv
<1>4. open' = <<topic>>
  BY <1>1 DEF TopicInv, SendingInv
<1>5. /\ DOMAIN pending' = Publishers /\ pending'[p] = <<data>>
      /\ \A q \in Publishers : q # p => pending'[q] = <<>>
  BY <1>1, PublisherAssumption DEF TopicInv, SendingInv
<1>6. SendingInv'
  BY <1>1, <1>2, <1>3, <1>4, <1>5, PublisherAssumption DEF SendingInv
<1>7. \A i \in DOMAIN queue' : \E k \in DOMAIN published' :
         /\ queue'[i] = <<published'[k].topic, published'[k].data>>
         /\ IsPrefix(Prefix, published'[k].topic)
  BY <1>1, <1>3 DEF TopicInv, IsWhole, IsUpdate
<1>8. UpdatesAreWhole'
  BY <1>1, <1>3 DEF UpdatesAreWhole
<1> QED
  BY <1>1, <1>3, <1>6, <1>7, <1>8 DEF TopicInv, IsWhole, IsUpdate

LEMMA DataWhole ==
    ASSUME TopicInv, NEW p \in Publishers, PublishData(p)
    PROVE  TopicInv'
<1> USE DEF TopicInv
<1>1. /\ pubMutex = p /\ pubMutex' = NoThread /\ open' = <<>>
      /\ pending' = [pending EXCEPT ![p] = <<>>] /\ published' = published
      /\ Deliver(open \o pending[p])
  BY DEF PublishData, SendingInv
<1>2. SendingInv'
  BY <1>1, PublisherAssumption DEF SendingInv
<1>3. PICK k \in DOMAIN published :
        open = <<published[k].topic>> /\ pending[p] = <<published[k].data>>
  BY <1>1, PublisherAssumption DEF SendingInv
<1> DEFINE message == open \o pending[p]
<1>4. message = <<published[k].topic, published[k].data>> /\ Head(message) = published[k].topic
  BY <1>3, TwoFrames
<1>5. queue' = queue \/ (queue' = Append(queue, message) /\ IsPrefix(Prefix, Head(message)))
  BY <1>1 DEF Deliver
<1> HIDE DEF message
<1>6. CASE queue' = queue
  BY <1>1, <1>2, <1>6 DEF IsWhole, IsUpdate
<1>7. CASE queue' = Append(queue, message) /\ IsPrefix(Prefix, Head(message))
  <2>1. IsWhole(message)
    BY <1>4, <1>7 DEF IsWhole, IsUpdate
  <2>2. IsSequence(queue') /\ \A i \in DOMAIN queue' : IsWhole(queue'[i])
    BY <1>7, <2>1, Appended
  <2> QED
    BY <1>1, <1>2, <2>2 DEF IsWhole, IsUpdate
<1> QED
  BY <1>5, <1>6, <1>7

LEMMA HearWhole ==
    ASSUME TopicInv, NEW l \in Listeners, Hear(l)
    PROVE  TopicInv' /\ UpdatesAreWhole'
<1>1. UNCHANGED <<pubMutex, pending, open, published>> /\ queue # <<>>
  BY DEF Hear
<1>2. PICK S : queue \in Seq(S)
  BY DEF TopicInv, IsSequence
<1>3. PICK k \in DOMAIN published :
        IsUpdate(Head(queue), k) /\ IsPrefix(Prefix, published[k].topic)
  BY <1>1, <1>2 DEF TopicInv, IsWhole
<1>4. /\ Len(Head(queue)) = 2 /\ Head(queue)[2] = published[k].data
      /\ SubSeq(Head(queue), 3, Len(Head(queue))) = <<>>
  <2> DEFINE topic == published[k].topic
             data == published[k].data
  <2>1. Head(queue) = <<topic, data>>
    BY <1>3 DEF IsUpdate
  <2> HIDE DEF topic, data
  <2>2. Len(<<topic, data>>) = 2 /\ <<topic, data>>[2] = data
        /\ SubSeq(<<topic, data>>, 3, 2) = <<>>
    BY TwoFrames
  <2>3. Len(Head(queue)) = 2 /\ Head(queue)[2] = data
        /\ SubSeq(Head(queue), 3, Len(Head(queue))) = <<>>
    BY <2>1, <2>2, Zenon
  <2> QED
    BY <2>3 DEF data
<1>5. queue' = <<>> \o Tail(queue) /\ heard' = [status |-> "Success", data |-> published[k].data]
  BY <1>4 DEF Hear, ReturnHeard
<1>6. queue' = Tail(queue) /\ IsSequence(queue')
  BY <1>1, <1>2, <1>5 DEF IsSequence
<1>7. \A i \in DOMAIN queue' : \E j \in DOMAIN queue : queue'[i] = queue[j]
  BY <1>1, <1>2, <1>6
<1>8. TopicInv'
  BY <1>1, <1>6, <1>7 DEF TopicInv, SendingInv, IsWhole, IsUpdate
<1>9. UpdatesAreWhole'
  BY <1>1, <1>3, <1>5 DEF UpdatesAreWhole
<1> QED
  BY <1>8, <1>9

LEMMA TopicStep ==
    ASSUME TopicInv, UpdatesAreWhole, SubPubNext
    PROVE  TopicInv' /\ UpdatesAreWhole'
<1>1. ASSUME NEW p \in Publishers, NEW topic, NEW data, Publish(p, topic, data)
      PROVE  TopicInv' /\ UpdatesAreWhole'
  BY <1>1, PublishWhole
<1>2. CASE PublishScene \/ PublishDamaged
  BY <1>1, <1>2, NetworkingAssumption DEF PublishScene, PublishDamaged
<1>3. ASSUME NEW p \in Publishers, Pulse(p)
      PROVE  TopicInv' /\ UpdatesAreWhole'
  BY <1>1, <1>3 DEF Pulse
<1>4. ASSUME NEW p \in Publishers, PublishData(p)
      PROVE  TopicInv' /\ UpdatesAreWhole'
  <2>1. UNCHANGED <<published, heard>>
    BY <1>4 DEF PublishData
  <2> QED
    BY <1>4, <2>1, DataWhole DEF UpdatesAreWhole
<1>5. ASSUME UNCHANGED <<pubMutex, pending, open, published, queue>>,
             heard' = heard \/ heard' = NothingHeard
      PROVE  TopicInv' /\ UpdatesAreWhole'
  BY <1>5 DEF TopicInv, SendingInv, IsWhole, IsUpdate, UpdatesAreWhole, NothingHeard
<1>6. ASSUME NEW l \in Listeners, Listen(l) \/ HearNothing(l)
      PROVE  TopicInv' /\ UpdatesAreWhole'
  BY <1>5, <1>6 DEF Listen, HearNothing, ReturnHeard
<1>7. CASE Connect
  BY <1>5, <1>7 DEF Connect
<1>8. CASE Disconnect
  <2>1. queue' = queue \/ queue' = <<>>
    BY <1>8 DEF Disconnect
  <2>2. UNCHANGED <<pubMutex, pending, open, published, heard>>
    BY <1>8 DEF Disconnect
  <2>3. SendingInv' /\ UpdatesAreWhole' /\ IsSequence(published')
    BY <2>2 DEF TopicInv, SendingInv, UpdatesAreWhole
  <2>4. CASE queue' = queue
    BY <2>2, <2>3, <2>4 DEF TopicInv, IsWhole, IsUpdate
  <2>5. CASE queue' = <<>>
    <3>1. IsSequence(queue') /\ DOMAIN queue' = {}
      BY <2>5 DEF IsSequence
    <3> QED
      BY <2>3, <3>1 DEF TopicInv
  <2> QED
    BY <2>1, <2>4, <2>5
<1>9. ASSUME NEW l \in Listeners, HearScene(l)
       PROVE  TopicInv' /\ UpdatesAreWhole'
  BY <1>9, HearWhole DEF HearScene
<1>10. CASE Games
  BY <1>5, <1>10 DEF Games, topicVars
<1> QED
  BY <1>2, <1>3, <1>4, <1>6, <1>7, <1>8, <1>9, <1>10 DEF SubPubNext

LEMMA TopicStarts ==
    ASSUME TopicInit
    PROVE  TopicInv /\ UpdatesAreWhole
<1> USE DEF TopicInit
<1>1. IsSequence(published) /\ IsSequence(queue)
  BY DEF IsSequence
<1>2. SendingInv
  BY DEF SendingInv
<1> QED
  BY <1>1, <1>2 DEF TopicInv, UpdatesAreWhole, NothingHeard

LEMMA TopicNext ==
    ASSUME TopicInv, UpdatesAreWhole, [Next]_vars
    PROVE  TopicInv' /\ UpdatesAreWhole'
<1>1. CASE UNCHANGED topicVars
  BY <1>1 DEF topicVars, TopicInv, SendingInv, IsWhole, IsUpdate, UpdatesAreWhole
<1>2. CASE RequestNext
  BY <1>1, <1>2 DEF RequestNext, SendAny, Requests
<1>3. CASE UNCHANGED vars
  BY <1>1, <1>3 DEF vars
<1> QED
  BY <1>2, <1>3, TopicStep DEF Next

\* However publishing threads interleave, what a subscriber gets is one of the updates
\* (publisher.cpp:30-54, subscriber.cpp:99-129).
THEOREM UpdatesStayWhole == Spec => []UpdatesAreWhole
<1>1. Init => TopicInv /\ UpdatesAreWhole
  BY TopicStarts DEF Init
<1>2. TopicInv /\ UpdatesAreWhole /\ [Next]_vars => TopicInv' /\ UpdatesAreWhole'
  BY TopicNext
<1> QED
  BY <1>1, <1>2, PTL DEF Spec

-----------------------------------------------------------------------------
(***************************************************************************)
(* Induction.  A set of numbers stands for what is to be shown of them, as *)
(* an operator could not be instantiated.                                  *)
(***************************************************************************)
LEMMA LeastNumber ==
    ASSUME NEW T, T \subseteq Nat, T # {}
    PROVE  \E n \in T : \A m \in T : n <= m
<1> DEFINE R == OpToRel(<, Nat)
<1>1. IsWellFoundedOn(R, Nat)
  BY NatLessThanWellFounded
<1> HIDE DEF R
<1>2. PICK n \in T : \A m \in T : <<m, n>> \notin R
  BY <1>1, WFMin, Zenon
<1>3. \A m, k \in Nat : m < k => <<m, k>> \in R
  BY DEF R, OpToRel
<1>4. ASSUME NEW m \in T PROVE n <= m
  <2>1. n \in Nat /\ m \in Nat
    OBVIOUS
  <2>2. ~(m < n)
    BY <1>2, <1>3, <2>1
  <2> QED BY <2>1, <2>2
<1> QED BY <1>4

LEMMA Induction ==
    ASSUME NEW T, 0 \in T, \A n \in Nat : n \in T => n + 1 \in T
    PROVE  Nat \subseteq T
<1> SUFFICES ASSUME Nat \ T # {} PROVE FALSE
  OBVIOUS
<1>1. PICK n \in Nat \ T : \A m \in Nat \ T : n <= m
  BY LeastNumber, Zenon
<1>2. n # 0 /\ n - 1 \in Nat
  BY <1>1
<1>3. n - 1 \in T
  BY <1>1, <1>2
<1> QED BY <1>1, <1>2, <1>3

-----------------------------------------------------------------------------
(***************************************************************************)
(* Sequences of bytes, and what they are put together from.                *)
(***************************************************************************)
LEMMA SequenceFacts ==
    ASSUME NEW s, IsSequence(s)
    PROVE  Len(s) \in Nat /\ DOMAIN s = 1..Len(s) /\ s = [i \in 1..Len(s) |-> s[i]]
BY DEF IsSequence

LEMMA MakeSequence ==
    ASSUME NEW n \in Nat, NEW s, s = [i \in 1..n |-> s[i]]
    PROVE  IsSequence(s) /\ Len(s) = n
<1> DEFINE S == {s[i] : i \in 1..n}
<1>1. s \in Seq(S) /\ Len(s) = n
  OBVIOUS
<1> QED BY <1>1 DEF IsSequence

LEMMA JoinFacts ==
    ASSUME NEW a, IsSequence(a), NEW b, IsSequence(b)
    PROVE  /\ IsSequence(a \o b) /\ Len(a \o b) = Len(a) + Len(b)
           /\ \A i \in 1..Len(a) : (a \o b)[i] = a[i]
           /\ \A i \in 1..Len(b) : (a \o b)[Len(a) + i] = b[i]
<1>1. PICK S : a \in Seq(S)
  BY DEF IsSequence
<1>2. PICK R : b \in Seq(R)
  BY DEF IsSequence
<1>3. a \in Seq(S \cup R) /\ b \in Seq(S \cup R)
  BY <1>1, <1>2
<1>4. /\ a \o b \in Seq(S \cup R) /\ Len(a \o b) = Len(a) + Len(b)
      /\ \A i \in 1..Len(a) : (a \o b)[i] = a[i]
      /\ \A i \in 1..Len(b) : (a \o b)[Len(a) + i] = b[i]
  BY <1>3
<1> QED BY <1>4 DEF IsSequence

\* The function that the definition of FlattenSeq chooses.
Flattens(f, parts, n) == f = [i \in 1..n |-> IF i = 1 THEN parts[i] ELSE f[i - 1] \o parts[i]]

LEMMA FlattenExists ==
    ASSUME NEW parts, NEW n \in Nat
    PROVE  \E f : Flattens(f, parts, n)
<1> DEFINE T == {k \in Nat : \E f : Flattens(f, parts, k)}
<1>1. 0 \in T
  <2> DEFINE f == [i \in 1..0 |-> <<>>]
  <2>1. Flattens(f, parts, 0)
    BY DEF Flattens
  <2> QED BY <2>1
<1>2. ASSUME NEW k \in Nat, k \in T PROVE k + 1 \in T
  <2>1. PICK f : Flattens(f, parts, k)
    BY <1>2
  <2> DEFINE h == [i \in 1..(k + 1) |->
                      IF i = k + 1 THEN IF i = 1 THEN parts[i] ELSE f[i - 1] \o parts[i]
                      ELSE f[i]]
  <2>2. \A i \in 1..k : f[i] = IF i = 1 THEN parts[i] ELSE f[i - 1] \o parts[i]
    BY <2>1 DEF Flattens
  <2>3. ASSUME NEW i \in 1..(k + 1)
        PROVE  h[i] = IF i = 1 THEN parts[i] ELSE h[i - 1] \o parts[i]
    BY <2>2
  <2>4. h = [i \in 1..(k + 1) |-> h[i]]
    OBVIOUS
  <2> HIDE DEF h
  <2>5. Flattens(h, parts, k + 1)
    BY <2>3, <2>4 DEF Flattens
  <2> QED BY <2>5
<1> HIDE DEF T
<1>3. Nat \subseteq T
  BY <1>1, <1>2, Induction
<1> QED BY <1>3 DEF T

\* All is the parts in their order, the i-th from c[i - 1] on.
Pieces(all, c, parts, n) ==
    /\ IsSequence(all) /\ Len(all) = c[n]
    /\ c \in [0..n -> Nat] /\ c[0] = 0
    /\ \A i \in 1..n : c[i] = c[i - 1] + Len(parts[i])
    /\ \A i \in 1..n : \A j \in 1..Len(parts[i]) : all[c[i - 1] + j] = parts[i][j]
    /\ \A i \in 0..n : c[i] <= c[n]

LEMMA Within ==
    ASSUME NEW a \in Nat, NEW b \in Nat, NEW n \in Nat, NEW k \in Nat, b = a + k, b <= n,
           NEW j \in 1..k
    PROVE  a + j \in 1..n
OBVIOUS

LEMMA PiecesGrow ==
    ASSUME NEW all, NEW c, NEW parts, NEW n \in Nat, Pieces(all, c, parts, n),
           NEW part, IsSequence(part), part = parts[n + 1]
    PROVE  \E d : Pieces(all \o part, d, parts, n + 1)
<1> DEFINE d == [i \in 0..(n + 1) |-> IF i = n + 1 THEN c[n] + Len(part) ELSE c[i]]
           more == all \o part
<1>1. IsSequence(all) /\ Len(all) = c[n] /\ c[n] \in Nat /\ Len(part) \in Nat
  BY SequenceFacts DEF Pieces
<1>c. IsSequence(all) /\ IsSequence(part)
  BY DEF Pieces
<1>a. /\ IsSequence(all \o part) /\ Len(all \o part) = Len(all) + Len(part)
      /\ \A i \in 1..Len(all) : (all \o part)[i] = all[i]
      /\ \A i \in 1..Len(part) : (all \o part)[Len(all) + i] = part[i]
  <2> HIDE DEF more, d
  <2> QED BY <1>c, JoinFacts
<1>b. more = all \o part
  OBVIOUS
<1> HIDE DEF more
<1>2. /\ IsSequence(more) /\ Len(more) = c[n] + Len(part)
      /\ \A i \in 1..c[n] : more[i] = all[i]
      /\ \A i \in 1..Len(part) : more[c[n] + i] = part[i]
  BY <1>1, <1>a, <1>b
<1>0. c \in [0..n -> Nat] /\ c[0] = 0 /\ \A i \in 0..n : c[i] <= c[n]
  BY DEF Pieces
<1>3. /\ d \in [0..(n + 1) -> Nat] /\ d[n + 1] = c[n] + Len(part)
      /\ \A i \in 0..n : d[i] = c[i]
  BY <1>0, <1>1
<1> HIDE DEF d
<1>4. ASSUME NEW i \in 1..(n + 1)
      PROVE  /\ d[i] = d[i - 1] + Len(parts[i])
             /\ \A j \in 1..Len(parts[i]) : more[d[i - 1] + j] = parts[i][j]
  <2>1. CASE i = n + 1
    <3>1. i - 1 = n /\ d[i - 1] = c[n] /\ d[i] = c[n] + Len(part) /\ parts[i] = part
      BY <1>3, <2>1
    <3> QED BY <1>2, <3>1
  <2>2. CASE i # n + 1
    <3>1. i \in 1..n /\ i - 1 \in 0..n /\ d[i] = c[i] /\ d[i - 1] = c[i - 1]
      BY <1>3, <2>2
    <3>2. c[i] = c[i - 1] + Len(parts[i]) /\ c[i] <= c[n] /\ c[i] \in Nat /\ c[i - 1] \in Nat
      BY <3>1 DEF Pieces
    <3>3. ASSUME NEW j \in 1..Len(parts[i]) PROVE more[d[i - 1] + j] = parts[i][j]
      <4>1. all[c[i - 1] + j] = parts[i][j]
        BY <3>1 DEF Pieces
      <4>2. Len(parts[i]) \in Nat
        BY <3>1, <3>2, <3>3
      <4>3. c[i - 1] + j \in 1..c[n]
        BY ONLY <1>1, <3>2, <3>3, <4>2, Within
      <4> QED BY <1>2, <3>1, <4>1, <4>3
    <3> QED BY <3>1, <3>2, <3>3
  <2> QED BY <2>1, <2>2
<1>5. ASSUME NEW i \in 0..(n + 1) PROVE d[i] <= d[n + 1]
  <2>1. CASE i = n + 1
    BY <1>3, <2>1
  <2>2. CASE i # n + 1
    <3>1. i \in 0..n
      BY <2>2
    <3>2. d[i] = c[i] /\ c[i] <= c[n] /\ c[i] \in Nat
      BY <1>0, <1>3, <3>1
    <3> QED BY <1>1, <1>3, <3>2
  <2> QED BY <2>1, <2>2
<1>6. Pieces(more, d, parts, n + 1)
  BY <1>0, <1>2, <1>3, <1>4, <1>5 DEF Pieces
<1> QED BY <1>6 DEF more

LEMMA FlattensPieces ==
    ASSUME NEW n \in Nat, NEW parts, NEW f, Flattens(f, parts, n), n # 0,
           \A i \in 1..n : IsSequence(parts[i])
    PROVE  \E c : Pieces(f[n], c, parts, n)
<1>1. \A i \in 1..n : f[i] = IF i = 1 THEN parts[i] ELSE f[i - 1] \o parts[i]
  BY DEF Flattens
<1> DEFINE T == {k \in Nat : k + 1 <= n => \E c : Pieces(f[k + 1], c, parts, k + 1)}
<1>2. 0 \in T
  <2> DEFINE c == [i \in 0..1 |-> IF i = 0 THEN 0 ELSE Len(parts[1])]
  <2>1. 1 \in 1..n /\ f[1] = parts[1] /\ IsSequence(parts[1]) /\ Len(parts[1]) \in Nat
    BY <1>1, SequenceFacts
  <2>2. c \in [0..1 -> Nat] /\ c[0] = 0 /\ c[1] = Len(parts[1])
    BY <2>1
  <2> HIDE DEF c
  <2>3. Pieces(f[1], c, parts, 1)
    BY <2>1, <2>2 DEF Pieces
  <2>4. \E d : Pieces(f[0 + 1], d, parts, 0 + 1)
    BY <2>3
  <2> QED BY <2>4
<1>3. ASSUME NEW k \in Nat, k \in T PROVE k + 1 \in T
  <2>1. ASSUME (k + 1) + 1 <= n
        PROVE  \E c : Pieces(f[(k + 1) + 1], c, parts, (k + 1) + 1)
    <3>1. PICK c : Pieces(f[k + 1], c, parts, k + 1)
      BY <1>3, <2>1
    <3>2. (k + 1) + 1 \in 1..n /\ (k + 1) + 1 # 1 /\ ((k + 1) + 1) - 1 = k + 1
      BY <2>1
    <3> DEFINE part == parts[(k + 1) + 1]
    <3>3. f[(k + 1) + 1] = f[k + 1] \o part /\ IsSequence(part)
      BY <1>1, <3>2
    <3> HIDE DEF T, part
    <3>4. \E d : Pieces(f[k + 1] \o part, d, parts, (k + 1) + 1)
      BY <3>1, <3>3, PiecesGrow DEF part
    <3> QED BY <3>3, <3>4
  <2> QED BY <2>1
<1> HIDE DEF T
<1>4. Nat \subseteq T
  BY <1>2, <1>3, Induction
<1>5. n - 1 \in T /\ (n - 1) + 1 = n
  BY <1>4
<1> QED BY <1>5 DEF T

LEMMA FlattenFacts ==
    ASSUME NEW n \in Nat, NEW parts, parts = [i \in 1..n |-> parts[i]],
           \A i \in 1..n : IsSequence(parts[i])
    PROVE  \E c : Pieces(FlattenSeq(parts), c, parts, n)
<1>1. IsSequence(parts) /\ Len(parts) = n
  BY MakeSequence
<1>2. CASE n = 0
  <2> DEFINE c == [i \in 0..0 |-> 0]
  <2>1. FlattenSeq(parts) = parts
    BY <1>1, <1>2 DEF FlattenSeq
  <2>2. c \in [0..0 -> Nat] /\ c[0] = 0
    OBVIOUS
  <2> HIDE DEF c
  <2>3. Pieces(parts, c, parts, 0)
    BY <1>1, <1>2, <2>2 DEF Pieces
  <2> QED BY <1>2, <2>1, <2>3
<1>3. CASE n # 0
  <2>1. PICK f : f = (CHOOSE h : Flattens(h, parts, n))
    OBVIOUS
  <2>2. Flattens(f, parts, n)
    BY <2>1, FlattenExists
  <2>3. FlattenSeq(parts) = f[n]
    BY <1>1, <1>3, <2>1 DEF FlattenSeq, Flattens
  <2> QED BY <1>3, <2>2, <2>3, FlattensPieces
<1> QED BY <1>2, <1>3

-----------------------------------------------------------------------------
(***************************************************************************)
(* Readers.                                                                *)
(***************************************************************************)
\* The readers that getting field after field goes through.
FieldRun(f, reader, layout, n) ==
    f = [i \in 0..n |->
            IF i = 0 THEN reader ELSE Once(LAMBDA r : GetNext(r, layout[i]), f[i - 1])]

LEMMA FieldRunChooses ==
    ASSUME NEW reader, NEW layout
    PROVE  GetFields(reader, layout)
               = (CHOOSE f : FieldRun(f, reader, layout, Len(layout)))[Len(layout)]
BY DEF GetFields, FieldRun

LEMMA OnceNext ==
    ASSUME NEW q, NEW f
    PROVE  Once(LAMBDA r : GetNext(r, f), q) = GetNext(q, f)
BY DEF Once

LEMMA FieldRunExists ==
    ASSUME NEW reader, NEW layout, NEW n \in Nat
    PROVE  \E f : FieldRun(f, reader, layout, n)
<1> DEFINE T == {k \in Nat : \E f : FieldRun(f, reader, layout, k)}
<1>1. 0 \in T
  <2> DEFINE f == [i \in 0..0 |-> reader]
  <2>1. FieldRun(f, reader, layout, 0)
    BY DEF FieldRun
  <2> QED BY <2>1
<1>2. ASSUME NEW k \in Nat, k \in T PROVE k + 1 \in T
  <2>1. PICK f : FieldRun(f, reader, layout, k)
    BY <1>2
  <2> DEFINE h == [i \in 0..(k + 1) |-> IF i = k + 1 THEN GetNext(f[k], layout[k + 1]) ELSE f[i]]
  <2>2. \A i \in 0..k : f[i] = IF i = 0 THEN reader ELSE GetNext(f[i - 1], layout[i])
    BY <2>1, OnceNext DEF FieldRun
  <2>3. ASSUME NEW i \in 0..(k + 1)
        PROVE  h[i] = IF i = 0 THEN reader ELSE GetNext(h[i - 1], layout[i])
    BY <2>2
  <2>4. h = [i \in 0..(k + 1) |-> h[i]]
    OBVIOUS
  <2> HIDE DEF h
  <2>5. FieldRun(h, reader, layout, k + 1)
    BY <2>3, <2>4, OnceNext DEF FieldRun
  <2> QED BY <2>5
<1> HIDE DEF T
<1>3. Nat \subseteq T
  BY <1>1, <1>2, Induction
<1> QED BY <1>3 DEF T

FieldStages(h, reader, layout, n) ==
    /\ h[0] = reader
    /\ \A i \in 1..n : h[i] = GetNext(h[i - 1], layout[i])
    /\ GetFields(reader, layout) = h[n]

LEMMA FieldSteps ==
    ASSUME NEW reader, NEW layout, NEW n \in Nat, Len(layout) = n
    PROVE  \E h : FieldStages(h, reader, layout, n)
<1>1. PICK f : f = (CHOOSE h : FieldRun(h, reader, layout, n))
  OBVIOUS
<1>2. FieldRun(f, reader, layout, n)
  BY <1>1, FieldRunExists
<1>3. GetFields(reader, layout) = f[n]
  BY <1>1, FieldRunChooses
<1>4. \A i \in 0..n : f[i] = IF i = 0 THEN reader ELSE GetNext(f[i - 1], layout[i])
  BY <1>2, OnceNext DEF FieldRun
<1> QED BY <1>3, <1>4 DEF FieldStages

IsRecord(g) == g = [x \in DOMAIN g |-> g[x]]

IsReader(r) == IsRecord(r) /\ DOMAIN r = {"in", "pos", "ok", "got"}

\* A reader in which nothing failed so far.
Open(r) ==
    /\ IsReader(r) /\ r.ok = TRUE
    /\ IsSequence(r.in) /\ r.pos \in Nat /\ r.pos <= Len(r.in)
    /\ IsRecord(r.got)

Failed(r) == IsRecord(r) /\ "ok" \in DOMAIN r /\ r.ok = FALSE

\* A reader that is at a position with what it got.
At(q, input, pos, got) ==
    IsReader(q) /\ q.ok = TRUE /\ q.in = input /\ q.pos = pos /\ q.got = got

\* The input has b from p on, as far as it goes.
Carries(input, p, b) == \A j \in 1..Len(b) : p + j <= Len(input) => input[p + j] = b[j]

\* What becomes of a reader that finds b: it gets all of it, or fails where the input ends.
Gets(q, r, b, g) ==
    IF r.pos + Len(b) <= Len(r.in)
    THEN At(q, r.in, r.pos + Len(b), g)
    ELSE Failed(q)

\* The values that a form can hold.
FitsForm(v, form) ==
    \/ form = Byte /\ v \in 0..(Base - 1)
    \/ form = Wide /\ v \in 0..(Base * Base - 1)
    \/ form = Bool /\ v \in BOOLEAN
    \/ form = Counted /\ IsSequence(v) /\ Len(v) < Base * Base

LEMMA WideBase == Base * Base = 65536
BY DEF Base

LEMMA Quotient ==
    ASSUME NEW v \in Nat
    PROVE  v \div 256 \in Nat /\ v % 256 \in 0..255 /\ v = 256 * (v \div 256) + (v % 256)
OBVIOUS

LEMMA WideNumber ==
    ASSUME NEW v \in 0..(Base * Base - 1)
    PROVE  /\ v % Base \in 0..(Base - 1) /\ (v \div Base) % Base \in 0..(Base - 1)
           /\ (v % Base) + Base * ((v \div Base) % Base) = v
<1> DEFINE q == v \div 256
           m == v % 256
<1>1. v \in Nat /\ v < 65536
  <2>1. v \in Nat /\ v <= Base * Base - 1
    OBVIOUS
  <2> QED BY <2>1, WideBase
<1>2. q \in Nat /\ m \in 0..255 /\ v = 256 * q + m
  BY <1>1, Quotient
<1>3. /\ v % Base = m /\ (v \div Base) % Base = q % 256 /\ Base - 1 = 255
      /\ Base * (q % 256) = 256 * (q % 256)
  BY DEF Base
<1> HIDE DEF q, m
<1>4. q <= 255
  BY ONLY <1>1, <1>2
<1>5. q % 256 = q
  BY ONLY <1>2, <1>4
<1>6. m + 256 * q = v
  BY ONLY <1>1, <1>2
<1> QED BY ONLY <1>2, <1>3, <1>4, <1>5, <1>6

LEMMA ScalarFacts ==
    ASSUME NEW size \in {Byte, Wide}, NEW v,
           v \in 0..(IF size = Byte THEN Base - 1 ELSE Base * Base - 1)
    PROVE  LET b == PutScalar(v, size)
           IN  IsSequence(b) /\ Len(b) = size /\ Number(b) = v
<1>1. CASE size = Byte
  <2>1. PutScalar(v, size) = <<v>>
    BY <1>1 DEF PutScalar, Base
  <2>2. <<v>> \in Seq(Nat) /\ Len(<<v>>) = 1 /\ <<v>>[1] = v
    BY <1>1 DEF Base
  <2>3. Number(<<v>>) = v
    BY <1>1, <2>2 DEF Number, Wide, Base
  <2> QED BY <1>1, <2>1, <2>2, <2>3 DEF IsSequence, Byte
<1>2. CASE size = Wide
  <2> DEFINE x == v % Base
             y == (v \div Base) % Base
  <2>1. PutScalar(v, size) = <<x, y>>
    BY <1>2 DEF PutScalar, Byte, Wide
  <2>2. v \in 0..(Base * Base - 1)
    BY <1>2 DEF Byte, Wide
  <2>3. (x \in 0..(Base - 1) /\ y \in 0..(Base - 1)) /\ x + Base * y = v
    BY <2>2, WideNumber
  <2> HIDE DEF x, y
  <2>4. <<x, y>> \in Seq({x, y}) /\ Len(<<x, y>>) = 2 /\ <<x, y>>[1] = x /\ <<x, y>>[2] = y
    OBVIOUS
  <2>5. Number(<<x, y>>) = v
    BY <2>3, <2>4 DEF Number, Wide
  <2> QED BY <1>2, <2>1, <2>4, <2>5 DEF IsSequence, Wide
<1> QED BY <1>1, <1>2

LEMMA AheadFacts ==
    ASSUME NEW r, Open(r), NEW p \in Nat, NEW size \in Nat, r.pos + p + size <= Len(r.in)
    PROVE  LET s == SubSeq(r.in, r.pos + p + 1, r.pos + p + size)
           IN  s = [j \in 1..size |-> r.in[r.pos + p + j]] /\ IsSequence(s) /\ Len(s) = size
<1> DEFINE lo == r.pos + p
           s  == SubSeq(r.in, lo + 1, lo + size)
           f  == [j \in 1..size |-> r.in[lo + j]]
<1>1. lo \in Nat
  BY DEF Open
<1> HIDE DEF lo
<1>2. s = f
  BY <1>1
<1>3. s = [j \in 1..size |-> s[j]]
  BY <1>2
<1> HIDE DEF s
<1>4. IsSequence(s) /\ Len(s) = size
  BY <1>3, MakeSequence
<1> QED BY <1>2, <1>4 DEF lo, s

\* What is ahead of a reader whose input carries b is b, if there is that much.
LEMMA AheadIs ==
    ASSUME NEW r, Open(r), NEW p \in Nat, NEW b, IsSequence(b), Carries(r.in, r.pos + p, b),
           r.pos + p + Len(b) <= Len(r.in)
    PROVE  SubSeq(r.in, r.pos + p + 1, r.pos + p + Len(b)) = b
<1> DEFINE s == SubSeq(r.in, r.pos + p + 1, r.pos + p + Len(b))
<1>1. Len(b) \in Nat /\ b = [j \in 1..Len(b) |-> b[j]]
  BY SequenceFacts
<1>2. s = [j \in 1..Len(b) |-> r.in[r.pos + p + j]]
  BY <1>1, AheadFacts
<1>3. ASSUME NEW j \in 1..Len(b) PROVE r.in[r.pos + p + j] = b[j]
  <2>1. r.pos \in Nat /\ Len(r.in) \in Nat
    BY SequenceFacts DEF Open
  <2>2. r.pos + p + j <= Len(r.in)
    BY <1>1, <2>1
  <2> QED BY <2>2 DEF Carries
<1> HIDE DEF s
<1> QED BY <1>1, <1>2, <1>3 DEF s

LEMMA GotFacts ==
    ASSUME NEW r, Open(r), NEW name, NEW size, NEW value
    PROVE  At(Got(r, name, size, value), r.in, r.pos + size, [r.got EXCEPT ![name] = value])
BY DEF Got, At, Open, IsReader, IsRecord

LEMMA FailFacts ==
    ASSUME NEW r, Open(r) \/ Failed(r)
    PROVE  Failed(Fail(r))
BY DEF Fail, Failed, Open, IsReader, IsRecord

LEMMA ScalarRead ==
    ASSUME NEW r, Open(r), NEW name, NEW size \in {Byte, Wide}, NEW v,
           v \in 0..(IF size = Byte THEN Base - 1 ELSE Base * Base - 1),
           Carries(r.in, r.pos, PutScalar(v, size))
    PROVE  Gets(GetScalar(r, name, size), r, PutScalar(v, size), [r.got EXCEPT ![name] = v])
<1> DEFINE b == PutScalar(v, size)
<1>1. IsSequence(b) /\ Len(b) = size /\ Number(b) = v
  BY ScalarFacts
<1>2. r.ok = TRUE /\ r.pos \in Nat /\ Len(r.in) \in Nat /\ size \in Nat
  BY SequenceFacts DEF Open, Byte, Wide
<1>3. Carries(r.in, r.pos + 0, b)
  BY <1>2
<1> HIDE DEF b
<1>4. CASE r.pos + size <= Len(r.in)
  <2>1. SubSeq(r.in, r.pos + 0 + 1, r.pos + 0 + Len(b)) = b
    BY <1>1, <1>2, <1>3, <1>4, AheadIs
  <2>2. Ahead(r, size) = b
    BY <1>1, <1>2, <2>1 DEF Ahead
  <2>3. GetScalar(r, name, size) = Got(r, name, size, v)
    BY <1>1, <1>2, <1>4, <2>2 DEF GetScalar, Fits
  <2> QED BY <1>1, <1>4, <2>3, GotFacts DEF Gets, b
<1>5. CASE ~(r.pos + size <= Len(r.in))
  <2>1. GetScalar(r, name, size) = Fail(r)
    BY <1>2, <1>5 DEF GetScalar, Fits
  <2> QED BY <1>1, <1>5, <2>1, FailFacts DEF Gets, b
<1> QED BY <1>4, <1>5

LEMMA BytesRead ==
    ASSUME NEW r, Open(r), NEW name, NEW v, IsSequence(v), Len(v) < Base * Base,
           Carries(r.in, r.pos, PutBytes(v))
    PROVE  Gets(GetBytes(r, name), r, PutBytes(v), [r.got EXCEPT ![name] = v])
<1> DEFINE n == PutScalar(Len(v), Wide)
<1>0. Len(v) \in Nat
  BY SequenceFacts
<1>1. Len(v) \in Nat /\ Len(v) \in 0..(Base * Base - 1)
  BY <1>0, WideBase
<1>2. IsSequence(n) /\ Len(n) = Wide /\ Number(n) = Len(v)
  BY <1>1, ScalarFacts DEF Byte, Wide
<1>3. r.ok = TRUE /\ r.pos \in Nat /\ Len(r.in) \in Nat
  BY SequenceFacts DEF Open
<1>a. PutBytes(v) = n \o v
  BY DEF PutBytes
<1> HIDE DEF n
<1>b. IsSequence(n) /\ IsSequence(v)
  BY <1>2
<1>c. /\ IsSequence(n \o v) /\ Len(n \o v) = Len(n) + Len(v)
      /\ \A i \in 1..Len(n) : (n \o v)[i] = n[i]
      /\ \A i \in 1..Len(v) : (n \o v)[Len(n) + i] = v[i]
  BY <1>b, JoinFacts
<1> DEFINE b == n \o v
<1>4. PutBytes(v) = b
  BY <1>a
<1>5. /\ IsSequence(b) /\ Len(b) = Len(n) + Len(v)
      /\ \A i \in 1..Len(n) : b[i] = n[i]
      /\ \A i \in 1..Len(v) : b[Len(n) + i] = v[i]
  BY <1>c
<1> HIDE DEF b
<1>6. Len(b) = 2 + Len(v)
  BY <1>2, <1>5 DEF Wide
<1>7. Carries(r.in, r.pos + 0, n)
  BY <1>1, <1>2, <1>3, <1>4, <1>5 DEF Carries, Wide
<1>8. Carries(r.in, r.pos + 2, v)
  <2>1. ASSUME NEW j \in 1..Len(v), (r.pos + 2) + j <= Len(r.in)
        PROVE  r.in[(r.pos + 2) + j] = v[j]
    <3>1. 2 + j \in 1..Len(b) /\ r.pos + (2 + j) <= Len(r.in)
      BY <1>1, <1>3, <1>6, <2>1
    <3>2. r.in[r.pos + (2 + j)] = b[2 + j]
      BY <1>4, <3>1 DEF Carries
    <3>3. b[2 + j] = v[j]
      BY <1>2, <1>5 DEF Wide
    <3>4. r.pos + (2 + j) = (r.pos + 2) + j
      BY <1>1, <1>3
    <3> QED BY <3>2, <3>3, <3>4
  <2> QED BY <2>1 DEF Carries
<1>9. CASE r.pos + 2 <= Len(r.in)
  <2>0. r.pos + 0 + Len(n) <= Len(r.in) /\ 0 \in Nat
    BY <1>2, <1>3, <1>9 DEF Wide
  <2>1. SubSeq(r.in, r.pos + 0 + 1, r.pos + 0 + Len(n)) = n
    BY <1>2, <1>7, <2>0, AheadIs
  <2>a. r.pos + 0 = r.pos
    BY <1>3
  <2>2. Ahead(r, Wide) = n
    BY <1>2, <2>1, <2>a DEF Ahead
  <2>3. Number(Ahead(r, Wide)) = Len(v)
    BY <1>2, <2>2
  <2>4. CASE r.pos + Len(b) <= Len(r.in)
    <3>1. SubSeq(r.in, r.pos + 2 + 1, r.pos + 2 + Len(v)) = v
      BY <1>1, <1>3, <1>6, <1>8, <2>4, AheadIs
    <3>2. Fits(r, Wide) /\ Fits(r, Wide + Len(v))
      BY <1>1, <1>3, <1>6, <1>9, <2>4 DEF Fits, Wide
    <3>3. GetBytes(r, name) = Got(r, name, Wide + Len(v), v)
      BY <2>3, <3>1, <3>2 DEF GetBytes, Wide
    <3> QED BY <1>4, <1>6, <2>4, <3>3, GotFacts DEF Gets, Wide
  <2>5. CASE ~(r.pos + Len(b) <= Len(r.in))
    <3>1. ~Fits(r, Wide + Len(v))
      BY <1>1, <1>3, <1>6, <2>5 DEF Fits, Wide
    <3>2. GetBytes(r, name) = Fail(r)
      BY <2>3, <3>1 DEF GetBytes
    <3> QED BY <1>4, <2>5, <3>2, FailFacts DEF Gets
  <2> QED BY <2>4, <2>5
<1>10. CASE ~(r.pos + 2 <= Len(r.in))
  <2>1. ~Fits(r, Wide) /\ ~(r.pos + Len(b) <= Len(r.in))
    BY <1>1, <1>3, <1>6, <1>10 DEF Fits, Wide
  <2>2. GetBytes(r, name) = Fail(r)
    BY <2>1 DEF GetBytes
  <2> QED BY <1>4, <2>1, <2>2, FailFacts DEF Gets
<1> QED BY <1>9, <1>10

LEMMA FieldRead ==
    ASSUME NEW r, Open(r), NEW name, NEW form, NEW v, FitsForm(v, form),
           Carries(r.in, r.pos, PutField(v, form))
    PROVE  /\ Gets(GetField(r, name, form), r, PutField(v, form), [r.got EXCEPT ![name] = v])
           /\ IsSequence(PutField(v, form)) /\ Len(PutField(v, form)) >= 1
<1>1. CASE form \in {Byte, Wide}
  <2>1. /\ GetField(r, name, form) = GetScalar(r, name, form)
        /\ PutField(v, form) = PutScalar(v, form)
    BY <1>1 DEF GetField, PutField, Byte, Wide, Bool, Counted
  <2>2. v \in 0..(IF form = Byte THEN Base - 1 ELSE Base * Base - 1)
    BY <1>1 DEF FitsForm, Byte, Wide, Bool, Counted
  <2>3. IsSequence(PutScalar(v, form)) /\ Len(PutScalar(v, form)) = form
    BY <1>1, <2>2, ScalarFacts
  <2>4. Gets(GetScalar(r, name, form), r, PutScalar(v, form), [r.got EXCEPT ![name] = v])
    BY <1>1, <2>1, <2>2, ScalarRead
  <2> QED BY <1>1, <2>1, <2>3, <2>4 DEF Byte, Wide
<1>2. CASE form = Counted
  <2>1. GetField(r, name, form) = GetBytes(r, name) /\ PutField(v, form) = PutBytes(v)
    BY <1>2 DEF GetField, PutField, Bool, Counted
  <2>2. IsSequence(v) /\ Len(v) < Base * Base
    BY <1>2 DEF FitsForm, Byte, Wide, Bool, Counted
  <2>3. Len(v) \in Nat
    BY <2>2, SequenceFacts
  <2>4. Len(v) \in 0..(Base * Base - 1)
    BY <2>2, <2>3, WideBase
  <2> DEFINE n == PutScalar(Len(v), Wide)
  <2>5. IsSequence(n) /\ Len(n) = 2 /\ PutBytes(v) = n \o v
    BY <2>4, ScalarFacts DEF Byte, Wide, PutBytes
  <2> HIDE DEF n
  <2>6. IsSequence(PutBytes(v)) /\ Len(PutBytes(v)) = 2 + Len(v)
    <3>1. IsSequence(n \o v) /\ Len(n \o v) = Len(n) + Len(v)
      BY <2>2, <2>5, JoinFacts
    <3> QED BY <2>5, <3>1
  <2>7. Gets(GetBytes(r, name), r, PutBytes(v), [r.got EXCEPT ![name] = v])
    BY <2>1, <2>2, BytesRead
  <2> QED BY <2>1, <2>3, <2>6, <2>7
<1>3. CASE form = Bool
  <2> DEFINE n == IF v THEN 1 ELSE 0
             b == PutScalar(n, Byte)
  <2>1. v \in BOOLEAN
    BY <1>3 DEF FitsForm, Byte, Wide, Bool, Counted
  <2>2. PutField(v, form) = b /\ n \in 0..(Base - 1) /\ Byte \in {Byte, Wide}
    BY <1>3, <2>1 DEF PutField, Bool, Counted, Base
  <2>3. b = <<n>>
    BY <2>1 DEF PutScalar, Base
  <2>4. (b # << 0 >>) = v
    BY <2>1, <2>3
  <2>5. IsSequence(b) /\ Len(b) = 1
    BY <2>2, ScalarFacts DEF Byte
  <2>6. r.ok = TRUE /\ r.pos \in Nat /\ Len(r.in) \in Nat
    BY SequenceFacts DEF Open
  <2> HIDE DEF n, b
  <2>7. CASE r.pos + 1 <= Len(r.in)
    <3>1. Carries(r.in, r.pos + 0, b) /\ r.pos + 0 + Len(b) <= Len(r.in)
      BY <2>2, <2>5, <2>6, <2>7
    <3>2. SubSeq(r.in, r.pos + 0 + 1, r.pos + 0 + Len(b)) = b
      BY <2>5, <3>1, AheadIs
    <3>a. r.pos + 0 = r.pos /\ Len(b) = Byte
      BY <2>5, <2>6 DEF Byte
    <3>3. Ahead(r, Byte) = b
      BY <3>2, <3>a DEF Ahead
    <3>4. GetField(r, name, form) = Got(r, name, Byte, v)
      BY <1>3, <2>4, <2>6, <2>7, <3>3 DEF GetField, Fits, Bool, Counted, Byte
    <3>5. At(Got(r, name, Byte, v), r.in, r.pos + Byte, [r.got EXCEPT ![name] = v])
      BY GotFacts
    <3>6. Gets(GetField(r, name, form), r, b, [r.got EXCEPT ![name] = v])
      BY <2>5, <2>7, <3>4, <3>5 DEF Gets, Byte
    <3> QED BY <2>2, <2>5, <3>6
  <2>8. CASE ~(r.pos + 1 <= Len(r.in))
    <3>1. GetField(r, name, form) = Fail(r)
      BY <1>3, <2>6, <2>8 DEF GetField, Fits, Bool, Counted, Byte
    <3> QED BY <2>2, <2>5, <2>8, <3>1, FailFacts DEF Gets
  <2> QED BY <2>7, <2>8
<1> QED BY <1>1, <1>2, <1>3 DEF FitsForm

\* What has failed stays so.
LEMMA FailsOn ==
    ASSUME NEW r, Failed(r), NEW f
    PROVE  Failed(GetNext(r, f))
<1>1. Failed(Fail(r)) /\ r.ok = FALSE
  BY FailFacts DEF Failed
<1>2. \A size : ~Fits(r, size)
  BY <1>1 DEF Fits
<1>3. \A name, form : GetField(r, name, form) = Fail(r)
  BY <1>2 DEF GetField, GetBytes, GetScalar
<1> QED BY <1>1, <1>3 DEF GetNext

LEMMA PutFieldFacts ==
    ASSUME NEW v, NEW form, FitsForm(v, form)
    PROVE  IsSequence(PutField(v, form)) /\ Len(PutField(v, form)) >= 1
<1> DEFINE r == [in |-> <<>>, pos |-> 0, ok |-> TRUE, got |-> <<>>]
<1>1. IsSequence(<<>>) /\ Len(<<>>) = 0
  <2>1. <<>> \in Seq({})
    OBVIOUS
  <2> QED BY <2>1 DEF IsSequence
<1>2. Open(r)
  BY <1>1 DEF Open, IsReader, IsRecord
<1>3. Carries(r.in, r.pos, PutField(v, form))
  BY <1>1 DEF Carries
<1> HIDE DEF r
<1> QED BY <1>2, <1>3, FieldRead

LEMMA PieceCarried ==
    ASSUME NEW all, NEW c, NEW parts, NEW n \in Nat, Pieces(all, c, parts, n),
           NEW input, NEW p \in Nat, Carries(input, p, all),
           NEW i \in 1..n, IsSequence(parts[i])
    PROVE  /\ Carries(input, p + c[i - 1], parts[i])
           /\ c[i] = c[i - 1] + Len(parts[i]) /\ c[i - 1] \in Nat /\ c[i] \in Nat
           /\ Len(parts[i]) \in Nat
<1>1. /\ c \in [0..n -> Nat] /\ Len(all) = c[n] /\ c[i] <= c[n]
      /\ c[i] = c[i - 1] + Len(parts[i])
      /\ \A j \in 1..Len(parts[i]) : all[c[i - 1] + j] = parts[i][j]
  BY DEF Pieces
<1>2. c[i - 1] \in Nat /\ c[i] \in Nat /\ c[n] \in Nat
  BY <1>1
<1>3. Len(parts[i]) \in Nat
  BY SequenceFacts
<1>4. ASSUME NEW j \in 1..Len(parts[i]), (p + c[i - 1]) + j <= Len(input)
      PROVE  input[(p + c[i - 1]) + j] = parts[i][j]
  <2>1. c[i - 1] + j \in 1..Len(all)
    BY ONLY <1>1, <1>2, <1>3, <1>4, Within
  <2>2. p + (c[i - 1] + j) = (p + c[i - 1]) + j
    BY <1>2, <1>4
  <2> QED BY <1>1, <1>4, <2>1, <2>2 DEF Carries
<1>5. Carries(input, p + c[i - 1], parts[i])
  BY <1>4 DEF Carries
<1> QED BY <1>1, <1>2, <1>3, <1>5

\* The names are those of the record's fields, each once; what a field depends on is there and
\* comes before it.
Orderly(layout, n, names) ==
    /\ n \in Nat /\ layout = [i \in 1..n |-> layout[i]]
    /\ \A i \in 1..n : layout[i].name \in names
    /\ \A i, j \in 1..n : layout[i].name = layout[j].name => i = j
    /\ \A i \in 1..n : layout[i].of # Always =>
          \E j \in 1..(i - 1) : layout[j].name = layout[i].of /\ layout[j].of = Always

Encodable(rec, layout, n) ==
    \A i \in 1..n : There(rec, layout[i]) => FitsForm(rec[layout[i].name], layout[i].form)

\* A record with the first fields of a layout as they are in rec.
Filled(rec, layout, n, base) ==
    [k \in DOMAIN base |->
        IF \E j \in 1..n : layout[j].name = k /\ There(rec, layout[j]) THEN rec[k] ELSE base[k]]

LEMMA FilledNext ==
    ASSUME NEW layout, NEW n, NEW base, IsRecord(base), Orderly(layout, n, DOMAIN base),
           NEW rec, NEW i \in 1..n, NEW f, f = layout[i],
           NEW g, g = Filled(rec, layout, i - 1, base)
    PROVE  /\ There(g, f) = There(rec, f)
           /\ There(rec, f) =>
                 Filled(rec, layout, i, base) = [g EXCEPT ![f.name] = rec[f.name]]
           /\ ~There(rec, f) => Filled(rec, layout, i, base) = g
<1>1. n \in Nat
  BY DEF Orderly
<1>2. There(g, f) = There(rec, f)
  <2>1. CASE f.of = Always
    BY <2>1 DEF There
  <2>2. CASE f.of # Always
    <3>1. PICK j \in 1..(i - 1) : layout[j].name = f.of /\ layout[j].of = Always
      BY <2>2 DEF Orderly
    <3>2. f.of \in DOMAIN base
      BY <1>1, <3>1 DEF Orderly
    <3>3. There(rec, layout[j])
      BY <3>1 DEF There
    <3>4. g[f.of] = rec[f.of]
      BY <3>1, <3>2, <3>3 DEF Filled
    <3> QED BY <2>2, <3>4 DEF There
  <2> QED BY <2>1, <2>2
<1>3. ASSUME NEW k
      PROVE  (\E j \in 1..i : layout[j].name = k /\ There(rec, layout[j]))
               <=> \/ \E j \in 1..(i - 1) : layout[j].name = k /\ There(rec, layout[j])
                   \/ f.name = k /\ There(rec, f)
  BY <1>1
<1>4. CASE There(rec, f)
  <2>1. Filled(rec, layout, i, base) = [g EXCEPT ![f.name] = rec[f.name]]
    BY <1>3, <1>4 DEF Filled
  <2> QED BY <1>2, <1>4, <2>1
<1>5. CASE ~There(rec, f)
  <2>1. Filled(rec, layout, i, base) = g
    BY <1>3, <1>5 DEF Filled
  <2> QED BY <1>2, <1>5, <2>1
<1> QED BY <1>4, <1>5

FieldParts(rec, layout) ==
    [i \in DOMAIN layout |->
        IF There(rec, layout[i]) THEN PutField(rec[layout[i].name], layout[i].form) ELSE <<>>]

LEMMA Nothing == IsSequence(<<>>) /\ Len(<<>>) = 0
<1>1. <<>> \in Seq({})
  OBVIOUS
<1> QED BY <1>1 DEF IsSequence

LEMMA PutFieldsFacts ==
    ASSUME NEW layout, NEW n \in Nat, layout = [i \in 1..n |-> layout[i]],
           NEW rec, Encodable(rec, layout, n)
    PROVE  LET parts == FieldParts(rec, layout)
           IN  /\ \A i \in 1..n : IsSequence(parts[i])
               /\ \E c : Pieces(PutFields(rec, layout), c, parts, n)
<1> DEFINE parts == FieldParts(rec, layout)
<1>1. parts = [i \in 1..n |-> parts[i]]
  BY DEF FieldParts
<1>2. ASSUME NEW i \in 1..n PROVE IsSequence(parts[i])
  <2>1. CASE There(rec, layout[i])
    <3>1. FitsForm(rec[layout[i].name], layout[i].form)
      BY <2>1 DEF Encodable
    <3>2. IsSequence(PutField(rec[layout[i].name], layout[i].form))
      BY <3>1, PutFieldFacts
    <3> QED BY <2>1, <3>2 DEF FieldParts
  <2>2. CASE ~There(rec, layout[i])
    BY <2>2, Nothing DEF FieldParts
  <2> QED BY <2>1, <2>2
<1>3. PutFields(rec, layout) = FlattenSeq(parts)
  BY DEF PutFields, FieldParts
<1> HIDE DEF parts
<1>4. \E c : Pieces(FlattenSeq(parts), c, parts, n)
  BY <1>1, <1>2, FlattenFacts
<1> QED BY <1>2, <1>3, <1>4 DEF parts

\* Reading the fields of what was put gives them back, or fails if the input ends before.
LEMMA FieldsRead ==
    ASSUME NEW r, Open(r), NEW layout, NEW n, Orderly(layout, n, DOMAIN r.got),
           NEW rec, Encodable(rec, layout, n),
           Carries(r.in, r.pos, PutFields(rec, layout))
    PROVE  Gets(GetFields(r, layout), r, PutFields(rec, layout), Filled(rec, layout, n, r.got))
<1> DEFINE b == PutFields(rec, layout)
           parts == FieldParts(rec, layout)
<1>1. n \in Nat /\ layout = [i \in 1..n |-> layout[i]] /\ IsRecord(r.got)
  BY DEF Orderly, Open
<1>2. Len(layout) = n
  BY <1>1, MakeSequence
<1>3. (\A i \in 1..n : IsSequence(parts[i])) /\ \E c : Pieces(b, c, parts, n)
  BY <1>1, PutFieldsFacts
<1>4. PICK c : Pieces(b, c, parts, n)
  BY <1>3
<1>s. PICK h : FieldStages(h, r, layout, n)
  <2> HIDE DEF b, parts
  <2>1. n \in Nat /\ Len(layout) = n
    BY <1>1, <1>2
  <2> QED BY <2>1, FieldSteps
<1>5. /\ h[0] = r
      /\ \A i \in 1..n : h[i] = GetNext(h[i - 1], layout[i])
      /\ GetFields(r, layout) = h[n]
  BY <1>s DEF FieldStages
<1>6. r.pos \in Nat /\ Len(r.in) \in Nat
  BY SequenceFacts DEF Open
<1>7. c[0] = 0 /\ c[n] = Len(b)
  BY <1>4 DEF Pieces
<1> HIDE DEF b
<1> DEFINE T == {i \in Nat : i <= n =>
                    IF r.pos + c[i] <= Len(r.in)
                    THEN At(h[i], r.in, r.pos + c[i], Filled(rec, layout, i, r.got))
                    ELSE Failed(h[i])}
<1>8. 0 \in T
  <2>1. Filled(rec, layout, 0, r.got) = r.got
    BY <1>1 DEF Filled, IsRecord
  <2>2. At(h[0], r.in, r.pos + c[0], Filled(rec, layout, 0, r.got)) /\ r.pos + c[0] <= Len(r.in)
    BY <1>5, <1>6, <1>7, <2>1 DEF At, Open
  <2> QED BY <2>2
<1>9. ASSUME NEW k \in Nat, k \in T PROVE k + 1 \in T
  <2> SUFFICES ASSUME k + 1 <= n
               PROVE  IF r.pos + c[k + 1] <= Len(r.in)
                      THEN At(h[k + 1], r.in, r.pos + c[k + 1], Filled(rec, layout, k + 1, r.got))
                      ELSE Failed(h[k + 1])
    OBVIOUS
  <2> DEFINE i == k + 1
             f == layout[i]
             g == Filled(rec, layout, k, r.got)
  <2>1. i \in 1..n /\ i - 1 = k
    BY <1>1
  <2>2. IF r.pos + c[k] <= Len(r.in) THEN At(h[k], r.in, r.pos + c[k], g) ELSE Failed(h[k])
    <3>1. k <= n
      BY <1>1, <2>1
    <3> HIDE DEF g
    <3> QED BY <1>9, <3>1 DEF g
  <2> HIDE DEF T, i, parts
  <2>3. h[i] = GetNext(h[k], f)
    BY <1>5, <2>1
  <2>4. /\ Carries(r.in, r.pos + c[k], parts[i])
        /\ c[i] = c[k] + Len(parts[i]) /\ c[k] \in Nat /\ c[i] \in Nat
        /\ Len(parts[i]) \in Nat
    BY <1>1, <1>3, <1>4, <1>6, <2>1, PieceCarried DEF b
  <2>5. CASE ~(r.pos + c[k] <= Len(r.in))
    <3>1. Failed(h[i])
      BY <2>2, <2>3, <2>5, FailsOn
    <3>2. ~(r.pos + c[i] <= Len(r.in))
      BY <1>6, <2>4, <2>5, SMTT(20)
    <3> QED BY <3>1, <3>2 DEF i
  <2>6. CASE r.pos + c[k] <= Len(r.in)
    <3>1. At(h[k], r.in, r.pos + c[k], g) /\ IsRecord(g)
      BY <2>2, <2>6 DEF Filled, IsRecord
    <3>2. Open(h[k])
      BY <1>6, <2>4, <2>6, <3>1 DEF At, Open
    <3>3. /\ There(g, f) = There(rec, f)
          /\ There(rec, f) =>
                Filled(rec, layout, i, r.got) = [g EXCEPT ![f.name] = rec[f.name]]
          /\ ~There(rec, f) => Filled(rec, layout, i, r.got) = g
      <4>1. f = layout[i] /\ g = Filled(rec, layout, i - 1, r.got)
        BY <2>1
      <4> HIDE DEF f, g
      <4>2. IsRecord(r.got) /\ i \in 1..n
        BY <1>1, <2>1
      <4> QED BY <4>1, <4>2, FilledNext
    <3>4. CASE There(rec, f)
      <4>1. FitsForm(rec[f.name], f.form) /\ parts[i] = PutField(rec[f.name], f.form)
        BY <1>1, <2>1, <3>4 DEF Encodable, FieldParts, parts
      <4>2. h[i] = GetField(h[k], f.name, f.form)
        BY <2>3, <3>1, <3>3, <3>4 DEF GetNext, At
      <4>3. Carries(h[k].in, h[k].pos, parts[i])
        BY <2>4, <3>1 DEF At
      <4>4. Gets(h[i], h[k], parts[i], [h[k].got EXCEPT ![f.name] = rec[f.name]])
        BY <3>2, <4>1, <4>2, <4>3, FieldRead
      <4>5. /\ h[k].in = r.in /\ h[k].pos = r.pos + c[k]
            /\ [h[k].got EXCEPT ![f.name] = rec[f.name]] = Filled(rec, layout, i, r.got)
        BY <3>1, <3>3, <3>4 DEF At
      <4>6. (r.pos + c[k]) + Len(parts[i]) = r.pos + c[i]
        BY <1>6, <2>4
      <4> QED BY <4>4, <4>5, <4>6 DEF Gets, i
    <3>5. CASE ~There(rec, f)
      <4>1. parts[i] = <<>>
        BY <1>1, <2>1, <3>5 DEF FieldParts, parts
      <4>2. c[i] = c[k]
        BY <2>4, <4>1, Nothing
      <4>3. h[i] = h[k] /\ Filled(rec, layout, i, r.got) = g
        BY <2>3, <3>1, <3>3, <3>5 DEF GetNext, At
      <4> QED BY <2>6, <3>1, <4>2, <4>3 DEF i
    <3> QED BY <3>4, <3>5
  <2> QED BY <2>5, <2>6
<1> HIDE DEF T
<1>10. Nat \subseteq T
  BY <1>8, <1>9, Induction
<1>11. IF r.pos + c[n] <= Len(r.in)
       THEN At(h[n], r.in, r.pos + c[n], Filled(rec, layout, n, r.got))
       ELSE Failed(h[n])
  BY <1>1, <1>10 DEF T
<1> QED BY <1>5, <1>7, <1>11 DEF Gets, b

LEMMA FieldsFail ==
    ASSUME NEW r, Failed(r), NEW layout, NEW n \in Nat, Len(layout) = n
    PROVE  Failed(GetFields(r, layout))
<1>s. PICK h : FieldStages(h, r, layout, n)
  BY FieldSteps
<1>1. /\ h[0] = r
      /\ \A i \in 1..n : h[i] = GetNext(h[i - 1], layout[i])
      /\ GetFields(r, layout) = h[n]
  BY <1>s DEF FieldStages
<1> DEFINE T == {i \in Nat : i <= n => Failed(h[i])}
<1>2. 0 \in T
  BY <1>1
<1>3. ASSUME NEW k \in Nat, k \in T PROVE k + 1 \in T
  <2>1. ASSUME k + 1 <= n PROVE Failed(h[k + 1])
    <3>1. Failed(h[k])
      BY <1>3, <2>1
    <3>2. h[k + 1] = GetNext(h[k], layout[k + 1])
      BY <1>1, <2>1
    <3> QED BY <3>1, <3>2, FailsOn
  <2> QED BY <2>1
<1> HIDE DEF T
<1>4. Nat \subseteq T
  BY <1>2, <1>3, Induction
<1> QED BY <1>1, <1>4 DEF T

-----------------------------------------------------------------------------
(***************************************************************************)
(* Lists.                                                                  *)
(***************************************************************************)
LEMMA ElementFails ==
    ASSUME NEW q, Failed(q), NEW layout, NEW n \in Nat, Len(layout) = n, NEW defaults
    PROVE  Failed(GetElement(q, layout, defaults))
<1> DEFINE start == [q EXCEPT !.got = defaults]
           r == GetFields(start, layout)
<1>1. Failed(start)
  BY DEF Failed, IsRecord
<1> HIDE DEF start
<1>2. Failed(r)
  BY <1>1, FieldsFail
<1>3. GetElement(q, layout, defaults) = [r EXCEPT !.got = Append(q.got, r.got)]
  BY DEF GetElement, start
<1> HIDE DEF r
<1> QED BY <1>2, <1>3 DEF Failed, IsRecord

LEMMA ElementRead ==
    ASSUME NEW q, Open(q), NEW layout, NEW defaults, IsRecord(defaults),
           NEW n, Orderly(layout, n, DOMAIN defaults),
           NEW rec, Encodable(rec, layout, n),
           Carries(q.in, q.pos, PutFields(rec, layout))
    PROVE  Gets(GetElement(q, layout, defaults), q, PutFields(rec, layout),
                Append(q.got, Filled(rec, layout, n, defaults)))
<1> DEFINE start == [q EXCEPT !.got = defaults]
           r == GetFields(start, layout)
           b == PutFields(rec, layout)
           g == Filled(rec, layout, n, defaults)
<1>1. /\ Open(start) /\ start.in = q.in /\ start.pos = q.pos /\ start.got = defaults
  BY DEF Open, IsReader, IsRecord
<1> HIDE DEF start
<1>2. Gets(r, start, b, g)
  BY <1>1, FieldsRead
<1>3. GetElement(q, layout, defaults) = [r EXCEPT !.got = Append(q.got, r.got)]
  BY DEF GetElement, start
<1> HIDE DEF r, b, g
<1>4. CASE q.pos + Len(b) <= Len(q.in)
  <2>1. At(r, q.in, q.pos + Len(b), g)
    BY <1>1, <1>2, <1>4 DEF Gets
  <2>2. At([r EXCEPT !.got = Append(q.got, r.got)], q.in, q.pos + Len(b), Append(q.got, g))
    BY <2>1 DEF At, IsReader, IsRecord
  <2> QED BY <1>3, <1>4, <2>2 DEF Gets, b, g
<1>5. CASE ~(q.pos + Len(b) <= Len(q.in))
  <2>1. Failed(r)
    BY <1>1, <1>2, <1>5 DEF Gets
  <2>2. Failed([r EXCEPT !.got = Append(q.got, r.got)])
    BY <2>1 DEF Failed, IsRecord
  <2> QED BY <1>3, <1>5, <2>2 DEF Gets, b
<1> QED BY <1>4, <1>5

\* A record that was put is never empty.
LEMMA SomeByte ==
    ASSUME NEW layout, NEW n, NEW names, Orderly(layout, n, names), n >= 1,
           NEW rec, Encodable(rec, layout, n)
    PROVE  LET b == PutFields(rec, layout) IN IsSequence(b) /\ Len(b) \in Nat /\ Len(b) >= 1
<1> DEFINE parts == FieldParts(rec, layout)
           b == PutFields(rec, layout)
<1>1. n \in Nat /\ layout = [i \in 1..n |-> layout[i]] /\ layout[1].of = Always
  BY DEF Orderly
<1>2. PICK c : Pieces(b, c, parts, n)
  BY <1>1, PutFieldsFacts
<1>3. There(rec, layout[1]) /\ 1 \in 1..n
  BY <1>1 DEF There
<1>4. FitsForm(rec[layout[1].name], layout[1].form)
  BY <1>3 DEF Encodable
<1>5. /\ parts[1] = PutField(rec[layout[1].name], layout[1].form)
  BY <1>1, <1>3 DEF FieldParts
<1>6. Len(parts[1]) >= 1
  BY <1>4, <1>5, PutFieldFacts
<1> HIDE DEF parts, b
<1>7. /\ IsSequence(b) /\ Len(b) = c[n] /\ c \in [0..n -> Nat] /\ c[0] = 0
      /\ c[1] = c[0] + Len(parts[1]) /\ c[1] <= c[n]
  BY <1>1, <1>2, <1>3 DEF Pieces
<1>8. c[n] \in Nat /\ c[1] \in Nat /\ IsSequence(parts[1])
  BY <1>1, <1>3, <1>4, <1>5, <1>7, PutFieldFacts
<1>9. Len(parts[1]) \in Nat
  BY <1>8, SequenceFacts
<1> QED BY <1>6, <1>7, <1>8, <1>9 DEF b

\* The readers that getting element after element goes through.
ElementRun(f, reader, layout, defaults, n) ==
    f = [i \in 0..n |->
            IF i = 0 THEN [reader EXCEPT !.got = <<>>]
            ELSE Once(LAMBDA r : GetElement(r, layout, defaults), f[i - 1])]

LEMMA ElementRunChooses ==
    ASSUME NEW reader, NEW n, NEW layout, NEW defaults
    PROVE  GetElements(reader, n, layout, defaults)
               = (CHOOSE f : ElementRun(f, reader, layout, defaults, n))[n]
BY DEF GetElements, ElementRun

LEMMA OnceElement ==
    ASSUME NEW q, NEW layout, NEW defaults
    PROVE  Once(LAMBDA r : GetElement(r, layout, defaults), q) = GetElement(q, layout, defaults)
BY DEF Once

LEMMA ElementRunExists ==
    ASSUME NEW reader, NEW layout, NEW defaults, NEW n \in Nat
    PROVE  \E f : ElementRun(f, reader, layout, defaults, n)
<1> DEFINE start == [reader EXCEPT !.got = <<>>]
           T == {k \in Nat : \E f : ElementRun(f, reader, layout, defaults, k)}
<1>0. start = [reader EXCEPT !.got = <<>>]
  OBVIOUS
<1> HIDE DEF start
<1>1. 0 \in T
  <2> DEFINE f == [i \in 0..0 |-> start]
  <2>1. ElementRun(f, reader, layout, defaults, 0)
    BY <1>0 DEF ElementRun
  <2> QED BY <2>1
<1>2. ASSUME NEW k \in Nat, k \in T PROVE k + 1 \in T
  <2>1. PICK f : ElementRun(f, reader, layout, defaults, k)
    BY <1>2
  <2> DEFINE h == [i \in 0..(k + 1) |->
                      IF i = k + 1 THEN GetElement(f[k], layout, defaults) ELSE f[i]]
  <2>2. \A i \in 0..k : f[i] = IF i = 0 THEN start ELSE GetElement(f[i - 1], layout, defaults)
    BY <1>0, <2>1, OnceElement DEF ElementRun
  <2>3. ASSUME NEW i \in 0..(k + 1)
        PROVE  h[i] = IF i = 0 THEN start ELSE GetElement(h[i - 1], layout, defaults)
    BY <2>2
  <2>4. h = [i \in 0..(k + 1) |-> h[i]]
    OBVIOUS
  <2> HIDE DEF h
  <2>5. ElementRun(h, reader, layout, defaults, k + 1)
    BY <1>0, <2>3, <2>4, OnceElement DEF ElementRun
  <2> QED BY <2>5
<1> HIDE DEF T
<1>3. Nat \subseteq T
  BY <1>1, <1>2, Induction
<1> QED BY <1>3 DEF T

ElementStages(h, reader, layout, defaults, n) ==
    /\ h[0] = [reader EXCEPT !.got = <<>>]
    /\ \A i \in 1..n : h[i] = GetElement(h[i - 1], layout, defaults)
    /\ GetElements(reader, n, layout, defaults) = h[n]

LEMMA ElementSteps ==
    ASSUME NEW reader, NEW layout, NEW defaults, NEW n \in Nat
    PROVE  \E h : ElementStages(h, reader, layout, defaults, n)
<1>1. PICK f : f = (CHOOSE h : ElementRun(h, reader, layout, defaults, n))
  OBVIOUS
<1>2. ElementRun(f, reader, layout, defaults, n)
  BY <1>1, ElementRunExists
<1>3. GetElements(reader, n, layout, defaults) = f[n]
  BY <1>1, ElementRunChooses
<1> DEFINE start == [reader EXCEPT !.got = <<>>]
<1>0. start = [reader EXCEPT !.got = <<>>]
  OBVIOUS
<1> HIDE DEF start
<1>4. \A i \in 0..n : f[i] = IF i = 0 THEN start ELSE GetElement(f[i - 1], layout, defaults)
  BY <1>0, <1>2, OnceElement DEF ElementRun
<1> QED BY <1>0, <1>3, <1>4 DEF ElementStages

ElementParts(list, layout) == [i \in DOMAIN list |-> PutFields(list[i], layout)]

\* The elements that were put, as they are got.
Elements(list, m, layout, n, defaults) ==
    [i \in 1..m |-> Filled(list[i], layout, n, defaults)]

\* What a list needs to be put.
ListFits(list, m, layout, n, defaults) ==
    /\ m \in Nat /\ list = [i \in 1..m |-> list[i]] /\ m < Base * Base
    /\ IsRecord(defaults) /\ Orderly(layout, n, DOMAIN defaults) /\ n >= 1
    /\ \A i \in 1..m : Encodable(list[i], layout, n)

LEMMA PutListFacts ==
    ASSUME NEW list, NEW m, NEW layout, NEW n, NEW defaults,
           ListFits(list, m, layout, n, defaults)
    PROVE  LET parts == ElementParts(list, layout)
               all   == FlattenSeq(parts)
           IN  /\ PutList(list, layout) = PutScalar(m, Wide) \o all
               /\ \A i \in 1..m : IsSequence(parts[i]) /\ Len(parts[i]) >= 1
               /\ \E c : Pieces(all, c, parts, m) /\ c[m] >= m
<1> DEFINE parts == ElementParts(list, layout)
           all   == FlattenSeq(parts)
<1>1. m \in Nat /\ list = [i \in 1..m |-> list[i]]
  BY DEF ListFits
<1>2. Len(list) = m
  BY <1>1, MakeSequence
<1>3. PutList(list, layout) = PutScalar(m, Wide) \o all
  BY <1>2 DEF PutList, ElementParts
<1>4. ASSUME NEW i \in 1..m
      PROVE  IsSequence(parts[i]) /\ Len(parts[i]) \in Nat /\ Len(parts[i]) >= 1
  <2>1. parts[i] = PutFields(list[i], layout)
    BY <1>1 DEF ElementParts
  <2>2. Encodable(list[i], layout, n) /\ Orderly(layout, n, DOMAIN defaults) /\ n >= 1
    BY DEF ListFits
  <2> HIDE DEF parts
  <2> QED BY <2>1, <2>2, SomeByte
<1>5. parts = [i \in 1..m |-> parts[i]]
  BY <1>1 DEF ElementParts
<1> HIDE DEF parts
<1>6. PICK c : Pieces(all, c, parts, m)
  BY <1>1, <1>4, <1>5, FlattenFacts
<1> HIDE DEF all
<1>7. c[m] >= m
  <2> DEFINE T == {i \in Nat : i <= m => c[i] >= i}
  <2>1. 0 \in T
    BY <1>6 DEF Pieces
  <2>2. ASSUME NEW k \in Nat, k \in T PROVE k + 1 \in T
    <3>1. ASSUME k + 1 <= m PROVE c[k + 1] >= k + 1
      <4>1. k + 1 \in 1..m /\ k <= m /\ (k + 1) - 1 = k
        BY <1>1, <3>1
      <4>2. c[k + 1] = c[k] + Len(parts[k + 1]) /\ c[k] \in Nat /\ c[k] >= k
        BY <1>1, <1>6, <2>2, <4>1 DEF Pieces
      <4>3. Len(parts[k + 1]) \in Nat /\ Len(parts[k + 1]) >= 1
        BY <1>4, <4>1
      <4> QED BY <4>2, <4>3
    <3> QED BY <3>1
  <2> HIDE DEF T
  <2>3. Nat \subseteq T
    BY <2>1, <2>2, Induction
  <2> QED BY <1>1, <2>3 DEF T
<1> QED BY <1>3, <1>4, <1>6, <1>7 DEF parts, all

LEMMA ElementsGrow ==
    ASSUME NEW list, NEW layout, NEW n, NEW defaults, NEW i \in Nat
    PROVE  Elements(list, i + 1, layout, n, defaults)
               = Append(Elements(list, i, layout, n, defaults),
                        Filled(list[i + 1], layout, n, defaults))
<1> DEFINE s == Elements(list, i, layout, n, defaults)
           F(j) == Filled(list[j], layout, n, defaults)
<1>1. s = [j \in 1..i |-> F(j)] /\ Elements(list, i + 1, layout, n, defaults)
                                      = [j \in 1..(i + 1) |-> F(j)]
  BY DEF Elements
<1> HIDE DEF F
<1>2. s = [j \in 1..i |-> s[j]]
  BY <1>1
<1> HIDE DEF s
<1>3. IsSequence(s) /\ Len(s) = i
  BY <1>2, MakeSequence
<1>4. PICK S : s \in Seq(S)
  BY <1>3 DEF IsSequence
<1>5. s \in Seq(S \cup {F(i + 1)})
  BY <1>4
<1>6. /\ Append(s, F(i + 1)) = [j \in 1..(i + 1) |-> IF j = i + 1 THEN F(i + 1) ELSE s[j]]
  BY <1>3, <1>5
<1> QED BY <1>1, <1>6 DEF s, F

LEMMA ElementsRead ==
    ASSUME NEW r, Open(r), NEW list, NEW m, NEW layout, NEW n, NEW defaults,
           ListFits(list, m, layout, n, defaults),
           NEW c, NEW parts, parts = ElementParts(list, layout),
           NEW all, Pieces(all, c, parts, m), \A i \in 1..m : IsSequence(parts[i]),
           Carries(r.in, r.pos, all)
    PROVE  Gets(GetElements(r, m, layout, defaults), r, all,
                Elements(list, m, layout, n, defaults))
<1>1. m \in Nat /\ IsRecord(defaults) /\ Orderly(layout, n, DOMAIN defaults)
  BY DEF ListFits
<1>2. n \in Nat /\ layout = [i \in 1..n |-> layout[i]]
  BY <1>1 DEF Orderly
<1>3. n \in Nat /\ Len(layout) = n
  BY <1>2, MakeSequence
<1>4. PICK h : ElementStages(h, r, layout, defaults, m)
  BY <1>1, ElementSteps
<1>5. /\ h[0] = [r EXCEPT !.got = <<>>]
      /\ \A i \in 1..m : h[i] = GetElement(h[i - 1], layout, defaults)
      /\ GetElements(r, m, layout, defaults) = h[m]
  BY <1>4 DEF ElementStages
<1>6. r.pos \in Nat /\ Len(r.in) \in Nat
  BY SequenceFacts DEF Open
<1>7. c[0] = 0 /\ c[m] = Len(all)
  BY DEF Pieces
<1> DEFINE G(i) == Elements(list, i, layout, n, defaults)
<1> DEFINE T == {i \in Nat : i <= m =>
                    IF r.pos + c[i] <= Len(r.in) THEN At(h[i], r.in, r.pos + c[i], G(i))
                    ELSE Failed(h[i])}
<1>8. 0 \in T
  <2>1. G(0) = <<>>
    BY DEF Elements
  <2>2. At(h[0], r.in, r.pos + c[0], <<>>) /\ r.pos + c[0] <= Len(r.in)
    BY <1>5, <1>6, <1>7 DEF At, Open, IsReader, IsRecord
  <2> QED BY <2>1, <2>2
<1>9. ASSUME NEW k \in Nat, k \in T PROVE k + 1 \in T
  <2> SUFFICES ASSUME k + 1 <= m
               PROVE  IF r.pos + c[k + 1] <= Len(r.in)
                      THEN At(h[k + 1], r.in, r.pos + c[k + 1], G(k + 1))
                      ELSE Failed(h[k + 1])
    OBVIOUS
  <2> DEFINE i == k + 1
             g == G(k)
  <2>1. i \in 1..m /\ i - 1 = k /\ k <= m
    BY <1>1
  <2>2. IF r.pos + c[k] <= Len(r.in) THEN At(h[k], r.in, r.pos + c[k], g) ELSE Failed(h[k])
    <3> HIDE DEF G
    <3> QED BY <1>9, <2>1
  <2>3. G(k + 1) = Append(G(k), Filled(list[k + 1], layout, n, defaults))
    BY ElementsGrow
  <2>4. IsRecord(g)
    BY DEF Elements, IsRecord
  <2> HIDE DEF T, G, i
  <2>5. h[i] = GetElement(h[k], layout, defaults)
    BY <1>5, <2>1
  <2>6. /\ Carries(r.in, r.pos + c[k], parts[i])
        /\ c[i] = c[k] + Len(parts[i]) /\ c[k] \in Nat /\ c[i] \in Nat
        /\ Len(parts[i]) \in Nat
    BY <1>1, <1>6, <2>1, PieceCarried
  <2>7. CASE ~(r.pos + c[k] <= Len(r.in))
    <3>1. Failed(h[i])
      BY <1>3, <2>2, <2>5, <2>7, ElementFails
    <3>2. ~(r.pos + c[i] <= Len(r.in))
      BY <1>6, <2>6, <2>7
    <3> QED BY <3>1, <3>2 DEF i
  <2>8. CASE r.pos + c[k] <= Len(r.in)
    <3>1. At(h[k], r.in, r.pos + c[k], g)
      BY <2>2, <2>8
    <3>2. Open(h[k])
      BY <1>6, <2>4, <2>6, <2>8, <3>1 DEF At, Open
    <3>3. parts[i] = PutFields(list[i], layout) /\ Encodable(list[i], layout, n)
      BY <2>1 DEF ElementParts, ListFits
    <3>4. Carries(h[k].in, h[k].pos, PutFields(list[i], layout))
      BY <2>6, <3>1, <3>3 DEF At
    <3>5. Gets(h[i], h[k], PutFields(list[i], layout),
               Append(h[k].got, Filled(list[i], layout, n, defaults)))
      BY <1>1, <2>5, <3>2, <3>3, <3>4, ElementRead
    <3>6. /\ h[k].in = r.in /\ h[k].pos = r.pos + c[k]
          /\ Append(h[k].got, Filled(list[i], layout, n, defaults)) = G(k + 1)
      BY <2>3, <3>1 DEF At, i
    <3>7. (r.pos + c[k]) + Len(parts[i]) = r.pos + c[i]
      BY <1>6, <2>6
    <3> QED BY <3>3, <3>5, <3>6, <3>7 DEF Gets, i
  <2> QED BY <2>7, <2>8
<1> HIDE DEF T, G
<1>10. Nat \subseteq T
  BY <1>8, <1>9, Induction
<1>11. IF r.pos + c[m] <= Len(r.in) THEN At(h[m], r.in, r.pos + c[m], G(m)) ELSE Failed(h[m])
  BY <1>1, <1>10 DEF T
<1> QED BY <1>5, <1>7, <1>11 DEF Gets, G

LEMMA ListFails ==
    ASSUME NEW r, Failed(r), NEW name, NEW layout, NEW defaults
    PROVE  Failed(GetList(r, name, layout, defaults))
<1>1. GetList(r, name, layout, defaults)
          = GetCounted(r, name, Number(Ahead(r, Wide)), layout, defaults)
  BY DEF GetList, Once
<1>2. ~Fits(r, Wide)
  BY DEF Failed, Fits
<1>3. \A count : GetCounted(r, name, count, layout, defaults) = Fail(r)
  BY <1>2 DEF GetCounted
<1> QED BY <1>1, <1>3, FailFacts

LEMMA ListRead ==
    ASSUME NEW r, Open(r), NEW name, NEW list, NEW m, NEW layout, NEW n, NEW defaults,
           ListFits(list, m, layout, n, defaults),
           Carries(r.in, r.pos, PutList(list, layout))
    PROVE  /\ Gets(GetList(r, name, layout, defaults), r, PutList(list, layout),
                   [r.got EXCEPT ![name] = Elements(list, m, layout, n, defaults)])
           /\ IsSequence(PutList(list, layout))
<1> DEFINE parts == ElementParts(list, layout)
           all   == FlattenSeq(parts)
           head  == PutScalar(m, Wide)
           b     == PutList(list, layout)
           els   == Elements(list, m, layout, n, defaults)
<1>1. /\ b = head \o all
      /\ \A i \in 1..m : IsSequence(parts[i]) /\ Len(parts[i]) >= 1
      /\ \E c : Pieces(all, c, parts, m) /\ c[m] >= m
  BY PutListFacts
<1>2. m \in Nat /\ m < Base * Base
  BY DEF ListFits
<1>3. m \in 0..(Base * Base - 1)
  BY <1>2, WideBase
<1>4. IsSequence(head) /\ Len(head) = Wide /\ Number(head) = m
  BY <1>3, ScalarFacts DEF Byte, Wide
<1> HIDE DEF all, parts, head, els
<1>5. PICK c : Pieces(all, c, parts, m) /\ c[m] >= m
  BY <1>1
<1>6. IsSequence(all) /\ Len(all) >= m /\ Len(all) \in Nat
  BY <1>5, SequenceFacts DEF Pieces
<1>7. IsSequence(head) /\ IsSequence(all)
  BY <1>4, <1>6
<1>8. /\ IsSequence(head \o all) /\ Len(head \o all) = Len(head) + Len(all)
      /\ \A i \in 1..Len(head) : (head \o all)[i] = head[i]
      /\ \A i \in 1..Len(all) : (head \o all)[Len(head) + i] = all[i]
  BY <1>7, JoinFacts
<1> HIDE DEF b
<1>9. /\ IsSequence(b) /\ Len(b) = 2 + Len(all)
      /\ \A i \in 1..2 : b[i] = head[i]
      /\ \A i \in 1..Len(all) : b[2 + i] = all[i]
  BY <1>1, <1>4, <1>8 DEF Wide
<1>10. r.ok = TRUE /\ r.pos \in Nat /\ Len(r.in) \in Nat
  BY SequenceFacts DEF Open
<1>a. Len(all) \in Nat /\ Len(b) = 2 + Len(all) /\ r.pos \in Nat
  BY <1>6, <1>9, <1>10
<1>11. Carries(r.in, r.pos, b)
  BY DEF b
<1>12. Carries(r.in, r.pos + 0, head)
  BY <1>4, <1>6, <1>9, <1>10, <1>11 DEF Carries, Wide
<1>13. Carries(r.in, r.pos + 2, all)
  <2>1. ASSUME NEW j \in 1..Len(all), (r.pos + 2) + j <= Len(r.in)
        PROVE  r.in[(r.pos + 2) + j] = all[j]
    <3>1. 2 + j \in 1..Len(b) /\ r.pos + (2 + j) = (r.pos + 2) + j
      BY <1>a
    <3>2. r.in[r.pos + (2 + j)] = b[2 + j]
      BY <1>11, <2>1, <3>1 DEF Carries
    <3> QED BY <1>9, <3>1, <3>2
  <2> QED BY <2>1 DEF Carries
<1>14. GetList(r, name, layout, defaults)
          = GetCounted(r, name, Number(Ahead(r, Wide)), layout, defaults)
  BY DEF GetList, Once
<1>15. CASE ~(r.pos + 2 <= Len(r.in))
  <2>1. ~Fits(r, Wide) /\ ~(r.pos + Len(b) <= Len(r.in))
    BY <1>6, <1>9, <1>10, <1>15 DEF Fits, Wide
  <2>2. \A count : GetCounted(r, name, count, layout, defaults) = Fail(r)
    BY <2>1 DEF GetCounted
  <2> QED BY <1>9, <1>14, <2>1, <2>2, FailFacts DEF Gets, b
<1>16. CASE r.pos + 2 <= Len(r.in)
  <2>0. r.pos + 0 + Len(head) <= Len(r.in) /\ 0 \in Nat
    BY <1>4, <1>10, <1>16 DEF Wide
  <2>1. SubSeq(r.in, r.pos + 0 + 1, r.pos + 0 + Len(head)) = head
    BY <1>4, <1>12, <2>0, AheadIs
  <2>a. r.pos + 0 = r.pos
    BY <1>10
  <2>2. Ahead(r, Wide) = head
    BY <1>4, <2>1, <2>a DEF Ahead
  <2>3. GetList(r, name, layout, defaults) = GetCounted(r, name, m, layout, defaults)
    BY <1>4, <1>14, <2>2
  <2>4. CASE ~(r.pos + 2 + m <= Len(r.in))
    <3>1. ~Fits(r, Wide + m) /\ ~(r.pos + Len(b) <= Len(r.in))
      BY <1>2, <1>6, <1>9, <1>10, <2>4 DEF Fits, Wide
    <3>2. GetCounted(r, name, m, layout, defaults) = Fail(r)
      BY <3>1 DEF GetCounted
    <3> QED BY <1>9, <2>3, <3>1, <3>2, FailFacts DEF Gets, b
  <2>5. CASE r.pos + 2 + m <= Len(r.in)
    <3> DEFINE s == [r EXCEPT !.pos = @ + Wide]
               q == GetElements(s, m, layout, defaults)
    <3>1. Fits(r, Wide) /\ Fits(r, Wide + m)
      BY <1>2, <1>10, <1>16, <2>5 DEF Fits, Wide
    <3>2. GetCounted(r, name, m, layout, defaults)
              = [q EXCEPT !.got = [r.got EXCEPT ![name] = q.got]]
      BY <3>1 DEF GetCounted, Once
    <3>3. Open(s) /\ s.in = r.in /\ s.pos = r.pos + 2
      BY <1>10, <1>16 DEF Open, IsReader, IsRecord, Wide
    <3> HIDE DEF s
    <3>4. Carries(s.in, s.pos, all) /\ \A i \in 1..m : IsSequence(parts[i])
      BY <1>1, <1>13, <3>3
    <3>5. Gets(q, s, all, els)
      BY <1>5, <3>3, <3>4, ElementsRead DEF parts, els
    <3> HIDE DEF q
    <3>6. CASE r.pos + Len(b) <= Len(r.in)
      <4>1. At(q, r.in, r.pos + Len(b), els)
        <5>1. s.pos + Len(all) = r.pos + Len(b)
          BY <1>a, <3>3
        <5> QED BY <3>3, <3>5, <3>6, <5>1 DEF Gets
      <4>2. At([q EXCEPT !.got = [r.got EXCEPT ![name] = q.got]], r.in, r.pos + Len(b),
               [r.got EXCEPT ![name] = els])
        BY <4>1 DEF At, IsReader, IsRecord
      <4> QED BY <1>9, <2>3, <3>2, <3>6, <4>2 DEF Gets, b, els
    <3>7. CASE ~(r.pos + Len(b) <= Len(r.in))
      <4>1. Failed(q)
        <5>1. ~(s.pos + Len(all) <= Len(s.in))
          BY <1>6, <1>9, <1>10, <3>3, <3>7
        <5> QED BY <3>5, <5>1 DEF Gets
      <4>2. Failed([q EXCEPT !.got = [r.got EXCEPT ![name] = q.got]])
        BY <4>1 DEF Failed, IsRecord
      <4> QED BY <1>9, <2>3, <3>2, <3>7, <4>2 DEF Gets, b
    <3> QED BY <3>6, <3>7
  <2> QED BY <2>4, <2>5
<1> QED BY <1>15, <1>16

-----------------------------------------------------------------------------
(***************************************************************************)
(* Whole records.                                                          *)
(***************************************************************************)
LEMMA CarriesBoth ==
    ASSUME NEW a, IsSequence(a), NEW b, IsSequence(b), NEW input, NEW p \in Nat,
           Carries(input, p, a \o b)
    PROVE  Carries(input, p, a) /\ Carries(input, p + Len(a), b)
<1>1. /\ Len(a \o b) = Len(a) + Len(b)
      /\ \A i \in 1..Len(a) : (a \o b)[i] = a[i]
      /\ \A i \in 1..Len(b) : (a \o b)[Len(a) + i] = b[i]
  BY JoinFacts
<1>2. Len(a) \in Nat /\ Len(b) \in Nat
  BY SequenceFacts
<1> DEFINE ab == a \o b
<1>3. /\ Len(ab) = Len(a) + Len(b)
      /\ \A i \in 1..Len(a) : ab[i] = a[i]
      /\ \A i \in 1..Len(b) : ab[Len(a) + i] = b[i]
      /\ Carries(input, p, ab)
  BY <1>1
<1> HIDE DEF ab
<1>4. Carries(input, p, a)
  BY <1>2, <1>3 DEF Carries
<1>5. ASSUME NEW j \in 1..Len(b), (p + Len(a)) + j <= Len(input)
      PROVE  input[(p + Len(a)) + j] = b[j]
  <2>1. Len(a) + j \in 1..Len(ab) /\ p + (Len(a) + j) = (p + Len(a)) + j
    BY <1>2, <1>3
  <2> QED BY <1>3, <1>5, <2>1 DEF Carries
<1> QED BY <1>4, <1>5 DEF Carries

\* One after the other.
LEMMA GetsBoth ==
    ASSUME NEW r, Open(r), NEW a, IsSequence(a), NEW b, IsSequence(b),
           NEW q, NEW g, Gets(q, r, a, g),
           NEW p, NEW h, Failed(q) => Failed(p), Open(q) => Gets(p, q, b, h), IsRecord(g)
    PROVE  Gets(p, r, a \o b, h)
<1>1. Len(a \o b) = Len(a) + Len(b)
  BY JoinFacts
<1>2. Len(a) \in Nat /\ Len(b) \in Nat /\ r.pos \in Nat /\ IsSequence(r.in)
  BY SequenceFacts DEF Open
<1>3. Len(r.in) \in Nat
  BY <1>2, SequenceFacts
<1> DEFINE n == Len(a \o b)
<1>4. n = Len(a) + Len(b)
  BY <1>1
<1> HIDE DEF n
<1>5. CASE r.pos + Len(a) <= Len(r.in)
  <2>1. At(q, r.in, r.pos + Len(a), g)
    BY <1>5 DEF Gets
  <2>2. Open(q)
    BY <1>2, <1>5, <2>1 DEF At, Open
  <2>3. /\ q.in = r.in /\ q.pos = r.pos + Len(a) /\ q.pos + Len(b) = r.pos + n
    BY <1>2, <1>4, <2>1 DEF At
  <2>4. Gets(p, q, b, h)
    BY <2>2
  <2>5. IF r.pos + n <= Len(r.in) THEN At(p, r.in, r.pos + n, h) ELSE Failed(p)
    BY <2>3, <2>4 DEF Gets
  <2> QED BY <2>5 DEF Gets, n
<1>6. CASE ~(r.pos + Len(a) <= Len(r.in))
  <2>1. Failed(p)
    BY <1>6 DEF Gets
  <2>2. ~(r.pos + n <= Len(r.in))
    BY <1>2, <1>3, <1>4, <1>6
  <2> QED BY <2>1, <2>2 DEF Gets, n
<1> QED BY <1>5, <1>6

LEMMA ReaderOpens ==
    ASSUME NEW data, IsSequence(data), NEW base, IsRecord(base)
    PROVE  LET r == Reader(data, base)
           IN  Open(r) /\ r.in = data /\ r.pos = 0 /\ r.got = base
<1>1. Len(data) \in Nat
  BY SequenceFacts
<1> QED BY <1>1 DEF Reader, Open, IsReader, IsRecord

\* What has all of the encoding and nothing else is whole; what is cut or goes on is not.
LEMMA WholeOnly ==
    ASSUME NEW data, IsSequence(data), NEW base, IsRecord(base), NEW b, IsSequence(b),
           NEW q, NEW g, Gets(q, Reader(data, base), b, g)
    PROVE  /\ Whole(q) <=> Len(data) = Len(b)
           /\ Whole(q) => q.got = g
<1> DEFINE r == Reader(data, base)
<1>1. r.in = data /\ r.pos = 0
  BY DEF Reader
<1>2. Len(data) \in Nat /\ Len(b) \in Nat
  BY SequenceFacts
<1> HIDE DEF r
<1>3. IF Len(b) <= Len(data) THEN At(q, data, Len(b), g) ELSE Failed(q)
  BY <1>1, <1>2 DEF Gets, r
<1> QED BY <1>2, <1>3 DEF Whole, At, Failed

-----------------------------------------------------------------------------
(***************************************************************************)
(* The packets of a session.                                               *)
(***************************************************************************)
LEMMA WordFits ==
    ASSUME NEW v \in Words
    PROVE  FitsForm(v, Wide)
BY Zenon DEF Words, FitsForm

LEMMA ByteFits ==
    ASSUME NEW v \in 0..255
    PROVE  FitsForm(v, Byte)
BY DEF FitsForm, Base

LEMMA BoolFits ==
    ASSUME NEW v \in BOOLEAN
    PROVE  FitsForm(v, Bool)
BY DEF FitsForm

LEMMA RunFits ==
    ASSUME NEW v \in Runs
    PROVE  FitsForm(v, Counted)
<1>1. v \in Seq(0 .. Base - 1) /\ Len(v) < Base * Base
  BY DEF Runs
<1> QED BY <1>1 DEF FitsForm, IsSequence

LEMMA OrderlyLayouts ==
    /\ Orderly(JoinRequestLayout, 4, DOMAIN NewJoinRequest)
    /\ Orderly(JoinReplyLayout, 3, DOMAIN NewJoinReply)
    /\ Orderly(MessageLayout, 4, DOMAIN NewMessage)
    /\ Orderly(EventLayout, 4, DOMAIN NewEvent)
    /\ Orderly(SnapshotLayout, 2, DOMAIN NewSnapshot)
    /\ Orderly(UpdateRequestLayout, 7, DOMAIN NewUpdateRequest)
    /\ Orderly(UpdateReplyLayout, 3, DOMAIN NewUpdateReply)
    /\ Orderly(UpdateSceneLayout, 3, DOMAIN NewUpdateReply)
<1>1. Orderly(JoinRequestLayout, 4, DOMAIN NewJoinRequest)
  BY DEF Orderly, JoinRequestLayout, NewJoinRequest, Field, Always
<1>2. Orderly(JoinReplyLayout, 3, DOMAIN NewJoinReply)
  BY DEF Orderly, JoinReplyLayout, NewJoinReply, Field, Always
<1>3. Orderly(MessageLayout, 4, DOMAIN NewMessage)
  BY DEF Orderly, MessageLayout, NewMessage, Field, Always
<1>4. Orderly(EventLayout, 4, DOMAIN NewEvent)
  BY DEF Orderly, EventLayout, NewEvent, Field, Always
<1>5. Orderly(SnapshotLayout, 2, DOMAIN NewSnapshot)
  BY DEF Orderly, SnapshotLayout, NewSnapshot, Field, Always
<1>6. Orderly(UpdateRequestLayout, 7, DOMAIN NewUpdateRequest)
  BY DEF Orderly, UpdateRequestLayout, NewUpdateRequest, Field, FieldIf, Always
<1>7. Orderly(UpdateReplyLayout, 3, DOMAIN NewUpdateReply)
  BY DEF Orderly, UpdateReplyLayout, NewUpdateReply, Field, Always
<1>8. Orderly(UpdateSceneLayout, 3, DOMAIN NewUpdateReply)
  BY DEF Orderly, UpdateSceneLayout, NewUpdateReply, Field, FieldIf, Always
<1> QED BY <1>1, <1>2, <1>3, <1>4, <1>5, <1>6, <1>7, <1>8

LEMMA JoinRequestFits ==
    ASSUME NEW r \in JoinRequests
    PROVE  /\ Encodable(r, JoinRequestLayout, 4)
           /\ Filled(r, JoinRequestLayout, 4, NewJoinRequest) = r
<1>1. r.kind \in 0..255 /\ r.token \in Words /\ r.hello \in Runs /\ r.peerEndpoint \in Runs
  BY DEF JoinRequests, Join
<1>2. /\ FitsForm(r.kind, Byte) /\ FitsForm(r.token, Wide)
      /\ FitsForm(r.hello, Counted) /\ FitsForm(r.peerEndpoint, Counted)
  BY <1>1, ByteFits, WordFits, RunFits
<1>3. Encodable(r, JoinRequestLayout, 4)
  BY <1>2 DEF Encodable, JoinRequestLayout, Field
<1>4. Filled(r, JoinRequestLayout, 4, NewJoinRequest) = r
  BY DEF Filled, JoinRequestLayout, NewJoinRequest, Field, There, JoinRequests
<1> QED BY <1>3, <1>4

LEMMA JoinReplyFits ==
    ASSUME NEW r \in JoinReplies
    PROVE  /\ Encodable(r, JoinReplyLayout, 3)
           /\ Filled(r, JoinReplyLayout, 3, NewJoinReply) = r
<1>1. r.status \in 0..255 /\ r.id \in Words /\ r.updatePort \in Words
  BY DEF JoinReplies, Ok, Rejected, UnknownClient
<1>2. FitsForm(r.status, Byte) /\ FitsForm(r.id, Wide) /\ FitsForm(r.updatePort, Wide)
  BY <1>1, ByteFits, WordFits
<1>3. Encodable(r, JoinReplyLayout, 3)
  BY <1>2 DEF Encodable, JoinReplyLayout, Field
<1>4. Filled(r, JoinReplyLayout, 3, NewJoinReply) = r
  BY DEF Filled, JoinReplyLayout, NewJoinReply, Field, There, JoinReplies
<1> QED BY <1>3, <1>4

LEMMA MessageFits ==
    ASSUME NEW r \in Messages
    PROVE  /\ Encodable(r, MessageLayout, 4)
           /\ Filled(r, MessageLayout, 4, NewMessage) = r
<1>1. r.seq \in Words /\ r.type \in Words /\ r.tick \in Words /\ r.payload \in Runs
  BY DEF Messages
<1>2. /\ FitsForm(r.seq, Wide) /\ FitsForm(r.type, Wide) /\ FitsForm(r.tick, Wide)
      /\ FitsForm(r.payload, Counted)
  BY <1>1, WordFits, RunFits
<1>3. Encodable(r, MessageLayout, 4)
  BY <1>2 DEF Encodable, MessageLayout, Field
<1>4. Filled(r, MessageLayout, 4, NewMessage) = r
  BY DEF Filled, MessageLayout, NewMessage, Field, There, Messages
<1> QED BY <1>3, <1>4

LEMMA EventFits ==
    ASSUME NEW r \in Events
    PROVE  /\ Encodable(r, EventLayout, 4)
           /\ Filled(r, EventLayout, 4, NewEvent) = r
<1>1. r.change \in 0..255 /\ r.id \in Words /\ r.hello \in Runs /\ r.peerEndpoint \in Runs
  BY DEF Events
<1>2. /\ FitsForm(r.change, Byte) /\ FitsForm(r.id, Wide)
      /\ FitsForm(r.hello, Counted) /\ FitsForm(r.peerEndpoint, Counted)
  BY <1>1, ByteFits, WordFits, RunFits
<1>3. Encodable(r, EventLayout, 4)
  BY <1>2 DEF Encodable, EventLayout, Field
<1>4. Filled(r, EventLayout, 4, NewEvent) = r
  BY DEF Filled, EventLayout, NewEvent, Field, There, Events
<1> QED BY <1>3, <1>4

\* The fields before the messages, and all of them.
LEMMA UpdateRequestFits ==
    ASSUME NEW r \in UpdateRequests, NEW g, g = Filled(r, UpdateRequestLayout, 7, NewUpdateRequest)
    PROVE  /\ Encodable(r, UpdateRequestLayout, 7) /\ IsRecord(g)
           /\ [g EXCEPT !["messages"] = r.messages] = r
<1>1. /\ r.kind \in 0..255 /\ r.id \in Words /\ r.tick \in Words /\ r.ackSeq \in Words
      /\ r.rosterVersion \in Words /\ r.hasState \in BOOLEAN /\ r.state \in Runs
  BY DEF UpdateRequests, Update, Leave
<1>2. /\ FitsForm(r.kind, Byte) /\ FitsForm(r.id, Wide) /\ FitsForm(r.tick, Wide)
      /\ FitsForm(r.ackSeq, Wide) /\ FitsForm(r.rosterVersion, Wide)
      /\ FitsForm(r.hasState, Bool) /\ FitsForm(r.state, Counted)
  BY <1>1, ByteFits, WordFits, RunFits, BoolFits
<1>3. Encodable(r, UpdateRequestLayout, 7)
  BY <1>2 DEF Encodable, UpdateRequestLayout, Field, FieldIf
<1> DEFINE names == {"kind", "id", "tick", "ackSeq", "rosterVersion", "hasState", "state",
                     "messages"}
<1>4. /\ g = [k \in names |-> g[k]] /\ DOMAIN g = names /\ IsRecord(g)
  BY DEF Filled, NewUpdateRequest, IsRecord
<1>5. /\ r = [k \in names |-> r[k]] /\ DOMAIN r = names
  BY DEF UpdateRequests
<1>6. \A k \in DOMAIN NewUpdateRequest :
         g[k] = IF \E j \in 1..7 : /\ UpdateRequestLayout[j].name = k
                                   /\ There(r, UpdateRequestLayout[j])
                THEN r[k] ELSE NewUpdateRequest[k]
  BY DEF Filled
<1>7. DOMAIN NewUpdateRequest = names /\ NewUpdateRequest.state = <<>>
  BY DEF NewUpdateRequest
<1>8. /\ UpdateRequestLayout[1].name = "kind" /\ There(r, UpdateRequestLayout[1])
      /\ UpdateRequestLayout[2].name = "id" /\ There(r, UpdateRequestLayout[2])
      /\ UpdateRequestLayout[3].name = "tick" /\ There(r, UpdateRequestLayout[3])
      /\ UpdateRequestLayout[4].name = "ackSeq" /\ There(r, UpdateRequestLayout[4])
      /\ UpdateRequestLayout[5].name = "rosterVersion" /\ There(r, UpdateRequestLayout[5])
      /\ UpdateRequestLayout[6].name = "hasState" /\ There(r, UpdateRequestLayout[6])
      /\ UpdateRequestLayout[7].name = "state"
      /\ There(r, UpdateRequestLayout[7]) <=> r.hasState = TRUE
  BY DEF UpdateRequestLayout, Field, FieldIf, There, Always
<1>9. /\ 1 \in 1..7 /\ 2 \in 1..7 /\ 3 \in 1..7 /\ 4 \in 1..7 /\ 5 \in 1..7 /\ 6 \in 1..7
      /\ 7 \in 1..7
  OBVIOUS
<1>10. /\ g.kind = r.kind /\ g.id = r.id /\ g.tick = r.tick /\ g.ackSeq = r.ackSeq
       /\ g.rosterVersion = r.rosterVersion /\ g.hasState = r.hasState
  <2>1. g.kind = r.kind
    BY <1>6, <1>7, <1>8, <1>9
  <2>2. g.id = r.id
    BY <1>6, <1>7, <1>8, <1>9
  <2>3. g.tick = r.tick
    BY <1>6, <1>7, <1>8, <1>9
  <2>4. g.ackSeq = r.ackSeq
    BY <1>6, <1>7, <1>8, <1>9
  <2>5. g.rosterVersion = r.rosterVersion
    BY <1>6, <1>7, <1>8, <1>9
  <2>6. g.hasState = r.hasState
    BY <1>6, <1>7, <1>8, <1>9
  <2> QED BY <2>1, <2>2, <2>3, <2>4, <2>5, <2>6
<1>11. g.state = r.state
  <2>1. CASE r.hasState = TRUE
    BY <1>6, <1>7, <1>8, <1>9, <2>1
  <2>2. CASE ~(r.hasState = TRUE)
    <3>1. r.state = <<>>
      BY <1>1, <2>2 DEF UpdateRequests
    <3> QED BY <1>6, <1>7, <3>1
  <2> QED BY <1>1, <2>1, <2>2
<1> HIDE DEF names
<1>12. ASSUME NEW k \in names PROVE [g EXCEPT !["messages"] = r.messages][k] = r[k]
  BY <1>4, <1>10, <1>11, <1>12 DEF names
<1> QED BY <1>3, <1>4, <1>5, <1>12

LEMMA UpdateReplyFits ==
    ASSUME NEW r \in UpdateReplies,
           NEW g, g = Filled(r, UpdateReplyLayout, 3, NewUpdateReply),
           NEW h, h = [[g EXCEPT !["rosterEvents"] = r.rosterEvents]
                          EXCEPT !["messages"] = r.messages]
    PROVE  /\ Encodable(r, UpdateReplyLayout, 3) /\ IsRecord(g)
           /\ Encodable(r, UpdateSceneLayout, 3) /\ IsRecord(h)
           /\ DOMAIN h = DOMAIN NewUpdateReply
           /\ Filled(r, UpdateSceneLayout, 3, h) = r
<1>1. /\ r.status \in 0..255 /\ r.ackSeq \in Words /\ r.rosterVersion \in Words
      /\ r.hasSnapshot \in BOOLEAN /\ r.snapshotTick \in Words /\ r.snapshot \in Runs
  BY DEF UpdateReplies, Ok, Rejected, UnknownClient
<1>2. /\ FitsForm(r.status, Byte) /\ FitsForm(r.ackSeq, Wide)
      /\ FitsForm(r.rosterVersion, Wide) /\ FitsForm(r.hasSnapshot, Bool)
      /\ FitsForm(r.snapshotTick, Wide) /\ FitsForm(r.snapshot, Counted)
  BY <1>1, ByteFits, WordFits, RunFits, BoolFits
<1>3. Encodable(r, UpdateReplyLayout, 3)
  BY <1>2 DEF Encodable, UpdateReplyLayout, Field
<1>4. Encodable(r, UpdateSceneLayout, 3)
  BY <1>2 DEF Encodable, UpdateSceneLayout, Field, FieldIf
<1> DEFINE names == {"status", "ackSeq", "rosterVersion", "rosterEvents", "messages",
                     "hasSnapshot", "snapshotTick", "snapshot"}
<1>5. DOMAIN g = names /\ IsRecord(g) /\ DOMAIN NewUpdateReply = names
  BY DEF Filled, NewUpdateReply, IsRecord
<1>6. r = [k \in names |-> r[k]] /\ DOMAIN r = names
  BY DEF UpdateReplies
<1>7. \A k \in DOMAIN NewUpdateReply :
         g[k] = IF \E j \in 1..3 : /\ UpdateReplyLayout[j].name = k
                                   /\ There(r, UpdateReplyLayout[j])
                THEN r[k] ELSE NewUpdateReply[k]
  BY DEF Filled
<1>8. /\ UpdateReplyLayout[1].name = "status" /\ There(r, UpdateReplyLayout[1])
      /\ UpdateReplyLayout[2].name = "ackSeq" /\ There(r, UpdateReplyLayout[2])
      /\ UpdateReplyLayout[3].name = "rosterVersion" /\ There(r, UpdateReplyLayout[3])
      /\ UpdateSceneLayout[1].name = "hasSnapshot" /\ There(r, UpdateSceneLayout[1])
      /\ UpdateSceneLayout[2].name = "snapshotTick"
      /\ There(r, UpdateSceneLayout[2]) <=> r.hasSnapshot = TRUE
      /\ UpdateSceneLayout[3].name = "snapshot"
      /\ There(r, UpdateSceneLayout[3]) <=> r.hasSnapshot = TRUE
  BY DEF UpdateReplyLayout, UpdateSceneLayout, Field, FieldIf, There, Always
<1>9. 1 \in 1..3 /\ 2 \in 1..3 /\ 3 \in 1..3 /\ \A j \in 1..3 : j = 1 \/ j = 2 \/ j = 3
  OBVIOUS
<1>10. g.status = r.status /\ g.ackSeq = r.ackSeq /\ g.rosterVersion = r.rosterVersion
  <2>1. g.status = r.status
    BY <1>5, <1>7, <1>8, <1>9
  <2>2. g.ackSeq = r.ackSeq
    BY <1>5, <1>7, <1>8, <1>9
  <2>3. g.rosterVersion = r.rosterVersion
    BY <1>5, <1>7, <1>8, <1>9
  <2> QED BY <2>1, <2>2, <2>3
<1>11. g.snapshotTick = 0 /\ g.snapshot = <<>>
  <2>1. NewUpdateReply.snapshotTick = 0 /\ NewUpdateReply.snapshot = <<>>
    BY DEF NewUpdateReply
  <2>2. g.snapshotTick = 0
    BY <1>5, <1>7, <1>8, <1>9, <2>1
  <2>3. g.snapshot = <<>>
    BY <1>5, <1>7, <1>8, <1>9, <2>1
  <2> QED BY <2>2, <2>3
<1>12. DOMAIN h = names /\ IsRecord(h)
  BY <1>5 DEF IsRecord
<1>13. /\ h.status = r.status /\ h.ackSeq = r.ackSeq /\ h.rosterVersion = r.rosterVersion
       /\ h.rosterEvents = r.rosterEvents /\ h.messages = r.messages
       /\ h.snapshotTick = 0 /\ h.snapshot = <<>>
  BY <1>5, <1>10, <1>11
<1> DEFINE f == Filled(r, UpdateSceneLayout, 3, h)
<1>14. f = [k \in names |-> f[k]]
  BY <1>12 DEF Filled
<1>15. \A k \in names :
          f[k] = IF \E j \in 1..3 : /\ UpdateSceneLayout[j].name = k
                                    /\ There(r, UpdateSceneLayout[j])
                 THEN r[k] ELSE h[k]
  BY <1>12 DEF Filled
<1> HIDE DEF f
<1>16. /\ f.status = r.status /\ f.ackSeq = r.ackSeq /\ f.rosterVersion = r.rosterVersion
       /\ f.rosterEvents = r.rosterEvents /\ f.messages = r.messages
  <2>1. f.status = r.status
    BY <1>8, <1>9, <1>13, <1>15
  <2>2. f.ackSeq = r.ackSeq
    BY <1>8, <1>9, <1>13, <1>15
  <2>3. f.rosterVersion = r.rosterVersion
    BY <1>8, <1>9, <1>13, <1>15
  <2>4. f.rosterEvents = r.rosterEvents
    BY <1>8, <1>9, <1>13, <1>15
  <2>5. f.messages = r.messages
    BY <1>8, <1>9, <1>13, <1>15
  <2> QED BY <2>1, <2>2, <2>3, <2>4, <2>5
<1>17. f.hasSnapshot = r.hasSnapshot
  BY <1>8, <1>9, <1>15
<1>18. f.snapshotTick = r.snapshotTick /\ f.snapshot = r.snapshot
  <2>1. CASE r.hasSnapshot = TRUE
    <3>1. f.snapshotTick = r.snapshotTick
      BY <1>8, <1>9, <1>15, <2>1
    <3>2. f.snapshot = r.snapshot
      BY <1>8, <1>9, <1>15, <2>1
    <3> QED BY <3>1, <3>2
  <2>2. CASE ~(r.hasSnapshot = TRUE)
    <3>1. r.snapshotTick = 0 /\ r.snapshot = <<>>
      BY <1>1, <2>2 DEF UpdateReplies
    <3>2. f.snapshotTick = 0
      BY <1>13, <1>15, <3>1
    <3>3. f.snapshot = <<>>
      BY <1>13, <1>15, <3>1
    <3> QED BY <3>1, <3>2, <3>3
  <2> QED BY <1>1, <2>1, <2>2
<1> HIDE DEF names
<1>19. ASSUME NEW k \in names PROVE f[k] = r[k]
  BY <1>16, <1>17, <1>18, <1>19 DEF names
<1>20. f = r
  BY <1>6, <1>14, <1>19
<1> QED BY <1>3, <1>4, <1>5, <1>12, <1>20 DEF f

LEMMA PutIsSequence ==
    ASSUME NEW layout, NEW n, NEW names, Orderly(layout, n, names),
           NEW rec, Encodable(rec, layout, n)
    PROVE  IsSequence(PutFields(rec, layout))
<1>1. n \in Nat /\ layout = [i \in 1..n |-> layout[i]]
  BY DEF Orderly
<1>2. PICK c : Pieces(PutFields(rec, layout), c, FieldParts(rec, layout), n)
  BY <1>1, PutFieldsFacts
<1> QED BY <1>2 DEF Pieces

LEMMA DecodedIs ==
    ASSUME NEW data, IsSequence(data), NEW base, IsRecord(base), NEW b, IsSequence(b),
           NEW q, NEW g, Gets(q, Reader(data, base), b, g)
    PROVE  /\ Decoded(q) = IF Len(data) = Len(b) THEN g ELSE NotDecoded
           /\ \A kinds : g.kind \in kinds =>
                 DecodedAs(kinds, q) = IF Len(data) = Len(b) THEN g ELSE NotDecoded
<1>1. (Whole(q) <=> Len(data) = Len(b)) /\ (Whole(q) => q.got = g)
  BY WholeOnly
<1>2. Decoded(q) = IF Whole(q) THEN q.got ELSE NotDecoded
  BY DEF Decoded, Once
<1>3. \A kinds : DecodedAs(kinds, q)
                     = IF Whole(q) /\ q.got.kind \in kinds THEN q.got ELSE NotDecoded
  BY DEF DecodedAs, Once
<1> QED BY <1>1, <1>2, <1>3

LEMMA JoinRequestDecodes ==
    ASSUME NEW r \in JoinRequests, NEW data, IsSequence(data),
           Carries(data, 0, EncodeJoinRequest(r))
    PROVE  DecodeJoinRequest(data)
               = IF Len(data) = Len(EncodeJoinRequest(r)) THEN r ELSE NotDecoded
<1> DEFINE base == NewJoinRequest
           start == Reader(data, base)
           q == GetFields(start, JoinRequestLayout)
           b == EncodeJoinRequest(r)
<1>1. IsRecord(base)
  BY DEF IsRecord, NewJoinRequest
<1>2. Encodable(r, JoinRequestLayout, 4) /\ Filled(r, JoinRequestLayout, 4, base) = r
  BY JoinRequestFits
<1>3. Orderly(JoinRequestLayout, 4, DOMAIN base)
  BY OrderlyLayouts
<1>4. b = PutFields(r, JoinRequestLayout) /\ r.kind \in {Join}
  BY DEF EncodeJoinRequest, JoinRequests
<1>5. DecodeJoinRequest(data) = DecodedAs({Join}, q)
  BY DEF DecodeJoinRequest
<1> HIDE DEF base, b
<1>6. Open(start) /\ start.in = data /\ start.pos = 0 /\ start.got = base
  BY <1>1, ReaderOpens
<1>7. Carries(start.in, start.pos, PutFields(r, JoinRequestLayout))
  BY <1>4, <1>6 DEF b
<1>8. IsSequence(b)
  BY <1>2, <1>3, <1>4, PutIsSequence
<1> HIDE DEF start
<1>9. Gets(q, start, b, r)
  BY <1>2, <1>3, <1>4, <1>6, <1>7, FieldsRead
<1> QED BY <1>1, <1>4, <1>5, <1>8, <1>9, DecodedIs DEF start, b

LEMMA JoinReplyDecodes ==
    ASSUME NEW r \in JoinReplies, NEW data, IsSequence(data),
           Carries(data, 0, EncodeJoinReply(r))
    PROVE  DecodeJoinReply(data)
               = IF Len(data) = Len(EncodeJoinReply(r)) THEN r ELSE NotDecoded
<1> DEFINE base == NewJoinReply
           start == Reader(data, base)
           q == GetFields(start, JoinReplyLayout)
           b == EncodeJoinReply(r)
<1>1. IsRecord(base)
  BY DEF IsRecord, NewJoinReply
<1>2. Encodable(r, JoinReplyLayout, 3) /\ Filled(r, JoinReplyLayout, 3, base) = r
  BY JoinReplyFits
<1>3. Orderly(JoinReplyLayout, 3, DOMAIN base)
  BY OrderlyLayouts
<1>4. b = PutFields(r, JoinReplyLayout)
  BY DEF EncodeJoinReply
<1>5. DecodeJoinReply(data) = Decoded(q)
  BY DEF DecodeJoinReply
<1> HIDE DEF base, b
<1>6. Open(start) /\ start.in = data /\ start.pos = 0 /\ start.got = base
  BY <1>1, ReaderOpens
<1>7. Carries(start.in, start.pos, PutFields(r, JoinReplyLayout))
  BY <1>4, <1>6 DEF b
<1>8. IsSequence(b)
  BY <1>2, <1>3, <1>4, PutIsSequence
<1> HIDE DEF start
<1>9. Gets(q, start, b, r)
  BY <1>2, <1>3, <1>4, <1>6, <1>7, FieldsRead
<1> QED BY <1>1, <1>5, <1>8, <1>9, DecodedIs DEF start, b

LEMMA SnapshotDecodes ==
    ASSUME NEW tick \in Words, NEW payload, IsSequence(payload), Len(payload) < Base * Base,
           NEW data, IsSequence(data), Carries(data, 0, EncodeSnapshot(tick, payload))
    PROVE  DecodeSnapshot(data)
               = IF Len(data) = Len(EncodeSnapshot(tick, payload))
                 THEN [tick |-> tick, payload |-> payload] ELSE NotDecoded
<1> DEFINE base == NewSnapshot
           start == Reader(data, base)
           q == GetFields(start, SnapshotLayout)
           b == EncodeSnapshot(tick, payload)
           r == [tick |-> tick, payload |-> payload]
<1>1. IsRecord(base)
  BY DEF IsRecord, NewSnapshot
<1>2. Encodable(r, SnapshotLayout, 2) /\ Filled(r, SnapshotLayout, 2, base) = r
  <2>1. FitsForm(tick, Wide) /\ FitsForm(payload, Counted)
    BY WordFits DEF FitsForm
  <2>2. Encodable(r, SnapshotLayout, 2)
    BY <2>1 DEF Encodable, SnapshotLayout, Field
  <2>3. Filled(r, SnapshotLayout, 2, base) = r
    BY DEF Filled, SnapshotLayout, NewSnapshot, Field, There
  <2> QED BY <2>2, <2>3
<1>3. Orderly(SnapshotLayout, 2, DOMAIN base)
  BY OrderlyLayouts
<1>4. b = PutFields(r, SnapshotLayout)
  BY DEF EncodeSnapshot
<1>5. DecodeSnapshot(data) = Decoded(q)
  BY DEF DecodeSnapshot
<1> HIDE DEF base, b, r
<1>6. Open(start) /\ start.in = data /\ start.pos = 0 /\ start.got = base
  BY <1>1, ReaderOpens
<1>7. Carries(start.in, start.pos, PutFields(r, SnapshotLayout))
  BY <1>4, <1>6 DEF b
<1>8. IsSequence(b)
  BY <1>2, <1>3, <1>4, PutIsSequence
<1> HIDE DEF start
<1>9. Gets(q, start, b, r)
  BY <1>2, <1>3, <1>4, <1>6, <1>7, FieldsRead
<1> QED BY <1>1, <1>5, <1>8, <1>9, DecodedIs DEF start, b, r

-----------------------------------------------------------------------------
\* A list of a session's records, read after what went before it.
LEMMA MessagesFit ==
    ASSUME NEW list \in Lists(Messages)
    PROVE  /\ ListFits(list, Len(list), MessageLayout, 4, NewMessage)
           /\ Elements(list, Len(list), MessageLayout, 4, NewMessage) = list
<1>1. list \in Seq(Messages) /\ Len(list) < Base * Base
  BY DEF Lists
<1>2. Len(list) \in Nat /\ list = [i \in 1..Len(list) |-> list[i]]
  BY <1>1
<1>3. \A i \in 1..Len(list) : list[i] \in Messages
  BY <1>1
<1>4. IsRecord(NewMessage) /\ Orderly(MessageLayout, 4, DOMAIN NewMessage)
  BY OrderlyLayouts DEF IsRecord, NewMessage
<1>5. \A i \in 1..Len(list) : /\ Encodable(list[i], MessageLayout, 4)
                              /\ Filled(list[i], MessageLayout, 4, NewMessage) = list[i]
  BY <1>3, MessageFits
<1> QED BY <1>1, <1>2, <1>4, <1>5 DEF ListFits, Elements

LEMMA EventsFit ==
    ASSUME NEW list \in Lists(Events)
    PROVE  /\ ListFits(list, Len(list), EventLayout, 4, NewEvent)
           /\ Elements(list, Len(list), EventLayout, 4, NewEvent) = list
<1>1. list \in Seq(Events) /\ Len(list) < Base * Base
  BY DEF Lists
<1>2. Len(list) \in Nat /\ list = [i \in 1..Len(list) |-> list[i]]
  BY <1>1
<1>3. \A i \in 1..Len(list) : list[i] \in Events
  BY <1>1
<1>4. IsRecord(NewEvent) /\ Orderly(EventLayout, 4, DOMAIN NewEvent)
  BY OrderlyLayouts DEF IsRecord, NewEvent
<1>5. \A i \in 1..Len(list) : /\ Encodable(list[i], EventLayout, 4)
                              /\ Filled(list[i], EventLayout, 4, NewEvent) = list[i]
  BY <1>3, EventFits
<1> QED BY <1>1, <1>2, <1>4, <1>5 DEF ListFits, Elements

LEMMA UpdateRequestDecodes ==
    ASSUME NEW r \in UpdateRequests, NEW data, IsSequence(data),
           Carries(data, 0, EncodeUpdateRequest(r))
    PROVE  DecodeUpdateRequest(data)
               = IF Len(data) = Len(EncodeUpdateRequest(r)) THEN r ELSE NotDecoded
<1> DEFINE base == NewUpdateRequest
           start == Reader(data, base)
           q == GetFields(start, UpdateRequestLayout)
           p == GetMessages(q)
           a == PutFields(r, UpdateRequestLayout)
           c == PutList(r.messages, MessageLayout)
           g == Filled(r, UpdateRequestLayout, 7, base)
           m == Len(r.messages)
<1>1. IsRecord(base)
  BY DEF IsRecord, NewUpdateRequest
<1>2. /\ Encodable(r, UpdateRequestLayout, 7) /\ IsRecord(g)
      /\ [g EXCEPT !["messages"] = r.messages] = r
  BY UpdateRequestFits
<1>3. Orderly(UpdateRequestLayout, 7, DOMAIN base) /\ Len(UpdateRequestLayout) = 7
  BY OrderlyLayouts DEF UpdateRequestLayout
<1>4. EncodeUpdateRequest(r) = a \o c /\ r.kind \in {Update, Leave} /\ r.messages \in Lists(Messages)
  BY DEF EncodeUpdateRequest, UpdateRequests
<1>5. DecodeUpdateRequest(data) = DecodedAs({Update, Leave}, p)
  BY DEF DecodeUpdateRequest
<1>6. /\ ListFits(r.messages, m, MessageLayout, 4, NewMessage)
      /\ Elements(r.messages, m, MessageLayout, 4, NewMessage) = r.messages
  BY <1>4, MessagesFit
<1> HIDE DEF base, m
<1>7. Open(start) /\ start.in = data /\ start.pos = 0 /\ start.got = base
  BY <1>1, ReaderOpens
<1>8. IsSequence(a)
  BY <1>2, <1>3, PutIsSequence
<1>9. IsSequence(c)
  <2>1. Carries(<<>>, 0, c) /\ Open(Reader(<<>>, base)) /\ Reader(<<>>, base).in = <<>>
        /\ Reader(<<>>, base).pos = 0
    BY <1>1, ReaderOpens, Nothing DEF Carries
  <2> QED BY <1>6, <2>1, ListRead
<1>10. Carries(data, 0, a \o c)
  BY <1>4
<1> HIDE DEF a, c, g
<1>11. Carries(data, 0, a) /\ Carries(data, 0 + Len(a), c) /\ 0 + Len(a) = Len(a)
  BY <1>8, <1>9, <1>10, CarriesBoth, SequenceFacts
<1>12. Carries(start.in, start.pos, a) /\ Orderly(UpdateRequestLayout, 7, DOMAIN start.got)
  BY <1>3, <1>7, <1>11
<1> HIDE DEF start
<1>13. Gets(q, start, a, g)
  <2>1. Carries(start.in, start.pos, PutFields(r, UpdateRequestLayout))
    BY <1>12 DEF a
  <2> QED BY <1>2, <1>7, <1>12, <2>1, FieldsRead DEF a, g
<1> HIDE DEF q
<1>14. Failed(q) => Failed(p)
  BY ListFails DEF GetMessages
<1>15. ASSUME Open(q) PROVE Gets(p, q, c, r)
  <2>1. start.pos + Len(a) <= Len(start.in)
    BY <1>13, <1>15 DEF Gets, Failed, Open
  <2>2. q.in = data /\ q.pos = Len(a) /\ q.got = g
    BY <1>7, <1>11, <1>13, <2>1 DEF Gets, At
  <2>3. Carries(q.in, q.pos, PutList(r.messages, MessageLayout))
    BY <1>11, <2>2 DEF c
  <2>4. Gets(GetList(q, "messages", MessageLayout, NewMessage), q, PutList(r.messages, MessageLayout),
             [q.got EXCEPT !["messages"] = Elements(r.messages, m, MessageLayout, 4, NewMessage)])
    BY <1>6, <1>15, <2>3, ListRead
  <2> QED BY <1>2, <1>6, <2>2, <2>4 DEF GetMessages, c
<1> HIDE DEF p
<1>16. Gets(p, start, a \o c, r)
  BY <1>2, <1>7, <1>8, <1>9, <1>13, <1>14, <1>15, GetsBoth
<1>17. IsSequence(a \o c)
  BY <1>8, <1>9, JoinFacts
<1> DEFINE e == a \o c
<1>18. EncodeUpdateRequest(r) = e /\ IsSequence(e) /\ Gets(p, start, e, r)
  BY <1>4, <1>16, <1>17
<1> HIDE DEF e
<1>19. DecodedAs({Update, Leave}, p) = IF Len(data) = Len(e) THEN r ELSE NotDecoded
  <2>1. Gets(p, Reader(data, base), e, r) /\ IsSequence(e)
    BY <1>18 DEF start
  <2> QED BY <1>1, <1>4, <2>1, DecodedIs
<1> QED BY <1>5, <1>18, <1>19

\* What a reader got after a and b, if neither it nor the one after a failed.
LEMMA ThenAt ==
    ASSUME NEW start, Open(start), NEW a, NEW q, NEW g, Gets(q, start, a, g), Open(q)
    PROVE  q.in = start.in /\ q.pos = start.pos + Len(a) /\ q.got = g
<1>1. start.pos + Len(a) <= Len(start.in)
  BY DEF Gets, Failed, Open
<1> QED BY <1>1 DEF Gets, At

LEMMA PutListIsSequence ==
    ASSUME NEW list, NEW m, NEW layout, NEW n, NEW defaults,
           ListFits(list, m, layout, n, defaults)
    PROVE  IsSequence(PutList(list, layout))
<1> DEFINE base == NewSnapshot
           r == Reader(<<>>, base)
<1>1. IsRecord(base)
  BY DEF IsRecord, NewSnapshot
<1>2. Open(r) /\ r.in = <<>> /\ r.pos = 0
  BY <1>1, ReaderOpens, Nothing
<1>3. \A s : Carries(<<>>, 0, s)
  <2> SUFFICES ASSUME NEW s, NEW j \in 1..Len(s), 0 + j <= 0 PROVE FALSE
    BY DEF Carries
  <2> QED OBVIOUS
<1>4. Carries(r.in, r.pos, PutList(list, layout))
  BY <1>2, <1>3
<1> HIDE DEF r
<1> QED BY <1>2, <1>4, ListRead

LEMMA UpdateReplyDecodes ==
    ASSUME NEW r \in UpdateReplies, NEW data, IsSequence(data),
           Carries(data, 0, EncodeUpdateReply(r))
    PROVE  DecodeUpdateReply(data)
               = IF Len(data) = Len(EncodeUpdateReply(r)) THEN r ELSE NotDecoded
<1> DEFINE base == NewUpdateReply
           start == Reader(data, base)
           q1 == GetFields(start, UpdateReplyLayout)
           q2 == GetList(q1, "rosterEvents", EventLayout, NewEvent)
           q3 == GetList(q2, "messages", MessageLayout, NewMessage)
           q4 == GetFields(q3, UpdateSceneLayout)
           a == PutFields(r, UpdateReplyLayout)
           b == PutList(r.rosterEvents, EventLayout)
           c == PutList(r.messages, MessageLayout)
           d == PutFields(r, UpdateSceneLayout)
           g1 == Filled(r, UpdateReplyLayout, 3, base)
           g2 == [g1 EXCEPT !["rosterEvents"] = r.rosterEvents]
           g3 == [g2 EXCEPT !["messages"] = r.messages]
           m == Len(r.rosterEvents)
           k == Len(r.messages)
<1>1. IsRecord(base)
  BY DEF IsRecord, NewUpdateReply
<1>2. /\ Encodable(r, UpdateReplyLayout, 3) /\ IsRecord(g1)
      /\ Encodable(r, UpdateSceneLayout, 3) /\ IsRecord(g3)
      /\ DOMAIN g3 = DOMAIN base
      /\ Filled(r, UpdateSceneLayout, 3, g3) = r
  BY UpdateReplyFits
<1>3. /\ Orderly(UpdateReplyLayout, 3, DOMAIN base) /\ Orderly(UpdateSceneLayout, 3, DOMAIN base)
      /\ Len(UpdateSceneLayout) = 3
  BY OrderlyLayouts DEF UpdateSceneLayout
<1>4. /\ EncodeUpdateReply(r) = ((a \o b) \o c) \o d
      /\ r.messages \in Lists(Messages) /\ r.rosterEvents \in Lists(Events)
  BY DEF EncodeUpdateReply, UpdateReplies
<1>5. DecodeUpdateReply(data) = Decoded(q4)
  BY DEF DecodeUpdateReply, GetMessages
<1>6. /\ ListFits(r.messages, k, MessageLayout, 4, NewMessage)
      /\ Elements(r.messages, k, MessageLayout, 4, NewMessage) = r.messages
      /\ ListFits(r.rosterEvents, m, EventLayout, 4, NewEvent)
      /\ Elements(r.rosterEvents, m, EventLayout, 4, NewEvent) = r.rosterEvents
  BY <1>4, MessagesFit, EventsFit
<1>g. IsRecord(g2)
  BY <1>2 DEF IsRecord
<1> HIDE DEF base, m, k
<1>7. Open(start) /\ start.in = data /\ start.pos = 0 /\ start.got = base
  BY <1>1, ReaderOpens
<1>8. IsSequence(a) /\ IsSequence(d)
  BY <1>2, <1>3, PutIsSequence
<1>9. IsSequence(b) /\ IsSequence(c)
  BY <1>6, PutListIsSequence
<1>10. Carries(data, 0, ((a \o b) \o c) \o d)
  BY <1>4
<1> HIDE DEF start, a, b, c, d, g1, g2, g3
<1> DEFINE ab  == a \o b
           abc == ab \o c
           all == abc \o d
<1>11. /\ IsSequence(ab) /\ Len(ab) = Len(a) + Len(b)
  BY <1>8, <1>9, JoinFacts
<1> HIDE DEF ab
<1>12. /\ IsSequence(abc) /\ Len(abc) = Len(ab) + Len(c)
  BY <1>9, <1>11, JoinFacts
<1> HIDE DEF abc
<1>13. IsSequence(all)
  BY <1>8, <1>12, JoinFacts
<1>14. Carries(data, 0, all)
  BY <1>10 DEF ab, abc
<1>15. Carries(data, 0, abc) /\ Carries(data, 0 + Len(abc), d)
  BY <1>8, <1>12, <1>14, CarriesBoth
<1> HIDE DEF all
<1>16. Carries(data, 0, ab) /\ Carries(data, 0 + Len(ab), c)
  <2>1. Carries(data, 0, ab \o c)
    BY <1>15 DEF abc
  <2> QED BY <1>9, <1>11, <2>1, CarriesBoth
<1>17. Carries(data, 0, a) /\ Carries(data, 0 + Len(a), b)
  <2>1. Carries(data, 0, a \o b)
    BY <1>16 DEF ab
  <2> QED BY <1>8, <1>9, <2>1, CarriesBoth
<1>18. Gets(q1, start, a, g1)
  <2>1. Carries(start.in, start.pos, PutFields(r, UpdateReplyLayout))
    BY <1>7, <1>17 DEF a
  <2> QED BY <1>2, <1>3, <1>7, <2>1, FieldsRead DEF a, g1
<1> HIDE DEF q1
<1>19. Gets(q2, start, ab, g2)
  <2>1. Failed(q1) => Failed(q2)
    BY ListFails
  <2>2. ASSUME Open(q1) PROVE Gets(q2, q1, b, g2)
    <3>1. q1.in = data /\ q1.pos = 0 + Len(a) /\ q1.got = g1
      BY <1>7, <1>18, <2>2, ThenAt
    <3>2. Carries(q1.in, q1.pos, PutList(r.rosterEvents, EventLayout))
      BY <1>17, <3>1 DEF b
    <3>3. Gets(q2, q1, PutList(r.rosterEvents, EventLayout),
               [q1.got EXCEPT !["rosterEvents"] = Elements(r.rosterEvents, m, EventLayout, 4, NewEvent)])
      BY <1>6, <2>2, <3>2, ListRead
    <3> QED BY <1>6, <3>1, <3>3 DEF b, g2
  <2> HIDE DEF q2
  <2> QED BY <1>2, <1>7, <1>8, <1>9, <1>18, <2>1, <2>2, GetsBoth DEF ab
<1> HIDE DEF q2
<1>20. Gets(q3, start, abc, g3)
  <2>1. Failed(q2) => Failed(q3)
    BY ListFails
  <2>2. ASSUME Open(q2) PROVE Gets(q3, q2, c, g3)
    <3>1. q2.in = data /\ q2.pos = 0 + Len(ab) /\ q2.got = g2
      BY <1>7, <1>19, <2>2, ThenAt
    <3>2. Carries(q2.in, q2.pos, PutList(r.messages, MessageLayout))
      BY <1>16, <3>1 DEF c
    <3>3. Gets(q3, q2, PutList(r.messages, MessageLayout),
               [q2.got EXCEPT !["messages"] = Elements(r.messages, k, MessageLayout, 4, NewMessage)])
      BY <1>6, <2>2, <3>2, ListRead
    <3> QED BY <1>6, <3>1, <3>3 DEF c, g3
  <2> HIDE DEF q3
  <2> QED BY <1>g, <1>7, <1>9, <1>11, <1>19, <2>1, <2>2, GetsBoth DEF abc
<1> HIDE DEF q3
<1>21. Gets(q4, start, all, r)
  <2>1. ASSUME Failed(q3) PROVE Failed(q4)
    <3>1. 3 \in Nat /\ Len(UpdateSceneLayout) = 3
      BY <1>3
    <3> QED BY <2>1, <3>1, FieldsFail
  <2>2. ASSUME Open(q3) PROVE Gets(q4, q3, d, r)
    <3>1. q3.in = data /\ q3.pos = 0 + Len(abc) /\ q3.got = g3
      BY <1>7, <1>20, <2>2, ThenAt
    <3>2. Carries(q3.in, q3.pos, PutFields(r, UpdateSceneLayout))
      BY <1>15, <3>1 DEF d
    <3>3. Orderly(UpdateSceneLayout, 3, DOMAIN q3.got)
      BY <1>2, <1>3, <3>1
    <3>4. Gets(q4, q3, PutFields(r, UpdateSceneLayout), Filled(r, UpdateSceneLayout, 3, q3.got))
      BY <1>2, <2>2, <3>2, <3>3, FieldsRead
    <3> QED BY <1>2, <3>1, <3>4 DEF d
  <2> HIDE DEF q4
  <2> QED BY <1>2, <1>7, <1>8, <1>12, <1>20, <2>1, <2>2, GetsBoth DEF all
<1> HIDE DEF q4
<1>22. EncodeUpdateReply(r) = all
  BY <1>4 DEF all, abc, ab
<1>23. Decoded(q4) = IF Len(data) = Len(all) THEN r ELSE NotDecoded
  <2>1. Gets(q4, Reader(data, base), all, r)
    BY <1>21 DEF start
  <2> QED BY <1>1, <1>13, <2>1, DecodedIs
<1> QED BY <1>5, <1>22, <1>23

-----------------------------------------------------------------------------
(***************************************************************************)
(* The fold over the records of a snapshot, step by step.                  *)
(***************************************************************************)
\* The function that the definition of FoldLeft chooses.
Folds(f, self, base, s, n) ==
    f = [t \in SUBSET (1..n) |->
            IF t = {} THEN base ELSE ApplyUnlessOwn(f[t \ {Max(t)}], self, s[Max(t)])]

LEMMA FoldChooses ==
    ASSUME NEW self, NEW base, NEW n \in Nat, NEW s, DOMAIN s = 1..n
    PROVE  ApplyEach(base, self, s)
               = (CHOOSE f : Folds(f, self, base, s, n))[1..n]
BY DEF ApplyEach, FoldLeft, MapThenFoldSet, Folds

LEMMA MaxIsLast ==
    ASSUME NEW n \in Nat, NEW t \in SUBSET (1..n), n \in t
    PROVE  Max(t) = n
<1>1. \A y \in t : n >= y
  OBVIOUS
<1>2. \A x \in t : (\A y \in t : x >= y) => x = n
  OBVIOUS
<1> QED BY <1>1, <1>2 DEF Max

LEMMA FoldExists ==
    ASSUME NEW self, NEW base, NEW s, NEW n \in Nat
    PROVE  \E f : Folds(f, self, base, s, n)
<1> DEFINE T == {k \in Nat : \E f : Folds(f, self, base, s, k)}
<1>1. 0 \in T
  <2> DEFINE f == [t \in SUBSET (1..0) |-> base]
  <2>1. \A t \in SUBSET (1..0) : t = {}
    OBVIOUS
  <2>2. Folds(f, self, base, s, 0)
    BY <2>1 DEF Folds
  <2> QED BY <2>2
<1>2. ASSUME NEW k \in Nat, k \in T PROVE k + 1 \in T
  <2>1. PICK f : Folds(f, self, base, s, k)
    BY <1>2
  <2> DEFINE h == [t \in SUBSET (1..(k + 1)) |->
                      IF k + 1 \in t THEN ApplyUnlessOwn(f[t \ {k + 1}], self, s[k + 1])
                      ELSE f[t]]
  <2>2. \A t \in SUBSET (1..k) : f[t] = IF t = {} THEN base
                                ELSE ApplyUnlessOwn(f[t \ {Max(t)}], self, s[Max(t)])
    BY <2>1 DEF Folds
  <2>3. ASSUME NEW t \in SUBSET (1..(k + 1))
        PROVE  h[t] = IF t = {} THEN base
                      ELSE ApplyUnlessOwn(h[t \ {Max(t)}], self, s[Max(t)])
    <3>1. CASE k + 1 \in t
      <4>1. Max(t) = k + 1
        BY <3>1, MaxIsLast
      <4>2. t \ {k + 1} \in SUBSET (1..(k + 1)) /\ k + 1 \notin t \ {k + 1}
        OBVIOUS
      <4>3. h[t \ {k + 1}] = f[t \ {k + 1}]
        BY <4>2
      <4> QED BY <3>1, <4>1, <4>3
    <3>2. CASE k + 1 \notin t
      <4>1. t \in SUBSET (1..k) /\ h[t] = f[t]
        BY <3>2
      <4>2. t \ {Max(t)} \in SUBSET (1..(k + 1)) /\ k + 1 \notin t \ {Max(t)}
        BY <3>2
      <4>3. h[t \ {Max(t)}] = f[t \ {Max(t)}]
        BY <4>2
      <4> QED BY <2>2, <4>1, <4>3
    <3> QED BY <3>1, <3>2
  <2>4. Folds(h, self, base, s, k + 1)
    <3>1. h = [t \in SUBSET (1..(k + 1)) |-> h[t]]
      OBVIOUS
    <3> HIDE DEF h
    <3> QED BY <2>3, <3>1, Zenon DEF Folds
  <2> QED BY <2>4
<1> HIDE DEF T
<1>3. Nat \subseteq T
  BY <1>1, <1>2, Induction
<1> QED BY <1>3 DEF T

\* The worlds that apply() goes through, one for each record.
Stages(h, self, base, s, n) ==
    /\ h[0] = base
    /\ \A k \in 0..(n - 1) : h[k + 1] = ApplyUnlessOwn(h[k], self, s[k + 1])
    /\ ApplyEach(base, self, s) = h[n]

LEMMA FoldSteps ==
    ASSUME NEW self, NEW base, NEW n \in Nat, NEW s, DOMAIN s = 1..n
    PROVE  \E h : Stages(h, self, base, s, n)
<1> DEFINE f == CHOOSE f : Folds(f, self, base, s, n)
           h == [k \in 0..n |-> f[1..k]]
<1>1. Folds(f, self, base, s, n)
  BY FoldExists
<1>2. ApplyEach(base, self, s) = f[1..n]
  BY FoldChooses
<1> HIDE DEF f
<1>3. \A t \in SUBSET (1..n) : f[t] = IF t = {} THEN base
                               ELSE ApplyUnlessOwn(f[t \ {Max(t)}], self, s[Max(t)])
  BY <1>1 DEF Folds
<1>4. h[0] = base
  <2>1. 1..0 = {} /\ {} \in SUBSET (1..n)
    OBVIOUS
  <2>2. f[{}] = base
    BY <1>3, <2>1, Zenon
  <2>3. 0 \in 0..n /\ h[0] = f[1..0]
    OBVIOUS
  <2> HIDE DEF h
  <2> QED BY <2>1, <2>2, <2>3, Zenon
<1>5. ASSUME NEW k \in 0..(n - 1) PROVE h[k + 1] = ApplyUnlessOwn(h[k], self, s[k + 1])
  <2>1. 1..(k + 1) \in SUBSET (1..n) /\ k + 1 \in 1..(k + 1)
    OBVIOUS
  <2>2. Max(1..(k + 1)) = k + 1
    BY <2>1, MaxIsLast
  <2>3. (1..(k + 1)) \ {k + 1} = 1..k
    OBVIOUS
  <2>4. f[1..(k + 1)] = ApplyUnlessOwn(f[1..k], self, s[k + 1])
    BY <1>3, <2>1, <2>2, <2>3
  <2>5. h[k] = f[1..k] /\ h[k + 1] = f[1..(k + 1)]
    OBVIOUS
  <2> QED BY <2>4, <2>5
<1>6. h[n] = f[1..n]
  OBVIOUS
<1>7. Stages(h, self, base, s, n)
  <2> HIDE DEF h
  <2> QED BY <1>2, <1>4, <1>5, <1>6 DEF Stages
<1> QED BY <1>7

-----------------------------------------------------------------------------
(***************************************************************************)
(* What a record does to a scene.                                          *)
(***************************************************************************)
IsScene(w) ==
    /\ DOMAIN w = {"live", "nextEntity", "nextLocal", "entities", "netIds", "receivedFrom",
                   "transforms", "stores", "extras"}
    /\ DOMAIN w.stores = Kinds

\* The maps and lists of the replicator, and which entities live.
SameEntities(v, w) ==
    /\ v.live = w.live /\ v.nextEntity = w.nextEntity /\ v.nextLocal = w.nextLocal
    /\ v.entities = w.entities /\ v.netIds = w.netIds /\ v.receivedFrom = w.receivedFrom

SameComponent(v, w, kind, e) ==
    Has(v, kind, e) = Has(w, kind, e) /\ Get(v, kind, e) = Get(w, kind, e)

SameElsewhere(v, w, e) ==
    /\ \A x : x # e => v.transforms[x] = w.transforms[x]
    /\ \A kind \in Kinds : \A x : x # e => SameComponent(v, w, kind, x)

LEMMA StoreFacts ==
    ASSUME NEW w, IsScene(w), NEW kind \in Kinds, NEW store,
           NEW v, v = [w EXCEPT !.stores[kind] = store]
    PROVE  /\ IsScene(v) /\ SameEntities(v, w)
           /\ v.transforms = w.transforms /\ v.extras = w.extras
           /\ v.stores[kind] = store
           /\ \A k \in Kinds : k # kind => v.stores[k] = w.stores[k]
BY DEF IsScene, SameEntities

LEMMA AddOrRemoveFacts ==
    ASSUME NEW w, IsScene(w), NEW kind \in Kinds, NEW e \in w.live,
           NEW present \in BOOLEAN, NEW value,
           NEW v, v = AddOrRemove(w, kind, e, present, value)
    PROVE  /\ IsScene(v) /\ SameEntities(v, w)
           /\ v.transforms = w.transforms /\ v.extras = w.extras
           /\ \A k \in Kinds : k # kind => v.stores[k] = w.stores[k]
           /\ Has(v, kind, e) = present
           /\ present => Get(v, kind, e) = value
           /\ \A x : x # e => SameComponent(v, w, kind, x)
<1>1. CASE present
  <2> DEFINE old == w.stores[kind]
             new == Put(old, e, value)
  <2>1. v = [w EXCEPT !.stores[kind] = new]
    BY <1>1 DEF AddOrRemove, Attach, HasEntity
  <2>2. /\ DOMAIN new = DOMAIN old \cup {e} /\ new[e] = value
        /\ \A x \in DOMAIN old : x # e => new[x] = old[x]
    BY DEF Put
  <2> HIDE DEF new
  <2>3. /\ IsScene(v) /\ SameEntities(v, w)
        /\ v.transforms = w.transforms /\ v.extras = w.extras
        /\ v.stores[kind] = new
        /\ \A k \in Kinds : k # kind => v.stores[k] = w.stores[k]
    BY <2>1, StoreFacts, SMTT(20)
  <2>4. Has(v, kind, e) /\ Get(v, kind, e) = value
    BY <2>2, <2>3 DEF Has, Get
  <2>5. ASSUME NEW x, x # e PROVE SameComponent(v, w, kind, x)
    BY <2>2, <2>3, <2>5 DEF Has, Get, SameComponent
  <2> QED BY <1>1, <2>3, <2>4, <2>5
<1>2. CASE ~present
  <2> DEFINE old == w.stores[kind]
             new == Erase(old, {e})
  <2>1. v = [w EXCEPT !.stores[kind] = new]
    BY <1>2 DEF AddOrRemove, Detach
  <2>2. /\ DOMAIN new = DOMAIN old \ {e}
        /\ \A x \in DOMAIN old : x # e => new[x] = old[x]
    BY DEF Erase, Restrict
  <2> HIDE DEF new
  <2>3. /\ IsScene(v) /\ SameEntities(v, w)
        /\ v.transforms = w.transforms /\ v.extras = w.extras
        /\ v.stores[kind] = new
        /\ \A k \in Kinds : k # kind => v.stores[k] = w.stores[k]
    BY <2>1, StoreFacts, SMTT(20)
  <2> QED BY <1>2, <2>2, <2>3 DEF Has, Get, SameComponent
<1> QED BY <1>1, <1>2

\* What the scene has of the entity of a record is what the record says.
Shows(w, r) ==
    LET id == NetId(r.id)
        e  == w.entities[id]
    IN  /\ w.transforms[e] = r.transform
        /\ Has(w, RigidBody, e) = Holds(r.mask, HasRigidBody)
        /\ Has(w, RigidBody, e) => Get(w, RigidBody, e) = r.rigidBody
        /\ Has(w, Collider, e) = Holds(r.mask, HasCollider)
        /\ Has(w, Collider, e) => Get(w, Collider, e) = r.collider
        /\ Has(w, Shape, e) = Holds(r.mask, HasShape)
        /\ Has(w, Shape, e) => /\ Get(w, Shape, e).size = r.shapeSize
                               /\ Get(w, Shape, e).color = r.shapeColor
                               /\ Get(w, Shape, e).tiled = r.shapeTiled
        /\ (id \in DOMAIN w.extras) = Holds(r.mask, HasExtra)
        /\ id \in DOMAIN w.extras => w.extras[id] = r.extra

\* What is local to an entity stays.
LocalStays(v, w) ==
    /\ v.stores[Text] = w.stores[Text] /\ v.stores[SpriteAnimation] = w.stores[SpriteAnimation]
    /\ \A e : Has(w, Shape, e) /\ Has(v, Shape, e) =>
                 Get(v, Shape, e).texture = Get(w, Shape, e).texture

\* Nothing but the entity of the record is touched.
LEMMA ApplyRecordFacts ==
    ASSUME NEW w, IsScene(w), NEW r, w.entities[NetId(r.id)] \in w.live,
           w.entities[NetId(r.id)] \in DOMAIN w.transforms
    PROVE  LET v  == ApplyRecord(w, r)
               id == NetId(r.id)
           IN  /\ IsScene(v) /\ SameEntities(v, w) /\ Shows(v, r) /\ LocalStays(v, w)
               /\ DOMAIN v.transforms = DOMAIN w.transforms
               /\ DOMAIN v.extras \subseteq DOMAIN w.extras \cup {id}
               /\ SameElsewhere(v, w, w.entities[id])
               /\ \A i : i # id => /\ (i \in DOMAIN v.extras) = (i \in DOMAIN w.extras)
                                   /\ i \in DOMAIN w.extras => v.extras[i] = w.extras[i]
<1> DEFINE id == NetId(r.id)
           e  == w.entities[id]
           placed  == SetTransform(w, e, r.transform)
           moving  == AddOrRemove(placed, RigidBody, e, Holds(r.mask, HasRigidBody), r.rigidBody)
           solid   == AddOrRemove(moving, Collider, e, Holds(r.mask, HasCollider), r.collider)
           visible == AddOrRemove(solid, Shape, e, Holds(r.mask, HasShape), ShapeOf(solid, e, r))
           v       == ApplyRecord(w, r)
<1>0. \A bit : Holds(r.mask, bit) \in BOOLEAN
  BY DEF Holds
<1>k. /\ RigidBody \in Kinds /\ Collider \in Kinds /\ Shape \in Kinds /\ Text \in Kinds
      /\ SpriteAnimation \in Kinds
      /\ Kinds = {RigidBody, Collider, Shape, SpriteAnimation, Text}
      /\ RigidBody # Collider /\ RigidBody # Shape /\ Collider # Shape
      /\ Text \notin {RigidBody, Collider, Shape}
      /\ SpriteAnimation \notin {RigidBody, Collider, Shape}
  BY DEF Kinds, RigidBody, Collider, Shape, Text, SpriteAnimation
<1>1. /\ IsScene(placed) /\ SameEntities(placed, w)
      /\ placed.stores = w.stores /\ placed.extras = w.extras
      /\ DOMAIN placed.transforms = DOMAIN w.transforms
      /\ placed.transforms[e] = r.transform
      /\ \A x : x # e => placed.transforms[x] = w.transforms[x]
  <2>1. placed = [w EXCEPT !.transforms[e] = r.transform]
    BY DEF SetTransform, HasEntity
  <2> HIDE DEF placed
  <2> QED BY <2>1 DEF IsScene, SameEntities
<1> HIDE DEF placed
<1>2. /\ IsScene(moving) /\ SameEntities(moving, w)
      /\ moving.transforms = placed.transforms /\ moving.extras = w.extras
      /\ \A k \in Kinds : k # RigidBody => moving.stores[k] = w.stores[k]
      /\ Has(moving, RigidBody, e) = Holds(r.mask, HasRigidBody)
      /\ Holds(r.mask, HasRigidBody) => Get(moving, RigidBody, e) = r.rigidBody
      /\ \A x : x # e => SameComponent(moving, w, RigidBody, x)
  <2>1. e \in placed.live
    BY <1>1 DEF SameEntities
  <2> HIDE DEF e
  <2> QED BY <1>0, <1>k, <1>1, <2>1, AddOrRemoveFacts DEF SameEntities, SameComponent, Has, Get
<1> HIDE DEF moving
<1>3. /\ IsScene(solid) /\ SameEntities(solid, w)
      /\ solid.transforms = placed.transforms /\ solid.extras = w.extras
      /\ \A k \in Kinds : k # Collider => solid.stores[k] = moving.stores[k]
      /\ Has(solid, Collider, e) = Holds(r.mask, HasCollider)
      /\ Holds(r.mask, HasCollider) => Get(solid, Collider, e) = r.collider
      /\ \A x : x # e => SameComponent(solid, moving, Collider, x)
  <2>1. e \in moving.live
    BY <1>2 DEF SameEntities
  <2> HIDE DEF e
  <2> QED BY <1>0, <1>k, <1>2, <2>1, AddOrRemoveFacts DEF SameEntities
<1> HIDE DEF solid
<1>4. /\ IsScene(visible) /\ SameEntities(visible, w)
      /\ visible.transforms = placed.transforms /\ visible.extras = w.extras
      /\ \A k \in Kinds : k # Shape => visible.stores[k] = solid.stores[k]
      /\ Has(visible, Shape, e) = Holds(r.mask, HasShape)
      /\ Holds(r.mask, HasShape) => Get(visible, Shape, e) = ShapeOf(solid, e, r)
      /\ \A x : x # e => SameComponent(visible, solid, Shape, x)
  <2>1. e \in solid.live
    BY <1>3 DEF SameEntities
  <2> HIDE DEF e
  <2> QED BY <1>0, <1>k, <1>3, <2>1, AddOrRemoveFacts DEF SameEntities
<1> HIDE DEF visible
<1>5. /\ visible.stores[Text] = w.stores[Text]
      /\ visible.stores[SpriteAnimation] = w.stores[SpriteAnimation]
      /\ visible.stores[RigidBody] = moving.stores[RigidBody]
      /\ visible.stores[Collider] = solid.stores[Collider]
      /\ moving.stores[Collider] = w.stores[Collider] /\ solid.stores[Shape] = w.stores[Shape]
  BY <1>k, <1>2, <1>3, <1>4
<1>6. \A kind \in Kinds : \A x : x # e => SameComponent(visible, w, kind, x)
  BY <1>k, <1>2, <1>3, <1>4, <1>5 DEF SameComponent, Has, Get
<1>7. /\ Has(visible, RigidBody, e) = Holds(r.mask, HasRigidBody)
      /\ Has(visible, RigidBody, e) => Get(visible, RigidBody, e) = r.rigidBody
      /\ Has(visible, Collider, e) = Holds(r.mask, HasCollider)
      /\ Has(visible, Collider, e) => Get(visible, Collider, e) = r.collider
  BY <1>2, <1>3, <1>5 DEF Has, Get
<1>8. Has(visible, Shape, e) =>
          /\ Get(visible, Shape, e).size = r.shapeSize
          /\ Get(visible, Shape, e).color = r.shapeColor
          /\ Get(visible, Shape, e).tiled = r.shapeTiled
          /\ Has(w, Shape, e) => Get(visible, Shape, e).texture = Get(w, Shape, e).texture
  <2>1. ASSUME Has(visible, Shape, e)
        PROVE  Get(visible, Shape, e) = ShapeOf(solid, e, r)
    BY <1>4, <2>1
  <2>2. Has(solid, Shape, e) = Has(w, Shape, e) /\ Get(solid, Shape, e) = Get(w, Shape, e)
    BY <1>5 DEF Has, Get
  <2> HIDE DEF e
  <2> QED BY <2>1, <2>2 DEF ShapeOf
<1>9. v = IF Holds(r.mask, HasExtra) THEN [visible EXCEPT !.extras = Put(visible.extras, id, r.extra)]
          ELSE [visible EXCEPT !.extras = Erase(visible.extras, {id})]
  BY DEF ApplyRecord, SetExtra, visible, solid, moving, placed
<1> HIDE DEF v
<1>10. /\ IsScene(v) /\ SameEntities(v, visible)
       /\ v.transforms = visible.transforms /\ v.stores = visible.stores
       /\ v.extras = IF Holds(r.mask, HasExtra) THEN Put(w.extras, id, r.extra)
                     ELSE Erase(w.extras, {id})
  BY <1>4, <1>9 DEF IsScene, SameEntities
<1>11. /\ (id \in DOMAIN v.extras) = Holds(r.mask, HasExtra)
       /\ id \in DOMAIN v.extras => v.extras[id] = r.extra
       /\ DOMAIN v.extras \subseteq DOMAIN w.extras \cup {id}
       /\ \A i : i # id => /\ (i \in DOMAIN v.extras) = (i \in DOMAIN w.extras)
                           /\ i \in DOMAIN w.extras => v.extras[i] = w.extras[i]
  <2> HIDE DEF id
  <2> DEFINE old == w.extras
             put == Put(old, id, r.extra)
             erased == Erase(old, {id})
  <2>a. /\ DOMAIN put = DOMAIN old \cup {id} /\ put[id] = r.extra
        /\ \A x \in DOMAIN old : x # id => put[x] = old[x]
    BY DEF Put
  <2>b. /\ DOMAIN erased = DOMAIN old \ {id}
        /\ \A x \in DOMAIN old : x # id => erased[x] = old[x]
    BY DEF Erase, Restrict
  <2>c. v.extras = IF Holds(r.mask, HasExtra) THEN put ELSE erased
    BY <1>10
  <2> HIDE DEF put, erased
  <2>1. CASE Holds(r.mask, HasExtra)
    <3>1. v.extras = put /\ Holds(r.mask, HasExtra) = TRUE
      BY <2>1, <2>c, <1>0
    <3>2. \A i : i # id => (i \in DOMAIN v.extras) = (i \in DOMAIN w.extras)
      BY <3>1, <2>a
    <3>3. id \in DOMAIN v.extras /\ v.extras[id] = r.extra
      BY <3>1, <2>a
    <3> QED BY <3>1, <3>2, <3>3, <2>a
  <2>2. CASE ~Holds(r.mask, HasExtra)
    BY <2>2, <2>b, <2>c, <1>0
  <2> QED BY <2>1, <2>2
<1>12. SameEntities(v, w) /\ v.entities[id] = e
  BY <1>4, <1>10 DEF SameEntities
<1>13. \A kind \in Kinds : \A x : SameComponent(v, visible, kind, x)
  BY <1>10 DEF SameComponent, Has, Get
<1>14. Shows(v, r)
  BY <1>k, <1>1, <1>4, <1>7, <1>8, <1>10, <1>11, <1>12, <1>13 DEF Shows, SameComponent
<1>15. LocalStays(v, w)
  BY <1>k, <1>5, <1>6, <1>8, <1>10, <1>13 DEF LocalStays, SameComponent
<1>16. SameElsewhere(v, w, e)
  BY <1>1, <1>4, <1>6, <1>10, <1>13 DEF SameElsewhere, SameComponent
<1>17. DOMAIN v.transforms = DOMAIN w.transforms
  BY <1>1, <1>4, <1>10
<1> QED BY <1>10, <1>11, <1>12, <1>14, <1>15, <1>16, <1>17 DEF v

-----------------------------------------------------------------------------
(***************************************************************************)
(* What the records of a snapshot do to a scene, one after the other.      *)
(***************************************************************************)
\* The entity a record is about lives and has a Transform.
Ready(w, r) ==
    /\ NetId(r.id) \in DOMAIN w.entities
    /\ w.entities[NetId(r.id)] \in w.live /\ w.entities[NetId(r.id)] \in DOMAIN w.transforms

\* u is w after some of the records.
Follows(u, w) ==
    /\ IsScene(u) /\ SameEntities(u, w)
    /\ DOMAIN u.transforms = DOMAIN w.transforms
    /\ DOMAIN u.extras \subseteq DOMAIN w.extras \cup DOMAIN w.entities
    /\ u.stores[Text] = w.stores[Text] /\ u.stores[SpriteAnimation] = w.stores[SpriteAnimation]

LEMMA ReadyStays ==
    ASSUME NEW w, NEW u, Follows(u, w), NEW r, Ready(w, r)
    PROVE  Ready(u, r)
BY DEF Follows, Ready, SameEntities

LEMMA FollowsApply ==
    ASSUME NEW w, NEW u, Follows(u, w), NEW r, Ready(w, r)
    PROVE  Follows(ApplyRecord(u, r), w)
<1> DEFINE v == ApplyRecord(u, r)
<1>1. Ready(u, r)
  BY ReadyStays
<1>2. /\ IsScene(v) /\ SameEntities(v, u) /\ LocalStays(v, u)
      /\ DOMAIN v.transforms = DOMAIN u.transforms
      /\ DOMAIN v.extras \subseteq DOMAIN u.extras \cup {NetId(r.id)}
  BY <1>1, ApplyRecordFacts DEF Ready, Follows
<1> HIDE DEF v
<1>3. Follows(v, w)
  BY <1>2 DEF Follows, Ready, SameEntities, LocalStays
<1> QED BY <1>3 DEF v

LEMMA ApplyEachFollows ==
    ASSUME NEW w, IsScene(w), NEW self, NEW n \in Nat, NEW s, DOMAIN s = 1..n,
           \A i \in 1..n : OwnerOf(NetId(s[i].id)) # self => Ready(w, s[i])
    PROVE  Follows(ApplyEach(w, self, s), w)
<1>0. PICK h : Stages(h, self, w, s, n)
  BY FoldSteps
<1>1. /\ h[0] = w
      /\ \A k \in 0..(n - 1) : h[k + 1] = ApplyUnlessOwn(h[k], self, s[k + 1])
      /\ ApplyEach(w, self, s) = h[n]
  BY <1>0 DEF Stages
<1> DEFINE T == {k \in Nat : k <= n => Follows(h[k], w)}
<1>2. 0 \in T
  BY <1>1 DEF Follows, SameEntities
<1>3. ASSUME NEW k \in Nat, k \in T PROVE k + 1 \in T
  <2>1. SUFFICES ASSUME k + 1 <= n PROVE Follows(h[k + 1], w)
    OBVIOUS
  <2>2. k \in 0..(n - 1) /\ k + 1 \in 1..n /\ Follows(h[k], w)
    BY <1>3, <2>1
  <2>3. h[k + 1] = ApplyUnlessOwn(h[k], self, s[k + 1])
    BY <1>1, <2>2
  <2> DEFINE u == h[k]
             r == s[k + 1]
  <2>4. OwnerOf(NetId(r.id)) # self => Ready(w, r)
    BY <2>2
  <2> HIDE DEF u, r
  <2>5. CASE OwnerOf(NetId(r.id)) = self
    BY <2>2, <2>3, <2>5 DEF u, r, ApplyUnlessOwn
  <2>6. CASE OwnerOf(NetId(r.id)) # self
    <3>1. Follows(ApplyRecord(u, r), w)
      BY <2>2, <2>4, <2>6, FollowsApply DEF u
    <3> QED BY <2>3, <2>6, <3>1 DEF u, r, ApplyUnlessOwn
  <2> QED BY <2>5, <2>6
<1> HIDE DEF T
<1>4. Nat \subseteq T
  BY <1>2, <1>3, Induction
<1> QED BY <1>1, <1>4 DEF T

\* A record leaves what another one showed.
LEMMA ShowsStays ==
    ASSUME NEW w, IsScene(w), NEW r, Ready(w, r), NEW q, Shows(w, q),
           NetId(q.id) # NetId(r.id),
           w.entities[NetId(q.id)] # w.entities[NetId(r.id)]
    PROVE  Shows(ApplyRecord(w, r), q)
<1> DEFINE v == ApplyRecord(w, r)
           i == NetId(q.id)
           e == w.entities[i]
<1>1. /\ SameEntities(v, w) /\ SameElsewhere(v, w, w.entities[NetId(r.id)])
      /\ \A j : j # NetId(r.id) => /\ (j \in DOMAIN v.extras) = (j \in DOMAIN w.extras)
                                   /\ j \in DOMAIN w.extras => v.extras[j] = w.extras[j]
  BY ApplyRecordFacts DEF Ready
<1> HIDE DEF v
<1>2. /\ v.entities[i] = e /\ v.transforms[e] = w.transforms[e]
      /\ (i \in DOMAIN v.extras) = (i \in DOMAIN w.extras)
      /\ i \in DOMAIN w.extras => v.extras[i] = w.extras[i]
  BY <1>1 DEF SameEntities, SameElsewhere
<1>3. /\ SameComponent(v, w, RigidBody, e) /\ SameComponent(v, w, Collider, e)
      /\ SameComponent(v, w, Shape, e)
  BY <1>1 DEF SameElsewhere, Kinds
<1>4. Shows(v, q)
  BY <1>2, <1>3 DEF Shows, SameComponent
<1> QED BY <1>4 DEF v

\* When no two records are about one entity, each is shown in the end, and no shape that is
\* overwritten loses its texture.
Alone(w, s, n) ==
    \A i, j \in 1..n : i # j => /\ NetId(s[i].id) # NetId(s[j].id)
                                /\ w.entities[NetId(s[i].id)] # w.entities[NetId(s[j].id)]

LEMMA ApplyEachShows ==
    ASSUME NEW w, IsScene(w), NEW self, NEW n \in Nat, NEW s, DOMAIN s = 1..n,
           \A i \in 1..n : OwnerOf(NetId(s[i].id)) # self /\ Ready(w, s[i]),
           Alone(w, s, n)
    PROVE  LET v == ApplyEach(w, self, s)
           IN  LocalStays(v, w) /\ \A i \in 1..n : Shows(v, s[i])
<1>0. PICK h : Stages(h, self, w, s, n)
  BY FoldSteps
<1>1. /\ h[0] = w
      /\ \A k \in 0..(n - 1) : h[k + 1] = ApplyUnlessOwn(h[k], self, s[k + 1])
      /\ ApplyEach(w, self, s) = h[n]
  BY <1>0 DEF Stages
<1> DEFINE Touched(k) == {w.entities[NetId(s[i].id)] : i \in 1..k}
           Done(u, k) == /\ Follows(u, w) /\ LocalStays(u, w)
                         /\ \A i \in 1..k : Shows(u, s[i])
                         /\ \A e : e \notin Touched(k) => SameComponent(u, w, Shape, e)
           T == {k \in Nat : k <= n => Done(h[k], k)}
<1>2. 0 \in T
  BY <1>1 DEF Follows, SameEntities, LocalStays, SameComponent
<1>3. ASSUME NEW k \in Nat, k \in T PROVE k + 1 \in T
  <2>1. SUFFICES ASSUME k + 1 <= n PROVE Done(h[k + 1], k + 1)
    OBVIOUS
  <2>2. k \in 0..(n - 1) /\ k + 1 \in 1..n /\ Done(h[k], k)
    BY <1>3, <2>1
  <2> DEFINE u == h[k]
             r == s[k + 1]
             d == w.entities[NetId(r.id)]
             v == ApplyRecord(u, r)
  <2>3. h[k + 1] = v
    BY <1>1, <2>2 DEF ApplyUnlessOwn
  <2>4. Ready(w, r) /\ Ready(u, r) /\ u.entities = w.entities /\ IsScene(u)
    BY <2>2, ReadyStays DEF Follows, SameEntities
  <2>5. Follows(v, w)
    BY <2>2, <2>4, FollowsApply
  <2>6. Shows(v, r) /\ LocalStays(v, u) /\ SameElsewhere(v, u, d)
    BY <2>4, ApplyRecordFacts DEF Ready
  <2>7. ASSUME NEW i \in 1..k PROVE Shows(v, s[i])
    <3>1. /\ i \in 1..n /\ i # k + 1 /\ Shows(u, s[i])
      BY <2>2
    <3>2. /\ NetId(s[i].id) # NetId(r.id)
          /\ u.entities[NetId(s[i].id)] # u.entities[NetId(r.id)]
      BY <2>2, <2>4, <3>1 DEF Alone
    <3> QED BY <2>4, <3>1, <3>2, ShowsStays
  <2>8. d \notin Touched(k)
    BY <2>2 DEF Alone
  <2>9. Touched(k + 1) = Touched(k) \cup {d}
    OBVIOUS
  <2> HIDE DEF v, u, d
  <2>10. /\ \A e : e \notin Touched(k) => SameComponent(u, w, Shape, e)
         /\ LocalStays(u, w) /\ Shape \in Kinds
    BY <2>2 DEF u, Kinds
  <2> HIDE DEF Touched
  <2>11. ASSUME NEW e, e \notin Touched(k + 1) PROVE SameComponent(v, w, Shape, e)
    BY <2>6, <2>9, <2>10, <2>11 DEF SameElsewhere, SameComponent
  <2>12. LocalStays(v, w)
    <3>1. ASSUME NEW e, Has(w, Shape, e), Has(v, Shape, e)
          PROVE  Get(v, Shape, e).texture = Get(w, Shape, e).texture
      <4>1. CASE e = d
        BY <2>6, <2>8, <2>10, <3>1, <4>1 DEF LocalStays, SameComponent
      <4>2. CASE e # d
        BY <2>6, <2>10, <3>1, <4>2 DEF LocalStays, SameElsewhere, SameComponent
      <4> QED BY <4>1, <4>2
    <3> QED BY <2>6, <2>10, <3>1 DEF LocalStays
  <2>13. \A i \in 1..(k + 1) : Shows(v, s[i])
    BY <2>6, <2>7
  <2> QED BY <2>3, <2>5, <2>11, <2>12, <2>13
<1> HIDE DEF T
<1>4. Nat \subseteq T
  BY <1>2, <1>3, Induction
<1>5. Done(h[n], n)
  BY <1>4 DEF T
<1> QED BY <1>1, <1>5

-----------------------------------------------------------------------------
(***************************************************************************)
(* apply() as a whole.                                                     *)
(***************************************************************************)
\* The part of a scene that SceneReplicator knows.
Core(w) ==
    [live |-> w.live, nextEntity |-> w.nextEntity, nextLocal |-> w.nextLocal,
     entities |-> w.entities, netIds |-> w.netIds, receivedFrom |-> w.receivedFrom]

SceneInv(w, self, ids, sources) ==
    /\ IsScene(w) /\ WorldInv(Core(w), self, ids, sources)
    /\ DOMAIN w.transforms = w.live

\* Only what lives has components.
StoresLive(w) == \A k \in Kinds : DOMAIN w.stores[k] \subseteq w.live

\* Of these ids, and of the entities they had in w, nothing is left in v.
Forgotten(v, w, ids) ==
    \A id \in ids : /\ id \notin DOMAIN v.entities /\ id \notin DOMAIN v.extras
                    /\ EntityOf(w, id) \cap v.live = {}

LEMMA CoreFacts ==
    ASSUME NEW w, NEW v
    PROVE  SameEntities(v, w) <=> Core(v) = Core(w)
<1>1. SameEntities(v, w) => Core(v) = Core(w)
  BY DEF SameEntities, Core
<1>2. ASSUME Core(v) = Core(w) PROVE SameEntities(v, w)
  <2>1. /\ Core(v).live = Core(w).live /\ Core(v).nextEntity = Core(w).nextEntity
        /\ Core(v).nextLocal = Core(w).nextLocal /\ Core(v).entities = Core(w).entities
        /\ Core(v).netIds = Core(w).netIds /\ Core(v).receivedFrom = Core(w).receivedFrom
    BY <1>2
  <2> QED BY <2>1 DEF SameEntities, Core
<1> QED BY <1>1, <1>2

\* What a snapshot has a new entity for, and what it says of entities there are.
SpawnedInv(v, w, self, ids, sources, new, g) ==
    /\ IsScene(v) /\ WorldInv(Core(v), self, ids, sources)
    /\ v.live = w.live \cup {g[id] : id \in new} /\ v.receivedFrom = w.receivedFrom
    /\ DOMAIN v.entities = DOMAIN w.entities \cup new
    /\ \A id \in new : v.entities[id] = g[id]
    /\ \A id \in DOMAIN w.entities \ new : v.entities[id] = w.entities[id]
    /\ v.transforms = w.transforms /\ v.stores = w.stores /\ v.extras = w.extras

LEMMA SpawnScene ==
    ASSUME NEW w, NEW self, NEW ids, NEW sources, SceneInv(w, self, ids, sources),
           NEW seen, seen \subseteq ids, IsFiniteSet(seen), \A id \in seen : OwnerOf(id) # self,
           NEW g \in Numberings(w, Missing(w, seen))
    PROVE  SpawnedInv(Spawn(w, g), w, self, ids, sources, Missing(w, seen), g)
<1> DEFINE new  == Missing(w, seen)
           v    == Spawn(w, g)
           c    == Core(w)
           made == {g[id] : id \in new}
<1>1. /\ c.live = w.live /\ c.nextEntity = w.nextEntity /\ c.nextLocal = w.nextLocal
      /\ c.entities = w.entities /\ c.netIds = w.netIds /\ c.receivedFrom = w.receivedFrom
  BY DEF Core
<1>2. new \subseteq seen /\ new \subseteq ids /\ IsFiniteSet(new)
  BY FS_Subset DEF Missing
<1>3. g \in Numberings(c, new) /\ \A id \in new : OwnerOf(id) # self
  BY <1>1, <1>2 DEF Numberings
<1>4. WorldInv(Spawn(c, g), self, ids, sources)
  BY <1>2, <1>3, SpawnInv DEF SceneInv
<1>5. DOMAIN g = new
  BY <1>3 DEF Numberings, Injection
<1>6. /\ IsScene(v)
      /\ v.live = w.live \cup made /\ v.receivedFrom = w.receivedFrom
      /\ v.entities = [id \in DOMAIN w.entities \cup new |->
                          IF id \in new THEN g[id] ELSE w.entities[id]]
      /\ v.transforms = w.transforms /\ v.stores = w.stores /\ v.extras = w.extras
      /\ DOMAIN v.netIds = (DOMAIN w.netIds \ ValuesOf(w.entities, new)) \cup made
  BY <1>5, EraseFacts DEF Spawn, SceneInv, IsScene
<1>7. Core(v) = Spawn(c, g)
  <2> DEFINE G(x) == LET kept == Erase(x.netIds, ValuesOf(x.entities, DOMAIN g))
                     IN  [e \in DOMAIN kept \cup {g[id] : id \in DOMAIN g} |->
                             IF \E id \in DOMAIN g : g[id] = e
                             THEN CHOOSE id \in DOMAIN g : g[id] = e ELSE kept[e]]
             F(x) == [id \in DOMAIN x.entities \cup DOMAIN g |->
                         IF id \in DOMAIN g THEN g[id] ELSE x.entities[id]]
             L(x) == x.live \cup {g[id] : id \in DOMAIN g}
             N(x) == x.nextEntity + Cardinality(DOMAIN g)
  <2>1. G(c) = G(w) /\ F(c) = F(w) /\ L(c) = L(w) /\ N(c) = N(w)
    BY <1>1
  <2>2. v = [w EXCEPT !.live = L(w), !.nextEntity = N(w), !.entities = F(w), !.netIds = G(w)]
    BY DEF Spawn
  <2>3. Spawn(c, g) = [c EXCEPT !.live = L(c), !.nextEntity = N(c), !.entities = F(c),
                               !.netIds = G(c)]
    BY DEF Spawn
  <2>4. IsScene(w)
    BY DEF SceneInv
  <2> HIDE DEF v, G, F, L, N
  <2>5. Core(v) = [live |-> L(w), nextEntity |-> N(w), nextLocal |-> w.nextLocal,
                   entities |-> F(w), netIds |-> G(w), receivedFrom |-> w.receivedFrom]
    BY <2>2, <2>4 DEF Core, IsScene
  <2>6. Spawn(c, g) = [live |-> L(w), nextEntity |-> N(w), nextLocal |-> w.nextLocal,
                       entities |-> F(w), netIds |-> G(w), receivedFrom |-> w.receivedFrom]
    BY <2>1, <2>3 DEF Core
  <2> QED BY <2>5, <2>6
<1> HIDE DEF new, v, c
<1>8. SpawnedInv(v, w, self, ids, sources, new, g)
  BY <1>4, <1>6, <1>7 DEF SpawnedInv
<1> QED BY <1>8 DEF new, v

\* What is left of u when the entities of the ids of gone are destroyed.
CleanedUp(v, u, from, seen, gone) ==
    /\ v.live = u.live \ ValuesOf(u.entities, gone)
    /\ v.entities = Erase(u.entities, gone)
    /\ v.netIds = Erase(u.netIds, ValuesOf(u.entities, gone))
    /\ v.receivedFrom = [u.receivedFrom EXCEPT ![from] = seen]
    /\ v.extras = Erase(u.extras, gone)
    /\ \A e \in v.live : v.transforms[e] = u.transforms[e]
    /\ \A kind \in Kinds : /\ DOMAIN v.stores[kind] \subseteq v.live
                           /\ \A e \in v.live : SameComponent(v, u, kind, e)

LEMMA CleanUpFacts ==
    ASSUME NEW u, NEW self, NEW ids, NEW sources,
           IsScene(u), WorldInv(Core(u), self, ids, sources),
           NEW from \in sources, NEW seen, seen \subseteq ids,
           \A id \in seen : OwnerOf(id) # self
    PROVE  LET gone == u.receivedFrom[from] \ seen
               v == EraseComponents([Replace(u, from, seen) EXCEPT !.extras = Erase(@, gone)])
           IN  SceneInv(v, self, ids, sources) /\ CleanedUp(v, u, from, seen, gone)
<1> DEFINE gone == u.receivedFrom[from] \ seen
           r == Replace(u, from, seen)
           x == [r EXCEPT !.extras = Erase(@, gone)]
           v == EraseComponents(x)
           c == Core(u)
<1>1. /\ c.live = u.live /\ c.nextEntity = u.nextEntity /\ c.nextLocal = u.nextLocal
      /\ c.entities = u.entities /\ c.netIds = u.netIds /\ c.receivedFrom = u.receivedFrom
  BY DEF Core
<1>2. WorldInv(Replace(c, from, seen), self, ids, sources)
  BY ReplaceInv
<1> DEFINE L == u.live \ ValuesOf(u.entities, gone)
           F == Erase(u.entities, gone)
           G == Erase(u.netIds, ValuesOf(u.entities, gone))
           R == [u.receivedFrom EXCEPT ![from] = seen]
<1>3. r = [u EXCEPT !.live = L, !.netIds = G, !.entities = F, !.receivedFrom = R]
  BY DEF Replace, Forget, IsScene
<1>4. Replace(c, from, seen) =
         [live |-> L, nextEntity |-> u.nextEntity, nextLocal |-> u.nextLocal,
          entities |-> F, netIds |-> G, receivedFrom |-> R]
  <2>1. Replace(c, from, seen) =
           [c EXCEPT !.live = L, !.netIds = G, !.entities = F, !.receivedFrom = R]
    BY <1>1 DEF Replace, Forget, Core
  <2> HIDE DEF L, F, G, R
  <2> QED BY <2>1 DEF Core
<1> HIDE DEF r, L, F, G, R
<1>5. /\ IsScene(r) /\ r.live = L /\ r.nextEntity = u.nextEntity /\ r.nextLocal = u.nextLocal
      /\ r.entities = F /\ r.netIds = G /\ r.receivedFrom = R
      /\ r.transforms = u.transforms /\ r.stores = u.stores /\ r.extras = u.extras
  BY <1>3 DEF IsScene
<1>6. /\ IsScene(x) /\ SameEntities(x, r)
      /\ x.transforms = u.transforms /\ x.stores = u.stores /\ x.extras = Erase(u.extras, gone)
  BY <1>5 DEF IsScene, SameEntities
<1> HIDE DEF x, gone
<1>7. /\ IsScene(v) /\ SameEntities(v, x) /\ v.extras = x.extras
      /\ v.transforms = [e \in x.live |-> x.transforms[e]]
      /\ v.stores = [k \in Kinds |-> Restrict(x.stores[k], x.live \cap DOMAIN x.stores[k])]
  BY <1>6 DEF EraseComponents, Restrict, IsScene, SameEntities
<1> HIDE DEF v
<1>8. /\ v.live = L /\ v.nextEntity = u.nextEntity /\ v.nextLocal = u.nextLocal
      /\ v.entities = F /\ v.netIds = G /\ v.receivedFrom = R
  BY <1>5, <1>6, <1>7 DEF SameEntities
<1>9. WorldInv(Core(v), self, ids, sources)
  BY <1>2, <1>4, <1>8 DEF Core
<1>10. /\ DOMAIN v.transforms = v.live
       /\ \A e \in v.live : v.transforms[e] = u.transforms[e]
  BY <1>6, <1>7, <1>5 DEF SameEntities
<1>11. ASSUME NEW kind \in Kinds
       PROVE  /\ DOMAIN v.stores[kind] \subseteq v.live
              /\ \A e \in v.live : SameComponent(v, u, kind, e)
  <2>1. v.stores[kind] = [e \in x.live \cap DOMAIN u.stores[kind] |-> u.stores[kind][e]]
    BY <1>6, <1>7 DEF Restrict
  <2>2. x.live = v.live
    BY <1>7 DEF SameEntities
  <2> QED BY <2>1, <2>2 DEF SameComponent, Has, Get
<1>12. v.extras = Erase(u.extras, gone)
  BY <1>6, <1>7
<1>13. SceneInv(v, self, ids, sources)
  BY <1>7, <1>9, <1>10 DEF SceneInv
<1>14. CleanedUp(v, u, from, seen, gone)
  BY <1>8, <1>10, <1>11, <1>12 DEF CleanedUp, L, F, G, R
<1> QED BY <1>13, <1>14 DEF v, x, gone, r

\* createEntity() gives every new entity a Transform.
LEMMA TransformFacts ==
    ASSUME NEW w, IsScene(w)
    PROVE  LET v == GiveTransforms(w)
           IN  /\ IsScene(v) /\ SameEntities(v, w)
               /\ DOMAIN v.transforms = DOMAIN w.transforms \cup w.live
               /\ v.stores = w.stores /\ v.extras = w.extras
BY DEF GiveTransforms, IsScene, SameEntities

\* The ids of a snapshot that are taken, and the scene before the first of its records.
Sent(s)           == {NetId(r.id) : r \in ToSet(s)}
Seen(self, s)     == Accepted(self, Sent(s))
Prepared(w, g)    == GiveTransforms(Spawn(w, g))

LEMMA SeenFacts ==
    ASSUME NEW self, NEW ids, NEW n \in Nat, NEW s, DOMAIN s = 1..n,
           \A i \in 1..n : NetId(s[i].id) \in ids
    PROVE  /\ Seen(self, s) \subseteq ids /\ IsFiniteSet(Seen(self, s))
           /\ \A id \in Seen(self, s) : OwnerOf(id) # self
           /\ \A id : id \in Seen(self, s) <=>
                         \E i \in 1..n : id = NetId(s[i].id) /\ OwnerOf(id) # self
<1> DEFINE f == [i \in 1..n |-> NetId(s[i].id)]
<1>1. Sent(s) = {f[i] : i \in 1..n}
  BY DEF Sent, ToSet
<1>2. f \in Surjection(1..n, Sent(s))
  BY <1>1 DEF Surjection
<1>3. IsFiniteSet(Sent(s))
  BY <1>2, FS_NatSurjection DEF ExistsSurjection
<1>4. Seen(self, s) \subseteq Sent(s)
  BY DEF Seen, Accepted
<1>5. IsFiniteSet(Seen(self, s))
  BY <1>3, <1>4, FS_Subset
<1>6. \A id : id \in Seen(self, s) <=> \E i \in 1..n : id = NetId(s[i].id) /\ OwnerOf(id) # self
  BY <1>1 DEF Seen, Accepted
<1> QED BY <1>5, <1>6

\* Every record of another process is about an entity that lives by then.
LEMMA PreparedFacts ==
    ASSUME NEW w, NEW self, NEW ids, NEW sources, SceneInv(w, self, ids, sources),
           NEW n \in Nat, NEW s, DOMAIN s = 1..n, \A i \in 1..n : NetId(s[i].id) \in ids,
           NEW g \in Numberings(w, NewIds(w, self, s))
    PROVE  LET p == Prepared(w, g)
               new == NewIds(w, self, s)
           IN  /\ IsScene(p) /\ WorldInv(Core(p), self, ids, sources)
               /\ DOMAIN p.transforms = p.live
               /\ \A i \in 1..n : OwnerOf(NetId(s[i].id)) # self => Ready(p, s[i])
               /\ p.live = w.live \cup {g[id] : id \in new} /\ p.receivedFrom = w.receivedFrom
               /\ DOMAIN p.entities = DOMAIN w.entities \cup new
               /\ \A id \in DOMAIN w.entities \ new : p.entities[id] = w.entities[id]
               /\ p.stores = w.stores /\ p.extras = w.extras
               /\ new \subseteq Seen(self, s)
<1> DEFINE seen == Seen(self, s)
           new  == NewIds(w, self, s)
           v    == Spawn(w, g)
           p    == Prepared(w, g)
<1>1. /\ seen \subseteq ids /\ IsFiniteSet(seen) /\ \A id \in seen : OwnerOf(id) # self
      /\ \A id : id \in seen <=> \E i \in 1..n : id = NetId(s[i].id) /\ OwnerOf(id) # self
  BY SeenFacts
<1>2. new = Missing(w, seen)
  BY DEF NewIds, Seen, Sent
<1>3. SpawnedInv(v, w, self, ids, sources, new, g)
  <2> HIDE DEF seen, new, v
  <2>1. g \in Numberings(w, Missing(w, seen))
    BY <1>2 DEF new
  <2>2. SpawnedInv(v, w, self, ids, sources, Missing(w, seen), g)
    BY <1>1, <2>1, SpawnScene DEF v
  <2> QED BY <1>2, <2>2
<1> HIDE DEF v
<1>4. /\ IsScene(p) /\ SameEntities(p, v)
      /\ DOMAIN p.transforms = DOMAIN v.transforms \cup v.live
      /\ p.stores = v.stores /\ p.extras = v.extras
  BY <1>3, TransformFacts DEF Prepared, SpawnedInv, v
<1> HIDE DEF p
<1>5. Core(p) = Core(v)
  BY <1>4, CoreFacts
<1>6. DOMAIN p.transforms = p.live
  BY <1>3, <1>4 DEF SpawnedInv, SceneInv, SameEntities
<1>7. new \subseteq seen
  BY <1>2 DEF Missing
<1>8. ASSUME NEW i \in 1..n, OwnerOf(NetId(s[i].id)) # self PROVE Ready(p, s[i])
  <2> DEFINE id == NetId(s[i].id)
  <2>1. id \in seen
    BY <1>1, <1>8
  <2> HIDE DEF id, seen, new
  <2>2. CASE id \in new
    <3>1. id \in DOMAIN p.entities /\ p.entities[id] = g[id] /\ g[id] \in p.live
      BY <1>3, <1>4, <2>2 DEF SpawnedInv, SameEntities
    <3> QED BY <1>6, <3>1 DEF Ready, id
  <2>3. CASE id \notin new
    <3>1. id \in DOMAIN w.entities /\ w.entities[id] \in w.live
      BY <1>2, <2>1, <2>3 DEF Missing
    <3>2. id \in DOMAIN p.entities /\ p.entities[id] = w.entities[id] /\ p.entities[id] \in p.live
      BY <1>3, <1>4, <2>3, <3>1 DEF SpawnedInv, SameEntities
    <3> QED BY <1>6, <3>2 DEF Ready, id
  <2> QED BY <2>2, <2>3
<1> HIDE DEF new, seen
<1>9. /\ p.live = w.live \cup {g[id] : id \in new} /\ p.receivedFrom = w.receivedFrom
      /\ DOMAIN p.entities = DOMAIN w.entities \cup new
      /\ \A id \in DOMAIN w.entities \ new : p.entities[id] = w.entities[id]
      /\ p.stores = w.stores /\ p.extras = w.extras
  BY <1>3, <1>4 DEF SpawnedInv, SameEntities
<1>10. WorldInv(Core(p), self, ids, sources)
  BY <1>3, <1>5 DEF SpawnedInv
<1> QED BY <1>4, <1>6, <1>7, <1>8, <1>9, <1>10 DEF p, new, seen

\* apply() in its parts.
LEMMA ApplyRecordsIs ==
    ASSUME NEW w, NEW self, NEW s, NEW from, NEW g
    PROVE  LET u    == ApplyEach(Prepared(w, g), self, s)
               seen == Seen(self, s)
           IN  ApplyRecords(w, self, s, from, g) =
                   EraseComponents([Replace(u, from, seen) EXCEPT
                                       !.extras = Erase(@, w.receivedFrom[from] \ seen)])
BY DEF ApplyRecords, Prepared, Seen, Sent

\* A scene stays in order through every snapshot, and what its source sent before and does not
\* send now is gone with its entity, its components and its extra bytes, whoever destroyed,
\* untracked or bound what in between (apply, forget, destroyEntity): whatever records the
\* snapshot has, its own and repeated ones included.
THEOREM NothingIsLeftBehind ==
    ASSUME NEW w, NEW self, NEW ids, NEW sources, SceneInv(w, self, ids, sources),
           NEW n \in Nat, NEW s, DOMAIN s = 1..n, \A i \in 1..n : NetId(s[i].id) \in ids,
           NEW from \in sources,
           NEW g \in Numberings(w, NewIds(w, self, s))
    PROVE  LET v == ApplyRecords(w, self, s, from, g)
           IN  /\ SceneInv(v, self, ids, sources) /\ StoresLive(v)
               /\ v.receivedFrom = [w.receivedFrom EXCEPT ![from] = Seen(self, s)]
               /\ Forgotten(v, w, w.receivedFrom[from] \ Seen(self, s))
<1> DEFINE p    == Prepared(w, g)
           u    == ApplyEach(p, self, s)
           seen == Seen(self, s)
           gone == u.receivedFrom[from] \ seen
           v    == ApplyRecords(w, self, s, from, g)
<1>1. /\ IsScene(p) /\ WorldInv(Core(p), self, ids, sources)
      /\ \A i \in 1..n : OwnerOf(NetId(s[i].id)) # self => Ready(p, s[i])
      /\ p.receivedFrom = w.receivedFrom
      /\ DOMAIN w.entities \subseteq DOMAIN p.entities
      /\ \A id \in DOMAIN w.entities \ seen : p.entities[id] = w.entities[id]
  <2>1. /\ IsScene(p) /\ WorldInv(Core(p), self, ids, sources)
        /\ \A i \in 1..n : OwnerOf(NetId(s[i].id)) # self => Ready(p, s[i])
        /\ p.receivedFrom = w.receivedFrom
        /\ DOMAIN p.entities = DOMAIN w.entities \cup NewIds(w, self, s)
        /\ \A id \in DOMAIN w.entities \ NewIds(w, self, s) : p.entities[id] = w.entities[id]
        /\ NewIds(w, self, s) \subseteq seen
    BY PreparedFacts
  <2> HIDE DEF p, seen
  <2> QED BY <2>1
<1>2. seen \subseteq ids /\ \A id \in seen : OwnerOf(id) # self
  BY SeenFacts
<1> HIDE DEF p, seen
<1>3. Follows(u, p)
  BY <1>1, ApplyEachFollows
<1> HIDE DEF u
<1>4. /\ IsScene(u) /\ Core(u) = Core(p) /\ u.receivedFrom = w.receivedFrom
      /\ u.entities = p.entities
  BY <1>1, <1>3, CoreFacts DEF Follows, SameEntities
<1>5. v = EraseComponents([Replace(u, from, seen) EXCEPT !.extras = Erase(@, gone)])
  BY <1>4, ApplyRecordsIs DEF u, p, seen
<1> HIDE DEF v
<1>6. SceneInv(v, self, ids, sources) /\ CleanedUp(v, u, from, seen, gone)
  BY <1>1, <1>2, <1>4, <1>5, CleanUpFacts
<1>7. gone = w.receivedFrom[from] \ seen
  BY <1>4
<1> HIDE DEF gone
<1>8. StoresLive(v) /\ v.receivedFrom = [w.receivedFrom EXCEPT ![from] = seen]
  BY <1>4, <1>6 DEF CleanedUp, StoresLive
<1>9. Forgotten(v, w, gone)
  <2> SUFFICES ASSUME NEW id \in gone
               PROVE  /\ id \notin DOMAIN v.entities /\ id \notin DOMAIN v.extras
                      /\ EntityOf(w, id) \cap v.live = {}
    BY DEF Forgotten
  <2>1. id \notin DOMAIN v.entities /\ id \notin DOMAIN v.extras
    BY <1>6 DEF CleanedUp, Erase, Restrict
  <2>2. id \in DOMAIN w.entities => w.entities[id] \in ValuesOf(u.entities, gone)
    BY <1>1, <1>4, <1>7 DEF ValuesOf
  <2>3. v.live = u.live \ ValuesOf(u.entities, gone)
    BY <1>6 DEF CleanedUp
  <2> QED BY <2>1, <2>2, <2>3 DEF EntityOf
<1> QED BY <1>6, <1>7, <1>8, <1>9 DEF v, seen

-----------------------------------------------------------------------------
(***************************************************************************)
(* encode(), and both together.                                            *)
(***************************************************************************)
NetIds == Nat \X (0..(Base - 1))

LEMMA NetIdNumbers ==
    ASSUME NEW id \in NetIds
    PROVE  NetId(NetIdNumber(id)) = id
<1>1. /\ id = <<id[1], id[2]>> /\ id[1] \in Nat /\ id[2] \in 0..255
  BY DEF NetIds, Base
<1>2. (id[1] * 256 + id[2]) \div 256 = id[1] /\ (id[1] * 256 + id[2]) % 256 = id[2]
  BY <1>1
<1> QED BY <1>1, <1>2 DEF NetId, NetIdNumber, OwnerOf, LocalOf, Base

LEMMA MaskFacts ==
    ASSUME NEW a \in BOOLEAN, NEW b \in BOOLEAN, NEW c \in BOOLEAN, NEW d \in BOOLEAN,
           NEW mask, mask = HasRigidBody * Bit(a) + HasCollider * Bit(b)
                            + HasShape * Bit(c) + HasExtra * Bit(d)
    PROVE  /\ Holds(mask, HasRigidBody) = a /\ Holds(mask, HasCollider) = b
           /\ Holds(mask, HasShape) = c /\ Holds(mask, HasExtra) = d
BY DEF Holds, Bit, HasRigidBody, HasCollider, HasShape, HasExtra

LEMMA RecordFacts ==
    ASSUME NEW w, NEW id \in NetIds
    PROVE  LET r == Record(w, id)
               e == w.entities[id]
           IN  /\ NetId(r.id) = id /\ r.transform = w.transforms[e]
               /\ Holds(r.mask, HasRigidBody) = Has(w, RigidBody, e)
               /\ Holds(r.mask, HasCollider) = Has(w, Collider, e)
               /\ Holds(r.mask, HasShape) = Has(w, Shape, e)
               /\ Holds(r.mask, HasExtra) = (id \in DOMAIN w.extras)
               /\ Has(w, RigidBody, e) => r.rigidBody = Get(w, RigidBody, e)
               /\ Has(w, Collider, e) => r.collider = Get(w, Collider, e)
               /\ Has(w, Shape, e) => /\ r.shapeSize = Get(w, Shape, e).size
                                      /\ r.shapeColor = Get(w, Shape, e).color
                                      /\ r.shapeTiled = Get(w, Shape, e).tiled
               /\ id \in DOMAIN w.extras => r.extra = w.extras[id]
<1> DEFINE r == Record(w, id)
           e == w.entities[id]
           mask == HasRigidBody * Bit(Has(w, RigidBody, e))
                   + HasCollider * Bit(Has(w, Collider, e))
                   + HasShape * Bit(Has(w, Shape, e)) + HasExtra * Bit(id \in DOMAIN w.extras)
<1> DEFINE moves  == Has(w, RigidBody, e)
           blocks == Has(w, Collider, e)
           looks  == Has(w, Shape, e)
           more   == id \in DOMAIN w.extras
<1>1. moves \in BOOLEAN /\ blocks \in BOOLEAN /\ looks \in BOOLEAN /\ more \in BOOLEAN
  BY DEF Has
<1>2. /\ Holds(mask, HasRigidBody) = moves /\ Holds(mask, HasCollider) = blocks
      /\ Holds(mask, HasShape) = looks /\ Holds(mask, HasExtra) = more
  <2> HIDE DEF moves, blocks, looks, more
  <2>1. mask = HasRigidBody * Bit(moves) + HasCollider * Bit(blocks)
               + HasShape * Bit(looks) + HasExtra * Bit(more)
    BY DEF moves, blocks, looks, more
  <2> HIDE DEF mask
  <2> QED BY <1>1, <2>1, MaskFacts
<1> HIDE DEF mask
<1>3. /\ r.id = NetIdNumber(id) /\ r.transform = w.transforms[e] /\ r.mask = mask
      /\ Has(w, RigidBody, e) => r.rigidBody = Get(w, RigidBody, e)
      /\ Has(w, Collider, e) => r.collider = Get(w, Collider, e)
      /\ Has(w, Shape, e) => /\ r.shapeSize = Get(w, Shape, e).size
                             /\ r.shapeColor = Get(w, Shape, e).color
                             /\ r.shapeTiled = Get(w, Shape, e).tiled
      /\ id \in DOMAIN w.extras => r.extra = w.extras[id]
  BY DEF Record, EntityRecord, mask
<1> QED BY <1>2, <1>3, NetIdNumbers

\* The ids of an owner whose entities live.
Living(w, owner) == {id \in DOMAIN w.entities : OwnerOf(id) = owner /\ w.entities[id] \in w.live}

LEMMA SequenceOfSet ==
    ASSUME NEW S, IsFiniteSet(S)
    PROVE  \E n \in Nat : /\ SetToSeq(S) \in [1..n -> S]
                          /\ \A i, j \in 1..n : SetToSeq(S)[i] = SetToSeq(S)[j] => i = j
                          /\ \A x \in S : \E i \in 1..n : SetToSeq(S)[i] = x
<1> DEFINE n == Cardinality(S)
           f == SetToSeq(S)
<1>1. n \in Nat /\ ExistsBijection(1..n, S)
  BY FS_CardinalityType
<1>2. \E h : h \in [1..n -> S] /\ IsInjective(h)
  BY <1>1 DEF ExistsBijection, Bijection, Injection
<1>3. f \in [1..n -> S] /\ IsInjective(f)
  BY <1>2 DEF SetToSeq
<1>4. f \in Injection(1..n, S)
  BY <1>3 DEF Injection
<1>5. Cardinality(1..n) = n
  BY <1>1, FS_Interval
<1> HIDE DEF f
<1>6. f \in Surjection(1..n, S)
  BY <1>4, <1>5, FS_Injection
<1>7. /\ \A i, j \in 1..n : f[i] = f[j] => i = j
      /\ \A x \in S : \E i \in 1..n : f[i] = x
  BY <1>3, <1>6 DEF IsInjective, Surjection
<1> HIDE DEF n
<1> QED BY <1>1, <1>3, <1>7 DEF f

LEMMA RecordsFacts ==
    ASSUME NEW w, NEW self, DOMAIN w.entities \subseteq NetIds, IsFiniteSet(DOMAIN w.entities)
    PROVE  LET s == Records(w, self, TRUE)
           IN  \E n \in Nat :
                  /\ DOMAIN s = 1..n
                  /\ \A i \in 1..n : /\ NetId(s[i].id) \in Living(w, self)
                                     /\ s[i] = Record(w, NetId(s[i].id))
                  /\ \A i, j \in 1..n : NetId(s[i].id) = NetId(s[j].id) => i = j
                  /\ \A id \in Living(w, self) : \E i \in 1..n : NetId(s[i].id) = id
<1> DEFINE S == Living(w, self)
           order == SetToSeq(S)
           s == Records(w, self, TRUE)
<1>1. s = [i \in DOMAIN order |-> Record(w, order[i])]
  BY DEF Records, Living, HasEntity
<1>2. IsFiniteSet(S) /\ S \subseteq NetIds
  BY FS_Subset DEF Living
<1> HIDE DEF S
<1>3. PICK n \in Nat : /\ order \in [1..n -> S]
                       /\ \A i, j \in 1..n : order[i] = order[j] => i = j
                       /\ \A x \in S : \E i \in 1..n : order[i] = x
  BY <1>2, SequenceOfSet
<1> HIDE DEF order, s
<1>4. DOMAIN s = 1..n
  BY <1>1, <1>3
<1>5. ASSUME NEW i \in 1..n PROVE NetId(s[i].id) = order[i] /\ s[i] = Record(w, order[i])
  BY <1>1, <1>2, <1>3, RecordFacts
<1>6. ASSUME NEW i \in 1..n
      PROVE  NetId(s[i].id) \in S /\ s[i] = Record(w, NetId(s[i].id))
  BY <1>3, <1>5
<1>7. ASSUME NEW i \in 1..n, NEW j \in 1..n, NetId(s[i].id) = NetId(s[j].id) PROVE i = j
  BY <1>3, <1>5, <1>7
<1>8. ASSUME NEW id \in S PROVE \E i \in 1..n : NetId(s[i].id) = id
  BY <1>3, <1>5
<1>9. \E k \in Nat :
         /\ DOMAIN s = 1..k
         /\ \A i \in 1..k : NetId(s[i].id) \in S /\ s[i] = Record(w, NetId(s[i].id))
         /\ \A i, j \in 1..k : NetId(s[i].id) = NetId(s[j].id) => i = j
         /\ \A id \in S : \E i \in 1..k : NetId(s[i].id) = id
  <2> WITNESS n \in Nat
  <2> QED BY <1>4, <1>6, <1>7, <1>8
<1> QED BY <1>9 DEF s, S

\* A scene that shows a record of another one looks the same there.
LEMMA SamePicture ==
    ASSUME NEW v, NEW w, NEW id \in NetIds, Shows(v, Record(w, id))
    PROVE  Picture(v, id) = Picture(w, id)
<1> DEFINE r == Record(w, id)
           d == v.entities[id]
           e == w.entities[id]
<1>1. /\ NetId(r.id) = id /\ r.transform = w.transforms[e]
      /\ Holds(r.mask, HasRigidBody) = Has(w, RigidBody, e)
      /\ Holds(r.mask, HasCollider) = Has(w, Collider, e)
      /\ Holds(r.mask, HasShape) = Has(w, Shape, e)
      /\ Holds(r.mask, HasExtra) = (id \in DOMAIN w.extras)
      /\ Has(w, RigidBody, e) => r.rigidBody = Get(w, RigidBody, e)
      /\ Has(w, Collider, e) => r.collider = Get(w, Collider, e)
      /\ Has(w, Shape, e) => /\ r.shapeSize = Get(w, Shape, e).size
                             /\ r.shapeColor = Get(w, Shape, e).color
                             /\ r.shapeTiled = Get(w, Shape, e).tiled
      /\ id \in DOMAIN w.extras => r.extra = w.extras[id]
  BY RecordFacts
<1> HIDE DEF r
<1>2. Shows(v, r)
  BY DEF r
<1>3. /\ v.transforms[d] = w.transforms[e]
      /\ Get(v, RigidBody, d) = Get(w, RigidBody, e) /\ Get(v, Collider, d) = Get(w, Collider, e)
      /\ ExtraOf(v, id) = ExtraOf(w, id)
  BY <1>1, <1>2 DEF Shows, Has, Get, ExtraOf
<1>4. /\ Has(v, Shape, d) = Has(w, Shape, e)
      /\ Has(w, Shape, e) => /\ Get(v, Shape, d).size = Get(w, Shape, e).size
                             /\ Get(v, Shape, d).color = Get(w, Shape, e).color
                             /\ Get(v, Shape, d).tiled = Get(w, Shape, e).tiled
  BY <1>1, <1>2 DEF Shows
<1>5. (IF Has(v, Shape, d)
       THEN LET s == Get(v, Shape, d) IN <<s.size, s.color, s.tiled>> ELSE <<>>)
      = (IF Has(w, Shape, e)
         THEN LET s == Get(w, Shape, e) IN <<s.size, s.color, s.tiled>> ELSE <<>>)
  BY <1>4
<1> QED BY <1>3, <1>5, Zenon DEF Picture

\* What a world has of an owner is on the list of what that owner sent.
Listed(w, owner) ==
    \A id \in DOMAIN w.entities : OwnerOf(id) = owner => id \in w.receivedFrom[owner]

\* What the receiving process adds to an entity, which no snapshot carries.
LocalKept(v, w) ==
    \A e \in v.live \cap w.live :
        /\ SameComponent(v, w, Text, e) /\ SameComponent(v, w, SpriteAnimation, e)
        /\ Has(v, Shape, e) /\ Has(w, Shape, e) =>
               Get(v, Shape, e).texture = Get(w, Shape, e).texture

LEMMA ShowsKept ==
    ASSUME NEW u, NEW from, NEW seen, NEW gone, NEW v, CleanedUp(v, u, from, seen, gone),
           MutuallyInverse(u.entities, u.netIds),
           NEW id \in DOMAIN u.entities, id \notin gone, u.entities[id] \in u.live
    PROVE  /\ id \in DOMAIN v.entities /\ v.entities[id] = u.entities[id]
           /\ v.entities[id] \in v.live
           /\ \A r : NetId(r.id) = id /\ Shows(u, r) => Shows(v, r)
<1> DEFINE e == u.entities[id]
<1>1. e \notin ValuesOf(u.entities, gone)
  BY DEF MutuallyInverse, ValuesOf
<1>2. id \in DOMAIN v.entities /\ v.entities[id] = e /\ e \in v.live
  BY <1>1 DEF CleanedUp, Erase, Restrict
<1>3. /\ (id \in DOMAIN v.extras) = (id \in DOMAIN u.extras)
      /\ id \in DOMAIN u.extras => v.extras[id] = u.extras[id]
  BY DEF CleanedUp, Erase, Restrict
<1>4. /\ v.transforms[e] = u.transforms[e]
      /\ SameComponent(v, u, RigidBody, e) /\ SameComponent(v, u, Collider, e)
      /\ SameComponent(v, u, Shape, e)
  BY <1>2 DEF CleanedUp, Kinds
<1> HIDE DEF e
<1>5. ASSUME NEW r, NetId(r.id) = id, Shows(u, r) PROVE Shows(v, r)
  <2>1. u.entities[id] = e
    BY DEF e
  <2> QED BY <1>2, <1>3, <1>4, <1>5, <2>1 DEF Shows, SameComponent
<1> QED BY <1>2, <1>5 DEF e

\* Two scenes in which the entities of an owner that live look the same, and one that shows
\* at least those of another.
Alike(v, w, owner)   == Pictures(v, owner) = Pictures(w, owner)
Includes(v, w, owner) ==
    \A id \in Living(w, owner) : id \in Living(v, owner) /\ Picture(v, id) = Picture(w, id)

LEMMA SnapshotMirrored ==
    ASSUME NEW a, NEW sender, NEW sourcesA, SceneInv(a, sender, NetIds, sourcesA),
           IsFiniteSet(DOMAIN a.entities),
           NEW b, NEW self, NEW sourcesB, SceneInv(b, self, NetIds, sourcesB),
           self # sender, sender \in sourcesB,
           NEW g \in Numberings(b, NewIds(b, self, Records(a, sender, TRUE)))
    PROVE  LET v == ApplyRecords(b, self, Records(a, sender, TRUE), sender, g)
           IN  /\ Includes(v, a, sender) /\ LocalKept(v, b)
               /\ SceneInv(v, self, NetIds, sourcesB)
               /\ Seen(self, Records(a, sender, TRUE)) = Living(a, sender)
               /\ Listed(b, sender) => Alike(v, a, sender) /\ Listed(v, sender)
<1> DEFINE s    == Records(a, sender, TRUE)
           new  == NewIds(b, self, s)
           p    == Prepared(b, g)
           u    == ApplyEach(p, self, s)
           seen == Seen(self, s)
           gone == u.receivedFrom[sender] \ seen
           v    == ApplyRecords(b, self, s, sender, g)
<1>1. DOMAIN a.entities \subseteq NetIds
  BY DEF SceneInv, WorldInv, WorldOK, Core
<1>2. PICK n \in Nat :
         /\ DOMAIN s = 1..n
         /\ \A i \in 1..n : /\ NetId(s[i].id) \in Living(a, sender)
                            /\ s[i] = Record(a, NetId(s[i].id))
         /\ \A i, j \in 1..n : NetId(s[i].id) = NetId(s[j].id) => i = j
         /\ \A id \in Living(a, sender) : \E i \in 1..n : NetId(s[i].id) = id
  BY <1>1, RecordsFacts
<1> HIDE DEF s
<1>3. \A i \in 1..n : NetId(s[i].id) \in NetIds /\ OwnerOf(NetId(s[i].id)) # self
  BY <1>1, <1>2 DEF Living
<1>4. /\ seen = Living(a, sender)
      /\ seen \subseteq NetIds /\ \A id \in seen : OwnerOf(id) # self /\ OwnerOf(id) = sender
  <2>1. \A id : id \in seen <=> \E i \in 1..n : id = NetId(s[i].id) /\ OwnerOf(id) # self
    BY <1>2, <1>3, SeenFacts
  <2> HIDE DEF seen
  <2>2. seen = Living(a, sender)
    <3>1. ASSUME NEW id \in seen PROVE id \in Living(a, sender)
      BY <1>2, <2>1
    <3>2. ASSUME NEW id \in Living(a, sender) PROVE id \in seen
      <4>1. PICK i \in 1..n : NetId(s[i].id) = id
        BY <1>2
      <4> QED BY <1>3, <2>1, <4>1
    <3>3. \A id : id \in seen <=> id \in Living(a, sender)
      BY <3>1, <3>2
    <3> HIDE DEF seen
    <3> QED BY <3>3, Zenon
  <2>3. \A id \in seen : OwnerOf(id) = sender
    BY <2>2 DEF Living
  <2> QED BY <1>3, <2>1, <2>2, <2>3
<1>5. /\ IsScene(p) /\ WorldInv(Core(p), self, NetIds, sourcesB)
      /\ \A i \in 1..n : Ready(p, s[i])
      /\ p.live = b.live \cup {g[id] : id \in new} /\ p.receivedFrom = b.receivedFrom
      /\ DOMAIN p.entities = DOMAIN b.entities \cup new /\ p.stores = b.stores
      /\ new \subseteq seen
  <2>1. g \in Numberings(b, NewIds(b, self, s))
    BY DEF s
  <2> QED BY <1>2, <1>3, <2>1, PreparedFacts
<1> HIDE DEF p, seen, new
<1>6. MutuallyInverse(p.entities, p.netIds)
  BY <1>5 DEF WorldInv, Core
<1>7. Alone(p, s, n)
  BY <1>2, <1>5, <1>6 DEF Alone, Ready, MutuallyInverse
<1>8. LocalStays(u, p) /\ \A i \in 1..n : Shows(u, s[i])
  BY <1>2, <1>3, <1>5, <1>7, ApplyEachShows
<1>9. IsScene(u) /\ SameEntities(u, p)
  BY <1>2, <1>5, ApplyEachFollows DEF Follows
<1> HIDE DEF u
<1>10. Core(u) = Core(p) /\ u.receivedFrom = b.receivedFrom
  BY <1>5, <1>9, CoreFacts DEF SameEntities
<1>11. v = EraseComponents([Replace(u, sender, seen) EXCEPT !.extras = Erase(@, gone)])
  BY <1>10, ApplyRecordsIs DEF u, p, seen
<1> HIDE DEF v
<1>12. SceneInv(v, self, NetIds, sourcesB) /\ CleanedUp(v, u, sender, seen, gone)
  BY <1>4, <1>5, <1>9, <1>10, <1>11, CleanUpFacts
<1>13. ASSUME NEW id \in seen
       PROVE  /\ id \in Living(v, sender)
              /\ Picture(v, id) = Picture(a, id)
  <2>1. PICK i \in 1..n : NetId(s[i].id) = id /\ s[i] = Record(a, id)
    BY <1>2, <1>4
  <2>2. /\ id \in DOMAIN u.entities /\ u.entities[id] \in u.live /\ Shows(u, s[i])
        /\ MutuallyInverse(u.entities, u.netIds)
    BY <1>5, <1>6, <1>8, <1>9, <2>1 DEF Ready, SameEntities
  <2>3. /\ id \in DOMAIN v.entities /\ v.entities[id] \in v.live /\ Shows(v, s[i])
    <3>1. id \notin gone
      OBVIOUS
    <3> HIDE DEF gone
    <3> QED BY <1>12, <2>1, <2>2, <3>1, ShowsKept
  <2>4. id \in NetIds /\ OwnerOf(id) = sender
    BY <1>4
  <2>5. Picture(v, id) = Picture(a, id)
    BY <2>1, <2>3, <2>4, SamePicture
  <2> QED BY <2>3, <2>4, <2>5 DEF Living
<1>14. /\ DOMAIN v.entities = DOMAIN u.entities \ gone
       /\ v.receivedFrom = [u.receivedFrom EXCEPT ![sender] = seen]
  BY <1>12 DEF CleanedUp, Erase, Restrict
<1>15. ASSUME Listed(b, sender), NEW id \in DOMAIN v.entities, OwnerOf(id) = sender
       PROVE  id \in seen
  <2>1. id \in DOMAIN p.entities /\ id \notin gone
    BY <1>9, <1>14 DEF SameEntities
  <2>2. CASE id \in DOMAIN b.entities
    BY <1>10, <1>15, <2>1, <2>2 DEF Listed
  <2>3. CASE id \notin DOMAIN b.entities
    BY <1>5, <2>1, <2>3
  <2> QED BY <2>2, <2>3
<1>16. Listed(b, sender) => Living(v, sender) = Living(a, sender)
  BY <1>4, <1>13, <1>15 DEF Living
<1>17. Listed(b, sender) => Pictures(v, sender) = Pictures(a, sender)
  <2>1. /\ Pictures(v, sender) = [id \in Living(v, sender) |-> Picture(v, id)]
        /\ Pictures(a, sender) = [id \in Living(a, sender) |-> Picture(a, id)]
    BY DEF Pictures, Living
  <2>2. \A id \in Living(a, sender) : Picture(v, id) = Picture(a, id)
    BY <1>4, <1>13
  <2> QED BY <1>16, <2>1, <2>2, Zenon
<1>18. Listed(b, sender) => Listed(v, sender)
  <2>1. sender \in DOMAIN u.receivedFrom
    BY <1>10 DEF SceneInv, WorldInv, Core
  <2>2. v.receivedFrom[sender] = seen
    BY <1>14, <2>1
  <2> QED BY <1>15, <2>2 DEF Listed
<1>19. LocalKept(v, b)
  <2> SUFFICES ASSUME NEW e \in v.live \cap b.live
               PROVE  /\ SameComponent(v, b, Text, e) /\ SameComponent(v, b, SpriteAnimation, e)
                      /\ Has(v, Shape, e) /\ Has(b, Shape, e) =>
                             Get(v, Shape, e).texture = Get(b, Shape, e).texture
    BY DEF LocalKept
  <2>1. /\ SameComponent(v, u, Text, e) /\ SameComponent(v, u, SpriteAnimation, e)
        /\ SameComponent(v, u, Shape, e)
    BY <1>12 DEF CleanedUp, Kinds
  <2>2. /\ SameComponent(u, b, Text, e) /\ SameComponent(u, b, SpriteAnimation, e)
        /\ SameComponent(p, b, Shape, e)
    BY <1>5, <1>8 DEF LocalStays, SameComponent, Has, Get
  <2>3. Has(p, Shape, e) /\ Has(u, Shape, e) =>
            Get(u, Shape, e).texture = Get(p, Shape, e).texture
    BY <1>8 DEF LocalStays
  <2> QED BY <2>1, <2>2, <2>3 DEF SameComponent
<1>20. Includes(v, a, sender)
  BY <1>4, <1>13 DEF Includes
<1> QED BY <1>4, <1>12, <1>17, <1>18, <1>19, <1>20 DEF v, s, seen, Alike

\* After a snapshot of all that another process owns, its entities that live there live here and
\* look the same, and no others do unless bind() named an id that was never shown; what is only
\* local stays (encode, apply, encodeOwned).
THEOREM SnapshotIsMirrored ==
    ASSUME NEW a, NEW sender, NEW sourcesA, SceneInv(a, sender, NetIds, sourcesA),
           IsFiniteSet(DOMAIN a.entities),
           NEW b, NEW self, NEW sourcesB, SceneInv(b, self, NetIds, sourcesB),
           self # sender, sender \in sourcesB,
           NEW g \in Numberings(b, NewIds(b, self, Records(a, sender, TRUE)))
    PROVE  LET v == ApplyRecords(b, self, Records(a, sender, TRUE), sender, g)
           IN  /\ Includes(v, a, sender) /\ LocalKept(v, b)
               /\ SceneInv(v, self, NetIds, sourcesB)
               /\ Listed(b, sender) => Pictures(v, sender) = Pictures(a, sender)
                                      /\ Listed(v, sender)
<1>1. ASSUME NEW v, v = ApplyRecords(b, self, Records(a, sender, TRUE), sender, g)
      PROVE  /\ Includes(v, a, sender) /\ LocalKept(v, b)
             /\ SceneInv(v, self, NetIds, sourcesB)
             /\ Listed(b, sender) => Alike(v, a, sender) /\ Listed(v, sender)
  BY <1>1, SnapshotMirrored
<1> QED BY <1>1 DEF Alike

-----------------------------------------------------------------------------
(***************************************************************************)
(* Requests.  What is sent is the encoding of a request, or was cut or     *)
(* grew on its way.                                                        *)
(***************************************************************************)
PacketInv ==
    /\ pairing \in Pairings
    /\ \A r \in requests : r.packet \in Packets(pairing)
    /\ handling # Idle => handling.packet \in Packets(pairing)

LEMMA PrefixCarries ==
    ASSUME NEW s, IsSequence(s), NEW t, IsSequence(t), IsPrefix(s, t) \/ IsPrefix(t, s)
    PROVE  Carries(s, 0, t)
<1>1. PICK S : s \in Seq(S)
  BY DEF IsSequence
<1>2. PICK T : t \in Seq(T)
  BY DEF IsSequence
<1>3. ASSUME NEW j \in 1..Len(t), 0 + j <= Len(s)
      PROVE  s[0 + j] = t[j]
  <2>1. j \in 1..Len(s) /\ Len(s) \in Nat /\ Len(t) \in Nat /\ 0 + j = j
    BY <1>1, <1>2, <1>3
  <2>2. CASE IsPrefix(s, t)
    <3>1. SubSeq(s, 1, Len(s)) = SubSeq(t, 1, Len(s)) /\ Len(s) <= Len(t)
      BY <2>2 DEF IsPrefix
    <3>2. SubSeq(s, 1, Len(s))[j] = s[j] /\ SubSeq(t, 1, Len(s))[j] = t[j]
      BY <1>1, <1>2, <2>1, <3>1
    <3> QED BY <2>1, <3>1, <3>2
  <2>3. CASE IsPrefix(t, s)
    <3>1. SubSeq(t, 1, Len(t)) = SubSeq(s, 1, Len(t)) /\ Len(t) <= Len(s)
      BY <2>3 DEF IsPrefix
    <3>2. SubSeq(t, 1, Len(t))[j] = t[j] /\ SubSeq(s, 1, Len(t))[j] = s[j]
      BY <1>1, <1>2, <2>1, <3>1
    <3> QED BY <2>1, <3>1, <3>2
  <2> QED BY <2>2, <2>3
<1> QED BY <1>3 DEF Carries

LEMMA RepliesAreSequences ==
    /\ \A r \in JoinReplies : IsSequence(EncodeJoinReply(r))
    /\ \A r \in UpdateReplies : IsSequence(EncodeUpdateReply(r))
<1>1. ASSUME NEW r \in JoinReplies PROVE IsSequence(EncodeJoinReply(r))
  BY JoinReplyFits, OrderlyLayouts, PutIsSequence DEF EncodeJoinReply
<1>2. ASSUME NEW r \in UpdateReplies PROVE IsSequence(EncodeUpdateReply(r))
  <2>1. r.messages \in Lists(Messages) /\ r.rosterEvents \in Lists(Events)
    BY DEF UpdateReplies
  <2>2. IsSequence(PutList(r.messages, MessageLayout)) /\ IsSequence(PutList(r.rosterEvents, EventLayout))
    BY <2>1, MessagesFit, EventsFit, PutListIsSequence
  <2>3. Encodable(r, UpdateReplyLayout, 3) /\ Encodable(r, UpdateSceneLayout, 3)
    BY UpdateReplyFits
  <2>4. IsSequence(PutFields(r, UpdateReplyLayout)) /\ IsSequence(PutFields(r, UpdateSceneLayout))
    BY <2>3, OrderlyLayouts, PutIsSequence
  <2> QED BY <2>2, <2>4, JoinFacts DEF EncodeUpdateReply
<1> QED BY <1>1, <1>2

\* A reply is read back whole, and one that was cut short or has bytes after its end is refused:
\* what decodeJoinReply() and decodeUpdateReply() make of the packets of the server.
THEOREM RepliesAreUnderstood ==
    ASSUME NEW data, IsSequence(data)
    PROVE  /\ \A r \in JoinReplies :
                 LET code == EncodeJoinReply(r) IN
                 IsPrefix(data, code) \/ IsPrefix(code, data) =>
                     DecodeJoinReply(data) = IF Len(data) = Len(code) THEN r ELSE NotDecoded
           /\ \A r \in UpdateReplies :
                 LET code == EncodeUpdateReply(r) IN
                 IsPrefix(data, code) \/ IsPrefix(code, data) =>
                     DecodeUpdateReply(data) = IF Len(data) = Len(code) THEN r ELSE NotDecoded
BY RepliesAreSequences, PrefixCarries, JoinReplyDecodes, UpdateReplyDecodes

LEMMA EncodedIsSequence ==
    /\ \A r \in JoinRequests : IsSequence(EncodeJoinRequest(r))
    /\ \A r \in UpdateRequests : IsSequence(EncodeUpdateRequest(r))
<1>1. ASSUME NEW r \in JoinRequests PROVE IsSequence(EncodeJoinRequest(r))
  BY JoinRequestFits, OrderlyLayouts, PutIsSequence DEF EncodeJoinRequest
<1>2. ASSUME NEW r \in UpdateRequests PROVE IsSequence(EncodeUpdateRequest(r))
  <2>1. r.messages \in Lists(Messages)
    BY DEF UpdateRequests
  <2>2. IsSequence(PutList(r.messages, MessageLayout))
    BY <2>1, MessagesFit, PutListIsSequence
  <2>3. Encodable(r, UpdateRequestLayout, 7)
    BY UpdateRequestFits
  <2>4. IsSequence(PutFields(r, UpdateRequestLayout))
    BY <2>3, OrderlyLayouts, PutIsSequence
  <2> QED BY <2>2, <2>4, JoinFacts DEF EncodeUpdateRequest
<1> QED BY <1>1, <1>2

LEMMA PacketDecodes ==
    ASSUME NEW server \in {"join", "update"}, NEW packet, PacketOK(server, packet)
    PROVE  Meaning(server, packet.body) = IF packet.whole THEN packet.record ELSE NotDecoded
<1> DEFINE body == packet.body
           code == Encoded(server, packet.record)
<1>1. /\ packet.record \in IF server = "join" THEN JoinRequests ELSE UpdateRequests
      /\ body \in Seq(0 .. Base - 1)
      /\ IF packet.whole THEN body = code
         ELSE Len(body) # Len(code) /\ (IsPrefix(body, code) \/ IsPrefix(code, body))
  BY DEF PacketOK
<1>2. IsSequence(body) /\ IsSequence(code)
  BY <1>1, EncodedIsSequence DEF IsSequence, Encoded
<1>3. Carries(body, 0, code) /\ (packet.whole <=> Len(body) = Len(code))
  <2>1. CASE packet.whole
    <3>1. \A j \in 1..Len(body) : 0 + j = j
      BY <1>2, SequenceFacts
    <3> QED BY <1>1, <2>1, <3>1 DEF Carries
  <2>2. CASE ~packet.whole
    BY <1>1, <1>2, <2>2, PrefixCarries
  <2> QED BY <2>1, <2>2
<1> HIDE DEF body
<1>4. CASE server = "join"
  <2>1. packet.record \in JoinRequests /\ Carries(body, 0, EncodeJoinRequest(packet.record))
    BY <1>1, <1>3, <1>4 DEF Encoded
  <2>2. DecodeJoinRequest(body)
            = IF Len(body) = Len(EncodeJoinRequest(packet.record)) THEN packet.record ELSE NotDecoded
    BY <1>2, <2>1, JoinRequestDecodes
  <2> QED BY <1>3, <1>4, <2>2 DEF Encoded, Meaning, body
<1>5. CASE server = "update"
  <2>1. packet.record \in UpdateRequests /\ Carries(body, 0, EncodeUpdateRequest(packet.record))
    BY <1>1, <1>3, <1>5 DEF Encoded
  <2>2. DecodeUpdateRequest(body)
            = IF Len(body) = Len(EncodeUpdateRequest(packet.record)) THEN packet.record ELSE NotDecoded
    BY <1>2, <2>1, UpdateRequestDecodes
  <2> QED BY <1>3, <1>5, <2>2 DEF Encoded, Meaning, body
<1> QED BY <1>4, <1>5

LEMMA PacketStep == PacketInv /\ [Next]_vars => PacketInv'
<1> SUFFICES ASSUME PacketInv, [Next]_vars PROVE PacketInv'
  OBVIOUS
<1>1. CASE UNCHANGED <<pairing, requests, handling>>
  BY <1>1 DEF PacketInv
<1>2. ASSUME NEW c \in Callers, SendAny(c) PROVE PacketInv'
  <2>1. PICK packet \in Packets(pairing) : Send(c, packet)
    BY <1>2 DEF SendAny
  <2> QED BY <2>1 DEF Send, PacketInv
<1>3. ASSUME NEW c \in Callers, Receive(c) PROVE PacketInv'
  BY <1>1, <1>3 DEF Receive
<1>4. ASSUME NEW c \in Callers, TimeOut(c) PROVE PacketInv'
  BY <1>4 DEF TimeOut, PacketInv
<1>5. ASSUME NEW t \in Threads, TakeRequest(t) PROVE PacketInv'
  BY <1>5 DEF TakeRequest, ClientUnchanged, PacketInv
<1>6. ASSUME NEW t \in Threads, Handle(t) PROVE PacketInv'
  BY <1>6 DEF Handle, ClientUnchanged, PacketInv
<1>7. ASSUME NEW t \in Threads, Run(t) \/ CheckStop(t) \/ NoRequest(t) \/ LeaveRun(t)
      PROVE  PacketInv'
  BY <1>1, <1>7 DEF Run, CheckStop, NoRequest, LeaveRun, ClientUnchanged
<1>8. CASE Stop
  BY <1>1, <1>8 DEF Stop, ClientUnchanged
<1>9. CASE RequestNext
  BY <1>2, <1>3, <1>4, <1>5, <1>6, <1>7, <1>8, <1>9 DEF RequestNext
<1>10. CASE SubPubNext
  BY <1>1, <1>10 DEF SubPubNext, SubPub, requestVars
<1>11. CASE UNCHANGED vars
  BY <1>1, <1>11 DEF vars, requestVars
<1> QED BY <1>9, <1>10, <1>11 DEF Next

\* Whatever the fields of a request are, the handler decodes what the caller meant; a request
\* that was cut or has more after it is never taken for another
\* (sessionProtocol.hpp:108-244, byteCodec.hpp:46-87).
THEOREM RequestsAreUnderstood == Spec => []OnlyWholePacketsDecode
<1>1. Init => PacketInv
  BY DEF Init, RequestInit, PacketInv
<1>2. PacketInv => OnlyWholePacketsDecode
  <2> SUFFICES ASSUME PacketInv, handling # Idle, pairing.server \in {"join", "update"}
               PROVE  Meaning(pairing.server, handling.packet.body) =
                          IF handling.packet.whole THEN handling.packet.record ELSE NotDecoded
    BY DEF OnlyWholePacketsDecode
  <2>1. PacketOK(pairing.server, handling.packet)
    BY PacketAssumption DEF PacketInv
  <2> QED BY <2>1, PacketDecodes
<1> QED BY <1>1, <1>2, PacketStep, PTL DEF Spec

-----------------------------------------------------------------------------
(***************************************************************************)
(* Snapshots.                                                              *)
(***************************************************************************)
\* A record that can be written: what the mask does not name has its default.
RecordOK(r) ==
    /\ r = [k \in DOMAIN EntityRecord |-> r[k]]
    /\ r.id \in Words /\ r.mask \in 0..255 /\ r.transform \in Words /\ r.rigidBody \in Words
    /\ r.collider \in Words /\ r.shapeSize \in Words /\ r.shapeColor \in Words
    /\ r.shapeTiled \in 0..255 /\ r.extra \in Runs
    /\ ~Holds(r.mask, HasRigidBody) => r.rigidBody = 0
    /\ ~Holds(r.mask, HasCollider) => r.collider = 0
    /\ ~Holds(r.mask, HasShape) => r.shapeSize = 0 /\ r.shapeColor = 0 /\ r.shapeTiled = 0
    /\ ~Holds(r.mask, HasExtra) => r.extra = <<>>

LEMMA EntityNames ==
    /\ EntityLayout = [i \in 1..9 |-> EntityLayout[i]]
    /\ EntityLayout[1].name = "id" /\ EntityLayout[2].name = "mask"
    /\ EntityLayout[3].name = "transform" /\ EntityLayout[4].name = "rigidBody"
    /\ EntityLayout[5].name = "collider" /\ EntityLayout[6].name = "shapeSize"
    /\ EntityLayout[7].name = "shapeColor" /\ EntityLayout[8].name = "shapeTiled"
    /\ EntityLayout[9].name = "extra"
BY DEF EntityLayout, Field, FieldIf

LEMMA EntityForms ==
    /\ EntityLayout[1].form = Wide /\ EntityLayout[2].form = Byte
    /\ EntityLayout[3].form = Wide /\ EntityLayout[4].form = Wide
    /\ EntityLayout[5].form = Wide /\ EntityLayout[6].form = Wide
    /\ EntityLayout[7].form = Wide /\ EntityLayout[8].form = Byte
    /\ EntityLayout[9].form = Counted
BY DEF EntityLayout, Field, FieldIf

LEMMA EntityConditions ==
    /\ EntityLayout[1].of = Always /\ EntityLayout[2].of = Always /\ EntityLayout[3].of = Always
    /\ \A i \in 4..9 : EntityLayout[i].of = "mask"
    /\ EntityLayout[4].in = Masks(HasRigidBody) /\ EntityLayout[5].in = Masks(HasCollider)
    /\ EntityLayout[6].in = Masks(HasShape) /\ EntityLayout[7].in = Masks(HasShape)
    /\ EntityLayout[8].in = Masks(HasShape) /\ EntityLayout[9].in = Masks(HasExtra)
<1>1. /\ EntityLayout[1].of = Always /\ EntityLayout[2].of = Always /\ EntityLayout[3].of = Always
      /\ EntityLayout[4].of = "mask" /\ EntityLayout[5].of = "mask" /\ EntityLayout[6].of = "mask"
      /\ EntityLayout[7].of = "mask" /\ EntityLayout[8].of = "mask" /\ EntityLayout[9].of = "mask"
  BY DEF EntityLayout, Field, FieldIf
<1>2. /\ EntityLayout[4].in = Masks(HasRigidBody) /\ EntityLayout[5].in = Masks(HasCollider)
      /\ EntityLayout[6].in = Masks(HasShape) /\ EntityLayout[7].in = Masks(HasShape)
      /\ EntityLayout[8].in = Masks(HasShape) /\ EntityLayout[9].in = Masks(HasExtra)
  BY DEF EntityLayout, Field, FieldIf
<1>3. \A i \in 4..9 : i = 4 \/ i = 5 \/ i = 6 \/ i = 7 \/ i = 8 \/ i = 9
  OBVIOUS
<1> QED BY <1>1, <1>2, <1>3

LEMMA EntityThere ==
    ASSUME NEW r, r.mask \in 0..255
    PROVE  /\ There(r, EntityLayout[1]) /\ There(r, EntityLayout[2]) /\ There(r, EntityLayout[3])
           /\ There(r, EntityLayout[4]) <=> Holds(r.mask, HasRigidBody)
           /\ There(r, EntityLayout[5]) <=> Holds(r.mask, HasCollider)
           /\ There(r, EntityLayout[6]) <=> Holds(r.mask, HasShape)
           /\ There(r, EntityLayout[7]) <=> Holds(r.mask, HasShape)
           /\ There(r, EntityLayout[8]) <=> Holds(r.mask, HasShape)
           /\ There(r, EntityLayout[9]) <=> Holds(r.mask, HasExtra)
<1>1. \A bit : r.mask \in Masks(bit) <=> Holds(r.mask, bit)
  BY DEF Masks, Base
<1>2. There(r, EntityLayout[1]) /\ There(r, EntityLayout[2]) /\ There(r, EntityLayout[3])
  BY EntityConditions DEF There
<1>3. "mask" # Always
  BY DEF Always
<1>4. ASSUME NEW i \in 4..9 PROVE There(r, EntityLayout[i]) <=> r.mask \in EntityLayout[i].in
  BY <1>3, EntityConditions DEF There
<1>5. 4 \in 4..9 /\ 5 \in 4..9 /\ 6 \in 4..9 /\ 7 \in 4..9 /\ 8 \in 4..9 /\ 9 \in 4..9
  OBVIOUS
<1> QED BY <1>1, <1>2, <1>4, <1>5, EntityConditions

LEMMA OrderlyEntity == Orderly(EntityLayout, 9, DOMAIN EntityRecord) /\ IsRecord(EntityRecord)
<1>1. DOMAIN EntityRecord = {"id", "mask", "transform", "rigidBody", "collider", "shapeSize",
                             "shapeColor", "shapeTiled", "extra"} /\ IsRecord(EntityRecord)
  BY DEF EntityRecord, IsRecord
<1>2. \A i \in 1..9 : i = 1 \/ i = 2 \/ i = 3 \/ i = 4 \/ i = 5 \/ i = 6 \/ i = 7 \/ i = 8 \/ i = 9
  OBVIOUS
<1>3. \A i \in 1..9 : EntityLayout[i].name \in DOMAIN EntityRecord
  BY <1>1, <1>2, EntityNames
<1>4. \A i, j \in 1..9 : EntityLayout[i].name = EntityLayout[j].name => i = j
  BY <1>2, EntityNames
<1>5. ASSUME NEW i \in 1..9, EntityLayout[i].of # Always
      PROVE  \E j \in 1..(i - 1) : /\ EntityLayout[j].name = EntityLayout[i].of
                                   /\ EntityLayout[j].of = Always
  <2>1. i \in 4..9
    BY <1>2, <1>5, EntityConditions
  <2>2. 2 \in 1..(i - 1)
    BY <2>1
  <2> QED BY <2>1, <2>2, EntityConditions, EntityNames
<1> QED BY <1>1, <1>3, <1>4, <1>5, EntityNames DEF Orderly

LEMMA EntityFits ==
    ASSUME NEW r, RecordOK(r)
    PROVE  /\ Encodable(r, EntityLayout, 9)
           /\ Filled(r, EntityLayout, 9, EntityRecord) = r
<1>1. \A i \in 1..9 : i = 1 \/ i = 2 \/ i = 3 \/ i = 4 \/ i = 5 \/ i = 6 \/ i = 7 \/ i = 8 \/ i = 9
  OBVIOUS
<1>2. /\ FitsForm(r.id, Wide) /\ FitsForm(r.mask, Byte) /\ FitsForm(r.transform, Wide)
      /\ FitsForm(r.rigidBody, Wide) /\ FitsForm(r.collider, Wide)
      /\ FitsForm(r.shapeSize, Wide) /\ FitsForm(r.shapeColor, Wide)
      /\ FitsForm(r.shapeTiled, Byte) /\ FitsForm(r.extra, Counted)
  BY ByteFits, WordFits, RunFits DEF RecordOK
<1>3. Encodable(r, EntityLayout, 9)
  <2> SUFFICES ASSUME NEW i \in 1..9
               PROVE  FitsForm(r[EntityLayout[i].name], EntityLayout[i].form)
    BY DEF Encodable
  <2> QED BY <1>1, <1>2, EntityNames, EntityForms
<1> DEFINE f == Filled(r, EntityLayout, 9, EntityRecord)
           names == {"id", "mask", "transform", "rigidBody", "collider", "shapeSize",
                     "shapeColor", "shapeTiled", "extra"}
<1>4. DOMAIN EntityRecord = names /\ f = [k \in names |-> f[k]] /\ r = [k \in names |-> r[k]]
  <2>1. DOMAIN EntityRecord = names
    BY DEF EntityRecord
  <2> QED BY <2>1 DEF Filled, RecordOK
<1>5. \A k \in names :
         f[k] = IF \E j \in 1..9 : EntityLayout[j].name = k /\ There(r, EntityLayout[j])
                THEN r[k] ELSE EntityRecord[k]
  BY <1>4 DEF Filled
<1>6. /\ EntityRecord.rigidBody = 0 /\ EntityRecord.collider = 0 /\ EntityRecord.shapeSize = 0
      /\ EntityRecord.shapeColor = 0 /\ EntityRecord.shapeTiled = 0 /\ EntityRecord.extra = <<>>
  BY DEF EntityRecord
<1> HIDE DEF f
<1>7. r.mask \in 0..255
  BY DEF RecordOK
<1>8. ASSUME NEW k \in names, NEW j \in 1..9, EntityLayout[j].name = k,
             ~There(r, EntityLayout[j]) => r[k] = EntityRecord[k]
      PROVE  f[k] = r[k]
  <2>1. CASE There(r, EntityLayout[j])
    BY <1>5, <1>8, <2>1
  <2>2. CASE ~There(r, EntityLayout[j])
    BY <1>5, <1>8, <2>2
  <2> QED BY <2>1, <2>2
<1>9. f["id"] = r["id"]
  BY <1>8, <1>7, EntityNames, EntityThere
<1>10. f["mask"] = r["mask"]
  BY <1>8, <1>7, EntityNames, EntityThere
<1>11. f["transform"] = r["transform"]
  BY <1>8, <1>7, EntityNames, EntityThere
<1>12. f["rigidBody"] = r["rigidBody"]
  <2>1. ~There(r, EntityLayout[4]) => r.rigidBody = EntityRecord.rigidBody
    BY <1>6, <1>7, EntityThere DEF RecordOK
  <2> QED BY <1>8, <2>1, EntityNames
<1>13. f["collider"] = r["collider"]
  <2>1. ~There(r, EntityLayout[5]) => r.collider = EntityRecord.collider
    BY <1>6, <1>7, EntityThere DEF RecordOK
  <2> QED BY <1>8, <2>1, EntityNames
<1>14. f["shapeSize"] = r["shapeSize"]
  <2>1. ~There(r, EntityLayout[6]) => r.shapeSize = EntityRecord.shapeSize
    BY <1>6, <1>7, EntityThere DEF RecordOK
  <2> QED BY <1>8, <2>1, EntityNames
<1>15. f["shapeColor"] = r["shapeColor"]
  <2>1. ~There(r, EntityLayout[7]) => r.shapeColor = EntityRecord.shapeColor
    BY <1>6, <1>7, EntityThere DEF RecordOK
  <2> QED BY <1>8, <2>1, EntityNames
<1>16. f["shapeTiled"] = r["shapeTiled"]
  <2>1. ~There(r, EntityLayout[8]) => r.shapeTiled = EntityRecord.shapeTiled
    BY <1>6, <1>7, EntityThere DEF RecordOK
  <2> QED BY <1>8, <2>1, EntityNames
<1>17. f["extra"] = r["extra"]
  <2>1. ~There(r, EntityLayout[9]) => r.extra = EntityRecord.extra
    BY <1>6, <1>7, EntityThere DEF RecordOK
  <2> QED BY <1>8, <2>1, EntityNames
<1>18. \A k \in names : f[k] = r[k]
  BY <1>9, <1>10, <1>11, <1>12, <1>13, <1>14, <1>15, <1>16, <1>17
<1> HIDE DEF names
<1> QED BY <1>3, <1>4, <1>18 DEF f

RecordsOK(s, m) ==
    /\ m \in Nat /\ m < Base * Base /\ s = [i \in 1..m |-> s[i]]
    /\ \A i \in 1..m : RecordOK(s[i])

LEMMA RecordsFit ==
    ASSUME NEW s, NEW m, RecordsOK(s, m)
    PROVE  /\ ListFits(s, m, EntityLayout, 9, EntityRecord)
           /\ Elements(s, m, EntityLayout, 9, EntityRecord) = s
<1>1. \A i \in 1..m : /\ Encodable(s[i], EntityLayout, 9)
                      /\ Filled(s[i], EntityLayout, 9, EntityRecord) = s[i]
  BY EntityFits DEF RecordsOK
<1> QED BY <1>1, OrderlyEntity DEF RecordsOK, ListFits, Elements

\* The version and the records, or what the input has of them.
LEMMA BinaryRead ==
    ASSUME NEW v, v \in 0..255, NEW s, NEW m, RecordsOK(s, m),
           NEW b, b = PutScalar(v, Byte) \o PutList(s, EntityLayout),
           NEW data, IsSequence(data), Carries(data, 0, b)
    PROVE  ReadBinary(data) = IF Len(data) = Len(b) /\ v = FormatVersion THEN Read(s)
                              ELSE Malformed
<1> DEFINE base == [version |-> 0, records |-> <<>>]
           layout == <<Field("version", Byte)>>
           start == Reader(data, base)
           q == GetFields(start, layout)
           p == GetList(q, "records", EntityLayout, EntityRecord)
           a == PutScalar(v, Byte)
           c == PutList(s, EntityLayout)
           g == [base EXCEPT !["version"] = v]
           h == [g EXCEPT !["records"] = s]
<1>1. IsRecord(base) /\ IsRecord(g) /\ h.version = v /\ h.records = s
  BY DEF IsRecord
<1>2. /\ ListFits(s, m, EntityLayout, 9, EntityRecord)
      /\ Elements(s, m, EntityLayout, 9, EntityRecord) = s
  BY RecordsFit
<1>3. v \in 0..(IF Byte = Byte THEN Base - 1 ELSE Base * Base - 1) /\ Byte \in {Byte, Wide}
  BY DEF Base
<1>4. IsSequence(a) /\ IsSequence(c)
  BY <1>2, <1>3, ScalarFacts, PutListIsSequence
<1>5. ReadBinary(data) = IF Whole(p) /\ p.got.version = FormatVersion
                         THEN Read(p.got.records) ELSE Malformed
  BY DEF ReadBinary, Once
<1>6. layout = [i \in 1..1 |-> layout[i]] /\ Len(layout) = 1 /\ 1 \in Nat
      /\ layout[1].name = "version" /\ layout[1].form = Byte /\ layout[1].of = Always
  BY DEF Field
<1> HIDE DEF base, g, h
<1>7. Open(start) /\ start.in = data /\ start.pos = 0 /\ start.got = base
  BY <1>1, ReaderOpens
<1> HIDE DEF start, a, c, layout
<1>8. PICK f : FieldStages(f, start, layout, 1)
  BY <1>6, FieldSteps
<1>9. q = GetScalar(start, "version", Byte)
  <2>1. 1 \in 1..1 /\ 1 - 1 = 0
    OBVIOUS
  <2>2. q = f[1] /\ f[1] = GetNext(start, layout[1])
    BY <1>8, <2>1 DEF FieldStages
  <2>3. There(start.got, layout[1])
    BY <1>6 DEF There
  <2>4. GetNext(start, layout[1]) = GetField(start, "version", Byte)
    BY <1>6, <2>3 DEF GetNext
  <2> QED BY <2>2, <2>4 DEF GetField, Byte, Counted, Bool
<1> HIDE DEF q
<1>10. Carries(data, 0, a \o c)
  BY DEF a, c
<1>11. Carries(data, 0, a) /\ Carries(data, 0 + Len(a), c)
  BY <1>4, <1>10, CarriesBoth
<1>12. Gets(q, start, a, g)
  <2>1. Carries(start.in, start.pos, PutScalar(v, Byte))
    BY <1>7, <1>11 DEF a
  <2> QED BY <1>3, <1>7, <1>9, <2>1, ScalarRead DEF a, g
<1>13. Failed(q) => Failed(p)
  BY ListFails
<1>14. ASSUME Open(q) PROVE Gets(p, q, c, h)
  <2>1. q.in = data /\ q.pos = 0 + Len(a) /\ q.got = g
    BY <1>7, <1>12, <1>14, ThenAt
  <2>2. Carries(q.in, q.pos, PutList(s, EntityLayout))
    BY <1>11, <2>1 DEF c
  <2>3. Gets(p, q, PutList(s, EntityLayout),
             [q.got EXCEPT !["records"] = Elements(s, m, EntityLayout, 9, EntityRecord)])
    BY <1>2, <1>14, <2>2, ListRead
  <2> QED BY <1>2, <2>1, <2>3 DEF c, h
<1> HIDE DEF p
<1>15. Gets(p, start, a \o c, h)
  BY <1>1, <1>4, <1>7, <1>12, <1>13, <1>14, GetsBoth
<1>16. b = a \o c /\ IsSequence(a \o c)
  BY <1>4, JoinFacts DEF a, c
<1>17. Gets(p, Reader(data, base), b, h) /\ IsSequence(b)
  BY <1>15, <1>16 DEF start
<1>18. (Whole(p) <=> Len(data) = Len(b)) /\ (Whole(p) => p.got = h)
  BY <1>1, <1>17, WholeOnly
<1> QED BY <1>1, <1>5, <1>18

-----------------------------------------------------------------------------
LEMMA KeysFacts ==
    ASSUME NEW r, RecordOK(r)
    PROVE  /\ RecordKeys(r.mask) = {k \in DOMAIN EntityRecord :
                                       \E j \in 1..9 : /\ EntityLayout[j].name = k
                                                       /\ There(r, EntityLayout[j])}
           /\ "mask" \in RecordKeys(r.mask)
<1> DEFINE d == [mask |-> r.mask]
<1>1. r.mask \in 0..255 /\ d.mask = r.mask
  BY DEF RecordOK
<1> HIDE DEF d
<1>2. \A i \in 1..9 : There(d, EntityLayout[i]) <=> There(r, EntityLayout[i])
  <2>1. \A i \in 1..9 : i = 1 \/ i = 2 \/ i = 3 \/ i \in 4..9
    OBVIOUS
  <2> QED BY <1>1, <2>1, EntityConditions DEF There
<1>3. ToSet(EntityLayout) = {EntityLayout[i] : i \in 1..9}
  BY EntityNames DEF ToSet
<1>4. RecordKeys(r.mask) = {f.name : f \in {x \in ToSet(EntityLayout) : There(d, x)}}
  BY DEF RecordKeys, d
<1>5. \A k : k \in RecordKeys(r.mask) <=>
                 \E j \in 1..9 : EntityLayout[j].name = k /\ There(r, EntityLayout[j])
  BY <1>2, <1>3, <1>4
<1>6. \A j \in 1..9 : EntityLayout[j].name \in DOMAIN EntityRecord
  BY OrderlyEntity DEF Orderly
<1>7. "mask" \in RecordKeys(r.mask)
  BY <1>1, <1>5, EntityNames, EntityThere
<1> QED BY <1>5, <1>6, <1>7

LEMMA ElementTypes ==
    ASSUME NEW S, NEW y \in Seq(S), NEW j \in DOMAIN y
    PROVE  y[j] \in S
<1>1. j \in 1..Len(y)
  OBVIOUS
<1> QED BY <1>1

\* The object of a record, and the record that is read from it.
LEMMA ObjectRead ==
    ASSUME NEW r, RecordOK(r), NEW o, o = Restrict(r, RecordKeys(r.mask))
    PROVE  /\ "mask" \in DOMAIN o /\ o.mask = r.mask
           /\ RecordKeys(o.mask) \subseteq DOMAIN o
           /\ "extra" \in RecordKeys(o.mask) => \A k \in DOMAIN o.extra : o.extra[k] \in 0..255
           /\ [k \in DOMAIN EntityRecord |->
                  IF k \in RecordKeys(o.mask) THEN o[k] ELSE EntityRecord[k]] = r
<1> DEFINE keys == RecordKeys(r.mask)
<1>1. DOMAIN o = keys /\ \A k \in keys : o[k] = r[k]
  BY DEF Restrict
<1>2. "mask" \in keys /\ keys = {k \in DOMAIN EntityRecord :
                                    \E j \in 1..9 : /\ EntityLayout[j].name = k
                                                    /\ There(r, EntityLayout[j])}
  BY KeysFacts
<1> HIDE DEF keys
<1>3. "mask" \in DOMAIN o /\ o.mask = r.mask /\ RecordKeys(o.mask) = keys
  BY <1>1, <1>2 DEF keys
<1>4. ASSUME "extra" \in keys, NEW k \in DOMAIN o.extra PROVE o.extra[k] \in 0..255
  <2>1. o.extra = r.extra /\ r.extra \in Runs
    BY <1>1, <1>4 DEF RecordOK
  <2>2. r.extra \in Seq(0..255)
    BY <2>1 DEF Runs, Base
  <2>3. k \in DOMAIN r.extra
    BY <2>1
  <2>4. r.extra[k] \in 0..255
    BY <2>2, <2>3, ElementTypes
  <2> QED BY <2>1, <2>4
<1> DEFINE x == [k \in DOMAIN EntityRecord |->
                    IF k \in RecordKeys(o.mask) THEN o[k] ELSE EntityRecord[k]]
<1>5. x = [k \in DOMAIN EntityRecord |-> IF k \in keys THEN r[k] ELSE EntityRecord[k]]
  BY <1>1, <1>3
<1>6. x = Filled(r, EntityLayout, 9, EntityRecord)
  <2>1. \A k \in DOMAIN EntityRecord :
           k \in keys <=> \E j \in 1..9 : EntityLayout[j].name = k /\ There(r, EntityLayout[j])
    BY <1>2
  <2> HIDE DEF x
  <2> QED BY <1>5, <2>1 DEF Filled
<1> HIDE DEF x
<1>7. x = r
  BY <1>6, EntityFits
<1> QED BY <1>1, <1>3, <1>4, <1>7 DEF x

JsonOf(s, v) ==
    <<OpenBrace, [v |-> v, e |-> [i \in DOMAIN s |-> Restrict(s[i], RecordKeys(s[i].mask))]]>>

LEMMA JsonRead ==
    ASSUME NEW v, NEW s, NEW m, RecordsOK(s, m)
    PROVE  ReadJson(JsonOf(s, v)) = IF v = FormatVersion THEN Read(s) ELSE Malformed
<1> DEFINE es == [i \in DOMAIN s |-> Restrict(s[i], RecordKeys(s[i].mask))]
           doc == [v |-> v, e |-> es]
           data == JsonOf(s, v)
<1>1. data[2] = doc /\ Len(data) = 2 /\ doc.v = v /\ doc.e = es
  BY DEF JsonOf
<1>2. DOMAIN es = 1..m /\ s = [i \in 1..m |-> s[i]]
  BY DEF RecordsOK
<1>3. \A i \in 1..m : es[i] = Restrict(s[i], RecordKeys(s[i].mask)) /\ RecordOK(s[i])
  BY <1>2 DEF RecordsOK
<1> HIDE DEF es
<1> DEFINE back(o) == [k \in DOMAIN EntityRecord |->
                          IF k \in RecordKeys(o.mask) THEN o[k] ELSE EntityRecord[k]]
<1>4. ASSUME NEW i \in 1..m
      PROVE  /\ "mask" \in DOMAIN es[i] /\ RecordKeys(es[i].mask) \subseteq DOMAIN es[i]
             /\ "extra" \in RecordKeys(es[i].mask) =>
                   \A k \in DOMAIN es[i].extra : es[i].extra[k] \in 0..255
             /\ back(es[i]) = s[i]
  <2>1. PICK r, o : r = s[i] /\ o = es[i]
    OBVIOUS
  <2>2. RecordOK(r) /\ o = Restrict(r, RecordKeys(r.mask))
    BY <1>3, <2>1
  <2>3. /\ "mask" \in DOMAIN o /\ RecordKeys(o.mask) \subseteq DOMAIN o
        /\ "extra" \in RecordKeys(o.mask) => \A k \in DOMAIN o.extra : o.extra[k] \in 0..255
        /\ back(o) = r
    BY ONLY <2>2, ObjectRead
  <2> QED BY ONLY <2>1, <2>3
<1> HIDE DEF data, doc
<1>5. CASE v # FormatVersion
  BY <1>1, <1>5 DEF ReadJson, data
<1>6. CASE v = FormatVersion
  <2>1. ~ \E i \in DOMAIN doc.e :
             \/ "mask" \notin DOMAIN doc.e[i]
             \/ ~(RecordKeys(doc.e[i].mask) \subseteq DOMAIN doc.e[i])
             \/ "extra" \in RecordKeys(doc.e[i].mask)
                /\ \E k \in DOMAIN doc.e[i].extra : doc.e[i].extra[k] \notin 0..255
    BY <1>1, <1>2, <1>4
  <2>2. ReadJson(data) = Read([i \in DOMAIN doc.e |-> back(doc.e[i])])
    BY <1>1, <1>6, <2>1 DEF ReadJson
  <2>3. [i \in DOMAIN doc.e |-> back(doc.e[i])] = [i \in 1..m |-> s[i]]
    <3> HIDE DEF back
    <3> QED BY <1>1, <1>2, <1>4
  <2> QED BY <1>2, <1>6, <2>2, <2>3 DEF data
<1> QED BY <1>5, <1>6

-----------------------------------------------------------------------------
LEMMA CutFacts ==
    ASSUME NEW b, IsSequence(b), NEW n \in 0 .. Len(b) - 1
    PROVE  LET d == SubSeq(b, 1, n)
           IN  /\ IsSequence(d) /\ Len(d) = n /\ Carries(d, 0, b)
               /\ n > 0 => d[1] = b[1]
               /\ n = 0 => d = <<>>
<1> DEFINE d == SubSeq(b, 1, n)
<1>1. PICK S : b \in Seq(S)
  BY DEF IsSequence
<1>2. n \in Nat /\ n < Len(b) /\ Len(b) \in Nat
  BY <1>1
<1>3. d \in Seq(S) /\ Len(d) = n /\ \A j \in 1..n : d[j] = b[j]
  BY <1>1, <1>2
<1>4. n = 0 => d = <<>>
  BY <1>1, <1>2
<1> HIDE DEF d
<1>5. \A j \in 1..Len(b) : 0 + j <= n => 0 + j = j /\ j \in 1..n
  BY <1>2
<1>6. Carries(d, 0, b)
  BY <1>3, <1>5 DEF Carries
<1>7. n > 0 => 1 \in 1..n
  BY <1>2
<1> QED BY <1>3, <1>4, <1>6, <1>7 DEF IsSequence, d

LEMMA LongerFacts ==
    ASSUME NEW b, IsSequence(b), NEW x
    PROVE  LET d == Append(b, x)
           IN  /\ IsSequence(d) /\ Len(d) = Len(b) + 1 /\ Carries(d, 0, b)
               /\ Len(b) > 0 => d[1] = b[1]
<1> DEFINE d == Append(b, x)
<1>1. /\ IsSequence(d) /\ DOMAIN d = 1..(Len(b) + 1) /\ DOMAIN b = 1..Len(b) /\ Len(b) \in Nat
      /\ \A i \in DOMAIN b : d[i] = b[i]
  BY Appended
<1> HIDE DEF d
<1>2. Len(d) = Len(b) + 1
  BY <1>1 DEF IsSequence
<1>3. \A j \in 1..Len(b) : 0 + j = j
  BY <1>1
<1>4. Len(b) > 0 => 1 \in 1..Len(b)
  BY <1>1
<1> QED BY <1>1, <1>2, <1>3, <1>4 DEF Carries, d

LEMMA OneFacts ==
    ASSUME NEW x
    PROVE  IsSequence(<<x>>) /\ Len(<<x>>) = 1 /\ <<x>>[1] = x
<1>1. <<x>> \in Seq({x}) /\ Len(<<x>>) = 1 /\ <<x>>[1] = x
  OBVIOUS
<1> QED BY <1>1 DEF IsSequence

\* A byte in front and the rest after it; then that byte is another.
FirstPart(v, c)     == PutScalar(v, Byte) \o c
WithFirst(b, u) == [b EXCEPT ![1] = u]

LEMMA FirstFacts ==
    ASSUME NEW v, v \in 0..255, NEW u, u \in 0..255, NEW c, IsSequence(c)
    PROVE  /\ IsSequence(FirstPart(v, c)) /\ Len(FirstPart(v, c)) = 1 + Len(c) /\ FirstPart(v, c)[1] = v
           /\ IsSequence(WithFirst(FirstPart(v, c), u))
           /\ Len(WithFirst(FirstPart(v, c), u)) = 1 + Len(c)
           /\ WithFirst(FirstPart(v, c), u)[1] = u
           /\ Carries(WithFirst(FirstPart(v, c), u), 0, FirstPart(u, c))
           /\ Len(FirstPart(u, c)) = 1 + Len(c)
<1> SUFFICES ASSUME NEW b, b = FirstPart(v, c), NEW d, d = WithFirst(b, u)
             PROVE  /\ IsSequence(b) /\ Len(b) = 1 + Len(c) /\ b[1] = v
                    /\ IsSequence(d) /\ Len(d) = 1 + Len(c) /\ d[1] = u
                    /\ Carries(d, 0, FirstPart(u, c))
                    /\ Len(FirstPart(u, c)) = 1 + Len(c)
  OBVIOUS
<1> DEFINE a == PutScalar(v, Byte)
           e == PutScalar(u, Byte)
           f == e \o c
<1>1. /\ a = <<v>> /\ e = <<u>>
  <2>1. \A x \in 0..255 : x % Base = x
    BY DEF Base
  <2>2. a = <<v % Base>> /\ e = <<u % Base>>
    BY DEF PutScalar
  <2> QED BY <2>1, <2>2
<1>2. /\ IsSequence(a) /\ Len(a) = 1 /\ a[1] = v /\ IsSequence(e) /\ Len(e) = 1 /\ e[1] = u
  <2>1. \A x : IsSequence(<<x>>) /\ Len(<<x>>) = 1 /\ <<x>>[1] = x
    BY OneFacts
  <2> HIDE DEF a, e
  <2> QED BY <1>1, <2>1
<1> HIDE DEF a, e, f
<1>s. IsSequence(a) /\ IsSequence(e) /\ IsSequence(c)
  BY <1>2
<1>3. /\ IsSequence(a \o c) /\ Len(a \o c) = 1 + Len(c)
      /\ \A i \in 1..1 : (a \o c)[i] = a[i]
      /\ \A i \in 1..Len(c) : (a \o c)[1 + i] = c[i]
  <2>1. /\ IsSequence(a \o c) /\ Len(a \o c) = Len(a) + Len(c)
        /\ \A i \in 1..Len(a) : (a \o c)[i] = a[i]
        /\ \A i \in 1..Len(c) : (a \o c)[Len(a) + i] = c[i]
    BY <1>s, JoinFacts
  <2> QED BY <1>2, <2>1
<1>4. /\ IsSequence(f) /\ Len(f) = 1 + Len(c)
      /\ \A i \in 1..1 : f[i] = e[i]
      /\ \A i \in 1..Len(c) : f[1 + i] = c[i]
  <2>1. /\ IsSequence(e \o c) /\ Len(e \o c) = Len(e) + Len(c)
        /\ \A i \in 1..Len(e) : (e \o c)[i] = e[i]
        /\ \A i \in 1..Len(c) : (e \o c)[Len(e) + i] = c[i]
    BY <1>s, JoinFacts
  <2>2. f = e \o c
    BY DEF f
  <2> HIDE DEF f
  <2> QED BY <1>2, <2>1, <2>2
<1>5. /\ IsSequence(b) /\ Len(b) = 1 + Len(c) /\ b[1] = v
      /\ \A i \in 1..Len(c) : b[1 + i] = c[i]
  <2>1. b = a \o c /\ 1 \in 1..1
    BY DEF a, FirstPart
  <2> QED BY <1>2, <1>3, <2>1
<1>6. Len(c) \in Nat /\ Len(b) \in Nat /\ b = [i \in 1..Len(b) |-> b[i]]
  BY <1>5, SequenceFacts
<1>7. d = [i \in 1..Len(b) |-> IF i = 1 THEN u ELSE b[i]]
  BY <1>6 DEF WithFirst
<1>8. d = [i \in 1..Len(b) |-> d[i]]
  BY <1>7
<1>9. IsSequence(d) /\ Len(d) = Len(b)
  BY <1>6, <1>8, MakeSequence
<1>10. d[1] = u
  BY <1>5, <1>6, <1>7
<1>11. ASSUME NEW j \in 1..Len(f) PROVE d[0 + j] = f[j]
  <2>1. j \in 1..Len(b) /\ 0 + j = j
    BY <1>4, <1>5, <1>6
  <2>2. CASE j = 1
    BY <1>2, <1>4, <1>10, <2>1, <2>2
  <2>3. CASE j # 1
    <3>1. j - 1 \in 1..Len(c) /\ 1 + (j - 1) = j
      BY <1>4, <1>6, <2>3
    <3>2. f[j] = c[j - 1] /\ b[j] = c[j - 1]
      BY <1>4, <1>5, <3>1
    <3> QED BY <1>7, <2>1, <2>3, <3>2
  <2> QED BY <2>2, <2>3
<1>12. Carries(d, 0, f)
  BY <1>11 DEF Carries
<1>13. f = FirstPart(u, c)
  BY DEF f, e, FirstPart
<1> QED BY <1>4, <1>5, <1>9, <1>10, <1>12, <1>13

\* A snapshot in either format gives back its records; damaged, it gives none.
LEMMA BinarySnapshot ==
    ASSUME NEW s, NEW m, RecordsOK(s, m), NEW p, p = WriteBinary(s)
    PROVE  /\ IsSequence(p) /\ Len(p) = 1 + Len(PutList(s, EntityLayout))
           /\ ReadSnapshot(p) = Read(s)
           /\ \A d \in Damaged(p) : /\ IsSequence(d) /\ Len(d) <= Len(p) + 1
                                    /\ ReadSnapshot(d) = Malformed
<1> DEFINE c == PutList(s, EntityLayout)
<1>1. IsSequence(c) /\ Len(c) \in Nat
  BY RecordsFit, PutListIsSequence, SequenceFacts
<1> HIDE DEF c
<1>2. p = FirstPart(1, c)
  BY DEF WriteBinary, FormatVersion, c, FirstPart
<1>3. 1 \in 0..255 /\ 2 \in 0..255 /\ 1 # OpenBrace /\ 2 # OpenBrace
  BY DEF OpenBrace
<1>4. IsSequence(p) /\ Len(p) = 1 + Len(c) /\ p[1] = 1
  BY <1>1, <1>2, <1>3, FirstFacts
<1>5. \A d : (d = <<>> \/ d[1] # OpenBrace) => ReadSnapshot(d) = ReadBinary(d)
  BY DEF ReadSnapshot
<1>6. ASSUME NEW d, IsSequence(d), Carries(d, 0, p), d = <<>> \/ d[1] = p[1]
      PROVE  ReadSnapshot(d) = IF Len(d) = Len(p) THEN Read(s) ELSE Malformed
  <2>1. ReadBinary(d) = IF Len(d) = Len(p) /\ 1 = FormatVersion THEN Read(s) ELSE Malformed
    BY <1>2, <1>3, <1>6, BinaryRead DEF c, FirstPart
  <2> QED BY <1>3, <1>4, <1>5, <1>6, <2>1 DEF FormatVersion
<1>7. ReadSnapshot(p) = Read(s)
  <2>1. Len(p) \in Nat
    BY <1>4, SequenceFacts
  <2>2. \A j \in 1..Len(p) : 0 + j = j
    BY <2>1
  <2>3. Carries(p, 0, p)
    BY <2>2 DEF Carries
  <2> QED BY <1>4, <1>6, <2>3
<1>8. ASSUME NEW n \in 0 .. Len(p) - 1
      PROVE  LET d == SubSeq(p, 1, n)
             IN  IsSequence(d) /\ Len(d) <= Len(p) + 1 /\ ReadSnapshot(d) = Malformed
  <2> DEFINE d == SubSeq(p, 1, n)
  <2>1. /\ IsSequence(d) /\ Len(d) = n /\ Carries(d, 0, p)
        /\ n > 0 => d[1] = p[1]
        /\ n = 0 => d = <<>>
    BY <1>4, CutFacts
  <2> HIDE DEF d
  <2>2. d = <<>> \/ d[1] = p[1]
    BY <2>1
  <2>3. ReadSnapshot(d) = IF Len(d) = Len(p) THEN Read(s) ELSE Malformed
    BY <1>6, <2>1, <2>2
  <2>4. Len(d) # Len(p) /\ Len(d) <= Len(p) + 1
    BY <1>1, <1>4, <2>1
  <2> QED BY <2>1, <2>3, <2>4 DEF d
<1>9. LET d == Append(p, 0)
      IN  IsSequence(d) /\ Len(d) <= Len(p) + 1 /\ ReadSnapshot(d) = Malformed
  <2> DEFINE d == Append(p, 0)
  <2>1. /\ IsSequence(d) /\ Len(d) = Len(p) + 1 /\ Carries(d, 0, p)
        /\ Len(p) > 0 => d[1] = p[1]
    BY <1>4, LongerFacts
  <2> HIDE DEF d
  <2>2. d[1] = p[1] /\ Len(d) # Len(p) /\ Len(d) <= Len(p) + 1
    BY <1>1, <1>4, <2>1
  <2>3. ReadSnapshot(d) = IF Len(d) = Len(p) THEN Read(s) ELSE Malformed
    BY <1>6, <2>1, <2>2
  <2> QED BY <2>1, <2>2, <2>3 DEF d
<1>10. LET d == WithFirst(p, 2)
       IN  IsSequence(d) /\ Len(d) <= Len(p) + 1 /\ ReadSnapshot(d) = Malformed
  <2> DEFINE d == WithFirst(p, 2)
             b == FirstPart(2, c)
  <2>1. /\ IsSequence(d) /\ Len(d) = 1 + Len(c) /\ d[1] = 2
        /\ Carries(d, 0, b) /\ Len(b) = 1 + Len(c)
    BY <1>1, <1>2, <1>3, FirstFacts
  <2>2. Len(d) <= Len(p) + 1
    BY <1>1, <1>4, <2>1
  <2> HIDE DEF d, b
  <2>b. b = PutScalar(2, Byte) \o PutList(s, EntityLayout)
    BY DEF b, c, FirstPart
  <2>3. ReadBinary(d) = IF Len(d) = Len(b) /\ 2 = FormatVersion THEN Read(s) ELSE Malformed
    BY <1>3, <2>1, <2>b, BinaryRead
  <2>4. ReadSnapshot(d) = ReadBinary(d)
    BY <1>3, <1>5, <2>1
  <2> QED BY <2>1, <2>2, <2>3, <2>4 DEF d, FormatVersion
<1>11. Head(p) # OpenBrace
  BY <1>3, <1>4
<1>12. Damaged(p) = {SubSeq(p, 1, n) : n \in 0 .. Len(p) - 1} \cup {Append(p, 0)}
                    \cup {WithFirst(p, 2)}
  BY <1>11 DEF Damaged, WithFirst
<1> QED BY <1>4, <1>7, <1>8, <1>9, <1>10, <1>12 DEF c

LEMMA SequenceHead ==
    ASSUME NEW d, IsSequence(d), Len(d) > 0
    PROVE  d # <<>> /\ Head(d) = d[1]
<1>1. PICK S : d \in Seq(S)
  BY DEF IsSequence
<1> QED BY <1>1

LEMMA PairFacts ==
    ASSUME NEW x, NEW y, NEW p, p = <<x, y>>
    PROVE  IsSequence(p) /\ Len(p) = 2 /\ p # <<>> /\ Head(p) = x /\ p[1] = x /\ p[2] = y
<1>1. /\ <<x, y>> \in Seq({x, y}) /\ Len(<<x, y>>) = 2
      /\ <<x, y>>[1] = x /\ <<x, y>>[2] = y
  OBVIOUS
<1>2. IsSequence(p) /\ Len(p) = 2 /\ p[1] = x /\ p[2] = y
  BY <1>1 DEF IsSequence
<1>3. p # <<>> /\ Head(p) = p[1]
  BY <1>2, SequenceHead
<1> QED BY <1>2, <1>3

LEMMA NothingRead == ReadSnapshot(<<>>) = Malformed
<1> SUFFICES ASSUME NEW y, y = <<>> PROVE ReadSnapshot(y) = Malformed
  OBVIOUS
<1>1. IsSequence(y) /\ Len(y) = 0
  BY Nothing
<1> SUFFICES ASSUME NEW m, m = 0, NEW v, v = 1, NEW x, x = FirstPart(v, PutList(y, EntityLayout))
             PROVE  ReadSnapshot(y) = Malformed
  OBVIOUS
<1>2. RecordsOK(y, m)
  BY WideBase DEF RecordsOK
<1>3. v \in 0..255
  OBVIOUS
<1>4. IsSequence(PutList(y, EntityLayout)) /\ Len(PutList(y, EntityLayout)) \in Nat
  BY <1>2, RecordsFit, PutListIsSequence, SequenceFacts
<1>5. Len(x) = 1 + Len(PutList(y, EntityLayout))
  BY <1>3, <1>4, FirstFacts
<1>6. Len(x) # 0 /\ Len(x) \in Nat
  BY <1>4, <1>5
<1>7. Carries(y, 0, x)
  BY <1>1, <1>6 DEF Carries
<1>8. x = PutScalar(v, Byte) \o PutList(y, EntityLayout)
  BY DEF FirstPart
<1>9. ReadBinary(y) = IF Len(y) = Len(x) /\ v = FormatVersion THEN Read(y) ELSE Malformed
  BY <1>1, <1>2, <1>3, <1>7, <1>8, BinaryRead
<1> QED BY <1>1, <1>6, <1>9 DEF ReadSnapshot

LEMMA OtherVersion ==
    ASSUME NEW es, NEW x
    PROVE  [<<x, [v |-> 1, e |-> es]>> EXCEPT ![2].v = 2] = <<x, [v |-> 2, e |-> es]>>
<1>1. [[v |-> 1, e |-> es] EXCEPT !.v = 2] = [v |-> 2, e |-> es]
  OBVIOUS
<1> DEFINE a == [v |-> 1, e |-> es]
           b == [v |-> 2, e |-> es]
<1>2. [a EXCEPT !.v = 2] = b
  BY <1>1
<1>4. [<<x, a>> EXCEPT ![2].v = 2] = [<<x, a>> EXCEPT ![2] = [a EXCEPT !.v = 2]]
  OBVIOUS
<1> HIDE DEF a, b
<1>3. [<<x, a>> EXCEPT ![2] = b] = <<x, b>>
  OBVIOUS
<1> QED BY <1>2, <1>3, <1>4 DEF a, b

LEMMA JsonSnapshot ==
    ASSUME NEW s, NEW m, RecordsOK(s, m), NEW p, p = WriteJson(s)
    PROVE  /\ IsSequence(p) /\ Len(p) = 2
           /\ ReadSnapshot(p) = Read(s)
           /\ \A d \in Damaged(p) : /\ IsSequence(d) /\ Len(d) <= 3
                                    /\ ReadSnapshot(d) = Malformed
<1> DEFINE es == [i \in DOMAIN s |-> Restrict(s[i], RecordKeys(s[i].mask))]
           doc == [v |-> 1, e |-> es]
<1>1. p = JsonOf(s, 1) /\ p = <<OpenBrace, doc>>
  BY DEF WriteJson, JsonOf, FormatVersion
<1>e. JsonOf(s, 2) = <<OpenBrace, [v |-> 2, e |-> es]>>
  BY DEF JsonOf
<1> HIDE DEF es
<1>d. [p EXCEPT ![2].v = 2] = <<OpenBrace, [v |-> 2, e |-> es]>>
  <2>1. p = <<OpenBrace, [v |-> 1, e |-> es]>>
    BY <1>1
  <2> HIDE DEF doc
  <2> QED BY <2>1, OtherVersion
<1> HIDE DEF doc
<1>2. Len(p) = 2 /\ p[1] = OpenBrace /\ p[2] = doc /\ Head(p) = OpenBrace /\ p # <<>>
  BY <1>1, PairFacts
<1>3. IsSequence(p)
  BY <1>1, PairFacts
<1>4. \A d : d # <<>> /\ Head(d) = OpenBrace => ReadSnapshot(d) = ReadJson(d)
  BY DEF ReadSnapshot
<1>5. ReadSnapshot(p) = Read(s)
  <2>1. p # <<>>
    BY <1>2
  <2>2. ReadJson(p) = Read(s)
    BY <1>1, JsonRead DEF FormatVersion
  <2> QED BY <1>2, <1>4, <2>1, <2>2
<1>6. ReadSnapshot(<<>>) = Malformed
  BY NothingRead
<1>7. ASSUME NEW d, IsSequence(d), Len(d) = 1 \/ Len(d) = 3, d[1] = OpenBrace
      PROVE  ReadSnapshot(d) = Malformed /\ Len(d) <= 3
  <2>1. d # <<>> /\ Head(d) = OpenBrace /\ Len(d) # 2 /\ Len(d) <= 3
    <3>1. \A n : n = 1 \/ n = 3 => n > 0 /\ n # 2 /\ n <= 3
      OBVIOUS
    <3>2. Len(d) > 0 /\ Len(d) # 2 /\ Len(d) <= 3
      BY <1>7, <3>1
    <3> QED BY <1>7, <3>2, SequenceHead
  <2>2. ReadJson(d) = Malformed
    BY <2>1 DEF ReadJson
  <2> QED BY <1>4, <2>1, <2>2
<1>8. ASSUME NEW n \in 0 .. 1, NEW d, d = SubSeq(p, 1, n)
      PROVE  IsSequence(d) /\ Len(d) <= 3 /\ ReadSnapshot(d) = Malformed
  <2>0. n \in 0 .. Len(p) - 1
    BY <1>2
  <2>1. /\ IsSequence(d) /\ Len(d) = n
        /\ n > 0 => d[1] = p[1]
        /\ n = 0 => d = <<>>
    BY <1>3, <1>8, <2>0, CutFacts
  <2>2. CASE n = 0
    BY <1>6, <2>1, <2>2
  <2>3. CASE n = 1
    <3>1. Len(d) = 1 /\ d[1] = OpenBrace
      BY <1>2, <2>1, <2>3
    <3> QED BY <1>7, <2>1, <3>1
  <2> QED BY <2>2, <2>3
<1>9. ASSUME NEW d, d = Append(p, 0)
      PROVE  IsSequence(d) /\ Len(d) <= 3 /\ ReadSnapshot(d) = Malformed
  <2>1. IsSequence(d) /\ Len(d) = Len(p) + 1 /\ (Len(p) > 0 => d[1] = p[1])
    BY <1>3, <1>9, LongerFacts
  <2>2. Len(d) = 3 /\ d[1] = OpenBrace
    BY <1>2, <2>1
  <2> QED BY <1>7, <2>1, <2>2
<1>10. ASSUME NEW d, d = [p EXCEPT ![2].v = 2]
       PROVE  IsSequence(d) /\ Len(d) <= 3 /\ ReadSnapshot(d) = Malformed
  <2> DEFINE x == [v |-> 2, e |-> es]
  <2>2. d = <<OpenBrace, x>> /\ d = JsonOf(s, 2)
    BY <1>d, <1>e, <1>10
  <2>3. ReadJson(d) = Malformed
    BY <2>2, JsonRead DEF FormatVersion
  <2> HIDE DEF x
  <2>4. IsSequence(d) /\ Len(d) = 2 /\ d # <<>> /\ Head(d) = OpenBrace
    BY <2>2, PairFacts
  <2>5. ReadSnapshot(d) = Malformed
    BY <1>4, <2>3, <2>4
  <2> QED BY <2>4, <2>5
<1>11. Damaged(p) = {SubSeq(p, 1, n) : n \in 0 .. Len(p) - 1} \cup {Append(p, 0)}
                    \cup {[p EXCEPT ![2].v = 2]}
  BY <1>2 DEF Damaged
<1>12. 0 .. Len(p) - 1 = 0..1
  BY <1>2
<1> QED BY <1>2, <1>3, <1>5, <1>8, <1>9, <1>10, <1>11, <1>12

\* A snapshot is read back as it was written, in either format; a binary one that was cut short
\* or has bytes after its end is refused, and so is another version of either format: what
\* readBinary() and readJson() make of the packets of encodeOwned() and encodeAll().
THEOREM SnapshotsAreUnderstood ==
    ASSUME NEW n \in Nat, NEW records, RecordsOK(records, n)
    PROVE  /\ \A style : ReadSnapshot(WriteSnapshot(style, records)) = Read(records)
           /\ \A data :
                 LET code == WriteBinary(records) IN
                 /\ IsSequence(data)
                 /\ IsPrefix(data, code) \/ IsPrefix(code, data)
                 => ReadSnapshot(data) = IF Len(data) = Len(code) THEN Read(records)
                                         ELSE Malformed
           /\ \A version \in 0..255 \ {FormatVersion} :
                 /\ ReadJson(JsonOf(records, version)) = Malformed
                 /\ ReadBinary(FirstPart(version, PutList(records, EntityLayout))) = Malformed
<1>1. ReadSnapshot(WriteBinary(records)) = Read(records)
  BY BinarySnapshot
<1>2. ReadSnapshot(WriteJson(records)) = Read(records)
  BY JsonSnapshot
<1>3. \A style : ReadSnapshot(WriteSnapshot(style, records)) = Read(records)
  BY <1>1, <1>2 DEF WriteSnapshot
<1> DEFINE c == PutList(records, EntityLayout)
           p == WriteBinary(records)
<1>4. IsSequence(c) /\ Len(c) \in Nat
  BY RecordsFit, PutListIsSequence, SequenceFacts
<1>5. 1 \in 0..255 /\ 2 \in 0..255 /\ FormatVersion = 1 /\ 1 # OpenBrace
  BY DEF FormatVersion, OpenBrace
<1>6. p = FirstPart(1, c)
  BY DEF WriteBinary, FormatVersion, FirstPart
<1> HIDE DEF c
<1>7. IsSequence(p) /\ Len(p) = 1 + Len(c) /\ p[1] = 1
  <2> HIDE DEF p
  <2> QED BY <1>4, <1>5, <1>6, FirstFacts
<1>8. ASSUME NEW data, IsSequence(data), IsPrefix(data, p) \/ IsPrefix(p, data)
      PROVE  ReadSnapshot(data) = IF Len(data) = Len(p) THEN Read(records) ELSE Malformed
  <2>1. Carries(data, 0, p)
    BY <1>7, <1>8, PrefixCarries
  <2>2. p = PutScalar(1, Byte) \o PutList(records, EntityLayout)
    BY <1>6 DEF FirstPart, c
  <2>3. ReadBinary(data) = IF Len(data) = Len(p) THEN Read(records) ELSE Malformed
    <3> HIDE DEF p
    <3>1. ReadBinary(data) = IF Len(data) = Len(p) /\ 1 = FormatVersion THEN Read(records)
                             ELSE Malformed
      BY <1>5, <1>8, <2>1, <2>2, BinaryRead
    <3> QED BY <1>5, <3>1
  <2>4. data = <<>> \/ data[1] = 1
    <3> HIDE DEF p
    <3>1. Len(data) \in Nat /\ (Len(data) = 0 => data = <<>>)
      BY <1>8 DEF IsSequence
    <3>2. 1 \in 1..Len(p) /\ 0 + 1 = 1
      BY <1>4, <1>7
    <3>3. 0 + 1 <= Len(data) => data[0 + 1] = p[1]
      BY <2>1, <3>2 DEF Carries
    <3> QED BY <1>7, <3>1, <3>3
  <2>5. ReadSnapshot(data) = ReadBinary(data)
    BY <1>5, <2>4 DEF ReadSnapshot
  <2> QED BY <2>3, <2>5
<1>9. ASSUME NEW version \in 0..255 \ {FormatVersion}
      PROVE  /\ ReadJson(JsonOf(records, version)) = Malformed
             /\ ReadBinary(FirstPart(version, PutList(records, EntityLayout))) = Malformed
  <2> DEFINE b == FirstPart(version, c)
  <2>1. ReadJson(JsonOf(records, version)) = Malformed
    BY <1>9, JsonRead
  <2>2. b = PutScalar(version, Byte) \o PutList(records, EntityLayout) /\ IsSequence(b)
    BY <1>4, <1>9, FirstFacts DEF FirstPart, c
  <2> HIDE DEF b
  <2>3. Carries(b, 0, b)
    <3>1. \A j \in 1..Len(b) : 0 + j = j
      BY <2>2 DEF IsSequence
    <3> QED BY <3>1 DEF Carries
  <2>4. ReadBinary(b) = IF Len(b) = Len(b) /\ version = FormatVersion THEN Read(records)
                        ELSE Malformed
    BY <1>9, <2>2, <2>3, BinaryRead
  <2> QED BY <1>9, <2>1, <2>4 DEF b, c
<1> QED BY <1>3, <1>8, <1>9

-----------------------------------------------------------------------------
(***************************************************************************)
(* How long a snapshot is.                                                 *)
(***************************************************************************)
LEMMA PiecesBound ==
    ASSUME NEW all, NEW c, NEW parts, NEW n \in Nat, Pieces(all, c, parts, n), NEW most \in Nat,
           \A i \in 1..n : Len(parts[i]) \in Nat /\ Len(parts[i]) <= most
    PROVE  Len(all) \in Nat /\ Len(all) <= most * n
<1> DEFINE T == {i \in Nat : i <= n => c[i] <= most * i}
<1>1. /\ c \in [0..n -> Nat] /\ c[0] = 0 /\ Len(all) = c[n]
      /\ \A i \in 1..n : c[i] = c[i - 1] + Len(parts[i])
  BY DEF Pieces
<1>2. 0 \in T
  BY <1>1
<1>3. ASSUME NEW k \in Nat, k \in T PROVE k + 1 \in T
  <2>1. ASSUME k + 1 <= n PROVE c[k + 1] <= most * (k + 1)
    <3>1. k + 1 \in 1..n /\ k <= n /\ (k + 1) - 1 = k /\ c[k] \in Nat
      BY <1>1, <2>1
    <3>2. c[k + 1] = c[k] + Len(parts[k + 1]) /\ Len(parts[k + 1]) <= most
          /\ Len(parts[k + 1]) \in Nat /\ c[k] <= most * k
      BY <1>1, <1>3, <3>1
    <3>3. most * (k + 1) = most * k + most /\ most * k \in Int
      OBVIOUS
    <3> QED BY <3>1, <3>2, <3>3
  <2> QED BY <2>1
<1> HIDE DEF T
<1>4. Nat \subseteq T
  BY <1>2, <1>3, Induction
<1> QED BY <1>1, <1>4 DEF T

LEMMA WideLength ==
    ASSUME NEW n \in Nat, n < Base * Base
    PROVE  IsSequence(PutScalar(n, Wide)) /\ Len(PutScalar(n, Wide)) = 2
<1>1. n \in 0..(Base * Base - 1)
  BY WideBase
<1>2. Wide \in {Byte, Wide} /\ Wide = 2 /\ Wide # Byte
  BY DEF Wide, Byte
<1>3. n \in 0..(IF Wide = Byte THEN Base - 1 ELSE Base * Base - 1)
  BY <1>1, <1>2
<1>4. IsSequence(PutScalar(n, Wide)) /\ Len(PutScalar(n, Wide)) = Wide
  BY <1>2, <1>3, ScalarFacts
<1> QED BY <1>2, <1>4

LEMMA BytesLength ==
    ASSUME NEW x, IsSequence(x), Len(x) < Base * Base
    PROVE  Len(PutBytes(x)) = 2 + Len(x)
<1> DEFINE a == PutScalar(Len(x), Wide)
<1>1. Len(x) \in Nat
  BY SequenceFacts
<1>2. IsSequence(a) /\ Len(a) = 2
  BY <1>1, WideLength
<1> HIDE DEF a
<1>3. Len(a \o x) = Len(a) + Len(x)
  BY <1>2, JoinFacts
<1>4. PutBytes(x) = a \o x
  BY DEF PutBytes, a
<1> QED BY <1>2, <1>3, <1>4

\* A record whose extra bytes are few.
Short(r) == RecordOK(r) /\ Len(r.extra) <= 2

LEMMA EntityLength ==
    ASSUME NEW r, Short(r)
    PROVE  LET b == PutFields(r, EntityLayout) IN Len(b) \in Nat /\ Len(b) <= 36
<1> DEFINE parts == FieldParts(r, EntityLayout)
           b == PutFields(r, EntityLayout)
<1>1. Encodable(r, EntityLayout, 9) /\ EntityLayout = [i \in 1..9 |-> EntityLayout[i]]
  BY EntityFits, EntityNames DEF Short
<1>2. PICK c : Pieces(b, c, parts, 9)
  BY <1>1, PutFieldsFacts
<1>3. ASSUME NEW i \in 1..9 PROVE Len(parts[i]) \in Nat /\ Len(parts[i]) <= 4
  <2> DEFINE v == r[EntityLayout[i].name]
  <2>1. CASE ~There(r, EntityLayout[i])
    <3>1. parts[i] = <<>>
      BY <1>1, <2>1 DEF FieldParts
    <3> QED BY <3>1, Nothing
  <2>2. CASE There(r, EntityLayout[i])
    <3>1. parts[i] = PutField(v, EntityLayout[i].form)
      BY <1>1, <2>2 DEF FieldParts
    <3>2. FitsForm(v, EntityLayout[i].form)
      BY <1>1, <2>2 DEF Encodable
    <3> HIDE DEF parts
    <3>3. CASE i # 9
      <4>1. EntityLayout[i].form = Byte \/ EntityLayout[i].form = Wide
        BY <3>3, EntityForms
      <4> DEFINE form == EntityLayout[i].form
      <4> HIDE DEF form, v
      <4>2. form \in {Byte, Wide} /\ PutField(v, form) = PutScalar(v, form)
        BY <4>1 DEF form, PutField, Byte, Wide, Counted, Bool
      <4>3. v \in 0..(IF form = Byte THEN Base - 1 ELSE Base * Base - 1)
        BY <3>2, <4>2 DEF form, FitsForm, Byte, Wide, Counted, Bool
      <4>4. Len(PutScalar(v, form)) = form
        BY <4>2, <4>3, ScalarFacts
      <4> QED BY <3>1, <4>2, <4>4 DEF form, Byte, Wide
    <3>4. CASE i = 9
      <4>1. EntityLayout[i].form = Counted /\ v = r.extra
        BY <3>4, EntityForms, EntityNames
      <4>2. \A x : PutField(x, Counted) = PutBytes(x)
        BY DEF PutField, Counted, Bool
      <4>3. r.extra \in Runs /\ Len(r.extra) <= 2
        BY DEF Short, RecordOK
      <4>4. IsSequence(r.extra) /\ Len(r.extra) \in Nat /\ Len(r.extra) < Base * Base
        BY <4>3 DEF Runs, IsSequence
      <4>5. Len(PutBytes(r.extra)) = 2 + Len(r.extra)
        BY <4>4, BytesLength
      <4> HIDE DEF v
      <4> QED BY <3>1, <4>1, <4>2, <4>3, <4>4, <4>5
    <3> QED BY <3>3, <3>4
  <2> QED BY <2>1, <2>2
<1> HIDE DEF parts, b
<1>4. Len(b) \in Nat /\ Len(b) <= 4 * 9
  BY <1>2, <1>3, PiecesBound
<1> QED BY <1>4 DEF b

LEMMA ListLength ==
    ASSUME NEW s, NEW m, RecordsOK(s, m), m <= 256, \A i \in 1..m : Short(s[i])
    PROVE  LET b == PutList(s, EntityLayout) IN Len(b) \in Nat /\ Len(b) <= 10000
<1> DEFINE parts == ElementParts(s, EntityLayout)
           all == FlattenSeq(parts)
           a == PutScalar(m, Wide)
<1>1. m \in Nat /\ s = [i \in 1..m |-> s[i]]
  BY DEF RecordsOK
<1>2. ListFits(s, m, EntityLayout, 9, EntityRecord)
  BY RecordsFit
<1>3. /\ PutList(s, EntityLayout) = a \o all
      /\ \E c : Pieces(all, c, parts, m) /\ c[m] >= m
  BY <1>2, PutListFacts
<1>4. \A i \in 1..m : Len(parts[i]) \in Nat /\ Len(parts[i]) <= 36
  BY <1>1, EntityLength DEF ElementParts
<1> HIDE DEF parts, all
<1>5. Len(all) \in Nat /\ Len(all) <= 36 * m /\ IsSequence(all)
  <2>1. PICK c : Pieces(all, c, parts, m)
    BY <1>3
  <2>2. IsSequence(all)
    BY <2>1 DEF Pieces
  <2> QED BY <1>1, <1>4, <2>1, <2>2, PiecesBound
<1>6. IsSequence(a) /\ Len(a) = 2
  <2>1. m < Base * Base
    BY <1>1, WideBase
  <2> QED BY <1>1, <2>1, WideLength
<1> HIDE DEF a
<1>7. Len(a \o all) = Len(a) + Len(all)
  BY <1>5, <1>6, JoinFacts
<1> QED BY <1>1, <1>3, <1>5, <1>6, <1>7

\* What a peer makes of a snapshot, and of one that was damaged.
LEMMA SnapshotRead ==
    ASSUME NEW s, NEW m, RecordsOK(s, m), m <= 256, \A i \in 1..m : Short(s[i]),
           NEW fmt, NEW p, p = WriteSnapshot(fmt, s)
    PROVE  /\ IsSequence(p) /\ Len(p) < Base * Base /\ ReadSnapshot(p) = Read(s)
           /\ \A d \in Damaged(p) : /\ IsSequence(d) /\ Len(d) < Base * Base
                                    /\ ReadSnapshot(d) = Malformed
<1>1. CASE fmt = "Json"
  <2>1. p = WriteJson(s)
    BY <1>1 DEF WriteSnapshot
  <2>2. /\ IsSequence(p) /\ Len(p) = 2 /\ ReadSnapshot(p) = Read(s)
        /\ \A d \in Damaged(p) : IsSequence(d) /\ Len(d) <= 3 /\ ReadSnapshot(d) = Malformed
    BY <2>1, JsonSnapshot
  <2>3. \A d : IsSequence(d) /\ Len(d) <= 3 => Len(d) < Base * Base
    <3>1. \A d : IsSequence(d) => Len(d) \in Nat
      BY SequenceFacts
    <3> QED BY <3>1, WideBase
  <2>4. Len(p) < Base * Base
    BY <2>2, WideBase
  <2> QED BY <2>2, <2>3, <2>4
<1>2. CASE fmt # "Json"
  <2>1. p = WriteBinary(s)
    BY <1>2 DEF WriteSnapshot
  <2>2. /\ IsSequence(p) /\ Len(p) = 1 + Len(PutList(s, EntityLayout)) /\ ReadSnapshot(p) = Read(s)
        /\ \A d \in Damaged(p) : /\ IsSequence(d) /\ Len(d) <= Len(p) + 1
                                 /\ ReadSnapshot(d) = Malformed
    BY <2>1, BinarySnapshot
  <2>3. Len(PutList(s, EntityLayout)) \in Nat /\ Len(PutList(s, EntityLayout)) <= 10000
    BY ListLength
  <2>4. Len(p) \in Nat /\ Len(p) <= 10001
    BY <2>2, <2>3
  <2>5. \A d : IsSequence(d) /\ Len(d) <= Len(p) + 1 => Len(d) < Base * Base
    <3>1. \A d : IsSequence(d) => Len(d) \in Nat
      BY SequenceFacts
    <3> QED BY <2>4, <3>1, WideBase
  <2>6. Len(p) < Base * Base
    BY <2>4, WideBase
  <2> QED BY <2>2, <2>5, <2>6
<1> QED BY <1>1, <1>2

-----------------------------------------------------------------------------
(***************************************************************************)
(* The sender's scene.  What its snapshots are made of fits their fields.  *)
(***************************************************************************)
Valued(w) ==
    /\ \A e \in w.live : w.transforms[e] \in Words
    /\ \A e \in DOMAIN w.stores[RigidBody] : w.stores[RigidBody][e] \in Words
    /\ \A e \in DOMAIN w.stores[Collider] : w.stores[Collider][e] \in Words
    /\ \A e \in DOMAIN w.stores[Shape] : w.stores[Shape][e] \in Shapes
    /\ \A id \in DOMAIN w.extras : w.extras[id] \in Extras

SenderOK(w) ==
    /\ SceneInv(w, Sender, NetIds, {Sender}) /\ Valued(w)
    /\ \A id \in DOMAIN w.entities : OwnerOf(id) = Sender
    /\ w.nextLocal < w.nextEntity /\ w.nextEntity <= Base + 1

LEMMA RecordFields ==
    ASSUME NEW w, NEW id
    PROVE  LET r == Record(w, id)
               e == w.entities[id]
           IN  /\ r = [k \in DOMAIN EntityRecord |-> r[k]]
               /\ r.id = NetIdNumber(id)
               /\ r.mask = HasRigidBody * Bit(Has(w, RigidBody, e))
                           + HasCollider * Bit(Has(w, Collider, e))
                           + HasShape * Bit(Has(w, Shape, e)) + HasExtra * Bit(id \in DOMAIN w.extras)
               /\ ~Has(w, RigidBody, e) => r.rigidBody = 0
               /\ ~Has(w, Collider, e) => r.collider = 0
               /\ ~Has(w, Shape, e) => r.shapeSize = 0 /\ r.shapeColor = 0 /\ r.shapeTiled = 0
               /\ id \notin DOMAIN w.extras => r.extra = <<>>
<1> DEFINE r == Record(w, id)
           e == w.entities[id]
<1>1. r = [k \in DOMAIN EntityRecord |-> r[k]]
  BY ZenonT(30) DEF Record
<1>2. /\ r.id = NetIdNumber(id)
      /\ r.mask = HasRigidBody * Bit(Has(w, RigidBody, e))
                  + HasCollider * Bit(Has(w, Collider, e))
                  + HasShape * Bit(Has(w, Shape, e)) + HasExtra * Bit(id \in DOMAIN w.extras)
  BY DEF Record, EntityRecord
<1>3. /\ ~Has(w, RigidBody, e) => r.rigidBody = 0
      /\ ~Has(w, Collider, e) => r.collider = 0
  BY DEF Record, EntityRecord
<1>4. ~Has(w, Shape, e) => r.shapeSize = 0 /\ r.shapeColor = 0 /\ r.shapeTiled = 0
  BY DEF Record, EntityRecord
<1>5. id \notin DOMAIN w.extras => r.extra = <<>>
  BY DEF Record, EntityRecord
<1> QED BY <1>1, <1>2, <1>3, <1>4, <1>5

LEMMA MaskRange ==
    ASSUME NEW a \in BOOLEAN, NEW b \in BOOLEAN, NEW c \in BOOLEAN, NEW d \in BOOLEAN
    PROVE  HasRigidBody * Bit(a) + HasCollider * Bit(b) + HasShape * Bit(c) + HasExtra * Bit(d)
               \in 0..255
BY DEF Bit, HasRigidBody, HasCollider, HasShape, HasExtra

LEMMA NumberIsWord ==
    ASSUME NEW n \in Nat, n < 65536
    PROVE  n \in Words
<1>1. n \in 0..(Base * Base - 1)
  BY WideBase
<1> QED BY <1>1 DEF Words

LEMMA NumberFits ==
    ASSUME NEW id \in NetIds, OwnerOf(id) = Sender
    PROVE  NetIdNumber(id) \in Words
<1>1. id[1] = Sender /\ id[2] \in 0..255 /\ Sender \in 0..255
  BY ReplicationAssumption DEF NetIds, OwnerOf, Base
<1>2. PICK a \in 0..255, b \in 0..255 : a = id[1] /\ b = id[2]
  BY <1>1, Zenon
<1> DEFINE x == NetIdNumber(id)
<1>3. x = a * 256 + b
  BY <1>2 DEF NetIdNumber, OwnerOf, LocalOf, Base
<1> HIDE DEF x
<1>4. x \in Nat /\ x < 65536
  BY <1>3
<1>5. x \in Words
  BY <1>4, NumberIsWord
<1> QED BY <1>5 DEF x

LEMMA ExtrasFit ==
    ASSUME NEW x \in Extras
    PROVE  x \in Runs /\ Len(x) <= 2
<1>1. <<>> \in Seq(0..255) /\ Len(<<>>) = 0
  OBVIOUS
<1>2. <<123, 7>> \in Seq(0..255) /\ Len(<<123, 7>>) = 2
  OBVIOUS
<1>3. x = <<>> \/ x = <<123, 7>>
  BY DEF Extras, OpenBrace
<1>4. x \in Seq(0..255) /\ (Len(x) = 0 \/ Len(x) = 2)
  BY <1>1, <1>2, <1>3
<1> DEFINE n == Len(x)
<1>5. n = 0 \/ n = 2
  BY <1>4
<1> HIDE DEF n
<1>6. n <= 2 /\ n < Base * Base
  BY <1>5, WideBase
<1>7. Base - 1 = 255
  BY DEF Base
<1> QED BY <1>4, <1>6, <1>7 DEF Runs, n

LEMMA RecordIsShort ==
    ASSUME NEW w, SenderOK(w), NEW id \in Living(w, Sender)
    PROVE  Short(Record(w, id))
<1> DEFINE r == Record(w, id)
           e == w.entities[id]
<1>1. id \in NetIds /\ id \in DOMAIN w.entities /\ OwnerOf(id) = Sender /\ e \in w.live
  BY DEF SenderOK, SceneInv, WorldInv, WorldOK, Core, Living
<1>2. /\ r.transform = w.transforms[e]
      /\ Holds(r.mask, HasRigidBody) = Has(w, RigidBody, e)
      /\ Holds(r.mask, HasCollider) = Has(w, Collider, e)
      /\ Holds(r.mask, HasShape) = Has(w, Shape, e)
      /\ Holds(r.mask, HasExtra) = (id \in DOMAIN w.extras)
      /\ Has(w, RigidBody, e) => r.rigidBody = Get(w, RigidBody, e)
      /\ Has(w, Collider, e) => r.collider = Get(w, Collider, e)
      /\ Has(w, Shape, e) => /\ r.shapeSize = Get(w, Shape, e).size
                             /\ r.shapeColor = Get(w, Shape, e).color
                             /\ r.shapeTiled = Get(w, Shape, e).tiled
      /\ id \in DOMAIN w.extras => r.extra = w.extras[id]
  BY <1>1, RecordFacts
<1>3. /\ r = [k \in DOMAIN EntityRecord |-> r[k]]
      /\ r.id = NetIdNumber(id)
      /\ r.mask = HasRigidBody * Bit(Has(w, RigidBody, e))
                  + HasCollider * Bit(Has(w, Collider, e))
                  + HasShape * Bit(Has(w, Shape, e)) + HasExtra * Bit(id \in DOMAIN w.extras)
      /\ ~Has(w, RigidBody, e) => r.rigidBody = 0
      /\ ~Has(w, Collider, e) => r.collider = 0
      /\ ~Has(w, Shape, e) => r.shapeSize = 0 /\ r.shapeColor = 0 /\ r.shapeTiled = 0
      /\ id \notin DOMAIN w.extras => r.extra = <<>>
  BY RecordFields
<1> HIDE DEF r, e
<1>4. /\ w.transforms[e] \in Words
      /\ Has(w, RigidBody, e) => Get(w, RigidBody, e) \in Words
      /\ Has(w, Collider, e) => Get(w, Collider, e) \in Words
      /\ Has(w, Shape, e) => Get(w, Shape, e) \in Shapes
      /\ id \in DOMAIN w.extras => w.extras[id] \in Extras
  BY <1>1 DEF SenderOK, Valued, Has, Get
<1>5. 0 \in Words /\ 300 \in Words /\ 2 \in Words /\ <<>> \in Extras
  BY WideBase DEF Words, Extras
<1>6. r.id \in Words
  BY <1>1, <1>3, NumberFits
<1>7. r.mask \in 0..255
  <2> DEFINE a == Has(w, RigidBody, e)
             b == Has(w, Collider, e)
             c == Has(w, Shape, e)
             d == id \in DOMAIN w.extras
  <2>1. a \in BOOLEAN /\ b \in BOOLEAN /\ c \in BOOLEAN /\ d \in BOOLEAN
    BY DEF Has
  <2>2. r.mask = HasRigidBody * Bit(a) + HasCollider * Bit(b) + HasShape * Bit(c)
                 + HasExtra * Bit(d)
    BY <1>3
  <2> HIDE DEF a, b, c, d
  <2>3. HasRigidBody * Bit(a) + HasCollider * Bit(b) + HasShape * Bit(c) + HasExtra * Bit(d)
            \in 0..255
    BY <2>1, MaskRange
  <2> QED BY <2>2, <2>3
<1>8. r.transform \in Words /\ r.rigidBody \in Words /\ r.collider \in Words
  BY <1>2, <1>3, <1>4, <1>5
<1>9. r.shapeSize \in Words /\ r.shapeColor \in Words /\ r.shapeTiled \in 0..255
  <2>1. \A s \in Shapes : s.size = 300 /\ s.color = 2 /\ s.tiled = 1
    BY DEF Shapes
  <2>2. CASE Has(w, Shape, e)
    <3>1. r.shapeSize = 300 /\ r.shapeColor = 2 /\ r.shapeTiled = 1
      BY <1>2, <1>4, <2>1, <2>2
    <3> QED BY <1>5, <3>1
  <2>3. CASE ~Has(w, Shape, e)
    BY <1>3, <1>5, <2>3
  <2> QED BY <2>2, <2>3
<1>10. r.extra \in Extras
  BY <1>2, <1>3, <1>4, <1>5
<1>11. r.extra \in Runs /\ Len(r.extra) <= 2
  BY <1>10, ExtrasFit
<1>12. /\ ~Holds(r.mask, HasRigidBody) => r.rigidBody = 0
       /\ ~Holds(r.mask, HasCollider) => r.collider = 0
       /\ ~Holds(r.mask, HasShape) => r.shapeSize = 0 /\ r.shapeColor = 0 /\ r.shapeTiled = 0
       /\ ~Holds(r.mask, HasExtra) => r.extra = <<>>
  BY <1>2, <1>3
<1>13. RecordOK(r)
  BY <1>3, <1>6, <1>7, <1>8, <1>9, <1>11, <1>12 DEF RecordOK
<1> QED BY <1>11, <1>13 DEF Short, r

\* An owner has as many local numbers as fit a byte.
LEMMA OwnFinite ==
    ASSUME NEW S, S \subseteq NetIds, \A id \in S : OwnerOf(id) = Sender
    PROVE  IsFiniteSet(S) /\ Cardinality(S) <= 256
<1> DEFINE f == [id \in S |-> LocalOf(id)]
<1>1. f \in [S -> 0..255]
  BY DEF NetIds, LocalOf, Base
<1>2. ASSUME NEW x \in S, NEW y \in S, f[x] = f[y] PROVE x = y
  <2>1. x = <<x[1], x[2]>> /\ y = <<y[1], y[2]>>
    BY DEF NetIds
  <2> QED BY <1>2, <2>1 DEF OwnerOf, LocalOf
<1>3. IsFiniteSet(0..255) /\ Cardinality(0..255) = 256
  <2>1. PICK a \in Int, b \in Int : a = 0 /\ b = 255
    OBVIOUS
  <2>2. IsFiniteSet(a..b) /\ Cardinality(a..b) = IF a > b THEN 0 ELSE b - a + 1
    BY ONLY FS_Interval
  <2> QED BY ONLY <2>1, <2>2
<1> HIDE DEF f
<1>4. f \in Injection(S, 0..255)
  BY <1>1, <1>2 DEF Injection, IsInjective
<1> QED BY <1>3, <1>4, FS_Injection

LEMMA OwnedRecords ==
    ASSUME NEW w, SenderOK(w)
    PROVE  LET s == Records(w, Sender, TRUE)
           IN  \E m : RecordsOK(s, m) /\ m <= 256 /\ \A i \in 1..m : Short(s[i])
<1> DEFINE s == Records(w, Sender, TRUE)
<1>1. DOMAIN w.entities \subseteq NetIds
  BY DEF SenderOK, SceneInv, WorldInv, WorldOK, Core
<1>2. IsFiniteSet(DOMAIN w.entities)
  BY <1>1, OwnFinite DEF SenderOK
<1>3. Living(w, Sender) \subseteq NetIds /\ \A id \in Living(w, Sender) : OwnerOf(id) = Sender
  BY <1>1 DEF Living
<1>4. IsFiniteSet(Living(w, Sender)) /\ Cardinality(Living(w, Sender)) <= 256
  BY <1>3, OwnFinite
<1>5. PICK n \in Nat :
         /\ DOMAIN s = 1..n
         /\ \A i \in 1..n : /\ NetId(s[i].id) \in Living(w, Sender)
                            /\ s[i] = Record(w, NetId(s[i].id))
         /\ \A i, j \in 1..n : NetId(s[i].id) = NetId(s[j].id) => i = j
  BY <1>1, <1>2, RecordsFacts
<1>6. s = [i \in DOMAIN s |-> s[i]]
  BY DEF Records
<1> HIDE DEF s
<1>7. s = [i \in 1..n |-> s[i]]
  BY <1>5, <1>6
<1>8. n <= 256
  <2> DEFINE f == [i \in 1..n |-> NetId(s[i].id)]
  <2>1. f \in [1..n -> Living(w, Sender)] /\ \A i, j \in 1..n : f[i] = f[j] => i = j
    BY <1>5
  <2> HIDE DEF f
  <2>2. f \in Injection(1..n, Living(w, Sender))
    BY <2>1 DEF Injection, IsInjective
  <2>3. Cardinality(1..n) <= Cardinality(Living(w, Sender))
    BY <1>4, <2>2, FS_Injection
  <2>4. Cardinality(1..n) = n
    BY FS_Interval
  <2>5. Cardinality(Living(w, Sender)) \in Nat
    BY <1>4, FS_CardinalityType
  <2> QED BY <1>4, <2>3, <2>4, <2>5
<1>9. \A i \in 1..n : Short(s[i])
  <2> SUFFICES ASSUME NEW i \in 1..n PROVE Short(s[i])
    OBVIOUS
  <2>1. NetId(s[i].id) \in Living(w, Sender) /\ s[i] = Record(w, NetId(s[i].id))
    BY <1>5
  <2>2. Short(Record(w, NetId(s[i].id)))
    BY <2>1, RecordIsShort
  <2> QED BY <2>1, <2>2
<1>10. n < Base * Base
  BY <1>8, WideBase
<1>11. RecordsOK(s, n)
  BY <1>7, <1>9, <1>10 DEF RecordsOK, Short
<1> QED BY <1>8, <1>9, <1>11 DEF s

LEMMA OwnedSnapshot ==
    ASSUME NEW w, SenderOK(w), NEW fmt
    PROVE  LET p == EncodeOwned(w, Sender, fmt)
           IN  /\ IsSequence(p) /\ Len(p) < Base * Base
               /\ ReadSnapshot(p) = Read(Records(w, Sender, TRUE))
               /\ \A d \in Damaged(p) : /\ IsSequence(d) /\ Len(d) < Base * Base
                                        /\ ReadSnapshot(d) = Malformed
<1> DEFINE s == Records(w, Sender, TRUE)
<1>1. PICK m : RecordsOK(s, m) /\ m <= 256 /\ \A i \in 1..m : Short(s[i])
  BY OwnedRecords
<1>2. EncodeOwned(w, Sender, fmt) = WriteSnapshot(fmt, s)
  BY DEF EncodeOwned, Encode
<1> HIDE DEF s
<1>3. ASSUME NEW p, p = WriteSnapshot(fmt, s)
      PROVE  /\ IsSequence(p) /\ Len(p) < Base * Base /\ ReadSnapshot(p) = Read(s)
             /\ \A d \in Damaged(p) : /\ IsSequence(d) /\ Len(d) < Base * Base
                                      /\ ReadSnapshot(d) = Malformed
  BY <1>1, <1>3, SnapshotRead
<1> QED BY <1>2, <1>3 DEF s

-----------------------------------------------------------------------------
(***************************************************************************)
(* Frames.                                                                 *)
(***************************************************************************)
LEMMA SnapshotParts ==
    ASSUME NEW tick \in Words, NEW payload, IsSequence(payload), Len(payload) < Base * Base
    PROVE  LET b == EncodeSnapshot(tick, payload)
           IN  IsSequence(b) /\ Len(b) >= 4 /\ Len(b) \in Nat /\ b[1] = tick % Base
<1> DEFINE r == [tick |-> tick, payload |-> payload]
           b == EncodeSnapshot(tick, payload)
           parts == FieldParts(r, SnapshotLayout)
<1>1. /\ SnapshotLayout = [i \in 1..2 |-> SnapshotLayout[i]]
      /\ SnapshotLayout[1].name = "tick" /\ SnapshotLayout[1].form = Wide
      /\ SnapshotLayout[1].of = Always
      /\ SnapshotLayout[2].name = "payload" /\ SnapshotLayout[2].form = Counted
      /\ SnapshotLayout[2].of = Always
  BY DEF SnapshotLayout, Field
<1>2. FitsForm(tick, Wide) /\ FitsForm(payload, Counted)
  BY WordFits DEF FitsForm
<1>3. Encodable(r, SnapshotLayout, 2)
  BY <1>2 DEF Encodable, SnapshotLayout, Field
<1>4. b = PutFields(r, SnapshotLayout)
  BY DEF EncodeSnapshot
<1>5. parts[1] = PutScalar(tick, Wide) /\ parts[2] = PutBytes(payload)
  <2>1. There(r, SnapshotLayout[1]) /\ There(r, SnapshotLayout[2])
    BY <1>1 DEF There
  <2>2. r.tick = tick /\ r.payload = payload /\ 1 \in 1..2 /\ 2 \in 1..2
    OBVIOUS
  <2> HIDE DEF r
  <2>3. parts[1] = PutField(tick, Wide) /\ parts[2] = PutField(payload, Counted)
    BY <1>1, <2>1, <2>2 DEF FieldParts
  <2>4. PutField(tick, Wide) = PutScalar(tick, Wide)
    BY DEF PutField, Wide, Counted, Bool
  <2>5. PutField(payload, Counted) = PutBytes(payload)
    BY DEF PutField, Counted, Bool
  <2> QED BY <2>3, <2>4, <2>5
<1>6. PICK c : Pieces(b, c, parts, 2)
  BY <1>1, <1>3, <1>4, PutFieldsFacts
<1> HIDE DEF b, parts, r
<1>7. /\ IsSequence(b) /\ Len(b) = c[2] /\ c[0] = 0 /\ c[0] \in Nat /\ c[1] \in Nat /\ c[2] \in Nat
      /\ c[1] = c[0] + Len(parts[1]) /\ c[2] = c[1] + Len(parts[2])
      /\ \A j \in 1..Len(parts[1]) : b[c[0] + j] = parts[1][j]
  <2>1. /\ 1 - 1 = 0 /\ 2 - 1 = 1 /\ 1 \in 1..2 /\ 2 \in 1..2
        /\ 0 \in 0..2 /\ 1 \in 0..2 /\ 2 \in 0..2
    OBVIOUS
  <2> QED BY <1>6, <2>1 DEF Pieces
<1>8. Len(PutBytes(payload)) = 2 + Len(payload) /\ Len(payload) \in Nat
  BY BytesLength, SequenceFacts
<1>9. Len(PutScalar(tick, Wide)) = 2 /\ PutScalar(tick, Wide)[1] = tick % Base
  <2>1. PutScalar(tick, Wide) = <<tick % Base, (tick \div Base) % Base>>
    BY DEF PutScalar, Wide, Byte
  <2>2. \A x, y : Len(<<x, y>>) = 2 /\ <<x, y>>[1] = x
    BY PairFacts
  <2> QED BY <2>1, <2>2
<1>10. c[0] + 1 = 1 /\ 1 \in 1..Len(parts[1])
  BY <1>5, <1>7, <1>9
<1>11. b[1] = tick % Base
  BY <1>5, <1>7, <1>9, <1>10
<1>12. Len(b) >= 4 /\ Len(b) \in Nat
  BY <1>5, <1>7, <1>8, <1>9
<1> QED BY <1>7, <1>11, <1>12 DEF b

LEMMA FrameDecodes ==
    ASSUME NEW tick \in Words, NEW payload, IsSequence(payload), Len(payload) < Base * Base
    PROVE  DecodeSnapshot(EncodeSnapshot(tick, payload)) = [tick |-> tick, payload |-> payload]
<1> DEFINE b == EncodeSnapshot(tick, payload)
<1>1. IsSequence(b) /\ Len(b) \in Nat
  BY SnapshotParts
<1>2. \A j \in 1..Len(b) : 0 + j = j
  BY <1>1
<1>3. Carries(b, 0, b)
  BY <1>2 DEF Carries
<1>4. DecodeSnapshot(b) = IF Len(b) = Len(b) THEN [tick |-> tick, payload |-> payload]
                          ELSE NotDecoded
  BY <1>1, <1>3, SnapshotDecodes
<1> QED BY <1>4

LEMMA OneIsShort ==
    ASSUME NEW m, NEW n \in Nat, m = 1, n >= 4
    PROVE  m # n
OBVIOUS

\* What is no frame of a scene is not taken for one.
LEMMA PulseDecodes == DecodeSnapshot(<< 80 >>) = NotDecoded
<1> SUFFICES ASSUME NEW tick, tick = 80, NEW payload, payload = <<>>, NEW data, data = << 80 >>
             PROVE  DecodeSnapshot(data) = NotDecoded
  OBVIOUS
<1> DEFINE b == EncodeSnapshot(tick, payload)
<1>1. tick \in Words /\ tick % Base = 80
  <2>1. tick \in Nat /\ tick < 65536 /\ tick % 256 = 80
    OBVIOUS
  <2> QED BY <2>1, NumberIsWord DEF Base
<1>2. IsSequence(payload) /\ Len(payload) < Base * Base
  BY Nothing, WideBase
<1>3. IsSequence(data) /\ Len(data) = 1 /\ data[1] = 80
  BY OneFacts
<1>4. IsSequence(b) /\ Len(b) >= 4 /\ Len(b) \in Nat /\ b[1] = 80
  BY <1>1, <1>2, SnapshotParts
<1> HIDE DEF b
<1>5. Carries(data, 0, b)
  <2>1. \A j \in 1..Len(b) : 0 + j <= 1 => 0 + j = 1 /\ j = 1
    BY <1>4
  <2> QED BY <1>3, <1>4, <2>1 DEF Carries
<1>6. DecodeSnapshot(data) = IF Len(data) = Len(b) THEN [tick |-> tick, payload |-> payload]
                             ELSE NotDecoded
  BY <1>1, <1>2, <1>3, <1>5, SnapshotDecodes DEF b
<1>7. Len(data) # Len(b)
  <2>1. Len(data) = 1
    BY <1>3
  <2>2. Len(b) >= 4 /\ Len(b) \in Nat
    BY <1>4
  <2> DEFINE m == Len(data)
             n == Len(b)
  <2>3. m = 1 /\ n >= 4 /\ n \in Nat
    BY <2>1, <2>2
  <2> HIDE DEF m, n
  <2>4. m # n
    BY ONLY <2>3, OneIsShort
  <2> QED BY <2>4 DEF m, n
<1> QED BY <1>6, <1>7

-----------------------------------------------------------------------------
(***************************************************************************)
(* The calls of a game.                                                    *)
(***************************************************************************)
\* A scene of which only components and extra bytes changed.
LEMMA SameCore ==
    ASSUME NEW w, NEW self, NEW ids, NEW sources, SceneInv(w, self, ids, sources),
           NEW v, IsScene(v), SameEntities(v, w), DOMAIN v.transforms = DOMAIN w.transforms
    PROVE  SceneInv(v, self, ids, sources)
<1>1. Core(v) = Core(w) /\ v.live = w.live
  BY CoreFacts DEF SameEntities
<1> QED BY <1>1 DEF SceneInv

LEMMA AttachScene ==
    ASSUME NEW w, NEW self, NEW ids, NEW sources, SceneInv(w, self, ids, sources),
           NEW kind \in Kinds, NEW e \in w.live, NEW value, NEW v, v = Attach(w, kind, e, value)
    PROVE  /\ SceneInv(v, self, ids, sources) /\ SameEntities(v, w)
           /\ v.transforms = w.transforms /\ v.extras = w.extras
           /\ DOMAIN v.stores[kind] = DOMAIN w.stores[kind] \cup {e} /\ v.stores[kind][e] = value
           /\ \A x \in DOMAIN w.stores[kind] : x # e => v.stores[kind][x] = w.stores[kind][x]
           /\ \A k \in Kinds : k # kind => v.stores[k] = w.stores[k]
<1> DEFINE store == Put(w.stores[kind], e, value)
<1>0. IsScene(w)
  BY DEF SceneInv
<1>1. v = [w EXCEPT !.stores[kind] = store]
  BY DEF Attach, HasEntity
<1>2. /\ DOMAIN store = DOMAIN w.stores[kind] \cup {e} /\ store[e] = value
      /\ \A x \in DOMAIN w.stores[kind] : x # e => store[x] = w.stores[kind][x]
  BY DEF Put
<1> HIDE DEF store
<1>3. /\ IsScene(v) /\ SameEntities(v, w)
      /\ v.transforms = w.transforms /\ v.extras = w.extras
      /\ v.stores[kind] = store
      /\ \A k \in Kinds : k # kind => v.stores[k] = w.stores[k]
  BY <1>0, <1>1 DEF IsScene, SameEntities
<1>4. SceneInv(v, self, ids, sources)
  BY <1>3, SameCore
<1> QED BY <1>2, <1>3, <1>4

LEMMA DetachScene ==
    ASSUME NEW w, NEW self, NEW ids, NEW sources, SceneInv(w, self, ids, sources),
           NEW kind \in Kinds, NEW e, NEW v, v = Detach(w, kind, e)
    PROVE  /\ SceneInv(v, self, ids, sources) /\ SameEntities(v, w)
           /\ v.transforms = w.transforms /\ v.extras = w.extras
           /\ DOMAIN v.stores[kind] \subseteq DOMAIN w.stores[kind]
           /\ \A x \in DOMAIN v.stores[kind] : v.stores[kind][x] = w.stores[kind][x]
           /\ \A k \in Kinds : k # kind => v.stores[k] = w.stores[k]
<1> DEFINE store == Erase(w.stores[kind], {e})
<1>0. IsScene(w)
  BY DEF SceneInv
<1>1. v = [w EXCEPT !.stores[kind] = store]
  BY DEF Detach
<1>2. /\ DOMAIN store \subseteq DOMAIN w.stores[kind]
      /\ \A x \in DOMAIN store : store[x] = w.stores[kind][x]
  BY DEF Erase, Restrict
<1> HIDE DEF store
<1>3. /\ IsScene(v) /\ SameEntities(v, w)
      /\ v.transforms = w.transforms /\ v.extras = w.extras
      /\ v.stores[kind] = store
      /\ \A k \in Kinds : k # kind => v.stores[k] = w.stores[k]
  BY <1>0, <1>1 DEF IsScene, SameEntities
<1>4. SceneInv(v, self, ids, sources)
  BY <1>3, SameCore
<1> QED BY <1>2, <1>3, <1>4

LEMMA DestroyScene ==
    ASSUME NEW w, NEW self, NEW ids, NEW sources, SceneInv(w, self, ids, sources),
           NEW e, NEW v, v = Destroy(w, e)
    PROVE  /\ SceneInv(v, self, ids, sources)
           /\ v.live = w.live \ {e} /\ v.nextEntity = w.nextEntity /\ v.nextLocal = w.nextLocal
           /\ v.entities = w.entities /\ v.netIds = w.netIds /\ v.receivedFrom = w.receivedFrom
           /\ \A x \in v.live : v.transforms[x] = w.transforms[x]
           /\ \A k \in Kinds : /\ DOMAIN v.stores[k] = DOMAIN w.stores[k] \cap v.live
                               /\ \A x \in DOMAIN v.stores[k] : v.stores[k][x] = w.stores[k][x]
           /\ v.extras = w.extras
<1> DEFINE d == DestroyEntity(w, e)
           c == DestroyEntity(Core(w), e)
<1>1. /\ IsScene(d)
      /\ d.live = w.live \ {e} /\ d.nextEntity = w.nextEntity /\ d.nextLocal = w.nextLocal
      /\ d.entities = w.entities /\ d.netIds = w.netIds /\ d.receivedFrom = w.receivedFrom
      /\ d.transforms = w.transforms /\ d.stores = w.stores /\ d.extras = w.extras
  BY DEF DestroyEntity, SceneInv, IsScene
<1>2. v = EraseComponents(d)
  BY DEF Destroy
<1>3. WorldInv(c, self, ids, sources)
  BY DestroyEntityInv DEF SceneInv
<1>4. Core(d) = c
  BY <1>1 DEF Core, DestroyEntity
<1> HIDE DEF d, c
<1>5. /\ IsScene(v) /\ SameEntities(v, d) /\ v.extras = d.extras
      /\ v.transforms = Restrict(d.transforms, d.live)
      /\ v.stores = [k \in Kinds |-> Restrict(d.stores[k], d.live \cap DOMAIN d.stores[k])]
  BY <1>1, <1>2 DEF EraseComponents, IsScene, SameEntities
<1>6. Core(v) = c
  BY <1>4, <1>5, CoreFacts
<1>7. DOMAIN v.transforms = v.live /\ \A x \in v.live : v.transforms[x] = w.transforms[x]
  BY <1>1, <1>5 DEF Restrict, SceneInv, SameEntities
<1>8. \A k \in Kinds : /\ DOMAIN v.stores[k] = DOMAIN w.stores[k] \cap v.live
                       /\ \A x \in DOMAIN v.stores[k] : v.stores[k][x] = w.stores[k][x]
  <2> SUFFICES ASSUME NEW k \in Kinds
               PROVE  /\ DOMAIN v.stores[k] = DOMAIN w.stores[k] \cap v.live
                      /\ \A x \in DOMAIN v.stores[k] : v.stores[k][x] = w.stores[k][x]
    OBVIOUS
  <2>1. v.stores[k] = Restrict(w.stores[k], (w.live \ {e}) \cap DOMAIN w.stores[k])
    BY <1>1, <1>5
  <2>2. v.live = w.live \ {e}
    BY <1>1, <1>5 DEF SameEntities
  <2> QED BY <2>1, <2>2 DEF Restrict
<1>9. SceneInv(v, self, ids, sources)
  BY <1>3, <1>5, <1>6, <1>7 DEF SceneInv
<1> QED BY <1>1, <1>5, <1>7, <1>8, <1>9 DEF SameEntities

LEMMA TransformScene ==
    ASSUME NEW w, NEW self, NEW ids, NEW sources, SceneInv(w, self, ids, sources),
           NEW e \in w.live, NEW value, NEW v, v = SetTransform(w, e, value)
    PROVE  /\ SceneInv(v, self, ids, sources) /\ SameEntities(v, w)
           /\ v.transforms[e] = value /\ v.stores = w.stores /\ v.extras = w.extras
           /\ \A x \in w.live : x # e => v.transforms[x] = w.transforms[x]
<1> DEFINE placed == [w.transforms EXCEPT ![e] = value]
<1>1. v = [w EXCEPT !.transforms = placed]
  BY DEF SetTransform, HasEntity
<1>2. /\ DOMAIN placed = DOMAIN w.transforms /\ placed[e] = value
      /\ \A x \in w.live : x # e => placed[x] = w.transforms[x]
  BY DEF SceneInv
<1> HIDE DEF placed
<1>3. /\ IsScene(v) /\ SameEntities(v, w)
      /\ v.transforms = placed /\ v.stores = w.stores /\ v.extras = w.extras
  BY <1>1 DEF SceneInv, IsScene, SameEntities
<1>4. SceneInv(v, self, ids, sources)
  BY <1>2, <1>3, SameCore
<1> QED BY <1>2, <1>3, <1>4

LEMMA ExtraScene ==
    ASSUME NEW w, NEW self, NEW ids, NEW sources, SceneInv(w, self, ids, sources),
           NEW id, NEW x, NEW v, v = SetExtra(w, id, x)
    PROVE  /\ SceneInv(v, self, ids, sources) /\ SameEntities(v, w)
           /\ v.transforms = w.transforms /\ v.stores = w.stores
           /\ \A i \in DOMAIN v.extras : v.extras[i] = x \/ (i \in DOMAIN w.extras
                                                             /\ v.extras[i] = w.extras[i])
<1> DEFINE more == Put(w.extras, id, x)
<1>1. v = [w EXCEPT !.extras = more]
  BY DEF SetExtra
<1>2. \A i \in DOMAIN more : more[i] = x \/ (i \in DOMAIN w.extras /\ more[i] = w.extras[i])
  BY DEF Put
<1> HIDE DEF more
<1>3. /\ IsScene(v) /\ SameEntities(v, w)
      /\ v.transforms = w.transforms /\ v.stores = w.stores /\ v.extras = more
  BY <1>1 DEF SceneInv, IsScene, SameEntities
<1>4. SceneInv(v, self, ids, sources)
  BY <1>3, SameCore
<1> QED BY <1>2, <1>3, <1>4

LEMMA UntrackScene ==
    ASSUME NEW w, NEW self, NEW ids, NEW sources, SceneInv(w, self, ids, sources),
           NEW e, NEW v, v = UntrackAll(w, e)
    PROVE  /\ SceneInv(v, self, ids, sources)
           /\ v.live = w.live /\ v.nextEntity = w.nextEntity /\ v.nextLocal = w.nextLocal
           /\ DOMAIN v.entities \subseteq DOMAIN w.entities /\ v.receivedFrom = w.receivedFrom
           /\ v.transforms = w.transforms /\ v.stores = w.stores
           /\ \A i \in DOMAIN v.extras : i \in DOMAIN w.extras /\ v.extras[i] = w.extras[i]
<1> DEFINE ids_ == ValuesOf(w.netIds, {e})
           F == Erase(w.entities, ids_)
           G == Erase(w.netIds, {e})
           X == Erase(w.extras, ids_)
           u == Untrack(w, e)
           c == Untrack(Core(w), e)
<1>1. /\ DOMAIN F \subseteq DOMAIN w.entities
      /\ \A i \in DOMAIN X : i \in DOMAIN w.extras /\ X[i] = w.extras[i]
  BY DEF Erase, Restrict
<1>2. u = [w EXCEPT !.entities = F, !.netIds = G] /\ v = [u EXCEPT !.extras = Erase(@, ids_)]
  BY DEF UntrackAll, Untrack
<1>3. c = [Core(w) EXCEPT !.entities = F, !.netIds = G]
  BY DEF Untrack, Core
<1>4. WorldInv(c, self, ids, sources)
  BY UntrackInv DEF SceneInv
<1> HIDE DEF F, G, X, u, c, ids_
<1>5. /\ IsScene(u) /\ u.extras = w.extras /\ u.transforms = w.transforms /\ u.stores = w.stores
      /\ u.live = w.live /\ u.nextEntity = w.nextEntity /\ u.nextLocal = w.nextLocal
      /\ u.entities = F /\ u.netIds = G /\ u.receivedFrom = w.receivedFrom
  BY <1>2 DEF SceneInv, IsScene
<1>6. /\ IsScene(v) /\ SameEntities(v, u) /\ v.extras = X
      /\ v.transforms = w.transforms /\ v.stores = w.stores
  BY <1>2, <1>5 DEF IsScene, SameEntities, X
<1>7. Core(u) = c
  BY <1>3, <1>5 DEF Core
<1>8. Core(v) = c
  BY <1>6, <1>7, CoreFacts
<1>9. SceneInv(v, self, ids, sources)
  BY <1>4, <1>5, <1>6, <1>8 DEF SceneInv, SameEntities
<1> QED BY <1>1, <1>5, <1>6, <1>9 DEF SameEntities

LEMMA BindScene ==
    ASSUME NEW w, NEW self, NEW ids, NEW sources, SceneInv(w, self, ids, sources),
           NEW e \in w.live, NEW id \in ids, \A i \in ids : LocalOf(i) \in Nat,
           NEW v, v = Bind(w, self, id, e)
    PROVE  /\ SceneInv(v, self, ids, sources)
           /\ v.live = w.live /\ v.nextEntity = w.nextEntity /\ v.receivedFrom = w.receivedFrom
           /\ v.transforms = w.transforms /\ v.stores = w.stores /\ v.extras = w.extras
<1> DEFINE F == Put(Erase(w.entities, ValuesOf(w.netIds, {e})), id, e)
           G == Put(Erase(w.netIds, ValuesOf(w.entities, {id})), e, id)
           n == IF OwnerOf(id) = self /\ LocalOf(id) >= w.nextLocal
                THEN LocalOf(id) + 1 ELSE w.nextLocal
           c == Bind(Core(w), self, id, e)
<1>1. v = [w EXCEPT !.entities = F, !.netIds = G, !.nextLocal = n]
  BY DEF Bind
<1>2. c = [Core(w) EXCEPT !.entities = F, !.netIds = G, !.nextLocal = n]
  BY DEF Bind, Core
<1>3. WorldInv(c, self, ids, sources)
  <2>1. e \in Core(w).live /\ WorldInv(Core(w), self, ids, sources)
    BY DEF Core, SceneInv
  <2> QED BY <2>1, BindInv
<1> HIDE DEF F, G, n, c
<1>4. /\ IsScene(v) /\ v.extras = w.extras /\ v.transforms = w.transforms /\ v.stores = w.stores
      /\ v.live = w.live /\ v.nextEntity = w.nextEntity /\ v.nextLocal = n
      /\ v.entities = F /\ v.netIds = G /\ v.receivedFrom = w.receivedFrom
  BY <1>1 DEF SceneInv, IsScene
<1>5. Core(v) = c
  BY <1>2, <1>4 DEF Core
<1>6. SceneInv(v, self, ids, sources)
  BY <1>3, <1>4, <1>5 DEF SceneInv
<1> QED BY <1>4, <1>6

LEMMA CreateScene ==
    ASSUME NEW w, NEW self, NEW ids, NEW sources, SceneInv(w, self, ids, sources),
           NEW v, v = Create(w)
    PROVE  /\ SceneInv(v, self, ids, sources)
           /\ v.live = w.live \cup {w.nextEntity} /\ v.nextEntity = w.nextEntity + 1
           /\ v.nextLocal = w.nextLocal /\ v.entities = w.entities /\ v.netIds = w.netIds
           /\ v.receivedFrom = w.receivedFrom
           /\ \A x \in v.live : v.transforms[x] = IF x \in w.live THEN w.transforms[x] ELSE Identity
           /\ v.stores = w.stores /\ v.extras = w.extras
<1> DEFINE d == CreateEntity(w)
           c == CreateEntity(Core(w))
<1>1. /\ IsScene(d)
      /\ d.live = w.live \cup {w.nextEntity} /\ d.nextEntity = w.nextEntity + 1
      /\ d.nextLocal = w.nextLocal
      /\ d.entities = w.entities /\ d.netIds = w.netIds /\ d.receivedFrom = w.receivedFrom
      /\ d.transforms = w.transforms /\ d.stores = w.stores /\ d.extras = w.extras
  BY DEF CreateEntity, SceneInv, IsScene
<1>2. v = GiveTransforms(d)
  BY DEF Create
<1>3. WorldInv(c, self, ids, sources)
  BY CreateEntityInv DEF SceneInv
<1>4. Core(d) = c
  <2>1. /\ c.live = w.live \cup {w.nextEntity} /\ c.nextEntity = w.nextEntity + 1
        /\ c.nextLocal = w.nextLocal
        /\ c.entities = w.entities /\ c.netIds = w.netIds /\ c.receivedFrom = w.receivedFrom
        /\ c = Core(c)
    <3> DEFINE k == Core(w)
    <3>1. /\ k.live = w.live /\ k.nextEntity = w.nextEntity /\ k.nextLocal = w.nextLocal
          /\ k.entities = w.entities /\ k.netIds = w.netIds /\ k.receivedFrom = w.receivedFrom
          /\ IsWorld(k)
      BY DEF Core, IsWorld
    <3>2. c = [k EXCEPT !.live = k.live \cup {k.nextEntity}, !.nextEntity = k.nextEntity + 1]
      BY DEF CreateEntity
    <3>3. k = Core(k)
      BY <3>1 DEF Core
    <3> HIDE DEF c, k
    <3>4. /\ c.live = k.live \cup {k.nextEntity} /\ c.nextEntity = k.nextEntity + 1
          /\ c.nextLocal = k.nextLocal
          /\ c.entities = k.entities /\ c.netIds = k.netIds /\ c.receivedFrom = k.receivedFrom
      BY <3>1, <3>2 DEF IsWorld
    <3>5. c = Core(c)
      BY <3>2, <3>3 DEF Core
    <3> QED BY <3>1, <3>4, <3>5
  <2> HIDE DEF c, d
  <2>2. Core(d) = Core(c)
    BY <1>1, <2>1 DEF Core
  <2> QED BY <2>1, <2>2
<1> HIDE DEF d, c
<1>5. /\ IsScene(v) /\ SameEntities(v, d)
      /\ DOMAIN v.transforms = DOMAIN d.transforms \cup d.live
      /\ v.stores = d.stores /\ v.extras = d.extras
  BY <1>1, <1>2, TransformFacts
<1>6. v.transforms = [e \in DOMAIN d.transforms \cup d.live |->
                         IF e \in DOMAIN d.transforms THEN d.transforms[e] ELSE Identity]
  BY <1>1, <1>2 DEF GiveTransforms, IsScene
<1>7. /\ DOMAIN v.transforms = v.live
      /\ \A x \in v.live : v.transforms[x] = IF x \in w.live THEN w.transforms[x] ELSE Identity
  BY <1>1, <1>5, <1>6 DEF SceneInv, SameEntities
<1>8. Core(v) = c
  BY <1>4, <1>5, CoreFacts
<1>9. SceneInv(v, self, ids, sources)
  BY <1>3, <1>5, <1>7, <1>8 DEF SceneInv
<1> QED BY <1>1, <1>5, <1>7, <1>9 DEF SameEntities

\* track() of an entity that is not tracked.
LEMMA TrackScene ==
    ASSUME NEW w, NEW self, NEW ids, NEW sources, SceneInv(w, self, ids, sources),
           NEW e \in w.live, e \notin DOMAIN w.netIds, <<self, w.nextLocal>> \in ids,
           \A i \in ids : LocalOf(i) \in Nat,
           NEW v, v = Track(w, self, e)
    PROVE  /\ SceneInv(v, self, ids, sources)
           /\ v.live = w.live /\ v.nextEntity = w.nextEntity /\ v.nextLocal = w.nextLocal + 1
           /\ DOMAIN v.entities = DOMAIN w.entities \cup {<<self, w.nextLocal>>}
           /\ v.transforms = w.transforms /\ v.stores = w.stores /\ v.extras = w.extras
<1> DEFINE id == <<self, w.nextLocal>>
           F == Put(w.entities, id, e)
           G == Put(w.netIds, e, id)
           c == Track(Core(w), self, e)
<1>1. v = [w EXCEPT !.entities = F, !.netIds = G, !.nextLocal = w.nextLocal + 1]
  BY DEF Track
<1>2. c = [Core(w) EXCEPT !.entities = F, !.netIds = G, !.nextLocal = w.nextLocal + 1]
  BY DEF Track, Core
<1>3. DOMAIN F = DOMAIN w.entities \cup {id}
  BY DEF Put
<1> HIDE DEF F, G, c, id
<1>4. /\ c.entities = F /\ c.netIds = G /\ c.nextLocal = w.nextLocal + 1 /\ c.live = w.live
      /\ c.nextEntity = w.nextEntity /\ c.receivedFrom = w.receivedFrom
      /\ c = Core(c)
  BY <1>2 DEF Core
<1>5. WorldInv(Core(w), self, ids, sources) /\ DOMAIN w.entities \subseteq ids
  BY DEF SceneInv, WorldInv, WorldOK, Core
<1>6. WorldInv(c, self, ids, sources)
  <2>1. DOMAIN Track(Core(w), self, e).entities \subseteq ids
    BY <1>3, <1>4, <1>5 DEF c, id
  <2>2. e \in Core(w).live
    BY DEF Core
  <2> QED BY <1>5, <2>1, <2>2, TrackInv DEF c
<1>7. /\ IsScene(v) /\ v.extras = w.extras /\ v.transforms = w.transforms /\ v.stores = w.stores
      /\ v.live = w.live /\ v.nextEntity = w.nextEntity /\ v.nextLocal = w.nextLocal + 1
      /\ v.entities = F /\ v.netIds = G /\ v.receivedFrom = w.receivedFrom
  BY <1>1 DEF SceneInv, IsScene
<1>8. Core(v) = c
  BY <1>4, <1>7 DEF Core
<1>9. SceneInv(v, self, ids, sources)
  BY <1>6, <1>7, <1>8 DEF SceneInv
<1> QED BY <1>3, <1>7, <1>9 DEF id

LEMMA SenderKept ==
    ASSUME NEW w, SenderOK(w), NEW v, SceneInv(v, Sender, NetIds, {Sender}), Valued(v),
           DOMAIN v.entities \subseteq DOMAIN w.entities,
           v.nextLocal = w.nextLocal, v.nextEntity = w.nextEntity
    PROVE  SenderOK(v)
BY DEF SenderOK

LEMMA TransformOK ==
    ASSUME NEW w, SenderOK(w), NEW e \in w.live, NEW value \in Words
    PROVE  SenderOK(SetTransform(w, e, value))
<1> SUFFICES ASSUME NEW v, v = SetTransform(w, e, value) PROVE SenderOK(v)
  OBVIOUS
<1>1. SceneInv(w, Sender, NetIds, {Sender}) /\ Valued(w)
  BY DEF SenderOK
<1>2. /\ SceneInv(v, Sender, NetIds, {Sender}) /\ SameEntities(v, w)
      /\ v.transforms[e] = value /\ v.stores = w.stores /\ v.extras = w.extras
      /\ \A x \in w.live : x # e => v.transforms[x] = w.transforms[x]
  BY <1>1, TransformScene
<1>3. Valued(v)
  BY <1>1, <1>2 DEF Valued, SameEntities
<1> QED BY <1>2, <1>3, SenderKept DEF SameEntities

LEMMA AttachOK ==
    ASSUME NEW w, SenderOK(w), NEW e \in w.live, NEW kind \in Kinds, NEW value,
           kind = RigidBody \/ kind = Collider => value \in Words,
           kind = Shape => value \in Shapes
    PROVE  SenderOK(Attach(w, kind, e, value))
<1> SUFFICES ASSUME NEW v, v = Attach(w, kind, e, value) PROVE SenderOK(v)
  OBVIOUS
<1>1. SceneInv(w, Sender, NetIds, {Sender}) /\ Valued(w)
  BY DEF SenderOK
<1>2. /\ SceneInv(v, Sender, NetIds, {Sender}) /\ SameEntities(v, w)
      /\ v.transforms = w.transforms /\ v.extras = w.extras
      /\ DOMAIN v.stores[kind] = DOMAIN w.stores[kind] \cup {e} /\ v.stores[kind][e] = value
      /\ \A x \in DOMAIN w.stores[kind] : x # e => v.stores[kind][x] = w.stores[kind][x]
      /\ \A k \in Kinds : k # kind => v.stores[k] = w.stores[k]
  BY <1>1, AttachScene
<1>3. RigidBody \in Kinds /\ Collider \in Kinds /\ Shape \in Kinds
  BY DEF Kinds
<1>4. \A e_ \in DOMAIN v.stores[RigidBody] : v.stores[RigidBody][e_] \in Words
  BY <1>1, <1>2, <1>3 DEF Valued
<1>5. \A e_ \in DOMAIN v.stores[Collider] : v.stores[Collider][e_] \in Words
  BY <1>1, <1>2, <1>3 DEF Valued
<1>6. \A e_ \in DOMAIN v.stores[Shape] : v.stores[Shape][e_] \in Shapes
  BY <1>1, <1>2, <1>3 DEF Valued
<1>7. Valued(v)
  BY <1>1, <1>2, <1>4, <1>5, <1>6 DEF Valued, SameEntities
<1> QED BY <1>2, <1>7, SenderKept DEF SameEntities

LEMMA DetachOK ==
    ASSUME NEW w, SenderOK(w), NEW e, NEW kind \in Kinds
    PROVE  SenderOK(Detach(w, kind, e))
<1> SUFFICES ASSUME NEW v, v = Detach(w, kind, e) PROVE SenderOK(v)
  OBVIOUS
<1>1. SceneInv(w, Sender, NetIds, {Sender}) /\ Valued(w)
  BY DEF SenderOK
<1>2. /\ SceneInv(v, Sender, NetIds, {Sender}) /\ SameEntities(v, w)
      /\ v.transforms = w.transforms /\ v.extras = w.extras
      /\ DOMAIN v.stores[kind] \subseteq DOMAIN w.stores[kind]
      /\ \A x \in DOMAIN v.stores[kind] : v.stores[kind][x] = w.stores[kind][x]
      /\ \A k \in Kinds : k # kind => v.stores[k] = w.stores[k]
  BY <1>1, DetachScene
<1>3. RigidBody \in Kinds /\ Collider \in Kinds /\ Shape \in Kinds
  BY DEF Kinds
<1>4. /\ \A e_ \in DOMAIN v.stores[RigidBody] : v.stores[RigidBody][e_] \in Words
      /\ \A e_ \in DOMAIN v.stores[Collider] : v.stores[Collider][e_] \in Words
      /\ \A e_ \in DOMAIN v.stores[Shape] : v.stores[Shape][e_] \in Shapes
  BY <1>1, <1>2, <1>3 DEF Valued
<1>5. Valued(v)
  BY <1>1, <1>2, <1>4 DEF Valued, SameEntities
<1> QED BY <1>2, <1>5, SenderKept DEF SameEntities

LEMMA ExtraOK ==
    ASSUME NEW w, SenderOK(w), NEW id, NEW x \in Extras
    PROVE  SenderOK(SetExtra(w, id, x))
<1> SUFFICES ASSUME NEW v, v = SetExtra(w, id, x) PROVE SenderOK(v)
  OBVIOUS
<1>1. SceneInv(w, Sender, NetIds, {Sender}) /\ Valued(w)
  BY DEF SenderOK
<1>2. /\ SceneInv(v, Sender, NetIds, {Sender}) /\ SameEntities(v, w)
      /\ v.transforms = w.transforms /\ v.stores = w.stores
      /\ \A i \in DOMAIN v.extras : v.extras[i] = x \/ (i \in DOMAIN w.extras
                                                        /\ v.extras[i] = w.extras[i])
  BY <1>1, ExtraScene
<1>3. Valued(v)
  BY <1>1, <1>2 DEF Valued, SameEntities
<1> QED BY <1>2, <1>3, SenderKept DEF SameEntities

LEMMA DestroyOK ==
    ASSUME NEW w, SenderOK(w), NEW e
    PROVE  SenderOK(Destroy(w, e))
<1> SUFFICES ASSUME NEW v, v = Destroy(w, e) PROVE SenderOK(v)
  OBVIOUS
<1>1. SceneInv(w, Sender, NetIds, {Sender}) /\ Valued(w)
  BY DEF SenderOK
<1>2. /\ SceneInv(v, Sender, NetIds, {Sender})
      /\ v.live = w.live \ {e} /\ v.nextEntity = w.nextEntity /\ v.nextLocal = w.nextLocal
      /\ v.entities = w.entities
      /\ \A x \in v.live : v.transforms[x] = w.transforms[x]
      /\ \A k \in Kinds : /\ DOMAIN v.stores[k] = DOMAIN w.stores[k] \cap v.live
                          /\ \A x \in DOMAIN v.stores[k] : v.stores[k][x] = w.stores[k][x]
      /\ v.extras = w.extras
  BY <1>1, DestroyScene
<1>3. RigidBody \in Kinds /\ Collider \in Kinds /\ Shape \in Kinds
  BY DEF Kinds
<1>4. Valued(v)
  BY <1>1, <1>2, <1>3 DEF Valued
<1> QED BY <1>2, <1>4, SenderKept

LEMMA UntrackOK ==
    ASSUME NEW w, SenderOK(w), NEW e
    PROVE  SenderOK(UntrackAll(w, e))
<1> SUFFICES ASSUME NEW v, v = UntrackAll(w, e) PROVE SenderOK(v)
  OBVIOUS
<1>1. SceneInv(w, Sender, NetIds, {Sender}) /\ Valued(w)
  BY DEF SenderOK
<1>2. /\ SceneInv(v, Sender, NetIds, {Sender})
      /\ v.live = w.live /\ v.nextEntity = w.nextEntity /\ v.nextLocal = w.nextLocal
      /\ DOMAIN v.entities \subseteq DOMAIN w.entities
      /\ v.transforms = w.transforms /\ v.stores = w.stores
      /\ \A i \in DOMAIN v.extras : i \in DOMAIN w.extras /\ v.extras[i] = w.extras[i]
  BY <1>1, UntrackScene
<1>3. Valued(v)
  BY <1>1, <1>2 DEF Valued
<1> QED BY <1>2, <1>3, SenderKept

\* An entity that is created and tracked; its id is below its handle.
LEMMA AddOK ==
    ASSUME NEW w, SenderOK(w), w.nextEntity <= Base
    PROVE  SenderOK(Track(Create(w), Sender, w.nextEntity))
<1> SUFFICES ASSUME NEW u, u = Create(w), NEW e, e = w.nextEntity, NEW v, v = Track(u, Sender, e)
             PROVE  SenderOK(v)
  OBVIOUS
<1>1. SceneInv(w, Sender, NetIds, {Sender}) /\ Valued(w)
  BY DEF SenderOK
<1>2. /\ SceneInv(u, Sender, NetIds, {Sender})
      /\ u.live = w.live \cup {e} /\ u.nextEntity = e + 1
      /\ u.nextLocal = w.nextLocal /\ u.entities = w.entities /\ u.netIds = w.netIds
      /\ \A x \in u.live : u.transforms[x] = IF x \in w.live THEN w.transforms[x] ELSE Identity
      /\ u.stores = w.stores /\ u.extras = w.extras
  BY <1>1, CreateScene
<1>3. /\ w.nextLocal \in Nat /\ e \in Nat \ {0} /\ w.nextLocal < e
      /\ DOMAIN w.netIds \subseteq 1..(e - 1)
  BY DEF SenderOK, SceneInv, WorldInv, WorldOK, Core
<1>4. e \notin DOMAIN u.netIds
  BY <1>2, <1>3
<1>5. e <= 256 /\ Base = 256
  BY DEF Base
<1>6. <<Sender, w.nextLocal>> \in NetIds
  <2>1. Sender \in Nat /\ w.nextLocal \in 0..255
    BY <1>3, <1>5, ReplicationAssumption DEF Base
  <2> QED BY <2>1 DEF NetIds, Base
<1>7. \A i \in NetIds : LocalOf(i) \in Nat
  BY DEF NetIds, LocalOf, Base
<1>8. /\ SceneInv(v, Sender, NetIds, {Sender})
      /\ v.live = u.live /\ v.nextEntity = u.nextEntity /\ v.nextLocal = u.nextLocal + 1
      /\ DOMAIN v.entities = DOMAIN u.entities \cup {<<Sender, u.nextLocal>>}
      /\ v.transforms = u.transforms /\ v.stores = u.stores /\ v.extras = u.extras
  <2>1. e \in u.live /\ <<Sender, u.nextLocal>> \in NetIds
    BY <1>2, <1>6
  <2> QED BY <1>2, <1>4, <1>7, <2>1, TrackScene
<1>9. 0 \in Words
  BY NumberIsWord
<1>10. Valued(v)
  BY <1>1, <1>2, <1>8, <1>9 DEF Valued, Identity
<1>11. \A id \in DOMAIN v.entities : OwnerOf(id) = Sender
  BY <1>2, <1>8 DEF SenderOK, OwnerOf
<1>12. v.nextLocal < v.nextEntity /\ v.nextEntity <= Base + 1
  BY <1>2, <1>3, <1>5, <1>8
<1> QED BY <1>8, <1>10, <1>11, <1>12 DEF SenderOK

-----------------------------------------------------------------------------
(***************************************************************************)
(* The two games.                                                          *)
(***************************************************************************)
ReceiverOK(w) == SceneInv(w, Receiver, NetIds, {Sender}) /\ StoresLive(w)

LEMMA NewSceneFacts ==
    ASSUME NEW self, NEW ids, NEW sources, NEW w, w = NewScene(sources)
    PROVE  /\ SceneInv(w, self, ids, sources) /\ StoresLive(w)
           /\ w.receivedFrom = [s \in sources |-> {}]
           /\ w.live = {} /\ w.nextEntity = 1 /\ w.nextLocal = 0 /\ w.entities = <<>>
           /\ w.extras = <<>> /\ \A k \in Kinds : w.stores[k] = <<>>
<1>1. /\ IsScene(w) /\ w.live = {} /\ w.nextEntity = 1 /\ w.nextLocal = 0 /\ w.entities = <<>>
      /\ w.netIds = <<>> /\ w.transforms = <<>> /\ w.extras = <<>>
      /\ w.receivedFrom = [s \in sources |-> {}]
      /\ \A k \in Kinds : w.stores[k] = <<>>
  BY DEF NewScene, NewWorld, IsScene
<1>2. Core(w) = NewWorld(sources)
  BY <1>1 DEF Core, NewWorld
<1>3. WorldInv(Core(w), self, ids, sources)
  BY <1>2, NewWorldInv
<1>4. DOMAIN <<>> = {}
  OBVIOUS
<1>5. SceneInv(w, self, ids, sources)
  BY <1>1, <1>3, <1>4 DEF SceneInv
<1>6. StoresLive(w)
  BY <1>1, <1>4 DEF StoresLive
<1> QED BY <1>1, <1>5, <1>6

LEMMA GameStarts ==
    ASSUME GameInit
    PROVE  /\ SenderOK(scene) /\ ReceiverOK(copies)
           /\ edits = 0 /\ copies.receivedFrom[Sender] = {}
<1>1. ASSUME NEW n, n = NewScene({Sender})
      PROVE  SenderOK(SetExtra(Attach(Track(Create(n), Sender, 1), Collider, 1, 5),
                               <<Sender, 0>>, <<>>))
  <2>1. /\ SceneInv(n, Sender, NetIds, {Sender})
        /\ n.live = {} /\ n.nextEntity = 1 /\ n.nextLocal = 0 /\ n.entities = <<>>
        /\ n.extras = <<>> /\ \A k \in Kinds : n.stores[k] = <<>>
    <3>1. SceneInv(n, Sender, NetIds, {Sender})
      BY <1>1, NewSceneFacts
    <3>2. n.live = {} /\ n.nextEntity = 1 /\ n.nextLocal = 0 /\ n.entities = <<>>
      BY <1>1, NewSceneFacts
    <3>3. n.extras = <<>> /\ \A k \in Kinds : n.stores[k] = <<>>
      BY <1>1 DEF NewScene
    <3> QED BY <3>1, <3>2, <3>3
  <2>2. DOMAIN <<>> = {}
    OBVIOUS
  <2>3. Valued(n)
    BY <2>1, <2>2 DEF Valued, Kinds
  <2>4. SenderOK(n)
    BY <2>1, <2>2, <2>3 DEF SenderOK, Base
  <2>5. SenderOK(Track(Create(n), Sender, 1))
    BY <2>1, <2>4, AddOK DEF Base
  <2>6. 1 \in Track(Create(n), Sender, 1).live
    <3>1. ASSUME NEW u, u = Create(n) PROVE 1 \in u.live /\ SceneInv(u, Sender, NetIds, {Sender})
      BY <2>1, <3>1, CreateScene
    <3>2. ASSUME NEW u, SceneInv(u, Sender, NetIds, {Sender})
          PROVE Track(u, Sender, 1).live = u.live
      BY <3>2 DEF Track, SceneInv, IsScene
    <3> QED BY <3>1, <3>2
  <2>7. 5 \in Words /\ Collider \in Kinds /\ Collider # Shape
    BY NumberIsWord DEF Kinds, Collider, Shape
  <2>8. <<>> \in Extras
    BY DEF Extras
  <2> QED BY <2>5, <2>6, <2>7, <2>8, AttachOK, ExtraOK
<1>2. SenderOK(scene)
  BY <1>1 DEF GameInit
<1>3. ReceiverOK(copies) /\ copies.receivedFrom[Sender] = {}
  <2>1. copies = NewScene({Sender})
    BY DEF GameInit
  <2>2. SceneInv(copies, Receiver, NetIds, {Sender}) /\ StoresLive(copies)
        /\ copies.receivedFrom = [s \in {Sender} |-> {}]
    BY <2>1, NewSceneFacts
  <2> QED BY <2>2 DEF ReceiverOK
<1> QED BY <1>2, <1>3 DEF GameInit

\* Whatever its game does, the sender's scene stays one that can be sent.
LEMMA SenderEdits ==
    ASSUME SenderOK(scene), AddEntity \/ EditEntity
    PROVE  SenderOK(scene') /\ UNCHANGED <<format, copies>> /\ edits' = edits + 1
<1> DEFINE w == scene
<1>1. CASE AddEntity
  <2>1. scene' = Track(Create(scene), Sender, scene.nextEntity) /\ UNCHANGED <<format, copies>>
        /\ edits' = edits + 1 /\ scene.nextEntity <= MaxEntities
    BY <1>1 DEF AddEntity, Edit
  <2>2. scene.nextEntity <= Base
    <3>1. MaxEntities \in 0..Base /\ scene.nextEntity \in Nat
      BY ReplicationAssumption DEF SenderOK, SceneInv, WorldInv, WorldOK, Core
    <3> QED BY <2>1, <3>1 DEF Base
  <2>3. SenderOK(Track(Create(scene), Sender, scene.nextEntity))
    BY <2>2, AddOK
  <2> QED BY <2>1, <2>3
<1>2. CASE EditEntity
  <2>1. PICK id \in DOMAIN w.entities : \E e :
          /\ e \in w.live
          /\ \/ Edit(SetTransform(scene, e, 400))
             \/ Edit(Attach(scene, RigidBody, e, 9)) \/ Edit(Detach(scene, RigidBody, e))
             \/ \E s \in Shapes : Edit(Attach(scene, Shape, e, s))
             \/ Edit(Detach(scene, Shape, e)) \/ Edit(Detach(scene, Collider, e))
             \/ \E x \in Extras : Edit(SetExtra(scene, id, x))
             \/ Edit(Destroy(scene, e))
             \/ Edit(UntrackAll(scene, e))
    BY <1>2 DEF EditEntity, HasEntity
  <2>2. PICK e \in w.live :
             \/ Edit(SetTransform(scene, e, 400))
             \/ Edit(Attach(scene, RigidBody, e, 9)) \/ Edit(Detach(scene, RigidBody, e))
             \/ \E s \in Shapes : Edit(Attach(scene, Shape, e, s))
             \/ Edit(Detach(scene, Shape, e)) \/ Edit(Detach(scene, Collider, e))
             \/ \E x \in Extras : Edit(SetExtra(scene, id, x))
             \/ Edit(Destroy(scene, e))
             \/ Edit(UntrackAll(scene, e))
    BY <2>1
  <2>3. \A v : Edit(v) => scene' = v /\ UNCHANGED <<format, copies>> /\ edits' = edits + 1
    BY DEF Edit
  <2>4. /\ RigidBody \in Kinds /\ Collider \in Kinds /\ Shape \in Kinds
        /\ RigidBody # Shape /\ Shape # Collider
    BY DEF Kinds, RigidBody, Collider, Shape
  <2>5. 400 \in Words /\ 9 \in Words
    BY NumberIsWord
  <2>6. CASE Edit(SetTransform(scene, e, 400))
    BY <2>3, <2>5, <2>6, TransformOK
  <2>7. CASE Edit(Attach(scene, RigidBody, e, 9))
    BY <2>3, <2>4, <2>5, <2>7, AttachOK
  <2>8. CASE Edit(Detach(scene, RigidBody, e)) \/ Edit(Detach(scene, Shape, e))
             \/ Edit(Detach(scene, Collider, e))
    BY <2>3, <2>4, <2>8, DetachOK
  <2>9. CASE \E s \in Shapes : Edit(Attach(scene, Shape, e, s))
    BY <2>3, <2>4, <2>9, AttachOK
  <2>10. CASE \E x \in Extras : Edit(SetExtra(scene, id, x))
    BY <2>3, <2>10, ExtraOK
  <2>11. CASE Edit(Destroy(scene, e))
    BY <2>3, <2>11, DestroyOK
  <2>12. CASE Edit(UntrackAll(scene, e))
    BY <2>3, <2>12, UntrackOK
  <2> QED BY <2>2, <2>6, <2>7, <2>8, <2>9, <2>10, <2>11, <2>12
<1> QED BY <1>1, <1>2

LEMMA GameIdFacts == GameIds \subseteq NetIds /\ \A id \in NetIds : LocalOf(id) \in Nat
<1>1. /\ Sender \in 0..255 /\ Receiver \in 0..255 /\ MaxEntities \in 0..256
  BY ReplicationAssumption DEF Base
<1>2. \A id \in {Sender} \X (0 .. MaxEntities - 1) : id \in Nat \X (0..255)
  BY <1>1
<1>3. <<Receiver, 0>> \in Nat \X (0..255)
  BY <1>1
<1>4. \A id \in Nat \X (0..255) : LocalOf(id) \in Nat
  BY DEF LocalOf
<1> QED BY <1>2, <1>3, <1>4 DEF GameIds, NetIds, Base

\* What the receiver's game does to what it has.
LEMMA ReceiverTouches ==
    ASSUME ReceiverOK(copies), TouchCopies
    PROVE  /\ ReceiverOK(copies') /\ UNCHANGED <<scene, format>>
           /\ copies'.receivedFrom = copies.receivedFrom /\ edits' = edits + 1
<1>1. /\ SceneInv(copies, Receiver, NetIds, {Sender}) /\ StoresLive(copies)
      /\ Text \in Kinds /\ Shape \in Kinds
      /\ UNCHANGED <<scene, format>> /\ edits' = edits + 1
  BY DEF ReceiverOK, Kinds, TouchCopies
<1>2. CASE copies' = Create(copies)
  <2>1. /\ SceneInv(copies', Receiver, NetIds, {Sender})
        /\ copies'.live = copies.live \cup {copies.nextEntity}
        /\ copies'.stores = copies.stores /\ copies'.receivedFrom = copies.receivedFrom
    BY <1>1, <1>2, CreateScene
  <2> QED BY <1>1, <2>1 DEF ReceiverOK, StoresLive
<1>3. ASSUME NEW e \in copies.live, copies' = Attach(copies, Text, e, "label")
      PROVE  ReceiverOK(copies') /\ copies'.receivedFrom = copies.receivedFrom
  <2>1. /\ SceneInv(copies', Receiver, NetIds, {Sender}) /\ SameEntities(copies', copies)
        /\ DOMAIN copies'.stores[Text] = DOMAIN copies.stores[Text] \cup {e}
        /\ \A k \in Kinds : k # Text => copies'.stores[k] = copies.stores[k]
    BY <1>1, <1>3, AttachScene
  <2> QED BY <1>1, <2>1 DEF ReceiverOK, StoresLive, SameEntities
<1>4. ASSUME NEW e \in copies.live,
             copies' = [copies EXCEPT !.stores[Shape][e].texture = "brick"]
      PROVE  ReceiverOK(copies') /\ copies'.receivedFrom = copies.receivedFrom
  <2> DEFINE store == [copies.stores[Shape] EXCEPT ![e].texture = "brick"]
  <2>1. copies' = [copies EXCEPT !.stores[Shape] = store]
    BY <1>4
  <2>2. DOMAIN store = DOMAIN copies.stores[Shape]
    OBVIOUS
  <2> HIDE DEF store
  <2>3. IsScene(copies)
    BY <1>1 DEF SceneInv
  <2>4. /\ IsScene(copies') /\ SameEntities(copies', copies)
        /\ copies'.transforms = copies.transforms
        /\ copies'.stores[Shape] = store
        /\ \A k \in Kinds : k # Shape => copies'.stores[k] = copies.stores[k]
    BY <1>1, <2>1, <2>3 DEF IsScene, SameEntities
  <2>5. SceneInv(copies', Receiver, NetIds, {Sender})
    BY <1>1, <2>4, SameCore
  <2> QED BY <1>1, <2>2, <2>4, <2>5 DEF ReceiverOK, StoresLive, SameEntities
<1>5. ASSUME NEW e, copies' = Destroy(copies, e)
      PROVE  ReceiverOK(copies') /\ copies'.receivedFrom = copies.receivedFrom
  <2>1. /\ SceneInv(copies', Receiver, NetIds, {Sender})
        /\ copies'.receivedFrom = copies.receivedFrom
        /\ \A k \in Kinds : DOMAIN copies'.stores[k] = DOMAIN copies.stores[k] \cap copies'.live
    BY <1>1, <1>5, DestroyScene
  <2> QED BY <2>1 DEF ReceiverOK, StoresLive
<1>6. ASSUME NEW e, copies' = UntrackAll(copies, e)
      PROVE  ReceiverOK(copies') /\ copies'.receivedFrom = copies.receivedFrom
  <2>1. /\ SceneInv(copies', Receiver, NetIds, {Sender})
        /\ copies'.live = copies.live /\ copies'.stores = copies.stores
        /\ copies'.receivedFrom = copies.receivedFrom
    BY <1>1, <1>6, UntrackScene
  <2> QED BY <1>1, <2>1 DEF ReceiverOK, StoresLive
<1>7. ASSUME NEW e \in copies.live, NEW id \in GameIds, copies' = Bind(copies, Receiver, id, e)
      PROVE  ReceiverOK(copies') /\ copies'.receivedFrom = copies.receivedFrom
  <2>1. /\ SceneInv(copies', Receiver, NetIds, {Sender})
        /\ copies'.live = copies.live /\ copies'.stores = copies.stores
        /\ copies'.receivedFrom = copies.receivedFrom
    <3>1. id \in NetIds /\ \A i \in NetIds : LocalOf(i) \in Nat
      BY GameIdFacts
    <3> QED BY <1>1, <1>7, <3>1, BindScene
  <2> QED BY <1>1, <2>1 DEF ReceiverOK, StoresLive
<1>8. ASSUME NEW id, copies' = SetExtra(copies, id, << 9 >>)
      PROVE  ReceiverOK(copies') /\ copies'.receivedFrom = copies.receivedFrom
  <2>1. /\ SceneInv(copies', Receiver, NetIds, {Sender}) /\ SameEntities(copies', copies)
        /\ copies'.stores = copies.stores
    BY <1>1, <1>8, ExtraScene
  <2> QED BY <1>1, <2>1 DEF ReceiverOK, StoresLive, SameEntities
<1> QED BY <1>1, <1>2, <1>3, <1>4, <1>5, <1>6, <1>7, <1>8 DEF TouchCopies

-----------------------------------------------------------------------------
(***************************************************************************)
(* What is heard.  A frame that can be read is of a scene that was shown   *)
(* on its tick, and the frames on their way are newer, one after the       *)
(* other, than what was applied.                                           *)
(***************************************************************************)
TickOf(data)    == DecodeSnapshot(data).tick
PayloadOf(data) == DecodeSnapshot(data).payload
Readable(data)  == DecodeSnapshot(data) # NotDecoded /\ ReadSnapshot(PayloadOf(data)).ok

\* A snapshot of a scene that looks like this.
IsSnapshot(payload, a, pictures) ==
    /\ SenderOK(a) /\ pictures = Pictures(a, Sender)
    /\ ReadSnapshot(payload) = Read(Records(a, Sender, TRUE))

WasShown(data, scenes) ==
    /\ TickOf(data) \in 1..Len(scenes)
    /\ \E a : IsSnapshot(PayloadOf(data), a, scenes[TickOf(data)])

FramesInv ==
    /\ IsSequence(shown) /\ Len(shown) <= Len(published) /\ Len(published) <= MaxPublished
    /\ \A k \in DOMAIN published : Readable(published[k].data) => WasShown(published[k].data, shown)

Newer(data, tick) == Readable(data) => tick < TickOf(data)

Waiting == pubMutex # NoThread

OrderInv ==
    /\ applied \in 0..Len(shown)
    /\ \A i \in DOMAIN queue : Newer(queue[i][2], applied)
    /\ \A i, j \in DOMAIN queue :
          i < j /\ Readable(queue[i][2]) => Newer(queue[j][2], TickOf(queue[i][2]))
    /\ Waiting => \A d : pending[pubMutex] = <<d>> =>
          /\ Newer(d, applied)
          /\ \A i \in DOMAIN queue : Readable(queue[i][2]) => Newer(d, TickOf(queue[i][2]))

\* What the receiver has on the list of the sender is what it was shown last.
ListInv == copies.receivedFrom[Sender] = DOMAIN ShownAt(applied)

NetInv ==
    /\ TopicInv /\ UpdatesAreWhole
    /\ SenderOK(scene) /\ ReceiverOK(copies) /\ ListInv
    /\ FramesInv /\ OrderInv
    /\ edits \in Nat

LEMMA QueueData ==
    ASSUME TopicInv, NEW i \in DOMAIN queue
    PROVE  \E k \in DOMAIN published : queue[i][2] = published[k].data
<1>1. PICK k \in DOMAIN published : IsUpdate(queue[i], k)
  BY DEF TopicInv, IsWhole
<1> DEFINE a == published[k].topic
           b == published[k].data
<1>2. queue[i] = <<a, b>>
  BY <1>1 DEF IsUpdate
<1> HIDE DEF a, b
<1>3. <<a, b>>[2] = b
  BY TwoFrames
<1>4. queue[i][2] = b
  BY <1>2, <1>3
<1> QED BY <1>4 DEF b

LEMMA QueueTicks ==
    ASSUME TopicInv, FramesInv, NEW i \in DOMAIN queue, Readable(queue[i][2])
    PROVE  TickOf(queue[i][2]) \in 1..Len(shown)
<1>1. PICK k \in DOMAIN published : queue[i][2] = published[k].data
  BY QueueData
<1> QED BY <1>1 DEF FramesInv, WasShown

LEMMA ShownStays ==
    ASSUME IsSequence(shown), IsSequence(shown'), Len(shown) <= Len(shown'),
           \A t \in 1..Len(shown) : shown'[t] = shown[t],
           NEW d, WasShown(d, shown)
    PROVE  WasShown(d, shown')
<1>1. Len(shown) \in Nat /\ Len(shown') \in Nat
  BY SequenceFacts
<1>2. TickOf(d) \in 1..Len(shown) /\ TickOf(d) \in 1..Len(shown')
  BY <1>1 DEF WasShown
<1>3. PICK a : IsSnapshot(PayloadOf(d), a, shown[TickOf(d)])
  BY DEF WasShown
<1>4. shown'[TickOf(d)] = shown[TickOf(d)]
  BY <1>2
<1>5. IsSnapshot(PayloadOf(d), a, shown'[TickOf(d)])
  BY <1>3, <1>4
<1> QED BY <1>2, <1>5 DEF WasShown

\* publish() of a scene on a new tick, or of something no peer takes for one.
LEMMA PublishFrames ==
    ASSUME NetInv, NEW p \in Publishers, NEW topic, NEW data, Publish(p, topic, data),
           Len(published) < MaxPublished, applied' = applied, IsSequence(shown'),
           Len(shown') = Len(shown) \/ Len(shown') = Len(shown) + 1,
           \A t \in 1..Len(shown) : shown'[t] = shown[t],
           Readable(data) => TickOf(data) = Len(shown) + 1 /\ WasShown(data, shown')
    PROVE  FramesInv' /\ OrderInv'
<1> DEFINE u == [topic |-> topic, data |-> data]
<1>1. /\ published' = Append(published, u) /\ pubMutex = NoThread /\ pubMutex' = p
      /\ pending' = [pending EXCEPT ![p] = <<data>>] /\ UNCHANGED queue
      /\ u.data = data
  BY DEF Publish
<1> HIDE DEF u
<1>2. /\ TopicInv /\ FramesInv /\ OrderInv /\ IsSequence(published) /\ IsSequence(shown)
      /\ DOMAIN pending = Publishers
  BY DEF NetInv, TopicInv, SendingInv, FramesInv
<1>3. /\ Len(shown) \in Nat /\ Len(shown') \in Nat /\ Len(published) \in Nat
      /\ MaxPublished \in Nat
  BY <1>2, SequenceFacts, NetworkingAssumption, WideBase
<1>4. /\ IsSequence(published') /\ DOMAIN published' = 1..(Len(published) + 1)
      /\ DOMAIN published = 1..Len(published)
      /\ \A k \in DOMAIN published : published'[k] = published[k]
      /\ published'[Len(published) + 1] = u
  BY <1>1, <1>2, Appended
<1>5. Len(published') = Len(published) + 1
  BY <1>3, <1>4, SequenceFacts
<1>6. ASSUME NEW k \in DOMAIN published', Readable(published'[k].data)
      PROVE  WasShown(published'[k].data, shown')
  <2>1. CASE k \in DOMAIN published
    <3>1. published'[k] = published[k] /\ WasShown(published[k].data, shown)
      BY <1>2, <1>4, <1>6, <2>1 DEF FramesInv
    <3>2. Len(shown) <= Len(shown')
      BY <1>3
    <3>3. ASSUME NEW d, WasShown(d, shown) PROVE WasShown(d, shown')
      BY <1>2, <3>2, <3>3, ShownStays
    <3> QED BY <3>1, <3>3
  <2>2. CASE k \notin DOMAIN published
    <3>1. published'[k].data = data
      BY <1>1, <1>3, <1>4, <2>2
    <3> QED BY <1>6, <3>1
  <2> QED BY <2>1, <2>2
<1>7. FramesInv'
  BY <1>2, <1>3, <1>5, <1>6 DEF FramesInv
<1>8. applied' \in 0..Len(shown')
  BY <1>2, <1>3 DEF OrderInv
<1>9. ASSUME NEW d, pending'[pubMutex'] = <<d>>
      PROVE  /\ Newer(d, applied)
             /\ \A i \in DOMAIN queue : Readable(queue[i][2]) => Newer(d, TickOf(queue[i][2]))
  <2>1. pending'[pubMutex'] = <<data>>
    BY <1>1, <1>2
  <2>2. d = data
    BY <1>9, <2>1
  <2>3. applied < Len(shown) + 1
    BY <1>2, <1>3 DEF OrderInv
  <2>4. ASSUME NEW i \in DOMAIN queue, Readable(queue[i][2])
        PROVE  TickOf(queue[i][2]) < Len(shown) + 1
    <3>1. TickOf(queue[i][2]) \in 1..Len(shown)
      BY <1>2, <2>4, QueueTicks
    <3> QED BY <1>3, <3>1
  <2> QED BY <2>2, <2>3, <2>4 DEF Newer
<1>10. OrderInv'
  BY <1>1, <1>2, <1>8, <1>9 DEF OrderInv, Newer, Waiting
<1> QED BY <1>7, <1>10

LEMMA ShownAppended ==
    ASSUME IsSequence(shown), NEW x, shown' = Append(shown, x)
    PROVE  /\ IsSequence(shown') /\ Len(shown') = Len(shown) + 1 /\ Len(shown) \in Nat
           /\ \A t \in 1..Len(shown) : shown'[t] = shown[t]
           /\ shown'[Len(shown) + 1] = x
<1>1. /\ IsSequence(shown') /\ DOMAIN shown' = 1..(Len(shown) + 1) /\ Len(shown) \in Nat
      /\ DOMAIN shown = 1..Len(shown)
      /\ \A t \in DOMAIN shown : shown'[t] = shown[t]
      /\ shown'[Len(shown) + 1] = x
  BY Appended
<1>2. Len(shown') = Len(shown) + 1
  BY <1>1, SequenceFacts
<1> QED BY <1>1, <1>2

\* The tick of the next scene fits its field.
LEMMA TickIsWord ==
    ASSUME NetInv, Len(published) < MaxPublished
    PROVE  Tick \in Words /\ Tick = Len(shown) + 1
<1>1. Len(shown) \in Nat /\ Len(published) \in Nat /\ Len(shown) <= Len(published)
  BY SequenceFacts DEF NetInv, FramesInv, TopicInv
<1>2. MaxPublished \in Nat /\ MaxPublished < 65536
  BY NetworkingAssumption, WideBase
<1>3. Len(shown) + 1 \in Words
  <2> DEFINE n == Len(shown) + 1
  <2>1. n \in Nat /\ n < 65536
    BY <1>1, <1>2
  <2> HIDE DEF n
  <2>2. n \in Words
    BY <2>1, NumberIsWord
  <2> QED BY <2>2 DEF n
<1> QED BY <1>3 DEF Tick

LEMMA SceneFrames ==
    ASSUME NetInv, PublishScene
    PROVE  FramesInv' /\ OrderInv'
<1> DEFINE snapshot == EncodeOwned(scene, Sender, format)
           data == EncodeSnapshot(Tick, snapshot)
           pictures == Pictures(scene, Sender)
<1>1. /\ Len(published) < MaxPublished /\ Publish(GamePublisher, Topic, data)
      /\ shown' = Append(shown, pictures) /\ applied' = applied
  BY DEF PublishScene
<1>2. Tick \in Words /\ Tick = Len(shown) + 1
  BY <1>1, TickIsWord
<1>3. SenderOK(scene) /\ IsSequence(shown)
  BY DEF NetInv, FramesInv
<1>4. /\ IsSequence(snapshot) /\ Len(snapshot) < Base * Base
      /\ ReadSnapshot(snapshot) = Read(Records(scene, Sender, TRUE))
  BY <1>3, OwnedSnapshot
<1>5. IsSnapshot(snapshot, scene, pictures)
  BY <1>3, <1>4 DEF IsSnapshot
<1> HIDE DEF snapshot, pictures
<1>6. DecodeSnapshot(data) = [tick |-> Tick, payload |-> snapshot]
  BY <1>2, <1>4, FrameDecodes
<1> HIDE DEF data
<1>7. TickOf(data) = Len(shown) + 1 /\ PayloadOf(data) = snapshot
  BY <1>2, <1>6 DEF TickOf, PayloadOf
<1>8. /\ IsSequence(shown') /\ Len(shown') = Len(shown) + 1 /\ Len(shown) \in Nat
      /\ \A t \in 1..Len(shown) : shown'[t] = shown[t]
      /\ shown'[Len(shown) + 1] = pictures
  BY <1>1, <1>3, ShownAppended
<1>9. WasShown(data, shown')
  BY <1>5, <1>7, <1>8 DEF WasShown
<1> QED BY <1>1, <1>7, <1>8, <1>9, PublishFrames, NetworkingAssumption

LEMMA DamagedFrames ==
    ASSUME NetInv, PublishDamaged
    PROVE  FramesInv' /\ OrderInv'
<1>1. PICK snapshot \in Damaged(EncodeOwned(scene, Sender, format)) :
         Publish(GamePublisher, Topic, EncodeSnapshot(Tick, snapshot))
  BY DEF PublishDamaged
<1>2. /\ shown' = Append(shown, "damaged") /\ applied' = applied
      /\ Len(published) = MaxPublished - 1
  BY DEF PublishDamaged
<1>3. Len(published) < MaxPublished
  BY <1>2, NetworkingAssumption, WideBase
<1>4. Tick \in Words /\ Tick = Len(shown) + 1
  BY <1>3, TickIsWord
<1>5. SenderOK(scene) /\ IsSequence(shown)
  BY DEF NetInv, FramesInv
<1>6. IsSequence(snapshot) /\ Len(snapshot) < Base * Base /\ ReadSnapshot(snapshot) = Malformed
  BY <1>1, <1>5, OwnedSnapshot
<1> DEFINE data == EncodeSnapshot(Tick, snapshot)
<1>7. DecodeSnapshot(data) = [tick |-> Tick, payload |-> snapshot]
  BY <1>4, <1>6, FrameDecodes
<1>8. Publish(GamePublisher, Topic, data)
  BY <1>1
<1> HIDE DEF data
<1>9. ~Readable(data)
  BY <1>6, <1>7 DEF Readable, PayloadOf, Malformed
<1>10. /\ IsSequence(shown') /\ Len(shown') = Len(shown) + 1
       /\ \A t \in 1..Len(shown) : shown'[t] = shown[t]
  BY <1>2, <1>5, ShownAppended
<1> QED BY <1>2, <1>3, <1>8, <1>9, <1>10, PublishFrames, NetworkingAssumption

LEMMA PulseFrames ==
    ASSUME NetInv, NEW p \in Publishers, Pulse(p)
    PROVE  FramesInv' /\ OrderInv'
<1>1. /\ Len(published) < MaxPublished /\ Publish(p, PulseTopic, << 80 >>)
      /\ shown' = shown /\ applied' = applied
  BY DEF Pulse
<1>2. IsSequence(shown)
  BY DEF NetInv, FramesInv
<1>3. ASSUME NEW data, data = << 80 >> PROVE ~Readable(data)
  BY <1>3, PulseDecodes DEF Readable
<1>4. ASSUME NEW data, data = << 80 >> PROVE FramesInv' /\ OrderInv'
  <2>1. Publish(p, PulseTopic, data) /\ ~Readable(data)
    BY <1>1, <1>3, <1>4
  <2> QED BY <1>1, <1>2, <2>1, PublishFrames
<1> QED BY <1>4

\* The last frame: the message is newer than all that wait before it.
LEMMA DataFrames ==
    ASSUME NetInv, NEW p \in Publishers, PublishData(p), UNCHANGED <<shown, applied>>
    PROVE  FramesInv' /\ OrderInv'
<1>1. /\ pubMutex = p /\ pubMutex' = NoThread /\ published' = published
      /\ Deliver(open \o pending[p])
  BY DEF PublishData, SendingInv, NetInv, TopicInv
<1>2. PICK k \in DOMAIN published :
        open = <<published[k].topic>> /\ pending[p] = <<published[k].data>>
  BY <1>1, PublisherAssumption DEF SendingInv, NetInv, TopicInv
<1> DEFINE message == open \o pending[p]
           data == published[k].data
           topic == published[k].topic
<1>3. message = <<topic, data>> /\ pending[p] = <<data>>
  BY <1>2, TwoFrames
<1>4. queue' = queue \/ queue' = Append(queue, message)
  BY <1>1 DEF Deliver
<1> HIDE DEF message, data, topic
<1>5. message[2] = data
  BY <1>3, TwoFrames
<1>6. FramesInv'
  <2>1. FramesInv
    BY DEF NetInv
  <2> QED BY <1>1, <2>1 DEF FramesInv
<1>7. OrderInv /\ IsSequence(queue)
  BY DEF NetInv, TopicInv
<1>8. Waiting /\ ~Waiting'
  BY <1>1, PublisherAssumption DEF Waiting
<1>9. CASE queue' = queue
  BY <1>6, <1>7, <1>8, <1>9 DEF OrderInv, Newer
<1>10. CASE queue' = Append(queue, message)
  <2>1. /\ DOMAIN queue' = 1..(Len(queue) + 1) /\ DOMAIN queue = 1..Len(queue) /\ Len(queue) \in Nat
        /\ \A i \in DOMAIN queue : queue'[i] = queue[i]
        /\ queue'[Len(queue) + 1] = message
    BY <1>7, <1>10, Appended
  <2>2. /\ Newer(data, applied)
        /\ \A i \in DOMAIN queue : Readable(queue[i][2]) => Newer(data, TickOf(queue[i][2]))
    BY <1>1, <1>3, <1>7, <1>8 DEF OrderInv
  <2>3. ASSUME NEW i \in DOMAIN queue' PROVE Newer(queue'[i][2], applied)
    <3>1. CASE i \in DOMAIN queue
      BY <1>7, <2>1, <3>1 DEF OrderInv
    <3>2. CASE i = Len(queue) + 1
      BY <1>5, <2>1, <2>2, <3>2
    <3> QED BY <2>1, <3>1, <3>2
  <2>4. ASSUME NEW i \in DOMAIN queue', NEW j \in DOMAIN queue', i < j, Readable(queue'[i][2])
        PROVE  Newer(queue'[j][2], TickOf(queue'[i][2]))
    <3>1. i \in DOMAIN queue /\ queue'[i] = queue[i]
      BY <2>1, <2>4
    <3>2. CASE j \in DOMAIN queue
      BY <1>7, <2>1, <2>4, <3>1, <3>2 DEF OrderInv
    <3>3. CASE j = Len(queue) + 1
      BY <1>5, <2>1, <2>2, <2>4, <3>1, <3>3
    <3> QED BY <2>1, <3>2, <3>3
  <2>5. applied' \in 0..Len(shown')
    BY <1>7 DEF OrderInv
  <2> QED BY <1>6, <1>8, <2>3, <2>4, <2>5 DEF OrderInv, Newer
<1> QED BY <1>4, <1>6, <1>9, <1>10

\* listen() returns the second frame of the oldest message, and takes the message.
LEMMA HeardFacts ==
    ASSUME TopicInv, NEW l \in Listeners, Hear(l)
    PROVE  /\ UNCHANGED <<pubMutex, pending, published>>
           /\ 1 \in DOMAIN queue /\ DOMAIN queue = 1..Len(queue) /\ Len(queue) \in Nat
           /\ heard' = [status |-> "Success", data |-> queue[1][2]]
           /\ DOMAIN queue' = 1..(Len(queue) - 1)
           /\ \A i \in DOMAIN queue' : queue'[i] = queue[i + 1]
<1>1. UNCHANGED <<pubMutex, pending, published>> /\ queue # <<>>
  BY DEF Hear
<1>2. PICK S : queue \in Seq(S)
  BY DEF TopicInv, IsSequence
<1>3. /\ 1 \in DOMAIN queue /\ DOMAIN queue = 1..Len(queue) /\ Len(queue) \in Nat
      /\ Head(queue) = queue[1]
  BY <1>1, <1>2
<1>4. PICK k \in DOMAIN published : IsUpdate(queue[1], k)
  BY <1>3 DEF TopicInv, IsWhole
<1> DEFINE topic == published[k].topic
           data == published[k].data
<1>5. Head(queue) = <<topic, data>>
  BY <1>3, <1>4 DEF IsUpdate
<1> HIDE DEF topic, data
<1>6. Len(<<topic, data>>) = 2 /\ <<topic, data>>[2] = data /\ SubSeq(<<topic, data>>, 3, 2) = <<>>
  BY TwoFrames
<1>7. Len(Head(queue)) = 2 /\ Head(queue)[2] = data
      /\ SubSeq(Head(queue), 3, Len(Head(queue))) = <<>>
  BY <1>5, <1>6, Zenon
<1>8. queue' = <<>> \o Tail(queue) /\ heard' = [status |-> "Success", data |-> Head(queue)[2]]
  BY <1>7 DEF Hear, ReturnHeard
<1>9. DOMAIN queue' = 1..(Len(queue) - 1) /\ \A i \in DOMAIN queue' : queue'[i] = queue[i + 1]
  BY <1>1, <1>2, <1>8
<1> QED BY <1>1, <1>3, <1>8, <1>9

\* A scene that is applied.
LEMMA AppliedSnapshot ==
    ASSUME ReceiverOK(copies), NEW payload, NEW a, NEW pictures,
           IsSnapshot(payload, a, pictures), ApplySnapshot(payload)
    PROVE  /\ ReceiverOK(copies') /\ LocalKept(copies', copies)
           /\ Mirror(copies', pictures)
           /\ copies'.receivedFrom[Sender] = DOMAIN pictures
           /\ Forgotten(copies', copies, copies.receivedFrom[Sender] \ DOMAIN pictures)
<1> DEFINE s == Records(a, Sender, TRUE)
<1>1. SenderOK(a) /\ pictures = Pictures(a, Sender) /\ ReadSnapshot(payload) = Read(s)
  BY DEF IsSnapshot
<1>2. Read(s).ok = TRUE /\ Read(s).records = s
  BY DEF Read
<1>3. PICK g \in Numberings(copies, NewIds(copies, Receiver, s)) :
         copies' = ApplyRecords(copies, Receiver, s, Sender, g)
  BY <1>1, <1>2 DEF ApplySnapshot
<1>4. /\ SceneInv(copies, Receiver, NetIds, {Sender}) /\ Sender \in {Sender} /\ Receiver # Sender
      /\ DOMAIN copies.receivedFrom = {Sender}
  BY ReplicationAssumption DEF ReceiverOK, SceneInv, WorldInv, Core
<1>5. /\ SceneInv(a, Sender, NetIds, {Sender})
      /\ DOMAIN a.entities \subseteq NetIds /\ IsFiniteSet(DOMAIN a.entities)
  <2>1. /\ SceneInv(a, Sender, NetIds, {Sender}) /\ DOMAIN a.entities \subseteq NetIds
        /\ \A id \in DOMAIN a.entities : OwnerOf(id) = Sender
    BY <1>1 DEF SenderOK, SceneInv, WorldInv, WorldOK, Core
  <2> QED BY <2>1, OwnFinite
<1>6. \E n \in Nat : DOMAIN s = 1..n /\ \A i \in 1..n : NetId(s[i].id) \in NetIds
  <2>1. Living(a, Sender) \subseteq NetIds
    BY <1>5 DEF Living
  <2> QED BY <1>5, <2>1, RecordsFacts
<1> DEFINE v == ApplyRecords(copies, Receiver, s, Sender, g)
<1>7. Includes(v, a, Sender) /\ LocalKept(v, copies) /\ Seen(Receiver, s) = Living(a, Sender)
  BY <1>3, <1>4, <1>5, SnapshotMirrored
<1> HIDE DEF s
<1>8. /\ SceneInv(v, Receiver, NetIds, {Sender}) /\ StoresLive(v)
      /\ v.receivedFrom = [copies.receivedFrom EXCEPT ![Sender] = Seen(Receiver, s)]
      /\ Forgotten(v, copies, copies.receivedFrom[Sender] \ Seen(Receiver, s))
  BY <1>3, <1>4, <1>6, NothingIsLeftBehind
<1> HIDE DEF v
<1>9. copies' = v
  BY <1>3 DEF v
<1>10. DOMAIN pictures = Living(a, Sender)
       /\ \A id \in Living(a, Sender) : pictures[id] = Picture(a, id)
  BY <1>1 DEF Pictures, Living
<1>11. DOMAIN Pictures(v, Sender) = Living(v, Sender)
       /\ \A id \in Living(v, Sender) : Pictures(v, Sender)[id] = Picture(v, id)
  BY DEF Pictures, Living
<1>12. Mirror(v, pictures)
  BY <1>7, <1>10, <1>11 DEF Mirror, Includes
<1>13. v.receivedFrom[Sender] = DOMAIN pictures
  BY <1>4, <1>7, <1>8, <1>10
<1> QED BY <1>7, <1>8, <1>9, <1>10, <1>12, <1>13 DEF ReceiverOK

\* What CopiesMirror and NothingOutlives say of a step.
Mirrors ==
    IF applied' = applied THEN copies' # copies => edits' # edits
    ELSE /\ applied' > applied
         /\ Mirror(copies', shown[applied'])
         /\ \A e \in copies.live \cap copies'.live :
            /\ Get(copies', Text, e) = Get(copies, Text, e)
            /\ Has(copies, Shape, e) /\ Has(copies', Shape, e) =>
                  Get(copies', Shape, e).texture = Get(copies, Shape, e).texture

Outlives ==
    /\ \A e \in copies.live \ copies'.live : \A k \in Kinds : e \notin DOMAIN copies'.stores[k]
    /\ applied' # applied =>
          \A id \in DOMAIN ShownAt(applied) \ DOMAIN shown[applied'] :
              /\ id \notin DOMAIN copies'.entities /\ id \notin DOMAIN copies'.extras
              /\ EntityOf(copies, id) \cap copies'.live = {}

\* A step that applies nothing.
LEMMA NothingApplied ==
    ASSUME ReceiverOK(copies'), applied' = applied, copies' # copies => edits' # edits
    PROVE  Mirrors /\ Outlives
<1>1. Mirrors
  BY DEF Mirrors
<1>2. Outlives
  BY DEF Outlives, ReceiverOK, StoresLive
<1> QED BY <1>1, <1>2

LEMMA HearFrames ==
    ASSUME NetInv, NEW l \in Listeners, HearScene(l)
    PROVE  ReceiverOK(copies') /\ ListInv' /\ FramesInv' /\ OrderInv' /\ Mirrors /\ Outlives
<1> DEFINE data == queue[1][2]
           got == DecodeSnapshot(data)
<1>1. /\ TopicInv /\ ReceiverOK(copies) /\ ListInv /\ FramesInv /\ OrderInv
      /\ Hear(l) /\ UNCHANGED <<scene, format, edits, shown>>
      /\ Len(shown) \in Nat
  BY SequenceFacts DEF NetInv, HearScene, FramesInv
<1>2. /\ UNCHANGED <<pubMutex, pending, published>>
      /\ 1 \in DOMAIN queue /\ DOMAIN queue = 1..Len(queue) /\ Len(queue) \in Nat
      /\ heard' = [status |-> "Success", data |-> data]
      /\ DOMAIN queue' = 1..(Len(queue) - 1)
      /\ \A i \in DOMAIN queue' : queue'[i] = queue[i + 1]
  BY <1>1, HeardFacts
<1> HIDE DEF data
<1>3. heard'.status = "Success" /\ heard'.data = data
  BY <1>2
<1>4. IF Readable(data) THEN ApplySnapshot(PayloadOf(data)) /\ applied' = TickOf(data)
      ELSE UNCHANGED <<copies, applied>>
  BY <1>3 DEF HearScene, Readable, TickOf, PayloadOf
<1>5. FramesInv'
  BY <1>1, <1>2 DEF FramesInv
<1>6. \A i \in DOMAIN queue' : i + 1 \in DOMAIN queue /\ i \in Nat /\ 1 < i + 1
  BY <1>2
<1>7. ASSUME applied' \in 0..Len(shown),
             \A i \in DOMAIN queue : i # 1 => Newer(queue[i][2], applied'),
             Waiting => \A d : pending[pubMutex] = <<d>> => Newer(d, applied')
      PROVE  OrderInv'
  <2>1. \A i \in DOMAIN queue' : Newer(queue'[i][2], applied')
    BY <1>2, <1>6, <1>7
  <2>2. ASSUME NEW i \in DOMAIN queue', NEW j \in DOMAIN queue', i < j, Readable(queue'[i][2])
        PROVE  Newer(queue'[j][2], TickOf(queue'[i][2]))
    <3>1. /\ i + 1 \in DOMAIN queue /\ j + 1 \in DOMAIN queue /\ i + 1 < j + 1
          /\ queue'[i] = queue[i + 1] /\ queue'[j] = queue[j + 1]
      BY <1>2, <1>6, <2>2
    <3> QED BY <1>1, <2>2, <3>1 DEF OrderInv
  <2>3. Waiting' => \A d : pending'[pubMutex'] = <<d>> =>
          /\ Newer(d, applied')
          /\ \A i \in DOMAIN queue' : Readable(queue'[i][2]) => Newer(d, TickOf(queue'[i][2]))
    BY <1>1, <1>2, <1>6, <1>7 DEF OrderInv, Waiting
  <2> QED BY <1>1, <1>7, <2>1, <2>2, <2>3 DEF OrderInv, Newer
<1>8. CASE ~Readable(data)
  <2>1. copies' = copies /\ applied' = applied
    BY <1>4, <1>8
  <2>2. OrderInv'
    BY <1>1, <1>7, <2>1 DEF OrderInv
  <2>3. ReceiverOK(copies') /\ ListInv'
    BY <1>1, <2>1 DEF ListInv, ShownAt
  <2> QED BY <1>5, <2>1, <2>2, <2>3, NothingApplied
<1>9. CASE Readable(data)
  <2>1. ApplySnapshot(PayloadOf(data)) /\ applied' = TickOf(data)
    BY <1>4, <1>9
  <2>2. PICK k \in DOMAIN published : data = published[k].data
    BY <1>1, <1>2, QueueData DEF data
  <2>3. WasShown(data, shown)
    BY <1>1, <1>9, <2>2 DEF FramesInv
  <2>4. PICK a : IsSnapshot(PayloadOf(data), a, shown[TickOf(data)])
    BY <2>3 DEF WasShown
  <2>5. /\ ReceiverOK(copies') /\ LocalKept(copies', copies)
        /\ Mirror(copies', shown[TickOf(data)])
        /\ copies'.receivedFrom[Sender] = DOMAIN shown[TickOf(data)]
        /\ Forgotten(copies', copies, copies.receivedFrom[Sender] \ DOMAIN shown[TickOf(data)])
    BY <1>1, <2>1, <2>4, AppliedSnapshot
  <2>6. applied < TickOf(data)
    BY <1>1, <1>2, <1>9 DEF OrderInv, Newer, data
  <2>7. TickOf(data) \in 1..Len(shown) /\ applied \in 0..Len(shown)
    BY <1>1, <2>3 DEF WasShown, OrderInv
  <2>8. OrderInv'
    <3>1. \A i \in DOMAIN queue : i # 1 => 1 < i
      BY <1>2
    <3>2. \A i \in DOMAIN queue : i # 1 => Newer(queue[i][2], applied')
      BY <1>1, <1>2, <1>9, <2>1, <3>1 DEF OrderInv, data
    <3>3. Waiting => \A d : pending[pubMutex] = <<d>> => Newer(d, applied')
      BY <1>1, <1>2, <1>9, <2>1 DEF OrderInv, data
    <3>4. applied' \in 0..Len(shown)
      BY <1>1, <2>1, <2>7
    <3> QED BY <1>7, <3>2, <3>3, <3>4
  <2>9. \A e \in copies.live \cap copies'.live :
           /\ Get(copies', Text, e) = Get(copies, Text, e)
           /\ Has(copies, Shape, e) /\ Has(copies', Shape, e) =>
                 Get(copies', Shape, e).texture = Get(copies, Shape, e).texture
    BY <2>5 DEF LocalKept, SameComponent
  <2>10. applied' > applied /\ applied' # applied /\ Mirror(copies', shown[applied'])
    BY <2>1, <2>5, <2>6, <2>7
  <2>11. ListInv'
    BY <1>1, <2>1, <2>5, <2>6, <2>7 DEF ListInv, ShownAt
  <2>12. Outlives
    BY <1>1, <2>1, <2>5 DEF Outlives, Forgotten, ListInv, ReceiverOK, StoresLive
  <2> QED BY <1>5, <2>5, <2>8, <2>9, <2>10, <2>11, <2>12 DEF Mirrors
<1> QED BY <1>8, <1>9

LEMMA NetStarts == Init => NetInv
<1> SUFFICES ASSUME Init PROVE NetInv
  OBVIOUS
<1>1. TopicInv /\ UpdatesAreWhole
  BY TopicStarts DEF Init
<1>2. SenderOK(scene) /\ ReceiverOK(copies) /\ edits = 0 /\ copies.receivedFrom[Sender] = {}
  BY GameStarts DEF Init
<1>3. /\ shown = <<>> /\ published = <<>> /\ queue = <<>> /\ applied = 0 /\ ~Waiting
  BY DEF Init, TopicInit, Waiting
<1>4. IsSequence(<<>>) /\ Len(<<>>) = 0 /\ DOMAIN <<>> = {}
  BY Nothing
<1>5. 0 <= MaxPublished
  BY NetworkingAssumption, WideBase
<1>6. FramesInv /\ OrderInv
  BY <1>3, <1>4, <1>5 DEF FramesInv, OrderInv
<1>7. ListInv
  BY <1>2, <1>3, <1>4 DEF ListInv, ShownAt
<1> QED BY <1>1, <1>2, <1>6, <1>7 DEF NetInv

\* Steps that neither publish nor hear.
LEMMA FramesStay ==
    ASSUME FramesInv, OrderInv, UNCHANGED <<shown, published, applied, pending, pubMutex>>,
           queue' = queue \/ queue' = <<>>
    PROVE  FramesInv' /\ OrderInv'
<1>1. FramesInv'
  BY DEF FramesInv
<1>2. CASE queue' = queue
  BY <1>1, <1>2 DEF OrderInv, Newer, Waiting
<1>3. CASE queue' = <<>>
  <2>1. DOMAIN queue' = {}
    BY <1>3
  <2> QED BY <1>1, <2>1 DEF OrderInv, Newer, Waiting
<1> QED BY <1>2, <1>3

\* The list is kept where no scene is applied and none that was published changes.
LEMMA ListStays ==
    ASSUME ListInv, OrderInv, applied' = applied, copies'.receivedFrom = copies.receivedFrom,
           \A k \in 1..Len(shown) : shown'[k] = shown[k]
    PROVE  ListInv'
<1>1. applied \in 0..Len(shown)
  BY DEF OrderInv
<1>2. applied # 0 => applied \in 1..Len(shown)
  BY <1>1
<1> QED BY <1>2 DEF ListInv, ShownAt

LEMMA NetStep ==
    ASSUME NetInv, [Next]_vars
    PROVE  NetInv' /\ Mirrors /\ Outlives
<1>1. /\ TopicInv' /\ UpdatesAreWhole'
      /\ SenderOK(scene) /\ ReceiverOK(copies) /\ ListInv /\ FramesInv /\ OrderInv
      /\ edits \in Nat
  BY TopicNext DEF NetInv
<1>2. CASE UNCHANGED <<gameVars, topicVars, shown, applied>>
  <2>1. /\ UNCHANGED <<shown, published, applied, pending, pubMutex, queue>>
        /\ scene' = scene /\ copies' = copies /\ edits' = edits
    BY <1>2 DEF gameVars, topicVars
  <2>2. ListInv'
    BY <1>1, <2>1, ListStays
  <2> QED BY <1>1, <2>1, <2>2, FramesStay, NothingApplied DEF NetInv
<1>3. CASE RequestNext
  BY <1>2, <1>3 DEF RequestNext, SendAny, Requests
<1>4. CASE UNCHANGED vars
  BY <1>2, <1>4 DEF vars
<1>5. CASE PublishScene \/ PublishDamaged \/ \E p \in Publishers : Pulse(p)
  <2>1. scene' = scene /\ copies' = copies /\ applied' = applied /\ edits' = edits
    BY <1>5 DEF PublishScene, PublishDamaged, Pulse, gameVars
  <2>2. FramesInv' /\ OrderInv'
    BY <1>5, SceneFrames, DamagedFrames, PulseFrames
  <2>3. \A k \in 1..Len(shown) : shown'[k] = shown[k]
    <3>1. shown' = shown \/ \E x : shown' = Append(shown, x)
      BY <1>5 DEF PublishScene, PublishDamaged, Pulse
    <3>2. IsSequence(shown)
      BY <1>1 DEF FramesInv
    <3>3. PICK S : shown \in Seq(S)
      BY <3>2 DEF IsSequence
    <3>4. \A x, k : k \in 1..Len(shown) => Append(shown, x)[k] = shown[k]
      BY <3>3
    <3> QED BY <3>1, <3>4
  <2>4. ListInv'
    BY <1>1, <2>1, <2>3, ListStays
  <2> QED BY <1>1, <2>1, <2>2, <2>4, NothingApplied DEF NetInv
<1>6. ASSUME NEW p \in Publishers, Topics /\ PublishData(p)
      PROVE  NetInv' /\ Mirrors /\ Outlives
  <2>1. /\ scene' = scene /\ copies' = copies /\ applied' = applied /\ shown' = shown
        /\ edits' = edits
    BY <1>6 DEF Topics, gameVars
  <2>2. FramesInv' /\ OrderInv'
    BY <1>6, <2>1, DataFrames
  <2>3. ListInv'
    BY <1>1, <2>1, ListStays
  <2> QED BY <1>1, <2>1, <2>2, <2>3, NothingApplied DEF NetInv
<1>7. CASE Topics /\ (Connect \/ Disconnect \/ \E l \in Listeners : Listen(l) \/ HearNothing(l))
  <2>1. /\ scene' = scene /\ copies' = copies /\ applied' = applied /\ shown' = shown
        /\ edits' = edits
    BY <1>7 DEF Topics, gameVars
  <2>2. UNCHANGED <<published, pending, pubMutex>> /\ (queue' = queue \/ queue' = <<>>)
    BY <1>7 DEF Connect, Disconnect, Listen, HearNothing
  <2>3. FramesInv' /\ OrderInv'
    BY <1>1, <2>1, <2>2, FramesStay
  <2>4. ListInv'
    BY <1>1, <2>1, ListStays
  <2> QED BY <1>1, <2>1, <2>3, <2>4, NothingApplied DEF NetInv
<1>8. ASSUME NEW l \in Listeners, HearScene(l) PROVE NetInv' /\ Mirrors /\ Outlives
  <2>1. scene' = scene /\ edits' = edits
    BY <1>8 DEF HearScene
  <2>2. ReceiverOK(copies') /\ ListInv' /\ FramesInv' /\ OrderInv' /\ Mirrors /\ Outlives
    BY <1>8, HearFrames
  <2> QED BY <1>1, <2>1, <2>2 DEF NetInv
<1>9. CASE Games /\ (AddEntity \/ EditEntity \/ SetFormat \/ TouchCopies)
  <2>1. UNCHANGED <<shown, published, applied, pending, pubMutex, queue>>
    BY <1>9 DEF Games, topicVars
  <2>2. FramesInv' /\ OrderInv'
    BY <1>1, <2>1, FramesStay
  <2>3. /\ SenderOK(scene') /\ ReceiverOK(copies') /\ copies'.receivedFrom = copies.receivedFrom
        /\ edits' = edits + 1 \/ (edits' = edits /\ copies' = copies)
    <3>1. CASE AddEntity \/ EditEntity
      BY <1>1, <3>1, SenderEdits
    <3>2. CASE SetFormat
      BY <1>1, <3>2 DEF SetFormat
    <3>3. CASE TouchCopies
      BY <1>1, <3>3, ReceiverTouches
    <3> QED BY <1>9, <3>1, <3>2, <3>3
  <2>4. ListInv'
    BY <1>1, <2>1, <2>3, ListStays
  <2>5. edits' \in Nat /\ (copies' # copies => edits' # edits)
    BY <1>1, <2>3
  <2>6. Mirrors /\ Outlives
    BY <2>1, <2>3, <2>5, NothingApplied
  <2> QED BY <1>1, <2>2, <2>3, <2>4, <2>5, <2>6 DEF NetInv
<1>10. CASE SubPubNext
  BY <1>5, <1>6, <1>7, <1>8, <1>9, <1>10 DEF SubPubNext
<1> QED BY <1>3, <1>4, <1>10 DEF Next

LEMMA NetAlways == Spec => []NetInv
<1>1. NetInv /\ [Next]_vars => NetInv'
  BY NetStep
<1> QED BY <1>1, NetStarts, PTL DEF Spec

\* What one scene showed and the next that is applied does not show is gone with its extra bytes,
\* whatever the receiver's game destroyed, untracked, bound or set in between, and which frames
\* were lost or damaged; and no component outlives its entity (sceneReplicator.cpp:311-318,
\* 339-349, entity.cpp:15-20).
THEOREM NothingStaysBehind == Spec => NothingOutlives
<1>1. NetInv /\ [Next]_vars => [Outlives]_vars
  BY NetStep
<1>2. NothingOutlives <=> [][Outlives]_vars
  BY PTL DEF NothingOutlives, Outlives
<1> QED BY <1>1, <1>2, NetAlways, PTL DEF Spec

\* A scene that is applied shows the sender's entities as they were when it was published,
\* newer than any applied before, through both formats, the frame around them, the topic and
\* its queue, and leaves alone what is local; what cannot be read changes nothing
\* (sceneReplicator.cpp:33-174, 225-320).
THEOREM ScenesAreMirrored == Spec => CopiesMirror
<1>1. NetInv /\ [Next]_vars => [Mirrors]_vars
  BY NetStep
<1>2. CopiesMirror <=> [][Mirrors]_vars
  BY PTL DEF CopiesMirror, Mirrors
<1> QED BY <1>1, <1>2, NetAlways, PTL DEF Spec
=============================================================================
