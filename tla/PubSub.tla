-------------------------------- MODULE PubSub --------------------------------
(***************************************************************************)
(* A publisher and a subscriber (src/networking/publisher.cpp,             *)
(* subscriber.cpp) of one topic prefix.                                    *)
(*                                                                         *)
(* Several threads publish through one socket, frame by frame; several may *)
(* call listen.  Messages are lost while the subscriber is not connected   *)
(* and when its queue is full.                                             *)
(***************************************************************************)
EXTENDS Integers, Sequences, SequencesExt, FiniteSets

CONSTANTS
    Publishers,   \* threads that call publish()
    Listeners,    \* threads that call listen()
    Prefix,       \* the subscription
    QueueLimit    \* messages the subscriber's queue holds

NoThread == "NoThread"

ASSUME PublisherAssumption == NoThread \notin Publishers

VARIABLES
    pubMutex,    \* the thread inside the publisher's mutex_
    pending,     \* [thread -> frames it has still to send]
    open,        \* frames of the message whose last frame is not sent
    published,   \* the updates given to publish(), oldest first
    connected,   \* is the subscriber connected?
    queue,       \* messages for the subscriber, each a sequence of frames
    listening,   \* the threads inside receive(), with running_ taken
    heard        \* what the last call that ended returned

topicVars == <<pubMutex, pending, open, published, connected, queue, listening, heard>>

NothingHeard == [status |-> "NoMessage", data |-> <<>>]

TopicInit ==
    /\ pubMutex = NoThread
    /\ pending = [p \in Publishers |-> <<>>]
    /\ open = <<>> /\ published = <<>>
    /\ connected \in BOOLEAN
    /\ queue = <<>>
    /\ listening = {}
    /\ heard = NothingHeard

-----------------------------------------------------------------------------
\* The message goes to a subscriber that is there, wants its topic and has room for it.
Deliver(message) ==
    queue' = IF connected /\ IsPrefix(Prefix, Head(message)) /\ Len(queue) < QueueLimit
             THEN Append(queue, message) ELSE queue

\* Slip: publish() takes no lock.
Publish_NoLock(p, topic, data) ==
    /\ pending[p] = <<>>
    /\ open' = Append(open, topic)
    /\ pending' = [pending EXCEPT ![p] = <<data>>]
    /\ published' = Append(published, [topic |-> topic, data |-> data])
    /\ UNCHANGED <<pubMutex, connected, queue, listening, heard>>

\* publish() up to its first frame, the topic, which says that more follow.
Publish(p, topic, data) ==
    /\ pubMutex = NoThread
    /\ pubMutex' = p
    /\ open' = Append(open, topic)
    /\ pending' = [pending EXCEPT ![p] = <<data>>]
    /\ published' = Append(published, [topic |-> topic, data |-> data])
    /\ UNCHANGED <<connected, queue, listening, heard>>

\* The last frame completes the message.
PublishData(p) ==
    /\ pending[p] # <<>>
    /\ Deliver(open \o pending[p])
    /\ open' = <<>>
    /\ pending' = [pending EXCEPT ![p] = <<>>]
    /\ pubMutex' = NoThread
    /\ UNCHANGED <<published, connected, listening, heard>>

-----------------------------------------------------------------------------
\* Only the thread that listens connects and disconnects, not inside listen.
Connect ==
    /\ ~connected /\ listening = {}
    /\ connected' = TRUE
    /\ UNCHANGED <<pubMutex, pending, open, published, queue, listening, heard>>

\* What was queued may go with the connection.
Disconnect ==
    /\ connected /\ listening = {}
    /\ connected' = FALSE
    /\ queue' \in {queue, <<>>}
    /\ UNCHANGED <<pubMutex, pending, open, published, listening, heard>>

\* receive() on a second thread is refused.
Listen(l) ==
    /\ l \notin listening
    /\ listening' = IF listening = {} THEN {l} ELSE listening
    /\ heard' = NothingHeard
    /\ UNCHANGED <<pubMutex, pending, open, published, connected, queue>>

ReturnHeard(l, result) ==
    /\ heard' = result
    /\ listening' = listening \ {l}

\* A message of one frame is refused; of a longer one the first two are taken.
Hear(l) ==
    /\ l \in listening /\ queue # <<>>
    /\ LET message == Head(queue)
           left == SubSeq(message, 3, Len(message))
       IN  /\ IF Len(message) = 1
              THEN ReturnHeard(l, [status |-> "InvalidSize", data |-> <<>>])
              ELSE ReturnHeard(l, [status |-> "Success", data |-> message[2]])
           /\ queue' = (IF left = <<>> THEN <<>> ELSE <<left>>) \o Tail(queue)
    /\ UNCHANGED <<pubMutex, pending, open, published, connected>>

\* The wait timed out or was interrupted.
HearNothing(l) ==
    /\ l \in listening
    /\ ReturnHeard(l, NothingHeard)
    /\ UNCHANGED <<pubMutex, pending, open, published, connected, queue>>

-----------------------------------------------------------------------------
\* What a call of listen returned with success is one whole update of a subscribed topic,
\* whatever else was published meanwhile: frames of two updates never mix
\* (publisher.cpp:30-54, subscriber.cpp:99-129).
UpdatesAreWhole ==
    heard.status = "Success" =>
        \E i \in DOMAIN published : /\ IsPrefix(Prefix, published[i].topic)
                                    /\ published[i].data = heard.data
=============================================================================
