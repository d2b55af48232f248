------------------------------ MODULE Networking ------------------------------
(***************************************************************************)
(* The transports under the programs of examples/networking_demo           *)
(* (client.cpp, server.cpp) and under a session: requests and replies in   *)
(* one mode, as the programs are started, and published scenes in the      *)
(* other.                                                                  *)
(*                                                                         *)
(* In mode "subpub" one thread publishes the scene of a client             *)
(* (peerSession::publishScene) and others publish pulses, as the demo      *)
(* does; a listener applies what it hears to its copies.  What another     *)
(* program sends may be cut, longer, or of another version: it changes     *)
(* nothing.                                                                *)
(***************************************************************************)
EXTENDS Replication, RequestReply, PubSub

CONSTANTS
    GamePublisher,       \* the thread that publishes the scene
    Topic, PulseTopic,   \* topics of the scenes and of the pulses
    MaxPublished         \* bound: calls of publish()

\* A tick fits its field.
ASSUME NetworkingAssumption ==
    GamePublisher \in Publishers /\ MaxPublished \in 0 .. Base * Base - 1

VARIABLES
    mode,      \* the first argument of the two programs
    shown,     \* the scene at each tick it was published on
    applied    \* the tick of the last scene that was applied

vars == <<gameVars, requestVars, topicVars, mode, shown, applied>>

Init ==
    /\ mode \in {"requests", "subpub"}
    /\ GameInit /\ RequestInit /\ TopicInit
    /\ mode = "requests" => connected
    /\ mode = "subpub" => pairing = CHOOSE p \in Pairings : TRUE
    /\ shown = <<>>
    /\ applied = 0

-----------------------------------------------------------------------------
(***************************************************************************)
(* client (string | template | bytes), server (string | template | bytes). *)
(***************************************************************************)
Requests ==
    /\ mode = "requests"
    /\ UNCHANGED <<gameVars, topicVars, mode, shown, applied>>

\* Bound: what is damaged is sent when no other request is on its way.
SendAny(c) ==
    /\ Requests
    /\ \E packet \in Packets(pairing) :
          /\ packet.whole \/ (requests = {} /\ handling = Idle)
          /\ Send(c, packet)

RequestNext ==
    \/ \E c \in Callers : SendAny(c)
    \/ \E c \in Callers : Requests /\ Receive(c)
    \/ \E c \in Callers : Requests /\ TimeOut(c)
    \/ \E t \in Threads : Requests /\ Run(t)
    \/ \E t \in Threads : Requests /\ CheckStop(t)
    \/ \E t \in Threads : Requests /\ TakeRequest(t)
    \/ \E t \in Threads : Requests /\ NoRequest(t)
    \/ \E t \in Threads : Requests /\ Handle(t)
    \/ \E t \in Threads : Requests /\ LeaveRun(t)
    \/ Requests /\ Stop

-----------------------------------------------------------------------------
(***************************************************************************)
(* client subpub, server subpub.                                           *)
(***************************************************************************)
SubPub == mode = "subpub" /\ UNCHANGED <<requestVars, mode>>

Tick == Len(shown) + 1

\* The frame of a scene, and what else a peer may get under its topic: a snapshot that was
\* cut, that has more after it, or that is of another version.
Damaged(snapshot) ==
    {SubSeq(snapshot, 1, n) : n \in 0 .. Len(snapshot) - 1} \cup {Append(snapshot, 0)}
    \cup IF Head(snapshot) = OpenBrace THEN {[snapshot EXCEPT ![2].v = 2]}
         ELSE {[snapshot EXCEPT ![1] = 2]}

PublishScene ==
    /\ Len(published) < MaxPublished
    /\ LET snapshot == EncodeOwned(scene, Sender, format)
       IN  Publish(GamePublisher, Topic, EncodeSnapshot(Tick, snapshot))
    /\ shown' = Append(shown, Pictures(scene, Sender))
    /\ UNCHANGED <<gameVars, applied>>

\* Bound: the last that is published, after the last edit, while no message is queued.
PublishDamaged ==
    /\ Len(published) = MaxPublished - 1 /\ edits = MaxEdits /\ queue = <<>> /\ connected
    /\ \E snapshot \in Damaged(EncodeOwned(scene, Sender, format)) :
          Publish(GamePublisher, Topic, EncodeSnapshot(Tick, snapshot))
    /\ shown' = Append(shown, "damaged")
    /\ UNCHANGED <<gameVars, applied>>

Pulse(p) ==
    /\ Len(published) < MaxPublished
    /\ Publish(p, PulseTopic, <<80>>)
    /\ UNCHANGED <<gameVars, shown, applied>>

\* Slip: applies the records as it reads them, before it knows that the last one is whole.
HearScene_AppliesAsItReads(l) ==
    /\ Hear(l)
    /\ LET got     == DecodeSnapshot(heard'.data)
           reader  == Reader(got.payload, [version |-> 0, records |-> <<>>])
           version == GetFields(reader, <<Field("version", Byte)>>)
           read    == GetList(version, "records", EntityLayout, EntityRecord).got.records
       IN  IF heard'.status # "Success" \/ got = NotDecoded THEN UNCHANGED <<copies, applied>>
           ELSE IF ReadSnapshot(got.payload).ok
           THEN ApplySnapshot(got.payload) /\ applied' = got.tick
           ELSE /\ copies' = ApplyEach(copies, Receiver,
                                  SelectSeq(read, LAMBDA r : EntityOf(copies, NetId(r.id)) # {}))
                /\ UNCHANGED applied
    /\ UNCHANGED <<scene, format, edits, shown>>

\* The call returns, and its thread applies what it got.
HearScene(l) ==
    /\ Hear(l)
    /\ LET got == DecodeSnapshot(heard'.data)
       IN  IF heard'.status # "Success" \/ got = NotDecoded
              \/ ~ReadSnapshot(got.payload).ok
           THEN UNCHANGED <<copies, applied>>
           ELSE ApplySnapshot(got.payload) /\ applied' = got.tick
    /\ UNCHANGED <<scene, format, edits, shown>>

Games == UNCHANGED <<topicVars, shown, applied>>

Topics == UNCHANGED <<gameVars, shown, applied>>

SubPubNext ==
    \/ SubPub /\ PublishScene
    \/ SubPub /\ PublishDamaged
    \/ \E p \in Publishers \ {GamePublisher} : SubPub /\ Pulse(p)
    \/ \E p \in Publishers : SubPub /\ Topics /\ PublishData(p)
    \/ SubPub /\ Topics /\ Connect
    \/ SubPub /\ Topics /\ Disconnect
    \/ \E l \in Listeners : SubPub /\ Topics /\ Listen(l)
    \/ \E l \in Listeners : SubPub /\ HearScene(l)
    \/ \E l \in Listeners : SubPub /\ Topics /\ HearNothing(l)
    \/ SubPub /\ Games /\ AddEntity
    \/ SubPub /\ Games /\ EditEntity
    \/ SubPub /\ Games /\ SetFormat
    \/ SubPub /\ Games /\ TouchCopies

-----------------------------------------------------------------------------
Next == RequestNext \/ SubPubNext

Spec == Init /\ [][Next]_vars

\* A thread inside run() is scheduled, and its wait for a request ends.
FairSpec ==
    /\ Spec
    /\ \A t \in Threads :
          /\ WF_vars(Requests /\ CheckStop(t))
          /\ WF_vars(Requests /\ (TakeRequest(t) \/ NoRequest(t)))
          /\ WF_vars(Requests /\ Handle(t))
          /\ WF_vars(Requests /\ LeaveRun(t))

-----------------------------------------------------------------------------
\* The scene that was published on a tick, none before the first.
ShownAt(tick) == IF tick = 0 THEN <<>> ELSE shown[tick]

\* What the copies of the sender's entities look like is what these pictures show.
Mirror(w, pictures) ==
    LET seen == Pictures(w, Sender)
    IN  \A id \in DOMAIN pictures : id \in DOMAIN seen /\ seen[id] = pictures[id]

\* A scene that is applied makes the copies what the sender's entities were when it was
\* encoded, in either format, whatever both games did since and whichever scenes were lost;
\* no older scene follows a newer one, and what is damaged changes nothing.  What is local
\* to a copy stays: the texture of a shape that it keeps, and a component that is not
\* replicated (sceneReplicator.cpp:225-320, 33-174).
CopiesMirror ==
    [][IF applied' = applied THEN copies' # copies => edits' # edits
       ELSE /\ applied' > applied
            /\ Mirror(copies', shown[applied'])
            /\ \A e \in copies.live \cap copies'.live :
               /\ Get(copies', Text, e) = Get(copies, Text, e)
               /\ Has(copies, Shape, e) /\ Has(copies', Shape, e) =>
                     Get(copies', Shape, e).texture = Get(copies, Shape, e).texture]_vars

\* What one scene showed and the next that is applied does not show is gone without a trace,
\* whatever the receiver's game did with the copy in between: the id is unmapped, the entity
\* that has it is destroyed, and the extra bytes go even if the game destroyed the copy itself,
\* untracked it or bound it to another id, calls that may leave them behind until then.  And no
\* component outlives an entity that is destroyed (sceneReplicator.cpp:311-318, 339-349,
\* entity.cpp:15-20).
NothingOutlives ==
    [][/\ \A e \in copies.live \ copies'.live : \A k \in Kinds : e \notin DOMAIN copies'.stores[k]
       /\ applied' # applied =>
             \A id \in DOMAIN ShownAt(applied) \ DOMAIN shown[applied'] :
                 /\ id \notin DOMAIN copies'.entities /\ id \notin DOMAIN copies'.extras
                 /\ EntityOf(copies, id) \cap copies'.live = {}]_vars
=============================================================================
