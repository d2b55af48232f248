----------------------------- MODULE SessionCodec -----------------------------
(***************************************************************************)
(* The bytes of a session's requests, replies and published scenes         *)
(* (src/networking/sessionProtocol.hpp).  Decoding gives the record, or    *)
(* NotDecoded.                                                             *)
(***************************************************************************)
EXTENDS ByteCodec

NotDecoded == <<>>

Decoded(reader) == Once(LAMBDA r : IF Whole(r) THEN r.got ELSE NotDecoded, reader)

DecodedAs(kinds, reader) ==
    Once(LAMBDA r : IF Whole(r) /\ r.got.kind \in kinds THEN r.got ELSE NotDecoded, reader)

\* RequestKind and ReplyStatus
Join   == 1
Update == 2
Leave  == 3

Ok            == 0
Rejected      == 1
UnknownClient == 2

-----------------------------------------------------------------------------
(***************************************************************************)
(* The records, as wide as their fields are here.                          *)
(***************************************************************************)
Words == 0 .. Base * Base - 1
Runs  == {s \in Seq(0 .. Base - 1) : Len(s) < Base * Base}

Lists(S) == {s \in Seq(S) : Len(s) < Base * Base}

JoinRequests == [kind : {Join}, token : Words, hello : Runs, peerEndpoint : Runs]

JoinReplies == [status : {Ok, Rejected, UnknownClient}, id : Words, updatePort : Words]

Messages == [seq : Words, type : Words, tick : Words, payload : Runs]

\* A state that is not sent is empty.
UpdateRequests ==
    {r \in [kind : {Update, Leave}, id : Words, tick : Words, ackSeq : Words,
            rosterVersion : Words, hasState : BOOLEAN, state : Runs, messages : Lists(Messages)] :
        ~r.hasState => r.state = <<>>}

Events == [change : 0..1, id : Words, hello : Runs, peerEndpoint : Runs]

UpdateReplies ==
    {r \in [status : {Ok, Rejected, UnknownClient}, ackSeq : Words, rosterVersion : Words,
            rosterEvents : Lists(Events), messages : Lists(Messages), hasSnapshot : BOOLEAN,
            snapshotTick : Words, snapshot : Runs] :
        ~r.hasSnapshot => r.snapshotTick = 0 /\ r.snapshot = <<>>}

-----------------------------------------------------------------------------
NewJoinRequest == [kind |-> 0, token |-> 0, hello |-> <<>>, peerEndpoint |-> <<>>]

JoinRequestLayout ==
    << Field("kind", Byte), Field("token", Wide), Field("hello", Counted),
       Field("peerEndpoint", Counted) >>

EncodeJoinRequest(r) == PutFields(r, JoinRequestLayout)

DecodeJoinRequest(data) ==
    DecodedAs({Join}, GetFields(Reader(data, NewJoinRequest), JoinRequestLayout))

NewJoinReply == [status |-> 0, id |-> 0, updatePort |-> 0]

JoinReplyLayout == << Field("status", Byte), Field("id", Wide), Field("updatePort", Wide) >>

EncodeJoinReply(r) == PutFields(r, JoinReplyLayout)

DecodeJoinReply(data) == Decoded(GetFields(Reader(data, NewJoinReply), JoinReplyLayout))

-----------------------------------------------------------------------------
NewMessage == [seq |-> 0, type |-> 0, tick |-> 0, payload |-> <<>>]

MessageLayout ==
    << Field("seq", Wide), Field("type", Wide), Field("tick", Wide), Field("payload", Counted) >>

GetMessages(r) == GetList(r, "messages", MessageLayout, NewMessage)

NewUpdateRequest ==
    [kind |-> 0, id |-> 0, tick |-> 0, ackSeq |-> 0, rosterVersion |-> 0,
     hasState |-> FALSE, state |-> <<>>, messages |-> <<>>]

UpdateRequestLayout ==
    << Field("kind", Byte), Field("id", Wide), Field("tick", Wide), Field("ackSeq", Wide),
       Field("rosterVersion", Wide), Field("hasState", Bool),
       FieldIf("hasState", {TRUE}, "state", Counted) >>

EncodeUpdateRequest(r) ==
    PutFields(r, UpdateRequestLayout) \o PutList(r.messages, MessageLayout)

DecodeUpdateRequest(data) ==
    DecodedAs({Update, Leave},
              GetMessages(GetFields(Reader(data, NewUpdateRequest), UpdateRequestLayout)))

NewEvent == [change |-> 0, id |-> 0, hello |-> <<>>, peerEndpoint |-> <<>>]

EventLayout ==
    << Field("change", Byte), Field("id", Wide), Field("hello", Counted),
       Field("peerEndpoint", Counted) >>

NewUpdateReply ==
    [status |-> 0, ackSeq |-> 0, rosterVersion |-> 0, rosterEvents |-> <<>>,
     messages |-> <<>>, hasSnapshot |-> FALSE, snapshotTick |-> 0, snapshot |-> <<>>]

UpdateReplyLayout ==
    << Field("status", Byte), Field("ackSeq", Wide), Field("rosterVersion", Wide) >>

UpdateSceneLayout ==
    << Field("hasSnapshot", Bool), FieldIf("hasSnapshot", {TRUE}, "snapshotTick", Wide),
       FieldIf("hasSnapshot", {TRUE}, "snapshot", Counted) >>

EncodeUpdateReply(r) ==
    PutFields(r, UpdateReplyLayout) \o PutList(r.rosterEvents, EventLayout)
    \o PutList(r.messages, MessageLayout) \o PutFields(r, UpdateSceneLayout)

DecodeUpdateReply(data) ==
    LET head   == GetFields(Reader(data, NewUpdateReply), UpdateReplyLayout)
        events == GetList(head, "rosterEvents", EventLayout, NewEvent)
    IN  Decoded(GetFields(GetMessages(events), UpdateSceneLayout))

-----------------------------------------------------------------------------
NewSnapshot == [tick |-> 0, payload |-> <<>>]

SnapshotLayout == << Field("tick", Wide), Field("payload", Counted) >>

EncodeSnapshot(tick, payload) == PutFields([tick |-> tick, payload |-> payload], SnapshotLayout)

DecodeSnapshot(data) == Decoded(GetFields(Reader(data, NewSnapshot), SnapshotLayout))
=============================================================================
