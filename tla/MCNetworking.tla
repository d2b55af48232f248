----------------------------- MODULE MCNetworking -----------------------------
(* What the programs send, for TLC. *)
EXTENDS Networking

MCPairings ==
    {[client |-> c, server |-> s] : c \in {"string", "template"},
                                    s \in {"string", "function", "template"}}
    \cup {[client |-> "bytes", server |-> s] : s \in {"join", "update"}}

JoinPacket == [kind |-> Join, token |-> 300, hello |-> <<7>>, peerEndpoint |-> <<>>]

Message(n) == [seq |-> n, type |-> 2, tick |-> 260, payload |-> <<n>>]

StateUpdate ==
    [kind |-> Update, id |-> 1, tick |-> 259, ackSeq |-> 0, rosterVersion |-> 0,
     hasState |-> TRUE, state |-> <<3, 4>>, messages |-> <<Message(1)>>]

LeaveUpdate ==
    [StateUpdate EXCEPT !.kind = Leave, !.hasState = FALSE, !.state = <<>>, !.messages = <<>>]

Whole_(record, body) == [record |-> record, body |-> body, whole |-> TRUE]

Torn(p) == {[p EXCEPT !.whole = FALSE, !.body = b] :
               b \in {SubSeq(p.body, 1, n) : n \in 0 .. Len(p.body) - 1}
                     \cup {Append(p.body, 0)}}

WithTorn(packets) == packets \cup UNION {Torn(p) : p \in packets}

MCPackets(pairing_) ==
    CASE pairing_.server = "join" -> WithTorn({Whole_(JoinPacket, EncodeJoinRequest(JoinPacket))})
      [] pairing_.server = "update" ->
            WithTorn({Whole_(r, EncodeUpdateRequest(r)) : r \in {StateUpdate, LeaveUpdate}})
      [] OTHER -> {Whole_(body, body) : body \in {<<1>>, <<2, 3>>}}

MCPrefix     == <<112>>
MCTopic      == <<112, 47>>
MCPulseTopic == <<104>>
=============================================================================
