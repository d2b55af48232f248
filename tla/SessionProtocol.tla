--------------------------- MODULE SessionProtocol ---------------------------
(***************************************************************************)
(* The messages of a client-server session and the rules both ends apply   *)
(* to them (src/networking/sessionProtocol.hpp, and the loops that         *)
(* sessionServer.cpp and sessionClient.cpp share).                         *)
(*                                                                         *)
(* An outbox, and the messages of a request or reply, is the SET of its    *)
(* wire messages: the code keeps them in a deque in the order of their     *)
(* sequence numbers, so the set and the numbers determine the deque.       *)
(* Payloads are opaque; a scene state or a snapshot is the tick or the     *)
(* version it was made at, with 0 for "none".                              *)
(*                                                                         *)
(* A definition marked "Slip" is not part of the model: it is the next     *)
(* definition with a plausible mistake, and shows which property would     *)
(* notice that mistake.                                                    *)
(***************************************************************************)
EXTENDS Integers, Sequences, FiniteSets

None == 0                       \* no state, no snapshot, nothing pending

ReplyStatus == {"Ok", "Rejected", "UnknownClient"}

Joined(id) == [change |-> "Joined", id |-> id]
Left(id)   == [change |-> "Left", id |-> id]

WireMessage(seq, body) == [seq |-> seq, body |-> body]

(***************************************************************************)
(* Requests and replies.                                                   *)
(***************************************************************************)
UpdateRequest(kind, id, ackSeq, rosterVersion, state, messages) ==
    [kind |-> kind, id |-> id, ackSeq |-> ackSeq,
     rosterVersion |-> rosterVersion, state |-> state, messages |-> messages]

JoinReply(status, id, port) ==
    [status |-> status, id |-> id, updatePort |-> port]

UpdateReply(status, ackSeq, rosterVersion, events, messages, snapshot) ==
    [status |-> status, ackSeq |-> ackSeq, rosterVersion |-> rosterVersion,
     rosterEvents |-> events, messages |-> messages, snapshot |-> snapshot]

\* A reply whose only content is its status.
BareReply(status) == UpdateReply(status, 0, 0, <<>>, {}, None)

(***************************************************************************)
(* Acknowledgement: the sender pops every message up to the peer's ack.    *)
(***************************************************************************)
\* Slip: pops one message that is not acknowledged yet.
Unacked_OffByOne(outbox, ackSeq) == {m \in outbox : m.seq > ackSeq + 1}

Unacked(outbox, ackSeq) == {m \in outbox : m.seq > ackSeq}

(***************************************************************************)
(* In-order acceptance.  The receiver walks the messages in order and      *)
(* takes the one numbered last + 1, again and again; resends and messages  *)
(* after a gap are skipped.                                                *)
(***************************************************************************)
HasSeq(messages, n) == \E m \in messages : m.seq = n

InOrderUpTo(last, messages, n) ==
    /\ n >= last
    /\ \A k \in (last + 1)..n : HasSeq(messages, k)
    /\ ~HasSeq(messages, n + 1)

LastInOrder(last, messages) ==
    CHOOSE n \in {last} \cup {m.seq : m \in messages} :
        InOrderUpTo(last, messages, n)

\* Slip: takes every message of the list, resends included.
InOrder_TakesResends(last, messages) ==
    [i \in 1..Cardinality(messages) |->
        (CHOOSE m \in messages : Cardinality({n \in messages : n.seq <= m.seq}) = i).body]

\* The bodies accepted, in the order the loop appends them to the inbox.
InOrder(last, messages) ==
    [i \in 1..(LastInOrder(last, messages) - last) |->
        (CHOOSE m \in messages : m.seq = last + i).body]

(***************************************************************************)
(* The roster of an observer that held roster S and then saw events: an id *)
(* is in it if its last event is Joined, or it was there and has none.     *)
(***************************************************************************)
RosterAfter(S, events) ==
    {id \in S : \A k \in DOMAIN events : events[k] # Left(id)}
        \cup {events[k].id : k \in {j \in DOMAIN events :
                /\ events[j].change = "Joined"
                /\ \A i \in DOMAIN events : events[i] = Left(events[j].id) => i < j}}

Members(log, n) == RosterAfter({}, SubSeq(log, 1, n))
=============================================================================
