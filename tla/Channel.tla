------------------------------- MODULE Channel -------------------------------
(***************************************************************************)
(* What a session promises of the messages from one end to another, for a  *)
(* set of senders: the application at the other end finds message 1, 2,    *)
(* 3, ... of a sender, each once, in this order, and none that was not     *)
(* sent.                                                                   *)
(***************************************************************************)
EXTENDS Integers, Sequences

CONSTANT Senders

VARIABLES
    sent,       \* how many messages a sender's application handed over
    inbox,      \* the numbers of those that wait for the receiving application
    taken       \* how many it took

Init ==
    /\ sent = [e \in Senders |-> 0]
    /\ inbox = [e \in Senders |-> <<>>]
    /\ taken = [e \in Senders |-> 0]

Send(e) ==
    /\ sent'[e] > sent[e]
    /\ inbox'[e] = inbox[e] /\ taken'[e] = taken[e]

\* The next n messages arrive.
Deliver(e, n) ==
    /\ inbox'[e] = inbox[e] \o [i \in 1..n |-> taken[e] + Len(inbox[e]) + i]
    /\ sent'[e] = sent[e] /\ taken'[e] = taken[e]

Take(e) ==
    /\ inbox'[e] = <<>> /\ taken'[e] = taken[e] + Len(inbox[e])
    /\ sent'[e] = sent[e]

Idle(e) == sent'[e] = sent[e] /\ inbox'[e] = inbox[e] /\ taken'[e] = taken[e]

Next ==
    \A e \in Senders :
        \/ Idle(e) \/ Send(e) \/ Take(e)
        \/ \E n \in 1..(sent[e] - taken[e] - Len(inbox[e])) : Deliver(e, n)

Spec == Init /\ [][Next]_<<sent, inbox, taken>>
=============================================================================
