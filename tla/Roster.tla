-------------------------------- MODULE Roster --------------------------------
(***************************************************************************)
(* What a session promises of its roster: the members change by one client *)
(* joining, under an id that is larger than any before, or by some members *)
(* leaving together, until the session closes; the history tells every one *)
(* of these changes, once and when it happens, and nothing else.           *)
(***************************************************************************)
EXTENDS SessionProtocol

CONSTANT ClientIds

VARIABLES members, history, open

Init == members = {} /\ history = <<>> /\ open = TRUE

Join(id) ==
    /\ open
    /\ \A k \in DOMAIN history : history[k].id < id
    /\ members' = members \cup {id}
    /\ history' = Append(history, Joined(id))
    /\ UNCHANGED open

\* Every client of S is told to have left once, in some order.
LeaveTogether(S) ==
    /\ open
    /\ members' = members \ S
    /\ \E order \in [1..Cardinality(S) -> S] :
          /\ \A i, j \in 1..Cardinality(S) : order[i] = order[j] => i = j
          /\ history' = history \o [i \in 1..Cardinality(S) |-> Left(order[i])]
    /\ UNCHANGED open

\* The end of the session is no event: everybody is gone.
Close == open /\ open' = FALSE /\ members' = {} /\ UNCHANGED history

Next ==
    \/ \E id \in ClientIds : Join(id)
    \/ \E S \in SUBSET members : LeaveTogether(S)
    \/ Close

Spec == Init /\ [][Next]_<<members, history, open>>
=============================================================================
