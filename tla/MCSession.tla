------------------------------ MODULE MCSession ------------------------------
(***************************************************************************)
(* Small instances of Session, one per aspect of the protocol.             *)
(***************************************************************************)
EXTENDS Session, TLC

CONSTANTS a, b, p, q

MCOneClient == {a}
MCTwoClients == {a, b}
MCOnePort == {p}
MCTwoPorts == {p, q}
MCSymmetry == Permutations({a, b}) \cup Permutations({p, q})
MCOneSocket == {1}
MCTwoSockets == {1, 2}
MCMessageCalls == {"timeout", "leave", "drainMessages"}
MCRosterCalls == {"timeout", "leave", "drainClientRoster"}
MCSceneCalls == {"timeout", "leave", "applyClientStates"}
MCLiveCalls == {"timeout", "leave"}
MCNoCalls == {}
=============================================================================
