---------------------------- MODULE MCPeerSession ----------------------------
(***************************************************************************)
(* Small instances of PeerSession.                                         *)
(***************************************************************************)
EXTENDS PeerSession

MCOneOther == {2}
MCTwoIds == {<<1, 0>>, <<2, 0>>}
=============================================================================
