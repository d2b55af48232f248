------------------------------ MODULE MCTimeline ------------------------------
(***************************************************************************)
(* A small instance of Timeline.                                           *)
(***************************************************************************)
EXTENDS Timeline

MCRates == {0, 3, 4}
MCSpeeds == {<<1, 2>>, <<3, 2>>}
=============================================================================
