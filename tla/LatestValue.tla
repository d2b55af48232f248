------------------------------ MODULE LatestValue ------------------------------
(***************************************************************************)
(* LatestValue (include/engine/threading/latestValue.hpp): a mailbox of    *)
(* one slot, where a publish replaces what was not taken.  It is the       *)
(* sequence of at most one value; its two counters are left out.           *)
(***************************************************************************)
LOCAL INSTANCE Sequences

NewMailbox == <<>>

HasPending(m) == m # <<>>

Published(m, value) == <<value>>

Taken(m) == <<>>

\* What a caller of take() has then: the pending value, or else the old one.
TakenOr(m, old) == IF HasPending(m) THEN Head(m) ELSE old
=============================================================================
