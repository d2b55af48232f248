------------------------------- MODULE Stepper -------------------------------
(***************************************************************************)
(* Stepper (src/timeline.cpp): turns the time of a timeline into a whole   *)
(* number of steps per frame, at most max of them.                         *)
(***************************************************************************)
EXTENDS Integers

NewStepper(now) == [consumed |-> now, target |-> now, budget |-> 0, dropped |-> 0]

\* Slip: grants a full frame of steps whatever is due.
BeginFrame_AlwaysFull(s, now, max) ==
    LET pending == now - s.consumed
        lost    == pending - max
    IN  [consumed |-> s.consumed + lost, target |-> now, budget |-> max,
         dropped |-> s.dropped + lost]

\* Reads the timeline once and discards the backlog beyond max steps.
BeginFrame(s, now, max) ==
    LET pending == now - s.consumed
        lost    == IF pending > max THEN pending - max ELSE 0
    IN  [consumed |-> s.consumed + lost, target |-> now, budget |-> max,
         dropped |-> s.dropped + lost]

CanStep(s) == s.budget # 0 /\ s.consumed < s.target

Step(s) == [consumed |-> s.consumed + 1, target |-> s.target,
            budget |-> s.budget - 1, dropped |-> s.dropped]
=============================================================================
