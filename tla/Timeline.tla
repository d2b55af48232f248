------------------------------- MODULE Timeline -------------------------------
(***************************************************************************)
(* Timeline (src/timeline.cpp): a root timeline on a counter and a derived *)
(* one that runs on it.                                                    *)
(*                                                                         *)
(* A timeline counts the ticks of its source, scaled by an exact fraction, *)
(* since it was last banked.  A change of its speed, its rate, its pause   *)
(* or the rate of its source banks first.  All calls are made by one       *)
(* thread.  The 64-bit width of the counters is left out, and so is the    *)
(* rounding of a speed to a fraction: Speeds are fractions in lowest terms.*)
(* Calls with a rate or a speed that is refused change nothing.            *)
(***************************************************************************)
EXTENDS Integers, FiniteSetsExt

CONSTANTS
    Units,      \* rootUnitsPerSecond_
    Rates,      \* rates of ticks per second that may be asked for; 0 is refused
    Speeds,     \* speed multipliers, as pairs of a numerator and a denominator
    Scale,      \* parts of a tick in which exact time is counted
    MaxCounter, \* bound: units the counter advances
    MaxChanges  \* bound: changes of rate and speed

Names == {"root", "derived"}
SourceRates == {Units} \cup (Rates \ {0})

ASSUME TimelineAssumption ==
    /\ Units \in Nat \ {0} /\ Rates \subseteq Nat /\ Scale \in Nat \ {0}
    /\ Speeds \subseteq (Nat \ {0}) \X (Nat \ {0})
    /\ MaxCounter \in Nat /\ MaxChanges \in Nat
    /\ \A rate \in SourceRates, speed \in Speeds \cup {<<1, 1>>} : Scale % (rate * speed[2]) = 0

VARIABLES
    counter,    \* the external counter of the root
    root,
    derived,
    children,   \* children_ of the root: whether there is a derived timeline
    exact,      \* history: time of each timeline, in parts of a tick, never rounded
    changes     \* history: how often the rate of each was computed anew

vars == <<counter, root, derived, children, exact, changes>>

-----------------------------------------------------------------------------
(***************************************************************************)
(* The members of one timeline.                                            *)
(***************************************************************************)
ScaleElapsed(elapsed, remainder, num, den) ==
    LET part == remainder + (elapsed % den) * num
    IN  [ticks |-> (elapsed \div den) * num + part \div den, remainder |-> part % den]

\* now(), when its source is at sourceTicks.
NowAt(t, sourceTicks) ==
    IF t.paused THEN t.banked
    ELSE t.banked + ScaleElapsed(sourceTicks - t.start, t.remainder, t.num, t.den).ticks

BankAt(t, sourceTicks) ==
    LET elapsed == IF t.paused THEN 0 ELSE sourceTicks - t.start
        scaled == ScaleElapsed(elapsed, t.remainder, t.num, t.den)
    IN  [t EXCEPT !.banked = @ + scaled.ticks, !.remainder = scaled.remainder,
                  !.start = sourceTicks]

Gcd(a, b) == Max({d \in 1..a : a % d = 0 /\ b % d = 0})

RecomputeRate(t, sourceRate) ==
    LET rawNum == t.ticksPerSecond * t.speed[1]
        rawDen == sourceRate * t.speed[2]
        divisor == Gcd(rawNum, rawDen)
    IN  [t EXCEPT !.num = rawNum \div divisor, !.den = rawDen \div divisor,
                  !.remainder = (@ * (rawDen \div divisor)) \div t.den]

NewTimeline(rate, sourceTicks) ==
    [start |-> sourceTicks, banked |-> 0, remainder |-> 0, num |-> 1, den |-> 1,
     ticksPerSecond |-> rate, speed |-> <<1, 1>>, paused |-> FALSE]

-----------------------------------------------------------------------------
(***************************************************************************)
(* The two timelines.                                                      *)
(***************************************************************************)
RootNow == NowAt(root, counter)
Live == {"root"} \cup children

Of(name) == IF name = "root" THEN root ELSE derived
SourceNow(name) == IF name = "root" THEN counter ELSE RootNow
SourceRate(name) == IF name = "root" THEN Units ELSE root.ticksPerSecond
Now(name) == NowAt(Of(name), SourceNow(name))

Set(name, t) ==
    /\ root' = IF name = "root" THEN t ELSE root
    /\ derived' = IF name = "root" THEN derived ELSE t

\* One of them has a new rate; the bound on changes is on their sum.
Changed(names) ==
    /\ changes["root"] + changes["derived"] < MaxChanges
    /\ changes' = [n \in Names |-> IF n \in names THEN changes[n] + 1 ELSE changes[n]]

Init ==
    /\ counter = 0
    /\ root = NewTimeline(Units, 0) /\ derived = root /\ children = {}
    /\ exact = [n \in Names |-> 0] /\ changes = [n \in Names |-> 0]

\* Time that passes for a timeline when its source advances by so many ticks.
Passes(name, ticks) ==
    IF Of(name).paused THEN 0
    ELSE ticks * Of(name).ticksPerSecond * Of(name).speed[1]
            * (Scale \div (SourceRate(name) * Of(name).speed[2]))

\* The counter never decreases.
Advance(units) ==
    /\ counter + units <= MaxCounter
    /\ counter' = counter + units
    /\ exact' = [n \in Names |->
          IF n \notin Live THEN 0
          ELSE exact[n] + Passes(n, IF n = "root" THEN units
                                    ELSE NowAt(root, counter') - RootNow)]
    /\ UNCHANGED <<root, derived, children, changes>>

Derive(rate) ==
    /\ children = {} /\ children' = {"derived"}
    /\ LET asked == IF rate = 0 THEN root.ticksPerSecond ELSE rate
       IN  derived' = RecomputeRate(NewTimeline(asked, RootNow), root.ticksPerSecond)
    /\ UNCHANGED <<counter, root, exact, changes>>

Destroy ==
    /\ children # {} /\ children' = {}
    /\ derived' = NewTimeline(Units, 0)
    /\ exact' = [exact EXCEPT !["derived"] = 0]
    /\ changes' = [changes EXCEPT !["derived"] = 0]
    /\ UNCHANGED <<counter, root>>

SetSpeedMultiplier(name, speed) ==
    /\ Set(name, RecomputeRate([BankAt(Of(name), SourceNow(name)) EXCEPT !.speed = speed],
                               SourceRate(name)))
    /\ Changed({name})
    /\ UNCHANGED <<counter, children, exact>>

\* Slip: forgets the timelines that run on this one.
SetRootRate_Alone(rate) ==
    /\ root' = RecomputeRate([BankAt(root, counter) EXCEPT !.ticksPerSecond = rate], Units)
    /\ Changed(Live)
    /\ UNCHANGED <<counter, derived, children, exact>>

\* setTicksPerSecond() of the root: its children are banked at the instant it is.
SetRootRate(rate) ==
    LET banked == BankAt(root, counter)
    IN  /\ root' = RecomputeRate([banked EXCEPT !.ticksPerSecond = rate], Units)
        /\ derived' = IF children = {} THEN derived
                      ELSE RecomputeRate(BankAt(derived, banked.banked), rate)
        /\ Changed(Live)
        /\ UNCHANGED <<counter, children, exact>>

\* setTicksPerSecond() of the derived one, which has no children.
SetDerivedRate(rate) ==
    /\ children # {}
    /\ derived' = RecomputeRate([BankAt(derived, RootNow) EXCEPT !.ticksPerSecond = rate],
                                root.ticksPerSecond)
    /\ Changed({"derived"})
    /\ UNCHANGED <<counter, root, children, exact>>

Pause(name) ==
    /\ ~Of(name).paused
    /\ Set(name, [BankAt(Of(name), SourceNow(name)) EXCEPT !.paused = TRUE])
    /\ UNCHANGED <<counter, children, exact, changes>>

\* Slip: the time of the pause is banked as well.
Unpause_FlagFirst(name) ==
    /\ Of(name).paused
    /\ Set(name, BankAt([Of(name) EXCEPT !.paused = FALSE], SourceNow(name)))
    /\ UNCHANGED <<counter, children, exact, changes>>

\* Time that passed in the pause is not banked.
Unpause(name) ==
    /\ Of(name).paused
    /\ Set(name, [BankAt(Of(name), SourceNow(name)) EXCEPT !.paused = FALSE])
    /\ UNCHANGED <<counter, children, exact, changes>>

Next ==
    \/ \E units \in 1..MaxCounter : Advance(units)
    \/ \E rate \in Rates : Derive(rate)
    \/ Destroy
    \/ \E rate \in Rates \ {0} : SetRootRate(rate) \/ SetDerivedRate(rate)
    \/ \E name \in Live :
          \/ \E speed \in Speeds : SetSpeedMultiplier(name, speed)
          \/ Pause(name)
          \/ Unpause(name)

Spec == Init /\ [][Next]_vars

-----------------------------------------------------------------------------
(***************************************************************************)
(* Properties.                                                             *)
(***************************************************************************)
TimelineType ==
    [start : Nat, banked : Nat, remainder : Nat, num : Nat \ {0}, den : Nat \ {0},
     ticksPerSecond : SourceRates, speed : Speeds \cup {<<1, 1>>}, paused : BOOLEAN]

\* A remainder is less than a tick, and no timeline starts after its source.
TypeOK ==
    /\ counter \in 0..MaxCounter
    /\ root \in TimelineType /\ derived \in TimelineType /\ children \subseteq {"derived"}
    /\ exact \in [Names -> Nat] /\ changes \in [Names -> Nat]
    /\ \A name \in Live : /\ Of(name).remainder < Of(name).den
                          /\ Of(name).start <= SourceNow(name)

\* "Ticks elapsed on this timeline. Monotonic" and "Resumes now() from its frozen
\* value" (timeline.hpp:48, :74): now() of no timeline goes back, and none moves but
\* by its source: no change of speed, rate or pause, its own or its source's, makes it
\* jump, and a paused one stands still whatever is changed.
NowNeverJumps ==
    [][\A name \in Live \cap Live' :
          /\ Now(name)' >= Now(name)
          /\ SourceNow(name)' = SourceNow(name) \/ Of(name).paused => Now(name)' = Now(name)]_vars

\* The time of a timeline in parts of a tick, its remainder included.
Measured(name) ==
    LET t == Of(name)
        elapsed == IF t.paused THEN 0 ELSE SourceNow(name) - t.start
    IN  t.banked * Scale + (t.remainder + elapsed * t.num) * (Scale \div t.den)

\* A timeline is never ahead of exact time, and it loses less than one tick at each
\* change of rate and nothing otherwise, however often it is banked.
TimeIsKept ==
    \A name \in Live :
        /\ Measured(name) <= exact[name]
        /\ exact[name] <= Measured(name) + changes[name] * (Scale - 1)
=============================================================================
