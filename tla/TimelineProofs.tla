---------------------------- MODULE TimelineProofs ----------------------------
(***************************************************************************)
(* Theorems about Timeline, for every rate and speed.                      *)
(*                                                                         *)
(* All that changes a timeline but the counter banks it first.  Banking    *)
(* turns now() into banked ticks and starts afresh with less than a tick   *)
(* of remainder, and a change of rate keeps the remainder below a tick, so *)
(* now() is the same before and after.                                     *)
(***************************************************************************)
EXTENDS Timeline, NaturalsInduction, WellFoundedInduction, TLAPS

-----------------------------------------------------------------------------
(***************************************************************************)
(* Integers.                                                               *)
(***************************************************************************)
LEMMA DivFacts ==
    ASSUME NEW n \in Nat, NEW d \in Nat \ {0}
    PROVE  n \div d \in Nat /\ n % d \in Nat /\ n % d < d /\ (n \div d) * d + (n % d) = n
<1>1. n \div d \in Int /\ n % d \in 0..(d - 1)
  BY SMT
<1>2. n = d * (n \div d) + (n % d)
  BY SMT
<1>3. d * (n \div d) = (n \div d) * d
  BY <1>1, SMT
<1>4. n \div d >= 0
  BY SMT
<1> QED BY <1>1, <1>2, <1>3, <1>4

\* The ticks that a numerator of parts holds, and the parts that are left over.
LEMMA ScaleFacts ==
    ASSUME NEW elapsed \in Nat, NEW remainder \in Nat, NEW num \in Nat, NEW den \in Nat \ {0}
    PROVE  /\ ScaleElapsed(elapsed, remainder, num, den).ticks \in Nat
           /\ ScaleElapsed(elapsed, remainder, num, den).remainder \in Nat
           /\ ScaleElapsed(elapsed, remainder, num, den).remainder < den
           /\ ScaleElapsed(elapsed, remainder, num, den).ticks * den
                + ScaleElapsed(elapsed, remainder, num, den).remainder
                    = remainder + elapsed * num
<1> DEFINE q == elapsed \div den
           m == elapsed % den
           part == remainder + m * num
           more == part \div den
           left == part % den
<1>1. q \in Nat /\ m \in Nat /\ q * den + m = elapsed
  BY DivFacts
<1>2. m * num \in Nat /\ q * num \in Nat
  BY <1>1
<1>3. part \in Nat
  BY <1>2
<1>4. more \in Nat /\ left \in Nat /\ left < den /\ more * den + left = part
  BY <1>3, DivFacts
<1>5. /\ ScaleElapsed(elapsed, remainder, num, den).ticks = q * num + more
      /\ ScaleElapsed(elapsed, remainder, num, den).remainder = left
  BY DEF ScaleElapsed
<1>6. part = remainder + m * num
  OBVIOUS
<1> HIDE DEF q, m, part, more, left
<1>7. (q * num + more) * den + left = remainder + elapsed * num
  <2> DEFINE whole == (q * den) * num
             parts == m * num
             carried == more * den
             scaled == (q * num + more) * den
             total == elapsed * num
  <2>1. scaled = whole + carried
    BY <1>1, <1>2, <1>4, SMT
  <2>2. total = whole + parts
    BY <1>1, SMT
  <2>3. whole \in Nat /\ parts \in Nat /\ carried \in Nat /\ scaled \in Nat /\ total \in Nat
    BY <1>1, <1>2, <1>4
  <2>4. carried + left = remainder + parts
    BY <1>4, <1>6
  <2> HIDE DEF whole, parts, carried, scaled, total
  <2>5. scaled + left = remainder + total
    BY <2>1, <2>2, <2>3, <2>4, <1>4
  <2> QED BY <2>5 DEF scaled, total
<1>8. q * num + more \in Nat
  BY <1>2, <1>4
<1> QED BY <1>4, <1>5, <1>7, <1>8

\* As much or more time scales to as many ticks or more.
LEMMA ScaleMonotone ==
    ASSUME NEW a \in Nat, NEW b \in Nat, a <= b,
           NEW remainder \in Nat, NEW num \in Nat, NEW den \in Nat \ {0}
    PROVE  ScaleElapsed(a, remainder, num, den).ticks <= ScaleElapsed(b, remainder, num, den).ticks
<1> DEFINE x == ScaleElapsed(a, remainder, num, den)
           y == ScaleElapsed(b, remainder, num, den)
<1>1. /\ x.ticks \in Nat /\ x.remainder \in Nat /\ x.remainder < den
      /\ x.ticks * den + x.remainder = remainder + a * num
  BY ScaleFacts
<1>2. /\ y.ticks \in Nat /\ y.remainder \in Nat /\ y.remainder < den
      /\ y.ticks * den + y.remainder = remainder + b * num
  BY ScaleFacts
<1> HIDE DEF x, y
<1>3. a * num <= b * num
  <2>1. (b - a) \in Nat
    OBVIOUS
  <2>2. (b - a) * num \in Nat
    BY <2>1
  <2>3. (b - a) * num = b * num - a * num
    BY SMT
  <2>4. a * num \in Nat /\ b * num \in Nat
    OBVIOUS
  <2> QED BY <2>2, <2>3, <2>4
<1>4. ASSUME y.ticks + 1 <= x.ticks
      PROVE  FALSE
  <2> DEFINE X == x.ticks * den
             Y == y.ticks * den
             A == a * num
             B == b * num
             k == x.ticks - y.ticks - 1
  <2>1. k \in Nat /\ x.ticks = y.ticks + 1 + k
    BY <1>4, <1>1, <1>2
  <2>2. k * den \in Nat /\ X = Y + den + k * den
    BY <2>1, <1>1, <1>2, SMT
  <2>3. X \in Nat /\ Y \in Nat /\ A \in Nat /\ B \in Nat
    BY <1>1, <1>2
  <2>4. X + x.remainder = remainder + A /\ Y + y.remainder = remainder + B /\ A <= B
    BY <1>1, <1>2, <1>3
  <2>5. X >= Y + den
    <3> HIDE DEF k, X, Y
    <3> QED BY <2>2, <2>3
  <2> HIDE DEF X, Y, A, B, k
  <2> QED BY <1>1, <1>2, <2>3, <2>4, <2>5
<1>5. x.ticks <= y.ticks
  BY <1>1, <1>2, <1>4
<1> QED BY <1>5 DEF x, y

\* A set of numbers below a bound has a greatest one.
LEMMA GreatestExists ==
    ASSUME NEW S, NEW n \in Nat, S \subseteq 1..n, S # {}
    PROVE  \E x \in S : \A y \in S : x >= y
<1> DEFINE T == {n - x : x \in S}
<1>1. T \subseteq Nat /\ T # {}
  <2>1. ASSUME NEW t \in T PROVE t \in Nat
    <3>1. PICK x \in S : t = n - x
      BY <2>1
    <3> QED BY <3>1
  <2>2. PICK s \in S : TRUE
    OBVIOUS
  <2>3. n - s \in T
    BY <2>2
  <2> QED BY <2>1, <2>3
<1>2. PICK t \in T : \A u \in T : ~(<<u, t>> \in OpToRel(<, Nat))
  <2> HIDE DEF T
  <2> QED BY <1>1, NatLessThanWellFounded, WFMin, Zenon
<1>3. ASSUME NEW u \in T PROVE ~(u < t)
  <2>1. u \in Nat /\ t \in Nat
    BY <1>1
  <2> HIDE DEF T
  <2>2. ASSUME u < t PROVE <<u, t>> \in OpToRel(<, Nat)
    BY <2>1, <2>2, Zenon DEF OpToRel
  <2> QED BY <1>2, <2>2, Zenon
<1>4. PICK x \in S : t = n - x
  BY <1>2
<1>5. ASSUME NEW y \in S PROVE x >= y
  <2>1. ~(n - y < n - x)
    BY <1>3, <1>4
  <2> QED BY <2>1
<1> QED BY <1>5

LEMMA GcdFacts ==
    ASSUME NEW a \in Nat \ {0}, NEW b \in Nat \ {0}
    PROVE  /\ Gcd(a, b) \in Nat \ {0}
           /\ a \div Gcd(a, b) \in Nat \ {0}
           /\ b \div Gcd(a, b) \in Nat \ {0}
           /\ (a \div Gcd(a, b)) * Gcd(a, b) = a /\ (b \div Gcd(a, b)) * Gcd(a, b) = b
<1> DEFINE D == {d \in 1..a : a % d = 0 /\ b % d = 0}
<1>1. 1 \in D
  BY SMT
<1>2. PICK x \in D : \A y \in D : x >= y
  <2>1. D \subseteq 1..a /\ D # {}
    BY <1>1
  <2> HIDE DEF D
  <2> QED BY <2>1, GreatestExists
<1>3. Gcd(a, b) \in D
  BY <1>2 DEF Gcd, Max
<1>4. /\ Gcd(a, b) \in Nat \ {0} /\ a % Gcd(a, b) = 0 /\ b % Gcd(a, b) = 0
  BY <1>3
<1> DEFINE g == Gcd(a, b)
<1>5. g \in Nat \ {0} /\ a % g = 0 /\ b % g = 0
  BY <1>4
<1> HIDE DEF g
<1>6. a \div g \in Nat /\ (a \div g) * g + 0 = a
  BY <1>5, DivFacts
<1>7. b \div g \in Nat /\ (b \div g) * g + 0 = b
  BY <1>5, DivFacts
<1>8. a \div g # 0 /\ b \div g # 0
  BY <1>5, <1>6, <1>7
<1> QED BY <1>5, <1>6, <1>7, <1>8 DEF g

-----------------------------------------------------------------------------
(***************************************************************************)
(* One timeline.                                                           *)
(***************************************************************************)
\* A timeline whose remainder is less than a tick.
Good(t) == t \in TimelineType /\ t.remainder < t.den

\* u is t after it was banked when its source was at x, and perhaps changed.
Rebased(t, x, u) == Good(u) /\ u.start = x /\ u.banked = NowAt(t, x)

LEMMA ConstantFacts ==
    /\ SourceRates \subseteq Nat \ {0}
    /\ \A speed \in Speeds \cup {<<1, 1>>} : speed[1] \in Nat \ {0} /\ speed[2] \in Nat \ {0}
BY TimelineAssumption DEF SourceRates

\* now() is a number of ticks, never goes back, stands still in a pause, and is what
\* was banked when nothing has passed since.
LEMMA NowFacts ==
    ASSUME NEW t, Good(t), NEW x \in Nat, NEW y \in Nat, t.start <= x, x <= y
    PROVE  /\ NowAt(t, x) \in Nat
           /\ NowAt(t, x) <= NowAt(t, y)
           /\ t.paused => NowAt(t, x) = NowAt(t, y)
<1>1. CASE t.paused
  BY <1>1 DEF NowAt, Good, TimelineType
<1>2. CASE ~t.paused
  <2>1. /\ t.start \in Nat /\ t.banked \in Nat /\ t.remainder \in Nat
        /\ t.num \in Nat /\ t.den \in Nat \ {0}
    BY DEF Good, TimelineType
  <2>2. x - t.start \in Nat /\ y - t.start \in Nat /\ x - t.start <= y - t.start
    BY <2>1
  <2>3. ScaleElapsed(x - t.start, t.remainder, t.num, t.den).ticks \in Nat
    BY <2>1, <2>2, ScaleFacts
  <2>4. ScaleElapsed(y - t.start, t.remainder, t.num, t.den).ticks \in Nat
    BY <2>1, <2>2, ScaleFacts
  <2>5. ScaleElapsed(x - t.start, t.remainder, t.num, t.den).ticks
            <= ScaleElapsed(y - t.start, t.remainder, t.num, t.den).ticks
    BY <2>1, <2>2, ScaleMonotone
  <2> QED BY <1>2, <2>1, <2>3, <2>4, <2>5 DEF NowAt
<1> QED BY <1>1, <1>2

\* When no time has passed a remainder of less than a tick makes none.
LEMMA NothingPassed ==
    ASSUME NEW remainder \in Nat, NEW num \in Nat, NEW den \in Nat \ {0}, remainder < den
    PROVE  /\ ScaleElapsed(0, remainder, num, den).ticks = 0
           /\ ScaleElapsed(0, remainder, num, den).remainder = remainder
<1> DEFINE s == ScaleElapsed(0, remainder, num, den)
<1>1. /\ s.ticks \in Nat /\ s.remainder \in Nat /\ s.remainder < den
      /\ s.ticks * den + s.remainder = remainder + 0 * num
  BY ScaleFacts
<1> HIDE DEF s
<1>2. s.ticks * den + s.remainder = remainder
  BY <1>1
<1>3. ASSUME s.ticks >= 1 PROVE FALSE
  <2>1. s.ticks - 1 \in Nat
    BY <1>1, <1>3
  <2>2. (s.ticks - 1) * den \in Nat /\ s.ticks * den = (s.ticks - 1) * den + den
    BY <1>1, <2>1, SMT
  <2> QED BY <1>1, <1>2, <2>2
<1>4. s.ticks = 0
  BY <1>1, <1>3
<1>5. s.remainder = remainder
  BY <1>1, <1>2, <1>4
<1> QED BY <1>4, <1>5 DEF s

LEMMA NowAtStart ==
    ASSUME NEW t, Good(t)
    PROVE  NowAt(t, t.start) = t.banked
<1>1. /\ t.start \in Nat /\ t.banked \in Nat /\ t.remainder \in Nat /\ t.remainder < t.den
      /\ t.num \in Nat /\ t.den \in Nat \ {0}
  BY DEF Good, TimelineType
<1>2. t.start - t.start = 0
  BY <1>1
<1>3. ScaleElapsed(0, t.remainder, t.num, t.den).ticks = 0
  BY <1>1, NothingPassed
<1> QED BY <1>1, <1>2, <1>3 DEF NowAt

\* What happens at one instant of the source leaves now() where it was.
LEMMA RebasedNow ==
    ASSUME NEW t, NEW x \in Nat, NEW u, Rebased(t, x, u)
    PROVE  Good(u) /\ u.start = x /\ NowAt(u, x) = NowAt(t, x)
BY NowAtStart DEF Rebased

LEMMA BankFacts ==
    ASSUME NEW t, Good(t), NEW x \in Nat, t.start <= x
    PROVE  Rebased(t, x, BankAt(t, x))
<1> DEFINE elapsed == IF t.paused THEN 0 ELSE x - t.start
           s == ScaleElapsed(elapsed, t.remainder, t.num, t.den)
<1>1. /\ t.start \in Nat /\ t.banked \in Nat /\ t.remainder \in Nat /\ t.remainder < t.den
      /\ t.num \in Nat \ {0} /\ t.den \in Nat \ {0} /\ t.paused \in BOOLEAN
  BY DEF Good, TimelineType
<1>2. elapsed \in Nat
  BY <1>1
<1>3. s.ticks \in Nat /\ s.remainder \in Nat /\ s.remainder < t.den
  <2> HIDE DEF elapsed
  <2> QED BY <1>1, <1>2, ScaleFacts
<1>4. NowAt(t, x) = t.banked + s.ticks
  <2>1. CASE t.paused
    <3>1. elapsed = 0
      BY <2>1
    <3>2. s.ticks = 0
      BY <1>1, <3>1, NothingPassed
    <3> QED BY <1>1, <2>1, <3>2 DEF NowAt
  <2>2. CASE ~t.paused
    BY <2>2 DEF NowAt
  <2> QED BY <2>1, <2>2
<1>5. BankAt(t, x) = [t EXCEPT !.banked = t.banked + s.ticks, !.remainder = s.remainder,
                               !.start = x]
  BY DEF BankAt, Good, TimelineType
<1> HIDE DEF s, elapsed
<1>6. t.banked + s.ticks \in Nat
  BY <1>1, <1>3
<1>7. BankAt(t, x) \in TimelineType
  BY <1>3, <1>5, <1>6 DEF Good, TimelineType
<1>8. /\ BankAt(t, x).remainder = s.remainder /\ BankAt(t, x).den = t.den
      /\ BankAt(t, x).start = x /\ BankAt(t, x).banked = t.banked + s.ticks
  BY <1>5 DEF Good, TimelineType
<1> QED BY <1>3, <1>4, <1>7, <1>8 DEF Rebased, Good

\* A change of rate keeps what was banked, and the remainder below a tick.
LEMMA RecomputeFacts ==
    ASSUME NEW t, NEW x \in Nat, NEW u, Rebased(t, x, u), NEW sourceRate \in Nat \ {0}
    PROVE  Rebased(t, x, RecomputeRate(u, sourceRate))
<1> DEFINE rawNum == u.ticksPerSecond * u.speed[1]
           rawDen == sourceRate * u.speed[2]
           num == rawNum \div Gcd(rawNum, rawDen)
           den == rawDen \div Gcd(rawNum, rawDen)
           kept == (u.remainder * den) \div u.den
<1>1. /\ u \in TimelineType /\ u.remainder \in Nat /\ u.den \in Nat \ {0} /\ u.remainder < u.den
      /\ u.ticksPerSecond \in Nat \ {0} /\ u.speed[1] \in Nat \ {0} /\ u.speed[2] \in Nat \ {0}
  BY ConstantFacts DEF Rebased, Good, TimelineType
<1>2. rawNum \in Nat \ {0} /\ rawDen \in Nat \ {0}
  BY <1>1, SMT
<1>3. num \in Nat \ {0} /\ den \in Nat \ {0}
  <2> HIDE DEF rawNum, rawDen
  <2> QED BY <1>2, GcdFacts
<1>4. RecomputeRate(u, sourceRate) =
          [u EXCEPT !.num = num, !.den = den, !.remainder = kept]
  BY <1>1 DEF RecomputeRate, TimelineType
<1>5. kept = (u.remainder * den) \div u.den
  OBVIOUS
<1> HIDE DEF num, den, kept, rawNum, rawDen
<1>6. kept \in Nat /\ kept < den
  <2> DEFINE product == u.remainder * den
             over == product % u.den
             back == kept * u.den
  <2>1. product \in Nat
    BY <1>1, <1>3
  <2>2. kept \in Nat /\ over \in Nat /\ back + over = product
    <3> HIDE DEF product
    <3> QED BY <1>1, <1>5, <2>1, DivFacts DEF product
  <2>3. ASSUME kept >= den PROVE FALSE
    <3> DEFINE k == kept - den
               r == u.den - u.remainder
    <3>1. k \in Nat /\ kept = den + k /\ r \in Nat \ {0} /\ u.den = u.remainder + r
      BY <1>1, <1>3, <2>2, <2>3
    <3>2. k * u.den \in Nat /\ den * r \in Nat \ {0}
      BY <1>1, <1>3, <3>1, SMT
    <3>3. back = product + den * r + k * u.den
      <4> HIDE DEF k, r
      <4>1. back = den * u.den + k * u.den
        BY <1>1, <1>3, <3>1, SMT
      <4>2. den * u.den = u.remainder * den + den * r
        BY <1>1, <1>3, <3>1, SMT
      <4> QED BY <4>1, <4>2
    <3> HIDE DEF k, r, back, product, over
    <3> QED BY <2>1, <2>2, <3>2, <3>3
  <2> QED BY <1>3, <2>2, <2>3
<1>7. RecomputeRate(u, sourceRate) \in TimelineType
  BY <1>1, <1>3, <1>4, <1>6 DEF TimelineType
<1>8. /\ RecomputeRate(u, sourceRate).remainder = kept
      /\ RecomputeRate(u, sourceRate).den = den
      /\ RecomputeRate(u, sourceRate).start = u.start
      /\ RecomputeRate(u, sourceRate).banked = u.banked
  BY <1>1, <1>4 DEF TimelineType
<1> QED BY <1>6, <1>7, <1>8 DEF Rebased, Good

\* Each call that changes a timeline does so at one instant of its source.
LEMMA SpeedRebases ==
    ASSUME NEW t, Good(t), NEW x \in Nat, t.start <= x, NEW speed \in Speeds,
           NEW sourceRate \in Nat \ {0}
    PROVE  Rebased(t, x, RecomputeRate([BankAt(t, x) EXCEPT !.speed = speed], sourceRate))
<1>1. Rebased(t, x, BankAt(t, x))
  BY BankFacts
<1>2. Rebased(t, x, [BankAt(t, x) EXCEPT !.speed = speed])
  BY <1>1 DEF Rebased, Good, TimelineType
<1> QED BY <1>2, RecomputeFacts

LEMMA RateRebases ==
    ASSUME NEW t, Good(t), NEW x \in Nat, t.start <= x, NEW rate \in Rates \ {0},
           NEW sourceRate \in Nat \ {0}
    PROVE  Rebased(t, x, RecomputeRate([BankAt(t, x) EXCEPT !.ticksPerSecond = rate], sourceRate))
<1>1. Rebased(t, x, BankAt(t, x))
  BY BankFacts
<1>2. Rebased(t, x, [BankAt(t, x) EXCEPT !.ticksPerSecond = rate])
  BY <1>1 DEF Rebased, Good, TimelineType, SourceRates
<1> QED BY <1>2, RecomputeFacts

LEMMA PauseRebases ==
    ASSUME NEW t, Good(t), NEW x \in Nat, t.start <= x, NEW paused \in BOOLEAN
    PROVE  Rebased(t, x, [BankAt(t, x) EXCEPT !.paused = paused])
<1>1. Rebased(t, x, BankAt(t, x))
  BY BankFacts
<1> QED BY <1>1 DEF Rebased, Good, TimelineType

LEMMA NewIsGood ==
    ASSUME NEW rate \in SourceRates, NEW x \in Nat
    PROVE  Rebased(NewTimeline(rate, x), x, NewTimeline(rate, x))
<1>1. Good(NewTimeline(rate, x)) /\ NewTimeline(rate, x).start = x
  BY DEF NewTimeline, Good, TimelineType
<1>2. NowAt(NewTimeline(rate, x), x) = NewTimeline(rate, x).banked
  BY <1>1, NowAtStart
<1> QED BY <1>1, <1>2 DEF Rebased

-----------------------------------------------------------------------------
(***************************************************************************)
(* The two timelines.  A step either moves the counter or keeps it, and    *)
(* then each timeline is left alone, rebased, or the derived one is new or *)
(* gone.                                                                   *)
(***************************************************************************)
TimeInv ==
    /\ counter \in 0..MaxCounter
    /\ Good(root) /\ root.start <= counter
    /\ Good(derived) /\ derived.start <= RootNow
    /\ children \subseteq {"derived"}

RootStays == root' = root \/ Rebased(root, counter, root')

DerivedStays ==
    \/ derived' = derived
    \/ Rebased(derived, RootNow, derived')
    \/ Good(derived') /\ derived'.start <= RootNow /\ "derived" \notin Live \cap Live'

CounterMoves == counter' \in counter..MaxCounter /\ UNCHANGED <<root, derived, children>>
TimelinesChange ==
    /\ counter' = counter /\ RootStays /\ DerivedStays /\ children' \subseteq {"derived"}

LEMMA RootNowFacts ==
    ASSUME TimeInv
    PROVE  /\ counter \in Nat /\ RootNow \in Nat
           /\ root.ticksPerSecond \in SourceRates /\ root.ticksPerSecond \in Nat \ {0}
           /\ Units \in Nat \ {0} /\ Units \in SourceRates
<1>1. counter \in Nat
  BY TimelineAssumption DEF TimeInv
<1>2. NowAt(root, counter) \in Nat
  BY <1>1, NowFacts DEF TimeInv
<1>3. root.ticksPerSecond \in SourceRates
  BY DEF TimeInv, Good, TimelineType
<1>4. Units \in SourceRates
  BY DEF SourceRates
<1> QED BY <1>1, <1>2, <1>3, <1>4, ConstantFacts DEF RootNow

LEMMA StepKinds ==
    ASSUME TimeInv, [Next]_vars
    PROVE  CounterMoves \/ TimelinesChange
<1>0. /\ counter \in Nat /\ RootNow \in Nat
      /\ root.ticksPerSecond \in SourceRates /\ root.ticksPerSecond \in Nat \ {0}
      /\ Units \in Nat \ {0} /\ Units \in SourceRates
  BY RootNowFacts
<1>00. /\ Good(root) /\ root.start <= counter
       /\ Good(derived) /\ derived.start <= RootNow /\ children \subseteq {"derived"}
  BY DEF TimeInv
<1>1. ASSUME NEW units \in 1..MaxCounter, Advance(units)
      PROVE  CounterMoves
  BY <1>0, <1>1, TimelineAssumption DEF Advance, CounterMoves
<1>2. ASSUME NEW rate \in Rates, Derive(rate)
      PROVE  TimelinesChange
  <2> DEFINE asked == IF rate = 0 THEN root.ticksPerSecond ELSE rate
  <2>1. asked \in SourceRates
    BY <1>0 DEF SourceRates
  <2>2. derived' = RecomputeRate(NewTimeline(asked, RootNow), root.ticksPerSecond)
    BY <1>2 DEF Derive
  <2> HIDE DEF asked
  <2>3. Rebased(NewTimeline(asked, RootNow), RootNow, NewTimeline(asked, RootNow))
    BY <1>0, <2>1, NewIsGood
  <2>4. Rebased(NewTimeline(asked, RootNow), RootNow, derived')
    BY <1>0, <2>2, <2>3, RecomputeFacts
  <2>5. Good(derived') /\ derived'.start <= RootNow
    BY <1>0, <2>4 DEF Rebased
  <2>6. "derived" \notin Live
    BY <1>2 DEF Derive, Live
  <2> QED BY <1>2, <2>5, <2>6 DEF Derive, TimelinesChange, RootStays, DerivedStays
<1>3. ASSUME Destroy
      PROVE  TimelinesChange
  <2>1. Rebased(NewTimeline(Units, 0), 0, NewTimeline(Units, 0))
    BY <1>0, NewIsGood
  <2>2. Good(derived') /\ derived'.start <= RootNow
    BY <1>0, <1>3, <2>1 DEF Destroy, Rebased
  <2>3. "derived" \notin Live'
    BY <1>3 DEF Destroy, Live
  <2> QED BY <1>3, <2>2, <2>3 DEF Destroy, TimelinesChange, RootStays, DerivedStays
<1>4. ASSUME NEW rate \in Rates \ {0}, SetRootRate(rate)
      PROVE  TimelinesChange
  <2>0. rate \in Nat \ {0}
    BY TimelineAssumption
  <2>1. Rebased(root, counter, BankAt(root, counter))
    BY <1>0, <1>00, BankFacts
  <2>2. BankAt(root, counter).banked = RootNow
    BY <2>1 DEF Rebased, RootNow
  <2>3. root' = RecomputeRate([BankAt(root, counter) EXCEPT !.ticksPerSecond = rate], Units)
    BY <1>4 DEF SetRootRate
  <2>4. Rebased(root, counter, root')
    BY <1>0, <1>00, <2>3, RateRebases
  <2>5. CASE children = {}
    BY <1>4, <1>00, <2>4, <2>5 DEF SetRootRate, TimelinesChange, RootStays, DerivedStays
  <2>6. CASE children # {}
    <3>1. derived' = RecomputeRate(BankAt(derived, RootNow), rate)
      BY <1>4, <2>2, <2>6 DEF SetRootRate
    <3>2. Rebased(derived, RootNow, BankAt(derived, RootNow))
      BY <1>0, <1>00, BankFacts
    <3>3. Rebased(derived, RootNow, derived')
      BY <1>0, <2>0, <3>1, <3>2, RecomputeFacts
    <3> QED BY <1>4, <1>00, <2>4, <3>3 DEF SetRootRate, TimelinesChange, RootStays, DerivedStays
  <2> QED BY <2>5, <2>6
<1>5. ASSUME NEW rate \in Rates \ {0}, SetDerivedRate(rate)
      PROVE  TimelinesChange
  <2>1. derived' = RecomputeRate([BankAt(derived, RootNow) EXCEPT !.ticksPerSecond = rate],
                                 root.ticksPerSecond)
    BY <1>5 DEF SetDerivedRate
  <2>2. Rebased(derived, RootNow, derived')
    BY <1>0, <1>00, <2>1, RateRebases
  <2> QED BY <1>5, <1>00, <2>2 DEF SetDerivedRate, TimelinesChange, RootStays, DerivedStays
<1>6. ASSUME NEW name \in Live, NEW speed \in Speeds, SetSpeedMultiplier(name, speed)
      PROVE  TimelinesChange
  <2> DEFINE u == RecomputeRate([BankAt(Of(name), SourceNow(name)) EXCEPT !.speed = speed],
                                SourceRate(name))
  <2>1. Set(name, u) /\ UNCHANGED <<counter, children>>
    BY <1>6 DEF SetSpeedMultiplier
  <2>2. Rebased(Of(name), SourceNow(name), u)
    BY <1>0, <1>00, SpeedRebases DEF Of, SourceNow, SourceRate
  <2> HIDE DEF u
  <2> QED BY <1>00, <2>1, <2>2
          DEF Set, Of, SourceNow, TimelinesChange, RootStays, DerivedStays
<1>7. ASSUME NEW name \in Live, Pause(name)
      PROVE  TimelinesChange
  <2> DEFINE u == [BankAt(Of(name), SourceNow(name)) EXCEPT !.paused = TRUE]
  <2>1. Set(name, u) /\ UNCHANGED <<counter, children>>
    BY <1>7 DEF Pause
  <2>2. Rebased(Of(name), SourceNow(name), u)
    BY <1>0, <1>00, PauseRebases DEF Of, SourceNow
  <2> HIDE DEF u
  <2> QED BY <1>00, <2>1, <2>2
          DEF Set, Of, SourceNow, TimelinesChange, RootStays, DerivedStays
<1>8. ASSUME NEW name \in Live, Unpause(name)
      PROVE  TimelinesChange
  <2> DEFINE u == [BankAt(Of(name), SourceNow(name)) EXCEPT !.paused = FALSE]
  <2>1. Set(name, u) /\ UNCHANGED <<counter, children>>
    BY <1>8 DEF Unpause
  <2>2. Rebased(Of(name), SourceNow(name), u)
    BY <1>0, <1>00, PauseRebases DEF Of, SourceNow
  <2> HIDE DEF u
  <2> QED BY <1>00, <2>1, <2>2
          DEF Set, Of, SourceNow, TimelinesChange, RootStays, DerivedStays
<1>9. ASSUME UNCHANGED vars
      PROVE  TimelinesChange
  BY <1>9, <1>00 DEF vars, TimelinesChange, RootStays, DerivedStays
<1> QED BY <1>1, <1>2, <1>3, <1>4, <1>5, <1>6, <1>7, <1>8, <1>9 DEF Next

\* The root, and by it the source of the derived timeline, goes on or stands still.
LEMMA RootMoves ==
    ASSUME TimeInv, CounterMoves \/ TimelinesChange
    PROVE  /\ RootNow' \in Nat /\ RootNow' >= RootNow
           /\ TimelinesChange \/ root.paused => RootNow' = RootNow
           /\ Good(root') /\ root'.start <= counter' /\ counter' \in 0..MaxCounter
<1>1. counter \in Nat /\ RootNow \in Nat
  BY RootNowFacts
<1>2. CASE CounterMoves
  <2>1. counter' \in Nat /\ counter <= counter' /\ root' = root
    BY <1>1, <1>2 DEF CounterMoves
  <2>2. /\ NowAt(root, counter) <= NowAt(root, counter')
        /\ root.paused => NowAt(root, counter) = NowAt(root, counter')
    BY <1>1, <2>1, NowFacts DEF TimeInv
  <2>3. Good(root) /\ root.start \in Nat /\ root.start <= counter'
    BY <1>1, <2>1 DEF TimeInv, Good, TimelineType
  <2>4. NowAt(root, counter') \in Nat
    BY <2>1, <2>3, NowFacts
  <2>5. RootNow = NowAt(root, counter) /\ RootNow' = NowAt(root, counter')
    BY <2>1 DEF RootNow
  <2>6. TimelinesChange => counter' = counter
    BY DEF TimelinesChange
  <2>7. counter' \in 0..MaxCounter
    BY <1>2, <2>1 DEF CounterMoves
  <2> QED BY <1>1, <2>1, <2>2, <2>3, <2>4, <2>5, <2>6, <2>7
<1>3. CASE TimelinesChange
  <2>1. counter' = counter
    BY <1>3 DEF TimelinesChange
  <2>2. Good(root') /\ root'.start <= counter /\ NowAt(root', counter) = NowAt(root, counter)
    <3>1. CASE root' = root
      BY <3>1 DEF TimeInv
    <3>2. CASE Rebased(root, counter, root')
      BY <1>1, <3>2, RebasedNow
    <3> QED BY <1>3, <3>1, <3>2 DEF TimelinesChange, RootStays
  <2> QED BY <1>1, <2>1, <2>2 DEF RootNow, TimeInv
<1> QED BY <1>2, <1>3

LEMMA DerivedMoves ==
    ASSUME TimeInv, CounterMoves \/ TimelinesChange
    PROVE  /\ Good(derived') /\ derived'.start <= RootNow'
           /\ "derived" \in Live \cap Live' =>
                /\ NowAt(derived', RootNow') >= NowAt(derived, RootNow)
                /\ RootNow' = RootNow \/ derived.paused =>
                      NowAt(derived', RootNow') = NowAt(derived, RootNow)
<1>1. RootNow \in Nat /\ RootNow' \in Nat /\ RootNow <= RootNow'
  BY RootNowFacts, RootMoves
<1>2. Good(derived) /\ derived.start <= RootNow
  BY DEF TimeInv
<1>3. CASE derived' = derived
  <2>0. derived.start \in Nat
    BY <1>2 DEF Good, TimelineType
  <2>1. /\ NowAt(derived, RootNow) <= NowAt(derived, RootNow')
        /\ derived.paused => NowAt(derived, RootNow) = NowAt(derived, RootNow')
    BY <1>1, <1>2, NowFacts
  <2>2. NowAt(derived, RootNow) \in Nat
    BY <1>1, <1>2, NowFacts
  <2>3. NowAt(derived, RootNow') \in Nat
    BY <2>0, <1>1, <1>2, NowFacts
  <2>4. derived.start <= RootNow'
    BY <1>1, <1>2, <2>0
  <2> QED BY <1>2, <1>3, <2>1, <2>2, <2>3, <2>4
<1>4. CASE TimelinesChange
  <2>1. RootNow' = RootNow
    BY <1>4, RootMoves
  <2>2. CASE Rebased(derived, RootNow, derived')
    <3>1. Good(derived') /\ derived'.start = RootNow
          /\ NowAt(derived', RootNow) = NowAt(derived, RootNow)
      BY <1>1, <2>2, RebasedNow
    <3>2. NowAt(derived, RootNow) \in Nat
      BY <1>1, <1>2, NowFacts
    <3> QED BY <1>1, <2>1, <3>1, <3>2
  <2>3. CASE Good(derived') /\ derived'.start <= RootNow /\ "derived" \notin Live \cap Live'
    BY <2>1, <2>3
  <2> QED BY <1>3, <1>4, <2>2, <2>3 DEF TimelinesChange, DerivedStays
<1> QED BY <1>3, <1>4 DEF CounterMoves

LEMMA TimeInit == Init => TimeInv
<1> SUFFICES ASSUME Init PROVE TimeInv
  OBVIOUS
<1>0. Units \in SourceRates /\ 0 \in 0..MaxCounter
  BY TimelineAssumption DEF SourceRates
<1>1. Rebased(NewTimeline(Units, 0), 0, NewTimeline(Units, 0))
  BY <1>0, NewIsGood
<1>2. Good(root) /\ root.start = 0 /\ NowAt(root, 0) = root.banked
  BY <1>1 DEF Init, Rebased
<1>3. root.banked = 0
  BY DEF Init, NewTimeline
<1> QED BY <1>0, <1>2, <1>3 DEF Init, TimeInv, RootNow

LEMMA TimeStep == TimeInv /\ [Next]_vars => TimeInv'
<1> SUFFICES ASSUME TimeInv, [Next]_vars PROVE TimeInv'
  OBVIOUS
<1>1. CounterMoves \/ TimelinesChange
  BY StepKinds
<1>2. children' \subseteq {"derived"}
  BY <1>1 DEF CounterMoves, TimelinesChange, TimeInv
<1> QED BY <1>1, <1>2, RootMoves, DerivedMoves DEF TimeInv

LEMMA TimeAlways == Spec => []TimeInv
BY TimeInit, TimeStep, PTL DEF Spec

LEMMA PassesIsNat ==
    ASSUME TimeInv, NEW name \in Names, NEW ticks \in Nat
    PROVE  Passes(name, ticks) \in Nat
<1> DEFINE perSecond == Of(name).ticksPerSecond
           speed == Of(name).speed
           sourceRate == SourceRate(name)
           divisor == sourceRate * speed[2]
<1>1. /\ perSecond \in Nat \ {0} /\ sourceRate \in Nat \ {0}
      /\ speed[1] \in Nat \ {0} /\ speed[2] \in Nat \ {0}
  BY RootNowFacts, ConstantFacts DEF TimeInv, Good, TimelineType, Of, SourceRate
<1>2. Passes(name, ticks) =
        IF Of(name).paused THEN 0
        ELSE ticks * perSecond * speed[1] * (Scale \div divisor)
  BY DEF Passes
<1> HIDE DEF perSecond, speed, sourceRate
<1>3. divisor \in Nat \ {0}
  BY <1>1, SMT
<1> HIDE DEF divisor
<1>4. Scale \div divisor \in Nat
  BY <1>3, TimelineAssumption, DivFacts
<1>5. ticks * perSecond * speed[1] * (Scale \div divisor) \in Nat
  BY <1>1, <1>4
<1> QED BY <1>2, <1>5

HistoryInv == exact \in [Names -> Nat] /\ changes \in [Names -> Nat]

LEMMA HistoryStep == TimeInv /\ HistoryInv /\ [Next]_vars => HistoryInv'
<1> SUFFICES ASSUME TimeInv, HistoryInv, [Next]_vars PROVE HistoryInv'
  OBVIOUS
<1>0. exact \in [Names -> Nat] /\ changes \in [Names -> Nat]
  BY DEF HistoryInv
<1>9. ASSUME NEW names, Changed(names) PROVE changes' \in [Names -> Nat]
  BY <1>0, <1>9 DEF Changed
<1>1. ASSUME NEW units \in 1..MaxCounter, Advance(units)
      PROVE  HistoryInv'
  <2> DEFINE ticks(n) == IF n = "root" THEN units ELSE NowAt(root, counter') - RootNow
  <2>1. CounterMoves
    BY <1>1, RootNowFacts, TimelineAssumption DEF Advance, CounterMoves
  <2>2. RootNow' = NowAt(root, counter') /\ RootNow' \in Nat /\ RootNow' >= RootNow /\ RootNow \in Nat
    BY <2>1, RootMoves, RootNowFacts DEF CounterMoves, RootNow
  <2>3. units \in Nat
    OBVIOUS
  <2>4. \A n \in Names : ticks(n) \in Nat
    BY <2>2, <2>3
  <2>5. exact' = [n \in Names |-> IF n \notin Live THEN 0 ELSE exact[n] + Passes(n, ticks(n))]
    BY <1>1 DEF Advance
  <2> HIDE DEF ticks
  <2>6. \A n \in Names : Passes(n, ticks(n)) \in Nat
    BY <2>4, PassesIsNat
  <2>7. exact' \in [Names -> Nat]
    BY <1>0, <2>5, <2>6
  <2> QED BY <1>0, <1>1, <2>7 DEF HistoryInv, Advance
<1>2. ASSUME NEW rate \in Rates, Derive(rate) PROVE HistoryInv'
  BY <1>0, <1>2 DEF HistoryInv, Derive
<1>3. ASSUME Destroy PROVE HistoryInv'
  BY <1>0, <1>3 DEF HistoryInv, Destroy, Names
<1>4. ASSUME NEW rate \in Rates \ {0}, SetRootRate(rate) PROVE HistoryInv'
  <2>1. Changed(Live) /\ exact' = exact
    BY <1>4 DEF SetRootRate
  <2> QED BY <1>0, <1>9, <2>1 DEF HistoryInv
<1>5. ASSUME NEW rate \in Rates \ {0}, SetDerivedRate(rate) PROVE HistoryInv'
  <2>1. Changed({"derived"}) /\ exact' = exact
    BY <1>5 DEF SetDerivedRate
  <2> QED BY <1>0, <1>9, <2>1 DEF HistoryInv
<1>6. ASSUME NEW name \in Live, NEW speed \in Speeds, SetSpeedMultiplier(name, speed)
      PROVE  HistoryInv'
  <2>1. Changed({name}) /\ exact' = exact
    BY <1>6 DEF SetSpeedMultiplier
  <2> QED BY <1>0, <1>9, <2>1 DEF HistoryInv
<1>7. ASSUME NEW name \in Live, Pause(name) \/ Unpause(name) PROVE HistoryInv'
  BY <1>0, <1>7 DEF HistoryInv, Pause, Unpause
<1>8. ASSUME UNCHANGED vars PROVE HistoryInv'
  BY <1>0, <1>8 DEF HistoryInv, vars
<1> QED BY <1>1, <1>2, <1>3, <1>4, <1>5, <1>6, <1>7, <1>8 DEF Next

\* The members of both timelines keep their types, no remainder is worth a tick and no
\* timeline starts after its source, whatever rates and speeds are set.
THEOREM TypeCorrect == Spec => []TypeOK
<1>1. Init => HistoryInv
  BY DEF Init, HistoryInv
<1>2. TimeInv /\ HistoryInv => TypeOK
  BY DEF TimeInv, HistoryInv, TypeOK, Good, Of, SourceNow, Live
<1> QED BY <1>1, <1>2, TimeAlways, HistoryStep, PTL DEF Spec

\* now() of no timeline goes back or jumps, whatever rates and speeds are set on it and
\* on its source, in any order (bank, recomputeRate).
THEOREM TimeIsContinuous == Spec => NowNeverJumps
<1>1. ASSUME TimeInv, [Next]_vars, NEW name \in Live \cap Live'
      PROVE  /\ Now(name)' >= Now(name)
             /\ SourceNow(name)' = SourceNow(name) \/ Of(name).paused => Now(name)' = Now(name)
  <2>1. CounterMoves \/ TimelinesChange
    BY <1>1, StepKinds
  <2>2. CASE name = "root"
    <3>1. /\ RootNow' >= RootNow
          /\ TimelinesChange \/ root.paused => RootNow' = RootNow
      BY <1>1, <2>1, RootMoves
    <3>2. CounterMoves /\ counter' = counter => RootNow' = RootNow
      BY DEF CounterMoves, RootNow
    <3> QED BY <2>1, <2>2, <3>1, <3>2 DEF Now, SourceNow, Of, RootNow
  <2>3. CASE name # "root"
    <3>1. name = "derived"
      BY <1>1, <2>3 DEF Live, TimeInv
    <3>2. /\ NowAt(derived', RootNow') >= NowAt(derived, RootNow)
          /\ RootNow' = RootNow \/ derived.paused =>
                NowAt(derived', RootNow') = NowAt(derived, RootNow)
      BY <1>1, <2>1, <3>1, DerivedMoves
    <3> QED BY <3>1, <3>2 DEF Now, SourceNow, Of
  <2> QED BY <2>2, <2>3
<1>2. TimeInv /\ [Next]_vars =>
        [\A name \in Live \cap Live' :
            /\ Now(name)' >= Now(name)
            /\ SourceNow(name)' = SourceNow(name) \/ Of(name).paused =>
                  Now(name)' = Now(name)]_vars
  BY <1>1
<1> QED BY <1>2, TimeAlways, PTL DEF Spec, NowNeverJumps

-----------------------------------------------------------------------------
(***************************************************************************)
(* The time that is kept.  A fraction in lowest terms divides Scale as the *)
(* one it was made from does, so parts of a tick are whole numbers; only a *)
(* new denominator loses some, less than one tick.                         *)
(***************************************************************************)
LEMMA ExactDiv ==
    ASSUME NEW q \in Nat, NEW d \in Nat \ {0}, NEW n \in Nat, q * d = n
    PROVE  n \div d = q
<1> DEFINE p == n \div d
           m == n % d
<1>1. p \in Nat /\ m \in Nat /\ m < d /\ p * d + m = n
  BY DivFacts
<1> HIDE DEF p, m
<1>2. ASSUME p < q PROVE FALSE
  <2> DEFINE k == q - p - 1
  <2>1. k \in Nat /\ q = p + 1 + k
    BY <1>1, <1>2
  <2>2. k * d \in Nat /\ q * d = p * d + d + k * d
    <3> HIDE DEF k
    <3> QED BY <1>1, <2>1, SMT
  <2>3. p * d \in Nat
    BY <1>1
  <2> HIDE DEF k
  <2> QED BY <1>1, <2>2, <2>3
<1>3. ASSUME p > q PROVE FALSE
  <2> DEFINE k == p - q - 1
  <2>1. k \in Nat /\ p = q + 1 + k
    BY <1>1, <1>3
  <2>2. k * d \in Nat /\ p * d = q * d + d + k * d
    <3> HIDE DEF k
    <3> QED BY <1>1, <2>1, SMT
  <2>3. q * d \in Nat
    OBVIOUS
  <2> HIDE DEF k
  <2> QED BY <1>1, <2>2, <2>3
<1> QED BY <1>1, <1>2, <1>3 DEF p

\* What is lost when r parts of which den make a tick become parts of which den2 do.
LEMMA RoundingLoss ==
    ASSUME NEW S \in Nat \ {0}, NEW r \in Nat, NEW kept \in Nat, NEW over \in Nat,
           NEW den \in Nat \ {0}, NEW den2 \in Nat \ {0}, NEW P \in Nat, NEW P2 \in Nat,
           P * den = S, P2 * den2 = S, kept * den + over = r * den2, over < den
    PROVE  kept * P2 <= r * P /\ r * P <= kept * P2 + (S - 1)
<1> DEFINE L == r * P
           K == kept * P2
           lost == over * P2
<1>1. L \in Nat /\ K \in Nat /\ lost \in Nat
  OBVIOUS
<1>2. L * den = r * S
  BY SMT
<1>3. K * den + lost = r * S
  <2>1. K * den + lost = (kept * den + over) * P2
    BY SMT
  <2>2. (r * den2) * P2 = r * (P2 * den2)
    BY SMT
  <2> QED BY <2>1, <2>2
<1>4. lost < S * den
  <2>1. P2 <= S /\ P2 # 0
    <3>1. P2 # 0
      BY SMT
    <3>2. den2 - 1 \in Nat /\ P2 * (den2 - 1) \in Nat /\ P2 * den2 = P2 * (den2 - 1) + P2
      BY SMT
    <3> QED BY <3>1, <3>2
  <2>2. /\ den - 1 - over \in Nat /\ (den - 1 - over) * P2 \in Nat
        /\ den * P2 = lost + (den - 1 - over) * P2 + P2
    BY SMT
  <2>3. /\ S - P2 \in Nat /\ den * (S - P2) \in Nat
        /\ S * den = den * P2 + den * (S - P2)
    BY <2>1, SMT
  <2>4. den * P2 \in Nat /\ S * den \in Nat
    OBVIOUS
  <2> HIDE DEF lost
  <2> QED BY <1>1, <2>1, <2>2, <2>3, <2>4
<1>5. L * den = K * den + lost
  BY <1>2, <1>3
<1> HIDE DEF L, K, lost
<1>6. K <= L
  <2> SUFFICES ASSUME L < K PROVE FALSE
    BY <1>1
  <2> DEFINE k == K - L - 1
  <2>1. k \in Nat /\ K = L + 1 + k
    BY <1>1
  <2> HIDE DEF k
  <2>2. K * den = L * den + den + k * den /\ k * den \in Nat /\ L * den \in Nat
    BY <1>1, <2>1, SMT
  <2> QED BY <1>1, <1>5, <2>2
<1>7. L <= K + (S - 1)
  <2> SUFFICES ASSUME L > K + (S - 1) PROVE FALSE
    BY <1>1
  <2> DEFINE k == L - K - S
  <2>1. k \in Nat /\ L = K + S + k
    BY <1>1
  <2> HIDE DEF k
  <2>2. L * den = K * den + S * den + k * den /\ k * den \in Nat /\ K * den \in Nat
    BY <1>1, <2>1, SMT
  <2>3. S * den \in Nat
    OBVIOUS
  <2> QED BY <1>1, <1>4, <1>5, <2>2, <2>3
<1> QED BY <1>6, <1>7 DEF L, K

\* Parts of exact time in a part of a tick, and in a tick of the source.
Part(t) == Scale \div t.den
PerTick(t, rate) == t.ticksPerSecond * t.speed[1] * (Scale \div (rate * t.speed[2]))

\* The fraction of a timeline is its rate and speed against the rate of its source.
Exact(t, rate) == Part(t) * t.den = Scale /\ t.num * Part(t) = PerTick(t, rate)

\* What Measured says of a timeline whose source is at x.
Elapsed(t, x) == IF t.paused THEN 0 ELSE x - t.start
Value(t, x) == t.banked * Scale + (t.remainder + Elapsed(t, x) * t.num) * Part(t)

LEMMA MeasuredIsValue ==
    ASSUME NEW name PROVE Measured(name) = Value(Of(name), SourceNow(name))
BY DEF Measured, Value, Elapsed, Part

LEMMA MemberFacts ==
    ASSUME NEW t, Good(t)
    PROVE  /\ t.start \in Nat /\ t.banked \in Nat /\ t.remainder \in Nat /\ t.remainder < t.den
           /\ t.num \in Nat \ {0} /\ t.den \in Nat \ {0} /\ t.paused \in BOOLEAN
           /\ t.ticksPerSecond \in SourceRates /\ t.ticksPerSecond \in Nat \ {0}
           /\ t.speed \in Speeds \cup {<<1, 1>>}
           /\ t.speed[1] \in Nat \ {0} /\ t.speed[2] \in Nat \ {0}
           /\ Part(t) \in Nat /\ Scale \in Nat \ {0}
<1>1. Scale \in Nat \ {0}
  BY TimelineAssumption
<1>2. /\ t.start \in Nat /\ t.banked \in Nat /\ t.remainder \in Nat /\ t.remainder < t.den
      /\ t.num \in Nat \ {0} /\ t.den \in Nat \ {0} /\ t.paused \in BOOLEAN
      /\ t.ticksPerSecond \in SourceRates /\ t.speed \in Speeds \cup {<<1, 1>>}
  BY DEF Good, TimelineType
<1>3. Part(t) \in Nat
  BY <1>1, <1>2, DivFacts DEF Part
<1> QED BY <1>1, <1>2, <1>3, ConstantFacts

\* A new rate makes an exact fraction.
LEMMA RecomputeExact ==
    ASSUME NEW u, Good(u), NEW rate \in SourceRates
    PROVE  Exact(RecomputeRate(u, rate), rate)
<1> DEFINE rawNum == u.ticksPerSecond * u.speed[1]
           rawDen == rate * u.speed[2]
           g == Gcd(rawNum, rawDen)
           num == rawNum \div g
           den == rawDen \div g
           q == Scale \div rawDen
           v == RecomputeRate(u, rate)
<1>1. /\ rate \in Nat \ {0} /\ u.ticksPerSecond \in Nat \ {0}
      /\ u.speed[1] \in Nat \ {0} /\ u.speed[2] \in Nat \ {0} /\ Scale \in Nat \ {0}
      /\ u.speed \in Speeds \cup {<<1, 1>>}
  BY MemberFacts, ConstantFacts
<1>2. rawNum \in Nat \ {0} /\ rawDen \in Nat \ {0}
  BY <1>1, SMT
<1>3. Scale % rawDen = 0
  BY <1>1, TimelineAssumption
<1>4. /\ v.num = num /\ v.den = den
      /\ v.ticksPerSecond = u.ticksPerSecond /\ v.speed = u.speed
  BY DEF RecomputeRate, Good, TimelineType
<1>5. PerTick(v, rate) = rawNum * q
  BY <1>4 DEF PerTick
<1> HIDE DEF v
<1>6. /\ g \in Nat \ {0} /\ num \in Nat \ {0} /\ den \in Nat \ {0}
      /\ num * g = rawNum /\ den * g = rawDen
  <2> HIDE DEF rawNum, rawDen
  <2> QED BY <1>2, GcdFacts
<1>7. q \in Nat /\ q * rawDen + 0 = Scale
  <2> HIDE DEF rawDen
  <2> QED BY <1>1, <1>2, <1>3, DivFacts
<1> HIDE DEF rawNum, rawDen, g, num, den, q
<1>8. (q * g) * den = Scale
  <2>1. (q * g) * den = q * (den * g)
    BY <1>6, <1>7, SMT
  <2> QED BY <1>6, <1>7, <2>1, <1>2
<1>9. Scale \div den = q * g
  <2>1. q * g \in Nat
    BY <1>6, <1>7
  <2> QED BY <1>1, <1>6, <1>8, <2>1, ExactDiv
<1>10. num * (q * g) = rawNum * q
  <2>1. num * (q * g) = (num * g) * q
    BY <1>6, <1>7, SMT
  <2> QED BY <1>6, <2>1, Zenon
<1> QED BY <1>4, <1>5, <1>8, <1>9, <1>10 DEF Exact, Part, v

\* Time passes at the exact rate.
LEMMA ValueAdvances ==
    ASSUME NEW t, Good(t), NEW x \in Nat, NEW y \in Nat, t.start <= x, x <= y
    PROVE  Value(t, y) = Value(t, x) + (IF t.paused THEN 0 ELSE (y - x) * (t.num * Part(t)))
<1> DEFINE P == Part(t)
           a == x - t.start
           d == y - x
           n == t.num
           r == t.remainder
           b == t.banked * Scale
<1>1. /\ P \in Nat /\ n \in Nat /\ r \in Nat /\ b \in Nat /\ t.start \in Nat
  BY MemberFacts
<1>2. CASE t.paused
  BY <1>1, <1>2 DEF Value, Elapsed
<1>3. CASE ~t.paused
  <2>1. a \in Nat /\ d \in Nat /\ y - t.start = a + d
    BY <1>1
  <2>2. Value(t, x) = b + (r + a * n) * P /\ Value(t, y) = b + (r + (a + d) * n) * P
    BY <1>3, <2>1 DEF Value, Elapsed
  <2> HIDE DEF P, a, d, n, r, b
  <2>3. (r + (a + d) * n) * P = (r + a * n) * P + d * (n * P)
    BY <1>1, <2>1, SMT
  <2>4. (r + a * n) * P \in Nat /\ d * (n * P) \in Nat
    BY <1>1, <2>1
  <2>5. Value(t, y) = Value(t, x) + d * (n * P)
    BY <1>1, <2>2, <2>3, <2>4
  <2> QED BY <1>3, <2>5 DEF d, n, P
<1> QED BY <1>2, <1>3

\* u is t after it was banked when its source was at x.
Settled(t, x, u) ==
    u.start = x /\ u.banked * Scale + u.remainder * Part(u) = Value(t, x)

LEMMA SettledValue ==
    ASSUME NEW t, NEW x \in Nat, NEW u, Good(u), Settled(t, x, u)
    PROVE  Value(u, x) = Value(t, x)
<1>1. u.start = x /\ u.num \in Nat /\ u.remainder \in Nat
  BY MemberFacts DEF Settled
<1>2. Elapsed(u, x) = 0
  BY <1>1 DEF Elapsed
<1>3. u.remainder + 0 * u.num = u.remainder
  BY <1>1
<1> QED BY <1>2, <1>3 DEF Value, Settled

LEMMA BankSettles ==
    ASSUME NEW t, Good(t), NEW x \in Nat, t.start <= x, Part(t) * t.den = Scale
    PROVE  /\ Settled(t, x, BankAt(t, x))
           /\ \A f \in {"num", "den", "ticksPerSecond", "speed", "paused"} : BankAt(t, x)[f] = t[f]
           /\ DOMAIN BankAt(t, x) = DOMAIN t
<1> DEFINE e == Elapsed(t, x)
           s == ScaleElapsed(e, t.remainder, t.num, t.den)
           P == Part(t)
           u == BankAt(t, x)
<1>1. /\ t.start \in Nat /\ t.banked \in Nat /\ t.remainder \in Nat
      /\ t.num \in Nat \ {0} /\ t.den \in Nat \ {0} /\ P \in Nat /\ Scale \in Nat
  BY MemberFacts
<1>2. e \in Nat
  BY <1>1 DEF Elapsed
<1>3. /\ u.banked = t.banked + s.ticks /\ u.remainder = s.remainder /\ u.start = x
      /\ \A f \in {"num", "den", "ticksPerSecond", "speed", "paused"} : u[f] = t[f]
      /\ DOMAIN u = DOMAIN t
  BY DEF BankAt, Elapsed, Good, TimelineType
<1>4. P = Part(u)
  BY <1>3 DEF Part
<1> HIDE DEF e, u
<1>5. /\ s.ticks \in Nat /\ s.remainder \in Nat
      /\ s.ticks * t.den + s.remainder = t.remainder + e * t.num
  <2> DEFINE num == t.num
             den == t.den
             rem == t.remainder
  <2>1. num \in Nat /\ den \in Nat \ {0} /\ rem \in Nat
    BY <1>1
  <2> HIDE DEF num, den, rem
  <2>2. /\ ScaleElapsed(e, rem, num, den).ticks \in Nat
        /\ ScaleElapsed(e, rem, num, den).remainder \in Nat
        /\ ScaleElapsed(e, rem, num, den).ticks * den
              + ScaleElapsed(e, rem, num, den).remainder = rem + e * num
    BY <1>2, <2>1, ScaleFacts
  <2> QED BY <2>2 DEF num, den, rem
<1>6. Value(t, x) = t.banked * Scale + (t.remainder + e * t.num) * P
  BY DEF Value, e
<1> DEFINE b == t.banked
           k == s.ticks
           r == s.remainder
           d == t.den
           total == t.remainder + e * t.num
<1>7. /\ b \in Nat /\ k \in Nat /\ r \in Nat /\ d \in Nat /\ k * d + r = total
      /\ P * d = Scale /\ P \in Nat /\ Scale \in Nat
  BY <1>1, <1>5
<1>8. /\ Value(t, x) = b * Scale + total * P /\ u.banked = b + k /\ u.remainder = r
      /\ Part(u) = P
  BY <1>3, <1>4, <1>6
<1> HIDE DEF b, k, r, d, total, P
<1>9. (b + k) * Scale + r * P = b * Scale + total * P
  <2>1. (b + k) * Scale = b * Scale + k * Scale
    BY <1>7, SMT
  <2>2. k * Scale = (k * d) * P
    <3>1. k * (P * d) = (k * d) * P
      BY <1>7, SMT
    <3> QED BY <1>7, <3>1
  <2>3. (k * d + r) * P = (k * d) * P + r * P
    BY <1>7, SMT
  <2>4. /\ b * Scale \in Nat /\ k * Scale \in Nat /\ r * P \in Nat /\ total * P \in Nat
    BY <1>7
  <2>5. total * P = (k * d + r) * P
    BY <1>7
  <2>6. total * P = k * Scale + r * P
    BY <2>2, <2>3, <2>5
  <2> QED BY <2>1, <2>4, <2>6
<1>10. Settled(t, x, u)
  BY <1>3, <1>8, <1>9 DEF Settled
<1> QED BY <1>3, <1>10 DEF u

\* The accuracy that TimeIsKept promises, of one timeline.
Kept(t, x, e, c) == Value(t, x) <= e /\ e <= Value(t, x) + c * (Scale - 1)

\* A new rate loses less than a tick.
LEMMA RecomputeKeeps ==
    ASSUME NEW t, Good(t), NEW x \in Nat, NEW u, Good(u), Settled(t, x, u),
           Part(u) * u.den = Scale, NEW rate \in SourceRates, Value(t, x) \in Nat,
           NEW e \in Nat, NEW c \in Nat, Kept(t, x, e, c)
    PROVE  /\ Exact(RecomputeRate(u, rate), rate)
           /\ Kept(RecomputeRate(u, rate), x, e, c + 1)
<1> DEFINE v == RecomputeRate(u, rate)
           r == u.remainder
           den == u.den
           den2 == v.den
           P == Part(u)
           P2 == Part(v)
           product == r * den2
           kept == product \div den
           over == product % den
           b == u.banked * Scale
           low == kept * P2
           high == r * P
<1>1. Rebased(u, x, u)
  BY NowAtStart DEF Settled, Rebased
<1>2. Good(v) /\ v.start = x
  BY <1>1, ConstantFacts, RecomputeFacts DEF Rebased
<1>3. Exact(v, rate)
  BY RecomputeExact
<1>4. /\ r \in Nat /\ den \in Nat \ {0} /\ den2 \in Nat \ {0} /\ P \in Nat /\ P2 \in Nat
      /\ Scale \in Nat \ {0} /\ u.banked \in Nat /\ P * den = Scale /\ P2 * den2 = Scale
  BY <1>2, <1>3, MemberFacts DEF Exact
<1>5. v.remainder = kept /\ v.banked = u.banked
  BY DEF RecomputeRate, Good, TimelineType
<1>6. Settled(v, x, v)
  <2>1. Elapsed(v, x) = 0 /\ v.num \in Nat /\ v.remainder \in Nat
    BY <1>2, MemberFacts DEF Elapsed
  <2>2. v.remainder + 0 * v.num = v.remainder
    BY <2>1
  <2> QED BY <1>2, <2>1, <2>2 DEF Settled, Value
<1>7. Value(v, x) = b + low /\ Value(t, x) = b + high
  BY <1>5, <1>6 DEF Settled
<1>8. product \in Nat
  BY <1>4
<1>9. kept \in Nat /\ over \in Nat /\ over < den /\ kept * den + over = r * den2
  <2> HIDE DEF product
  <2>1. kept \in Nat /\ over \in Nat /\ over < den /\ kept * den + over = product
    BY <1>4, <1>8, DivFacts
  <2> QED BY <2>1 DEF product
<1>10. b \in Nat
  BY <1>4
<1> HIDE DEF v, r, den, den2, P, P2, product, kept, over, b
<1>11. low <= high /\ high <= low + (Scale - 1)
  BY <1>4, <1>9, RoundingLoss
<1>12. low \in Nat /\ high \in Nat
  BY <1>4, <1>9
<1> DEFINE loss == c * (Scale - 1)
<1>13. (c + 1) * (Scale - 1) = loss + (Scale - 1) /\ loss \in Nat
  BY <1>4, SMT
<1>14. b + high <= e /\ e <= b + high + loss
  BY <1>7 DEF Kept
<1> HIDE DEF low, high, loss
<1>15. b + low <= e /\ e <= b + low + (loss + (Scale - 1))
  BY <1>4, <1>10, <1>11, <1>12, <1>13, <1>14
<1>16. Kept(v, x, e, c + 1)
  BY <1>7, <1>13, <1>15 DEF Kept
<1> QED BY <1>3, <1>16 DEF v

LEMMA ValueIsNat ==
    ASSUME NEW t, Good(t), NEW x \in Nat, t.start <= x PROVE Value(t, x) \in Nat
<1> DEFINE P == Part(t)
           e == Elapsed(t, x)
<1>1. /\ t.start \in Nat /\ t.banked \in Nat /\ t.remainder \in Nat /\ t.num \in Nat
      /\ P \in Nat /\ Scale \in Nat
  BY MemberFacts
<1>2. e \in Nat
  BY <1>1 DEF Elapsed
<1>3. Value(t, x) = t.banked * Scale + (t.remainder + e * t.num) * P
  BY DEF Value
<1> HIDE DEF P, e
<1>4. e * t.num \in Nat /\ t.banked * Scale \in Nat
  BY <1>1, <1>2
<1>5. (t.remainder + e * t.num) * P \in Nat
  BY <1>1, <1>4
<1> QED BY <1>3, <1>4, <1>5

\* As time passes by the exact amount the accuracy stays.
LEMMA AdvanceKeeps ==
    ASSUME NEW t, Good(t), NEW x \in Nat, NEW y \in Nat, t.start <= x, x <= y,
           NEW e \in Nat, NEW c \in Nat, Kept(t, x, e, c)
    PROVE  Kept(t, y, e + (IF t.paused THEN 0 ELSE (y - x) * (t.num * Part(t))), c)
<1> DEFINE more == IF t.paused THEN 0 ELSE (y - x) * (t.num * Part(t))
           loss == c * (Scale - 1)
           old == Value(t, x)
           new == Value(t, y)
<1>1. new = old + more /\ old \in Nat
  BY ValueAdvances, ValueIsNat
<1>2. more \in Nat
  <2>1. t.num \in Nat /\ Part(t) \in Nat /\ y - x \in Nat
    BY MemberFacts
  <2>2. t.num * Part(t) \in Nat
    BY <2>1
  <2> QED BY <2>1, <2>2
<1>3. loss \in Nat
  <2>1. Scale - 1 \in Nat
    BY TimelineAssumption
  <2> QED BY <2>1
<1>4. old <= e /\ e <= old + loss
  BY DEF Kept
<1> HIDE DEF more, loss, old, new
<1>5. new <= e + more /\ e + more <= new + loss
  BY <1>1, <1>2, <1>3, <1>4
<1> QED BY <1>5 DEF Kept, more, loss, old, new

\* A timeline that was banked and then given another rate, speed or pause is settled.
SameBank(t, x, u) ==
    u.start = x /\ u.banked = BankAt(t, x).banked /\ u.remainder = BankAt(t, x).remainder
    /\ u.num = t.num /\ u.den = t.den

LEMMA BankThenSet ==
    ASSUME NEW t, Good(t), NEW x \in Nat, t.start <= x, Part(t) * t.den = Scale,
           NEW u, SameBank(t, x, u)
    PROVE  Settled(t, x, u) /\ Part(u) * u.den = Scale /\ Part(u) = Part(t)
<1> DEFINE bank == BankAt(t, x)
<1>1. Settled(t, x, bank) /\ bank.den = t.den
  BY BankSettles
<1>2. u.start = x /\ u.banked = bank.banked /\ u.remainder = bank.remainder /\ u.den = t.den
  BY DEF SameBank
<1> HIDE DEF bank
<1>3. Part(u) = Part(bank) /\ Part(bank) = Part(t)
  BY <1>1, <1>2 DEF Part
<1>4. Settled(t, x, u)
  BY <1>1, <1>2, <1>3, Zenon DEF Settled
<1> QED BY <1>2, <1>3, <1>4, Zenon

LEMMA PauseKeeps ==
    ASSUME NEW t, Good(t), NEW x \in Nat, t.start <= x, NEW rate, Exact(t, rate),
           NEW paused \in BOOLEAN, NEW e, NEW c, Kept(t, x, e, c)
    PROVE  LET u == [BankAt(t, x) EXCEPT !.paused = paused]
           IN  Exact(u, rate) /\ Kept(u, x, e, c) /\ u.ticksPerSecond = t.ticksPerSecond
<1> DEFINE u == [BankAt(t, x) EXCEPT !.paused = paused]
<1>0. Part(t) * t.den = Scale
  BY DEF Exact
<1>1. Good(u)
  BY PauseRebases DEF Rebased
<1>2. SameBank(t, x, u) /\ u.speed = t.speed /\ u.ticksPerSecond = t.ticksPerSecond
  BY DEF SameBank, BankAt, Good, TimelineType
<1> HIDE DEF u
<1>3. Settled(t, x, u) /\ Part(u) * u.den = Scale /\ Part(u) = Part(t) /\ u.num = t.num
  BY <1>0, <1>2, BankThenSet DEF SameBank
<1>4. Value(u, x) = Value(t, x)
  BY <1>1, <1>3, SettledValue
<1>5. PerTick(u, rate) = PerTick(t, rate)
  BY <1>2 DEF PerTick
<1>6. Exact(u, rate)
  BY <1>3, <1>5, Zenon DEF Exact
<1> QED BY <1>2, <1>4, <1>6, Zenon DEF Kept, u

LEMMA SetKeeps ==
    ASSUME NEW t, Good(t), NEW x \in Nat, t.start <= x, NEW rate, Exact(t, rate),
           NEW e \in Nat, NEW c \in Nat, Kept(t, x, e, c), NEW newRate \in SourceRates
    PROVE  /\ \A speed \in Speeds :
                LET u == RecomputeRate([BankAt(t, x) EXCEPT !.speed = speed], newRate)
                IN  /\ Exact(u, newRate) /\ Kept(u, x, e, c + 1)
                    /\ u.ticksPerSecond = t.ticksPerSecond
           /\ \A asked \in Rates \ {0} :
                LET u == RecomputeRate([BankAt(t, x) EXCEPT !.ticksPerSecond = asked], newRate)
                IN  Exact(u, newRate) /\ Kept(u, x, e, c + 1) /\ u.ticksPerSecond = asked
           /\ LET u == RecomputeRate(BankAt(t, x), newRate)
              IN  Exact(u, newRate) /\ Kept(u, x, e, c + 1)
<1>0. Part(t) * t.den = Scale /\ Value(t, x) \in Nat
  BY ValueIsNat DEF Exact
<1>1. Rebased(t, x, BankAt(t, x))
  BY BankFacts
<1>2. ASSUME NEW speed \in Speeds
      PROVE  LET u == RecomputeRate([BankAt(t, x) EXCEPT !.speed = speed], newRate)
             IN  /\ Exact(u, newRate) /\ Kept(u, x, e, c + 1)
                 /\ u.ticksPerSecond = t.ticksPerSecond
  <2> DEFINE b == [BankAt(t, x) EXCEPT !.speed = speed]
  <2>1. Good(b)
    BY <1>1 DEF Rebased, Good, TimelineType
  <2>2. SameBank(t, x, b) /\ b.ticksPerSecond = t.ticksPerSecond
    BY DEF SameBank, BankAt, Good, TimelineType
  <2> HIDE DEF b
  <2>5. Settled(t, x, b) /\ Part(b) * b.den = Scale
    BY <1>0, <2>2, BankThenSet
  <2>3. Exact(RecomputeRate(b, newRate), newRate) /\ Kept(RecomputeRate(b, newRate), x, e, c + 1)
    BY <1>0, <2>1, <2>5, RecomputeKeeps
  <2>4. RecomputeRate(b, newRate).ticksPerSecond = b.ticksPerSecond
    BY <2>1 DEF RecomputeRate, Good, TimelineType
  <2> QED BY <2>2, <2>3, <2>4 DEF b
<1>3. ASSUME NEW asked \in Rates \ {0}
      PROVE  LET u == RecomputeRate([BankAt(t, x) EXCEPT !.ticksPerSecond = asked], newRate)
             IN  Exact(u, newRate) /\ Kept(u, x, e, c + 1) /\ u.ticksPerSecond = asked
  <2> DEFINE b == [BankAt(t, x) EXCEPT !.ticksPerSecond = asked]
  <2>1. Good(b) /\ b.ticksPerSecond = asked
    BY <1>1 DEF Rebased, Good, TimelineType, SourceRates
  <2>2. SameBank(t, x, b)
    BY DEF SameBank, BankAt, Good, TimelineType
  <2> HIDE DEF b
  <2>5. Settled(t, x, b) /\ Part(b) * b.den = Scale
    BY <1>0, <2>2, BankThenSet
  <2>3. Exact(RecomputeRate(b, newRate), newRate) /\ Kept(RecomputeRate(b, newRate), x, e, c + 1)
    BY <1>0, <2>1, <2>5, RecomputeKeeps
  <2>4. RecomputeRate(b, newRate).ticksPerSecond = b.ticksPerSecond
    BY <2>1 DEF RecomputeRate, Good, TimelineType
  <2> QED BY <2>1, <2>3, <2>4 DEF b
<1>4. LET u == RecomputeRate(BankAt(t, x), newRate)
      IN  Exact(u, newRate) /\ Kept(u, x, e, c + 1)
  <2> DEFINE b == BankAt(t, x)
  <2>1. Good(b)
    BY <1>1 DEF Rebased
  <2>2. Settled(t, x, b) /\ b.den = t.den
    BY <1>0, BankSettles
  <2>3. Part(b) * b.den = Scale
    BY <1>0, <2>2 DEF Part
  <2> HIDE DEF b
  <2>4. Exact(RecomputeRate(b, newRate), newRate) /\ Kept(RecomputeRate(b, newRate), x, e, c + 1)
    BY <1>0, <2>1, <2>2, <2>3, RecomputeKeeps
  <2> QED BY <2>4 DEF b
<1> QED BY <1>2, <1>3, <1>4

-----------------------------------------------------------------------------
(***************************************************************************)
(* Both timelines.                                                         *)
(***************************************************************************)
RootKept ==
    Exact(root, Units) /\ Kept(root, counter, exact["root"], changes["root"])

DerivedKept ==
    IF "derived" \in Live
    THEN /\ Exact(derived, root.ticksPerSecond)
         /\ Kept(derived, RootNow, exact["derived"], changes["derived"])
    ELSE exact["derived"] = 0

\* A new timeline has counted nothing.
LEMMA NewIsKept ==
    ASSUME NEW asked \in SourceRates, NEW rate \in SourceRates, NEW x \in Nat, NEW c \in Nat
    PROVE  LET u == RecomputeRate(NewTimeline(asked, x), rate)
           IN  Exact(u, rate) /\ Kept(u, x, 0, c)
<1> DEFINE t == NewTimeline(asked, x)
           u == RecomputeRate(t, rate)
<1>1. Good(t) /\ t.start = x /\ t.banked = 0 /\ t.remainder = 0 /\ t.den = 1 /\ ~t.paused
  BY NewIsGood DEF Rebased, NewTimeline
<1>2. Exact(u, rate)
  BY <1>1, RecomputeExact
<1>3. Rebased(t, x, t)
  BY NewIsGood
<1>4. Good(u) /\ u.start = x
  BY <1>3, ConstantFacts, RecomputeFacts DEF Rebased
<1>5. u.banked = 0 /\ u.remainder = (0 * u.den) \div 1
  BY <1>1 DEF RecomputeRate, Good, TimelineType
<1> HIDE DEF u, t
<1>6. /\ u.den \in Nat \ {0} /\ u.num \in Nat /\ Part(u) \in Nat
      /\ Scale \in Nat \ {0}
  BY <1>4, MemberFacts
<1>7. u.remainder = 0
  BY <1>5, <1>6
<1>8. Elapsed(u, x) = 0
  BY <1>4 DEF Elapsed
<1>9. Value(u, x) = 0
  BY <1>5, <1>6, <1>7, <1>8 DEF Value
<1>10. c * (Scale - 1) \in Nat
  BY <1>6
<1> QED BY <1>2, <1>9, <1>10 DEF Kept, u, t

LEMMA RootAtFirst == Exact(NewTimeline(Units, 0), Units) /\ Kept(NewTimeline(Units, 0), 0, 0, 0)
<1> DEFINE t == NewTimeline(Units, 0)
<1>1. Units \in Nat \ {0} /\ Scale \in Nat \ {0} /\ Units \in SourceRates
  BY TimelineAssumption DEF SourceRates
<1>2. /\ t.start = 0 /\ t.banked = 0 /\ t.remainder = 0 /\ t.num = 1 /\ t.den = 1
      /\ t.ticksPerSecond = Units /\ t.speed = <<1, 1>> /\ ~t.paused
  BY DEF NewTimeline
<1> HIDE DEF t
<1>3. Part(t) = Scale
  <2>1. Scale * 1 = Scale
    BY <1>1
  <2> QED BY <1>1, <1>2, <2>1, ExactDiv DEF Part
<1>4. PerTick(t, Units) = Scale
  <2> DEFINE q == Scale \div (Units * 1)
  <2>1. t.speed[1] = 1 /\ t.speed[2] = 1 /\ Units * 1 = Units
    BY <1>1, <1>2
  <2>2. Scale % (Units * <<1, 1>>[2]) = 0
    BY <1>1, TimelineAssumption
  <2>3. Scale % Units = 0
    BY <1>1, <2>2
  <2>4. q \in Nat /\ q * Units + 0 = Scale
    BY <1>1, <2>1, <2>3, DivFacts
  <2>5. PerTick(t, Units) = Units * 1 * q
    BY <1>2, <2>1 DEF PerTick
  <2> HIDE DEF q
  <2>6. Units * 1 * q = q * Units /\ q * Units \in Nat
    BY <1>1, <2>4, SMT
  <2> QED BY <2>4, <2>5, <2>6
<1>5. Exact(t, Units)
  BY <1>1, <1>2, <1>3, <1>4 DEF Exact
<1>6. Elapsed(t, 0) = 0
  BY <1>2 DEF Elapsed
<1>7. Value(t, 0) = 0
  BY <1>1, <1>2, <1>3, <1>6 DEF Value
<1>8. 0 * (Scale - 1) = 0
  BY <1>1
<1> QED BY <1>5, <1>7, <1>8 DEF Kept, t

\* The history variable counts at the exact rate.
LEMMA PassesExact ==
    ASSUME NEW name \in Names, NEW ticks \in Nat, Good(Of(name)),
           Exact(Of(name), SourceRate(name)), SourceRate(name) \in SourceRates
    PROVE  Passes(name, ticks) =
             IF Of(name).paused THEN 0 ELSE ticks * (Of(name).num * Part(Of(name)))
<1> DEFINE t == Of(name)
           perSecond == t.ticksPerSecond
           speed == t.speed[1]
           k == Scale \div (SourceRate(name) * t.speed[2])
<1>1. Passes(name, ticks) = IF t.paused THEN 0 ELSE ticks * perSecond * speed * k
  BY DEF Passes
<1>2. t.num * Part(t) = perSecond * speed * k
  BY DEF Exact, PerTick
<1>3. perSecond \in Nat /\ speed \in Nat /\ k \in Nat
  <2>1. /\ perSecond \in Nat /\ speed \in Nat /\ t.speed[2] \in Nat \ {0} /\ Scale \in Nat
        /\ SourceRate(name) \in Nat \ {0}
    BY MemberFacts, ConstantFacts
  <2>2. SourceRate(name) * t.speed[2] \in Nat \ {0}
    BY <2>1, SMT
  <2> QED BY <2>1, <2>2, DivFacts
<1> HIDE DEF t, perSecond, speed, k
<1>4. ticks * perSecond * speed * k = ticks * (perSecond * speed * k)
  BY <1>3, SMT
<1> QED BY <1>1, <1>2, <1>4, Zenon DEF t

KeptInv == RootKept /\ DerivedKept

LEMMA KeptAdvance ==
    ASSUME TimeInv, HistoryInv, KeptInv, NEW units \in 1..MaxCounter, Advance(units)
    PROVE  KeptInv'
<1>0. /\ counter \in Nat /\ RootNow \in Nat /\ Good(root) /\ root.start <= counter
      /\ Good(derived) /\ derived.start <= RootNow /\ children \subseteq {"derived"}
      /\ root.ticksPerSecond \in SourceRates /\ Units \in SourceRates
  BY RootNowFacts DEF TimeInv
<1>1. /\ exact["root"] \in Nat /\ exact["derived"] \in Nat
      /\ changes["root"] \in Nat /\ changes["derived"] \in Nat
  BY DEF HistoryInv, Names
<1>2. /\ units \in Nat /\ counter' = counter + units
      /\ UNCHANGED <<root, derived, children, changes>>
  BY <1>0, TimelineAssumption DEF Advance
<1>3. CounterMoves
  BY <1>0, <1>2, TimelineAssumption DEF Advance, CounterMoves
<1>4. RootNow' = NowAt(root, counter') /\ RootNow' \in Nat /\ RootNow' >= RootNow
  BY <1>2, <1>3, RootMoves DEF RootNow
<1>5. /\ exact'["root"] = exact["root"] + Passes("root", units)
      /\ exact'["derived"] = IF "derived" \notin Live THEN 0
                             ELSE exact["derived"] + Passes("derived", RootNow' - RootNow)
  BY <1>4 DEF Advance, Names, Live
<1>6. RootKept'
  <2>1. Passes("root", units) = IF root.paused THEN 0 ELSE units * (root.num * Part(root))
    BY <1>0, <1>2, PassesExact DEF KeptInv, RootKept, Of, SourceRate, Names
  <2>2. counter' - counter = units /\ counter' \in Nat /\ counter <= counter'
    BY <1>0, <1>2
  <2>3. Kept(root, counter',
             exact["root"] + (IF root.paused THEN 0
                              ELSE (counter' - counter) * (root.num * Part(root))),
             changes["root"])
    BY <1>0, <1>1, <2>2, AdvanceKeeps DEF KeptInv, RootKept
  <2>4. Kept(root, counter', exact'["root"], changes["root"])
    BY <1>5, <2>1, <2>2, <2>3
  <2> QED BY <1>2, <2>4 DEF KeptInv, RootKept
<1>7. DerivedKept'
  <2>0. Live' = Live
    BY <1>2 DEF Live
  <2>1. CASE "derived" \notin Live
    BY <1>5, <2>0, <2>1 DEF DerivedKept
  <2>2. CASE "derived" \in Live
    <3> DEFINE ticks == RootNow' - RootNow
    <3>0. ticks \in Nat
      BY <1>0, <1>4
    <3>1. Exact(derived, root.ticksPerSecond)
          /\ Kept(derived, RootNow, exact["derived"], changes["derived"])
      BY <2>2 DEF KeptInv, DerivedKept
    <3>2. Passes("derived", ticks) =
            IF derived.paused THEN 0 ELSE ticks * (derived.num * Part(derived))
      <4> HIDE DEF ticks
      <4> QED BY <1>0, <3>0, <3>1, PassesExact DEF Of, SourceRate, Names
    <3>3. Kept(derived, RootNow',
               exact["derived"] + (IF derived.paused THEN 0
                                   ELSE (RootNow' - RootNow) * (derived.num * Part(derived))),
               changes["derived"])
      BY <1>0, <1>1, <1>4, <3>1, AdvanceKeeps
    <3>4. Kept(derived, RootNow', exact'["derived"], changes["derived"])
      BY <1>5, <2>2, <3>2, <3>3
    <3>5. Exact(derived', root'.ticksPerSecond)
      BY <1>2, <3>1
    <3> QED BY <1>2, <2>0, <2>2, <3>4, <3>5 DEF DerivedKept
  <2> QED BY <2>1, <2>2
<1> QED BY <1>6, <1>7 DEF KeptInv

LEMMA KeptFacts ==
    ASSUME TimeInv, HistoryInv
    PROVE  /\ counter \in Nat /\ RootNow \in Nat /\ Good(root) /\ root.start <= counter
           /\ Good(derived) /\ derived.start <= RootNow /\ children \subseteq {"derived"}
           /\ root.ticksPerSecond \in SourceRates /\ Units \in SourceRates
           /\ exact["root"] \in Nat /\ exact["derived"] \in Nat
           /\ changes["root"] \in Nat /\ changes["derived"] \in Nat
BY RootNowFacts DEF TimeInv, HistoryInv, Names

\* A step that leaves the derived timeline and its source alone.
LEMMA DerivedSame ==
    ASSUME DerivedKept, UNCHANGED <<derived, children, exact>>, RootNow' = RootNow,
           root'.ticksPerSecond = root.ticksPerSecond, changes'["derived"] = changes["derived"]
    PROVE  DerivedKept'
<1>1. Live' = Live
  BY DEF Live
<1> QED BY <1>1 DEF DerivedKept

LEMMA KeptSetSpeed ==
    ASSUME TimeInv, HistoryInv, KeptInv, [Next]_vars, NEW name \in Live, NEW speed \in Speeds,
           SetSpeedMultiplier(name, speed)
    PROVE  KeptInv'
<1> DEFINE u == RecomputeRate([BankAt(Of(name), SourceNow(name)) EXCEPT !.speed = speed],
                              SourceRate(name))
<1>0. /\ counter \in Nat /\ RootNow \in Nat /\ Good(root) /\ root.start <= counter
      /\ Good(derived) /\ derived.start <= RootNow /\ children \subseteq {"derived"}
      /\ root.ticksPerSecond \in SourceRates /\ Units \in SourceRates
      /\ exact["root"] \in Nat /\ exact["derived"] \in Nat
      /\ changes["root"] \in Nat /\ changes["derived"] \in Nat
  BY KeptFacts
<1>1. Set(name, u) /\ Changed({name}) /\ UNCHANGED <<counter, children, exact>>
  BY DEF SetSpeedMultiplier
<1>2. \A n \in Names : changes'[n] = IF n = name THEN changes[n] + 1 ELSE changes[n]
  BY <1>1 DEF Changed
<1>3. CASE name = "root"
  <2>1. u = RecomputeRate([BankAt(root, counter) EXCEPT !.speed = speed], Units)
    BY <1>3 DEF Of, SourceNow, SourceRate
  <2> HIDE DEF u
  <2>2. root' = u /\ derived' = derived
    BY <1>1, <1>3 DEF Set
  <2>3. /\ Exact(u, Units) /\ Kept(u, counter, exact["root"], changes["root"] + 1)
        /\ u.ticksPerSecond = root.ticksPerSecond
    BY <1>0, <2>1, SetKeeps DEF KeptInv, RootKept
  <2>4. changes'["root"] = changes["root"] + 1 /\ changes'["derived"] = changes["derived"]
    BY <1>2, <1>3 DEF Names
  <2>5. RootKept'
    BY <1>1, <2>2, <2>3, <2>4 DEF RootKept
  <2>6. RootNow' = RootNow
    <3>1. Rebased(root, counter, u)
      BY <1>0, <2>1, ConstantFacts, SpeedRebases
    <3>2. NowAt(u, counter) = NowAt(root, counter)
      BY <1>0, <3>1, RebasedNow
    <3> QED BY <1>1, <2>2, <3>2 DEF RootNow
  <2>7. DerivedKept'
    BY <1>1, <2>2, <2>3, <2>4, <2>6, DerivedSame DEF KeptInv
  <2> QED BY <2>5, <2>7 DEF KeptInv
<1>4. CASE name = "derived"
  <2>1. u = RecomputeRate([BankAt(derived, RootNow) EXCEPT !.speed = speed],
                          root.ticksPerSecond)
    BY <1>4 DEF Of, SourceNow, SourceRate
  <2> HIDE DEF u
  <2>2. derived' = u /\ root' = root
    BY <1>1, <1>4 DEF Set
  <2>3. Exact(derived, root.ticksPerSecond)
        /\ Kept(derived, RootNow, exact["derived"], changes["derived"])
    BY <1>4 DEF KeptInv, DerivedKept
  <2>4. /\ Exact(u, root.ticksPerSecond)
        /\ Kept(u, RootNow, exact["derived"], changes["derived"] + 1)
    BY <1>0, <2>1, <2>3, SetKeeps
  <2>5. changes'["derived"] = changes["derived"] + 1 /\ changes'["root"] = changes["root"]
    BY <1>2, <1>4 DEF Names
  <2>6. RootKept'
    BY <1>1, <2>2, <2>5 DEF RootKept, KeptInv
  <2>7. RootNow' = RootNow /\ "derived" \in Live'
    BY <1>1, <1>4, <2>2 DEF RootNow, Live
  <2>8. DerivedKept'
    BY <1>1, <2>2, <2>4, <2>5, <2>7 DEF DerivedKept
  <2> QED BY <2>6, <2>8 DEF KeptInv
<1> QED BY <1>0, <1>3, <1>4 DEF Live

LEMMA KeptPause ==
    ASSUME TimeInv, HistoryInv, KeptInv, NEW name \in Live, Pause(name) \/ Unpause(name)
    PROVE  KeptInv'
<1>0. /\ counter \in Nat /\ RootNow \in Nat /\ Good(root) /\ root.start <= counter
      /\ Good(derived) /\ derived.start <= RootNow /\ children \subseteq {"derived"}
  BY KeptFacts
<1>1. PICK p \in BOOLEAN :
          Set(name, [BankAt(Of(name), SourceNow(name)) EXCEPT !.paused = p])
  BY Zenon DEF Pause, Unpause
<1>2. UNCHANGED <<counter, children, exact, changes>>
  BY DEF Pause, Unpause
<1> DEFINE u == [BankAt(Of(name), SourceNow(name)) EXCEPT !.paused = p]
<1>3. CASE name = "root"
  <2>1. u = [BankAt(root, counter) EXCEPT !.paused = p]
    BY <1>3 DEF Of, SourceNow
  <2>2. Set(name, u)
    BY <1>1
  <2> HIDE DEF u
  <2>3. root' = u /\ derived' = derived
    BY <1>3, <2>2 DEF Set
  <2>4. /\ Exact(u, Units) /\ Kept(u, counter, exact["root"], changes["root"])
        /\ u.ticksPerSecond = root.ticksPerSecond
    BY <1>0, <2>1, PauseKeeps DEF KeptInv, RootKept
  <2>5. RootKept'
    BY <1>2, <2>3, <2>4 DEF RootKept
  <2>6. RootNow' = RootNow
    <3>1. Rebased(root, counter, u)
      BY <1>0, <2>1, PauseRebases
    <3>2. NowAt(u, counter) = NowAt(root, counter)
      BY <1>0, <3>1, RebasedNow
    <3> QED BY <1>2, <2>3, <3>2 DEF RootNow
  <2>7. DerivedKept'
    BY <1>2, <2>3, <2>4, <2>6, DerivedSame DEF KeptInv
  <2> QED BY <2>5, <2>7 DEF KeptInv
<1>4. CASE name = "derived"
  <2>1. u = [BankAt(derived, RootNow) EXCEPT !.paused = p]
    BY <1>4 DEF Of, SourceNow
  <2>2. Set(name, u)
    BY <1>1
  <2> HIDE DEF u
  <2>3. derived' = u /\ root' = root
    BY <1>4, <2>2 DEF Set
  <2>4. Exact(derived, root.ticksPerSecond)
        /\ Kept(derived, RootNow, exact["derived"], changes["derived"])
    BY <1>4 DEF KeptInv, DerivedKept
  <2>5. /\ Exact(u, root.ticksPerSecond)
        /\ Kept(u, RootNow, exact["derived"], changes["derived"])
    BY <1>0, <2>1, <2>4, PauseKeeps
  <2>6. RootKept'
    BY <1>2, <2>3 DEF RootKept, KeptInv
  <2>7. RootNow' = RootNow /\ "derived" \in Live'
    BY <1>2, <1>4, <2>3 DEF RootNow, Live
  <2>8. DerivedKept'
    BY <1>2, <2>3, <2>5, <2>7 DEF DerivedKept
  <2> QED BY <2>6, <2>8 DEF KeptInv
<1> QED BY <1>0, <1>3, <1>4 DEF Live

LEMMA KeptSetRootRate ==
    ASSUME TimeInv, HistoryInv, KeptInv, NEW rate \in Rates \ {0}, SetRootRate(rate)
    PROVE  KeptInv'
<1> DEFINE u == RecomputeRate([BankAt(root, counter) EXCEPT !.ticksPerSecond = rate], Units)
           v == RecomputeRate(BankAt(derived, RootNow), rate)
<1>0. /\ counter \in Nat /\ RootNow \in Nat /\ Good(root) /\ root.start <= counter
      /\ Good(derived) /\ derived.start <= RootNow /\ children \subseteq {"derived"}
      /\ root.ticksPerSecond \in SourceRates /\ Units \in SourceRates /\ rate \in SourceRates
      /\ exact["root"] \in Nat /\ exact["derived"] \in Nat
      /\ changes["root"] \in Nat /\ changes["derived"] \in Nat
  BY KeptFacts DEF SourceRates
<1>1. BankAt(root, counter).banked = RootNow
  BY <1>0, BankFacts DEF Rebased, RootNow
<1>2. /\ root' = u /\ derived' = IF children = {} THEN derived ELSE v
      /\ Changed(Live) /\ UNCHANGED <<counter, children, exact>>
  BY <1>1 DEF SetRootRate
<1>3. \A n \in Names : changes'[n] = IF n \in Live THEN changes[n] + 1 ELSE changes[n]
  BY <1>2 DEF Changed
<1>4. /\ Exact(u, Units) /\ Kept(u, counter, exact["root"], changes["root"] + 1)
      /\ u.ticksPerSecond = rate
  BY <1>0, SetKeeps DEF KeptInv, RootKept
<1>5. RootNow' = RootNow
  <2>1. Rebased(root, counter, u)
    BY <1>0, ConstantFacts, RateRebases
  <2> HIDE DEF u
  <2>2. NowAt(u, counter) = NowAt(root, counter)
    BY <1>0, <2>1, RebasedNow
  <2> QED BY <1>2, <2>2 DEF RootNow
<1>6. "derived" \in Live => /\ Exact(v, rate)
                            /\ Kept(v, RootNow, exact["derived"], changes["derived"] + 1)
  <2> SUFFICES ASSUME "derived" \in Live
               PROVE  /\ Exact(v, rate)
                      /\ Kept(v, RootNow, exact["derived"], changes["derived"] + 1)
    OBVIOUS
  <2>1. Exact(derived, root.ticksPerSecond)
        /\ Kept(derived, RootNow, exact["derived"], changes["derived"])
    BY DEF KeptInv, DerivedKept
  <2> QED BY <1>0, <2>1, SetKeeps
<1> HIDE DEF u, v
<1>7. RootKept'
  BY <1>2, <1>3, <1>4 DEF RootKept, Names, Live
<1>8. DerivedKept'
  <2>1. Live' = Live /\ ("derived" \in Live <=> children # {})
    BY <1>0, <1>2 DEF Live
  <2>2. CASE "derived" \notin Live
    BY <1>2, <2>1, <2>2 DEF KeptInv, DerivedKept
  <2>3. CASE "derived" \in Live
    BY <1>2, <1>3, <1>4, <1>5, <1>6, <2>1, <2>3 DEF DerivedKept, Names
  <2> QED BY <2>2, <2>3
<1> QED BY <1>7, <1>8 DEF KeptInv

LEMMA KeptRest ==
    ASSUME TimeInv, HistoryInv, KeptInv,
           \/ Destroy
           \/ \E rate \in Rates : Derive(rate)
           \/ \E rate \in Rates \ {0} : SetDerivedRate(rate)
           \/ UNCHANGED vars
    PROVE  KeptInv'
<1>0. /\ counter \in Nat /\ RootNow \in Nat /\ Good(root) /\ root.start <= counter
      /\ Good(derived) /\ derived.start <= RootNow /\ children \subseteq {"derived"}
      /\ root.ticksPerSecond \in SourceRates /\ Units \in SourceRates
      /\ exact["root"] \in Nat /\ exact["derived"] \in Nat
      /\ changes["root"] \in Nat /\ changes["derived"] \in Nat
  BY KeptFacts
<1>00. exact \in [Names -> Nat] /\ changes \in [Names -> Nat]
  BY DEF HistoryInv
<1>1. ASSUME UNCHANGED <<counter, root>>, exact'["root"] = exact["root"],
             changes'["root"] = changes["root"]
      PROVE  RootKept' /\ RootNow' = RootNow
  BY <1>1 DEF KeptInv, RootKept, RootNow
<1>2. CASE Destroy
  <2>1. /\ UNCHANGED <<counter, root>> /\ "derived" \notin Live'
        /\ exact'["derived"] = 0 /\ exact'["root"] = exact["root"]
        /\ changes'["root"] = changes["root"]
    BY <1>00, <1>2 DEF Destroy, Live, Names
  <2> QED BY <1>1, <2>1 DEF KeptInv, DerivedKept
<1>3. ASSUME NEW rate \in Rates, Derive(rate) PROVE KeptInv'
  <2> DEFINE asked == IF rate = 0 THEN root.ticksPerSecond ELSE rate
             u == RecomputeRate(NewTimeline(asked, RootNow), root.ticksPerSecond)
  <2>1. asked \in SourceRates
    BY <1>0 DEF SourceRates
  <2>2. /\ derived' = u /\ "derived" \notin Live /\ "derived" \in Live'
        /\ UNCHANGED <<counter, root, exact, changes>>
    BY <1>3 DEF Derive, Live
  <2> HIDE DEF asked
  <2>3. /\ Exact(u, root.ticksPerSecond)
        /\ Kept(u, RootNow, 0, changes["derived"])
    BY <1>0, <2>1, NewIsKept
  <2> HIDE DEF u
  <2>4. exact["derived"] = 0
    BY <2>2 DEF KeptInv, DerivedKept
  <2> QED BY <1>1, <2>2, <2>3, <2>4 DEF KeptInv, DerivedKept
<1>4. ASSUME NEW rate \in Rates \ {0}, SetDerivedRate(rate) PROVE KeptInv'
  <2> DEFINE u == RecomputeRate([BankAt(derived, RootNow) EXCEPT !.ticksPerSecond = rate],
                                root.ticksPerSecond)
  <2>1. /\ derived' = u /\ "derived" \in Live /\ "derived" \in Live'
        /\ Changed({"derived"}) /\ UNCHANGED <<counter, root, exact>>
    BY <1>0, <1>4 DEF SetDerivedRate, Live
  <2>2. changes'["derived"] = changes["derived"] + 1 /\ changes'["root"] = changes["root"]
    BY <2>1 DEF Changed, Names
  <2>3. Exact(derived, root.ticksPerSecond)
        /\ Kept(derived, RootNow, exact["derived"], changes["derived"])
    BY <2>1 DEF KeptInv, DerivedKept
  <2>4. /\ Exact(u, root.ticksPerSecond)
        /\ Kept(u, RootNow, exact["derived"], changes["derived"] + 1)
    BY <1>0, <2>3, SetKeeps
  <2> HIDE DEF u
  <2> QED BY <1>1, <2>1, <2>2, <2>4 DEF KeptInv, DerivedKept
<1>5. CASE UNCHANGED vars
  BY <1>1, <1>5 DEF vars, KeptInv, DerivedKept, Live
<1> QED BY <1>2, <1>3, <1>4, <1>5

\* However often a timeline is banked, it is never ahead of exact time, and behind by
\* less than a tick for each change of its rate or of its source's (bank,
\* recomputeRate, scaleElapsed).
THEOREM TimeStaysExact == Spec => []TimeIsKept
<1>1. Init => KeptInv /\ HistoryInv
  <2> SUFFICES ASSUME Init PROVE KeptInv /\ HistoryInv
    OBVIOUS
  <2>1. /\ counter = 0 /\ root = NewTimeline(Units, 0) /\ "derived" \notin Live
        /\ exact["root"] = 0 /\ exact["derived"] = 0 /\ changes["root"] = 0
    BY DEF Init, Names, Live
  <2> QED BY <2>1, RootAtFirst DEF KeptInv, RootKept, DerivedKept, HistoryInv, Init
<1>2. TimeInv /\ HistoryInv /\ KeptInv /\ [Next]_vars => KeptInv'
  BY KeptAdvance, KeptSetSpeed, KeptPause, KeptSetRootRate, KeptRest DEF Next
<1>3. TimeInv /\ KeptInv => TimeIsKept
  <2> SUFFICES ASSUME TimeInv, KeptInv, NEW name \in Live
               PROVE  /\ Measured(name) <= exact[name]
                      /\ exact[name] <= Measured(name) + changes[name] * (Scale - 1)
    BY DEF TimeIsKept
  <2>1. Kept(Of(name), SourceNow(name), exact[name], changes[name])
    BY DEF TimeInv, KeptInv, RootKept, DerivedKept, Live, Of, SourceNow
  <2> QED BY <2>1, MeasuredIsValue, Zenon DEF Kept
<1> QED BY <1>1, <1>2, <1>3, TimeAlways, HistoryStep, PTL DEF Spec
=============================================================================
