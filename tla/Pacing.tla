-------------------------------- MODULE Pacing --------------------------------
(***************************************************************************)
(* How fast a usage window is burnt (meter-core/src/pacing.rs), over the   *)
(* windows of meter-core/src/window.rs.                                    *)
(*                                                                         *)
(* Time is counted in ticks and utilization in whole percents.  The code's *)
(* floating-point quotients are kept exact here, as a numerator over a     *)
(* positive denominator, so that a comparison is a product of integers.    *)
(* Only where one is rounded to be shown does the error of its double      *)
(* matter: a quotient half way between two figures goes either way, as the *)
(* division comes out.                                                     *)
(***************************************************************************)
EXTENDS Integers

CONSTANTS
    SessionLength,  \* the five hours of the session window, in ticks
    Day,            \* a day, in ticks
    Short,          \* the quotients whose double comes out too low
    Long,           \* and those whose double comes out too high
    None            \* Option::None

ASSUME PacingAssumption ==
    SessionLength \in Nat \ {0} /\ Day \in Nat \ {0}

LimitWindows == {"five_hour", "seven_day"}
PaceDays == 5..7

\* In hundredths, and in percents for the last.
UnderuseThreshold == 80
RiskThreshold == 100
HeavyOveruseThreshold == 120
MinUsageForProjection == 2

Quotients == [num : Int, den : Nat \ {0}]
PaceBands == {"underuse", "sustainable", "overuse", "heavy_overuse"}
ASSUME DoubleAssumption == Short \subseteq Quotients /\ Long \subseteq Quotients
ASSUME NoneAssumption == None \notin Int \cup Quotients \cup PaceBands

\* A quotient against a number of hundredths.
Above(q, hundredths) == 100 * q.num > hundredths * q.den
Below(q, hundredths) == 100 * q.num < hundredths * q.den
Exceeds(p, q) == p.num * q.den > q.num * p.den

\* The nearest number of parts, a tie taken up; whether there is a tie.
HalfUp(q, parts) == (2 * parts * q.num + q.den) \div (2 * q.den)
Tie(q, parts) == q.den * (2 * HalfUp(q, parts) - 1) = 2 * parts * q.num

\* What is nearest to the quotient as it was computed.
Nearest(q, parts) ==
    IF q \in Short /\ Tie(q, parts) THEN HalfUp(q, parts) - 1 ELSE HalfUp(q, parts)

\* f64::round and Math.round, which take up what is half way in a double too.
Rounded(q) == Nearest(q, 1)

\* A tie of tenths that a double holds is one of quarters, computed without error.
Held(q) == q.den * ((4 * q.num) \div q.den) = 4 * q.num /\ q \notin Short \cup Long

\* The one decimal of {:.1}, counted in tenths: the even one where a double is half way.
Tenths(q) ==
    IF Tie(q, 10) /\ Held(q) THEN HalfUp(q, 10) - (HalfUp(q, 10) % 2) ELSE Nearest(q, 10)

AtMost(a, b) == IF a < b THEN a ELSE b
AtLeast(a, b) == IF a < b THEN b ELSE a

-----------------------------------------------------------------------------

Duration(window) == IF window = "five_hour" THEN SessionLength ELSE 7 * Day

FallbackReset(window, fetched_at) == fetched_at + Duration(window)

WeeklyPacingDuration(days) == days * Day

PacingDuration(window, days) ==
    IF window = "five_hour" THEN Duration(window) ELSE WeeklyPacingDuration(days)

\* UsageStatus::from_utilization, of a percentage given as a quotient.
StatusOf(q) ==
    IF ~Below(q, 8000) THEN "critical" ELSE IF ~Below(q, 5000) THEN "warning" ELSE "safe"

Percent(n) == [num |-> n, den |-> 1]

PaceBand(ratio) ==
    IF Below(ratio, UnderuseThreshold) THEN "underuse"
    ELSE IF ~Above(ratio, RiskThreshold) THEN "sustainable"
    ELSE IF ~Above(ratio, HeavyOveruseThreshold) THEN "overuse"
    ELSE "heavy_overuse"

-----------------------------------------------------------------------------

\* The time since the window opened, while it is open.  A clock behind the
\* server's makes it zero or less.
Elapsed(w, now) == Duration(w.window) - (w.resets_at - now)

Running(w, now) == now < w.resets_at /\ 0 < Elapsed(w, now)

\* Too early to judge a rate: less than 5% of span has passed, and next to
\* nothing is used.
InGrace(w, now, span) == 20 * Elapsed(w, now) < span /\ w.utilization < MinUsageForProjection

\* The percentage the plan expects by now: linear over pacing, then flat.
ExpectedUsage(w, now, pacing) ==
    IF Running(w, now) /\ ~InGrace(w, now, pacing)
    THEN [num |-> 100 * AtMost(Elapsed(w, now), pacing), den |-> pacing]
    ELSE None

\* What is used, capped at the limit, over what was expected.
PaceRatio(w, now, pacing) ==
    LET expected == ExpectedUsage(w, now, pacing)
    IN  IF expected = None THEN None
        ELSE [num |-> AtMost(w.utilization, 100) * expected.den, den |-> expected.num]

\* Never a horizon shorter than what has already elapsed.
Horizon(w, now, pacing) == AtLeast(pacing, Elapsed(w, now))

\* Where the usage ends at this rate.  The grace is of the window, whatever the pacing.
ProjectedEnd(w, now, pacing) ==
    IF Running(w, now) /\ ~InGrace(w, now, Duration(w.window))
    THEN [num |-> w.utilization * Horizon(w, now, pacing), den |-> Elapsed(w, now)]
    ELSE None

\* Mutant of HitsLimit: the limit is projected over the whole window.
MutHitsBeforeReset(w, now, pacing) ==
    /\ w.utilization \in MinUsageForProjection..99
    /\ Running(w, now)
    /\ 100 * Elapsed(w, now) < w.utilization * Duration(w.window)

\* At this rate the usage reaches 100% before the horizon ends.
HitsLimit(w, now, pacing) ==
    /\ w.utilization \in MinUsageForProjection..99
    /\ Running(w, now)
    /\ 100 * Elapsed(w, now) < w.utilization * Horizon(w, now, pacing)

\* projected_limit_date, when HitsLimit: the tick in which the usage reaches 100%.
LimitDate(w, now) ==
    w.resets_at - Duration(w.window) + (100 * Elapsed(w, now)) \div w.utilization

\* PacingAssessment::for_window, over the full window.
AtRisk(w, now) ==
    /\ w.utilization > 0
    /\ LET ratio == PaceRatio(w, now, Duration(w.window))
       IN  ratio # None /\ Above(ratio, RiskThreshold)
=============================================================================
