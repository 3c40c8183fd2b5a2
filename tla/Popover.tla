-------------------------------- MODULE Popover --------------------------------
(***************************************************************************)
(* What the popover shows of a MeterState: the frontend's own pacing, view *)
(* models and rendering (src/pacing.ts, view-model.ts, cost-view-model.ts, *)
(* format.ts, status.ts, render.ts), a second implementation of what Rust  *)
(* computes for the tray.  And the segment of the status line (meter-files *)
(* statusline/bridge.rs), which is a third surface on Rust's figures.      *)
(*                                                                         *)
(* Milliseconds are ticks here too, and a number shown is rounded as the   *)
(* text shows it.  Wording, layout and colours are left out.               *)
(***************************************************************************)
EXTENDS TrayModel

-----------------------------------------------------------------------------
\* pacing.ts

WindowDuration(window) == [five_hour |-> SessionLength, seven_day |-> 7 * Day][window]

\* elapsedMs: nothing once the window has reset.
ElapsedMs(w, now) ==
    IF w.resets_at <= now THEN None ELSE WindowDuration(w.window) - (w.resets_at - now)

\* Time has passed, by a clock that is not behind the server's.
HasElapsed(w, now) == ElapsedMs(w, now) # None /\ ElapsedMs(w, now) > 0

ExpectedPercent(w, now, pacing) ==
    LET passed == AtMost(ElapsedMs(w, now), pacing)
    IN  IF ~HasElapsed(w, now) THEN None
        ELSE IF 20 * passed < pacing /\ w.utilization < MinUsageForProjection THEN None
        ELSE [num |-> 100 * passed, den |-> pacing]

CardRatio(w, now, pacing) ==
    LET expected == ExpectedPercent(w, now, pacing)
    IN  IF expected = None THEN None
        ELSE [num |-> expected.den * AtMost(w.utilization, 100), den |-> expected.num]

\* projectedEndPercent
EndPercent(w, now, pacing) ==
    LET elapsed == ElapsedMs(w, now)
    IN  IF ~HasElapsed(w, now) THEN None
        ELSE IF /\ 20 * elapsed < WindowDuration(w.window)
                /\ w.utilization < MinUsageForProjection
        THEN None
        ELSE [num |-> w.utilization * AtLeast(pacing, elapsed), den |-> elapsed]

\* projectedLimitDate: the offset of the hit from the window's start, if it comes
\* before the deadline.
HitAt(w, now, pacing) ==
    LET elapsed == ElapsedMs(w, now)
    IN  IF \/ w.utilization >= 100 \/ w.utilization < MinUsageForProjection
           \/ ~HasElapsed(w, now)
           \/ 100 * elapsed >= w.utilization * AtLeast(pacing, elapsed)
        THEN None
        ELSE w.resets_at - WindowDuration(w.window) + (100 * elapsed) \div w.utilization

CardAtRisk(w, now) ==
    /\ w.utilization > 0
    /\ LET ratio == CardRatio(w, now, WindowDuration(w.window))
       IN  ratio # None /\ Above(ratio, RiskThreshold)

-----------------------------------------------------------------------------
\* format.ts and status.ts

\* formatCountdown, or what the tick rewrites it to.
Countdown(resets_at, now) ==
    LET remaining == resets_at - now
        kind == IF remaining > 0 THEN "in" ELSE IF remaining > -ResetSoonGrace THEN "soon" ELSE "ago"
    IN  [reset |-> kind,
         time |-> IF kind = "soon" THEN 0
                  ELSE ShortDuration(IF kind = "in" THEN remaining ELSE -remaining)]

\* formatHitTime: time only when it is today.
HitClock(hit, now) ==
    [clock |-> (hit + TimeZone) % Day,
     day |-> IF LocalDay(hit) # LocalDay(now) THEN LocalDay(hit) ELSE None]

\* By the user's own thresholds, not by the tray's fixed ones.
StatusFor(percent, options) ==
    IF ~Below(percent, 100 * options.critical) THEN "critical"
    ELSE IF ~Below(percent, 100 * options.warning) THEN "warning"
    ELSE "safe"

-----------------------------------------------------------------------------
\* view-model.ts

\* Mutant of CardPacing: told by the card instead of by the window's own cadence.
MutPacingByCard(id, w, days) ==
    IF id = <<"five_hour">> THEN WindowDuration(w.window) ELSE days * Day

\* A session paces over its window, whatever card it is on; a week over the days set.
CardPacing(id, w, days) ==
    IF w.window = "five_hour" THEN WindowDuration(w.window) ELSE days * Day

\* ProjectionVM: what the line under a row projects.
Projections ==
    [says : {"limit reached"}] \cup [says : {"hits limit"}, at : Clocks]
        \cup [says : {"on pace to end"}, percent : Int, unused : BOOLEAN]

\* projectionFor
Projection(w, now, pacing, ratio) ==
    LET hit == HitAt(w, now, pacing)
        end == EndPercent(w, now, pacing)
        underused == w.window # "five_hour" /\ ratio # None /\ Below(ratio, UnderuseThreshold)
    IN  IF w.utilization >= 100 THEN [says |-> "limit reached"]
        ELSE IF hit # None THEN [says |-> "hits limit", at |-> HitClock(hit, now)]
        ELSE IF end = None THEN None
        ELSE [says |-> "on pace to end", percent |-> RoundPercent(end), unused |-> underused]

\* cardFor: without pace tracking no ratio, no expectation and no projection.
Card(id, w, now, options) ==
    LET pacing == CardPacing(id, w, options.weekly_pace_days)
        tracking == options.pace_tracking_enabled
        ratio == IF tracking THEN CardRatio(w, now, pacing) ELSE None
    IN  [percent |-> RoundPercent(Percent(w.utilization)),
         status |-> StatusFor(Percent(w.utilization), options),
         at_risk |-> CardAtRisk(w, now),
         resets_at |-> w.resets_at,
         ratio |-> ratio,
         expected |-> IF tracking THEN ExpectedPercent(w, now, pacing) ELSE None,
         pace_first |-> options.pace_first_display /\ ratio # None,
         projection |-> IF tracking THEN Projection(w, now, pacing, ratio) ELSE None]

HeadlineCard(w, now, options) ==
    IF w = None THEN <<>> ELSE <<Card(<<w.window>>, w, now, options)>>

\* buildViewModel
Cards(snapshot, now, options) ==
    LET scoped == snapshot.scoped
        shown == Selected(scoped, {i \in DOMAIN scoped : scoped[i].display_name \in options.shown})
    IN  HeadlineCard(snapshot.five_hour, now, options)
          \o HeadlineCard(snapshot.seven_day, now, options)
          \o [i \in DOMAIN shown |->
                 Card(<<"scoped", shown[i].display_name>>, shown[i].usage, now, options)]

BannerKind(meter) ==
    IF meter.phase # "polling" THEN meter.phase
    ELSE IF meter.snapshot = None THEN "loading"
    ELSE IF meter.staleness = "stale" THEN "stale" ELSE "ok"

\* statusLine: a sentence for each phase, with the age of what is shown.
StatusSentence(meter, now) ==
    LET age == IF meter.snapshot = None THEN None
               ELSE ShortDuration(now - meter.snapshot.fetched_at)
    IN  [phase |-> meter.phase, age |-> age,
         stale |-> meter.phase = "polling" /\ age # None /\ meter.staleness = "stale"]

-----------------------------------------------------------------------------
\* render.ts: the figures on a row, in either layout

Figure(says, value) == [says |-> says, value |-> value]

\* toFixed(1): what is half way in a double is taken up.
FixedTenths(q) == Nearest(q, 10)

PaceVerdict(ratio) ==
    IF Above(ratio, RiskThreshold) THEN "overusing"
    ELSE IF Below(ratio, UnderuseThreshold) THEN "underusing" ELSE "on pace"

\* Pace first, the ratio and the percentage change places.
PrimaryMetric(card) ==
    IF card.pace_first THEN Figure("ratio", FixedTenths(card.ratio))
    ELSE Figure("percent", card.percent)

PaceLines == [figure : [says : {"ratio", "percent"}, value : Int], expected : Int]
ASSUME NoneIsNoRow == None \notin PaceLines \cup Projections

PaceLine(card) ==
    IF card.ratio = None THEN None
    ELSE [figure |-> IF card.pace_first THEN Figure("percent", card.percent)
                     ELSE Figure("ratio", FixedTenths(card.ratio)),
          expected |-> RoundPercent(card.expected)]

HeadBadge(card) == IF card.pace_first THEN PaceVerdict(card.ratio) ELSE card.status

Row(card, now) ==
    [badge |-> HeadBadge(card), primary |-> PrimaryMetric(card), pace |-> PaceLine(card),
     projection |-> card.projection, countdown |-> Countdown(card.resets_at, now)]

-----------------------------------------------------------------------------
\* cost-view-model.ts

CardMode(mode, snapshot) ==
    IF mode # "auto" THEN mode
    ELSE IF \/ snapshot = None
            \/ snapshot # None /\ \/ snapshot.five_hour # None \/ snapshot.seven_day # None
                                  \/ Len(snapshot.scoped) > 0 \/ snapshot.spend = None
    THEN "allowance" ELSE "cost"

\* costGauge: the minor units are divided as they are, whatever their exponents.
CostGauge(spend, options) ==
    LET budget == IF spend.limit # None THEN spend.limit ELSE spend.cap
        percent == [num |-> 100 * spend.used.minor, den |-> budget.minor]
    IN  IF spend.used = None \/ budget = None THEN None
        ELSE IF budget.minor <= 0 THEN None
        ELSE [percent |-> RoundPercent(percent), status |-> StatusFor(percent, options),
              budget |-> budget]

\* buildCostViewModel: a hard cap is told only beside a limit it differs from.
CostCard(spend, options) ==
    [used |-> spend.used, gauge |-> CostGauge(spend, options),
     cap |-> IF /\ spend.cap # None /\ spend.limit # None
                /\ spend.cap.minor # spend.limit.minor
             THEN spend.cap ELSE None]

-----------------------------------------------------------------------------

\* render in popover-view.ts: the spend alone, or the rows and the spend under them;
\* the form for a session key takes the place of the empty state.
PopoverView(meter, now, options) ==
    LET snapshot == meter.snapshot
        cards == IF snapshot = None \/ CardMode(options.usage_mode, snapshot) = "cost" THEN <<>>
                 ELSE Cards(snapshot, now, options)
        spends == IF snapshot = None THEN <<>>
                  ELSE IF snapshot.spend = None THEN <<>> ELSE <<CostCard(snapshot.spend, options)>>
        form == meter.phase \in {"awaiting_session", "session_expired"}
    IN  [banner |-> BannerKind(meter), status |-> StatusSentence(meter, now),
         rows |-> [i \in DOMAIN cards |-> Row(cards[i], now)], spends |-> spends,
         form |-> form, empty |-> cards = <<>> /\ spends = <<>> /\ ~form]

-----------------------------------------------------------------------------
\* The status line

\* bridge.rs, into_domain and headline_snapshot: a window whose reset is no instant is
\* dropped, and without any window there is nothing to say.
ReportedWindow(raw, window) ==
    IF raw = None THEN None
    ELSE IF raw.resets_at = None THEN None
    ELSE [utilization |-> raw.utilization, resets_at |-> raw.resets_at, window |-> window]

HeadlineSnapshot(five_hour, seven_day, at) ==
    IF five_hour = None /\ seven_day = None THEN None
    ELSE [five_hour |-> five_hour, seven_day |-> seven_day, scoped |-> <<>>, spend |-> None,
          fetched_at |-> at]

\* pace_segment: the tray's signal, but a flame only for heavy overuse.
PaceSegment(snapshot, now, options) ==
    LET signal == PaceSignal(snapshot, now, options.weekly_pace_days)
    IN  IF ~options.pace_tracking_enabled \/ signal = None THEN None
        ELSE IF signal.kind = "hot" /\ Below(signal.ratio, HeavyOveruseThreshold) THEN None
        ELSE [kind |-> signal.kind, ratio |-> Tenths(signal.ratio)]

\* render
Segment(snapshot, now, options) ==
    LET percent(w) == IF w = None THEN None ELSE Rounded(Percent(w.utilization))
    IN  [five_hour |-> percent(snapshot.five_hour), seven_day |-> percent(snapshot.seven_day),
         pace |-> PaceSegment(snapshot, now, options)]
=============================================================================
