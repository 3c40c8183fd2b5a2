------------------------------- MODULE TrayModel -------------------------------
(***************************************************************************)
(* What the tray shows of a MeterState, computed without touching it       *)
(* (src-tauri/src/tray/model/mod.rs): the icon, the menu's status line and *)
(* its usage lines.  A line is the record of what its text says; wording,  *)
(* currency symbols and indentation are left out.                          *)
(***************************************************************************)
EXTENDS Icon

CONSTANTS
    Hour,           \* in ticks; a tick is a minute or more
    ResetSoonGrace, \* RESET_SOON_GRACE_SECS, rounded up to ticks
    TimeZone        \* the offset of the local day, in ticks

ASSUME TrayModelAssumption ==
    Hour \in Nat \ {0} /\ ResetSoonGrace \in Nat /\ TimeZone \in Int

\* The settings that IconOptions, PaceOptions, MenuOptions and the popover read.
DisplayOptions ==
    [style : IconStyles, mono : BOOLEAN, scale : {1, 2}, usage_mode : {"auto", "allowance", "cost"},
     weekly_pace_days : PaceDays, pace_tracking_enabled : BOOLEAN, pace_first_display : BOOLEAN,
     warning : 0..100, critical : 0..100, shown : SUBSET STRING]

IconIsPaceFirst(options) == options.pace_tracking_enabled /\ options.pace_first_display

-----------------------------------------------------------------------------
\* The icon

\* Spend drives the gauge; without a budget to measure it by, the gauge is empty.
CostIcon(spend, look) ==
    LET fraction == FractionUsed(spend)
        percent == [num |-> 100 * fraction.num, den |-> fraction.den]
    IN  IF fraction = None THEN EmptyIcon(look)
        ELSE [EmptyIcon(look) EXCEPT !.percent = RoundPercent(percent),
                                     !.status = StatusOf(percent)]

\* The signal's ratio, else the session's, else the week's.
IconRatio(snapshot, now, days) ==
    LET signal == PaceSignal(snapshot, now, days)
        session == WindowRatio(snapshot.five_hour, now, days)
    IN  IF signal # None THEN signal.ratio
        ELSE IF session # None THEN session
        ELSE WindowRatio(snapshot.seven_day, now, days)

PaceFirstIcon(snapshot, now, options) ==
    LET base == FromSnapshot(snapshot, now, options)
        ratio == IconRatio(snapshot, now, options.weekly_pace_days)
        signal == PaceSignal(snapshot, now, options.weekly_pace_days)
    IN  IF ratio = None THEN base
        ELSE WithPace(base, ratio, IF signal = None THEN None ELSE signal.kind)

\* Mutant of IconState: an account pinned to cost without a spend figure keeps its allowance.
MutCostKeepsAllowance(meter, now, options) ==
    LET snapshot == meter.snapshot
    IN  IF snapshot = None THEN EmptyIcon(options)
        ELSE IF Effective(options.usage_mode, snapshot) = "cost" /\ snapshot.spend # None
             THEN CostIcon(snapshot.spend, options)
        ELSE IF IconIsPaceFirst(options) THEN PaceFirstIcon(snapshot, now, options)
        ELSE FromSnapshot(snapshot, now, options)

\* icon_state
IconState(meter, now, options) ==
    LET snapshot == meter.snapshot
    IN  IF snapshot = None THEN EmptyIcon(options)
        ELSE IF Effective(options.usage_mode, snapshot) = "cost"
             THEN IF snapshot.spend = None THEN EmptyIcon(options)
                  ELSE CostIcon(snapshot.spend, options)
        ELSE IF IconIsPaceFirst(options) THEN PaceFirstIcon(snapshot, now, options)
        ELSE FromSnapshot(snapshot, now, options)

-----------------------------------------------------------------------------
\* The menu

\* From a day up a duration is told in whole hours, and a past one as nothing.
ShortDuration(ticks) ==
    LET t == AtLeast(ticks, 0) IN IF t >= Day THEN t - (t % Hour) ELSE t

\* "resets in", "resets soon" for a moment after, then "reset ... ago".
UsageLine(label, w, now) ==
    LET remaining == w.resets_at - now
        percent == RoundPercent(Percent(w.utilization))
    IN  IF remaining > 0
        THEN [label |-> label, percent |-> percent, reset |-> "in", time |-> ShortDuration(remaining)]
        ELSE IF remaining > -ResetSoonGrace
        THEN [label |-> label, percent |-> percent, reset |-> "soon", time |-> 0]
        ELSE [label |-> label, percent |-> percent, reset |-> "ago", time |-> ShortDuration(-remaining)]

LocalDay(time) == (time + TimeZone) \div Day

\* Mutant of HitTime: a bare clock time whatever the day.
MutBareClock(hit, now) == [day |-> None, clock |-> (hit + TimeZone) % Day]

\* hit_time: a bare clock time today, dated otherwise.
HitTime(hit, now) ==
    [day |-> IF LocalDay(hit) = LocalDay(now) THEN None ELSE LocalDay(hit),
     clock |-> (hit + TimeZone) % Day]

Verdict(says, percent, at) == [says |-> says, percent |-> percent, at |-> at]

\* A limit already reached, else a hit before the reset, else where the window ends.
Outlook(w, now, pacing) ==
    IF w.utilization >= 100 THEN Verdict("limit reached", 100, None)
    ELSE IF HitsLimit(w, now, pacing)
    THEN Verdict("hits limit", 100, HitTime(LimitDate(w, now), now))
    ELSE IF ProjectedEnd(w, now, pacing) # None
    THEN Verdict("on pace to end", RoundPercent(ProjectedEnd(w, now, pacing)), None)
    ELSE None

\* None without pace tracking, or while the window has no rate to speak of.
DetailLine(w, now, options) ==
    LET pacing == PacingDuration(w.window, options.weekly_pace_days)
        ratio == PaceRatio(w, now, pacing)
    IN  IF ~options.pace_tracking_enabled \/ ratio = None THEN None
        ELSE [ratio |-> Tenths(ratio), expected |-> RoundPercent(ExpectedUsage(w, now, pacing)),
              outlook |-> Outlook(w, now, pacing)]

Clocks == [day : Optional(Int), clock : Int]
Verdicts ==
    [says : {"limit reached", "hits limit", "on pace to end"}, percent : Int,
     at : Optional(Clocks)]
Details == [ratio : Int, expected : Int, outlook : Optional(Verdicts)]
ASSUME NoneIsNoLine == None \notin Verdicts \cup Details

\* The usage line of a window and the detail under it, kept together.
MenuEntry(label, w, now, options) ==
    [usage |-> UsageLine(label, w, now), detail |-> DetailLine(w, now, options)]

HeadlineEntry(w, now, options) ==
    IF w = None THEN <<>> ELSE <<MenuEntry(<<w.window>>, w, now, options)>>

\* The scoped limits whose names the user chose to see.
Visible(scoped, shown) ==
    Selected(scoped, {i \in DOMAIN scoped : scoped[i].display_name \in shown})

ScopedEntries(snapshot, now, options) ==
    LET visible == Visible(snapshot.scoped, options.shown)
    IN  [i \in DOMAIN visible |->
            LET limit == visible[i]
            IN  MenuEntry(<<limit.display_name, limit.usage.window>>, limit.usage, now, options)]

\* cost_usage_lines: what was spent, and of which budget when there is one.
CostLines(spend) ==
    LET fraction == FractionUsed(spend)
    IN  IF spend.used = None THEN <<>>
        ELSE <<[used |-> spend.used,
                budget |-> IF fraction = None THEN None
                           ELSE IF spend.limit # None THEN spend.limit ELSE spend.cap,
                percent |-> IF fraction = None THEN None
                            ELSE RoundPercent([num |-> 100 * fraction.num, den |-> fraction.den])]>>

UsageLines(snapshot, now, options) ==
    IF Effective(options.usage_mode, snapshot) = "cost"
    THEN [cost |-> IF snapshot.spend = None THEN <<>> ELSE CostLines(snapshot.spend),
          windows |-> <<>>]
    ELSE [cost |-> <<>>,
          windows |-> HeadlineEntry(snapshot.five_hour, now, options)
                        \o HeadlineEntry(snapshot.seven_day, now, options)
                        \o ScopedEntries(snapshot, now, options)]

\* The phase and how old the data is; only a polling meter calls its data stale.
StatusLine(meter, now) ==
    [phase |-> meter.phase,
     stale |-> meter.phase = "polling" /\ meter.snapshot # None /\ meter.staleness = "stale",
     age |-> IF meter.snapshot = None THEN None
             ELSE ShortDuration(now - meter.snapshot.fetched_at)]

\* menu_model
MenuModel(meter, now, options) ==
    [status_line |-> StatusLine(meter, now),
     usage_lines |-> IF meter.snapshot = None THEN [cost |-> <<>>, windows |-> <<>>]
                     ELSE UsageLines(meter.snapshot, now, options)]
=============================================================================
