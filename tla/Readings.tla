-------------------------------- MODULE Readings --------------------------------
(***************************************************************************)
(* What the user reads off the surfaces of the app as readings arrive,     *)
(* time passes and display options change: the tray icon, drawn through    *)
(* the cache of renders, the menu, the popover, the status line and the    *)
(* exported file.  Every broadcast shows all of them at once here;         *)
(* Tray.tla models how the tray is brought there, and what happens when a  *)
(* part of it cannot be.                                                   *)
(***************************************************************************)
EXTENDS Popover

CONSTANTS
    Responses,      \* what claude.ai may answer
    Options,        \* the DisplayOptions of a model
    Instants,       \* the times at which something is shown
    MaxBroadcasts   \* bound on the broadcasts of a behaviour

ASSUME ReadingsAssumption ==
    /\ Responses \subseteq RawResponses
    /\ Options \subseteq DisplayOptions /\ Instants \subseteq Nat /\ MaxBroadcasts \in Nat

VARIABLES
    now,        \* the wall clock
    options,    \* the display options in effect
    meter,      \* the MeterState of the last broadcast
    cache,      \* IconCache.entries
    icon,       \* the RenderedIcon shown
    menu,       \* the MenuModel shown
    popover,    \* the PopoverView shown
    prompt,     \* the status line's segment, while it is of the reading shown
    exported,   \* usage.json
    broadcasts  \* how many broadcasts there were

vars == <<now, options, meter, cache, icon, menu, popover, prompt, exported, broadcasts>>

-----------------------------------------------------------------------------

Init ==
    /\ now \in Instants
    /\ options \in Options
    /\ meter = [phase |-> "polling", staleness |-> "fresh", snapshot |-> None]
    /\ cache = [key \in {} |-> None]
    /\ icon = None
    /\ menu = None /\ popover = None /\ prompt = None
    /\ exported = None
    /\ broadcasts = 0

MayShow == broadcasts < MaxBroadcasts

\* A broadcast of the meter, or a setter, brings every surface up to date.
Show ==
    /\ broadcasts' = broadcasts + 1
    /\ \E state \in {IconState(meter', now', options')} :
          /\ cache' = CacheAfter(cache, state)
          /\ icon' = cache'[IconKey(state)]
    /\ menu' = MenuModel(meter', now', options')
    /\ popover' = PopoverView(meter', now', options')

\* A fetch that succeeded: decoded, exported, broadcast.
Receive(response) ==
    /\ MayShow
    /\ \E snapshot \in {IntoSnapshot(response, now)} :
          /\ meter' = [phase |-> "polling", staleness |-> "fresh", snapshot |-> snapshot]
          /\ exported' = ExportPayload(snapshot)
    /\ prompt' = None
    /\ UNCHANGED <<now, options>>
    /\ Show

\* A report of Claude Code's, where that is the source: the bridge prints its segment
\* and the app reads what it recorded, which may be of an earlier observation.
Report(response, observed) ==
    /\ MayShow /\ observed <= now
    /\ \E snapshot \in {HeadlineSnapshot(ReportedWindow(response.five_hour, "five_hour"),
                                         ReportedWindow(response.seven_day, "seven_day"), observed)} :
          /\ snapshot # None
          /\ meter' = [phase |-> "polling", snapshot |-> snapshot,
                       staleness |-> IF observed = now THEN "fresh" ELSE "stale"]
          /\ exported' = ExportPayload(snapshot)
          /\ prompt' = Segment(snapshot, now, options)
    /\ UNCHANGED <<now, options>>
    /\ Show

\* A fetch that failed some time later: the same snapshot, in another phase.
Degrade(phase, later) ==
    /\ MayShow /\ now < later
    /\ now' = later
    /\ meter' = [meter EXCEPT !.phase = phase, !.staleness = "stale"]
    /\ prompt' = None
    /\ UNCHANGED <<options, exported>>
    /\ Show

\* A setter of a display option.
Choose(chosen) ==
    /\ MayShow /\ chosen # options
    /\ options' = chosen
    /\ prompt' = None
    /\ UNCHANGED <<now, meter, exported>>
    /\ Show

Next ==
    \/ \E response \in Responses : Receive(response)
    \/ \E response \in Responses, observed \in Instants : Report(response, observed)
    \/ \E phase \in {"degraded", "session_expired"}, later \in Instants : Degrade(phase, later)
    \/ \E chosen \in Options : Choose(chosen)

Spec == Init /\ [][Next]_vars

-----------------------------------------------------------------------------
\* What is read off the icon and the menu.

Shows(part) == icon # None /\ \E p \in icon.drawing : p.part = part

Entries ==
    IF broadcasts = 0 THEN {}
    ELSE {menu.usage_lines.windows[i] : i \in DOMAIN menu.usage_lines.windows}

HeadlineEntries == {e \in Entries : Len(e.usage.label) = 1}
CostsShown ==
    IF broadcasts = 0 THEN {}
    ELSE {menu.usage_lines.cost[i] : i \in DOMAIN menu.usage_lines.cost}

Says(e, says) == e.detail # None /\ e.detail.outlook # None /\ e.detail.outlook.says \in says
RunsOut == {"limit reached", "hits limit"}

\* The instant a reader takes a time of the menu for: a bare clock time is today's.
ReadTime(t) == (IF t.day = None THEN LocalDay(now) ELSE t.day) * Day + t.clock - TimeZone

-----------------------------------------------------------------------------

\* The two figures of a detail line tell one story, whatever the paced days: a
\* window said to run out is ahead of its pace and one said to end below its
\* limit is not: a card cannot read "underusing" and "hits limit" at once (pacing.rs;
\* the ratio, the hit and the end are three separate computations).
OutlookMatchesPace ==
    \A e \in Entries :
        /\ Says(e, RunsOut) => e.detail.ratio >= 10
        /\ Says(e, {"on pace to end"}) => e.detail.ratio <= 10

\* The badge of the icon is explained by the menu: a flame by a headline window
\* that runs out, whose ratio the icon prints; a snowflake stands only while no
\* headline window runs out.  That of the prompt is explained there too, and by the
\* number beside it: "at 1.2 and above the rounded ratio can never read as 1.0"
\* (bridge.rs).
BadgeIsExplained ==
    /\ prompt # None /\ prompt.pace # None =>
          /\ IF prompt.pace.kind = "hot" THEN prompt.pace.ratio >= 12 ELSE prompt.pace.ratio <= 8
          /\ HeadlineEntries # {} =>
                \E e \in HeadlineEntries :
                    /\ e.detail # None /\ e.detail.ratio = prompt.pace.ratio
                    /\ prompt.pace.kind = "hot" <=> Says(e, RunsOut)
    /\ Shows("flame") =>
          \E e \in HeadlineEntries :
              /\ Says(e, RunsOut)
              /\ \A p \in icon.drawing : p.part = "ratio" => p.fill = e.detail.ratio
    /\ Shows("snowflake") => \A e \in HeadlineEntries : ~Says(e, RunsOut)

\* The projected hit can be read without a calendar: the printed time, taken for
\* today's when it bears no date, is never past and never after the reset that
\* the line above announces (to the hour, from a day up).
HitTimeReadable ==
    \A e \in Entries : Says(e, {"hits limit"}) =>
        /\ now <= ReadTime(e.detail.outlook.at)
        /\ e.usage.reset = "in"
        /\ ReadTime(e.detail.outlook.at) < now + e.usage.time + Hour

\* An icon taken from the cache is the one that would be drawn now: states the
\* hand-written equality takes for one have the same pixels (state.rs).
CachedIconIsCurrent ==
    broadcasts > 0 => \E state \in {IconState(meter, now, options)} : icon = Render(state)

\* The surfaces do not contradict each other: a percentage on the icon is that of
\* the first headline window or of the spend, "never the allowance percentage" of
\* an account shown by cost; without either it is of an account of scoped limits,
\* which is not pinned to cost.  Whatever window the menu shows was exported.
SurfacesAgree ==
    /\ \A p \in IF icon = None THEN {} ELSE icon.drawing :
          p.part = "number" /\ p.fill > 0 =>
              \/ \E c \in CostsShown : c.percent = p.fill
              \/ HeadlineEntries # {} /\ menu.usage_lines.windows[1].usage.percent = p.fill
              \/ /\ HeadlineEntries = {} /\ CostsShown = {} /\ exported.scoped_usage # <<>>
                 /\ options.usage_mode # "cost"
    /\ \A e \in Entries :
          \E limit \in {exported.session_usage, exported.weekly_usage} \cup
                       {exported.scoped_usage[i].limit : i \in DOMAIN exported.scoped_usage} :
              limit # None /\ RoundPercent(Percent(limit.utilization)) = e.usage.percent

\* The figures a row shows under a name; whether two projections, a row and a line, a
\* card and the line of a spend tell the same.
Figures(row, says) ==
    {figure.value : figure \in {f \in {row.primary} \cup
        (IF row.pace = None THEN {} ELSE {row.pace.figure}) : f.says = says}}

\* The two figures of one pace: a quarter above a whole number reads a tenth more in
\* the popover, {:.1} taking to the even digit what toFixed takes up.
SameDecimal(figure, ratio) ==
    figure = ratio \/ (ratio % 10 = 2 /\ figure = ratio + 1)

\* The two percentages of one spend: they differ only half way between them, where
\* Rust's division of amounts and TypeScript's of minor units may fall apart.
SameShare(gauge, cost) ==
    \/ gauge = cost.percent
    \/ /\ gauge - cost.percent \in {-1, 1}
       /\ (gauge + cost.percent) * cost.budget.minor = 200 * cost.used.minor

SameProjection(projection, outlook) ==
    IF outlook = None \/ projection = None THEN projection = outlook
    ELSE /\ projection.says = outlook.says
         /\ projection.says = "hits limit" => projection.at = outlook.at
         /\ projection.says = "on pace to end" => projection.percent = outlook.percent

SameWindow(row, e) ==
    /\ Figures(row, "percent") = {e.usage.percent}
    /\ row.countdown = [reset |-> e.usage.reset, time |-> e.usage.time]
    /\ IF e.detail = None
       THEN row.pace = None /\ row.projection \in {None, [says |-> "limit reached"]}
       ELSE /\ \E figure \in Figures(row, "ratio") :
                  Figures(row, "ratio") = {figure} /\ SameDecimal(figure, e.detail.ratio)
            /\ row.pace.expected = e.detail.expected
            /\ SameProjection(row.projection, e.detail.outlook)

SameSpend(card, cost) ==
    /\ card.used = cost.used
    /\ cost.budget # None /\ cost.budget.scale = cost.used.scale =>
          SameShare(card.gauge.percent, cost)
    /\ cost.budget = None => card.gauge = None

\* The popover, which computes everything again in TypeScript, says what the menu
\* says, row for line: "so the popover's pace ratio, projections and bands light up
\* under the same conditions as the tray icon's" (pacing.ts).  Only a limit reached
\* outlasts the window on a row, and the gauge of a spend is the menu's while its
\* amounts have one exponent.  Of the figures, what lies half way between two may
\* read one apart, by the rounding of the two languages (SameDecimal, SameShare), and
\* nothing else.  Neither surface hides the other's figures behind an empty state.
PopoverMatchesMenu ==
    broadcasts > 0 =>
        LET windows == menu.usage_lines.windows
        IN  /\ DOMAIN popover.rows = DOMAIN windows
            /\ \A i \in DOMAIN windows : SameWindow(popover.rows[i], windows[i])
            /\ \A cost \in CostsShown :
                  \E i \in DOMAIN popover.spends : SameSpend(popover.spends[i], cost)
            /\ popover.empty => Entries = {} /\ CostsShown = {}
            /\ popover.status = menu.status_line
            /\ popover.banner = "stale" <=> menu.status_line.stale
=============================================================================
