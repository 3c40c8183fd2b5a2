------------------------------- MODULE Snapshot -------------------------------
(***************************************************************************)
(* A usage reading: what claude.ai answers (meter-api/src/response.rs),    *)
(* the snapshot it decodes to, the questions the surfaces ask of it        *)
(* (meter-core/src/snapshot.rs, spend.rs, mode.rs) and its public export   *)
(* (meter-files/src/export.rs).                                            *)
(***************************************************************************)
EXTENDS Pacing, Sequences, FiniteSets

CONSTANTS
    SessionKinds,   \* the kinds that begin with "five_hour" or "session"
    SonnetNames     \* the display names that read "sonnet" in any case

-----------------------------------------------------------------------------
\* What claude.ai answers and Claude Code reports: percentages, instants, amounts of
\* money in minor units and the number of them in a major one.

Optional(S) == S \cup {None}

RawWindows == [utilization : Nat, resets_at : Optional(Int)]
RawLimits == [kind : STRING, percent : Optional(Nat), resets_at : Optional(Int),
              model : Optional(STRING), active : BOOLEAN]
Amounts == [minor : Int, scale : Nat \ {0}]
RawSpends == [used : Optional(Amounts), limit : Optional(Amounts), cap : Optional(Amounts),
              enabled : BOOLEAN]

RawResponses ==
    [five_hour : Optional(RawWindows), seven_day : Optional(RawWindows),
     limits : Seq(RawLimits), spend : Optional(RawSpends)]

\* What they decode to: the usage of a window, until it is reset.
WindowsOf(windows) == [utilization : Nat, window : windows, resets_at : Int]
Windows == WindowsOf(LimitWindows)

-----------------------------------------------------------------------------
\* Decoding

\* Iterator::filter: the members at some of the positions of a sequence, in their
\* order, which SelectSeq selects by a recursion that cannot be proved about.
Nth(positions, n) ==
    CHOOSE i \in positions : Cardinality({j \in positions : j <= i}) = n
Selected(s, positions) == [n \in 1..Cardinality(positions) |-> s[Nth(positions, n)]]

HeadlineKinds == {"five_hour", "seven_day", "session", "weekly_all"}

WindowForKind(kind) == IF kind \in SessionKinds THEN "five_hour" ELSE "seven_day"

IntoWindow(utilization, resets_at, window, fetched_at) ==
    [utilization |-> utilization, window |-> window,
     resets_at |-> IF resets_at = None THEN FallbackReset(window, fetched_at) ELSE resets_at]

IntoHeadline(raw, window, fetched_at) ==
    IF raw = None THEN None
    ELSE IntoWindow(raw.utilization, raw.resets_at, window, fetched_at)

\* Essentials missing, or surfaced through the headline fields: skipped, not an error.
IsScoped(limit) ==
    limit.kind \notin HeadlineKinds /\ limit.percent # None /\ limit.model # None

IntoScoped(limit, fetched_at) ==
    [display_name |-> limit.model,
     usage |-> IntoWindow(limit.percent, limit.resets_at, WindowForKind(limit.kind), fetched_at),
     is_active |-> limit.active]

HasAmounts(spend) == spend.used # None \/ spend.limit # None \/ spend.cap # None

IntoSpend(raw) ==
    IF raw = None \/ (raw # None /\ ~HasAmounts(raw)) THEN None ELSE raw

IntoSnapshot(response, fetched_at) ==
    LET limits == response.limits
        scoped == Selected(limits, {i \in DOMAIN limits : IsScoped(limits[i])})
    IN  [five_hour |-> IntoHeadline(response.five_hour, "five_hour", fetched_at),
         seven_day |-> IntoHeadline(response.seven_day, "seven_day", fetched_at),
         scoped |-> [i \in DOMAIN scoped |-> IntoScoped(scoped[i], fetched_at)],
         spend |-> IntoSpend(response.spend),
         fetched_at |-> fetched_at]

-----------------------------------------------------------------------------
\* The snapshot's questions

ScopedUsages(snapshot) == {snapshot.scoped[i].usage : i \in DOMAIN snapshot.scoped}

\* UsageSnapshot::windows
UsageWindows(snapshot) ==
    ({snapshot.five_hour, snapshot.seven_day} \ {None}) \cup ScopedUsages(snapshot)

HasLimits(snapshot) == UsageWindows(snapshot) # {}

SuggestedMode(snapshot) ==
    IF HasLimits(snapshot) \/ snapshot.spend = None THEN "allowance" ELSE "cost"

Effective(mode, snapshot) == IF mode = "auto" THEN SuggestedMode(snapshot) ELSE mode

AnyAtRisk(snapshot, now) == \E w \in UsageWindows(snapshot) : AtRisk(w, now)

\* An amount is its minor units, and how many of them make a major one; it is
\* compared in its major unit.
FractionUsed(spend) ==
    LET budget == IF spend.limit # None THEN spend.limit ELSE spend.cap
    IN  IF spend.used = None \/ budget = None THEN None
        ELSE IF budget.minor <= 0 THEN None
        ELSE [num |-> spend.used.minor * budget.scale, den |-> budget.minor * spend.used.scale]

-----------------------------------------------------------------------------
\* The pace signal of the headline windows

WindowRatio(w, now, days) ==
    IF w = None THEN None ELSE PaceRatio(w, now, PacingDuration(w.window, days))

IsHot(ratio) == ratio # None /\ Above(ratio, RiskThreshold)
IsCold(ratio) == ratio # None /\ Below(ratio, UnderuseThreshold)

MakeSignal(kind, w, now, days) ==
    [kind |-> kind, window |-> w.window, ratio |-> WindowRatio(w, now, days),
     used_percent |-> w.utilization,
     expected_percent |-> ExpectedUsage(w, now, PacingDuration(w.window, days)),
     pace_days |-> IF w.window = "five_hour" THEN None ELSE days]

\* Mutant of PaceSignal: an idle session is called cold too.
MutColdSession(snapshot, now, days) ==
    LET session == WindowRatio(snapshot.five_hour, now, days)
        weekly == WindowRatio(snapshot.seven_day, now, days)
    IN  IF IsCold(session) THEN MakeSignal("cold", snapshot.five_hour, now, days)
        ELSE IF IsHot(weekly) THEN MakeSignal("hot", snapshot.seven_day, now, days)
        ELSE IF IsHot(session) THEN MakeSignal("hot", snapshot.five_hour, now, days)
        ELSE None

\* The hotter of the two windows, the session on a tie; else an underused week.
PaceSignal(snapshot, now, days) ==
    LET session == WindowRatio(snapshot.five_hour, now, days)
        weekly == WindowRatio(snapshot.seven_day, now, days)
    IN  IF IsHot(session) /\ ~(IsHot(weekly) /\ Exceeds(weekly, session))
        THEN MakeSignal("hot", snapshot.five_hour, now, days)
        ELSE IF IsHot(weekly) THEN MakeSignal("hot", snapshot.seven_day, now, days)
        ELSE IF IsCold(weekly) THEN MakeSignal("cold", snapshot.seven_day, now, days)
        ELSE None

-----------------------------------------------------------------------------
\* The public export

ExportedLimits == [utilization : Nat, reset_at : Int]
ASSUME NoneIsNoLimit == None \notin Windows \cup ExportedLimits

ExportLimit(w) ==
    IF w = None THEN None ELSE [utilization |-> w.utilization, reset_at |-> w.resets_at]

ExportPayload(snapshot) ==
    LET scoped == [i \in DOMAIN snapshot.scoped |->
                      [name |-> snapshot.scoped[i].display_name,
                       limit |-> ExportLimit(snapshot.scoped[i].usage),
                       is_active |-> snapshot.scoped[i].is_active]]
        sonnets == SelectSeq(scoped, LAMBDA limit : limit.name \in SonnetNames)
    IN  [session_usage |-> ExportLimit(snapshot.five_hour),
         weekly_usage |-> ExportLimit(snapshot.seven_day),
         scoped_usage |-> scoped,
         sonnet_usage |-> IF sonnets = <<>> THEN None ELSE sonnets[1].limit,
         last_updated |-> snapshot.fetched_at]
=============================================================================
