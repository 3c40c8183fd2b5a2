------------------------------ MODULE MCReadings ------------------------------
(***************************************************************************)
(* Readings for TLC.  A tick is ten minutes, so windows, days and the paced *)
(* spans keep their real proportions.  The responses are slices, not a      *)
(* product: each window alone over its whole range, the two of them around  *)
(* the thresholds of the signal, and the accounts with scoped limits or     *)
(* spend.  Some are there for what lies half way between two figures.       *)
(***************************************************************************)
EXTENDS Readings

\* Ten o'clock in the morning of day 10, and an hour later.
MCInstants == {1500, 1506}
First == 1500

Raw(utilization, resets_at) == [utilization |-> utilization, resets_at |-> resets_at]
Session(utilization, elapsed) == Raw(utilization, First + SessionLength - elapsed)
Week(utilization, elapsed) == Raw(utilization, First + 7 * Day - elapsed)
Answer(five_hour, seven_day, limits, spend) ==
    [five_hour |-> five_hour, seven_day |-> seven_day, limits |-> limits, spend |-> spend]

\* Ahead of the server's clock, just opened, under way, nearly over, over, long over.
Sessions ==
    {Session(u, e) : u \in {0, 2, 50, 120}, e \in {-1, 1, 10, 29, 30, 33}}

\* Ratios of 0.25, 0.35, 0.75, 1.25 and 2.25: as doubles the second is stored below
\* its tie, and the last is computed above it.
Halves == {Session(10, 12), Session(14, 12), Session(30, 12), Session(50, 12), Session(75, 10)}

\* 3.5% of a budget comes out too low from the amounts, not from the minor units.
MCShort == {[num |-> 420, den |-> 1200], [num |-> 350000, den |-> 100000]}
MCLong == {[num |-> 2250, den |-> 1000]}

\* In the grace of the paced span, of the window, under way, past five and six days.
Weeks ==
    {Week(u, e) : u \in {1, 3, 45, 80, 99}, e \in {7, 40, 500, 720, 860}}

\* Hot, cold, on pace or unknown, and two weeks in two bands that print one ratio.
Pairs ==
    {Session(u, 15) : u \in {45, 55, 100}} \X
    {Week(10, 500), Week(50, 500), Week(60, 500), Week(60, 504), Week(100, 720), Raw(0, None)}

Scoped(kind, percent, resets_at, model) ==
    [kind |-> kind, percent |-> percent, resets_at |-> resets_at, model |-> model,
     active |-> model # "Opus"]

Limits ==
    {<<>>,
     <<Scoped("weekly_scoped", 90, First + 500, "Opus"), Scoped("weekly_scoped", 30, None, "sonnet")>>,
     <<Scoped("session", 55, First + 15, "Opus"), Scoped("weekly_all", 60, None, None),
       Scoped("session_scoped", 20, First + 10, "Sonnet")>>,
     <<Scoped("five_hour_scoped", 20, None, "Opus")>>,
     <<Scoped("weekly_scoped", None, None, "Opus")>>}

Euros(minor) == [minor |-> minor, scale |-> 100]
Spend(used, limit, cap) == [used |-> used, limit |-> limit, cap |-> cap, enabled |-> TRUE]
Spends ==
    {None, Spend(None, None, None), Spend(None, None, Euros(50)), Spend(Euros(85), None, None),
     Spend(Euros(85), None, Euros(50)), Spend(Euros(85), [minor |-> 1, scale |-> 1], Euros(50)),
     Spend(Euros(85), Euros(0), Euros(50)), Spend(Euros(35), Euros(1000), None)}

MCResponses ==
    {Answer(s, None, <<>>, None) : s \in Sessions \cup Halves}
    \cup {Answer(None, w, <<>>, None) : w \in Weeks}
    \cup {Answer(p[1], p[2], <<>>, None) : p \in Pairs}
    \cup {Answer(None, None, <<>>, spend) : spend \in Spends}
    \cup {Answer(None, None, limits, None) : limits \in Limits}
    \cup {Answer(Session(62, 15), Week(10, 500), limits, Spend(Euros(85), Euros(100), None)) :
             limits \in Limits}

Option(style, mono, days, tracking, first, mode, shown) ==
    [style |-> style, mono |-> mono, scale |-> 2, weekly_pace_days |-> days,
     pace_tracking_enabled |-> tracking, pace_first_display |-> first,
     usage_mode |-> mode, warning |-> 75, critical |-> 90, shown |-> shown]

MCOptions ==
    {Option("battery", FALSE, 7, TRUE, FALSE, "auto", {"Opus"}),
     Option("minimal", FALSE, 7, TRUE, TRUE, "auto", {}),
     Option("dual_bar", FALSE, 5, TRUE, TRUE, "auto", {"Sonnet", "sonnet"}),
     Option("segments", FALSE, 6, TRUE, TRUE, "allowance", {}),
     Option("gauge", TRUE, 5, TRUE, TRUE, "auto", {}),
     Option("circular", FALSE, 7, FALSE, TRUE, "cost", {"Opus"})}
=============================================================================
