-------------------------------- MODULE MCTray --------------------------------
(***************************************************************************)
(* Tray for TLC: three states of the meter, two of which differ only in a  *)
(* scoped limit, two options, of which one shows it, and two instants.     *)
(***************************************************************************)
EXTENDS Tray

Window(utilization, resets_at, window) ==
    [utilization |-> utilization, resets_at |-> resets_at, window |-> window]

Reading(five_hour, seven_day, scoped) ==
    [five_hour |-> five_hour, seven_day |-> seven_day, scoped |-> scoped, spend |-> None,
     fetched_at |-> 1500]

Meter(snapshot) == [phase |-> "polling", staleness |-> "fresh", snapshot |-> snapshot]

Session(utilization) == Window(utilization, 1515, "five_hour")
Opus == <<[display_name |-> "Opus", usage |-> Window(10, 2000, "seven_day"), is_active |-> TRUE]>>

MCInstants == {1500, 1501}

MCMeters ==
    {Meter(Reading(Session(40), None, <<>>)), Meter(Reading(Session(40), None, Opus)),
     Meter(Reading(Session(60), Window(10, 2000, "seven_day"), <<>>))}

Option(style, mono, tracking, shown) ==
    [style |-> style, mono |-> mono, scale |-> 2, weekly_pace_days |-> 7,
     pace_tracking_enabled |-> tracking, pace_first_display |-> FALSE,
     usage_mode |-> "auto", warning |-> 75, critical |-> 90, shown |-> shown]

MCOptions == {Option("battery", FALSE, FALSE, {}), Option("minimal", TRUE, TRUE, {"Opus"})}
=============================================================================
