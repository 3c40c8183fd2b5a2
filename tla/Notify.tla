-------------------------------- MODULE Notify --------------------------------
(***************************************************************************)
(* Which threshold crossings and window resets the user is told about: the *)
(* dedup state machine of meter-core/src/notify.rs with the settings that  *)
(* drive it (src-tauri/src/notifier.rs).                                   *)
(*                                                                         *)
(* A window of usage runs in cycles, numbered here; its readings come in   *)
(* order.  A reading of a running cycle carries the reset claude.ai        *)
(* reports, an instant that wobbles around the end of the cycle; one taken *)
(* while the window is idle carries an estimate, a full window from the    *)
(* time it was fetched.  The code never sees the number of a cycle, only   *)
(* the instants.                                                           *)
(***************************************************************************)
EXTENDS Cycles

CONSTANTS
    Windows,        \* WindowId: the headline windows and the scoped ones
    MaxCycle,       \* bound on the cycles of a model
    MaxUtilization, \* bound on the utilization, and the top of the thresholds' range
    Untracked       \* no CycleState in the tracker's map

ASSUME NotifyAssumption ==
    MaxCycle \in Nat /\ MaxUtilization \in Nat

VARIABLES
    settings,   \* the warning and critical thresholds, and notify_on_reset
    tracker,    \* NotificationTracker.windows
    events,     \* what the observe of the last step answered
    cycle,      \* history: the cycle of each window's last reading, 0 before the first
    settled,    \* history: the levels told in that cycle, or reached when tracking began in it
    gap         \* history: an idle reading came since the last rollover the tracker saw

historyVars == <<cycle, settled, gap>>
vars == <<settings, tracker, events, historyVars>>

Levels == {"warning", "critical"}
Thresholds == 0..MaxUtilization

\* What the frontend may ask for: one step out of range on either side is enough.
RawThresholds == -1..MaxUtilization + 1

Settings == [warning : Thresholds, critical : Thresholds, notify_on_reset : BOOLEAN]
CycleStates == [resets_at : Int, estimated : BOOLEAN, notified : SUBSET Levels]
ASSUME UntrackedAssumption == Untracked \notin CycleStates

\* What claude.ai says of a window: drift is the wobble of a real reset, or how
\* far an estimate has moved on since the window went idle.
Readings == [cycle : 1..MaxCycle, idle : BOOLEAN, drift : 0..ResetJitter,
             utilization : 0..MaxUtilization]

Crossed(w, level) == [kind |-> "ThresholdCrossed", window |-> w, level |-> level]
Reset(w) == [kind |-> "WindowReset", window |-> w]
Events == {Crossed(w, level) : w \in Windows, level \in Levels} \cup {Reset(w) : w \in Windows}

NotifyTypeOK ==
    /\ settings \in Settings
    /\ tracker \in [Windows -> CycleStates \cup {Untracked}]
    /\ events \subseteq Events
    /\ cycle \in [Windows -> 0..MaxCycle]
    /\ settled \in [Windows -> SUBSET Levels]
    /\ gap \in [Windows -> BOOLEAN]

-----------------------------------------------------------------------------

\* The instant a reading says its window resets at.
ResetsAt(r) ==
    IF r.idle THEN CycleLength * (r.cycle + 1 + r.drift) ELSE ReportedReset(r.cycle, r.drift)

\* Mutant of Clamp: values out of range are kept.
MutKeepsOutliers(threshold) == threshold

Clamp(threshold) ==
    IF threshold < 0 THEN 0 ELSE IF threshold > MaxUtilization THEN MaxUtilization ELSE threshold

\* Mutant of Normalize: an inverted pair is kept.
MutKeepsInverted(s) == [s EXCEPT !.warning = Clamp(@), !.critical = Clamp(@)]

\* Both thresholds are clamped, then the critical one is raised to meet the other.
Normalize(s) ==
    LET warning == Clamp(s.warning)
        critical == Clamp(s.critical)
    IN  [warning |-> warning,
         critical |-> IF critical < warning THEN warning ELSE critical,
         notify_on_reset |-> s.notify_on_reset]

LevelsReached(utilization) ==
    {level \in Levels : utilization >= settings[level]}

\* Mutant of IsNewCycle: an estimate is taken for a real reset.
MutNewCycleOnEstimate(w, r) ==
    tracker[w] # Untracked /\ ~SharesCycleWith(ResetsAt(r), tracker[w].resets_at)

\* A rollover is recognised between two real resets only.
IsNewCycle(w, r) ==
    /\ tracker[w] # Untracked
    /\ ~r.idle /\ ~tracker[w].estimated
    /\ ~SharesCycleWith(ResetsAt(r), tracker[w].resets_at)

\* Mutant of Notified: a rollover does not re-arm.
MutNeverReArms(w, r) == IF tracker[w] = Untracked THEN {} ELSE tracker[w].notified

\* Mutant of Notified: what was told is forgotten once the usage falls back.
MutForgetsBelow(w, r) ==
    IF tracker[w] = Untracked \/ IsNewCycle(w, r) THEN {}
    ELSE tracker[w].notified \cap LevelsReached(r.utilization)

\* The levels spent when a reading arrives: none in a new cycle.
Notified(w, r) ==
    IF tracker[w] = Untracked \/ IsNewCycle(w, r) THEN {} ELSE tracker[w].notified

\* observe_one: the window's state after a reading ...
AfterReading(w, r) ==
    [resets_at |-> ResetsAt(r), estimated |-> r.idle,
     notified |-> Notified(w, r) \cup LevelsReached(r.utilization)]

\* ... the levels it tells: a first sighting is a baseline and tells nothing ...
Told(w, r) ==
    IF tracker[w] = Untracked THEN {} ELSE LevelsReached(r.utilization) \ Notified(w, r)

\* ... and the events it answers.
EventsOf(w, r) ==
    {Crossed(w, level) : level \in Told(w, r)}
        \cup {e \in {Reset(w)} : IsNewCycle(w, r) /\ settings.notify_on_reset}

-----------------------------------------------------------------------------

\* The defaults, or what an earlier run of the app stored.
Init ==
    /\ settings \in {s \in Settings : s.warning <= s.critical}
    /\ tracker = [w \in Windows |-> Untracked]
    /\ events = {}
    /\ cycle = [w \in Windows |-> 0]
    /\ settled = [w \in Windows |-> {}]
    /\ gap = [w \in Windows |-> FALSE]

\* Readings come in order, and a window that was idle starts a new cycle.
Follows(w, r) ==
    \/ r.cycle > cycle[w]
    \/ r.cycle = cycle[w] /\ (tracker[w] # Untracked /\ tracker[w].estimated => r.idle)

\* One broadcast: the windows it carries that the user shows, each with its reading.
Observe(r) ==
    LET W == DOMAIN r
    IN  /\ \A w \in W : Follows(w, r[w])
        /\ tracker' = [w \in Windows |-> IF w \in W THEN AfterReading(w, r[w]) ELSE tracker[w]]
        /\ events' = UNION {EventsOf(w, r[w]) : w \in W}
        /\ cycle' = [w \in Windows |-> IF w \in W THEN r[w].cycle ELSE cycle[w]]
        /\ settled' = [w \in Windows |->
              IF w \notin W THEN settled[w]
              ELSE (IF r[w].cycle = cycle[w] THEN settled[w] ELSE {})
                   \cup (IF tracker[w] = Untracked THEN LevelsReached(r[w].utilization)
                                                   ELSE Told(w, r[w]))]
        /\ gap' = [w \in Windows |->
              IF w \in W THEN r[w].idle \/ (gap[w] /\ ~IsNewCycle(w, r[w])) ELSE gap[w]]
        /\ UNCHANGED settings

\* set_thresholds and set_notify_on_reset, read by the next observation.
SetThresholds(warning, critical) ==
    /\ settings' = Normalize([warning |-> warning, critical |-> critical,
                               notify_on_reset |-> settings.notify_on_reset])
    /\ events' = {}
    /\ UNCHANGED <<tracker, historyVars>>

SetNotifyOnReset(enabled) ==
    /\ settings' = Normalize([settings EXCEPT !.notify_on_reset = enabled])
    /\ events' = {}
    /\ UNCHANGED <<tracker, historyVars>>

\* A new process tracks from nothing; the settings are on disk.
Relaunch ==
    /\ tracker' = [w \in Windows |-> Untracked]
    /\ events' = {}
    /\ cycle' = [w \in Windows |-> 0]
    /\ settled' = [w \in Windows |-> {}]
    /\ gap' = [w \in Windows |-> FALSE]
    /\ UNCHANGED settings

Next ==
    \/ \E W \in SUBSET Windows \ {{}} : \E r \in [W -> Readings] : Observe(r)
    \/ \E warning, critical \in RawThresholds : SetThresholds(warning, critical)
    \/ \E enabled \in BOOLEAN : SetNotifyOnReset(enabled)
    \/ Relaunch

Spec == Init /\ [][Next]_vars

-----------------------------------------------------------------------------

\* A level is told at most once in a cycle of a window, however the usage and
\* the thresholds move, however the reset wobbles, and never when it was already
\* reached as tracking began ("hovering produces no spam").
ToldOncePerCycle ==
    [][\A w \in Windows, level \in Levels :
          Crossed(w, level) \in events' /\ cycle'[w] = cycle[w] => level \notin settled[w]]_vars

\* A reset is announced only when the window has moved on to another cycle
\* since it was last seen, and never for an estimate that drifts with every poll.
ResetsAreReal ==
    [][\A w \in Windows : Reset(w) \in events' => 0 < cycle[w] /\ cycle[w] < cycle'[w]]_vars

\* No level is spent in silence: what the tracker will not tell any more in this
\* cycle was told in it, or was reached when tracking began, unless the window
\* was idle since the last rollover.
SpentWasTold ==
    \A w \in Windows : tracker[w] # Untracked /\ ~gap[w]
                          => tracker[w].notified \subseteq settled[w]

\* "Warning fires before/with Critical" (settings.rs, normalize), although the
\* two thresholds are set independently and between any two readings.
WarningComesFirst ==
    \A w \in Windows : tracker[w] # Untracked /\ "critical" \in tracker[w].notified
                          => "warning" \in tracker[w].notified
=============================================================================
