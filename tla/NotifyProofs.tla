----------------------------- MODULE NotifyProofs -----------------------------
(***************************************************************************)
(* What the notification tracker promises, for any windows, any length of  *)
(* a cycle and any jitter below half of it.                                *)
(***************************************************************************)
EXTENDS Notify, TLAPS

-----------------------------------------------------------------------------
(* The jitter tolerance tells the cycles of a window apart.                *)

\* A later cycle ends at least its length later.
LEMMA CyclesAreApart ==
    ASSUME NEW c \in Nat, NEW d \in Nat, c < d
    PROVE  /\ CycleLength * c \in Nat /\ CycleLength * d \in Nat
           /\ CycleLength * c + CycleLength <= CycleLength * d
<1>1. PICK k \in Nat : d = c + 1 + k
  <2>1. d - c - 1 \in Nat /\ d = c + 1 + (d - c - 1)
    OBVIOUS
  <2> QED
    BY <2>1
<1>2. CycleLength * (c + 1 + k) = CycleLength * c + CycleLength + CycleLength * k
  BY CyclesAssumption
<1>3. CycleLength * k \in Nat /\ CycleLength * c \in Nat
  BY CyclesAssumption
<1> QED
  BY <1>1, <1>2, <1>3, CyclesAssumption

\* Two reported resets of one cycle are within the jitter of each other.
LEMMA OneCycleShares ==
    ASSUME NEW c \in Nat, NEW a \in 0..ResetJitter, NEW b \in 0..ResetJitter
    PROVE  SharesCycleWith(ReportedReset(c, a), ReportedReset(c, b))
<1>1. CycleLength * c \in Nat
  BY CyclesAssumption
<1> QED
  BY <1>1, CyclesAssumption DEF SharesCycleWith, ReportedReset

\* Reported resets of two cycles never are.
LEMMA TwoCyclesDiffer ==
    ASSUME NEW c \in Nat, NEW d \in Nat, c # d,
           NEW a \in 0..ResetJitter, NEW b \in 0..ResetJitter
    PROVE  ~SharesCycleWith(ReportedReset(c, a), ReportedReset(d, b))
<1>1. CASE c < d
  BY <1>1, CyclesAreApart, CyclesAssumption DEF SharesCycleWith, ReportedReset
<1>2. CASE d < c
  BY <1>2, CyclesAreApart, CyclesAssumption DEF SharesCycleWith, ReportedReset
<1> QED
  BY <1>1, <1>2

-----------------------------------------------------------------------------
(* The tracker.                                                            *)

\* What is remembered of one window: the last reported reset is that of the
\* cycle last seen, nothing settled in it is re-armed, and nothing else is spent.
Tracked(w) ==
    /\ cycle[w] \in 1..MaxCycle
    /\ settled[w] \subseteq tracker[w].notified
    /\ tracker[w].estimated => gap[w]
    /\ ~tracker[w].estimated =>
          \E d \in 0..ResetJitter : tracker[w].resets_at = ReportedReset(cycle[w], d)
    /\ ~gap[w] => tracker[w].notified \subseteq settled[w]
    /\ "critical" \in tracker[w].notified => "warning" \in tracker[w].notified

\* The inductive invariant.
NotifyInv ==
    /\ NotifyTypeOK
    /\ settings.warning <= settings.critical
    /\ \A w \in Windows :
          IF tracker[w] = Untracked THEN cycle[w] = 0 ELSE Tracked(w)

LEMMA InitInv == Init => NotifyInv
  BY NotifyAssumption DEF Init, NotifyInv, NotifyTypeOK, Settings, Thresholds

LEMMA NormalizeType ==
    ASSUME NEW s \in [warning : Int, critical : Int, notify_on_reset : BOOLEAN]
    PROVE  /\ Normalize(s) \in Settings
           /\ Normalize(s).warning <= Normalize(s).critical
  BY NotifyAssumption DEF Normalize, Clamp, Settings, Thresholds

\* The critical level is reached only with the warning level.
LEMMA ReachedInOrder ==
    ASSUME NotifyInv, NEW u \in Int, "critical" \in LevelsReached(u)
    PROVE  "warning" \in LevelsReached(u)
<1>1. settings["warning"] <= settings["critical"] /\ settings["warning"] \in Int
      /\ settings["critical"] \in Int
  BY NotifyAssumption DEF NotifyInv, NotifyTypeOK, Settings, Thresholds
<1>2. u >= settings["critical"]
  BY DEF LevelsReached
<1>3. u >= settings["warning"]
  BY <1>1, <1>2
<1> QED
  BY <1>3 DEF LevelsReached, Levels

\* The tracker sees a rollover between two reported resets exactly when the
\* cycle has moved on.
LEMMA RolloverIsReal ==
    ASSUME NotifyInv, NEW w \in Windows, NEW r \in Readings,
           tracker[w] # Untracked, ~r.idle, ~tracker[w].estimated
    PROVE  IsNewCycle(w, r) <=> r.cycle # cycle[w]
<1>1. PICK d \in 0..ResetJitter : tracker[w].resets_at = ReportedReset(cycle[w], d)
  BY DEF NotifyInv, Tracked
<1>2. /\ r.cycle \in Nat /\ cycle[w] \in Nat /\ r.drift \in 0..ResetJitter
      /\ ResetsAt(r) = ReportedReset(r.cycle, r.drift)
  BY NotifyAssumption DEF Readings, NotifyInv, NotifyTypeOK, ResetsAt
<1>3. CASE r.cycle = cycle[w]
  <2>1. SharesCycleWith(ReportedReset(cycle[w], r.drift), ReportedReset(cycle[w], d))
    BY <1>2, OneCycleShares
  <2> QED
    BY <2>1, <1>1, <1>2, <1>3 DEF IsNewCycle
<1>4. CASE r.cycle # cycle[w]
  <2>1. ~SharesCycleWith(ReportedReset(r.cycle, r.drift), ReportedReset(cycle[w], d))
    BY <1>2, <1>4, TwoCyclesDiffer
  <2> QED
    BY <2>1, <1>1, <1>2, <1>4 DEF IsNewCycle
<1> QED
  BY <1>3, <1>4

\* In one cycle the tracker never re-arms.
LEMMA NoRolloverWithin ==
    ASSUME NotifyInv, NEW w \in Windows, NEW r \in Readings, tracker[w] # Untracked,
           r.cycle = cycle[w]
    PROVE  ~IsNewCycle(w, r)
  BY RolloverIsReal DEF IsNewCycle

-----------------------------------------------------------------------------

LEMMA ReadingType ==
    ASSUME NotifyTypeOK, NEW w \in Windows, NEW r \in Readings
    PROVE  /\ AfterReading(w, r) \in CycleStates
           /\ EventsOf(w, r) \subseteq Events
           /\ Notified(w, r) \subseteq Levels
           /\ LevelsReached(r.utilization) \subseteq Levels
           /\ Told(w, r) \subseteq Levels
<1>1. LevelsReached(r.utilization) \subseteq Levels
  BY DEF LevelsReached
<1>2. Notified(w, r) \subseteq Levels
  BY DEF Notified, NotifyTypeOK, CycleStates
<1>3. Told(w, r) \subseteq Levels
  BY <1>1 DEF Told
<1>4. ResetsAt(r) \in Int
  BY CyclesAssumption DEF ResetsAt, ReportedReset, Readings
<1>5. AfterReading(w, r) \in CycleStates
  BY <1>1, <1>2, <1>4 DEF AfterReading, CycleStates, Readings
<1>6. EventsOf(w, r) \subseteq Events
  BY <1>3 DEF EventsOf, Events
<1> QED
  BY <1>1, <1>2, <1>3, <1>5, <1>6

\* The windows a broadcast carries get their new state, the others keep theirs.
LEMMA Observed ==
    ASSUME NotifyInv, NEW W \in SUBSET Windows, NEW r \in [W -> Readings], Observe(r),
           NEW w \in W
    PROVE  /\ tracker'[w] = AfterReading(w, r[w]) /\ tracker'[w] # Untracked
           /\ cycle'[w] = r[w].cycle
           /\ settled'[w] = (IF r[w].cycle = cycle[w] THEN settled[w] ELSE {})
                 \cup (IF tracker[w] = Untracked THEN LevelsReached(r[w].utilization)
                                                 ELSE Told(w, r[w]))
           /\ gap'[w] = (r[w].idle \/ (gap[w] /\ ~IsNewCycle(w, r[w])))
           /\ w \in Windows /\ r[w] \in Readings
<1>1. DOMAIN r = W /\ w \in Windows /\ r[w] \in Readings
  OBVIOUS
<1>2. AfterReading(w, r[w]) # Untracked
  BY <1>1, ReadingType, UntrackedAssumption DEF NotifyInv
<1> QED
  BY <1>1, <1>2 DEF Observe

LEMMA ObserveKeeps ==
    ASSUME NotifyInv, NEW W \in SUBSET Windows, NEW r \in [W -> Readings], Observe(r)
    PROVE  NotifyInv'
<1>1. NotifyTypeOK'
  <2>1. DOMAIN r = W /\ \A w \in W : w \in Windows /\ r[w] \in Readings
    OBVIOUS
  <2>2. tracker' \in [Windows -> CycleStates \cup {Untracked}]
    BY <2>1, ReadingType DEF Observe, NotifyInv, NotifyTypeOK
  <2>3. events' \subseteq Events
    BY <2>1, ReadingType DEF Observe, NotifyInv
  <2>4. cycle' \in [Windows -> 0..MaxCycle]
    BY <2>1, NotifyAssumption DEF Observe, NotifyInv, NotifyTypeOK, Readings
  <2>5. settled' \in [Windows -> SUBSET Levels]
    BY <2>1, ReadingType DEF Observe, NotifyInv, NotifyTypeOK
  <2>6. gap' \in [Windows -> BOOLEAN]
    BY <2>1 DEF Observe, NotifyInv, NotifyTypeOK, Readings
  <2> QED
    BY <2>2, <2>3, <2>4, <2>5, <2>6 DEF Observe, NotifyInv, NotifyTypeOK
<1>2. (settings.warning <= settings.critical)'
  BY DEF Observe, NotifyInv
<1>3. ASSUME NEW w \in Windows
      PROVE  IF tracker'[w] = Untracked THEN cycle'[w] = 0 ELSE Tracked(w)'
  <2>1. CASE w \notin W
    <3>1. /\ tracker'[w] = tracker[w] /\ cycle'[w] = cycle[w]
          /\ settled'[w] = settled[w] /\ gap'[w] = gap[w]
      BY <2>1 DEF Observe
    <3> QED
      BY <3>1 DEF NotifyInv, Tracked
  <2>2. CASE w \in W
    <3> DEFINE reading == r[w]
               reached == LevelsReached(reading.utilization)
    <3>1. /\ tracker'[w] = AfterReading(w, reading) /\ tracker'[w] # Untracked
          /\ cycle'[w] = reading.cycle
          /\ settled'[w] = (IF reading.cycle = cycle[w] THEN settled[w] ELSE {})
                \cup (IF tracker[w] = Untracked THEN reached ELSE Told(w, reading))
          /\ gap'[w] = (reading.idle \/ (gap[w] /\ ~IsNewCycle(w, reading)))
          /\ reading \in Readings
      BY <2>2, Observed
    <3>2. /\ tracker'[w].notified = Notified(w, reading) \cup reached
          /\ tracker'[w].estimated = reading.idle
          /\ tracker'[w].resets_at = ResetsAt(reading)
      BY <3>1 DEF AfterReading
    <3>3. tracker[w] # Untracked => Tracked(w)
      BY DEF NotifyInv
    <3>a. tracker[w] = Untracked => cycle[w] = 0
      BY DEF NotifyInv
    <3> HIDE DEF reading, reached
    <3>4. cycle'[w] \in 1..MaxCycle
      BY <3>1 DEF Readings
    <3>5. settled'[w] \subseteq tracker'[w].notified
      <4>1. CASE tracker[w] = Untracked
        BY <3>1, <3>2, <3>a, <3>4, <4>1
      <4>2. CASE tracker[w] # Untracked /\ reading.cycle = cycle[w]
        <5>1. Notified(w, reading) = tracker[w].notified
          BY <3>1, <4>2, NoRolloverWithin DEF Notified
        <5> QED
          BY <3>1, <3>2, <3>3, <4>2, <5>1 DEF Told, Tracked, reached
      <4>3. CASE tracker[w] # Untracked /\ reading.cycle # cycle[w]
        BY <3>1, <3>2, <4>3 DEF Told, reached
      <4> QED
        BY <4>1, <4>2, <4>3
    <3>6. tracker'[w].estimated => gap'[w]
      BY <3>1, <3>2
    <3>7. ~tracker'[w].estimated =>
             \E d \in 0..ResetJitter : tracker'[w].resets_at = ReportedReset(cycle'[w], d)
      BY <3>1, <3>2 DEF ResetsAt, Readings
    <3>8. ~gap'[w] => tracker'[w].notified \subseteq settled'[w]
      <4> SUFFICES ASSUME ~gap'[w]
                   PROVE  tracker'[w].notified \subseteq settled'[w]
        OBVIOUS
      <4>1. ~reading.idle /\ (~gap[w] \/ IsNewCycle(w, reading))
        BY <3>1
      <4>2. CASE tracker[w] = Untracked
        BY <3>1, <3>2, <4>2 DEF Notified
      <4>3. CASE tracker[w] # Untracked /\ IsNewCycle(w, reading)
        BY <3>1, <3>2, <4>3 DEF Notified, Told, reached
      <4>4. CASE tracker[w] # Untracked /\ ~IsNewCycle(w, reading)
        <5>1. ~gap[w] /\ ~tracker[w].estimated
          BY <3>3, <4>1, <4>4 DEF Tracked
        <5>2. reading.cycle = cycle[w]
          BY <3>1, <4>1, <4>4, <5>1, RolloverIsReal
        <5>3. Notified(w, reading) = tracker[w].notified
          BY <4>4 DEF Notified
        <5> QED
          BY <3>1, <3>2, <3>3, <4>4, <5>1, <5>2, <5>3 DEF Told, Tracked, reached
      <4> QED
        BY <4>2, <4>3, <4>4
    <3>9. "critical" \in tracker'[w].notified => "warning" \in tracker'[w].notified
      <4>1. "critical" \in reached => "warning" \in reached
        <5>1. reading.utilization \in Int
          BY <3>1, NotifyAssumption DEF Readings
        <5> QED
          BY <5>1, ReachedInOrder DEF reached
      <4>2. "critical" \in Notified(w, reading) => "warning" \in Notified(w, reading)
        BY <3>3 DEF Notified, Tracked
      <4> QED
        BY <3>2, <4>1, <4>2
    <3> QED
      BY <3>1, <3>4, <3>5, <3>6, <3>7, <3>8, <3>9 DEF Tracked
  <2> QED
    BY <2>1, <2>2
<1> QED
  BY <1>1, <1>2, <1>3 DEF NotifyInv

LEMMA InvStep == NotifyInv /\ [Next]_vars => NotifyInv'
<1> SUFFICES ASSUME NotifyInv, [Next]_vars PROVE NotifyInv'
  OBVIOUS
<1>1. ASSUME NEW W \in SUBSET Windows \ {{}}, NEW r \in [W -> Readings], Observe(r)
      PROVE  NotifyInv'
  BY <1>1, ObserveKeeps
<1>2. ASSUME NEW s \in [warning : Int, critical : Int, notify_on_reset : BOOLEAN],
             settings' = Normalize(s), events' = {}, UNCHANGED <<tracker, historyVars>>
      PROVE  NotifyInv'
  <2>1. settings' \in Settings /\ settings'.warning <= settings'.critical
    BY <1>2, NormalizeType
  <2> QED
    BY <1>2, <2>1 DEF NotifyInv, NotifyTypeOK, Tracked, historyVars
<1>3. ASSUME NEW warning \in RawThresholds, NEW critical \in RawThresholds,
             SetThresholds(warning, critical)
      PROVE  NotifyInv'
  <2>1. [warning |-> warning, critical |-> critical,
         notify_on_reset |-> settings.notify_on_reset]
            \in [warning : Int, critical : Int, notify_on_reset : BOOLEAN]
    BY NotifyAssumption DEF NotifyInv, NotifyTypeOK, Settings, Thresholds, RawThresholds
  <2> QED
    BY <1>2, <1>3, <2>1 DEF SetThresholds
<1>4. ASSUME NEW enabled \in BOOLEAN, SetNotifyOnReset(enabled)
      PROVE  NotifyInv'
  <2>1. [settings EXCEPT !.notify_on_reset = enabled]
            \in [warning : Int, critical : Int, notify_on_reset : BOOLEAN]
    BY NotifyAssumption DEF NotifyInv, NotifyTypeOK, Settings, Thresholds
  <2> QED
    BY <1>2, <1>4, <2>1 DEF SetNotifyOnReset
<1>5. CASE Relaunch
  BY <1>5, NotifyAssumption DEF Relaunch, NotifyInv, NotifyTypeOK
<1>6. CASE UNCHANGED vars
  BY <1>6 DEF vars, historyVars, NotifyInv, NotifyTypeOK, Tracked
<1> QED
  BY <1>1, <1>3, <1>4, <1>5, <1>6 DEF Next

LEMMA NotifyInvariant == Spec => []NotifyInv
  BY InitInv, InvStep, PTL DEF Spec

\* Every reachable state of the tracker and its settings is well typed: stray
\* thresholds of the frontend never reach a comparison.
THEOREM NotifyTypeCorrect == Spec => []NotifyTypeOK
<1>1. NotifyInv => NotifyTypeOK
  BY DEF NotifyInv
<1> QED
  BY <1>1, NotifyInvariant, PTL

\* Nothing is spent in silence while the window does not go idle.
THEOREM SpentLevelsWereTold == Spec => []SpentWasTold
<1>1. NotifyInv => SpentWasTold
  BY DEF NotifyInv, SpentWasTold, Tracked
<1> QED
  BY <1>1, NotifyInvariant, PTL

\* The warning level is spent whenever the critical one is.
THEOREM WarningsComeFirst == Spec => []WarningComesFirst
<1>1. NotifyInv => WarningComesFirst
  BY DEF NotifyInv, WarningComesFirst, Tracked
<1> QED
  BY <1>1, NotifyInvariant, PTL

-----------------------------------------------------------------------------

\* A step that answers an event takes a reading of the event's window.
LEMMA EventsComeFromReadings ==
    ASSUME NotifyInv, Next, NEW e \in events'
    PROVE  \E W \in SUBSET Windows : \E r \in [W -> Readings] :
              Observe(r) /\ \E w \in W : e \in EventsOf(w, r[w])
<1>1. PICK W \in SUBSET Windows \ {{}} : \E r \in [W -> Readings] : Observe(r)
  BY DEF Next, SetThresholds, SetNotifyOnReset, Relaunch
<1>2. PICK r \in [W -> Readings] : Observe(r)
  BY <1>1
<1>3. DOMAIN r = W /\ events' = UNION {EventsOf(w, r[w]) : w \in W}
  BY <1>2 DEF Observe
<1> QED
  BY <1>1, <1>2, <1>3

\* Which readings tell a level and which announce a reset.
LEMMA WhatEventsSay ==
    ASSUME NEW v \in Windows, NEW w \in Windows, NEW r \in Readings
    PROVE  /\ \A level \in Levels : Crossed(w, level) \in EventsOf(v, r)
                 => v = w /\ level \in Told(w, r)
           /\ Reset(w) \in EventsOf(v, r) => v = w /\ IsNewCycle(w, r)
  BY DEF EventsOf, Crossed, Reset

\* No level is told twice in a cycle.
THEOREM ToldOnce == Spec => ToldOncePerCycle
<1> DEFINE Once == \A w \in Windows, level \in Levels :
          Crossed(w, level) \in events' /\ cycle'[w] = cycle[w] => level \notin settled[w]
<1>1. NotifyInv /\ [Next]_vars => [Once]_vars
  <2> SUFFICES ASSUME NotifyInv, Next, NEW w \in Windows, NEW level \in Levels,
                      Crossed(w, level) \in events', cycle'[w] = cycle[w]
               PROVE  level \notin settled[w]
    OBVIOUS
  <2>a. PICK W \in SUBSET Windows : \E r \in [W -> Readings] :
           Observe(r) /\ \E v \in W : Crossed(w, level) \in EventsOf(v, r[v])
    BY EventsComeFromReadings
  <2>b. PICK r \in [W -> Readings] :
           Observe(r) /\ \E v \in W : Crossed(w, level) \in EventsOf(v, r[v])
    BY <2>a
  <2>1. PICK v \in W : Observe(r) /\ Crossed(w, level) \in EventsOf(v, r[v])
    BY <2>b
  <2>2. v = w /\ level \in Told(w, r[w])
    BY <2>1, WhatEventsSay
  <2>3. r[w] \in Readings /\ r[w].cycle = cycle[w]
    BY <2>1, <2>2, Observed
  <2>4. tracker[w] # Untracked /\ level \notin Notified(w, r[w])
    BY <2>2 DEF Told
  <2>5. Notified(w, r[w]) = tracker[w].notified
    BY <2>3, <2>4, NoRolloverWithin DEF Notified
  <2> QED
    BY <2>4, <2>5 DEF NotifyInv, Tracked
<1> QED
  BY <1>1, NotifyInvariant, PTL DEF Spec, ToldOncePerCycle

\* A reset is announced for a window that has moved on, and for no other.
THEOREM AnnouncedResetsAreReal == Spec => ResetsAreReal
<1> DEFINE Real == \A w \in Windows :
          Reset(w) \in events' => 0 < cycle[w] /\ cycle[w] < cycle'[w]
<1>1. NotifyInv /\ [Next]_vars => [Real]_vars
  <2> SUFFICES ASSUME NotifyInv, Next, NEW w \in Windows, Reset(w) \in events'
               PROVE  0 < cycle[w] /\ cycle[w] < cycle'[w]
    OBVIOUS
  <2>a. PICK W \in SUBSET Windows : \E r \in [W -> Readings] :
           Observe(r) /\ \E v \in W : Reset(w) \in EventsOf(v, r[v])
    BY EventsComeFromReadings
  <2>b. PICK r \in [W -> Readings] :
           Observe(r) /\ \E v \in W : Reset(w) \in EventsOf(v, r[v])
    BY <2>a
  <2>1. PICK v \in W : Observe(r) /\ Reset(w) \in EventsOf(v, r[v])
    BY <2>b
  <2>2. v = w /\ IsNewCycle(w, r[w])
    BY <2>1, WhatEventsSay
  <2>3. r[w] \in Readings /\ cycle'[w] = r[w].cycle
    BY <2>1, <2>2, Observed
  <2>4. r[w].cycle # cycle[w] /\ cycle[w] \in 1..MaxCycle
    BY <2>2, <2>3, RolloverIsReal DEF IsNewCycle, NotifyInv, Tracked
  <2>5. r[w].cycle >= cycle[w]
    BY <2>1, <2>2, <2>3, <2>4, NotifyAssumption DEF Observe, Follows, Readings
  <2> QED
    BY <2>3, <2>4, <2>5, NotifyAssumption DEF Readings
<1> QED
  BY <1>1, NotifyInvariant, PTL DEF Spec, ResetsAreReal
=============================================================================
