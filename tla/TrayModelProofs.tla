---------------------------- MODULE TrayModelProofs ----------------------------
(***************************************************************************)
(* What the tray shows, for every reading, every option and every instant: *)
(* the figures of a window agree with each other, and icon states that the *)
(* hand-written equality takes for one are drawn alike, which is what the  *)
(* cache of renders and the tray's debounce rely on.                       *)
(***************************************************************************)
EXTENDS TrayModel, TLAPS

\* What every icon state the program makes has: a record of the fields that changing
\* one of them leaves, and a band exactly when it has a ratio.
Fields == {"percent", "secondary_percent", "status", "at_risk", "pace_kind", "pace_band",
           "pace_ratio"}

IsIcon(s) ==
    /\ Fields \subseteq DOMAIN s
    /\ s.at_risk \in BOOLEAN
    /\ s.pace_ratio = None <=> s.pace_band = None

-----------------------------------------------------------------------------

\* The gauge that stands for no reading, a spend, a snapshot and a pace are icons.
LEMMA EmptyIsIcon ==
    ASSUME NEW look PROVE IsIcon(EmptyIcon(look))
BY DEF IsIcon, Fields, EmptyIcon

LEMMA FilledIsIcon ==
    ASSUME NEW s, IsIcon(s), s.pace_ratio = None,
           NEW percent, NEW secondary, NEW status, NEW risk \in BOOLEAN
    PROVE IsIcon([s EXCEPT !.percent = percent, !.secondary_percent = secondary,
                           !.status = status, !.at_risk = risk])
<1>. DEFINE icon == [s EXCEPT !.percent = percent, !.secondary_percent = secondary,
                              !.status = status, !.at_risk = risk]
<1>1. DOMAIN icon = DOMAIN s
  OBVIOUS
<1>2. icon.at_risk = risk /\ icon.pace_ratio = s.pace_ratio /\ icon.pace_band = s.pace_band
  BY DEF IsIcon, Fields
<1>. QED
  BY <1>1, <1>2 DEF IsIcon

LEMMA CostIsIcon ==
    ASSUME NEW spend, NEW look PROVE IsIcon(CostIcon(spend, look))
<1>1. ASSUME NEW s, IsIcon(s), NEW percent, NEW status
      PROVE IsIcon([s EXCEPT !.percent = percent, !.status = status])
  BY <1>1 DEF IsIcon, Fields
<1>. QED
  BY <1>1, EmptyIsIcon DEF CostIcon

LEMMA SnapshotIsIcon ==
    ASSUME NEW snapshot, NEW time, NEW look PROVE IsIcon(FromSnapshot(snapshot, time, look))
<1>1. AnyAtRisk(snapshot, time) \in BOOLEAN
  BY DEF AnyAtRisk
<1>2. EmptyIcon(look).pace_ratio = None
  BY DEF EmptyIcon
<1>. QED
  BY <1>1, <1>2, EmptyIsIcon, FilledIsIcon DEF FromSnapshot

\* A band is a colour of the palette, never none.
LEMMA BandIsThere ==
    ASSUME NEW ratio PROVE PaceBand(ratio) # None
BY NoneAssumption DEF PaceBand, PaceBands

LEMMA PaceIsIcon ==
    ASSUME NEW s, IsIcon(s), NEW ratio, ratio # None, NEW kind
    PROVE IsIcon(WithPace(s, ratio, kind))
<1>1. ASSUME NEW band, band # None
      PROVE IsIcon([s EXCEPT !.pace_ratio = ratio, !.pace_band = band, !.pace_kind = kind])
  <2>. DEFINE icon == [s EXCEPT !.pace_ratio = ratio, !.pace_band = band, !.pace_kind = kind]
  <2>1. DOMAIN icon = DOMAIN s
    OBVIOUS
  <2>2. icon.at_risk = s.at_risk /\ icon.pace_ratio = ratio /\ icon.pace_band = band
    BY DEF IsIcon, Fields
  <2>. QED
    BY <1>1, <2>1, <2>2 DEF IsIcon
<1>. QED
  BY <1>1, BandIsThere DEF WithPace

\* icon_state makes icons, whatever the meter shows.
LEMMA IconStateIsIcon ==
    ASSUME NEW meter, NEW time, NEW options PROVE IsIcon(IconState(meter, time, options))
<1>1. IsIcon(PaceFirstIcon(meter.snapshot, time, options))
  BY SnapshotIsIcon, PaceIsIcon DEF PaceFirstIcon
<1>. QED
  BY <1>1, EmptyIsIcon, CostIsIcon, SnapshotIsIcon DEF IconState

-----------------------------------------------------------------------------

\* States with one key are drawn alike: the size, every part of the drawing of every
\* style, and the badge, although the key rounds the ratio and leaves out a dot that a
\* flame or a snowflake supersedes (render/state.rs).
THEOREM EqualKeysEqualPixels ==
    ASSUME NEW s, IsIcon(s), NEW t, IsIcon(t), IconKey(s) = IconKey(t)
    PROVE Render(s) = Render(t)
<1>1. /\ s.style = t.style /\ s.mono = t.mono /\ s.scale = t.scale
      /\ s.percent = t.percent /\ s.secondary_percent = t.secondary_percent
      /\ s.status = t.status /\ s.pace_kind = t.pace_kind /\ s.pace_band = t.pace_band
      /\ PaceRatioKey(s) = PaceRatioKey(t)
      /\ EffectiveAtRisk(s) = EffectiveAtRisk(t)
  BY DEF IconKey
<1>2. s.pace_ratio = None <=> t.pace_ratio = None
  BY <1>1 DEF IsIcon, Fields
<1>3. Ink(s) = Ink(t) /\ Track(s) = Track(t)
  BY <1>1 DEF Ink, Track
<1>4. LabelInk(s) = LabelInk(t) /\ OverrideColor(s) = OverrideColor(t)
  BY <1>1, <1>3 DEF LabelInk, OverrideColor
<1>5. PrimaryLabel(s) = PrimaryLabel(t)
  BY <1>1, <1>2, <1>4 DEF PrimaryLabel
<1>6. Badge(s) = Badge(t)
  <2>1. CASE s.pace_kind # None
    BY <2>1, <1>1 DEF Badge, BadgeColor
  <2>2. CASE s.pace_kind = None
    <3>1. s.at_risk = t.at_risk
      BY <2>2, <1>1 DEF EffectiveAtRisk, IsIcon
    <3>. QED
      BY <3>1, <2>2, <1>1 DEF Badge
  <2>. QED
    BY <2>1, <2>2
<1>7. Artwork(s) = Artwork(t)
  <2>1. BatterySvg(s) = BatterySvg(t)
    BY <1>1, <1>3, <1>5 DEF BatterySvg
  <2>2. CircularSvg(s) = CircularSvg(t)
    BY <1>1, <1>3, <1>5 DEF CircularSvg
  <2>3. MinimalSvg(s) = MinimalSvg(t)
    BY <1>5 DEF MinimalSvg
  <2>4. SegmentsSvg(s) = SegmentsSvg(t)
    BY <1>1, <1>3, <1>4 DEF SegmentsSvg
  <2>5. DualBarSvg(s) = DualBarSvg(t)
    BY <1>1, <1>3, <1>5 DEF DualBarSvg
  <2>6. GaugeSvg(s) = GaugeSvg(t)
    BY <1>1, <1>4 DEF GaugeSvg
  <2>. QED
    BY <1>1, <2>1, <2>2, <2>3, <2>4, <2>5, <2>6 DEF Artwork
<1>8. Size(s) = Size(t)
  BY <1>1 DEF Size
<1>. QED
  BY <1>1, <1>6, <1>7, <1>8 DEF Render

-----------------------------------------------------------------------------

LEMMA DurationIsPositive ==
    ASSUME NEW window \in LimitWindows PROVE Duration(window) \in Nat \ {0}
BY PacingAssumption DEF Duration, LimitWindows

\* The burn rate and the projected hit are computed apart (pace_ratio over the capped
\* usage and the elapsed part of the pacing, projected_limit_date over a horizon that
\* is never shorter than what has elapsed), yet below its limit a window is ahead of
\* its pace exactly when it is projected to run out before the horizon ends, whatever
\* the span it is paced over, so that a card cannot read "underusing" and "hits limit"
\* at once (pacing.rs).
THEOREM AheadIsRunningOut ==
    ASSUME NEW w, w.utilization \in Nat, w.resets_at \in Int, w.window \in LimitWindows,
           NEW time \in Int, NEW pacing \in Nat \ {0},
           PaceRatio(w, time, pacing) # None, w.utilization < 100
    PROVE  Above(PaceRatio(w, time, pacing), RiskThreshold) <=> HitsLimit(w, time, pacing)
<1>. DEFINE u == w.utilization
            e == Elapsed(w, time)
            spent == AtMost(e, pacing)
<1>1. e \in Int /\ u \in Nat
  BY DurationIsPositive DEF Elapsed
<1>2. Running(w, time) /\ ~InGrace(w, time, pacing) /\ 0 < e
  BY DEF PaceRatio, ExpectedUsage, Running
<1>3. PaceRatio(w, time, pacing) = [num |-> u * pacing, den |-> 100 * spent]
  BY <1>1, <1>2, NoneAssumption DEF PaceRatio, ExpectedUsage, Quotients, AtMost
<1>4. Above(PaceRatio(w, time, pacing), RiskThreshold) <=> u * pacing > 100 * spent
  <2>1. u * pacing \in Int /\ spent \in Int
    BY <1>1 DEF AtMost
  <2>. QED
    BY <1>3, <2>1 DEF Above, RiskThreshold
<1>5. u >= MinUsageForProjection \/ ~(u * pacing > 100 * spent)
  <2>1. CASE u = 0
    BY <2>1, <1>1, <1>2 DEF AtMost
  <2>2. CASE u = 1
    BY <2>2, <1>1, <1>2 DEF InGrace, MinUsageForProjection, AtMost
  <2>. QED
    BY <2>1, <2>2, <1>1 DEF MinUsageForProjection
<1>6. CASE e <= pacing
  <2>1. spent = e /\ Horizon(w, time, pacing) = pacing
    BY <1>6, <1>1 DEF AtMost, AtLeast, Horizon
  <2>. QED
    BY <2>1, <1>1, <1>2, <1>4, <1>5 DEF HitsLimit, MinUsageForProjection
<1>7. CASE pacing < e
  <2>1. spent = pacing /\ Horizon(w, time, pacing) = e
    BY <1>7, <1>1 DEF AtMost, AtLeast, Horizon
  <2>2. u * pacing <= 100 * pacing /\ u * e <= 100 * e
    BY <1>1, <1>2
  <2>. QED
    BY <2>1, <2>2, <1>1, <1>4 DEF HitsLimit
<1>. QED
  BY <1>1, <1>6, <1>7
=============================================================================
