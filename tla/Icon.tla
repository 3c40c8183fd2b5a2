--------------------------------- MODULE Icon ---------------------------------
(***************************************************************************)
(* The tray icon (crates/meter-render): the state one is drawn from, the   *)
(* hand-written equality that is also the key of the cache of renders, and *)
(* what each style makes of a state.                                       *)
(*                                                                         *)
(* A drawing is the set of its parts, each with how far it is filled and   *)
(* in which ink; coordinates and rasterization are left out, so drawings   *)
(* that are equal here have equal pixels.                                  *)
(***************************************************************************)
EXTENDS Snapshot

IconStyles == {"battery", "circular", "minimal", "segments", "dual_bar", "gauge"}

\* The raster size: a style's logical width and the common height, scaled.
Size(s) ==
    LET width == [battery |-> 66, minimal |-> 44, segments |-> 34, dual_bar |-> 70,
                  circular |-> 26, gauge |-> 26]
    IN  <<s.scale * width[s.style], s.scale * 22>>

\* round_percent: clamped to what a gauge can show, then to the nearest whole.
RoundPercent(q) == IF q.num < 0 THEN 0 ELSE AtMost(Rounded(q), 100)

\* The session, else the week, else the busiest scoped limit.
PrimaryUtilization(snapshot) ==
    LET scoped == {w.utilization : w \in ScopedUsages(snapshot)}
    IN  IF snapshot.five_hour # None THEN snapshot.five_hour.utilization
        ELSE IF snapshot.seven_day # None THEN snapshot.seven_day.utilization
        ELSE IF scoped # {} THEN CHOOSE u \in scoped : \A v \in scoped : v <= u
        ELSE 0

\* The empty gauge of a style.
EmptyIcon(look) ==
    [style |-> look.style, mono |-> look.mono, scale |-> look.scale,
     percent |-> 0, secondary_percent |-> 0, status |-> "safe", at_risk |-> FALSE,
     pace_kind |-> None, pace_band |-> None, pace_ratio |-> None]

FromSnapshot(snapshot, now, look) ==
    LET primary == Percent(PrimaryUtilization(snapshot))
    IN  [EmptyIcon(look) EXCEPT
            !.percent = RoundPercent(primary),
            !.secondary_percent = IF snapshot.seven_day = None THEN 0
                                  ELSE RoundPercent(Percent(snapshot.seven_day.utilization)),
            !.status = StatusOf(primary),
            !.at_risk = AnyAtRisk(snapshot, now)]

\* The band comes from the ratio, "so it can never drift from the number shown".
WithPace(icon, ratio, kind) ==
    [icon EXCEPT !.pace_ratio = ratio, !.pace_band = PaceBand(ratio), !.pace_kind = kind]

-----------------------------------------------------------------------------
\* Equality

PaceRatioKey(s) == IF s.pace_ratio = None THEN None ELSE Tenths(s.pace_ratio)

\* A flame or a snowflake supersedes the dot.
EffectiveAtRisk(s) == s.at_risk /\ s.pace_kind = None

\* Mutant of IconKey: the band is left to the ratio's rounded form.
MutKeyWithoutBand(s) ==
    <<s.style, s.mono, s.scale, s.percent, s.secondary_percent, s.status, EffectiveAtRisk(s),
      s.pace_kind, PaceRatioKey(s)>>

\* PartialEq and Hash of IconState: two states are one when these are.
IconKey(s) ==
    <<s.style, s.mono, s.scale, s.percent, s.secondary_percent, s.status, EffectiveAtRisk(s),
      s.pace_kind, s.pace_band, PaceRatioKey(s)>>

-----------------------------------------------------------------------------
\* The palette

StatusColor == [safe |-> "green", warning |-> "orange", critical |-> "red"]
PaceBandColor == [underuse |-> "blue", sustainable |-> "green",
                  overuse |-> "orange", heavy_overuse |-> "red"]

Ink(s) == IF s.mono THEN "black" ELSE StatusColor[s.status]
Track(s) == IF s.mono THEN "black" ELSE "gray"

LabelInk(s) == IF s.pace_band # None /\ ~s.mono THEN PaceBandColor[s.pace_band] ELSE Ink(s)

OverrideColor(s) ==
    IF s.pace_band = None THEN None ELSE IF s.mono THEN "black" ELSE PaceBandColor[s.pace_band]

\* The pace ratio, else the percentage; the circular gauge has no room for a unit.
PrimaryLabel(s) ==
    [part |-> IF s.pace_ratio # None THEN "ratio" ELSE "number",
     fill |-> IF s.pace_ratio # None THEN PaceRatioKey(s) ELSE s.percent,
     ink |-> LabelInk(s)]

BadgeColor(s) ==
    IF s.mono THEN "black"
    ELSE IF s.pace_band # None THEN PaceBandColor[s.pace_band]
    ELSE IF s.pace_kind = "hot" THEN "orange" ELSE "blue"

\* The flame or the snowflake, else the dot of a window at risk.
Badge(s) ==
    IF s.pace_kind # None
    THEN {[part |-> IF s.pace_kind = "hot" THEN "flame" ELSE "snowflake", fill |-> 1,
           ink |-> BadgeColor(s)]}
    ELSE {part \in {[part |-> "dot", fill |-> 1, ink |-> IF s.mono THEN "black" ELSE "red"]} :
            s.at_risk}

-----------------------------------------------------------------------------
\* The styles

Part(name, fill, ink) == [part |-> name, fill |-> fill, ink |-> ink]

\* What is drawn only when there is something to fill.
Filled(name, percent, ink) == {part \in {Part(name, percent, ink)} : percent > 0}

BatterySvg(s) ==
    {Part("track", 100, Track(s)), PrimaryLabel(s)}
        \cup Filled("charge", s.percent, IF s.mono THEN "black" ELSE "gradient")

CircularSvg(s) ==
    {Part("track", 100, Track(s)), PrimaryLabel(s)} \cup Filled("arc", s.percent, Ink(s))

MinimalSvg(s) == {PrimaryLabel(s)}

\* Five bars, the first always lit; the pace colour replaces their gradient.
SegmentsSvg(s) ==
    LET lit == AtMost(1 + s.percent \div 20, 5)
        color(i) == IF s.mono THEN Ink(s) ELSE StatusColor[StatusOf(Percent(20 * i))]
        fill(i) == IF OverrideColor(s) # None THEN OverrideColor(s) ELSE color(i)
    IN  {Part("segment", i, IF i <= lit THEN fill(i) ELSE Track(s)) : i \in 1..5}

DualBarSvg(s) ==
    {Part("track", 100, Track(s)), PrimaryLabel(s)}
        \cup Filled("top", s.percent, Ink(s))
        \cup Filled("bottom", s.secondary_percent, IF s.mono THEN "black" ELSE "violet")

\* The whole dial takes the pace colour.
GaugeSvg(s) ==
    {Part("track", 100, LabelInk(s)), Part("needle", s.percent, LabelInk(s))}
        \cup Filled("arc", s.percent, LabelInk(s))

Artwork(s) ==
    CASE s.style = "battery" -> BatterySvg(s)
      [] s.style = "circular" -> CircularSvg(s)
      [] s.style = "minimal" -> MinimalSvg(s)
      [] s.style = "segments" -> SegmentsSvg(s)
      [] s.style = "dual_bar" -> DualBarSvg(s)
      [] s.style = "gauge" -> GaugeSvg(s)

\* render_icon, when it succeeds.
Render(s) == [size |-> Size(s), drawing |-> Artwork(s) \cup Badge(s), is_template |-> s.mono]

-----------------------------------------------------------------------------
\* IconCache: a function of keys to what was rendered for the first state with it.

\* get_or_render: the entries afterwards.
CacheAfter(entries, s) ==
    IF IconKey(s) \in DOMAIN entries THEN entries
    ELSE [key \in DOMAIN entries \cup {IconKey(s)} |->
             IF key \in DOMAIN entries THEN entries[key] ELSE Render(s)]
=============================================================================
