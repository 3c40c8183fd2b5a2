---------------------------- MODULE ReadingsProofs ----------------------------
(***************************************************************************)
(* What the surfaces of the app show agree with each other, for any        *)
(* answers, options, instants and proportions of a day and its windows.    *)
(***************************************************************************)
EXTENDS Readings, TrayModelProofs, FiniteSetTheorems, WellFoundedInduction

-----------------------------------------------------------------------------
\* Selecting from a sequence

\* A set of naturals has a least member: what an induction needs, of a set.
LEMMA LeastNatural ==
    ASSUME NEW T, T \subseteq Nat, T # {}
    PROVE  \E n \in T : \A m \in T : n <= m
<1>1. \E n \in T : \A m \in T : <<m, n>> \notin OpToRel(<, Nat)
  BY NatLessThanWellFounded, WFMin
<1>2. \A m, n \in Nat : m < n => <<m, n>> \in OpToRel(<, Nat)
  BY DEF OpToRel
<1>3. PICK n \in T : \A m \in T : <<m, n>> \notin OpToRel(<, Nat)
  BY <1>1
<1>4. \A m \in T : ~ (m < n)
  BY <1>2, <1>3
<1>. QED  BY <1>4

\* The positions up to k.
UpTo(positions, k) == {j \in positions : j <= k}

LEMMA UpToIsFinite ==
    ASSUME NEW length \in Nat, NEW positions, positions \subseteq 1..length, NEW k
    PROVE  IsFiniteSet(UpTo(positions, k)) /\ Cardinality(UpTo(positions, k)) \in Nat
<1>1. UpTo(positions, k) \in SUBSET (1..length)
  BY DEF UpTo
<1>2. IsFiniteSet(1..length)
  BY FS_Interval
<1>3. IsFiniteSet(UpTo(positions, k))
  BY <1>1, <1>2, FS_Subset
<1>. QED  BY <1>3, FS_CardinalityType

\* The positions of a sequence that are in a set can be told off one by one.
LEMMA NthIsThere ==
    ASSUME NEW length \in Nat, NEW positions, positions \subseteq 1..length,
           NEW n \in 1..Cardinality(positions)
    PROVE  Nth(positions, n) \in positions
<1>. DEFINE T == {k \in 0..length : n <= Cardinality(UpTo(positions, k))}
<1>1. UpTo(positions, length) = positions /\ UpTo(positions, 0) = {}
  <2>1. \A j \in positions : j <= length /\ ~(j <= 0)
    OBVIOUS
  <2>. QED  BY <2>1, Zenon DEF UpTo
<1>2. T \subseteq Nat /\ length \in T /\ 0 \notin T
  BY <1>1, FS_EmptySet
<1>. HIDE DEF T
<1>3. PICK k \in T : \A m \in T : k <= m
  BY <1>2, LeastNatural
<1>4. k \in 1..length /\ n <= Cardinality(UpTo(positions, k))
  BY <1>2, <1>3 DEF T
<1>5. k - 1 \in 0..length /\ k - 1 \notin T
  BY <1>3, <1>4
<1>6. ~(n <= Cardinality(UpTo(positions, k - 1)))
  BY <1>5 DEF T
<1>7. k \in positions
  <2>1. SUFFICES ASSUME k \notin positions PROVE UpTo(positions, k) = UpTo(positions, k - 1)
    BY <1>4, <1>6
  <2>2. \A j \in positions : j <= k <=> j <= k - 1
    BY <1>4, <2>1
  <2>. QED  BY <2>2, Zenon DEF UpTo
<1>8. Cardinality(UpTo(positions, k)) = Cardinality(UpTo(positions, k - 1)) + 1
  <2>1. UpTo(positions, k) = UpTo(positions, k - 1) \cup {k} /\ k \notin UpTo(positions, k - 1)
    <3>1. \A j \in positions : j <= k <=> j <= k - 1 \/ j = k
      BY <1>4
    <3>2. k <= k /\ ~(k <= k - 1)
      BY <1>4
    <3>. QED  BY <1>7, <3>1, <3>2, Zenon DEF UpTo
  <2>. QED  BY <2>1, UpToIsFinite, FS_AddElement
<1>9. Cardinality(UpTo(positions, k)) = n
  <2>1. Cardinality(UpTo(positions, k - 1)) \in Nat
    BY UpToIsFinite
  <2>. QED  BY <1>4, <1>6, <1>8, <2>1
<1>. QED  BY <1>7, <1>9 DEF Nth, UpTo

\* What is selected is a sequence of members.
LEMMA SelectedAreMembers ==
    ASSUME NEW S, NEW s \in Seq(S), NEW positions, positions \subseteq DOMAIN s
    PROVE  /\ Selected(s, positions) \in Seq(S)
           /\ \A n \in DOMAIN Selected(s, positions) :
                 \E i \in positions : Selected(s, positions)[n] = s[i]
<1>1. positions \subseteq 1..Len(s) /\ Len(s) \in Nat
  OBVIOUS
<1>2. Cardinality(positions) \in Nat
  <2>1. IsFiniteSet(1..Len(s)) /\ positions \in SUBSET (1..Len(s))
    BY <1>1, FS_Interval
  <2>. QED  BY <2>1, FS_Subset, FS_CardinalityType
<1>3. \A n \in 1..Cardinality(positions) : Nth(positions, n) \in positions
  BY <1>1, NthIsThere
<1>4. Selected(s, positions) = [n \in 1..Cardinality(positions) |-> s[Nth(positions, n)]]
  BY DEF Selected
<1>5. \A i \in positions : s[i] \in S
  BY <1>1
<1>6. \A n \in 1..Cardinality(positions) : Selected(s, positions)[n] \in S
  BY <1>3, <1>4, <1>5
<1>7. Selected(s, positions) \in [1..Cardinality(positions) -> S]
  BY <1>4, <1>6
<1>8. Selected(s, positions) \in Seq(S)
  BY <1>2, <1>7
<1>. QED  BY <1>3, <1>4, <1>8

-----------------------------------------------------------------------------
\* What a snapshot is made of

ScopedLimits == [display_name : Optional(STRING), usage : Windows, is_active : BOOLEAN]
Snapshots ==
    [five_hour : Optional(WindowsOf({"five_hour"})), seven_day : Optional(WindowsOf({"seven_day"})),
     scoped : Seq(ScopedLimits), spend : Optional(RawSpends), fetched_at : Int]

LEMMA WindowIsDecoded ==
    ASSUME NEW utilization \in Nat, NEW resets_at \in Optional(Int), NEW window \in LimitWindows,
           NEW at \in Int
    PROVE  IntoWindow(utilization, resets_at, window, at) \in WindowsOf({window})
BY DurationIsPositive DEF IntoWindow, FallbackReset, WindowsOf, Optional

LEMMA HeadlineIsDecoded ==
    ASSUME NEW raw \in Optional(RawWindows), NEW window \in LimitWindows, NEW at \in Int
    PROVE  IntoHeadline(raw, window, at) \in Optional(WindowsOf({window}))
BY WindowIsDecoded DEF IntoHeadline, RawWindows, Optional

LEMMA ScopedIsDecoded ==
    ASSUME NEW limit \in RawLimits, IsScoped(limit), NEW at \in Int
    PROVE  IntoScoped(limit, at) \in ScopedLimits
<1>1. limit.percent \in Nat /\ limit.resets_at \in Optional(Int) /\ limit.model \in Optional(STRING)
  BY DEF IsScoped, RawLimits, Optional
<1>2. WindowForKind(limit.kind) \in LimitWindows
  BY DEF WindowForKind, LimitWindows
<1>3. IntoWindow(limit.percent, limit.resets_at, WindowForKind(limit.kind), at) \in Windows
  BY <1>1, <1>2, WindowIsDecoded, SMTT(30) DEF WindowsOf, Windows
<1>4. limit.active \in BOOLEAN
  BY DEF RawLimits
<1>. QED  BY <1>1, <1>3, <1>4 DEF IntoScoped, ScopedLimits

\* Whatever claude.ai answers decodes to a snapshot.
LEMMA ResponseIsDecoded ==
    ASSUME NEW response \in RawResponses, NEW at \in Int
    PROVE  IntoSnapshot(response, at) \in Snapshots
<1>. DEFINE limits == response.limits
            positions == {i \in DOMAIN limits : IsScoped(limits[i])}
            scoped == Selected(limits, positions)
<1>1. limits \in Seq(RawLimits)
  BY DEF RawResponses
<1>2. /\ scoped \in Seq(RawLimits)
      /\ \A n \in DOMAIN scoped : \E i \in positions : scoped[n] = limits[i]
  <2>1. positions \subseteq DOMAIN limits
    OBVIOUS
  <2>. HIDE DEF positions, limits
  <2>. QED  BY <1>1, <2>1, SelectedAreMembers
<1>3. \A n \in DOMAIN scoped : scoped[n] \in RawLimits /\ IsScoped(scoped[n])
  BY <1>1, <1>2
<1>. HIDE DEF scoped
<1>4. \A n \in DOMAIN scoped : IntoScoped(scoped[n], at) \in ScopedLimits
  BY <1>3, ScopedIsDecoded
<1>5. [n \in DOMAIN scoped |-> IntoScoped(scoped[n], at)] \in Seq(ScopedLimits)
  <2>1. DOMAIN scoped = 1..Len(scoped) /\ Len(scoped) \in Nat
    BY <1>2
  <2>. QED  BY <1>4, <2>1
<1>6. /\ IntoHeadline(response.five_hour, "five_hour", at) \in Optional(WindowsOf({"five_hour"}))
      /\ IntoHeadline(response.seven_day, "seven_day", at) \in Optional(WindowsOf({"seven_day"}))
  BY HeadlineIsDecoded DEF RawResponses, LimitWindows
<1>7. IntoSpend(response.spend) \in Optional(RawSpends)
  BY DEF IntoSpend, RawResponses, Optional
<1>8. IntoSnapshot(response, at) =
          [five_hour |-> IntoHeadline(response.five_hour, "five_hour", at),
           seven_day |-> IntoHeadline(response.seven_day, "seven_day", at),
           scoped |-> [n \in DOMAIN scoped |-> IntoScoped(scoped[n], at)],
           spend |-> IntoSpend(response.spend), fetched_at |-> at]
  BY DEF IntoSnapshot, scoped
<1>. QED  BY <1>5, <1>6, <1>7, <1>8 DEF Snapshots

\* So does what Claude Code reports, when there is a window to show.
LEMMA ReportIsDecoded ==
    ASSUME NEW response \in RawResponses, NEW at \in Int,
           NEW snapshot, snapshot # None,
           snapshot = HeadlineSnapshot(ReportedWindow(response.five_hour, "five_hour"),
                                       ReportedWindow(response.seven_day, "seven_day"), at)
    PROVE  snapshot \in Snapshots /\ snapshot.scoped = <<>> /\ snapshot.spend = None
<1>1. ASSUME NEW raw \in Optional(RawWindows), NEW window
      PROVE ReportedWindow(raw, window) \in Optional(WindowsOf({window}))
  BY <1>1 DEF ReportedWindow, RawWindows, WindowsOf, Optional
<1>2. /\ ReportedWindow(response.five_hour, "five_hour") \in Optional(WindowsOf({"five_hour"}))
      /\ ReportedWindow(response.seven_day, "seven_day") \in Optional(WindowsOf({"seven_day"}))
  BY <1>1 DEF RawResponses
<1>3. snapshot = [five_hour |-> ReportedWindow(response.five_hour, "five_hour"),
                  seven_day |-> ReportedWindow(response.seven_day, "seven_day"),
                  scoped |-> <<>>, spend |-> None, fetched_at |-> at]
  BY DEF HeadlineSnapshot
<1>4. <<>> \in Seq(ScopedLimits) /\ None \in Optional(RawSpends)
  BY DEF Optional
<1>5. ASSUME NEW five_hour \in Optional(WindowsOf({"five_hour"})),
             NEW seven_day \in Optional(WindowsOf({"seven_day"}))
      PROVE  [five_hour |-> five_hour, seven_day |-> seven_day, scoped |-> <<>>, spend |-> None,
              fetched_at |-> at] \in Snapshots
  BY <1>4 DEF Snapshots
<1>6. snapshot \in Snapshots
  BY <1>2, <1>3, <1>5
<1>. QED  BY <1>3, <1>6

-----------------------------------------------------------------------------
\* The invariant

Meters ==
    [phase : {"polling", "degraded", "session_expired"}, staleness : {"fresh", "stale"},
     snapshot : Optional(Snapshots)]

ReadingsTypeOK ==
    /\ now \in Nat /\ options \in DisplayOptions /\ broadcasts \in Nat
    /\ meter \in Meters

\* What is cached under a key was drawn for a state with that key.
CacheIsSound ==
    \A key \in DOMAIN cache :
        \E state : IsIcon(state) /\ IconKey(state) = key /\ cache[key] = Render(state)

\* The surfaces show the meter, or nothing yet.
ShownIsCurrent ==
    IF broadcasts = 0 THEN icon = None /\ menu = None /\ popover = None /\ prompt = None
    ELSE /\ icon = Render(IconState(meter, now, options))
         /\ menu = MenuModel(meter, now, options)
         /\ popover = PopoverView(meter, now, options)

ExportIsCurrent == meter.snapshot # None => exported = ExportPayload(meter.snapshot)

\* The prompt speaks of the same reading, which has headline windows only.
PromptIsCurrent ==
    prompt # None =>
        /\ meter.snapshot # None
        /\ prompt = Segment(meter.snapshot, now, options)

ReadingsInv ==
    /\ ReadingsTypeOK /\ CacheIsSound /\ ShownIsCurrent /\ ExportIsCurrent /\ PromptIsCurrent

LEMMA ReadingsInit == Init => ReadingsInv
<1>. SUFFICES ASSUME Init PROVE ReadingsInv
  OBVIOUS
<1>1. ReadingsTypeOK
  BY ReadingsAssumption DEF Init, ReadingsTypeOK, Meters, Optional
<1>2. CacheIsSound /\ ShownIsCurrent /\ ExportIsCurrent /\ PromptIsCurrent
  BY DEF Init, CacheIsSound, ShownIsCurrent, ExportIsCurrent, PromptIsCurrent
<1>. QED  BY <1>1, <1>2 DEF ReadingsInv

\* A render taken from the cache is the one of the state asked for, and the cache
\* stays sound.
LEMMA CacheServes ==
    ASSUME NEW entries, NEW state, IsIcon(state),
           \A key \in DOMAIN entries :
               \E s : IsIcon(s) /\ IconKey(s) = key /\ entries[key] = Render(s)
    PROVE  LET after == CacheAfter(entries, state)
           IN  /\ after[IconKey(state)] = Render(state)
               /\ \A key \in DOMAIN after :
                     \E s : IsIcon(s) /\ IconKey(s) = key /\ after[key] = Render(s)
<1>1. CASE IconKey(state) \in DOMAIN entries
  <2>1. CacheAfter(entries, state) = entries
    BY <1>1 DEF CacheAfter
  <2>2. PICK s : IsIcon(s) /\ IconKey(s) = IconKey(state) /\ entries[IconKey(state)] = Render(s)
    BY <1>1
  <2>3. Render(s) = Render(state)
    BY <2>2, EqualKeysEqualPixels
  <2>. QED  BY <2>1, <2>2, <2>3
<1>2. CASE IconKey(state) \notin DOMAIN entries
  <2>1. CacheAfter(entries, state) =
            [key \in DOMAIN entries \cup {IconKey(state)} |->
                IF key \in DOMAIN entries THEN entries[key] ELSE Render(state)]
    BY <1>2 DEF CacheAfter
  <2>. DEFINE after == CacheAfter(entries, state)
  <2>2. DOMAIN after = DOMAIN entries \cup {IconKey(state)} /\ after[IconKey(state)] = Render(state)
    BY <1>2, <2>1
  <2>3. \A key \in DOMAIN entries : after[key] = entries[key]
    BY <2>1
  <2>. QED  BY <2>2, <2>3
<1>. QED  BY <1>1, <1>2

\* Every surface is brought up to date at once.
LEMMA ShowStep ==
    ASSUME ReadingsTypeOK, CacheIsSound, Show
    PROVE  CacheIsSound' /\ ShownIsCurrent' /\ broadcasts' \in Nat
<1>. DEFINE state == IconState(meter', now', options')
<1>1. /\ cache' = CacheAfter(cache, state) /\ icon' = cache'[IconKey(state)]
      /\ menu' = MenuModel(meter', now', options') /\ popover' = PopoverView(meter', now', options')
      /\ broadcasts' = broadcasts + 1
  BY DEF Show
<1>2. IsIcon(state)
  BY IconStateIsIcon
<1>. HIDE DEF state
<1>3. /\ cache'[IconKey(state)] = Render(state)
      /\ \A key \in DOMAIN cache' :
            \E s : IsIcon(s) /\ IconKey(s) = key /\ cache'[key] = Render(s)
  BY <1>1, <1>2, CacheServes DEF CacheIsSound
<1>4. broadcasts' \in Nat /\ broadcasts' # 0
  BY <1>1 DEF ReadingsTypeOK
<1>5. CacheIsSound'
  BY <1>3 DEF CacheIsSound
<1>6. ShownIsCurrent'
  BY <1>1, <1>3, <1>4 DEF ShownIsCurrent, state
<1>. QED  BY <1>4, <1>5, <1>6

LEMMA ReadingsStep == ReadingsInv /\ [Next]_vars => ReadingsInv'
<1>. SUFFICES ASSUME ReadingsInv, [Next]_vars PROVE ReadingsInv'
  OBVIOUS
<1>. USE DEF ReadingsInv
<1>1. ASSUME NEW response \in Responses, Receive(response) PROVE ReadingsInv'
  <2>1. /\ meter' = [phase |-> "polling", staleness |-> "fresh",
                     snapshot |-> IntoSnapshot(response, now)]
        /\ exported' = ExportPayload(IntoSnapshot(response, now))
        /\ prompt' = None /\ UNCHANGED <<now, options>> /\ Show
    BY <1>1 DEF Receive
  <2>2. IntoSnapshot(response, now) \in Snapshots
    BY ResponseIsDecoded, ReadingsAssumption DEF ReadingsTypeOK
  <2>3. meter' \in Meters
    BY <2>1, <2>2 DEF Meters, Optional
  <2>4. ReadingsTypeOK'
    BY <2>1, <2>3, ShowStep DEF ReadingsTypeOK
  <2>5. ExportIsCurrent' /\ PromptIsCurrent'
    BY <2>1 DEF ExportIsCurrent, PromptIsCurrent
  <2>. QED  BY <2>1, <2>4, <2>5, ShowStep
<1>2. ASSUME NEW response \in Responses, NEW observed \in Instants, Report(response, observed)
      PROVE ReadingsInv'
  <2>. DEFINE decoded == HeadlineSnapshot(ReportedWindow(response.five_hour, "five_hour"),
                                          ReportedWindow(response.seven_day, "seven_day"), observed)
  <2>1. /\ decoded # None
        /\ meter' = [phase |-> "polling", snapshot |-> decoded,
                     staleness |-> IF observed = now THEN "fresh" ELSE "stale"]
        /\ exported' = ExportPayload(decoded)
        /\ prompt' = Segment(decoded, now, options)
        /\ UNCHANGED <<now, options>> /\ Show
    BY <1>2 DEF Report
  <2>2. decoded \in Snapshots
    BY <2>1, ReportIsDecoded, ReadingsAssumption
  <2>. HIDE DEF decoded
  <2>3. meter' \in Meters
    BY <2>1, <2>2 DEF Meters, Optional
  <2>4. ReadingsTypeOK'
    BY <2>1, <2>3, ShowStep DEF ReadingsTypeOK
  <2>5. ExportIsCurrent' /\ PromptIsCurrent'
    BY <2>1 DEF ExportIsCurrent, PromptIsCurrent
  <2>. QED  BY <2>1, <2>4, <2>5, ShowStep
<1>3. ASSUME NEW phase \in {"degraded", "session_expired"}, NEW later \in Instants,
             Degrade(phase, later)
      PROVE ReadingsInv'
  <2>1. /\ now' = later /\ meter' = [meter EXCEPT !.phase = phase, !.staleness = "stale"]
        /\ prompt' = None /\ UNCHANGED <<options, exported>> /\ Show
    BY <1>3 DEF Degrade
  <2>2. meter' \in Meters /\ meter'.snapshot = meter.snapshot
    BY <2>1 DEF Meters, ReadingsTypeOK
  <2>3. ReadingsTypeOK'
    BY <2>1, <2>2, ShowStep, ReadingsAssumption DEF ReadingsTypeOK
  <2>4. ExportIsCurrent' /\ PromptIsCurrent'
    BY <2>1, <2>2 DEF ExportIsCurrent, PromptIsCurrent
  <2>. QED  BY <2>1, <2>3, <2>4, ShowStep
<1>4. ASSUME NEW chosen \in Options, Choose(chosen) PROVE ReadingsInv'
  <2>1. /\ options' = chosen /\ prompt' = None /\ UNCHANGED <<now, meter, exported>> /\ Show
    BY <1>4 DEF Choose
  <2>2. ReadingsTypeOK'
    BY <2>1, ShowStep, ReadingsAssumption DEF ReadingsTypeOK
  <2>3. ExportIsCurrent' /\ PromptIsCurrent'
    BY <2>1 DEF ExportIsCurrent, PromptIsCurrent
  <2>. QED  BY <2>1, <2>2, <2>3, ShowStep
<1>5. CASE UNCHANGED vars
  BY <1>5 DEF vars, ReadingsTypeOK, CacheIsSound, ShownIsCurrent, ExportIsCurrent, PromptIsCurrent
<1>. QED  BY <1>1, <1>2, <1>3, <1>4, <1>5 DEF Next

LEMMA ReadingsInvariant == Spec => []ReadingsInv
BY ReadingsInit, ReadingsStep, PTL DEF Spec

-----------------------------------------------------------------------------
\* The icon shown is the one that would be drawn now, although it may have been drawn
\* for another state: the hand-written equality by which renders are cached takes for
\* one only states with the same pixels (render/state.rs, render/cache.rs).
THEOREM IconIsCurrent == Spec => []CachedIconIsCurrent
<1>1. ReadingsInv => CachedIconIsCurrent
  BY DEF ReadingsInv, ReadingsTypeOK, ShownIsCurrent, CachedIconIsCurrent
<1>. QED  BY ReadingsInvariant, <1>1, PTL

-----------------------------------------------------------------------------
\* Quotients, and what rounding makes of them

LEMMA DivideBound ==
    ASSUME NEW a \in Int, NEW b \in Nat \ {0}, NEW k \in Int
    PROVE  a \div b \in Int /\ (k <= a \div b <=> k * b <= a)
OBVIOUS

\* The nearest number of parts, and half of one below it at a tie.
LEMMA HalfUpBound ==
    ASSUME NEW q, q.num \in Int, q.den \in Nat \ {0}, NEW parts \in {1, 10}
    PROVE  /\ HalfUp(q, parts) \in Int
           /\ \A k \in Int : k <= HalfUp(q, parts) <=> (2 * k - 1) * q.den <= 2 * parts * q.num
           /\ Tie(q, parts) => (2 * HalfUp(q, parts) - 1) * q.den = 2 * parts * q.num
<1>. DEFINE a == 2 * parts * q.num + q.den
            b == 2 * q.den
<1>1. a \in Int /\ b \in Nat \ {0} /\ HalfUp(q, parts) = a \div b
  BY DEF HalfUp
<1>2. HalfUp(q, parts) \in Int /\ \A k \in Int : k <= HalfUp(q, parts) <=> k * b <= a
  BY <1>1, DivideBound
<1>3. \A k \in Int : k * b <= a <=> (2 * k - 1) * q.den <= 2 * parts * q.num
  <2>1. 2 * parts * q.num \in Int
    OBVIOUS
  <2>. TAKE k \in Int
  <2>2. k * b = (2 * k - 1) * q.den + q.den
    OBVIOUS
  <2>3. (2 * k - 1) * q.den \in Int
    OBVIOUS
  <2>. QED  BY <2>1, <2>2, <2>3
<1>. HIDE DEF a, b
<1>4. Tie(q, parts) => (2 * HalfUp(q, parts) - 1) * q.den = 2 * parts * q.num
  BY <1>2 DEF Tie
<1>. QED  BY <1>2, <1>3, <1>4

\* The two decimals of a quotient are the nearest tenths, or a tenth less at a tie.
LEMMA TenthsAreNear ==
    ASSUME NEW q, q.num \in Int, q.den \in Nat \ {0}
    PROVE  \A shown \in {Tenths(q), FixedTenths(q)} :
              /\ shown \in Int
              /\ shown = HalfUp(q, 10) \/ (Tie(q, 10) /\ shown = HalfUp(q, 10) - 1)
<1>1. HalfUp(q, 10) \in Int
  BY HalfUpBound
<1>2. HalfUp(q, 10) % 2 \in {0, 1}
  BY <1>1
<1>. QED  BY <1>1, <1>2 DEF Tenths, FixedTenths, Nearest

\* A ratio past a threshold is not printed short of it, nor the other way round: the
\* one decimal keeps the sides of 0.8, 1.0 and 1.2.
LEMMA TenthsKeepSides ==
    ASSUME NEW q, q.num \in Nat, q.den \in Nat \ {0}
    PROVE  /\ q.num >= q.den => Tenths(q) >= 10
           /\ ~Above(q, RiskThreshold) => Tenths(q) <= 10
           /\ ~Below(q, HeavyOveruseThreshold) => Tenths(q) >= 12
           /\ Below(q, UnderuseThreshold) => Tenths(q) <= 8
<1>. DEFINE h == HalfUp(q, 10)
<1>1. /\ h \in Int
      /\ \A k \in Int : k <= h <=> (2 * k - 1) * q.den <= 20 * q.num
      /\ Tie(q, 10) => (2 * h - 1) * q.den = 20 * q.num
  BY HalfUpBound
<1>2. Tenths(q) = h \/ (Tie(q, 10) /\ Tenths(q) = h - 1)
  BY TenthsAreNear
<1>. HIDE DEF h
<1>3. q.num >= q.den => Tenths(q) >= 10
  <2>. SUFFICES ASSUME q.num >= q.den PROVE Tenths(q) >= 10
    OBVIOUS
  <2>1. 10 <= h
    BY <1>1
  <2>2. Tie(q, 10) => h # 10
    BY <1>1
  <2>. QED  BY <1>1, <1>2, <2>1, <2>2
<1>4. ~Above(q, RiskThreshold) => Tenths(q) <= 10
  <2>1. ~Above(q, RiskThreshold) => ~(11 <= h)
    BY <1>1 DEF Above, RiskThreshold
  <2>. QED  BY <1>1, <1>2, <2>1
<1>5. ~Below(q, HeavyOveruseThreshold) => Tenths(q) >= 12
  <2>. SUFFICES ASSUME ~Below(q, HeavyOveruseThreshold) PROVE Tenths(q) >= 12
    OBVIOUS
  <2>1. 12 <= h
    BY <1>1 DEF Below, HeavyOveruseThreshold
  <2>2. Tie(q, 10) => h # 12
    BY <1>1 DEF Below, HeavyOveruseThreshold
  <2>. QED  BY <1>1, <1>2, <2>1, <2>2
<1>6. Below(q, UnderuseThreshold) => Tenths(q) <= 8
  <2>1. Below(q, UnderuseThreshold) => ~(9 <= h)
    BY <1>1 DEF Below, UnderuseThreshold
  <2>. QED  BY <1>1, <1>2, <2>1
<1>. QED  BY <1>3, <1>4, <1>5, <1>6

\* The decimal of {:.1} and that of toFixed(1) are the same, but where a double holds a
\* quarter above a whole number.
LEMMA DecimalsAgree ==
    ASSUME NEW q, q.num \in Int, q.den \in Nat \ {0}
    PROVE  SameDecimal(FixedTenths(q), Tenths(q))
<1>. DEFINE h == HalfUp(q, 10)
            k == (4 * q.num) \div q.den
<1>1. /\ h \in Int /\ h % 2 \in {0, 1}
      /\ Tie(q, 10) => (2 * h - 1) * q.den = 20 * q.num
  <2>1. h \in Int /\ (Tie(q, 10) => (2 * h - 1) * q.den = 20 * q.num)
    BY HalfUpBound
  <2>. HIDE DEF h
  <2>. QED  BY <2>1
<1>2. k \in Int
  BY DivideBound
<1>3. CASE ~(Tie(q, 10) /\ Held(q) /\ h % 2 = 1)
  <2>1. Tenths(q) = FixedTenths(q)
    BY <1>1, <1>3 DEF Tenths, FixedTenths, Nearest, Held
  <2>. QED  BY <2>1 DEF SameDecimal
<1>4. CASE Tie(q, 10) /\ Held(q) /\ h % 2 = 1
  <2>1. Tenths(q) = h - 1 /\ FixedTenths(q) = h
    BY <1>1, <1>4 DEF Tenths, FixedTenths, Nearest, Held
  <2>2. q.den * k = 4 * q.num
    BY <1>4 DEF Held
  <2>. HIDE DEF h, k
  <2>3. (5 * k) * q.den = (2 * h - 1) * q.den
    <3>1. (5 * k) * q.den = 5 * (q.den * k)
      BY <1>2
    <3>. QED  BY <1>1, <1>4, <2>2, <3>1
  <2>4. 5 * k = 2 * h - 1
    <3>1. 5 * k \in Int /\ 2 * h - 1 \in Int
      BY <1>1, <1>2
    <3>. QED  BY <2>3, <3>1
  <2>5. (h - 1) % 10 = 2
    BY <1>1, <1>2, <1>4, <2>4
  <2>. QED  BY <1>1, <2>1, <2>5 DEF SameDecimal
<1>. QED  BY <1>3, <1>4

-----------------------------------------------------------------------------
\* The pace of a window

LEMMA PacingIsPositive ==
    ASSUME NEW window \in LimitWindows, NEW days \in PaceDays
    PROVE  /\ PacingDuration(window, days) \in Nat \ {0}
           /\ PacingDuration(window, days) <= Duration(window)
BY PacingAssumption DEF PacingDuration, WeeklyPacingDuration, Duration, PaceDays, LimitWindows

\* A ratio is a quotient, and at the limit it is no less than one.
LEMMA RatioIsQuotient ==
    ASSUME NEW w \in Windows, NEW time \in Int, NEW pacing \in Nat \ {0},
           PaceRatio(w, time, pacing) # None
    PROVE  LET ratio == PaceRatio(w, time, pacing)
           IN  /\ ratio.num \in Nat /\ ratio.den \in Nat \ {0}
               /\ w.utilization >= 100 => ratio.num >= ratio.den
               /\ Running(w, time)
<1>. DEFINE e == Elapsed(w, time)
            spent == AtMost(e, pacing)
            used == AtMost(w.utilization, 100)
<1>1. w.utilization \in Nat /\ e \in Int
  BY DurationIsPositive DEF Windows, WindowsOf, Elapsed
<1>2. Running(w, time) /\ ~InGrace(w, time, pacing) /\ 0 < e
  BY DEF PaceRatio, ExpectedUsage, Running
<1>3. spent \in Nat \ {0} /\ spent <= pacing /\ used \in Nat /\ (w.utilization >= 100 => used = 100)
  BY <1>1, <1>2 DEF AtMost
<1>4. 100 * spent \in Nat \ {0} /\ used * pacing \in Nat
  BY <1>3
<1>5. ExpectedUsage(w, time, pacing) = [num |-> 100 * spent, den |-> pacing]
  BY <1>2 DEF ExpectedUsage
<1>6. ExpectedUsage(w, time, pacing) # None
  BY <1>4, <1>5, NoneAssumption DEF Quotients
<1>7. PaceRatio(w, time, pacing) = [num |-> used * pacing, den |-> 100 * spent]
  BY <1>5, <1>6 DEF PaceRatio
<1>. HIDE DEF spent, used
<1>8. w.utilization >= 100 => used * pacing >= 100 * spent
  BY <1>3
<1>. QED  BY <1>2, <1>4, <1>7, <1>8

\* The outlook of a window that has a ratio: it runs out exactly when it is at its
\* limit or ahead of its pace.
LEMMA OutlookTells ==
    ASSUME NEW w \in Windows, NEW time \in Int, NEW pacing \in Nat \ {0},
           PaceRatio(w, time, pacing) # None,
           NEW outlook, outlook = Outlook(w, time, pacing)
    PROVE  IF w.utilization >= 100 THEN outlook = Verdict("limit reached", 100, None)
           ELSE IF Above(PaceRatio(w, time, pacing), RiskThreshold)
           THEN /\ HitsLimit(w, time, pacing)
                /\ outlook = Verdict("hits limit", 100, HitTime(LimitDate(w, time), time))
           ELSE /\ ~HitsLimit(w, time, pacing)
                /\ outlook \in {None, Verdict("on pace to end",
                                              RoundPercent(ProjectedEnd(w, time, pacing)), None)}
<1>1. w.utilization \in Nat /\ w.resets_at \in Int /\ w.window \in LimitWindows
  BY DEF Windows, WindowsOf
<1>2. w.utilization < 100 =>
         (Above(PaceRatio(w, time, pacing), RiskThreshold) <=> HitsLimit(w, time, pacing))
  BY <1>1, AheadIsRunningOut
<1>3. CASE w.utilization >= 100
  BY <1>3 DEF Outlook
<1>4. CASE w.utilization < 100 /\ HitsLimit(w, time, pacing)
  BY <1>1, <1>2, <1>4 DEF Outlook
<1>5. CASE w.utilization < 100 /\ ~HitsLimit(w, time, pacing)
  BY <1>1, <1>2, <1>5 DEF Outlook
<1>6. w.utilization >= 100 \/ w.utilization < 100
  BY <1>1
<1>. QED  BY <1>3, <1>4, <1>5, <1>6, Zenon

-----------------------------------------------------------------------------
\* The lines of the menu

\* The entries of the headline windows, and of the scoped limits.
HeadlinesOf(snapshot, time, chosen) ==
    {MenuEntry(<<w.window>>, w, time, chosen) : w \in {snapshot.five_hour, snapshot.seven_day} \ {None}}

ScopedOf(snapshot, time, chosen) ==
    {MenuEntry(<<snapshot.scoped[i].display_name, snapshot.scoped[i].usage.window>>,
               snapshot.scoped[i].usage, time, chosen) : i \in DOMAIN snapshot.scoped}

AllOf(snapshot, time, chosen) ==
    HeadlinesOf(snapshot, time, chosen) \cup ScopedOf(snapshot, time, chosen)

LEMMA WiderSequence ==
    ASSUME NEW S, NEW T, S \subseteq T, NEW s \in Seq(S) PROVE s \in Seq(T)
<1>1. DOMAIN s = 1..Len(s) /\ Len(s) \in Nat /\ s = [i \in 1..Len(s) |-> s[i]]
  OBVIOUS
<1>2. \A i \in 1..Len(s) : s[i] \in T
  BY <1>1
<1>. QED  BY <1>1, <1>2

LEMMA ScopedLines ==
    ASSUME NEW snapshot \in Snapshots, NEW time, NEW chosen
    PROVE  ScopedEntries(snapshot, time, chosen) \in Seq(ScopedOf(snapshot, time, chosen))
<1>. DEFINE scoped == snapshot.scoped
            positions == {i \in DOMAIN scoped : scoped[i].display_name \in chosen.shown}
            visible == Selected(scoped, positions)
            entry(limit) == MenuEntry(<<limit.display_name, limit.usage.window>>, limit.usage,
                                      time, chosen)
<1>1. scoped \in Seq(ScopedLimits) /\ positions \subseteq DOMAIN scoped
  BY DEF Snapshots
<1>2. /\ visible \in Seq(ScopedLimits)
      /\ \A n \in DOMAIN visible : \E i \in positions : visible[n] = scoped[i]
  <2>. HIDE DEF positions, scoped
  <2>. QED  BY <1>1, SelectedAreMembers
<1>3. ScopedEntries(snapshot, time, chosen) = [n \in DOMAIN visible |-> entry(visible[n])]
  BY DEF ScopedEntries, Visible
<1>4. \A i \in DOMAIN scoped : entry(scoped[i]) \in ScopedOf(snapshot, time, chosen)
  BY DEF ScopedOf
<1>. HIDE DEF visible
<1>5. \A n \in DOMAIN visible : entry(visible[n]) \in ScopedOf(snapshot, time, chosen)
  BY <1>1, <1>2, <1>4
<1>6. DOMAIN visible = 1..Len(visible) /\ Len(visible) \in Nat
  BY <1>2
<1>. HIDE DEF entry
<1>. QED  BY <1>3, <1>5, <1>6

LEMMA HeadlineLines ==
    ASSUME NEW snapshot, NEW time, NEW chosen,
           NEW w \in {snapshot.five_hour, snapshot.seven_day}
    PROVE  /\ HeadlineEntry(w, time, chosen) \in Seq(HeadlinesOf(snapshot, time, chosen))
           /\ w = None => HeadlineEntry(w, time, chosen) = <<>>
           /\ w # None => HeadlineEntry(w, time, chosen) = <<MenuEntry(<<w.window>>, w, time, chosen)>>
<1>1. CASE w = None
  BY <1>1 DEF HeadlineEntry
<1>2. CASE w # None
  <2>1. MenuEntry(<<w.window>>, w, time, chosen) \in HeadlinesOf(snapshot, time, chosen)
    BY <1>2 DEF HeadlinesOf
  <2>. QED  BY <1>2, <2>1 DEF HeadlineEntry
<1>. QED  BY <1>1, <1>2

\* Every line of the menu is one of these; the session comes first, and the week first
\* without one.
LEMMA MenuLines ==
    ASSUME NEW snapshot \in Snapshots, NEW time, NEW chosen,
           NEW windows, windows = UsageLines(snapshot, time, chosen).windows,
           Effective(chosen.usage_mode, snapshot) # "cost"
    PROVE  /\ windows \in Seq(AllOf(snapshot, time, chosen))
           /\ snapshot.five_hour # None =>
                 /\ 1 \in DOMAIN windows
                 /\ windows[1] = MenuEntry(<<snapshot.five_hour.window>>, snapshot.five_hour,
                                           time, chosen)
           /\ snapshot.seven_day # None =>
                 \E i \in DOMAIN windows :
                     /\ windows[i] = MenuEntry(<<snapshot.seven_day.window>>, snapshot.seven_day,
                                               time, chosen)
                     /\ snapshot.five_hour = None => i = 1
<1>. DEFINE session == HeadlineEntry(snapshot.five_hour, time, chosen)
            weekly == HeadlineEntry(snapshot.seven_day, time, chosen)
            scoped == ScopedEntries(snapshot, time, chosen)
            S == AllOf(snapshot, time, chosen)
<1>1. windows = session \o weekly \o scoped
  BY DEF UsageLines
<1>2. session \in Seq(S) /\ weekly \in Seq(S) /\ scoped \in Seq(S)
  <2>1. /\ session \in Seq(HeadlinesOf(snapshot, time, chosen))
        /\ weekly \in Seq(HeadlinesOf(snapshot, time, chosen))
    BY HeadlineLines
  <2>2. scoped \in Seq(ScopedOf(snapshot, time, chosen))
    BY ScopedLines
  <2>3. HeadlinesOf(snapshot, time, chosen) \subseteq S /\ ScopedOf(snapshot, time, chosen) \subseteq S
    BY DEF AllOf
  <2>. HIDE DEF session, weekly, scoped, S
  <2>. QED  BY <2>1, <2>2, <2>3, WiderSequence
<1>3. /\ snapshot.five_hour = None => session = <<>>
      /\ snapshot.five_hour # None =>
            session = <<MenuEntry(<<snapshot.five_hour.window>>, snapshot.five_hour, time, chosen)>>
      /\ snapshot.seven_day # None =>
            weekly = <<MenuEntry(<<snapshot.seven_day.window>>, snapshot.seven_day, time, chosen)>>
  BY HeadlineLines
<1>. HIDE DEF session, weekly, scoped, S
<1>4. ASSUME snapshot.five_hour # None
      PROVE  /\ 1 \in DOMAIN windows
             /\ windows[1] = MenuEntry(<<snapshot.five_hour.window>>, snapshot.five_hour, time, chosen)
  BY <1>1, <1>2, <1>3, <1>4
<1>5. ASSUME snapshot.seven_day # None
      PROVE  LET i == Len(session) + 1
             IN  /\ i \in DOMAIN windows /\ (snapshot.five_hour = None => i = 1)
                 /\ windows[i] =
                       MenuEntry(<<snapshot.seven_day.window>>, snapshot.seven_day, time, chosen)
  BY <1>1, <1>2, <1>3, <1>5
<1>6. windows \in Seq(S)
  BY <1>1, <1>2
<1>. QED  BY <1>4, <1>5, <1>6 DEF S

-----------------------------------------------------------------------------
\* What is read off a line

LEMMA LineReads ==
    ASSUME NEW label, NEW w, NEW time, NEW chosen
    PROVE  LET e == MenuEntry(label, w, time, chosen)
           IN  /\ e.usage = UsageLine(label, w, time) /\ e.detail = DetailLine(w, time, chosen)
               /\ e.usage.label = label
               /\ e.usage.percent = RoundPercent(Percent(w.utilization))
BY DEF MenuEntry, UsageLine

LEMMA RoundedIsInt ==
    ASSUME NEW q, q.num \in Int, q.den \in Nat \ {0} PROVE RoundPercent(q) \in Int
<1>1. HalfUp(q, 1) \in Int
  BY HalfUpBound
<1>2. Rounded(q) \in Int
  BY <1>1 DEF Rounded, Nearest
<1>. QED  BY <1>2 DEF RoundPercent, AtMost

LEMMA HitTimeIsClock ==
    ASSUME NEW hit \in Int, NEW time \in Int
    PROVE  HitTime(hit, time) \in Clocks
<1>1. hit + TimeZone \in Int /\ Day \in Nat \ {0}
  BY TrayModelAssumption, PacingAssumption
<1>2. LocalDay(hit) \in Int /\ (hit + TimeZone) % Day \in Int
  BY <1>1 DEF LocalDay
<1>. QED  BY <1>2 DEF HitTime, Optional, Clocks

LEMMA VerdictIsThere ==
    \A says, percent, at :
        says \in {"limit reached", "hits limit", "on pace to end"}
        /\ percent \in Int /\ at \in Optional(Clocks) =>
            /\ Verdict(says, percent, at) \in Verdicts
            /\ Verdict(says, percent, at) # None
            /\ Verdict(says, percent, at).says = says
<1>1. ASSUME NEW says \in {"limit reached", "hits limit", "on pace to end"}, NEW percent, NEW at,
             percent \in Int, at \in Optional(Clocks)
      PROVE  Verdict(says, percent, at) \in Verdicts /\ Verdict(says, percent, at).says = says
  BY <1>1 DEF Verdict, Verdicts
<1>2. None \notin Verdicts
  BY NoneIsNoLine
<1>. QED  BY <1>1, <1>2, Zenon

\* The two verdicts that say a window runs out, and the one that does not.
LEMMA VerdictsSay ==
    /\ Verdict("limit reached", 100, None) \in Verdicts
    /\ \A at : at \in Clocks => Verdict("hits limit", 100, at) \in Verdicts
    /\ \A percent : percent \in Int => Verdict("on pace to end", percent, None) \in Verdicts
    /\ None \notin Verdicts
<1>1. 100 \in Int /\ None \in Optional(Clocks) /\ (\A at : at \in Clocks => at \in Optional(Clocks))
  BY DEF Optional
<1>2. /\ "limit reached" \in {"limit reached", "hits limit", "on pace to end"}
      /\ "hits limit" \in {"limit reached", "hits limit", "on pace to end"}
      /\ "on pace to end" \in {"limit reached", "hits limit", "on pace to end"}
  OBVIOUS
<1>. QED  BY <1>1, <1>2, VerdictIsThere, NoneIsNoLine, Zenon

LEMMA OutlookIsVerdict ==
    ASSUME NEW w \in Windows, NEW time \in Int, NEW pacing \in Nat \ {0}
    PROVE  /\ Outlook(w, time, pacing) \in Optional(Verdicts)
           /\ w.utilization >= 100 \/ HitsLimit(w, time, pacing) =>
                 Outlook(w, time, pacing) # None
<1>1. w.utilization \in Nat /\ Elapsed(w, time) \in Int /\ w.resets_at \in Int
      /\ Duration(w.window) \in Int
  BY DurationIsPositive DEF Windows, WindowsOf, Elapsed
<1>2. CASE w.utilization >= 100
  <2>1. Outlook(w, time, pacing) = Verdict("limit reached", 100, None)
    BY <1>2 DEF Outlook
  <2>. QED  BY <2>1, VerdictsSay, Zenon DEF Optional
<1>3. CASE ~(w.utilization >= 100) /\ HitsLimit(w, time, pacing)
  <2>1. w.utilization \in Nat \ {0} /\ 100 * Elapsed(w, time) \in Int
    BY <1>1, <1>3 DEF HitsLimit, MinUsageForProjection
  <2>2. LimitDate(w, time) \in Int
    BY <1>1, <2>1, DivideBound DEF LimitDate
  <2>3. HitTime(LimitDate(w, time), time) \in Clocks
    BY <2>2, HitTimeIsClock
  <2>4. Outlook(w, time, pacing) = Verdict("hits limit", 100, HitTime(LimitDate(w, time), time))
    BY <1>3 DEF Outlook
  <2>. QED  BY <2>3, <2>4, VerdictsSay, Zenon DEF Optional
<1>4. CASE ~(w.utilization >= 100) /\ ~HitsLimit(w, time, pacing)
  <2>1. CASE ProjectedEnd(w, time, pacing) = None
    BY <1>4, <2>1 DEF Outlook, Optional
  <2>2. CASE ProjectedEnd(w, time, pacing) # None
    <3>1. /\ ProjectedEnd(w, time, pacing).num = w.utilization * Horizon(w, time, pacing)
          /\ ProjectedEnd(w, time, pacing).den = Elapsed(w, time) /\ 0 < Elapsed(w, time)
      BY <2>2 DEF ProjectedEnd, Running
    <3>2. RoundPercent(ProjectedEnd(w, time, pacing)) \in Int
      BY <1>1, <3>1, RoundedIsInt DEF Horizon, AtLeast
    <3>3. Outlook(w, time, pacing) =
              Verdict("on pace to end", RoundPercent(ProjectedEnd(w, time, pacing)), None)
      BY <1>4, <2>2 DEF Outlook
    <3>. QED  BY <1>4, <3>2, <3>3, VerdictsSay, Zenon DEF Optional
  <2>. QED  BY <2>1, <2>2
<1>. QED  BY <1>2, <1>3, <1>4

\* A detail line tells the ratio and the outlook of one pacing; there is one whenever
\* there is a ratio to tell.
LEMMA DetailReads ==
    ASSUME NEW w \in Windows, NEW time \in Int, NEW chosen \in DisplayOptions,
           NEW detail, detail = DetailLine(w, time, chosen)
    PROVE  LET pacing == PacingDuration(w.window, chosen.weekly_pace_days)
               ratio == PaceRatio(w, time, pacing)
           IN  /\ pacing \in Nat \ {0} /\ pacing <= Duration(w.window)
               /\ detail # None <=> chosen.pace_tracking_enabled /\ ratio # None
               /\ detail # None =>
                     detail = [ratio |-> Tenths(ratio),
                               expected |-> RoundPercent(ExpectedUsage(w, time, pacing)),
                               outlook |-> Outlook(w, time, pacing)]
<1>. DEFINE pacing == PacingDuration(w.window, chosen.weekly_pace_days)
            ratio == PaceRatio(w, time, pacing)
            told == [ratio |-> Tenths(ratio),
                     expected |-> RoundPercent(ExpectedUsage(w, time, pacing)),
                     outlook |-> Outlook(w, time, pacing)]
<1>1. w.window \in LimitWindows /\ chosen.weekly_pace_days \in PaceDays
      /\ chosen.pace_tracking_enabled \in BOOLEAN
  BY DEF Windows, WindowsOf, DisplayOptions
<1>2. pacing \in Nat \ {0} /\ pacing <= Duration(w.window)
  BY <1>1, PacingIsPositive
<1>3. detail = IF ~chosen.pace_tracking_enabled \/ ratio = None THEN None ELSE told
  BY DEF DetailLine
<1>. HIDE DEF pacing
<1>4. ASSUME ratio # None PROVE told \in Details
  <2>1. /\ ratio.num \in Nat /\ ratio.den \in Nat \ {0}
        /\ Running(w, time)
    BY <1>2, <1>4, RatioIsQuotient
  <2>3. Tenths(ratio) \in Int
    BY <2>1, TenthsAreNear
  <2>4. Elapsed(w, time) \in Int
    BY DurationIsPositive DEF Windows, WindowsOf, Elapsed
  <2>5. /\ ExpectedUsage(w, time, pacing).num = 100 * AtMost(Elapsed(w, time), pacing)
        /\ ExpectedUsage(w, time, pacing).den = pacing
    BY <1>4 DEF PaceRatio, ExpectedUsage
  <2>6. RoundPercent(ExpectedUsage(w, time, pacing)) \in Int
    BY <1>2, <2>4, <2>5, RoundedIsInt DEF AtMost
  <2>7. Outlook(w, time, pacing) \in Optional(Verdicts)
    BY <1>2, OutlookIsVerdict
  <2>. HIDE DEF ratio
  <2>. QED  BY <2>3, <2>6, <2>7 DEF Details
<1>5. ratio # None => told # None
  BY <1>4, NoneIsNoLine
<1>. HIDE DEF ratio, told
<1>6. /\ detail # None <=> chosen.pace_tracking_enabled /\ ratio # None
      /\ detail # None => detail = told
  BY <1>3, <1>5
<1>. QED  BY <1>2, <1>6 DEF told, ratio, pacing

\* The window behind every line of the menu: what is said of a line is proved of it.
LEMMA LinesAreOfWindows ==
    ASSUME ReadingsInv, NEW e \in Entries
    PROVE  /\ broadcasts # 0 /\ meter.snapshot # None /\ meter.snapshot \in Snapshots
           /\ now \in Int /\ options \in DisplayOptions
           /\ Effective(options.usage_mode, meter.snapshot) # "cost"
           /\ e \in AllOf(meter.snapshot, now, options)
           /\ \E w \in Windows : \E label : e = MenuEntry(label, w, now, options)
<1>. DEFINE windows == UsageLines(meter.snapshot, now, options).windows
<1>1. broadcasts # 0 /\ menu = MenuModel(meter, now, options)
      /\ \E i \in DOMAIN menu.usage_lines.windows : e = menu.usage_lines.windows[i]
  BY DEF Entries, ReadingsInv, ShownIsCurrent
<1>2. now \in Int /\ options \in DisplayOptions /\ meter.snapshot \in Optional(Snapshots)
  BY DEF ReadingsInv, ReadingsTypeOK, Meters
<1>3. menu.usage_lines = IF meter.snapshot = None THEN [cost |-> <<>>, windows |-> <<>>]
                         ELSE UsageLines(meter.snapshot, now, options)
  BY <1>1 DEF MenuModel
<1>4. meter.snapshot # None
  BY <1>1, <1>3
<1>5. meter.snapshot \in Snapshots /\ menu.usage_lines.windows = windows
  BY <1>2, <1>3, <1>4 DEF Optional
<1>6. Effective(options.usage_mode, meter.snapshot) # "cost"
  BY <1>1, <1>5 DEF UsageLines
<1>7. windows \in Seq(AllOf(meter.snapshot, now, options))
  BY <1>5, <1>6, MenuLines
<1>. HIDE DEF windows
<1>8. e \in AllOf(meter.snapshot, now, options)
  BY <1>1, <1>5, <1>7
<1>9. ASSUME NEW w \in {meter.snapshot.five_hour, meter.snapshot.seven_day} \ {None}
      PROVE  w \in Windows
  BY <1>5 DEF Snapshots, Optional, WindowsOf, Windows, LimitWindows
<1>10. ASSUME NEW i \in DOMAIN meter.snapshot.scoped PROVE meter.snapshot.scoped[i].usage \in Windows
  <2>1. meter.snapshot.scoped \in Seq(ScopedLimits)
    BY <1>5 DEF Snapshots
  <2>2. meter.snapshot.scoped[i] \in ScopedLimits
    BY <1>10, <2>1
  <2>. QED  BY <2>2 DEF ScopedLimits
<1>11. \E w \in Windows : \E label : e = MenuEntry(label, w, now, options)
  BY <1>8, <1>9, <1>10 DEF AllOf, HeadlinesOf, ScopedOf
<1>. QED  BY <1>1, <1>2, <1>4, <1>5, <1>6, <1>8, <1>11

\* A line that has a ratio says that its window runs out exactly when it is at its
\* limit or ahead of its pace, and that it ends below the limit only when it is not.
LEMMA RunningOutReads ==
    ASSUME NEW label, NEW w \in Windows, NEW time \in Int, NEW chosen \in DisplayOptions,
           NEW e, e = MenuEntry(label, w, time, chosen)
    PROVE  LET ratio == PaceRatio(w, time, PacingDuration(w.window, chosen.weekly_pace_days))
               hot == w.utilization >= 100 \/ Above(ratio, RiskThreshold)
           IN  /\ e.detail # None <=> chosen.pace_tracking_enabled /\ ratio # None
               /\ e.detail # None => e.detail.ratio = Tenths(ratio)
               /\ Says(e, RunsOut) <=> e.detail # None /\ hot
               /\ Says(e, {"on pace to end"}) => ~hot
<1>. DEFINE pacing == PacingDuration(w.window, chosen.weekly_pace_days)
            ratio == PaceRatio(w, time, pacing)
            hot == w.utilization >= 100 \/ Above(ratio, RiskThreshold)
<1>1. e.detail = DetailLine(w, time, chosen)
  BY LineReads
<1>2. /\ pacing \in Nat \ {0}
      /\ e.detail # None <=> chosen.pace_tracking_enabled /\ ratio # None
      /\ e.detail # None => /\ e.detail.ratio = Tenths(ratio)
                            /\ e.detail.outlook = Outlook(w, time, pacing)
  BY <1>1, DetailReads
<1>. HIDE DEF pacing
<1>3. ASSUME e.detail # None
      PROVE  /\ hot => e.detail.outlook # None /\ e.detail.outlook.says \in RunsOut
             /\ ~hot => \/ e.detail.outlook = None
                        \/ e.detail.outlook.says = "on pace to end"
  <2>1. e.detail.outlook = Outlook(w, time, pacing) /\ ratio # None
    BY <1>2, <1>3
  <2>2. CASE w.utilization >= 100
    <3>1. e.detail.outlook = Verdict("limit reached", 100, None)
      BY <1>2, <2>1, <2>2, OutlookTells, ZenonT(60)
    <3>2. e.detail.outlook # None /\ e.detail.outlook.says \in RunsOut
      <4>1. Verdict("limit reached", 100, None) # None
        BY VerdictsSay, Zenon
      <4>2. Verdict("limit reached", 100, None).says \in RunsOut
        BY DEF Verdict, RunsOut
      <4>. QED  BY <3>1, <4>1, <4>2, Zenon
    <3>. QED  BY <2>2, <3>2, Zenon
  <2>3. CASE ~(w.utilization >= 100) /\ Above(ratio, RiskThreshold)
    <3>1. /\ HitsLimit(w, time, pacing)
          /\ e.detail.outlook = Verdict("hits limit", 100, HitTime(LimitDate(w, time), time))
      BY <1>2, <2>1, <2>3, OutlookTells
    <3>2. e.detail.outlook # None
      BY <1>2, <2>1, <3>1, OutlookIsVerdict
    <3>3. e.detail.outlook.says \in RunsOut
      <4>1. \A at : Verdict("hits limit", 100, at).says = "hits limit"
        BY DEF Verdict
      <4>2. e.detail.outlook.says = "hits limit"
        BY <3>1, <4>1, Zenon
      <4>. QED  BY <4>2 DEF RunsOut
    <3>. QED  BY <2>3, <3>2, <3>3, Zenon
  <2>4. CASE ~hot
    <3>1. \/ e.detail.outlook = None
          \/ e.detail.outlook = Verdict("on pace to end", RoundPercent(ProjectedEnd(w, time, pacing)),
                                        None)
      BY <1>2, <2>1, <2>4, OutlookTells
    <3>2. Verdict("on pace to end", RoundPercent(ProjectedEnd(w, time, pacing)), None).says
          = "on pace to end"
      BY DEF Verdict
    <3>. QED  BY <2>4, <3>1, <3>2, Zenon
  <2>. QED  BY <2>2, <2>3, <2>4
<1>4. e.detail # None => (hot <=> e.detail.outlook # None /\ e.detail.outlook.says \in RunsOut)
  BY <1>3 DEF RunsOut
<1>. HIDE DEF ratio, hot
<1>. QED  BY <1>2, <1>3, <1>4 DEF Says, RunsOut, pacing, ratio, hot

\* The two figures of a detail line tell one story: no card reads "underusing" and
\* "hits limit", whatever the span the week is paced over (pacing.rs).
THEOREM OutlookFollowsPace == Spec => []OutlookMatchesPace
<1>1. ReadingsInv => OutlookMatchesPace
  <2>. SUFFICES ASSUME ReadingsInv, NEW e \in Entries
                PROVE  /\ Says(e, RunsOut) => e.detail.ratio >= 10
                       /\ Says(e, {"on pace to end"}) => e.detail.ratio <= 10
    BY DEF OutlookMatchesPace
  <2>1. PICK w \in Windows : \E label : e = MenuEntry(label, w, now, options)
    BY LinesAreOfWindows
  <2>2. PICK label : e = MenuEntry(label, w, now, options)
    BY <2>1
  <2>3. now \in Int /\ options \in DisplayOptions
    BY LinesAreOfWindows
  <2>. DEFINE pacing == PacingDuration(w.window, options.weekly_pace_days)
              ratio == PaceRatio(w, now, pacing)
              hot == w.utilization >= 100 \/ Above(ratio, RiskThreshold)
  <2>4. /\ e.detail # None => ratio # None /\ e.detail.ratio = Tenths(ratio)
        /\ Says(e, RunsOut) => e.detail # None /\ hot
        /\ Says(e, {"on pace to end"}) => e.detail # None /\ ~hot
    BY <2>2, <2>3, RunningOutReads DEF Says
  <2>5. pacing \in Nat \ {0}
    BY <2>3, PacingIsPositive DEF Windows, WindowsOf, DisplayOptions
  <2>. HIDE DEF pacing
  <2>6. ASSUME ratio # None
        PROVE  (hot => Tenths(ratio) >= 10) /\ (~hot => Tenths(ratio) <= 10)
    <3>1. /\ ratio.num \in Nat /\ ratio.den \in Nat \ {0}
          /\ w.utilization >= 100 => ratio.num >= ratio.den
      BY <2>3, <2>5, <2>6, RatioIsQuotient
    <3>2. Above(ratio, RiskThreshold) => ratio.num >= ratio.den
      BY <3>1 DEF Above, RiskThreshold
    <3>. QED  BY <3>1, <3>2, TenthsKeepSides
  <2>. HIDE DEF ratio, hot
  <2>. QED  BY <2>4, <2>6
<1>. QED  BY ReadingsInvariant, <1>1, PTL

-----------------------------------------------------------------------------
\* The projected hit

LEMMA DivideBack ==
    ASSUME NEW a \in Int, NEW b \in Nat \ {0}
    PROVE  a = (a \div b) * b + (a % b) /\ a % b \in 0..(b - 1) /\ a \div b \in Int
OBVIOUS

LEMMA ClockReads ==
    ASSUME NEW local \in Int, NEW day \in Nat \ {0}, NEW zone \in Int, NEW hit \in Int,
           local = hit + zone
    PROVE  (local \div day) * day + (local % day) - zone = hit
<1>1. local = (local \div day) * day + (local % day)
  BY DivideBack
<1>2. local \div day \in Int /\ local % day \in Int /\ (local \div day) * day \in Int
  BY DivideBack
<1>. QED  BY <1>1, <1>2

\* A clock time and the day it is of are read back as the instant they were made from.
LEMMA TimeIsReadBack ==
    ASSUME NEW hit \in Int
    PROVE  ReadTime(HitTime(hit, now)) = hit
<1>1. TimeZone \in Int /\ Day \in Nat \ {0}
  BY TrayModelAssumption, PacingAssumption
<1>2. hit + TimeZone \in Int
  BY <1>1
<1>3. ((hit + TimeZone) \div Day) * Day + ((hit + TimeZone) % Day) - TimeZone = hit
  BY <1>1, <1>2, ClockReads
<1>4. (hit + TimeZone) \div Day \in Int
  BY <1>1, <1>2, DivideBack
<1>5. LocalDay(hit) # None
  BY <1>4, NoneAssumption DEF LocalDay
<1>6. /\ HitTime(hit, now).clock = (hit + TimeZone) % Day
      /\ HitTime(hit, now).day = IF LocalDay(hit) = LocalDay(now) THEN None ELSE LocalDay(hit)
  BY DEF HitTime
<1>7. ReadTime(HitTime(hit, now)) = LocalDay(hit) * Day + ((hit + TimeZone) % Day) - TimeZone
  <2>1. (IF HitTime(hit, now).day = None THEN LocalDay(now) ELSE HitTime(hit, now).day) = LocalDay(hit)
    BY <1>5, <1>6, Zenon
  <2>. QED  BY <1>6, <2>1, Zenon DEF ReadTime
<1>. QED  BY <1>3, <1>7 DEF LocalDay

\* A window is only projected to run out while it is open, and then the hit lies
\* between now and its reset.
LEMMA HitIsAhead ==
    ASSUME NEW w \in Windows, NEW time \in Int, NEW pacing \in Nat \ {0},
           pacing <= Duration(w.window), HitsLimit(w, time, pacing)
    PROVE  /\ LimitDate(w, time) \in Int /\ time < w.resets_at
           /\ time <= LimitDate(w, time) /\ LimitDate(w, time) < w.resets_at
<1>. DEFINE e == Elapsed(w, time)
            u == w.utilization
            start == w.resets_at - Duration(w.window)
<1>1. u \in 2..99 /\ e \in Int /\ 0 < e /\ w.resets_at \in Int /\ Duration(w.window) \in Int
      /\ time = start + e /\ time < w.resets_at
  BY DurationIsPositive DEF HitsLimit, MinUsageForProjection, Running, Windows, WindowsOf, Elapsed
<1>2. 100 * e < u * AtLeast(pacing, e)
  BY DEF HitsLimit, Horizon
<1>3. u * e <= 100 * e
  BY <1>1
<1>4. 100 * e < u * pacing
  BY <1>1, <1>2, <1>3 DEF AtLeast
<1>5. /\ 100 * e \in Int /\ u \in Nat \ {0}
      /\ LimitDate(w, time) = start + ((100 * e) \div u)
  BY <1>1 DEF LimitDate
<1>6. /\ (100 * e) \div u \in Int /\ e <= (100 * e) \div u /\ ~(pacing <= (100 * e) \div u)
  <2>1. e * u <= 100 * e /\ ~(pacing * u <= 100 * e)
    BY <1>1, <1>3, <1>4
  <2>. QED  BY <1>1, <1>5, <2>1, DivideBound
<1>. HIDE DEF e, u
<1>. QED  BY <1>1, <1>5, <1>6

\* A countdown told in whole hours is less than an hour short.
LEMMA CountdownIsClose ==
    ASSUME NEW ticks \in Nat
    PROVE  ShortDuration(ticks) \in Int /\ ticks < ShortDuration(ticks) + Hour
<1>1. Hour \in Nat \ {0} /\ ticks % Hour \in 0..(Hour - 1)
  BY TrayModelAssumption
<1>. QED  BY <1>1, PacingAssumption DEF ShortDuration, AtLeast

LEMMA PositiveDifference ==
    ASSUME NEW a \in Int, NEW b \in Int, a < b PROVE b - a > 0
OBVIOUS

LEMMA WindowReset == \A w \in Windows : w.resets_at \in Int
BY DEF Windows, WindowsOf

\* A line with a projected hit, of a window that is open and resets after it.
IsHit(e) == Says(e, {"hits limit"})
TellsHit(e, w, time) ==
    \E hit \in Int :
        /\ e.detail.outlook.at = HitTime(hit, time)
        /\ time <= hit /\ hit < w.resets_at /\ time < w.resets_at
        /\ e.usage.reset = "in" /\ e.usage.time = ShortDuration(w.resets_at - time)

\* What the line of a window that is projected to run out says.
LEMMA HitReads ==
    ASSUME NEW label, NEW w \in Windows, NEW time \in Int, NEW chosen \in DisplayOptions,
           NEW e, e = MenuEntry(label, w, time, chosen)
    PROVE  IsHit(e) => TellsHit(e, w, time)
<1>. DEFINE pacing == PacingDuration(w.window, chosen.weekly_pace_days)
            hit == LimitDate(w, time)
            outlook == Outlook(w, time, pacing)
<1>1. /\ e.usage = UsageLine(label, w, time)
      /\ pacing \in Nat \ {0} /\ pacing <= Duration(w.window)
      /\ e.detail # None => PaceRatio(w, time, pacing) # None /\ e.detail.outlook = outlook
  <2>1. e.detail = DetailLine(w, time, chosen) /\ e.usage = UsageLine(label, w, time)
    BY LineReads
  <2>. QED  BY <2>1, DetailReads
<1>. HIDE DEF pacing
<1>. SUFFICES ASSUME Says(e, {"hits limit"})
              PROVE  /\ hit \in Int /\ e.detail.outlook.at = HitTime(hit, time)
                     /\ time <= hit /\ hit < w.resets_at /\ time < w.resets_at
                     /\ e.usage.reset = "in" /\ e.usage.time = ShortDuration(w.resets_at - time)
  BY Zenon DEF IsHit, TellsHit
<1>2. e.detail # None /\ e.detail.outlook.says = "hits limit"
  BY Zenon DEF Says
<1>3. PaceRatio(w, time, pacing) # None /\ e.detail.outlook = outlook
  BY <1>1, <1>2, Zenon
<1>4. HitsLimit(w, time, pacing) /\ outlook = Verdict("hits limit", 100, HitTime(hit, time))
  <2>1. /\ Verdict("limit reached", 100, None).says # "hits limit"
        /\ \A percent : Verdict("on pace to end", percent, None).says # "hits limit"
    BY DEF Verdict
  <2>2. outlook # Verdict("limit reached", 100, None)
        /\ \A percent : outlook # Verdict("on pace to end", percent, None)
    BY <1>2, <1>3, <2>1, Zenon
  <2>3. outlook # None
    BY <1>2, <1>3, Zenon DEF Says
  <2>4. \/ outlook = Verdict("limit reached", 100, None)
        \/ /\ HitsLimit(w, time, pacing)
           /\ outlook = Verdict("hits limit", 100, HitTime(hit, time))
        \/ outlook = None
        \/ outlook = Verdict("on pace to end", RoundPercent(ProjectedEnd(w, time, pacing)), None)
    BY <1>1, <1>3, OutlookTells
  <2>. QED  BY <2>2, <2>3, <2>4, Zenon
<1>5. e.detail.outlook.at = HitTime(hit, time)
  <2>1. \A at : Verdict("hits limit", 100, at).at = at
    BY DEF Verdict
  <2>. QED  BY <1>3, <1>4, <2>1, Zenon
<1>6. hit \in Int /\ time < w.resets_at /\ time <= hit /\ hit < w.resets_at
  <2>1. HitsLimit(w, time, pacing)
    BY <1>4
  <2>. QED  BY <1>1, <2>1, HitIsAhead, Zenon
<1>7. UsageLine(label, w, time).reset = "in"
      /\ UsageLine(label, w, time).time = ShortDuration(w.resets_at - time)
  <2>1. w.resets_at - time > 0
    <3>1. w.resets_at \in Int
      BY DEF Windows, WindowsOf
    <3>2. time < w.resets_at
      BY <1>6
    <3>. QED  BY <3>1, <3>2, PositiveDifference, Zenon
  <2>. QED  BY <2>1, Zenon DEF UsageLine
<1>. HIDE DEF hit
<1>. QED  BY <1>1, <1>5, <1>6, <1>7, Zenon

LEMMA HitIsBeforeReset ==
    ASSUME NEW hit \in Int, NEW time \in Int, NEW reset \in Int, time < reset, hit < reset
    PROVE  hit < time + ShortDuration(reset - time) + Hour
<1>1. reset - time \in Nat /\ Hour \in Int
  BY TrayModelAssumption
<1>2. /\ ShortDuration(reset - time) \in Int
      /\ reset - time < ShortDuration(reset - time) + Hour
  BY <1>1, CountdownIsClose
<1>. QED  BY <1>1, <1>2

\* A projected hit is read without a calendar: the time printed is neither past nor
\* after the reset announced above it (hit_time, usage_line).
THEOREM HitTimeIsReadable == Spec => []HitTimeReadable
<1>1. ReadingsInv => HitTimeReadable
  <2>. SUFFICES ASSUME ReadingsInv, NEW e \in Entries
                PROVE  Says(e, {"hits limit"}) =>
                          /\ now <= ReadTime(e.detail.outlook.at)
                          /\ e.usage.reset = "in"
                          /\ ReadTime(e.detail.outlook.at) < now + e.usage.time + Hour
    BY Zenon DEF HitTimeReadable
  <2>1. now \in Int /\ options \in DisplayOptions
    BY LinesAreOfWindows, Zenon
  <2>2. PICK w \in Windows : \E label : e = MenuEntry(label, w, now, options)
    BY LinesAreOfWindows, Zenon
  <2>3. PICK label : e = MenuEntry(label, w, now, options)
    BY <2>2, Zenon
  <2>4. IsHit(e) => TellsHit(e, w, now)
    BY <2>1, <2>3, HitReads
  <2>. SUFFICES ASSUME Says(e, {"hits limit"})
                PROVE  /\ now <= ReadTime(e.detail.outlook.at)
                       /\ e.usage.reset = "in"
                       /\ ReadTime(e.detail.outlook.at) < now + e.usage.time + Hour
    BY Zenon
  <2>5. PICK hit \in Int :
            /\ e.detail.outlook.at = HitTime(hit, now)
            /\ now <= hit /\ hit < w.resets_at /\ now < w.resets_at
            /\ e.usage.reset = "in" /\ e.usage.time = ShortDuration(w.resets_at - now)
    BY <2>4, Zenon DEF IsHit, TellsHit
  <2>6. w.resets_at \in Int
    BY <2>2, WindowReset, Zenon
  <2>7. hit < now + e.usage.time + Hour
    BY <2>1, <2>5, <2>6, HitIsBeforeReset, Zenon
  <2>8. ReadTime(e.detail.outlook.at) = hit
    BY <2>5, TimeIsReadBack, Zenon
  <2>. QED  BY <2>5, <2>7, <2>8, Zenon
<1>. QED  BY ReadingsInvariant, <1>1, PTL

-----------------------------------------------------------------------------
\* What is read off the icon

\* The parts of the gauges that bear no figure of their own.
IsGauge(p) == p.part \in {"track", "charge", "arc", "segment", "top", "bottom", "needle"}

LEMMA PartsOfIcon ==
    ASSUME NEW s, s.style \in IconStyles, NEW p \in Render(s).drawing
    PROVE  p = PrimaryLabel(s) \/ p \in Badge(s) \/ IsGauge(p)
<1>1. p \in Artwork(s) \/ p \in Badge(s)
  BY DEF Render
<1>2. \A name, fill, ink : Part(name, fill, ink).part = name
  BY DEF Part
<1>3. \A name, fill, ink : p \in Filled(name, fill, ink) => p.part = name
  BY <1>2 DEF Filled
<1>4. p \in BatterySvg(s) => p = PrimaryLabel(s) \/ IsGauge(p)
  BY <1>2, <1>3 DEF BatterySvg, IsGauge
<1>5. p \in CircularSvg(s) => p = PrimaryLabel(s) \/ IsGauge(p)
  BY <1>2, <1>3 DEF CircularSvg, IsGauge
<1>6. p \in MinimalSvg(s) => p = PrimaryLabel(s)
  BY DEF MinimalSvg
<1>7. p \in SegmentsSvg(s) => IsGauge(p)
  BY <1>2 DEF SegmentsSvg, IsGauge
<1>8. p \in DualBarSvg(s) => p = PrimaryLabel(s) \/ IsGauge(p)
  BY <1>2, <1>3 DEF DualBarSvg, IsGauge
<1>9. p \in GaugeSvg(s) => IsGauge(p)
  BY <1>2, <1>3 DEF GaugeSvg, IsGauge
<1>10. \/ s.style = "battery" /\ Artwork(s) = BatterySvg(s)
       \/ s.style = "circular" /\ Artwork(s) = CircularSvg(s)
       \/ s.style = "minimal" /\ Artwork(s) = MinimalSvg(s)
       \/ s.style = "segments" /\ Artwork(s) = SegmentsSvg(s)
       \/ s.style = "dual_bar" /\ Artwork(s) = DualBarSvg(s)
       \/ s.style = "gauge" /\ Artwork(s) = GaugeSvg(s)
  BY DEF Artwork, IconStyles
<1>. QED  BY <1>1, <1>4, <1>5, <1>6, <1>7, <1>8, <1>9, <1>10, Zenon

\* A number is the percentage of the state, a ratio that of its pace, and a badge
\* tells the kind of its pace.
LEMMA FiguresOfIcon ==
    ASSUME NEW s, s.style \in IconStyles, NEW p \in Render(s).drawing
    PROVE  /\ p.part = "number" => p.fill = s.percent
           /\ p.part = "ratio" => p.fill = PaceRatioKey(s)
           /\ p.part = "flame" => s.pace_kind # None /\ s.pace_kind = "hot"
           /\ p.part = "snowflake" => s.pace_kind # None /\ s.pace_kind # "hot"
<1>1. CASE p = PrimaryLabel(s)
  BY <1>1 DEF PrimaryLabel
<1>2. CASE p \in Badge(s)
  BY <1>2 DEF Badge
<1>3. CASE IsGauge(p)
  BY <1>3 DEF IsGauge
<1>. QED  BY <1>1, <1>2, <1>3, PartsOfIcon

\* What the gauge of a state shows, and of what.
CostPercent(spend) ==
    LET fraction == FractionUsed(spend) IN [num |-> 100 * fraction.num, den |-> fraction.den]

LEMMA IconReads ==
    ASSUME NEW m, NEW snapshot, snapshot = m.snapshot, NEW time, NEW chosen,
           NEW s, s = IconState(m, time, chosen)
    PROVE  /\ s.style = chosen.style
           /\ s.percent =
                 IF snapshot = None THEN 0
                 ELSE IF Effective(chosen.usage_mode, snapshot) # "cost"
                 THEN RoundPercent(Percent(PrimaryUtilization(snapshot)))
                 ELSE IF snapshot.spend = None THEN 0
                 ELSE IF FractionUsed(snapshot.spend) = None THEN 0
                 ELSE RoundPercent(CostPercent(snapshot.spend))
           /\ s.pace_kind # None =>
                 /\ snapshot # None /\ Effective(chosen.usage_mode, snapshot) # "cost"
                 /\ chosen.pace_tracking_enabled
                 /\ \E signal : /\ signal = PaceSignal(snapshot, time, chosen.weekly_pace_days)
                                /\ signal # None
                                /\ s.pace_kind = signal.kind /\ s.pace_ratio = signal.ratio
<1>1. /\ EmptyIcon(chosen).style = chosen.style /\ EmptyIcon(chosen).percent = 0
      /\ EmptyIcon(chosen).pace_kind = None
  BY DEF EmptyIcon
<1>2. /\ CostIcon(snapshot.spend, chosen).style = chosen.style
      /\ CostIcon(snapshot.spend, chosen).pace_kind = None
      /\ CostIcon(snapshot.spend, chosen).percent =
            IF FractionUsed(snapshot.spend) = None THEN 0
            ELSE RoundPercent(CostPercent(snapshot.spend))
  BY DEF CostIcon, EmptyIcon, CostPercent
<1>3. /\ FromSnapshot(snapshot, time, chosen).style = chosen.style
      /\ FromSnapshot(snapshot, time, chosen).pace_kind = None
      /\ FromSnapshot(snapshot, time, chosen).percent =
            RoundPercent(Percent(PrimaryUtilization(snapshot)))
  BY DEF FromSnapshot, EmptyIcon
<1>4. ASSUME NEW ratio, NEW kind
      PROVE  LET icon_ == WithPace(FromSnapshot(snapshot, time, chosen), ratio, kind)
             IN  /\ icon_.style = chosen.style /\ icon_.pace_kind = kind
                 /\ icon_.pace_ratio = ratio
                 /\ icon_.percent = RoundPercent(Percent(PrimaryUtilization(snapshot)))
  BY DEF WithPace, FromSnapshot, EmptyIcon
<1>. DEFINE signal == PaceSignal(snapshot, time, chosen.weekly_pace_days)
            ratio == IconRatio(snapshot, time, chosen.weekly_pace_days)
            paced == PaceFirstIcon(snapshot, time, chosen)
<1>5. /\ paced.style = chosen.style
      /\ paced.percent = RoundPercent(Percent(PrimaryUtilization(snapshot)))
      /\ paced.pace_kind # None => /\ signal # None /\ paced.pace_kind = signal.kind
                                   /\ paced.pace_ratio = signal.ratio
  <2>1. CASE ratio = None
    BY <1>3, <2>1 DEF PaceFirstIcon
  <2>2. CASE ratio # None
    <3>1. paced = WithPace(FromSnapshot(snapshot, time, chosen), ratio,
                           IF signal = None THEN None ELSE signal.kind)
      BY <2>2 DEF PaceFirstIcon
    <3>2. signal # None => ratio = signal.ratio
      BY DEF IconRatio
    <3>. HIDE DEF signal, ratio, paced
    <3>. QED  BY <1>4, <3>1, <3>2
  <2>. QED  BY <2>1, <2>2
<1>. HIDE DEF signal, ratio, paced
<1>6. \/ snapshot = None /\ s = EmptyIcon(chosen)
      \/ /\ snapshot # None /\ Effective(chosen.usage_mode, snapshot) = "cost"
         /\ s = IF snapshot.spend = None THEN EmptyIcon(chosen) ELSE CostIcon(snapshot.spend, chosen)
      \/ /\ snapshot # None /\ Effective(chosen.usage_mode, snapshot) # "cost"
         /\ IF IconIsPaceFirst(chosen) THEN s = paced ELSE s = FromSnapshot(snapshot, time, chosen)
  BY DEF IconState, paced
<1>. QED  BY <1>1, <1>2, <1>3, <1>5, <1>6 DEF IconIsPaceFirst, signal

-----------------------------------------------------------------------------
\* The icon and the menu

\* What a meter that is not shown by cost lists: every headline window, first the
\* session; anything else is a scoped limit.
LEMMA HeadlinesAreListed ==
    ASSUME ReadingsInv, broadcasts # 0, meter.snapshot # None,
           Effective(options.usage_mode, meter.snapshot) # "cost"
    PROVE  /\ CostsShown = {}
           /\ \A w \in {meter.snapshot.five_hour, meter.snapshot.seven_day} \ {None} :
                 /\ w \in Windows
                 /\ MenuEntry(<<w.window>>, w, now, options) \in HeadlineEntries
           /\ meter.snapshot.five_hour # None =>
                 menu.usage_lines.windows[1] =
                     MenuEntry(<<meter.snapshot.five_hour.window>>, meter.snapshot.five_hour, now, options)
           /\ meter.snapshot.five_hour = None /\ meter.snapshot.seven_day # None =>
                 menu.usage_lines.windows[1] =
                     MenuEntry(<<meter.snapshot.seven_day.window>>, meter.snapshot.seven_day, now, options)
<1>. DEFINE snapshot == meter.snapshot
            windows == UsageLines(snapshot, now, options).windows
<1>1. menu = MenuModel(meter, now, options) /\ snapshot \in Snapshots
  BY DEF ReadingsInv, ShownIsCurrent, ReadingsTypeOK, Meters, Optional
<1>2. menu.usage_lines = UsageLines(snapshot, now, options)
  BY <1>1 DEF MenuModel
<1>3. CostsShown = {}
  <2>1. menu.usage_lines.cost = <<>>
    BY <1>2 DEF UsageLines
  <2>. QED  BY <2>1 DEF CostsShown
<1>4. /\ snapshot.five_hour # None =>
            /\ 1 \in DOMAIN windows
            /\ windows[1] = MenuEntry(<<snapshot.five_hour.window>>, snapshot.five_hour, now, options)
      /\ snapshot.seven_day # None =>
            \E i \in DOMAIN windows :
                /\ windows[i] = MenuEntry(<<snapshot.seven_day.window>>, snapshot.seven_day, now, options)
                /\ snapshot.five_hour = None => i = 1
  BY <1>1, MenuLines
<1>5. \A label, w : MenuEntry(<<label>>, w, now, options).usage.label = <<label>>
  BY LineReads
<1>6. menu.usage_lines.windows = windows
  BY <1>2
<1>. HIDE DEF windows
<1>7. ASSUME NEW w \in {snapshot.five_hour, snapshot.seven_day} \ {None}
      PROVE  w \in Windows /\ MenuEntry(<<w.window>>, w, now, options) \in HeadlineEntries
  <2>1. w \in Windows
    BY <1>1 DEF Snapshots, Optional, WindowsOf, Windows, LimitWindows
  <2>2. \E i \in DOMAIN windows : windows[i] = MenuEntry(<<w.window>>, w, now, options)
    BY <1>4
  <2>3. MenuEntry(<<w.window>>, w, now, options) \in Entries
    BY <1>6, <2>2 DEF Entries
  <2>4. Len(MenuEntry(<<w.window>>, w, now, options).usage.label) = 1
    BY <1>5
  <2>. QED  BY <2>1, <2>3, <2>4 DEF HeadlineEntries
<1>. QED  BY <1>3, <1>4, <1>6, <1>7

LEMMA HeadlinesAreOfWindows ==
    ASSUME ReadingsInv, NEW e \in HeadlineEntries
    PROVE  \E w \in {meter.snapshot.five_hour, meter.snapshot.seven_day} \ {None} :
              e = MenuEntry(<<w.window>>, w, now, options)
<1>1. e \in Entries /\ Len(e.usage.label) = 1
  BY DEF HeadlineEntries
<1>2. e \in AllOf(meter.snapshot, now, options)
  BY <1>1, LinesAreOfWindows
<1>3. e \notin ScopedOf(meter.snapshot, now, options)
  <2>1. ASSUME NEW name, NEW window, NEW w
        PROVE  Len(MenuEntry(<<name, window>>, w, now, options).usage.label) # 1
    <3>1. MenuEntry(<<name, window>>, w, now, options).usage.label = <<name, window>>
      BY LineReads
    <3>2. Len(<<name, window>>) = 2
      OBVIOUS
    <3>. QED  BY <3>1, <3>2
  <2>. SUFFICES ASSUME e \in ScopedOf(meter.snapshot, now, options) PROVE FALSE
    OBVIOUS
  <2>2. PICK i \in DOMAIN meter.snapshot.scoped :
            e = MenuEntry(<<meter.snapshot.scoped[i].display_name, meter.snapshot.scoped[i].usage.window>>,
                          meter.snapshot.scoped[i].usage, now, options)
    BY DEF ScopedOf
  <2>3. Len(e.usage.label) # 1
    BY <2>1, <2>2
  <2>. QED  BY <1>1, <2>3
<1>. QED  BY <1>2, <1>3 DEF AllOf, HeadlinesOf

\* What is exported of a snapshot, whatever is named after Sonnet.
LEMMA ExportReads ==
    ASSUME NEW snapshot, NEW payload, payload = ExportPayload(snapshot)
    PROVE  /\ payload.session_usage = ExportLimit(snapshot.five_hour)
           /\ payload.weekly_usage = ExportLimit(snapshot.seven_day)
           /\ DOMAIN payload.scoped_usage = DOMAIN snapshot.scoped
           /\ \A i \in DOMAIN snapshot.scoped :
                 payload.scoped_usage[i].limit = ExportLimit(snapshot.scoped[i].usage)
BY DEF ExportPayload

LEMMA LimitIsExported ==
    ASSUME NEW w \in Windows
    PROVE  ExportLimit(w) # None /\ ExportLimit(w).utilization = w.utilization
<1>1. w # None
  BY NoneIsNoLimit
<1>2. [utilization |-> w.utilization, reset_at |-> w.resets_at] \in ExportedLimits
  BY DEF ExportedLimits, Windows, WindowsOf
<1>. QED  BY <1>1, <1>2, NoneIsNoLimit DEF ExportLimit

\* A number on the icon is the percentage of the menu's first headline window, or that
\* of the spend, never the allowance's on an account shown by cost; without either it
\* is a scoped limit's, which is exported.  A percentage in the menu is always one of
\* the exported file's.
THEOREM SurfacesDoAgree == Spec => []SurfacesAgree
<1>. DEFINE snapshot == meter.snapshot
<1>1. ASSUME ReadingsInv, icon # None, NEW p \in icon.drawing, p.part = "number", p.fill > 0
      PROVE  \/ \E c \in CostsShown : c.percent = p.fill
             \/ HeadlineEntries # {} /\ menu.usage_lines.windows[1].usage.percent = p.fill
             \/ /\ HeadlineEntries = {} /\ CostsShown = {} /\ exported.scoped_usage # <<>>
                /\ options.usage_mode # "cost"
  <2>. DEFINE s == IconState(meter, now, options)
  <2>1. /\ broadcasts # 0 /\ icon = Render(s) /\ menu = MenuModel(meter, now, options)
        /\ options \in DisplayOptions /\ snapshot \in Optional(Snapshots)
        /\ snapshot # None => exported = ExportPayload(snapshot)
    BY <1>1 DEF ReadingsInv, ShownIsCurrent, ReadingsTypeOK, ExportIsCurrent, Meters
  <2>2. s.style \in IconStyles
    BY <2>1, IconReads DEF DisplayOptions
  <2>3. p.fill = s.percent
    <3>. HIDE DEF s
    <3>. QED  BY <1>1, <2>1, <2>2, FiguresOfIcon
  <2>4. s.percent =
           IF snapshot = None THEN 0
           ELSE IF Effective(options.usage_mode, snapshot) # "cost"
           THEN RoundPercent(Percent(PrimaryUtilization(snapshot)))
           ELSE IF snapshot.spend = None THEN 0
           ELSE IF FractionUsed(snapshot.spend) = None THEN 0
           ELSE RoundPercent(CostPercent(snapshot.spend))
    BY IconReads
  <2>. HIDE DEF s
  <2>5. snapshot # None /\ snapshot \in Snapshots /\ exported = ExportPayload(snapshot)
    BY <1>1, <2>1, <2>3, <2>4 DEF Optional
  <2>6. CASE Effective(options.usage_mode, snapshot) = "cost"
    <3>1. /\ snapshot.spend # None /\ FractionUsed(snapshot.spend) # None
          /\ p.fill = RoundPercent(CostPercent(snapshot.spend))
      BY <1>1, <2>3, <2>4, <2>5, <2>6
    <3>2. snapshot.spend.used # None
      BY <3>1 DEF FractionUsed
    <3>3. menu.usage_lines.cost = CostLines(snapshot.spend)
      BY <2>1, <2>5, <2>6, <3>1 DEF MenuModel, UsageLines
    <3>4. /\ 1 \in DOMAIN CostLines(snapshot.spend)
          /\ CostLines(snapshot.spend)[1].percent = RoundPercent(CostPercent(snapshot.spend))
      BY <3>1, <3>2 DEF CostLines, CostPercent
    <3>. QED  BY <2>1, <3>1, <3>3, <3>4 DEF CostsShown
  <2>7. CASE Effective(options.usage_mode, snapshot) # "cost"
    <3>1. p.fill = RoundPercent(Percent(PrimaryUtilization(snapshot)))
      BY <2>3, <2>4, <2>5, <2>7
    <3>2. /\ CostsShown = {}
          /\ \A w \in {snapshot.five_hour, snapshot.seven_day} \ {None} :
                MenuEntry(<<w.window>>, w, now, options) \in HeadlineEntries
          /\ snapshot.five_hour # None =>
                menu.usage_lines.windows[1] =
                    MenuEntry(<<snapshot.five_hour.window>>, snapshot.five_hour, now, options)
          /\ snapshot.five_hour = None /\ snapshot.seven_day # None =>
                menu.usage_lines.windows[1] =
                    MenuEntry(<<snapshot.seven_day.window>>, snapshot.seven_day, now, options)
      BY <1>1, <2>1, <2>5, <2>7, HeadlinesAreListed
    <3>3. \A label, w : MenuEntry(<<label>>, w, now, options).usage.percent =
                            RoundPercent(Percent(w.utilization))
      BY LineReads
    <3>4. CASE snapshot.five_hour # None
      <4>1. PrimaryUtilization(snapshot) = snapshot.five_hour.utilization
        BY <3>4 DEF PrimaryUtilization
      <4>2. snapshot.five_hour \in {snapshot.five_hour, snapshot.seven_day} \ {None}
        BY <3>4
      <4>3. HeadlineEntries # {}
        BY <3>2, <4>2
      <4>4. menu.usage_lines.windows[1].usage.percent =
                RoundPercent(Percent(snapshot.five_hour.utilization))
        <5>1. menu.usage_lines.windows[1] =
                  MenuEntry(<<snapshot.five_hour.window>>, snapshot.five_hour, now, options)
          BY <3>2, <3>4
        <5>. QED  BY <3>3, <5>1
      <4>. QED  BY <3>1, <4>1, <4>3, <4>4
    <3>5. CASE snapshot.five_hour = None /\ snapshot.seven_day # None
      <4>1. PrimaryUtilization(snapshot) = snapshot.seven_day.utilization
        BY <3>5 DEF PrimaryUtilization
      <4>2. snapshot.seven_day \in {snapshot.five_hour, snapshot.seven_day} \ {None}
        BY <3>5
      <4>3. HeadlineEntries # {}
        BY <3>2, <4>2
      <4>4. menu.usage_lines.windows[1].usage.percent =
                RoundPercent(Percent(snapshot.seven_day.utilization))
        <5>1. menu.usage_lines.windows[1] =
                  MenuEntry(<<snapshot.seven_day.window>>, snapshot.seven_day, now, options)
          BY <3>2, <3>5
        <5>. QED  BY <3>3, <5>1
      <4>. QED  BY <3>1, <4>1, <4>3, <4>4
    <3>6. CASE snapshot.five_hour = None /\ snapshot.seven_day = None
      <4>1. HeadlineEntries = {}
        BY <1>1, <3>6, HeadlinesAreOfWindows
      <4>2. snapshot.scoped # <<>>
        <5>. SUFFICES ASSUME snapshot.scoped = <<>> PROVE FALSE
          OBVIOUS
        <5>1. ScopedUsages(snapshot) = {}
          BY DEF ScopedUsages
        <5>2. PrimaryUtilization(snapshot) = 0
          BY <3>6, <5>1 DEF PrimaryUtilization
        <5>3. RoundPercent(Percent(0)) = 0
          BY DEF RoundPercent, Percent, Rounded, Nearest, HalfUp, Tie, AtMost
        <5>. QED  BY <1>1, <3>1, <5>2, <5>3
      <4>3. exported.scoped_usage # <<>>
        <5>1. snapshot.scoped \in Seq(ScopedLimits)
          BY <2>5 DEF Snapshots
        <5>2. DOMAIN snapshot.scoped # {}
          BY <4>2, <5>1
        <5>3. DOMAIN exported.scoped_usage = DOMAIN snapshot.scoped
          BY <2>5, ExportReads
        <5>. QED  BY <5>2, <5>3
      <4>4. options.usage_mode # "cost"
        BY <2>7 DEF Effective
      <4>. QED  BY <3>2, <4>1, <4>3, <4>4
    <3>. QED  BY <3>4, <3>5, <3>6
  <2>. QED  BY <2>6, <2>7
<1>2. ASSUME ReadingsInv, NEW e \in Entries
      PROVE  \E limit \in {exported.session_usage, exported.weekly_usage} \cup
                          {exported.scoped_usage[i].limit : i \in DOMAIN exported.scoped_usage} :
                 limit # None /\ RoundPercent(Percent(limit.utilization)) = e.usage.percent
  <2>1. snapshot \in Snapshots /\ e \in AllOf(snapshot, now, options)
    BY <1>2, LinesAreOfWindows
  <2>2. /\ exported.session_usage = ExportLimit(snapshot.five_hour)
        /\ exported.weekly_usage = ExportLimit(snapshot.seven_day)
        /\ DOMAIN exported.scoped_usage = DOMAIN snapshot.scoped
        /\ \A i \in DOMAIN snapshot.scoped :
              exported.scoped_usage[i].limit = ExportLimit(snapshot.scoped[i].usage)
    <3>1. snapshot # None
      BY <1>2, LinesAreOfWindows
    <3>2. exported = ExportPayload(snapshot)
      BY <1>2, <3>1 DEF ReadingsInv, ExportIsCurrent
    <3>. QED  BY <3>2, ExportReads
  <2>3. ASSUME NEW w \in Windows, NEW label, e = MenuEntry(label, w, now, options)
        PROVE  /\ ExportLimit(w) # None
               /\ RoundPercent(Percent(ExportLimit(w).utilization)) = e.usage.percent
    BY <2>3, LineReads, LimitIsExported
  <2>4. CASE e \in HeadlinesOf(snapshot, now, options)
    <3>1. PICK w \in {snapshot.five_hour, snapshot.seven_day} \ {None} :
              e = MenuEntry(<<w.window>>, w, now, options)
      BY <2>4 DEF HeadlinesOf
    <3>2. w \in Windows
      BY <2>1 DEF Snapshots, Optional, WindowsOf, Windows, LimitWindows
    <3>. QED  BY <2>2, <2>3, <3>1, <3>2
  <2>5. CASE e \in ScopedOf(snapshot, now, options)
    <3>1. PICK i \in DOMAIN snapshot.scoped :
              e = MenuEntry(<<snapshot.scoped[i].display_name, snapshot.scoped[i].usage.window>>,
                            snapshot.scoped[i].usage, now, options)
      BY <2>5 DEF ScopedOf
    <3>2. snapshot.scoped[i].usage \in Windows
      <4>1. snapshot.scoped \in Seq(ScopedLimits)
        BY <2>1 DEF Snapshots
      <4>2. snapshot.scoped[i] \in ScopedLimits
        BY <4>1
      <4>. QED  BY <4>2 DEF ScopedLimits
    <3>. QED  BY <2>2, <2>3, <3>1, <3>2
  <2>. QED  BY <2>1, <2>4, <2>5 DEF AllOf
<1>3. ReadingsInv => SurfacesAgree
  <2>. SUFFICES ASSUME ReadingsInv PROVE SurfacesAgree
    OBVIOUS
  <2>. QED  BY <1>1, <1>2 DEF SurfacesAgree
<1>. QED  BY ReadingsInvariant, <1>3, PTL

-----------------------------------------------------------------------------
\* The badge and the menu

\* The window a signal is of: a flame's is ahead of its pace; a snowflake's is the
\* week, well behind it while no session is ahead.
LEMMA SignalIsOfAWindow ==
    ASSUME NEW snapshot, NEW time, NEW days,
           NEW signal, signal = PaceSignal(snapshot, time, days), signal # None
    PROVE  \E w \in {snapshot.five_hour, snapshot.seven_day} \ {None} :
              LET ratio == PaceRatio(w, time, PacingDuration(w.window, days))
              IN  /\ ratio # None /\ signal.ratio = ratio
                  /\ \/ signal.kind = "hot" /\ Above(ratio, RiskThreshold)
                     \/ /\ signal.kind = "cold" /\ Below(ratio, UnderuseThreshold)
                        /\ w = snapshot.seven_day
                        /\ ~IsHot(WindowRatio(snapshot.five_hour, time, days))
<1>. DEFINE session == WindowRatio(snapshot.five_hour, time, days)
            weekly == WindowRatio(snapshot.seven_day, time, days)
<1>1. \A w : WindowRatio(w, time, days) # None =>
                /\ w # None
                /\ WindowRatio(w, time, days) = PaceRatio(w, time, PacingDuration(w.window, days))
  BY DEF WindowRatio
<1>2. \A kind, w : /\ MakeSignal(kind, w, time, days).kind = kind
                   /\ MakeSignal(kind, w, time, days).ratio = WindowRatio(w, time, days)
  BY DEF MakeSignal
<1>3. \/ IsHot(session) /\ signal = MakeSignal("hot", snapshot.five_hour, time, days)
      \/ IsHot(weekly) /\ signal = MakeSignal("hot", snapshot.seven_day, time, days)
      \/ /\ IsCold(weekly) /\ ~IsHot(session)
         /\ signal = MakeSignal("cold", snapshot.seven_day, time, days)
  BY DEF PaceSignal
<1>. QED  BY <1>1, <1>2, <1>3 DEF IsHot, IsCold

\* A session at its limit is always ahead of its pace, unlike a week, which may have
\* used up its paced days.
LEMMA FullSessionIsAhead ==
    ASSUME NEW w \in WindowsOf({"five_hour"}), NEW time \in Int, NEW days, w.utilization >= 100,
           PaceRatio(w, time, PacingDuration(w.window, days)) # None
    PROVE  Above(PaceRatio(w, time, PacingDuration(w.window, days)), RiskThreshold)
<1>. DEFINE e == Elapsed(w, time)
            pacing == Duration(w.window)
<1>1. /\ w.window \in LimitWindows /\ PacingDuration(w.window, days) = pacing
      /\ w.utilization \in Nat /\ w.resets_at \in Int
  BY DEF WindowsOf, LimitWindows, PacingDuration
<1>2. pacing \in Nat \ {0} /\ e \in Int
  BY <1>1, DurationIsPositive DEF Elapsed
<1>3. Running(w, time) /\ ~InGrace(w, time, pacing) /\ 0 < e
  BY <1>1 DEF PaceRatio, ExpectedUsage, Running
<1>4. e < pacing
  BY <1>1, <1>2, <1>3 DEF Running, Elapsed
<1>5. PaceRatio(w, time, pacing) = [num |-> 100 * pacing, den |-> 100 * e]
  <2>1. AtMost(e, pacing) = e /\ AtMost(w.utilization, 100) = 100
    BY <1>1, <1>2, <1>4 DEF AtMost
  <2>2. ExpectedUsage(w, time, pacing) = [num |-> 100 * e, den |-> pacing]
    BY <1>3, <2>1 DEF ExpectedUsage
  <2>3. ExpectedUsage(w, time, pacing) # None
    BY <1>2, <1>3, <2>2, NoneAssumption DEF Quotients
  <2>. QED  BY <2>1, <2>2, <2>3 DEF PaceRatio
<1>. HIDE DEF e, pacing
<1>6. 100 * (100 * pacing) > 100 * (100 * e)
  BY <1>2, <1>4
<1>. QED  BY <1>1, <1>5, <1>6 DEF Above, RiskThreshold

\* The line of the window a signal is of explains it.
LEMMA SignalIsExplained ==
    ASSUME ReadingsInv, broadcasts # 0, meter.snapshot # None,
           Effective(options.usage_mode, meter.snapshot) # "cost", options.pace_tracking_enabled,
           NEW signal, signal = PaceSignal(meter.snapshot, now, options.weekly_pace_days),
           signal # None
    PROVE  /\ \E e \in HeadlineEntries :
                 /\ e.detail # None /\ e.detail.ratio = Tenths(signal.ratio)
                 /\ signal.kind = "hot" <=> Says(e, RunsOut)
           /\ signal.kind # "hot" => \A e \in HeadlineEntries : ~Says(e, RunsOut)
<1>. DEFINE snapshot == meter.snapshot
            days == options.weekly_pace_days
            ratio(w) == PaceRatio(w, now, PacingDuration(w.window, days))
            hot(w) == w.utilization >= 100 \/ Above(ratio(w), RiskThreshold)
<1>1. /\ now \in Int /\ options \in DisplayOptions /\ days \in PaceDays
      /\ snapshot \in Snapshots
  BY DEF ReadingsInv, ReadingsTypeOK, Meters, Optional, DisplayOptions
<1>2. \A w \in {snapshot.five_hour, snapshot.seven_day} \ {None} :
          w \in Windows /\ MenuEntry(<<w.window>>, w, now, options) \in HeadlineEntries
  BY HeadlinesAreListed
<1>3. \A w \in Windows :
          LET e == MenuEntry(<<w.window>>, w, now, options)
          IN  /\ e.detail # None <=> ratio(w) # None
              /\ e.detail # None => e.detail.ratio = Tenths(ratio(w))
              /\ Says(e, RunsOut) <=> e.detail # None /\ hot(w)
  BY <1>1, RunningOutReads
<1>4. \A w \in Windows : ratio(w) # None =>
          /\ w.utilization \in Nat
          /\ ratio(w).num \in Nat /\ ratio(w).den \in Nat \ {0}
          /\ w.utilization >= 100 => ratio(w).num >= ratio(w).den
  <2>. TAKE w \in Windows
  <2>1. w.window \in LimitWindows /\ w.utilization \in Nat
    BY DEF Windows, WindowsOf
  <2>2. PacingDuration(w.window, days) \in Nat \ {0}
    BY <1>1, <2>1, PacingIsPositive
  <2>. QED  BY <1>1, <2>1, <2>2, RatioIsQuotient
<1>5. \A w \in Windows : ratio(w) # None /\ Below(ratio(w), UnderuseThreshold) => ~hot(w)
  <2>. TAKE w \in Windows
  <2>. HAVE ratio(w) # None /\ Below(ratio(w), UnderuseThreshold)
  <2>1. /\ w.utilization \in Nat /\ ratio(w).num \in Nat /\ ratio(w).den \in Nat \ {0}
        /\ w.utilization >= 100 => ratio(w).num >= ratio(w).den
    BY <1>4
  <2>. HIDE DEF ratio
  <2>. QED  BY <2>1 DEF Below, UnderuseThreshold, Above, RiskThreshold
<1>6. PICK w \in {snapshot.five_hour, snapshot.seven_day} \ {None} :
          /\ ratio(w) # None /\ signal.ratio = ratio(w)
          /\ \/ signal.kind = "hot" /\ Above(ratio(w), RiskThreshold)
             \/ /\ signal.kind = "cold" /\ Below(ratio(w), UnderuseThreshold)
                /\ w = snapshot.seven_day
                /\ ~IsHot(WindowRatio(snapshot.five_hour, now, days))
  BY SignalIsOfAWindow
<1>. DEFINE e == MenuEntry(<<w.window>>, w, now, options)
<1>7. /\ w \in Windows /\ e \in HeadlineEntries
      /\ e.detail # None /\ e.detail.ratio = Tenths(signal.ratio)
      /\ Says(e, RunsOut) <=> hot(w)
  BY <1>2, <1>3, <1>6
<1>8. signal.kind = "hot" <=> hot(w)
  <2>1. signal.kind = "hot" => hot(w)
    BY <1>6
  <2>2. signal.kind # "hot" => ~hot(w)
    BY <1>5, <1>6, <1>7
  <2>. QED  BY <2>1, <2>2
<1>9. ASSUME signal.kind # "hot", NEW other \in HeadlineEntries PROVE ~Says(other, RunsOut)
  <2>1. PICK v \in {snapshot.five_hour, snapshot.seven_day} \ {None} :
            other = MenuEntry(<<v.window>>, v, now, options)
    BY HeadlinesAreOfWindows
  <2>2. v \in Windows
    BY <1>2
  <2>3. SUFFICES ASSUME ratio(v) # None, hot(v) PROVE FALSE
    BY <1>3, <2>1, <2>2
  <2>4. CASE v = snapshot.seven_day
    <3>1. Below(ratio(v), UnderuseThreshold)
      BY <1>6, <1>9, <2>4
    <3>. QED  BY <1>5, <2>2, <2>3, <3>1
  <2>5. CASE v = snapshot.five_hour
    <3>1. ~Above(ratio(v), RiskThreshold)
      <4>1. WindowRatio(v, now, days) = ratio(v) /\ ~IsHot(WindowRatio(v, now, days))
        BY <1>6, <1>9, <2>1, <2>5 DEF WindowRatio
      <4>. QED  BY <2>3, <4>1 DEF IsHot
    <3>2. v \in WindowsOf({"five_hour"})
      BY <1>1, <2>1, <2>5 DEF Snapshots, Optional
    <3>3. v.utilization >= 100
      BY <2>3, <3>1
    <3>. QED  BY <1>1, <2>3, <3>1, <3>2, <3>3, FullSessionIsAhead
  <2>. QED  BY <2>1, <2>4, <2>5
<1>. HIDE DEF e, hot, ratio
<1>. QED  BY <1>7, <1>8, <1>9

\* The ratio a signal is of is a quotient, and its decimal keeps the sides of the
\* thresholds.
LEMMA SignalKeepsSides ==
    ASSUME NEW snapshot \in Snapshots, NEW time \in Int, NEW days \in PaceDays,
           NEW signal, signal = PaceSignal(snapshot, time, days), signal # None
    PROVE  /\ signal.kind = "hot" \/ signal.kind = "cold"
           /\ ~Below(signal.ratio, HeavyOveruseThreshold) => Tenths(signal.ratio) >= 12
           /\ signal.kind # "hot" => Tenths(signal.ratio) <= 8
<1>1. PICK w \in {snapshot.five_hour, snapshot.seven_day} \ {None} :
          LET ratio == PaceRatio(w, time, PacingDuration(w.window, days))
          IN  /\ ratio # None /\ signal.ratio = ratio
              /\ signal.kind = "hot" \/ signal.kind = "cold"
              /\ signal.kind # "hot" => Below(ratio, UnderuseThreshold)
  BY SignalIsOfAWindow
<1>2. w \in Windows /\ w.window \in LimitWindows
  BY <1>1 DEF Snapshots, Optional, WindowsOf, Windows, LimitWindows
<1>3. PacingDuration(w.window, days) \in Nat \ {0}
  BY <1>2, PacingIsPositive
<1>4. signal.ratio.num \in Nat /\ signal.ratio.den \in Nat \ {0}
  BY <1>1, <1>2, <1>3, RatioIsQuotient
<1>. QED  BY <1>1, <1>4, TenthsKeepSides

\* A flame on the icon is explained by a line of the menu that says its window runs out
\* and prints the same ratio; under a snowflake no headline window runs out; the prompt's
\* badge is explained by the line with its number, and by the number itself, which never
\* reads as 1.0 (PaceSignal::from_snapshot, icon_state, detail_line, pace_segment).
THEOREM BadgeIsAccountedFor == Spec => []BadgeIsExplained
<1>1. ASSUME ReadingsInv, prompt # None, prompt.pace # None
      PROVE  /\ IF prompt.pace.kind = "hot" THEN prompt.pace.ratio >= 12 ELSE prompt.pace.ratio <= 8
             /\ HeadlineEntries # {} =>
                   \E e \in HeadlineEntries :
                       /\ e.detail # None /\ e.detail.ratio = prompt.pace.ratio
                       /\ prompt.pace.kind = "hot" <=> Says(e, RunsOut)
  <2>. DEFINE signal == PaceSignal(meter.snapshot, now, options.weekly_pace_days)
  <2>1. /\ now \in Int /\ options.weekly_pace_days \in PaceDays
        /\ meter.snapshot # None /\ meter.snapshot \in Snapshots
        /\ prompt = Segment(meter.snapshot, now, options)
    BY <1>1 DEF ReadingsInv, ReadingsTypeOK, PromptIsCurrent, Meters, Optional, DisplayOptions
  <2>2. prompt.pace = PaceSegment(meter.snapshot, now, options)
    BY <2>1 DEF Segment
  <2>3. /\ options.pace_tracking_enabled /\ signal # None
        /\ ~(signal.kind = "hot" /\ Below(signal.ratio, HeavyOveruseThreshold))
        /\ prompt.pace.kind = signal.kind /\ prompt.pace.ratio = Tenths(signal.ratio)
    BY <1>1, <2>2 DEF PaceSegment
  <2>. HIDE DEF signal
  <2>4. /\ ~Below(signal.ratio, HeavyOveruseThreshold) => Tenths(signal.ratio) >= 12
        /\ signal.kind # "hot" => Tenths(signal.ratio) <= 8
    BY <2>1, <2>3, SignalKeepsSides DEF signal
  <2>5. ASSUME HeadlineEntries # {}
        PROVE  \E e \in HeadlineEntries :
                  /\ e.detail # None /\ e.detail.ratio = Tenths(signal.ratio)
                  /\ signal.kind = "hot" <=> Says(e, RunsOut)
    <3>1. PICK e \in Entries : TRUE
      BY <2>5 DEF HeadlineEntries
    <3>2. broadcasts # 0 /\ Effective(options.usage_mode, meter.snapshot) # "cost"
      BY <1>1, <3>1, LinesAreOfWindows
    <3>. QED  BY <1>1, <2>1, <2>3, <3>2, SignalIsExplained DEF signal
  <2>. QED  BY <2>3, <2>4, <2>5
<1>2. ASSUME ReadingsInv, icon # None, NEW p \in icon.drawing,
             p.part = "flame" \/ p.part = "snowflake"
      PROVE  \E signal :
                /\ \E e \in HeadlineEntries :
                      /\ e.detail # None /\ e.detail.ratio = Tenths(signal.ratio)
                      /\ signal.kind = "hot" <=> Says(e, RunsOut)
                /\ signal.kind # "hot" => \A e \in HeadlineEntries : ~Says(e, RunsOut)
                /\ p.part = "flame" => signal.kind = "hot"
                /\ p.part = "snowflake" => signal.kind # "hot"
                /\ \A q \in icon.drawing : q.part = "ratio" => q.fill = Tenths(signal.ratio)
  <2>. DEFINE s == IconState(meter, now, options)
  <2>1. broadcasts # 0 /\ icon = Render(s) /\ options \in DisplayOptions
    BY <1>2 DEF ReadingsInv, ShownIsCurrent, ReadingsTypeOK
  <2>2. /\ s.style = options.style
        /\ s.pace_kind # None =>
              /\ meter.snapshot # None /\ Effective(options.usage_mode, meter.snapshot) # "cost"
              /\ options.pace_tracking_enabled
              /\ \E signal : /\ signal = PaceSignal(meter.snapshot, now, options.weekly_pace_days)
                             /\ signal # None
                             /\ s.pace_kind = signal.kind /\ s.pace_ratio = signal.ratio
    BY IconReads
  <2>. HIDE DEF s
  <2>3. s.style \in IconStyles
    BY <2>1, <2>2 DEF DisplayOptions
  <2>4. /\ s.pace_kind # None
        /\ p.part = "flame" => s.pace_kind = "hot"
        /\ p.part = "snowflake" => s.pace_kind # "hot"
        /\ \A q \in icon.drawing : q.part = "ratio" => q.fill = PaceRatioKey(s)
    BY <1>2, <2>1, <2>3, FiguresOfIcon
  <2>5. PICK signal : /\ signal = PaceSignal(meter.snapshot, now, options.weekly_pace_days)
                      /\ signal # None
                      /\ s.pace_kind = signal.kind /\ s.pace_ratio = signal.ratio
    BY <2>2, <2>4
  <2>6. signal.ratio # None
    BY <2>5, SignalIsOfAWindow
  <2>7. PaceRatioKey(s) = Tenths(signal.ratio)
    BY <2>5, <2>6 DEF PaceRatioKey
  <2>8. /\ \E e \in HeadlineEntries :
              /\ e.detail # None /\ e.detail.ratio = Tenths(signal.ratio)
              /\ signal.kind = "hot" <=> Says(e, RunsOut)
        /\ signal.kind # "hot" => \A e \in HeadlineEntries : ~Says(e, RunsOut)
    BY <1>2, <2>1, <2>2, <2>4, <2>5, SignalIsExplained
  <2>. QED  BY <2>4, <2>5, <2>7, <2>8
<1>3. ReadingsInv => BadgeIsExplained
  <2>. SUFFICES ASSUME ReadingsInv PROVE BadgeIsExplained
    OBVIOUS
  <2>1. ASSUME Shows("flame")
        PROVE  \E e \in HeadlineEntries :
                  /\ Says(e, RunsOut)
                  /\ \A q \in icon.drawing : q.part = "ratio" => q.fill = e.detail.ratio
    <3>1. PICK p \in icon.drawing : icon # None /\ p.part = "flame"
      BY <2>1 DEF Shows
    <3>. QED  BY <1>2, <3>1
  <2>2. ASSUME Shows("snowflake") PROVE \A e \in HeadlineEntries : ~Says(e, RunsOut)
    <3>1. PICK p \in icon.drawing : icon # None /\ p.part = "snowflake"
      BY <2>2 DEF Shows
    <3>. QED  BY <1>2, <3>1
  <2>. QED  BY <1>1, <2>1, <2>2 DEF BadgeIsExplained
<1>. QED  BY ReadingsInvariant, <1>3, PTL

-----------------------------------------------------------------------------
\* The second implementation of the pace

\* Over one span the popover computes what Rust does.
LEMMA SamePace ==
    ASSUME NEW w \in Windows, NEW time \in Int, NEW pacing \in Nat \ {0}
    PROVE  /\ ExpectedPercent(w, time, pacing) = ExpectedUsage(w, time, pacing)
           /\ CardRatio(w, time, pacing) = PaceRatio(w, time, pacing)
           /\ EndPercent(w, time, pacing) = ProjectedEnd(w, time, pacing)
           /\ w.utilization < 100 =>
                 HitAt(w, time, pacing) =
                     IF HitsLimit(w, time, pacing) THEN LimitDate(w, time) ELSE None
<1>1. /\ w.window \in LimitWindows /\ w.utilization \in Nat /\ w.resets_at \in Int
      /\ Duration(w.window) \in Nat \ {0} /\ Elapsed(w, time) \in Int
  BY DurationIsPositive DEF Windows, WindowsOf, Elapsed
<1>2. WindowDuration(w.window) = Duration(w.window)
  BY <1>1 DEF WindowDuration, Duration, LimitWindows
<1>3. ElapsedMs(w, time) = IF w.resets_at <= time THEN None ELSE Elapsed(w, time)
  BY <1>2 DEF ElapsedMs, Elapsed
<1>4. HasElapsed(w, time) <=> Running(w, time)
  BY <1>1, <1>3, NoneAssumption DEF HasElapsed, Running
<1>5. CASE ~Running(w, time)
  <2>1. ExpectedPercent(w, time, pacing) = None /\ ExpectedUsage(w, time, pacing) = None
    BY <1>4, <1>5 DEF ExpectedPercent, ExpectedUsage
  <2>2. EndPercent(w, time, pacing) = None /\ ProjectedEnd(w, time, pacing) = None
    BY <1>4, <1>5 DEF EndPercent, ProjectedEnd
  <2>3. HitAt(w, time, pacing) = None /\ ~HitsLimit(w, time, pacing)
    BY <1>4, <1>5 DEF HitAt, HitsLimit
  <2>. QED  BY <2>1, <2>2, <2>3 DEF CardRatio, PaceRatio
<1>6. CASE Running(w, time)
  <2>1. ElapsedMs(w, time) = Elapsed(w, time) /\ 0 < Elapsed(w, time)
    BY <1>1, <1>3, <1>6 DEF Running
  <2>2. ExpectedPercent(w, time, pacing) = ExpectedUsage(w, time, pacing)
    <3>1. 20 * AtMost(Elapsed(w, time), pacing) < pacing <=> 20 * Elapsed(w, time) < pacing
      BY <1>1 DEF AtMost
    <3>. QED  BY <1>4, <1>6, <2>1, <3>1 DEF ExpectedPercent, ExpectedUsage, InGrace
  <2>3. CardRatio(w, time, pacing) = PaceRatio(w, time, pacing)
    <3>1. CASE ExpectedUsage(w, time, pacing) = None
      BY <2>2, <3>1 DEF CardRatio, PaceRatio
    <3>2. CASE ExpectedUsage(w, time, pacing) # None
      <4>1. ExpectedUsage(w, time, pacing).den = pacing
        BY <3>2 DEF ExpectedUsage
      <4>2. pacing * AtMost(w.utilization, 100) = AtMost(w.utilization, 100) * pacing
        BY <1>1 DEF AtMost
      <4>. QED  BY <2>2, <3>2, <4>1, <4>2 DEF CardRatio, PaceRatio
    <3>. QED  BY <3>1, <3>2
  <2>4. EndPercent(w, time, pacing) = ProjectedEnd(w, time, pacing)
    BY <1>2, <1>4, <1>6, <2>1 DEF EndPercent, ProjectedEnd, InGrace, Horizon
  <2>5. w.utilization < 100 =>
            HitAt(w, time, pacing) =
                IF HitsLimit(w, time, pacing) THEN LimitDate(w, time) ELSE None
    <3>1. AtLeast(pacing, Elapsed(w, time)) \in Int
      BY <1>1 DEF AtLeast
    <3>2. /\ 100 * Elapsed(w, time) \in Int
          /\ w.utilization * AtLeast(pacing, Elapsed(w, time)) \in Int
      BY <1>1, <3>1
    <3>3. ASSUME w.utilization < 100
          PROVE  HitsLimit(w, time, pacing) <=>
                    ~(\/ w.utilization >= 100 \/ w.utilization < MinUsageForProjection
                      \/ ~HasElapsed(w, time)
                      \/ 100 * Elapsed(w, time) >= w.utilization * AtLeast(pacing, Elapsed(w, time)))
      <4>1. w.utilization \in MinUsageForProjection..99 <=>
                ~(w.utilization >= 100 \/ w.utilization < MinUsageForProjection)
        BY <1>1 DEF MinUsageForProjection
      <4>. QED  BY <1>4, <1>6, <3>2, <4>1 DEF HitsLimit, Horizon
    <3>. QED  BY <1>2, <2>1, <3>3 DEF HitAt, LimitDate
  <2>. QED  BY <2>2, <2>3, <2>4, <2>5
<1>. QED  BY <1>5, <1>6

LEMMA SamePacing ==
    ASSUME NEW window \in LimitWindows, NEW id, NEW w, w.window = window, NEW days
    PROVE  CardPacing(id, w, days) = PacingDuration(window, days)
BY DEF CardPacing, PacingDuration, WeeklyPacingDuration, WindowDuration, Duration, LimitWindows

\* Without a ratio there is no rate either: nothing to project but a limit reached.
LEMMA NoRatioNoProjection ==
    ASSUME NEW w \in Windows, NEW time \in Int, NEW pacing \in Nat \ {0},
           pacing <= Duration(w.window), PaceRatio(w, time, pacing) = None
    PROVE  ~HitsLimit(w, time, pacing) /\ ProjectedEnd(w, time, pacing) = None
<1>1. /\ w.window \in LimitWindows /\ w.utilization \in Nat /\ w.resets_at \in Int
      /\ Duration(w.window) \in Nat \ {0} /\ Elapsed(w, time) \in Int
  BY DurationIsPositive DEF Windows, WindowsOf, Elapsed
<1>2. ExpectedUsage(w, time, pacing) = None
  <2>. SUFFICES ASSUME ExpectedUsage(w, time, pacing) # None PROVE FALSE
    OBVIOUS
  <2>1. /\ ExpectedUsage(w, time, pacing) =
              [num |-> 100 * AtMost(Elapsed(w, time), pacing), den |-> pacing]
        /\ 0 < Elapsed(w, time)
    BY DEF ExpectedUsage, Running
  <2>2. AtMost(w.utilization, 100) \in Nat /\ AtMost(Elapsed(w, time), pacing) \in Nat \ {0}
    BY <1>1, <2>1 DEF AtMost
  <2>3. AtMost(w.utilization, 100) * pacing \in Nat
        /\ 100 * AtMost(Elapsed(w, time), pacing) \in Nat \ {0}
    BY <2>2
  <2>4. PaceRatio(w, time, pacing) =
            [num |-> AtMost(w.utilization, 100) * pacing,
             den |-> 100 * AtMost(Elapsed(w, time), pacing)]
    BY <2>1 DEF PaceRatio
  <2>. QED  BY <2>3, <2>4, NoneAssumption DEF Quotients
<1>3. ~Running(w, time) \/ InGrace(w, time, pacing)
  <2>. SUFFICES ASSUME Running(w, time), ~InGrace(w, time, pacing) PROVE FALSE
    OBVIOUS
  <2>1. ExpectedUsage(w, time, pacing) =
            [num |-> 100 * AtMost(Elapsed(w, time), pacing), den |-> pacing]
    BY DEF ExpectedUsage
  <2>2. 100 * AtMost(Elapsed(w, time), pacing) \in Int
    BY <1>1 DEF AtMost
  <2>. QED  BY <1>2, <2>1, <2>2, NoneAssumption DEF Quotients
<1>4. InGrace(w, time, pacing) => InGrace(w, time, Duration(w.window)) /\ ~(w.utilization \in 2..99)
  BY <1>1 DEF InGrace, MinUsageForProjection
<1>. QED  BY <1>3, <1>4 DEF HitsLimit, ProjectedEnd, MinUsageForProjection

\* A row of the popover and the line of the menu that are of one window.
LEMMA RowReads ==
    ASSUME NEW id, NEW w \in Windows, NEW time \in Int, NEW chosen \in DisplayOptions,
           NEW pacing, pacing = PacingDuration(w.window, chosen.weekly_pace_days),
           NEW ratio, ratio = PaceRatio(w, time, pacing),
           NEW tracking, tracking = chosen.pace_tracking_enabled,
           NEW card, card = Card(id, w, time, chosen), NEW row, row = Row(card, time)
    PROVE  /\ card.percent = RoundPercent(Percent(w.utilization))
           /\ card.resets_at = w.resets_at
           /\ card.ratio = IF tracking THEN ratio ELSE None
           /\ card.expected = IF tracking THEN ExpectedUsage(w, time, pacing) ELSE None
           /\ card.pace_first => card.ratio # None
           /\ card.projection = IF tracking THEN Projection(w, time, pacing, card.ratio) ELSE None
           /\ row.primary = PrimaryMetric(card) /\ row.pace = PaceLine(card)
           /\ row.projection = card.projection
           /\ row.countdown = Countdown(w.resets_at, time)
<1>1. /\ w.window \in LimitWindows /\ chosen.weekly_pace_days \in PaceDays
  BY DEF Windows, WindowsOf, DisplayOptions
<1>2. pacing \in Nat \ {0} /\ CardPacing(id, w, chosen.weekly_pace_days) = pacing
  BY <1>1, PacingIsPositive, SamePacing
<1>3. /\ CardRatio(w, time, pacing) = ratio
      /\ ExpectedPercent(w, time, pacing) = ExpectedUsage(w, time, pacing)
  BY <1>2, SamePace
<1>4. /\ card.percent = RoundPercent(Percent(w.utilization))
      /\ card.resets_at = w.resets_at
      /\ card.ratio = IF tracking THEN ratio ELSE None
      /\ card.expected = IF tracking THEN ExpectedUsage(w, time, pacing) ELSE None
      /\ card.pace_first => card.ratio # None
      /\ card.projection = IF tracking THEN Projection(w, time, pacing, card.ratio) ELSE None
  BY <1>2, <1>3, Zenon DEF Card
<1>5. /\ row.primary = PrimaryMetric(card) /\ row.pace = PaceLine(card)
      /\ row.projection = card.projection /\ row.countdown = Countdown(card.resets_at, time)
  BY DEF Row
<1>. QED  BY <1>4, <1>5

\* In either layout a row shows the percentage once, and the ratio when there is one.
LEMMA FiguresOfRow ==
    ASSUME NEW card, NEW row, row.primary = PrimaryMetric(card), row.pace = PaceLine(card),
           card.pace_first => card.ratio # None, card.percent \in Int,
           card.ratio # None => FixedTenths(card.ratio) \in Int /\ RoundPercent(card.expected) \in Int
    PROVE  /\ Figures(row, "percent") = {card.percent}
           /\ card.ratio = None => row.pace = None
           /\ card.ratio # None => /\ Figures(row, "ratio") = {FixedTenths(card.ratio)}
                                   /\ row.pace.expected = RoundPercent(card.expected)
<1>1. \A says, value : Figure(says, value).says = says /\ Figure(says, value).value = value
  BY DEF Figure
<1>2. CASE card.ratio = None
  <2>1. row.pace = None /\ row.primary = Figure("percent", card.percent)
    BY <1>2 DEF PaceLine, PrimaryMetric
  <2>. QED  BY <1>1, <1>2, <2>1 DEF Figures
<1>3. CASE card.ratio # None
  <2>. DEFINE ratio == Figure("ratio", FixedTenths(card.ratio))
              percent == Figure("percent", card.percent)
  <2>1. \E figure \in {ratio, percent} :
            /\ row.pace = [figure |-> figure, expected |-> RoundPercent(card.expected)]
            /\ {row.primary, figure} = {ratio, percent}
    BY <1>3 DEF PaceLine, PrimaryMetric
  <2>2. PICK figure \in {ratio, percent} :
            /\ row.pace = [figure |-> figure, expected |-> RoundPercent(card.expected)]
            /\ {row.primary, figure} = {ratio, percent}
    BY <2>1
  <2>3. row.pace \in PaceLines
    <3>1. ratio \in [says : {"ratio", "percent"}, value : Int]
          /\ percent \in [says : {"ratio", "percent"}, value : Int]
      BY <1>3 DEF Figure
    <3>. HIDE DEF ratio, percent
    <3>. QED  BY <1>3, <2>2, <3>1 DEF PaceLines
  <2>4. row.pace # None /\ row.pace.figure = figure
        /\ row.pace.expected = RoundPercent(card.expected)
    BY <2>2, <2>3, NoneIsNoRow
  <2>5. {row.primary} \cup {row.pace.figure} = {ratio, percent}
    BY <2>2, <2>4
  <2>6. /\ ratio.says = "ratio" /\ ratio.value = FixedTenths(card.ratio)
        /\ percent.says = "percent" /\ percent.value = card.percent
    BY <1>1
  <2>. HIDE DEF ratio, percent
  <2>7. \A says : Figures(row, says) = {f.value : f \in {f \in {ratio, percent} : f.says = says}}
    BY <2>4, <2>5, Zenon DEF Figures
  <2>8. Figures(row, "percent") = {card.percent} /\ Figures(row, "ratio") = {FixedTenths(card.ratio)}
    BY <2>6, <2>7
  <2>. QED  BY <1>3, <2>4, <2>8
<1>. QED  BY <1>2, <1>3

LEMMA SameCountdown ==
    ASSUME NEW label, NEW w \in Windows, NEW time \in Int,
           NEW usage, usage = UsageLine(label, w, time)
    PROVE  Countdown(w.resets_at, time) = [reset |-> usage.reset, time |-> usage.time]
<1>1. w.resets_at - time \in Int /\ ResetSoonGrace \in Int
  BY TrayModelAssumption DEF Windows, WindowsOf
<1>2. CASE w.resets_at - time > 0
  BY <1>1, <1>2 DEF Countdown, UsageLine
<1>3. CASE ~(w.resets_at - time > 0) /\ w.resets_at - time > -ResetSoonGrace
  BY <1>1, <1>3 DEF Countdown, UsageLine
<1>4. CASE ~(w.resets_at - time > 0) /\ ~(w.resets_at - time > -ResetSoonGrace)
  BY <1>1, <1>4 DEF Countdown, UsageLine
<1>. QED  BY <1>2, <1>3, <1>4

LEMMA SameHitTime ==
    ASSUME NEW hit, NEW time PROVE HitClock(hit, time) = HitTime(hit, time)
BY DEF HitClock, HitTime

\* The cases of a projection.
LEMMA ProjectionReads ==
    ASSUME NEW w, NEW time, NEW pacing, NEW ratio
    PROVE  LET hit == HitAt(w, time, pacing)
               end == EndPercent(w, time, pacing)
               underused == w.window # "five_hour" /\ ratio # None /\ Below(ratio, UnderuseThreshold)
           IN  /\ w.utilization >= 100 =>
                     Projection(w, time, pacing, ratio) = [says |-> "limit reached"]
               /\ ~(w.utilization >= 100) /\ hit # None =>
                     Projection(w, time, pacing, ratio) =
                         [says |-> "hits limit", at |-> HitClock(hit, time)]
               /\ ~(w.utilization >= 100) /\ hit = None /\ end = None =>
                     Projection(w, time, pacing, ratio) = None
               /\ ~(w.utilization >= 100) /\ hit = None /\ end # None =>
                     Projection(w, time, pacing, ratio) =
                         [says |-> "on pace to end", percent |-> RoundPercent(end), unused |-> underused]
BY Zenon DEF Projection

LEMMA OutlookReads ==
    ASSUME NEW w, NEW time, NEW pacing
    PROVE  LET end == ProjectedEnd(w, time, pacing)
           IN  /\ w.utilization >= 100 =>
                     Outlook(w, time, pacing) = Verdict("limit reached", 100, None)
               /\ ~(w.utilization >= 100) /\ HitsLimit(w, time, pacing) =>
                     Outlook(w, time, pacing) =
                         Verdict("hits limit", 100, HitTime(LimitDate(w, time), time))
               /\ ~(w.utilization >= 100) /\ ~HitsLimit(w, time, pacing) /\ end = None =>
                     Outlook(w, time, pacing) = None
               /\ ~(w.utilization >= 100) /\ ~HitsLimit(w, time, pacing) /\ end # None =>
                     Outlook(w, time, pacing) = Verdict("on pace to end", RoundPercent(end), None)
BY Zenon DEF Outlook

\* The projection of an end, read.
EndsAt(percent, unused) == [says |-> "on pace to end", percent |-> percent, unused |-> unused]

LEMMA EndsAtReads ==
    \A percent, unused : percent \in Int /\ unused \in BOOLEAN =>
        /\ EndsAt(percent, unused) # None
        /\ EndsAt(percent, unused).says = "on pace to end"
        /\ EndsAt(percent, unused).percent = percent
<1>1. \A percent, unused : percent \in Int /\ unused \in BOOLEAN =>
          /\ EndsAt(percent, unused) \in Projections
          /\ EndsAt(percent, unused).says = "on pace to end"
          /\ EndsAt(percent, unused).percent = percent
  BY DEF EndsAt, Projections
<1>. QED  BY <1>1, NoneIsNoRow, Zenon

\* The line under a row says what the line of the menu says.
LEMMA SameOutlook ==
    ASSUME NEW w \in Windows, NEW time \in Int, NEW pacing \in Nat \ {0}, NEW ratio,
           pacing <= Duration(w.window),
           NEW projection, projection = Projection(w, time, pacing, ratio),
           NEW outlook, outlook = Outlook(w, time, pacing)
    PROVE  /\ PaceRatio(w, time, pacing) = None => projection \in {None, [says |-> "limit reached"]}
           /\ SameProjection(projection, outlook)
<1>1. /\ w.utilization \in Nat /\ (w.utilization >= 100 \/ w.utilization < 100)
         /\ (w.utilization < 100 => ~(w.utilization >= 100))
  BY DEF Windows, WindowsOf
<1>2. CASE w.utilization >= 100
  <2>1. projection = [says |-> "limit reached"] /\ outlook = Verdict("limit reached", 100, None)
    BY <1>2, ProjectionReads, OutlookReads, Zenon
  <2>2. projection # None
    <3>1. [says |-> "limit reached"] \in Projections
      BY DEF Projections
    <3>. QED  BY <2>1, <3>1, NoneIsNoRow
  <2>3. outlook # None
    BY <1>2, OutlookIsVerdict
  <2>4. projection.says = "limit reached" /\ outlook.says = "limit reached"
    <3>1. [says |-> "limit reached"].says = "limit reached"
      OBVIOUS
    <3>2. Verdict("limit reached", 100, None).says = "limit reached"
      BY DEF Verdict
    <3>. QED  BY <2>1, <3>1, <3>2, Zenon
  <2>. QED  BY <2>1, <2>2, <2>3, <2>4 DEF SameProjection
<1>3. CASE w.utilization < 100 /\ HitsLimit(w, time, pacing)
  <2>. DEFINE hit == LimitDate(w, time)
  <2>1. hit \in Int
    BY <1>3, HitIsAhead
  <2>2. HitAt(w, time, pacing) = hit /\ hit # None
    BY <1>3, <2>1, SamePace, NoneAssumption
  <2>3. /\ projection = [says |-> "hits limit", at |-> HitTime(hit, time)]
        /\ outlook = Verdict("hits limit", 100, HitTime(hit, time))
    <3>1. HitClock(hit, time) = HitTime(hit, time)
      BY SameHitTime
    <3>. HIDE DEF hit
    <3>2. projection = [says |-> "hits limit", at |-> HitTime(hit, time)]
      BY <1>1, <1>3, <2>2, <3>1, ProjectionReads, ZenonT(40)
    <3>3. outlook = Verdict("hits limit", 100, HitTime(hit, time))
      BY <1>1, <1>3, OutlookReads, Zenon DEF hit
    <3>. QED  BY <3>2, <3>3, Zenon
  <2>4. projection \in Projections
    <3>1. HitTime(hit, time) \in Clocks
      BY <2>1, HitTimeIsClock
    <3>2. \A at : at \in Clocks => [says |-> "hits limit", at |-> at] \in Projections
      BY DEF Projections
    <3>. QED  BY <2>3, <3>1, <3>2, Zenon
  <2>5. projection # None /\ outlook # None
    BY <1>3, <2>4, NoneIsNoRow, OutlookIsVerdict
  <2>6. projection.says = "hits limit" /\ projection.at = HitTime(hit, time)
    <3>1. \A at : /\ [says |-> "hits limit", at |-> at].says = "hits limit"
                  /\ [says |-> "hits limit", at |-> at].at = at
      OBVIOUS
    <3>. QED  BY <2>3, <3>1, Zenon
  <2>7. outlook.says = "hits limit" /\ outlook.at = HitTime(hit, time)
    <3>1. \A at : /\ Verdict("hits limit", 100, at).says = "hits limit"
                  /\ Verdict("hits limit", 100, at).at = at
      BY DEF Verdict
    <3>. QED  BY <2>3, <3>1, Zenon
  <2>8. PaceRatio(w, time, pacing) # None
    BY <1>3, NoRatioNoProjection
  <2>. QED  BY <2>5, <2>6, <2>7, <2>8 DEF SameProjection
<1>4. CASE w.utilization < 100 /\ ~HitsLimit(w, time, pacing)
  <2>. DEFINE end == ProjectedEnd(w, time, pacing)
  <2>1. HitAt(w, time, pacing) = None /\ EndPercent(w, time, pacing) = end
    BY <1>4, SamePace
  <2>2. CASE end = None
    <3>1. projection = None /\ outlook = None
      BY <1>1, <1>4, <2>1, <2>2, ProjectionReads, OutlookReads, ZenonT(40)
    <3>. QED  BY <3>1 DEF SameProjection
  <2>3. CASE end # None
    <3>1. PICK unused \in BOOLEAN :
              projection = EndsAt(RoundPercent(end), unused)
      <4>. DEFINE underused == w.window # "five_hour" /\ ratio # None /\ Below(ratio, UnderuseThreshold)
      <4>1. projection = [says |-> "on pace to end", percent |-> RoundPercent(end),
                          unused |-> underused]
        <5>1. EndPercent(w, time, pacing) # None
          BY <2>1, <2>3
        <5>2. projection = [says |-> "on pace to end",
                            percent |-> RoundPercent(EndPercent(w, time, pacing)),
                            unused |-> underused]
          BY <1>1, <1>4, <2>1, <5>1, ProjectionReads, ZenonT(40)
        <5>3. RoundPercent(EndPercent(w, time, pacing)) = RoundPercent(end)
          BY <2>1
        <5>. QED  BY <5>2, <5>3, Zenon
      <4>2. underused \in BOOLEAN
        BY DEF Below
      <4>3. projection = EndsAt(RoundPercent(end), underused)
        BY <4>1, Zenon DEF EndsAt
      <4>. HIDE DEF underused
      <4>. QED  BY <4>2, <4>3
    <3>2. outlook = Verdict("on pace to end", RoundPercent(end), None)
      BY <1>1, <1>4, <2>3, OutlookReads, ZenonT(40)
    <3>3. RoundPercent(end) \in Int
      <4>1. /\ end.num = w.utilization * Horizon(w, time, pacing)
            /\ end.den = Elapsed(w, time) /\ 0 < Elapsed(w, time)
        BY <2>3 DEF ProjectedEnd, Running
      <4>2. Elapsed(w, time) \in Int
        BY DurationIsPositive DEF Windows, WindowsOf, Elapsed
      <4>3. Horizon(w, time, pacing) \in Int
        BY <4>2 DEF Horizon, AtLeast
      <4>. HIDE DEF end
      <4>. QED  BY <1>1, <4>1, <4>2, <4>3, RoundedIsInt
    <3>. HIDE DEF end
    <3>4. projection # None /\ projection.says = "on pace to end"
          /\ projection.percent = RoundPercent(end)
      BY <3>1, <3>3, EndsAtReads, ZenonT(40)
    <3>5. outlook # None
      <4>1. "on pace to end" \in {"limit reached", "hits limit", "on pace to end"}
            /\ None \in Optional(Clocks)
        BY DEF Optional
      <4>. QED  BY <3>2, <3>3, <4>1, VerdictIsThere, Zenon
    <3>6. outlook.says = "on pace to end" /\ outlook.percent = RoundPercent(end)
      <4>1. \A percent : /\ Verdict("on pace to end", percent, None).says = "on pace to end"
                         /\ Verdict("on pace to end", percent, None).percent = percent
        BY DEF Verdict
      <4>. QED  BY <3>2, <4>1, Zenon
    <3>7. PaceRatio(w, time, pacing) # None
      BY <2>3, NoRatioNoProjection DEF end
    <3>. QED  BY <3>4, <3>5, <3>6, <3>7 DEF SameProjection
  <2>. QED  BY <2>2, <2>3
<1>. QED  BY <1>1, <1>2, <1>3, <1>4

\* A row and a line of one window say the same.
LEMMA SameWindowReads ==
    ASSUME NEW id, NEW label, NEW w \in Windows, NEW time \in Int, NEW chosen \in DisplayOptions,
           NEW row, row = Row(Card(id, w, time, chosen), time),
           NEW e, e = MenuEntry(label, w, time, chosen)
    PROVE  SameWindow(row, e)
<1>. DEFINE pacing == PacingDuration(w.window, chosen.weekly_pace_days)
            ratio == PaceRatio(w, time, pacing)
            tracking == chosen.pace_tracking_enabled
            card == Card(id, w, time, chosen)
<1>1. /\ e.usage = UsageLine(label, w, time) /\ e.detail = DetailLine(w, time, chosen)
      /\ e.usage.percent = RoundPercent(Percent(w.utilization))
  BY LineReads
<1>2. /\ card.percent = RoundPercent(Percent(w.utilization))
      /\ card.ratio = IF tracking THEN ratio ELSE None
      /\ card.expected = IF tracking THEN ExpectedUsage(w, time, pacing) ELSE None
      /\ card.pace_first => card.ratio # None
      /\ card.projection = IF tracking THEN Projection(w, time, pacing, card.ratio) ELSE None
      /\ row.primary = PrimaryMetric(card) /\ row.pace = PaceLine(card)
      /\ row.projection = card.projection
      /\ row.countdown = Countdown(w.resets_at, time)
  BY RowReads
<1>3. /\ pacing \in Nat \ {0} /\ pacing <= Duration(w.window)
      /\ e.detail # None <=> tracking /\ ratio # None
      /\ e.detail # None =>
            e.detail = [ratio |-> Tenths(ratio),
                        expected |-> RoundPercent(ExpectedUsage(w, time, pacing)),
                        outlook |-> Outlook(w, time, pacing)]
  BY <1>1, DetailReads
<1>. HIDE DEF card, pacing
<1>4. card.percent \in Int
  <2>1. Percent(w.utilization).num \in Int /\ Percent(w.utilization).den \in Nat \ {0}
    BY DEF Percent, Windows, WindowsOf
  <2>. QED  BY <1>2, <2>1, RoundedIsInt
<1>5. ratio # None => /\ FixedTenths(ratio) \in Int /\ SameDecimal(FixedTenths(ratio), Tenths(ratio))
                      /\ RoundPercent(ExpectedUsage(w, time, pacing)) \in Int
  <2>. SUFFICES ASSUME ratio # None
                PROVE  /\ FixedTenths(ratio) \in Int
                       /\ SameDecimal(FixedTenths(ratio), Tenths(ratio))
                       /\ RoundPercent(ExpectedUsage(w, time, pacing)) \in Int
    OBVIOUS
  <2>1. ratio.num \in Nat /\ ratio.den \in Nat \ {0}
    BY <1>3, RatioIsQuotient
  <2>3. FixedTenths(ratio) \in Int /\ SameDecimal(FixedTenths(ratio), Tenths(ratio))
    BY <2>1, TenthsAreNear, DecimalsAgree
  <2>4. Elapsed(w, time) \in Int
    BY DurationIsPositive DEF Windows, WindowsOf, Elapsed
  <2>5. /\ ExpectedUsage(w, time, pacing).num = 100 * AtMost(Elapsed(w, time), pacing)
        /\ ExpectedUsage(w, time, pacing).den = pacing
    BY DEF PaceRatio, ExpectedUsage
  <2>6. RoundPercent(ExpectedUsage(w, time, pacing)) \in Int
    BY <1>3, <2>4, <2>5, RoundedIsInt DEF AtMost
  <2>. QED  BY <2>3, <2>6
<1>6. row.countdown = [reset |-> e.usage.reset, time |-> e.usage.time]
  BY <1>1, <1>2, SameCountdown
<1>7. /\ Figures(row, "percent") = {e.usage.percent}
      /\ card.ratio = None => row.pace = None
      /\ card.ratio # None => /\ Figures(row, "ratio") = {FixedTenths(card.ratio)}
                              /\ row.pace.expected = RoundPercent(card.expected)
  <2>1. card.ratio # None => tracking /\ card.ratio = ratio
                             /\ card.expected = ExpectedUsage(w, time, pacing)
    BY <1>2
  <2>2. card.ratio # None => FixedTenths(card.ratio) \in Int /\ RoundPercent(card.expected) \in Int
    BY <1>5, <2>1
  <2>. HIDE DEF ratio, tracking
  <2>. QED  BY <1>1, <1>2, <1>4, <2>2, FiguresOfRow
<1>8. tracking => /\ ratio = None => row.projection \in {None, [says |-> "limit reached"]}
                  /\ SameProjection(row.projection, Outlook(w, time, pacing))
  BY <1>2, <1>3, SameOutlook
<1>. HIDE DEF ratio
<1>9. CASE e.detail = None
  <2>1. card.ratio = None
    BY <1>2, <1>3, <1>9
  <2>2. row.projection \in {None, [says |-> "limit reached"]}
    BY <1>2, <1>3, <1>8, <1>9
  <2>. QED  BY <1>6, <1>7, <1>9, <2>1, <2>2 DEF SameWindow
<1>10. CASE e.detail # None
  <2>1. tracking /\ ratio # None /\ card.ratio = ratio
        /\ card.expected = ExpectedUsage(w, time, pacing)
    BY <1>2, <1>3, <1>10
  <2>2. /\ e.detail.ratio = Tenths(ratio) /\ e.detail.outlook = Outlook(w, time, pacing)
        /\ e.detail.expected = RoundPercent(ExpectedUsage(w, time, pacing))
    BY <1>3, <1>10
  <2>3. /\ Figures(row, "ratio") = {FixedTenths(ratio)}
        /\ SameDecimal(FixedTenths(ratio), e.detail.ratio)
    BY <1>5, <1>7, <2>1, <2>2
  <2>. QED  BY <1>6, <1>7, <1>8, <1>10, <2>1, <2>2, <2>3 DEF SameWindow
<1>. QED  BY <1>9, <1>10

-----------------------------------------------------------------------------
\* Row for line

Names == LimitWindows \cup {"scoped"} \cup Optional(STRING)
Labels == Seq(Names)

\* A card and a line that are of one window.
Counterparts(time, chosen) ==
    {<<Card(pair[1], w, time, chosen), MenuEntry(pair[2], w, time, chosen)>> :
        w \in Windows, pair \in Labels \X Labels}

\* The sequences a and c tell of the same, place by place.
Alongside(a, c, R) ==
    /\ Len(a) = Len(c)
    /\ \A i \in 1..Len(a) : <<a[i], c[i]>> \in R

LEMMA WindowsAreNamed == /\ \A w \in Windows : w.window \in Names
                         /\ \A name \in Optional(STRING) : name \in Names
                         /\ "scoped" \in Names
<1>1. \A w \in Windows : w.window \in LimitWindows
  BY DEF Windows, WindowsOf
<1>. QED  BY <1>1, Zenon DEF Names

LEMMA Lengthened ==
    ASSUME NEW S, NEW T, NEW a \in Seq(S), NEW b \in Seq(S), NEW c \in Seq(T), NEW d \in Seq(T),
           NEW R, Alongside(a, c, R), Alongside(b, d, R)
    PROVE  a \o b \in Seq(S) /\ c \o d \in Seq(T) /\ Alongside(a \o b, c \o d, R)
<1>0. Len(c) = Len(a) /\ Len(d) = Len(b)
  BY DEF Alongside
<1>1. /\ Len(a) \in Nat /\ Len(b) \in Nat /\ Len(c) = Len(a) /\ Len(d) = Len(b)
      /\ Len(a \o b) = Len(a) + Len(b) /\ Len(c \o d) = Len(a) + Len(b)
  BY <1>0
<1>2. ASSUME NEW i \in 1..(Len(a) + Len(b))
      PROVE  <<(a \o b)[i], (c \o d)[i]>> \in R
  <2>1. CASE i <= Len(a)
    <3>1. (a \o b)[i] = a[i] /\ (c \o d)[i] = c[i] /\ i \in 1..Len(a)
      BY <1>1, <2>1
    <3>. QED  BY <3>1 DEF Alongside
  <2>2. CASE ~(i <= Len(a))
    <3>1. /\ (a \o b)[i] = b[i - Len(a)] /\ (c \o d)[i] = d[i - Len(a)]
          /\ i - Len(a) \in 1..Len(b)
      BY <1>1, <2>2
    <3>. QED  BY <3>1 DEF Alongside
  <2>. QED  BY <2>1, <2>2
<1>. QED  BY <1>1, <1>2 DEF Alongside

LEMMA HeadlineCardsMatch ==
    ASSUME NEW w \in Optional(Windows), NEW time, NEW chosen
    PROVE  LET R == Counterparts(time, chosen)
           IN  /\ HeadlineCard(w, time, chosen) \in Seq({pair[1] : pair \in R})
               /\ HeadlineEntry(w, time, chosen) \in Seq({pair[2] : pair \in R})
               /\ Alongside(HeadlineCard(w, time, chosen), HeadlineEntry(w, time, chosen), R)
<1>1. CASE w = None
  BY <1>1 DEF HeadlineCard, HeadlineEntry, Alongside
<1>2. CASE w # None
  <2>. DEFINE card == Card(<<w.window>>, w, time, chosen)
              entry == MenuEntry(<<w.window>>, w, time, chosen)
              R == Counterparts(time, chosen)
  <2>1. w \in Windows /\ <<w.window>> \in Labels
    <3>1. w \in Windows
      BY <1>2 DEF Optional
    <3>2. w.window \in Names
      BY <3>1, WindowsAreNamed
    <3>. QED  BY <3>1, <3>2 DEF Labels
  <2>2. <<card, entry>> \in R
    <3>1. <<<<w.window>>, <<w.window>>>> \in Labels \X Labels
      BY <2>1
    <3>. QED  BY <2>1, <3>1 DEF Counterparts
  <2>3. HeadlineCard(w, time, chosen) = <<card>> /\ HeadlineEntry(w, time, chosen) = <<entry>>
    BY <1>2 DEF HeadlineCard, HeadlineEntry
  <2>. HIDE DEF card, entry, R
  <2>4. card \in {pair[1] : pair \in R} /\ entry \in {pair[2] : pair \in R}
    <3>1. <<card, entry>>[1] = card /\ <<card, entry>>[2] = entry
      OBVIOUS
    <3>. QED  BY <2>2, <3>1, Zenon
  <2>. QED  BY <2>2, <2>3, <2>4 DEF Alongside, R
<1>. QED  BY <1>1, <1>2

LEMMA ScopedCardsMatch ==
    ASSUME NEW visible \in Seq(ScopedLimits), NEW time, NEW chosen,
           NEW cards, cards = [i \in DOMAIN visible |->
                                  Card(<<"scoped", visible[i].display_name>>, visible[i].usage,
                                       time, chosen)],
           NEW entries, entries = [i \in DOMAIN visible |->
                                      LET limit == visible[i]
                                      IN  MenuEntry(<<limit.display_name, limit.usage.window>>,
                                                    limit.usage, time, chosen)]
    PROVE  LET R == Counterparts(time, chosen)
           IN  /\ cards \in Seq({pair[1] : pair \in R})
               /\ entries \in Seq({pair[2] : pair \in R})
               /\ Alongside(cards, entries, R)
<1>. DEFINE R == Counterparts(time, chosen)
<1>1. DOMAIN visible = 1..Len(visible) /\ Len(visible) \in Nat
  OBVIOUS
<1>2. ASSUME NEW i \in DOMAIN visible PROVE <<cards[i], entries[i]>> \in R
  <2>1. visible[i] \in ScopedLimits
    OBVIOUS
  <2>2. visible[i].usage \in Windows /\ visible[i].display_name \in Optional(STRING)
    BY <2>1 DEF ScopedLimits
  <2>3. /\ visible[i].usage.window \in Names /\ visible[i].display_name \in Names
        /\ "scoped" \in Names
    BY <2>2, WindowsAreNamed, Zenon
  <2>. DEFINE id == <<"scoped", visible[i].display_name>>
              label == <<visible[i].display_name, visible[i].usage.window>>
  <2>4. id \in Labels /\ label \in Labels
    BY <2>3 DEF Labels
  <2>5. /\ cards[i] = Card(id, visible[i].usage, time, chosen)
        /\ entries[i] = MenuEntry(label, visible[i].usage, time, chosen)
    OBVIOUS
  <2>. HIDE DEF id, label
  <2>6. /\ <<id, label>> \in Labels \X Labels
        /\ <<id, label>>[1] = id /\ <<id, label>>[2] = label
    BY <2>4
  <2>. QED  BY <2>2, <2>5, <2>6, SMTT(30) DEF Counterparts
<1>3. ASSUME NEW i \in DOMAIN visible
      PROVE  cards[i] \in {pair[1] : pair \in R} /\ entries[i] \in {pair[2] : pair \in R}
  <2>1. <<cards[i], entries[i]>>[1] = cards[i] /\ <<cards[i], entries[i]>>[2] = entries[i]
    OBVIOUS
  <2>. HIDE DEF R
  <2>. QED  BY <1>2, <2>1, Zenon
<1>4. DOMAIN cards = 1..Len(visible) /\ DOMAIN entries = 1..Len(visible)
      /\ cards = [i \in 1..Len(visible) |-> cards[i]] /\ entries = [i \in 1..Len(visible) |-> entries[i]]
  BY <1>1
<1>. HIDE DEF R
<1>5. cards \in Seq({pair[1] : pair \in R}) /\ entries \in Seq({pair[2] : pair \in R})
      /\ Len(cards) = Len(visible) /\ Len(entries) = Len(visible)
  <2>. DEFINE S == {pair[1] : pair \in R}
              T == {pair[2] : pair \in R}
  <2>1. (\A i \in 1..Len(visible) : cards[i] \in S) /\ (\A i \in 1..Len(visible) : entries[i] \in T)
    BY <1>1, <1>3
  <2>. HIDE DEF S, T
  <2>2. cards \in [1..Len(visible) -> S] /\ entries \in [1..Len(visible) -> T]
    BY <1>4, <2>1
  <2>3. cards \in Seq(S) /\ entries \in Seq(T)
    BY <1>1, <2>2
  <2>4. Len(cards) = Len(visible) /\ Len(entries) = Len(visible)
    BY <1>1, <1>4, <2>3
  <2>. QED  BY <2>3, <2>4 DEF S, T
<1>. QED  BY <1>1, <1>2, <1>5 DEF Alongside, R

\* The popover's cards and the menu's lines are of the same windows, in one order.
LEMMA CardsMatch ==
    ASSUME NEW snapshot \in Snapshots, NEW time, NEW chosen,
           NEW windows, windows = UsageLines(snapshot, time, chosen).windows,
           Effective(chosen.usage_mode, snapshot) # "cost",
           NEW cards, cards = Cards(snapshot, time, chosen)
    PROVE  LET R == Counterparts(time, chosen)
           IN  /\ cards \in Seq({pair[1] : pair \in R})
               /\ windows \in Seq({pair[2] : pair \in R})
               /\ Alongside(cards, windows, R)
<1>. DEFINE R == Counterparts(time, chosen)
            S == {pair[1] : pair \in R}
            T == {pair[2] : pair \in R}
            visible == Visible(snapshot.scoped, chosen.shown)
            scoped == [i \in DOMAIN visible |->
                          Card(<<"scoped", visible[i].display_name>>, visible[i].usage, time, chosen)]
<1>1. visible \in Seq(ScopedLimits)
  <2>. DEFINE positions == {i \in DOMAIN snapshot.scoped : snapshot.scoped[i].display_name \in chosen.shown}
  <2>1. snapshot.scoped \in Seq(ScopedLimits) /\ positions \subseteq DOMAIN snapshot.scoped
    BY DEF Snapshots
  <2>2. visible = Selected(snapshot.scoped, positions)
    BY DEF Visible
  <2>. HIDE DEF positions, visible
  <2>. QED  BY <2>1, <2>2, SelectedAreMembers
<1>2. cards = HeadlineCard(snapshot.five_hour, time, chosen)
                \o HeadlineCard(snapshot.seven_day, time, chosen) \o scoped
  BY DEF Cards, Visible
<1>3. windows = HeadlineEntry(snapshot.five_hour, time, chosen)
                  \o HeadlineEntry(snapshot.seven_day, time, chosen)
                  \o ScopedEntries(snapshot, time, chosen)
  BY DEF UsageLines
<1>4. /\ scoped \in Seq(S) /\ ScopedEntries(snapshot, time, chosen) \in Seq(T)
      /\ Alongside(scoped, ScopedEntries(snapshot, time, chosen), R)
  <2>1. ScopedEntries(snapshot, time, chosen) =
            [i \in DOMAIN visible |->
                LET limit == visible[i]
                IN  MenuEntry(<<limit.display_name, limit.usage.window>>, limit.usage, time, chosen)]
    BY DEF ScopedEntries
  <2>. HIDE DEF visible
  <2>. QED  BY <1>1, <2>1, ScopedCardsMatch
<1>5. snapshot.five_hour \in Optional(Windows) /\ snapshot.seven_day \in Optional(Windows)
  BY DEF Snapshots, Optional, Windows, WindowsOf, LimitWindows
<1>6. \A w \in Optional(Windows) :
          /\ HeadlineCard(w, time, chosen) \in Seq(S)
          /\ HeadlineEntry(w, time, chosen) \in Seq(T)
          /\ Alongside(HeadlineCard(w, time, chosen), HeadlineEntry(w, time, chosen), R)
  BY HeadlineCardsMatch
<1>. DEFINE some == HeadlineCard(snapshot.five_hour, time, chosen)
                      \o HeadlineCard(snapshot.seven_day, time, chosen)
            same == HeadlineEntry(snapshot.five_hour, time, chosen)
                      \o HeadlineEntry(snapshot.seven_day, time, chosen)
            listed == ScopedEntries(snapshot, time, chosen)
<1>. HIDE DEF R, S, T, scoped
<1>7. some \in Seq(S) /\ same \in Seq(T) /\ Alongside(some, same, R)
  BY <1>5, <1>6, Lengthened
<1>8. cards = some \o scoped /\ windows = same \o listed
  BY <1>2, <1>3
<1>. HIDE DEF some, same, listed
<1>9. cards \in Seq(S) /\ windows \in Seq(T) /\ Alongside(cards, windows, R)
  <2>1. listed \in Seq(T) /\ Alongside(scoped, listed, R)
    BY <1>4 DEF listed
  <2>. QED  BY <1>4, <1>7, <1>8, <2>1, Lengthened
<1>. QED  BY <1>9 DEF R, S, T

\* The mode of the popover is the menu's, decided by the same fields in another order.
LEMMA SameMode ==
    ASSUME NEW snapshot \in Snapshots, snapshot # None, NEW mode \in {"auto", "allowance", "cost"}
    PROVE  CardMode(mode, snapshot) = Effective(mode, snapshot)
<1>1. Len(snapshot.scoped) > 0 <=> ScopedUsages(snapshot) # {}
  <2>1. snapshot.scoped \in Seq(ScopedLimits)
    BY DEF Snapshots
  <2>2. DOMAIN snapshot.scoped = 1..Len(snapshot.scoped) /\ Len(snapshot.scoped) \in Nat
    BY <2>1
  <2>3. Len(snapshot.scoped) > 0 => 1 \in DOMAIN snapshot.scoped
    BY <2>2
  <2>4. DOMAIN snapshot.scoped # {} => Len(snapshot.scoped) > 0
    BY <2>2
  <2>. QED  BY <2>3, <2>4 DEF ScopedUsages
<1>2. HasLimits(snapshot) <=>
          snapshot.five_hour # None \/ snapshot.seven_day # None \/ Len(snapshot.scoped) > 0
  BY <1>1 DEF HasLimits, UsageWindows
<1>. QED  BY <1>2 DEF CardMode, Effective, SuggestedMode

LEMMA DivideCommon ==
    ASSUME NEW a \in Int, NEW b \in Nat \ {0}, NEW k \in Nat \ {0}
    PROVE  (a * k) \div (b * k) = a \div b
<1>. DEFINE p == (a * k) \div (b * k)
            q == a \div b
<1>1. a * k \in Int /\ b * k \in Nat \ {0}
  OBVIOUS
<1>2. p \in Int /\ q \in Int
  BY <1>1, DivideBound
<1>3. \A n \in Int : n <= p <=> n <= q
  <2>. TAKE n \in Int
  <2>1. n <= p <=> n * (b * k) <= a * k
    BY <1>1, DivideBound
  <2>2. n <= q <=> n * b <= a
    BY DivideBound
  <2>3. n * (b * k) <= a * k <=> n * b <= a
    <3>1. n * b \in Int /\ n * (b * k) = (n * b) * k
      OBVIOUS
    <3>2. \A m \in Int : m * k <= a * k <=> m <= a
      OBVIOUS
    <3>. QED  BY <3>1, <3>2
  <2>. QED  BY <2>1, <2>2, <2>3
<1>. HIDE DEF p, q
<1>4. p = q
  BY <1>2, <1>3
<1>. QED  BY <1>4 DEF p, q

\* The nearest whole of a quotient of amounts in one exponent, and whether it is at a
\* tie, whether they are compared in minor or in major units.
LEMMA SameHalfUp ==
    ASSUME NEW a \in Int, NEW b \in Nat \ {0}, NEW k \in Nat \ {0},
           NEW p, p = [num |-> 100 * (a * k), den |-> b * k],
           NEW q, q = [num |-> 100 * a, den |-> b]
    PROVE  /\ HalfUp(p, 1) = HalfUp(q, 1) /\ HalfUp(q, 1) \in Int
           /\ Tie(p, 1) <=> Tie(q, 1)
           /\ Tie(q, 1) => (2 * HalfUp(q, 1) - 1) * b = 200 * a
           /\ p.num < 0 <=> q.num < 0
<1>1. /\ p.num = 100 * (a * k) /\ p.den = b * k /\ p.num \in Int /\ p.den \in Nat \ {0}
      /\ q.num = 100 * a /\ q.den = b /\ q.num \in Int
  OBVIOUS
<1>2. p.num < 0 <=> q.num < 0
  BY <1>1
<1>3. HalfUp(p, 1) = HalfUp(q, 1)
  <2>. DEFINE c == 2 * 1 * (100 * a) + b
              d == 2 * b
  <2>1. c \in Int /\ d \in Nat \ {0}
    OBVIOUS
  <2>2. 2 * 1 * (100 * (a * k)) + b * k = c * k /\ 2 * (b * k) = d * k
    OBVIOUS
  <2>3. HalfUp(p, 1) = (c * k) \div (d * k) /\ HalfUp(q, 1) = c \div d
    BY <1>1, <2>2 DEF HalfUp
  <2>. HIDE DEF c, d
  <2>4. (c * k) \div (d * k) = c \div d
    BY <2>1, DivideCommon
  <2>. QED  BY <2>3, <2>4
<1>4. HalfUp(q, 1) \in Int /\ (Tie(q, 1) => (2 * HalfUp(q, 1) - 1) * b = 200 * a)
  BY <1>1, HalfUpBound
<1>5. Tie(p, 1) <=> Tie(q, 1)
  <2>. DEFINE h == 2 * HalfUp(q, 1) - 1
  <2>1. h \in Int /\ (Tie(q, 1) <=> b * h = 200 * a) /\ (Tie(p, 1) <=> (b * k) * h = 200 * (a * k))
    BY <1>1, <1>3, <1>4 DEF Tie
  <2>. HIDE DEF h
  <2>2. (b * k) * h = (b * h) * k /\ 200 * (a * k) = (200 * a) * k
    BY <2>1
  <2>3. \A m, n \in Int : m * k = n * k <=> m = n
    OBVIOUS
  <2>4. b * h \in Int /\ 200 * a \in Int
    BY <2>1
  <2>. QED  BY <2>1, <2>2, <2>3, <2>4
<1>. QED  BY <1>2, <1>3, <1>4, <1>5

\* Two quotients with the same nearest whole round alike, or one apart at a tie.
LEMMA SameRounding ==
    ASSUME NEW p, NEW q, NEW h \in Int, HalfUp(p, 1) = h, HalfUp(q, 1) = h,
           Tie(p, 1) <=> Tie(q, 1), p.num < 0 <=> q.num < 0
    PROVE  \/ RoundPercent(p) = RoundPercent(q)
           \/ /\ Tie(q, 1) /\ RoundPercent(p) - RoundPercent(q) \in {-1, 1}
              /\ RoundPercent(p) + RoundPercent(q) = 2 * h - 1
<1>1. /\ Rounded(p) = h \/ (Tie(q, 1) /\ Rounded(p) = h - 1)
      /\ Rounded(q) = h \/ (Tie(q, 1) /\ Rounded(q) = h - 1)
  BY DEF Rounded, Nearest
<1>2. CASE q.num < 0
  BY <1>2 DEF RoundPercent
<1>3. CASE ~(q.num < 0)
  BY <1>1, <1>3 DEF RoundPercent, AtMost
<1>. QED  BY <1>2, <1>3

\* The card of a spend and the line of it.
LEMMA SpendReads ==
    ASSUME NEW spend \in RawSpends, NEW chosen, NEW cost, NEW i \in DOMAIN CostLines(spend),
           cost = CostLines(spend)[i]
    PROVE  SameSpend(CostCard(spend, chosen), cost)
<1>. DEFINE fraction == FractionUsed(spend)
            budget == IF spend.limit # None THEN spend.limit ELSE spend.cap
            card == CostCard(spend, chosen)
<1>1. spend.used # None
  BY DEF CostLines
<1>2. /\ cost.used = spend.used
      /\ cost.budget = IF fraction = None THEN None ELSE budget
      /\ cost.percent = IF fraction = None THEN None
                        ELSE RoundPercent([num |-> 100 * fraction.num, den |-> fraction.den])
  BY <1>1 DEF CostLines
<1>3. card.used = spend.used /\ card.gauge = CostGauge(spend, chosen)
  BY DEF CostCard
<1>4. spend.used \in Amounts /\ budget \in Optional(Amounts)
  BY <1>1 DEF RawSpends, Optional
<1>5. CASE budget = None \/ budget.minor <= 0
  <2>1. fraction = None /\ card.gauge = None
    BY <1>3, <1>5 DEF FractionUsed, CostGauge
  <2>. QED  BY <1>2, <1>3, <2>1 DEF SameSpend
<1>6. CASE budget # None /\ ~(budget.minor <= 0)
  <2>1. budget \in Amounts
    BY <1>4, <1>6 DEF Optional
  <2>2. /\ spend.used.minor \in Int /\ spend.used.scale \in Nat \ {0}
        /\ budget.minor \in Nat \ {0} /\ budget.scale \in Nat \ {0}
    BY <1>4, <1>6, <2>1 DEF Amounts
  <2>3. fraction = [num |-> spend.used.minor * budget.scale, den |-> budget.minor * spend.used.scale]
    BY <1>1, <1>6 DEF FractionUsed
  <2>4. fraction # None
    <3>1. spend.used.minor * budget.scale \in Int /\ budget.minor * spend.used.scale \in Nat \ {0}
      BY <2>2
    <3>. QED  BY <2>3, <3>1, NoneAssumption DEF Quotients
  <2>5. card.gauge.percent = RoundPercent([num |-> 100 * spend.used.minor, den |-> budget.minor])
    BY <1>1, <1>3, <1>6 DEF CostGauge
  <2>6. /\ cost.budget = budget
        /\ cost.percent = RoundPercent([num |-> 100 * (spend.used.minor * budget.scale),
                                        den |-> budget.minor * spend.used.scale])
    BY <1>2, <2>3, <2>4
  <2>. HIDE DEF budget, card, fraction
  <2>7. ASSUME budget.scale = spend.used.scale PROVE SameShare(card.gauge.percent, cost)
    <3>. DEFINE p == [num |-> 100 * (spend.used.minor * budget.scale),
                      den |-> budget.minor * budget.scale]
                q == [num |-> 100 * spend.used.minor, den |-> budget.minor]
                h == HalfUp(q, 1)
    <3>1. /\ HalfUp(p, 1) = h /\ h \in Int /\ (Tie(p, 1) <=> Tie(q, 1))
          /\ Tie(q, 1) => (2 * h - 1) * budget.minor = 200 * spend.used.minor
          /\ p.num < 0 <=> q.num < 0
      BY <2>2, SameHalfUp
    <3>2. card.gauge.percent = RoundPercent(q) /\ cost.percent = RoundPercent(p)
      BY <2>5, <2>6, <2>7
    <3>3. cost.budget.minor = budget.minor /\ cost.used.minor = spend.used.minor
      BY <1>2, <2>6
    <3>4. RoundPercent(p) \in Int /\ RoundPercent(q) \in Int
      <4>1. p.num \in Int /\ p.den \in Nat \ {0} /\ q.num \in Int /\ q.den \in Nat \ {0}
        BY <2>2
      <4>. HIDE DEF p, q
      <4>. QED  BY <4>1, RoundedIsInt
    <3>. HIDE DEF p, q, h
    <3>5. \/ RoundPercent(q) = RoundPercent(p)
          \/ /\ Tie(q, 1) /\ RoundPercent(p) - RoundPercent(q) \in {-1, 1}
             /\ RoundPercent(p) + RoundPercent(q) = 2 * h - 1
      <4>1. HalfUp(q, 1) = h
        BY DEF h
      <4>. QED  BY <3>1, <4>1, SameRounding DEF Tie
    <3>6. CASE RoundPercent(q) = RoundPercent(p)
      BY <3>2, <3>6 DEF SameShare
    <3>7. CASE /\ Tie(q, 1) /\ RoundPercent(p) - RoundPercent(q) \in {-1, 1}
               /\ RoundPercent(p) + RoundPercent(q) = 2 * h - 1
      <4>1. RoundPercent(q) - RoundPercent(p) \in {-1, 1}
        BY <3>4, <3>7
      <4>2. RoundPercent(q) + RoundPercent(p) = 2 * h - 1
        BY <3>4, <3>7
      <4>3. (RoundPercent(q) + RoundPercent(p)) * cost.budget.minor = 200 * cost.used.minor
        BY <3>1, <3>3, <3>7, <4>2
      <4>. QED  BY <3>2, <4>1, <4>3 DEF SameShare
    <3>. QED  BY <3>5, <3>6, <3>7
  <2>8. card.used = cost.used /\ cost.used = spend.used /\ cost.budget # None
    BY <1>2, <1>3, <1>6, <2>6
  <2>. QED  BY <2>6, <2>7, <2>8 DEF SameSpend, card
<1>. QED  BY <1>5, <1>6

\* The status line and the sentence under the popover's head.
LEMMA SameStatus ==
    ASSUME NEW m, m.snapshot \in Optional(Snapshots), m.staleness \in {"fresh", "stale"},
           m.phase \in {"polling", "degraded", "session_expired"}, NEW time \in Int
    PROVE  /\ StatusSentence(m, time) = StatusLine(m, time)
           /\ BannerKind(m) = "stale" <=> StatusLine(m, time).stale
<1>1. CASE m.snapshot = None
  BY <1>1 DEF StatusSentence, StatusLine, BannerKind
<1>2. CASE m.snapshot # None
  <2>1. ShortDuration(time - m.snapshot.fetched_at) \in Int
    <3>1. time - m.snapshot.fetched_at \in Int
      BY <1>2 DEF Optional, Snapshots
    <3>2. ASSUME NEW t \in Int PROVE ShortDuration(t) \in Int
      <4>1. AtLeast(t, 0) \in Int /\ AtLeast(t, 0) % Hour \in Int
        BY TrayModelAssumption DEF AtLeast
      <4>. QED  BY <4>1 DEF ShortDuration
    <3>. QED  BY <3>1, <3>2
  <2>2. ShortDuration(time - m.snapshot.fetched_at) # None
    BY <2>1, NoneAssumption
  <2>. QED  BY <1>2, <2>2 DEF StatusSentence, StatusLine, BannerKind
<1>. QED  BY <1>1, <1>2

\* The popover and the menu, computed in two languages, say the same of every meter.
LEMMA SameView ==
    ASSUME NEW m \in Meters, NEW time \in Int, NEW chosen \in DisplayOptions,
           NEW view, view = PopoverView(m, time, chosen),
           NEW model, model = MenuModel(m, time, chosen),
           NEW windows, windows = model.usage_lines.windows,
           NEW costs, costs = model.usage_lines.cost
    PROVE  /\ DOMAIN view.rows = DOMAIN windows
           /\ \A i \in DOMAIN windows : SameWindow(view.rows[i], windows[i])
           /\ \A j \in DOMAIN costs :
                 \E i \in DOMAIN view.spends : SameSpend(view.spends[i], costs[j])
           /\ view.empty => DOMAIN windows = {} /\ DOMAIN costs = {}
           /\ view.status = model.status_line
           /\ view.banner = "stale" <=> model.status_line.stale
<1>. DEFINE snapshot == m.snapshot
            cards == IF snapshot = None \/ CardMode(chosen.usage_mode, snapshot) = "cost" THEN <<>>
                     ELSE Cards(snapshot, time, chosen)
            spends == IF snapshot = None THEN <<>>
                      ELSE IF snapshot.spend = None THEN <<>>
                      ELSE <<CostCard(snapshot.spend, chosen)>>
            R == Counterparts(time, chosen)
<1>1. /\ snapshot \in Optional(Snapshots) /\ chosen.usage_mode \in {"auto", "allowance", "cost"}
      /\ m.phase \in {"polling", "degraded", "session_expired"} /\ m.staleness \in {"fresh", "stale"}
  BY DEF Meters, DisplayOptions
<1>2. /\ view.banner = BannerKind(m) /\ view.status = StatusSentence(m, time)
      /\ view.rows = [i \in DOMAIN cards |-> Row(cards[i], time)]
      /\ view.spends = spends
      /\ view.empty => cards = <<>> /\ spends = <<>>
  BY DEF PopoverView
<1>3. /\ model.status_line = StatusLine(m, time)
      /\ model.usage_lines = IF snapshot = None THEN [cost |-> <<>>, windows |-> <<>>]
                             ELSE UsageLines(snapshot, time, chosen)
  BY DEF MenuModel
<1>4. view.status = model.status_line /\ (view.banner = "stale" <=> model.status_line.stale)
  BY <1>1, <1>2, <1>3, SameStatus
<1>. HIDE DEF cards, spends, R
<1>5. /\ cards \in Seq({pair[1] : pair \in R}) /\ windows \in Seq({pair[2] : pair \in R})
      /\ Alongside(cards, windows, R)
  <2>1. CASE snapshot = None
    <3>1. cards = <<>> /\ windows = <<>>
      BY <1>3, <2>1 DEF cards
    <3>. QED  BY <3>1 DEF Alongside
  <2>2. CASE snapshot # None /\ Effective(chosen.usage_mode, snapshot) = "cost"
    <3>1. CardMode(chosen.usage_mode, snapshot) = "cost"
      BY <1>1, <2>2, SameMode DEF Optional
    <3>2. cards = <<>> /\ windows = <<>>
      BY <1>3, <2>2, <3>1 DEF cards, UsageLines
    <3>. QED  BY <3>2 DEF Alongside
  <2>3. CASE snapshot # None /\ Effective(chosen.usage_mode, snapshot) # "cost"
    <3>1. snapshot \in Snapshots /\ CardMode(chosen.usage_mode, snapshot) # "cost"
      BY <1>1, <2>3, SameMode DEF Optional
    <3>2. /\ cards = Cards(snapshot, time, chosen)
          /\ windows = UsageLines(snapshot, time, chosen).windows
      BY <1>3, <2>3, <3>1 DEF cards
    <3>. QED  BY <2>3, <3>1, <3>2, CardsMatch DEF R
  <2>. QED  BY <2>1, <2>2, <2>3
<1>6. /\ Len(cards) \in Nat /\ Len(windows) = Len(cards)
      /\ DOMAIN cards = 1..Len(cards) /\ DOMAIN windows = 1..Len(cards)
      /\ \A i \in 1..Len(cards) : <<cards[i], windows[i]>> \in R
  <2>1. Len(windows) = Len(cards) /\ \A i \in 1..Len(cards) : <<cards[i], windows[i]>> \in R
    BY <1>5 DEF Alongside
  <2>. QED  BY <1>5, <2>1
<1>7. DOMAIN view.rows = DOMAIN windows
  BY <1>2, <1>6
<1>8. ASSUME NEW i \in DOMAIN windows PROVE SameWindow(view.rows[i], windows[i])
  <2>1. PICK w \in Windows, pair \in Labels \X Labels :
            <<cards[i], windows[i]>> =
                <<Card(pair[1], w, time, chosen), MenuEntry(pair[2], w, time, chosen)>>
    BY <1>6 DEF R, Counterparts
  <2>2. cards[i] = Card(pair[1], w, time, chosen) /\ windows[i] = MenuEntry(pair[2], w, time, chosen)
    BY <2>1
  <2>3. view.rows[i] = Row(cards[i], time)
    BY <1>2, <1>6
  <2>. QED  BY <2>2, <2>3, SameWindowReads
<1>9. ASSUME NEW j \in DOMAIN costs
      PROVE  \E i \in DOMAIN view.spends : SameSpend(view.spends[i], costs[j])
  <2>1. snapshot # None
    BY <1>3
  <2>2. costs = IF Effective(chosen.usage_mode, snapshot) = "cost" /\ snapshot.spend # None
                THEN CostLines(snapshot.spend) ELSE <<>>
    BY <1>3, <2>1 DEF UsageLines
  <2>3. snapshot.spend # None /\ costs = CostLines(snapshot.spend)
    BY <2>2
  <2>4. snapshot.spend \in RawSpends
    BY <1>1, <2>1, <2>3 DEF Optional, Snapshots
  <2>5. view.spends = <<CostCard(snapshot.spend, chosen)>>
    BY <1>2, <2>1, <2>3 DEF spends
  <2>6. SameSpend(CostCard(snapshot.spend, chosen), costs[j])
    BY <2>3, <2>4, SpendReads
  <2>7. 1 \in DOMAIN view.spends /\ view.spends[1] = CostCard(snapshot.spend, chosen)
    BY <2>5
  <2>. QED  BY <2>6, <2>7
<1>10. ASSUME view.empty PROVE DOMAIN windows = {} /\ DOMAIN costs = {}
  <2>1. cards = <<>> /\ view.spends = <<>>
    BY <1>2, <1>10
  <2>2. DOMAIN windows = {}
    BY <1>6, <2>1
  <2>3. DOMAIN costs = {}
    BY <1>9, <2>1
  <2>. QED  BY <2>2, <2>3
<1>. QED  BY <1>4, <1>7, <1>8, <1>9, <1>10

\* The popover's second implementation, in TypeScript, says what Rust's menu says:
\* row for line, spend for spend, the status and whether the reading is stale, for
\* every reading, option and instant (pacing.ts, view-model.ts, cost-view-model.ts).
THEOREM PopoverAgrees == Spec => []PopoverMatchesMenu
<1>1. ReadingsInv => PopoverMatchesMenu
  <2>. SUFFICES ASSUME ReadingsInv, broadcasts > 0 PROVE PopoverMatchesMenu
    BY DEF PopoverMatchesMenu
  <2>1. /\ broadcasts # 0 /\ meter \in Meters /\ now \in Int /\ options \in DisplayOptions
        /\ menu = MenuModel(meter, now, options) /\ popover = PopoverView(meter, now, options)
    BY DEF ReadingsInv, ReadingsTypeOK, ShownIsCurrent
  <2>2. /\ DOMAIN popover.rows = DOMAIN menu.usage_lines.windows
        /\ \A i \in DOMAIN menu.usage_lines.windows :
              SameWindow(popover.rows[i], menu.usage_lines.windows[i])
        /\ \A j \in DOMAIN menu.usage_lines.cost :
              \E i \in DOMAIN popover.spends :
                  SameSpend(popover.spends[i], menu.usage_lines.cost[j])
        /\ popover.empty => DOMAIN menu.usage_lines.windows = {} /\ DOMAIN menu.usage_lines.cost = {}
        /\ popover.status = menu.status_line
        /\ popover.banner = "stale" <=> menu.status_line.stale
    BY <2>1, SameView
  <2>3. /\ Entries = {menu.usage_lines.windows[i] : i \in DOMAIN menu.usage_lines.windows}
        /\ CostsShown = {menu.usage_lines.cost[i] : i \in DOMAIN menu.usage_lines.cost}
    BY <2>1 DEF Entries, CostsShown
  <2>4. popover.empty => Entries = {} /\ CostsShown = {}
    BY <2>2, <2>3
  <2>5. \A cost \in CostsShown :
            \E i \in DOMAIN popover.spends : SameSpend(popover.spends[i], cost)
    BY <2>2, <2>3
  <2>. QED  BY <2>2, <2>4, <2>5 DEF PopoverMatchesMenu
<1>. QED  BY ReadingsInvariant, <1>1, PTL

=============================================================================
