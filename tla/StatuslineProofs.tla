--------------------------- MODULE StatuslineProofs ---------------------------
(***************************************************************************)
(* What the merge of two readings keeps, for any windows, any length of a  *)
(* cycle and any jitter below half of it, and what the recorded status-    *)
(* line reading keeps, for any sessions, any responses and any number of   *)
(* faults.                                                                 *)
(***************************************************************************)
EXTENDS Statusline, TLAPS

-----------------------------------------------------------------------------
(* The jitter tolerance tells the cycles of a window apart.                *)

\* A later cycle ends at least its length later.
LEMMA CyclesAreApart ==
    ASSUME NEW c \in Nat, NEW d \in Nat, c < d
    PROVE  /\ CycleLength * c \in Nat /\ CycleLength * d \in Nat
           /\ CycleLength * c + CycleLength <= CycleLength * d
<1>1. PICK k \in Nat : d = c + 1 + k
  <2>1. d - c - 1 \in Nat /\ d = c + 1 + (d - c - 1)
    OBVIOUS
  <2> QED
    BY <2>1
<1>2. CycleLength * (c + 1 + k) = CycleLength * c + CycleLength + CycleLength * k
  BY CyclesAssumption
<1>3. CycleLength * k \in Nat /\ CycleLength * c \in Nat
  BY CyclesAssumption
<1> QED
  BY <1>1, <1>2, <1>3, CyclesAssumption

\* Two reported resets of one cycle are within the jitter of each other.
LEMMA OneCycleShares ==
    ASSUME NEW c \in Nat, NEW a \in 0..ResetJitter, NEW b \in 0..ResetJitter
    PROVE  SharesCycleWith(ReportedReset(c, a), ReportedReset(c, b))
<1>1. CycleLength * c \in Nat
  BY CyclesAssumption
<1> QED
  BY <1>1, CyclesAssumption DEF SharesCycleWith, ReportedReset

\* Reported resets of two cycles never are.
LEMMA TwoCyclesDiffer ==
    ASSUME NEW c \in Nat, NEW d \in Nat, c # d,
           NEW a \in 0..ResetJitter, NEW b \in 0..ResetJitter
    PROVE  ~SharesCycleWith(ReportedReset(c, a), ReportedReset(d, b))
<1>1. CASE c < d
  BY <1>1, CyclesAreApart, CyclesAssumption DEF SharesCycleWith, ReportedReset
<1>2. CASE d < c
  BY <1>2, CyclesAreApart, CyclesAssumption DEF SharesCycleWith, ReportedReset
<1> QED
  BY <1>1, <1>2

\* A later cycle resets later, whatever the wobble.
LEMMA LaterCycleResetsLater ==
    ASSUME NEW c \in Nat, NEW d \in Nat, c < d,
           NEW a \in 0..ResetJitter, NEW b \in 0..ResetJitter
    PROVE  ReportedReset(c, a) < ReportedReset(d, b)
  BY CyclesAreApart, CyclesAssumption DEF ReportedReset

-----------------------------------------------------------------------------
(* The merge.                                                              *)

\* The order the code computes from instants is the order of the cycles and of the
\* usage within them (progress_cmp).
THEOREM AheadIsFurtherAlong ==
    ASSUME NEW a \in UsageWindows, NEW b \in UsageWindows
    PROVE  Ahead(a, b) <=> FurtherAlong(a, b)
<1>1. /\ a.cycle \in Nat /\ b.cycle \in Nat
      /\ a.drift \in 0..ResetJitter /\ b.drift \in 0..ResetJitter
      /\ a.utilization \in Int /\ b.utilization \in Int
  BY FreshnessAssumption DEF UsageWindows
<1>2. CASE a.cycle = b.cycle
  <2>1. SharesCycleWith(ReportedReset(a.cycle, a.drift), ReportedReset(b.cycle, b.drift))
    BY <1>1, <1>2, OneCycleShares
  <2> QED
    BY <2>1, <1>1, <1>2 DEF Ahead, FurtherAlong, ResetsAt
<1>3. CASE a.cycle # b.cycle
  <2>1. ~SharesCycleWith(ReportedReset(a.cycle, a.drift), ReportedReset(b.cycle, b.drift))
    BY <1>1, <1>3, TwoCyclesDiffer
  <2>2. /\ ReportedReset(a.cycle, a.drift) \in Int
        /\ ReportedReset(b.cycle, b.drift) \in Int
    BY <1>1, CyclesAssumption DEF ReportedReset
  <2>3. CASE a.cycle < b.cycle
    <3>1. ReportedReset(a.cycle, a.drift) < ReportedReset(b.cycle, b.drift)
      BY <1>1, <2>3, LaterCycleResetsLater
    <3> QED
      BY <3>1, <2>1, <2>2, <2>3, <1>1 DEF Ahead, FurtherAlong, ResetsAt
  <2>4. CASE b.cycle < a.cycle
    <3>1. ReportedReset(b.cycle, b.drift) < ReportedReset(a.cycle, a.drift)
      BY <1>1, <2>4, LaterCycleResetsLater
    <3> QED
      BY <3>1, <2>1, <2>2, <2>4, <1>1 DEF Ahead, FurtherAlong, ResetsAt
  <2> QED
    BY <2>3, <2>4, <1>1, <1>3
<1> QED
  BY <1>2, <1>3

\* Nothing is further along than itself, nor than what is further along than it.
LEMMA FurtherAlongIsStrict ==
    ASSUME NEW a \in UsageWindows, NEW b \in UsageWindows, FurtherAlong(a, b)
    PROVE  ~FurtherAlong(b, a)
  BY FreshnessAssumption DEF UsageWindows, FurtherAlong

LEMMA NotFurtherAlongThanItself ==
    ASSUME NEW a \in UsageWindows
    PROVE  ~FurtherAlong(a, a)
  BY FreshnessAssumption DEF UsageWindows, FurtherAlong

\* The window that is kept is one of the two, and neither is ahead of it.
LEMMA PickKeepsTheNewest ==
    ASSUME NEW recorded \in UsageWindows \cup {NoWindow},
           NEW incoming \in UsageWindows \cup {NoWindow}
    PROVE  LET kept == Pick(recorded, incoming)
           IN  /\ kept \in {recorded, incoming}
               /\ recorded # NoWindow => kept # NoWindow /\ ~FurtherAlong(recorded, kept)
               /\ incoming # NoWindow => kept # NoWindow /\ ~FurtherAlong(incoming, kept)
  BY AheadIsFurtherAlong, FurtherAlongIsStrict, NotFurtherAlongThanItself,
     NoReadingAssumption DEF Pick

-----------------------------------------------------------------------------

LEMMA SnapshotType ==
    ASSUME NEW r \in Snapshots
    PROVE  /\ r.windows \in [Windows -> UsageWindows \cup {NoWindow}]
           /\ \E w \in Windows : r.windows[w] # NoWindow
           /\ r.fetched_at \in 0..MaxTime /\ r.fetched_at \in Int
           /\ r # NoSnapshot
  BY FreshnessAssumption, NoReadingAssumption DEF Snapshots, Reported

LEMMA MergeType ==
    ASSUME NEW recorded \in Snapshots \cup {NoSnapshot}, NEW incoming \in Snapshots
    PROVE  Merge(recorded, incoming) \in Snapshots
<1>1. CASE recorded = NoSnapshot
  BY <1>1 DEF Merge
<1>2. CASE recorded \in Snapshots
  <2> DEFINE kept == [w \in Windows |-> Pick(recorded.windows[w], incoming.windows[w])]
  <2>1. kept \in [Windows -> UsageWindows \cup {NoWindow}]
    <3>1. \A w \in Windows : recorded.windows[w] \in UsageWindows \cup {NoWindow}
                            /\ incoming.windows[w] \in UsageWindows \cup {NoWindow}
      BY <1>2, SnapshotType
    <3> QED
      BY <3>1 DEF Pick
  <2>2. \E w \in Windows : kept[w] # NoWindow
    BY <1>2, SnapshotType, PickKeepsTheNewest
  <2>3. kept \in Reported
    BY <2>1, <2>2 DEF Reported
  <2> QED
    BY <1>2, <2>3, SnapshotType DEF Merge, Snapshots
<1> QED
  BY <1>1, <1>2

\* The merge holds the newest of every window of both readings, is never older than
\* the record, and becomes younger only by a reading that is behind on no window.
THEOREM MergeKeepsTheNewest ==
    ASSUME NEW recorded \in Snapshots, NEW incoming \in Snapshots
    PROVE  LET merged == Merge(recorded, incoming)
           IN  /\ Covers(merged.windows, recorded.windows)
               /\ Covers(merged.windows, incoming.windows)
               /\ merged.fetched_at >= recorded.fetched_at
               /\ merged.fetched_at > recorded.fetched_at
                     => /\ NotBehind(incoming.windows, recorded.windows)
                        /\ merged.fetched_at = incoming.fetched_at
<1> DEFINE merged == Merge(recorded, incoming)
<1>1. \A w \in Windows : merged.windows[w] = Pick(recorded.windows[w], incoming.windows[w])
  BY SnapshotType DEF Merge
<1>2. \A w \in Windows : /\ recorded.windows[w] \in UsageWindows \cup {NoWindow}
                         /\ incoming.windows[w] \in UsageWindows \cup {NoWindow}
  BY SnapshotType
<1>3. Covers(merged.windows, recorded.windows)
  BY <1>1, <1>2, PickKeepsTheNewest DEF Covers, NotBehind
<1>4. Covers(merged.windows, incoming.windows)
  BY <1>1, <1>2, PickKeepsTheNewest DEF Covers, NotBehind
<1>5. merged.fetched_at >= recorded.fetched_at
  BY SnapshotType DEF Merge
<1>6. ASSUME merged.fetched_at > recorded.fetched_at
      PROVE  /\ NotBehind(incoming.windows, recorded.windows)
             /\ merged.fetched_at = incoming.fetched_at
  <2>1. /\ \A w \in Windows : ~BehindOn(recorded.windows[w], incoming.windows[w])
        /\ merged.fetched_at = incoming.fetched_at
    BY <1>6, SnapshotType DEF Merge
  <2> QED
    BY <2>1, <1>2, AheadIsFurtherAlong DEF BehindOn, NotBehind
<1> QED
  BY <1>3, <1>4, <1>5, <1>6

\* A session that redraws with a reading the record already holds changes nothing:
\* "an idle session echoing what is already there yields exactly recorded back".
THEOREM MergeIsIdempotent ==
    ASSUME NEW recorded \in Snapshots, NEW incoming \in Snapshots
    PROVE  LET merged == Merge(recorded, incoming)
           IN  Merge(merged, incoming) = merged
<1> DEFINE merged == Merge(recorded, incoming)
           again == Merge(merged, incoming)
<1>1. merged \in Snapshots
  BY MergeType
<1>2. \A w \in Windows : /\ recorded.windows[w] \in UsageWindows \cup {NoWindow}
                         /\ incoming.windows[w] \in UsageWindows \cup {NoWindow}
                         /\ merged.windows[w] = Pick(recorded.windows[w], incoming.windows[w])
                         /\ again.windows[w] = Pick(merged.windows[w], incoming.windows[w])
  BY <1>1, SnapshotType DEF Merge
<1>3. \A w \in Windows : again.windows[w] = merged.windows[w]
  <2> SUFFICES ASSUME NEW w \in Windows
               PROVE  again.windows[w] = merged.windows[w]
    OBVIOUS
  <2>1. ~FurtherAlong(incoming.windows[w], incoming.windows[w]) \/ incoming.windows[w] = NoWindow
    BY <1>2, NotFurtherAlongThanItself
  <2> QED
    BY <1>2, <2>1, AheadIsFurtherAlong DEF Pick
<1>4. \A w \in Windows : BehindOn(merged.windows[w], incoming.windows[w])
                            <=> BehindOn(recorded.windows[w], incoming.windows[w])
  <2> SUFFICES ASSUME NEW w \in Windows
               PROVE  BehindOn(merged.windows[w], incoming.windows[w])
                         <=> BehindOn(recorded.windows[w], incoming.windows[w])
    OBVIOUS
  <2> QED
    BY <1>2, AheadIsFurtherAlong, FurtherAlongIsStrict, NotFurtherAlongThanItself
       DEF Pick, BehindOn
<1>5. again.fetched_at = merged.fetched_at
  BY <1>1, <1>4, SnapshotType DEF Merge
<1>6. /\ again = [windows |-> again.windows, fetched_at |-> again.fetched_at]
      /\ merged = [windows |-> merged.windows, fetched_at |-> merged.fetched_at]
  BY <1>1, SnapshotType DEF Merge
<1>7. again.windows = merged.windows
  BY <1>1, <1>3, SnapshotType, MergeType
<1> QED
  BY <1>5, <1>6, <1>7

-----------------------------------------------------------------------------
(* The recorded reading.                                                   *)

Contents == Snapshots \cup {Absent, Empty, Torn}
Damaged == {Empty, Torn}

\* No snapshot anywhere is stamped later than now.
Past(r) == r \in Snapshots => r.fetched_at <= now
PastInv ==
    /\ \A n \in Names : Past(disk[n])
    /\ \A s \in Sessions : Past(bridge[s].observed) /\ Past(bridge[s].recorded)

TypeInv ==
    /\ now \in 0..MaxTime
    /\ latest \in [Windows -> UsageWindows \cup {NoWindow}]
    /\ held \in [Sessions -> Reported \cup {Cold}]
    /\ bridge \in [Sessions -> Bridges]
    /\ disk \in [Names -> Contents]
    /\ fd \in [Sessions -> Names \cup {"gone", "closed"}]
    /\ faults \in 0..MaxFaults
    /\ overlapped \in BOOLEAN
    /\ \A s \in Sessions : Running(s) => bridge[s].observed \in Snapshots

\* A bridge that runs alone: what it read is what the file still holds, and the
\* temporary file is its own.
Alone(s) ==
    /\ bridge[s].step \in {"recording", "filling", "filled"} => bridge[s].recorded = Recorded
    /\ bridge[s].step = "filling" => fd[s] = "tmp" /\ disk.tmp = Empty
    /\ bridge[s].step = "filled" => disk.tmp = Merged(s)

\* The inductive invariant.
StatuslineInv ==
    /\ TypeInv
    /\ PastInv
    /\ ~overlapped =>
          /\ \A s, t \in Sessions : Running(s) /\ Running(t) => s = t
          /\ disk.path \notin Damaged
          /\ \A s \in Sessions : Alone(s)

LEMMA InitInv == Init => StatuslineInv
<1> SUFFICES ASSUME Init PROVE StatuslineInv
  OBVIOUS
<1> USE DEF Init
<1>1. disk = [n \in Names |-> Absent]
  BY DEF FileInit, Names
<1>2. TypeInv
  <2>1. now \in 0..MaxTime /\ faults \in 0..MaxFaults
    BY FreshnessAssumption, StatuslineAssumption
  <2>6. /\ overlapped \in BOOLEAN
        /\ latest \in [Windows -> UsageWindows \cup {NoWindow}]
        /\ held \in [Sessions -> Reported \cup {Cold}]
    OBVIOUS
  <2>2. bridge \in [Sessions -> Bridges]
    BY DEF Bridges, Idle, Steps, Readings
  <2>3. disk \in [Names -> Contents]
    BY <1>1 DEF Contents
  <2>4. fd \in [Sessions -> Names \cup {"gone", "closed"}]
    BY DEF FileInit
  <2>5. \A s \in Sessions : ~Running(s)
    BY DEF Running, Idle
  <2> QED
    BY <2>1, <2>2, <2>3, <2>4, <2>5, <2>6 DEF TypeInv
<1>3. PastInv
  BY <1>1, NoReadingAssumption, StatuslineAssumption DEF PastInv, Past, Idle
<1> QED
  BY <1>1, <1>2, <1>3, StatuslineAssumption
     DEF StatuslineInv, Damaged, Alone, Running, Idle, Names

-----------------------------------------------------------------------------

\* What a reader makes of the file: its snapshot, or nothing.
LEMMA RecordedIsTheFile ==
    ASSUME TypeInv
    PROVE  /\ Recorded \in Readings
           /\ Recorded # NoSnapshot => Recorded = disk.path /\ disk.path \in Snapshots
           /\ disk.path \in Snapshots => Recorded = disk.path
  BY StatuslineAssumption, NoReadingAssumption
     DEF TypeInv, Contents, Names, Recorded, Reads, Readings

\* What a bridge writes is a snapshot, and not from the future.
LEMMA MergedIsASnapshot ==
    ASSUME TypeInv, PastInv, NEW s \in Sessions, Running(s)
    PROVE  Merged(s) \in Snapshots /\ Past(Merged(s))
<1>1. bridge[s].observed \in Snapshots /\ bridge[s].recorded \in Snapshots \cup {NoSnapshot}
  BY DEF TypeInv, Bridges, Readings
<1>2. Merged(s) \in Snapshots
  BY <1>1, MergeType DEF Merged
<1>3. Merged(s).fetched_at \in {bridge[s].observed.fetched_at, bridge[s].recorded.fetched_at}
      /\ (bridge[s].recorded = NoSnapshot => Merged(s) = bridge[s].observed)
  BY DEF Merged, Merge
<1>4. Past(bridge[s].observed) /\ Past(bridge[s].recorded)
  BY DEF PastInv
<1> QED
  BY <1>1, <1>2, <1>3, <1>4 DEF Past

LEMMA TickInv ==
    ASSUME StatuslineInv, Tick
    PROVE  StatuslineInv'
<1>1. TypeInv'
  BY FreshnessAssumption DEF StatuslineInv, TypeInv, Tick, sessionVars, fileVars, Running
<1>2. PastInv'
  <2>1. ASSUME NEW r, Past(r)
        PROVE  Past(r)'
    BY <2>1, SnapshotType DEF StatuslineInv, TypeInv, Tick, Past
  <2> QED
    BY <2>1 DEF StatuslineInv, PastInv, Tick, fileVars
<1> QED
  BY <1>1, <1>2 DEF StatuslineInv, Tick, sessionVars, fileVars, Alone, Running, Recorded,
                    Merged, Reads

LEMMA HearInv ==
    ASSUME StatuslineInv, NEW s \in Sessions, NEW windows \in Responses, Hear(s, windows)
    PROVE  StatuslineInv'
<1>1. windows \in Reported
  BY StatuslineAssumption
<1>2. TypeInv'
  <2>1. latest' \in [Windows -> UsageWindows \cup {NoWindow}]
    BY <1>1 DEF StatuslineInv, TypeInv, Hear, Reported
  <2>2. held' \in [Sessions -> Reported \cup {Cold}]
    BY <1>1 DEF StatuslineInv, TypeInv, Hear
  <2> QED
    BY <2>1, <2>2 DEF StatuslineInv, TypeInv, Hear, fileVars, Running
<1> QED
  BY <1>2 DEF StatuslineInv, Hear, fileVars, PastInv, Past, Alone, Running, Recorded, Merged,
              Reads

LEMMA RedrawInv ==
    ASSUME StatuslineInv, NEW s \in Sessions, Redraw(s)
    PROVE  StatuslineInv'
<1>1. PICK modified \in 0..MaxTime :
          bridge' = [bridge EXCEPT ![s] =
              [step |-> "spawned", recorded |-> NoSnapshot,
               observed |-> [windows |-> held[s], fetched_at |-> ObservedAt(modified)]]]
  BY DEF Redraw
<1> DEFINE observed == [windows |-> held[s], fetched_at |-> ObservedAt(modified)]
<1>2. observed \in Snapshots /\ observed.fetched_at <= now
  BY FreshnessAssumption DEF StatuslineInv, TypeInv, Redraw, Snapshots, ObservedAt
<1>3. /\ bridge[s] \in Bridges /\ bridge'[s].step = "spawned"
      /\ bridge'[s].observed = observed /\ bridge'[s].recorded = NoSnapshot
      /\ \A t \in Sessions \ {s} : bridge'[t] = bridge[t]
  BY <1>1 DEF StatuslineInv, TypeInv
<1>4. TypeInv'
  <2>1. bridge' \in [Sessions -> Bridges]
    BY <1>1, <1>2 DEF StatuslineInv, TypeInv, Bridges, Steps, Readings
  <2>2. overlapped' \in BOOLEAN
    BY DEF Redraw, StatuslineInv, TypeInv
  <2> QED
    BY <2>1, <2>2, <1>2, <1>3 DEF StatuslineInv, TypeInv, Redraw, sessionVars, fileVars, Running
<1>5. PastInv'
  <2>1. Past(NoSnapshot)
    BY NoReadingAssumption DEF Past
  <2> QED
    BY <1>2, <1>3, <2>1, SnapshotType, NoReadingAssumption
       DEF StatuslineInv, PastInv, Past, Redraw, fileVars
<1>6. ASSUME ~overlapped'
      PROVE  /\ \A t \in Sessions \ {s} : ~Running(t)
             /\ ~overlapped
  BY <1>6 DEF Redraw
<1> QED
  BY <1>3, <1>4, <1>5, <1>6
     DEF StatuslineInv, Redraw, fileVars, sessionVars, Alone, Running, Recorded, Merged, Reads

\* A bridge that ends, however it ends, leaves the others as they were.
LEMMA EndsInv ==
    ASSUME StatuslineInv, NEW s \in Sessions, Ends(s),
           fd' \in [Sessions -> Names \cup {"gone", "closed"}],
           \A t \in Sessions \ {s} : fd'[t] = fd[t],
           faults' \in 0..MaxFaults,
           UNCHANGED <<now, sessionVars, disk, overlapped>>
    PROVE  StatuslineInv'
<1>1. /\ bridge'[s] = Idle
      /\ \A t \in Sessions \ {s} : bridge'[t] = bridge[t]
  BY DEF Ends, StatuslineInv, TypeInv
<1>2. TypeInv'
  <2>1. bridge' \in [Sessions -> Bridges]
    BY DEF Ends, StatuslineInv, TypeInv, Bridges, Idle, Steps, Readings
  <2> QED
    BY <2>1, <1>1 DEF StatuslineInv, TypeInv, sessionVars, Running, Idle
<1>3. PastInv'
  BY <1>1, NoReadingAssumption DEF StatuslineInv, PastInv, Past, Idle
<1> QED
  BY <1>1, <1>2, <1>3 DEF StatuslineInv, sessionVars, Alone, Running, Idle, Recorded, Merged, Reads

\* A bridge that moves on to another step of its own, with the reading it observed.
LEMMA MovesOn ==
    ASSUME StatuslineInv, NEW s \in Sessions, Running(s),
           bridge' \in [Sessions -> Bridges],
           bridge'[s].observed = bridge[s].observed,
           Past(bridge'[s].recorded),
           \A t \in Sessions \ {s} : bridge'[t] = bridge[t],
           disk' \in [Names -> Contents],
           \A n \in Names : Past(disk'[n]),
           fd' \in [Sessions -> Names \cup {"gone", "closed"}],
           UNCHANGED <<now, sessionVars, faults, overlapped>>
    PROVE  TypeInv' /\ PastInv'
<1>1. TypeInv'
  BY DEF StatuslineInv, TypeInv, sessionVars, Running
<1>2. PastInv'
  BY DEF StatuslineInv, PastInv, Past
<1> QED
  BY <1>1, <1>2

LEMMA ReadInv ==
    ASSUME StatuslineInv, NEW s \in Sessions, ReadAndMerge(s)
    PROVE  StatuslineInv'
<1>1. CASE NeedsWrite(Recorded, Merge(Recorded, bridge[s].observed))
  <2>1. /\ Running(s) /\ Recorded \in Readings /\ Past(Recorded)
    <3>1. Recorded \in Readings /\ (Recorded # NoSnapshot => Recorded = disk.path)
      BY RecordedIsTheFile DEF StatuslineInv
    <3>2. Past(disk["path"])
      BY DEF StatuslineInv, PastInv, Names
    <3> QED
      BY <3>1, <3>2, NoReadingAssumption DEF Past, ReadAndMerge, Running
  <2>2. bridge' = [bridge EXCEPT ![s].step = "recording", ![s].recorded = Recorded]
    BY <1>1 DEF ReadAndMerge
  <2>3. UNCHANGED <<now, sessionVars, fileVars, faults, overlapped>>
    BY DEF ReadAndMerge
  <2>4. /\ bridge'[s].step = "recording" /\ bridge'[s].recorded = Recorded
        /\ bridge'[s].observed = bridge[s].observed
        /\ \A t \in Sessions \ {s} : bridge'[t] = bridge[t]
        /\ bridge' \in [Sessions -> Bridges]
    BY <2>1, <2>2 DEF StatuslineInv, TypeInv, Bridges, Steps
  <2>5. TypeInv' /\ PastInv'
    <3>1. /\ disk' \in [Names -> Contents] /\ (\A n \in Names : Past(disk'[n]))
          /\ fd' \in [Sessions -> Names \cup {"gone", "closed"}]
          /\ UNCHANGED <<now, sessionVars, faults, overlapped>>
      BY <2>3 DEF StatuslineInv, TypeInv, PastInv, fileVars
    <3>2. Past(bridge'[s].recorded)
      BY <2>1, <2>4
    <3> QED
      BY <2>1, <2>4, <3>1, <3>2, MovesOn
  <2> QED
    BY <2>1, <2>3, <2>4, <2>5
       DEF StatuslineInv, fileVars, Alone, Running, Recorded, Merged, Reads
<1>2. CASE ~NeedsWrite(Recorded, Merge(Recorded, bridge[s].observed))
  <2>1. Ends(s) /\ UNCHANGED <<now, sessionVars, fileVars, faults, overlapped>>
    BY <1>2 DEF ReadAndMerge
  <2> QED
    BY <2>1, EndsInv DEF fileVars, StatuslineInv, TypeInv
<1> QED
  BY <1>1, <1>2

LEMMA OpenInv ==
    ASSUME StatuslineInv, NEW s \in Sessions, OpenRecord(s)
    PROVE  StatuslineInv'
<1>1. /\ bridge[s].step = "recording" /\ bridge' = [bridge EXCEPT ![s].step = "filling"]
      /\ disk' = [disk EXCEPT !.tmp = Empty] /\ fd' = [fd EXCEPT ![s] = "tmp"]
      /\ UNCHANGED <<now, sessionVars, faults, overlapped>>
  BY DEF OpenRecord, OpenTmp
<1>2. /\ disk' \in [Names -> Contents] /\ disk'["path"] = disk["path"] /\ disk'["tmp"] = Empty
      /\ fd' \in [Sessions -> Names \cup {"gone", "closed"}] /\ fd'[s] = "tmp"
      /\ Running(s)
  BY <1>1 DEF StatuslineInv, TypeInv, Contents, Names, Running
<1>3. \A n \in Names : Past(disk'[n])
  BY <1>2, StatuslineAssumption DEF StatuslineInv, PastInv, Past, Names
<1>4. /\ bridge'[s].step = "filling" /\ bridge'[s].recorded = bridge[s].recorded
      /\ bridge'[s].observed = bridge[s].observed
      /\ \A t \in Sessions \ {s} : bridge'[t] = bridge[t]
      /\ bridge' \in [Sessions -> Bridges]
  BY <1>1 DEF StatuslineInv, TypeInv, Bridges, Steps
<1>5. TypeInv' /\ PastInv'
  <2>1. UNCHANGED <<now, sessionVars, faults, overlapped>> /\ Past(bridge'[s].recorded)
    BY <1>1, <1>4 DEF StatuslineInv, PastInv, Past
  <2>2. disk' \in [Names -> Contents] /\ fd' \in [Sessions -> Names \cup {"gone", "closed"}]
    BY <1>2
  <2> QED
    BY <1>2, <1>3, <1>4, <2>1, <2>2, MovesOn
<1> QED
  BY <1>1, <1>2, <1>4, <1>5 DEF StatuslineInv, Alone, Running, Recorded, Merged, Reads

LEMMA FillInv ==
    ASSUME StatuslineInv, NEW s \in Sessions, FillRecord(s)
    PROVE  StatuslineInv'
<1>1. /\ bridge[s].step = "filling" /\ bridge' = [bridge EXCEPT ![s].step = "filled"]
      /\ fd' = [fd EXCEPT ![s] = "closed"]
      /\ UNCHANGED <<now, sessionVars, faults, overlapped>>
  BY DEF FillRecord, FillTmp, Close
<1>2. Running(s) /\ Merged(s) \in Snapshots /\ Past(Merged(s))
  BY <1>1, MergedIsASnapshot DEF StatuslineInv, Running
<1>3. \/ UNCHANGED disk
      \/ /\ fd[s] \in Names
         /\ \E written \in {Merged(s), Torn} : disk' = [disk EXCEPT ![fd[s]] = written]
  BY DEF FillRecord, FillTmp
<1>4. disk' \in [Names -> Contents] /\ \A n \in Names : Past(disk'[n])
  BY <1>2, <1>3, StatuslineAssumption DEF StatuslineInv, TypeInv, PastInv, Past, Contents
<1>5. /\ bridge'[s].step = "filled" /\ bridge'[s].recorded = bridge[s].recorded
      /\ bridge'[s].observed = bridge[s].observed
      /\ \A t \in Sessions \ {s} : bridge'[t] = bridge[t]
      /\ bridge' \in [Sessions -> Bridges]
  BY <1>1 DEF StatuslineInv, TypeInv, Bridges, Steps
<1>6. TypeInv' /\ PastInv'
  <2>1. /\ UNCHANGED <<now, sessionVars, faults, overlapped>> /\ Past(bridge'[s].recorded)
        /\ fd' \in [Sessions -> Names \cup {"gone", "closed"}]
    BY <1>1, <1>5 DEF StatuslineInv, TypeInv, PastInv, Past
  <2> QED
    BY <1>2, <1>4, <1>5, <2>1, MovesOn
<1>7. ASSUME ~overlapped
      PROVE  disk'.tmp = Merged(s) /\ disk'.path = disk.path
  <2>1. fd[s] = "tmp" /\ disk["tmp"] = Empty
    BY <1>1, <1>7 DEF StatuslineInv, Alone
  <2>2. disk' = [disk EXCEPT !["tmp"] = Merged(s)]
    BY <2>1 DEF FillRecord, FillTmp, Names
  <2> QED
    BY <2>2 DEF StatuslineInv, TypeInv, Names
<1>8. Merged(s)' = Merged(s)
  BY <1>5 DEF Merged
<1> QED
  BY <1>1, <1>2, <1>5, <1>6, <1>7, <1>8 DEF StatuslineInv, Alone, Running, Recorded, Reads

LEMMA PublishInv ==
    ASSUME StatuslineInv, NEW s \in Sessions, Publish(s)
    PROVE  StatuslineInv'
<1>1. /\ bridge[s].step = "filled" /\ Ends(s) /\ disk.tmp # Absent
      /\ disk' = [path |-> disk.tmp, tmp |-> Absent]
      /\ UNCHANGED <<now, sessionVars, faults, overlapped>>
  BY DEF Publish, RenameTmp
<1>2. /\ bridge'[s] = Idle
      /\ \A t \in Sessions \ {s} : bridge'[t] = bridge[t]
      /\ bridge' \in [Sessions -> Bridges]
  BY <1>1 DEF Ends, StatuslineInv, TypeInv, Bridges, Idle, Steps, Readings
<1>3. disk' \in [Names -> Contents] /\ disk'["path"] = disk["tmp"] /\ disk'["tmp"] = Absent
  BY <1>1 DEF StatuslineInv, TypeInv, Names, Contents
<1>4. fd' \in [Sessions -> Names \cup {"gone", "closed"}]
  BY DEF Publish, RenameTmp, StatuslineInv, TypeInv, Names
<1>5. TypeInv'
  BY <1>1, <1>2, <1>3, <1>4 DEF StatuslineInv, TypeInv, sessionVars, Running, Idle
<1>6. PastInv'
  <2>1. \A n \in Names : Past(disk'[n])
    BY <1>3, StatuslineAssumption DEF StatuslineInv, PastInv, Past, Names
  <2> QED
    BY <2>1, <1>1, <1>2, NoReadingAssumption DEF StatuslineInv, PastInv, Past, Idle
<1>7. ASSUME ~overlapped
      PROVE  /\ disk'.path = Merged(s) /\ Merged(s) \in Snapshots
             /\ \A t \in Sessions : ~Running(t)'
  <2>1. Running(s)
    BY <1>1 DEF Running
  <2> QED
    BY <2>1, <1>1, <1>2, <1>7, MergedIsASnapshot DEF StatuslineInv, Alone, Running, Idle
<1> QED
  BY <1>1, <1>5, <1>6, <1>7, StatuslineAssumption DEF StatuslineInv, Damaged, Alone, Running

LEMMA NextInv == StatuslineInv /\ [Next]_vars => StatuslineInv'
<1> SUFFICES ASSUME StatuslineInv, [Next]_vars
             PROVE  StatuslineInv'
  OBVIOUS
<1>1. CASE Tick
  BY <1>1, TickInv
<1>2. ASSUME NEW s \in Sessions, NEW windows \in Responses, Hear(s, windows)
      PROVE  StatuslineInv'
  BY <1>2, HearInv
<1>3. ASSUME NEW s \in Sessions, Redraw(s)
      PROVE  StatuslineInv'
  BY <1>3, RedrawInv
<1>4. ASSUME NEW s \in Sessions, BridgeStep(s)
      PROVE  StatuslineInv'
  <2>1. CASE PublishFails(s)
    BY <2>1, EndsInv DEF PublishFails, fileVars, StatuslineInv, TypeInv
  <2> QED
    BY <1>4, <2>1, ReadInv, OpenInv, FillInv, PublishInv DEF BridgeStep
<1>5. ASSUME NEW s \in Sessions, WriteFails(s) \/ Kill(s)
      PROVE  StatuslineInv'
  <2>1. /\ Ends(s) /\ UNCHANGED <<now, sessionVars, disk, overlapped>>
        /\ fd' = [fd EXCEPT ![s] = "closed"] /\ faults' = faults + 1 /\ faults < MaxFaults
    BY <1>5 DEF WriteFails, Kill, Close
  <2>2. /\ fd' \in [Sessions -> Names \cup {"gone", "closed"}]
        /\ \A t \in Sessions \ {s} : fd'[t] = fd[t]
        /\ faults' \in 0..MaxFaults
    BY <2>1, StatuslineAssumption DEF StatuslineInv, TypeInv
  <2> QED
    BY <2>1, <2>2, EndsInv
<1>6. CASE UNCHANGED vars
  BY <1>6 DEF vars, sessionVars, fileVars, StatuslineInv, TypeInv, PastInv, Past, Alone, Running,
              Recorded, Merged, Reads
<1> QED
  BY <1>1, <1>2, <1>3, <1>4, <1>5, <1>6 DEF Next

LEMMA InvHolds == Spec => []StatuslineInv
  BY InitInv, NextInv, PTL DEF Spec

-----------------------------------------------------------------------------

\* The variables keep their types, and no reading in the file or on its way there is
\* stamped later than now, whatever the transcripts' times are (observed_at).
THEOREM StatuslineTypeCorrect == Spec => []StatuslineTypeOK
<1>1. StatuslineInv => StatuslineTypeOK
  <2> SUFFICES ASSUME StatuslineInv PROVE StatuslineTypeOK
    OBVIOUS
  <2>1. Recorded # NoSnapshot => Recorded.fetched_at <= now
    <3>1. Recorded # NoSnapshot => Recorded = disk["path"] /\ disk["path"] \in Snapshots
      BY RecordedIsTheFile DEF StatuslineInv
    <3> QED
      BY <3>1 DEF StatuslineInv, PastInv, Past, Names
  <2>2. \A s \in Sessions : bridge[s].observed # NoSnapshot => bridge[s].observed.fetched_at <= now
    BY DEF StatuslineInv, TypeInv, PastInv, Past, Bridges, Readings
  <2> QED
    BY <2>1, <2>2 DEF StatuslineTypeOK, StatuslineInv, TypeInv, Contents
<1> QED
  BY <1>1, InvHolds, PTL

\* Only bridges that ran at the same time can leave an unreadable file: one that runs
\* alone may die at any point of atomic_replace.
THEOREM OnlyOverlapsTear == Spec => []OnlyOverlapTears
<1>1. StatuslineInv => OnlyOverlapTears
  BY DEF StatuslineInv, OnlyOverlapTears, Damaged
<1> QED
  BY <1>1, InvHolds, PTL

\* Without overlap the file changes only as a bridge publishes the merge of what the
\* file holds and what it observed.
LEMMA FileChangesByMerge ==
    ASSUME StatuslineInv, [Next]_vars, ~overlapped'
    PROVE  \/ Recorded' = Recorded
           \/ \E s \in Sessions :
                 /\ \A t \in Sessions : Running(t) => t = s
                 /\ bridge[s].observed \in Snapshots
                 /\ Recorded' = Merge(Recorded, bridge[s].observed)
<1>1. ~overlapped
  BY DEF Next, vars, Tick, Hear, Redraw, BridgeStep, ReadAndMerge, OpenRecord, FillRecord,
         Publish, PublishFails, WriteFails, Kill
<1>2. ASSUME NEW s \in Sessions, Publish(s)
      PROVE  /\ \A t \in Sessions : Running(t) => t = s
             /\ bridge[s].observed \in Snapshots
             /\ Recorded' = Merge(Recorded, bridge[s].observed)
  <2>1. bridge[s].step = "filled" /\ disk' = [path |-> disk.tmp, tmp |-> Absent]
    BY <1>2 DEF Publish, RenameTmp
  <2>2. Running(s)
    BY <2>1 DEF Running
  <2>3. /\ \A t \in Sessions : Running(t) => t = s
        /\ disk.tmp = Merged(s) /\ bridge[s].recorded = Recorded
        /\ bridge[s].observed \in Snapshots
    BY <1>1, <2>1, <2>2 DEF StatuslineInv, TypeInv, Alone
  <2>4. Merged(s) \in Snapshots
    BY <2>2, MergedIsASnapshot DEF StatuslineInv
  <2>5. Recorded' = Merged(s)
    BY <2>1, <2>3, <2>4, StatuslineAssumption DEF Recorded, Reads
  <2> QED
    BY <2>3, <2>5 DEF Merged
<1>3. ASSUME NEW s \in Sessions, OpenRecord(s) \/ FillRecord(s)
      PROVE  Recorded' = Recorded
  <2>1. CASE OpenRecord(s)
    BY <2>1 DEF OpenRecord, OpenTmp, StatuslineInv, TypeInv, Names, Recorded, Reads
  <2>2. CASE FillRecord(s)
    <3>1. fd[s] = "tmp"
      BY <1>1, <2>2 DEF FillRecord, StatuslineInv, Alone
    <3>2. UNCHANGED disk \/ \E written : disk' = [disk EXCEPT !["tmp"] = written]
      BY <2>2, <3>1 DEF FillRecord, FillTmp
    <3> QED
      BY <3>2 DEF StatuslineInv, TypeInv, Names, Recorded, Reads
  <2> QED
    BY <1>3, <2>1, <2>2
<1>4. ASSUME UNCHANGED disk
      PROVE  Recorded' = Recorded
  BY <1>4 DEF Recorded, Reads
<1>5. \/ \E s \in Sessions : Publish(s) \/ OpenRecord(s) \/ FillRecord(s)
      \/ UNCHANGED disk
  BY DEF Next, vars, fileVars, Tick, Hear, Redraw, BridgeStep, ReadAndMerge, PublishFails,
         WriteFails, Kill
<1> QED
  BY <1>2, <1>3, <1>4, <1>5

\* Without overlap the record never falls back, in any window, in its age or to an
\* unreadable file, whoever redraws (update and freshness::merge).
THEOREM RecordNeverFallsBack == Spec => NeverFallsBack
<1>1. ASSUME StatuslineInv, [Next]_vars, ~overlapped', Recorded # NoSnapshot
      PROVE  /\ Recorded' # NoSnapshot
             /\ Covers(Recorded'.windows, Recorded.windows)
             /\ Recorded'.fetched_at >= Recorded.fetched_at
  <2>1. Recorded \in Snapshots
    BY <1>1, RecordedIsTheFile DEF StatuslineInv, Readings
  <2>2. CASE Recorded' = Recorded
    <3>1. Covers(Recorded.windows, Recorded.windows)
      BY <2>1, SnapshotType, NotFurtherAlongThanItself DEF Covers, NotBehind
    <3> QED
      BY <1>1, <2>1, <2>2, <3>1, SnapshotType
  <2>3. ASSUME NEW s \in Sessions, bridge[s].observed \in Snapshots,
               Recorded' = Merge(Recorded, bridge[s].observed)
        PROVE  /\ Recorded' # NoSnapshot
               /\ Covers(Recorded'.windows, Recorded.windows)
               /\ Recorded'.fetched_at >= Recorded.fetched_at
    BY <2>1, <2>3, MergeKeepsTheNewest, MergeType, SnapshotType
  <2> QED
    BY <1>1, <2>2, <2>3, FileChangesByMerge
<1> QED
  BY <1>1, InvHolds, PTL DEF Spec, NeverFallsBack

\* "A session cannot vouch for numbers newer than its own": without overlap the record
\* becomes younger only by a session that is behind it on no window.
THEOREM NewestVouch == Spec => OnlyTheNewestVouch
<1>1. ASSUME StatuslineInv, [Next]_vars, NEW s \in Sessions,
             ~overlapped', Running(s), Recorded # NoSnapshot, Recorded' # NoSnapshot,
             Recorded'.fetched_at > Recorded.fetched_at
      PROVE  NotBehind(bridge[s].observed.windows, Recorded.windows)
  <2>1. Recorded \in Snapshots
    BY <1>1, RecordedIsTheFile DEF StatuslineInv, Readings
  <2>2. Recorded' # Recorded
    BY <1>1, <2>1, SnapshotType
  <2>3. bridge[s].observed \in Snapshots /\ Recorded' = Merge(Recorded, bridge[s].observed)
    BY <1>1, <2>2, FileChangesByMerge
  <2> QED
    BY <1>1, <2>1, <2>3, MergeKeepsTheNewest
<1>2. ASSUME StatuslineInv, [Next]_vars
      PROVE  \A s \in Sessions :
                /\ ~overlapped' /\ Running(s)
                /\ Recorded # NoSnapshot /\ Recorded' # NoSnapshot
                /\ Recorded'.fetched_at > Recorded.fetched_at
                => NotBehind(bridge[s].observed.windows, Recorded.windows)
  BY <1>1, <1>2
<1> QED
  BY <1>2, InvHolds, PTL DEF Spec, OnlyTheNewestVouch
=============================================================================
