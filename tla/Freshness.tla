------------------------------ MODULE Freshness ------------------------------
(***************************************************************************)
(* Which of two readings is newer, and the reading that keeps the newest   *)
(* of both (meter-files/src/statusline/freshness.rs, with progress_cmp of  *)
(* meter-core/src/window.rs).  The order comes from the readings alone:    *)
(* no clock is trusted.                                                    *)
(***************************************************************************)
EXTENDS Cycles

CONSTANTS
    Windows,        \* the two headline windows
    MaxCycle,       \* bound on the cycles of a model
    MaxUtilization, \* bound on the utilization
    MaxTime,        \* bound on the clock
    NoWindow,       \* a window that a reading does not report
    NoSnapshot      \* None

ASSUME FreshnessAssumption ==
    MaxCycle \in Nat /\ MaxUtilization \in Nat /\ MaxTime \in Nat

\* One window of a reading.  It carries its cycle as ResetsAt only.
UsageWindows == [cycle : 1..MaxCycle, drift : 0..ResetJitter,
                 utilization : 0..MaxUtilization]
ResetsAt(u) == ReportedReset(u.cycle, u.drift)

\* headline_snapshot: a reading without any window is no reading.
Reported == {windows \in [Windows -> UsageWindows \cup {NoWindow}] :
                \E w \in Windows : windows[w] # NoWindow}
Snapshots == [windows : Reported, fetched_at : 0..MaxTime]

ASSUME NoReadingAssumption == NoWindow \notin UsageWindows /\ NoSnapshot \notin Snapshots

-----------------------------------------------------------------------------

\* progress_cmp = Greater: a later cycle, or further into the same one.
Ahead(a, b) ==
    IF SharesCycleWith(ResetsAt(a), ResetsAt(b))
    THEN a.utilization > b.utilization
    ELSE ResetsAt(a) > ResetsAt(b)

\* The reference for Ahead, in what the code cannot see: the cycle itself.
FurtherAlong(a, b) ==
    \/ a.cycle > b.cycle
    \/ a.cycle = b.cycle /\ a.utilization > b.utilization

Pick(recorded, incoming) ==
    IF recorded = NoWindow \/ (incoming # NoWindow /\ Ahead(incoming, recorded))
    THEN incoming ELSE recorded

BehindOn(recorded, incoming) ==
    recorded # NoWindow /\ incoming # NoWindow /\ Ahead(recorded, incoming)

\* Mutant of Merge: the reading that comes last wins.
MutLastWins(recorded, incoming) == incoming

\* Mutant of Merge: any reading makes the record young again.
MutAnyoneVouches(recorded, incoming) ==
    IF recorded = NoSnapshot THEN incoming
    ELSE [windows |-> [w \in Windows |-> Pick(recorded.windows[w], incoming.windows[w])],
          fetched_at |-> IF recorded.fetched_at > incoming.fetched_at
                         THEN recorded.fetched_at ELSE incoming.fetched_at]

\* The newest knowledge of each window; the time advances only by a reading that
\* is not behind on any of them.
Merge(recorded, incoming) ==
    IF recorded = NoSnapshot THEN incoming
    ELSE [windows |-> [w \in Windows |-> Pick(recorded.windows[w], incoming.windows[w])],
          fetched_at |->
              IF \/ recorded.fetched_at > incoming.fetched_at
                 \/ \E w \in Windows : BehindOn(recorded.windows[w], incoming.windows[w])
              THEN recorded.fetched_at ELSE incoming.fetched_at]

\* On no window that both report, the others are further along.
NotBehind(windows, others) ==
    \A w \in Windows : windows[w] # NoWindow /\ others[w] # NoWindow
                          => ~FurtherAlong(others[w], windows[w])

\* One reading holds everything another one reports, or something newer.
Covers(windows, others) ==
    /\ \A w \in Windows : others[w] # NoWindow => windows[w] # NoWindow
    /\ NotBehind(windows, others)
=============================================================================
