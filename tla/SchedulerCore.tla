---------------------------- MODULE SchedulerCore ----------------------------
(***************************************************************************)
(* The decisions of src-tauri/src/scheduler/core.rs as operators: whether  *)
(* a wake-up reaches the network, how an outcome moves the phase, how long *)
(* the loop waits next and how old a reading may get.  Time is counted in  *)
(* ticks, and a snapshot carries its AGE (now - fetched_at) rather than an *)
(* instant, which keeps the state finite without stopping the clock.       *)
(***************************************************************************)
EXTENDS Integers

CONSTANTS
    MemoryTTL,          \* MEMORY_TTL: a forced refresh within this age is served from memory
    Intervals,          \* the values of RefreshInterval::duration
    StatuslinePoll,     \* STATUSLINE_POLL, the status-line source's own cadence
    BackoffBase,        \* BACKOFF_BASE_SECS
    BackoffCap,         \* BACKOFF_CAP_SECS
    MaxShift,           \* the largest exponent backoff_delay uses
    FailureCap,         \* where the failure counter saturates (u32::MAX in the code)
    DriftThreshold,     \* DRIFT_THRESHOLD_SECS
    StaleAfterIntervals,\* STALE_AFTER_INTERVALS
    AgeCap,             \* bound: an age of AgeCap stands for "AgeCap or more"
    Readings,           \* what a snapshot reports; only its identity matters here
    NoSnapshot          \* Option::None for a snapshot

\* The bounds the decisions are sound for.  MemoryTTL is below every polling
\* interval ("so scheduled ticks are never suppressed"), and ages are told
\* apart up to the oldest one any decision looks at.
ASSUME CoreAssumption ==
    /\ Intervals \subseteq Nat /\ Intervals # {}
    /\ MemoryTTL \in Nat \ {0}
    /\ \A i \in Intervals : MemoryTTL < i /\ StaleAfterIntervals * i < AgeCap
    /\ StatuslinePoll \in Nat \ {0}
    /\ BackoffBase \in Nat \ {0} /\ BackoffCap \in Nat \ {0}
    /\ MaxShift \in Nat /\ FailureCap \in Nat \ {0}
    /\ DriftThreshold \in Nat
    /\ StaleAfterIntervals \in Nat \ {0}
    /\ AgeCap \in Nat

\* MaxShift keeps the shifted base from overflowing: it stays a positive number.
ASSUME BackoffAssumption ==
    \A shift \in 0..MaxShift : BackoffBase * 2^shift \in Nat \ {0}

\* A snapshot whose fetched_at lies one tick in the future has this age: the
\* bound on how far the wall clock may be stepped back past a reading.
MinAge == -1

Ages == MinAge..AgeCap
Snapshots == [age : Ages, usage : Readings]
ASSUME NoSnapshotAssumption == NoSnapshot \notin Snapshots
OptionalSnapshots == Snapshots \cup {NoSnapshot}

Sources == {"claude_ai", "statusline"}
ReachesClaudeAi(source) == source = "claude_ai"

OutcomeKinds == {"Success", "NoSession", "NotAcknowledged", "AwaitingStatusline",
                 "Unauthorized", "Transient"}
Phases == {"Polling", "Degraded", "AwaitingSession", "AwaitingConsent",
           "AwaitingStatusline", "SessionExpired"}
Outcomes == [kind : OutcomeKinds, snapshot : OptionalSnapshots]

\* The phases in which the loop waits for an external wake-up only.
ParkingPhases == {"AwaitingSession", "SessionExpired", "AwaitingConsent"}

-----------------------------------------------------------------------------

Smaller(a, b) == IF a < b THEN a ELSE b

\* Mutants of ShouldFetch: the TTL forgotten; the TTL applied to every source.
MutFetchAlways(snapshot, source, forced) == TRUE
MutFetchTTLOnly(snapshot, source, forced) ==
    ~forced \/ snapshot = NoSnapshot \/ snapshot.age >= MemoryTTL

\* Whether a refresh attempt is dispatched: a scheduled tick always is, a
\* forced one is served from a claude.ai reading younger than the TTL.  A
\* reading from the future has a negative age and counts as young.
ShouldFetch(snapshot, source, forced) ==
    \/ ~forced
    \/ ~ReachesClaudeAi(source)
    \/ snapshot = NoSnapshot
    \/ snapshot.age >= MemoryTTL

\* Mutant of IsNewSnapshot: only the numbers are compared, not fetched_at.
MutIsNewUsage(held, candidate) == held = NoSnapshot \/ held.usage # candidate.usage

IsNewSnapshot(held, candidate) == held # candidate

PhaseAfter(kind) ==
    CASE kind = "Success"            -> "Polling"
      [] kind = "NoSession"          -> "AwaitingSession"
      [] kind = "NotAcknowledged"    -> "AwaitingConsent"
      [] kind = "AwaitingStatusline" -> "AwaitingStatusline"
      [] kind = "Unauthorized"       -> "SessionExpired"
      [] kind = "Transient"          -> "Degraded"

\* Mutant of FailuresAfter: the count does not saturate.
MutFailuresGrow(failures, kind) == IF kind = "Transient" THEN failures + 1 ELSE 0

\* Only a transient failure is counted; the count saturates.
FailuresAfter(failures, kind) ==
    IF kind = "Transient" THEN Smaller(failures + 1, FailureCap) ELSE 0

\* A failure of any kind keeps the previous snapshot.
SnapshotAfter(held, outcome) ==
    IF outcome.kind = "Success" THEN outcome.snapshot ELSE held

-----------------------------------------------------------------------------

PollInterval(interval, source) ==
    IF ReachesClaudeAi(source) THEN interval ELSE StatuslinePoll

BackoffStep(failures) ==
    LET shift == IF failures = 0 THEN 0 ELSE Smaller(failures - 1, MaxShift)
    IN  Smaller(BackoffBase * 2^shift, BackoffCap)

\* Equal jitter: any delay in the upper half of the step.
BackoffDelays(failures) ==
    {d \in 1..BackoffCap : d <= BackoffStep(failures) /\ BackoffStep(failures) <= 2 * d}

\* Mutant of NextDelays: a failing source parks like a dead session.
MutDegradedParks(phase, failures, interval, source) ==
    IF phase \in {"Polling", "AwaitingStatusline"} THEN {PollInterval(interval, source)} ELSE {}

\* The delays next_delay may answer; none means "do not poll until woken".
NextDelays(phase, failures, interval, source) ==
    CASE phase \in ParkingPhases                      -> {}
      [] phase \in {"Polling", "AwaitingStatusline"}  -> {PollInterval(interval, source)}
      [] phase = "Degraded"                           -> BackoffDelays(failures)

\* skew is how far the wall clock ran ahead of the monotonic clock since they
\* were last observed together.
Drifted(skew) == skew > DriftThreshold

Staleness(snapshot, interval) ==
    CASE snapshot = NoSnapshot                                  -> "Missing"
      [] snapshot # NoSnapshot
         /\ snapshot.age > StaleAfterIntervals * interval       -> "Stale"
      [] snapshot # NoSnapshot
         /\ snapshot.age <= StaleAfterIntervals * interval      -> "Fresh"
=============================================================================
