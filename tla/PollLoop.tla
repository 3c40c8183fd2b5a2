------------------------------ MODULE PollLoop ------------------------------
(***************************************************************************)
(* The polling loop (scheduler/mod.rs, run_loop) and its transports        *)
(* (scheduler/transport.rs, scheduler/sourced.rs), with the state they     *)
(* share with the commands: the core behind its mutex, the consent gate,   *)
(* the selected source, the credential store and the one Notify permit.    *)
(*                                                                         *)
(* Each point where the loop reads or writes shared state is a step of its *)
(* own, so that a command of another thread may run between any two.  Time *)
(* passes only while the loop awaits something; the code between two       *)
(* awaits is instantaneous at the scale of a tick, but for on_state: it    *)
(* runs under the core's lock, and what it sets on the tray is set by the  *)
(* main thread, for which it waits.                                        *)
(***************************************************************************)
EXTENDS SchedulerCore, FiniteSets

CONSTANTS
    Keys, NoKey,        \* session keys, and their absence
    Orgs, NoOrg,        \* organisation ids, and their absence
    OrgOf,              \* the first organisation of each key's account (NoOrg: it has none)
    Slice,              \* DRIFT_CHECK_SLICE
    SkewBound,          \* bound on the clock skew between two observations
    LateCap,            \* bound at which the history variable lateRequests saturates
    Faults              \* which faults of the environment a model includes

FaultKinds == {"store", "write", "fails", "hangs", "revoke", "suspend", "step_back", "restart"}

ASSUME LoopAssumption ==
    /\ NoKey \notin Keys /\ NoOrg \notin Orgs
    /\ OrgOf \in [Keys -> Orgs \cup {NoOrg}]
    /\ Slice \in Nat \ {0}
    /\ SkewBound \in Nat /\ SkewBound > DriftThreshold
    /\ LateCap \in Nat
    /\ Faults \subseteq FaultKinds

VARIABLES
    interval, failures, phase, snapshot,  \* SchedulerCore, under its mutex
    skew,               \* wall minus monotonic time since observe_clocks last ran
    consent,            \* ConsentGate
    selection,          \* SourceSelection
    store,              \* the credential store's entry
    permit,             \* the permit notify_one leaves for the next notified()
    orgId,              \* LiveTransport.org_id, the cached organisation
    pc, forced,         \* where run_loop is, and whether its attempt is forced
    key,                \* the key the attempt in flight loaded
    outcome,            \* the FetchOutcome being recorded
    remaining, slice,   \* wait_for_next_tick: time left, and left of this slice
    shown,              \* the MeterState of the last broadcast
    cacheFile, exportFile, \* the snapshots on disk
    server, revoked,    \* the environment: how claude.ai treats requests; the keys it refuses
    lateRequests        \* history: requests sent to claude.ai since consent last changed

coreVars == <<interval, failures, phase, snapshot>>
gateVars == <<consent, selection>>
waitVars == <<remaining, slice>>
fileVars == <<cacheFile, exportFile>>
serverVars == <<server, revoked>>
loopVars == <<coreVars, skew, gateVars, store, permit, orgId, pc, forced, key, outcome,
              waitVars, shown, fileVars, serverVars, lateRequests>>

\* A request is answered by claude.ai, fails (a refusal, an error, no network,
\* a body that does not decode), or stays open: the client sets no timeout.
ServerModes == {"answers", "fails", "hangs"}

\* Where run_loop can be: at a statement between two awaits, awaiting the
\* credential store, a reply of claude.ai, its next tick or a wake-up, or in
\* on_state, with the restored state or with that of an attempt.
Awaits == {"load", "organizations", "usage", "waiting", "parked"}
Publishes == {"restoring", "publishing"}
LoopPoints == Awaits \cup Publishes \cup {"start", "check", "dispatch", "gate", "persist", "export",
                           "record", "broadcast", "plan"}

\* The views SchedulerCore::state hands to the tray, the notifier and the UI.
Views == [phase : Phases, staleness : {"Missing", "Fresh", "Stale"}, snapshot : BOOLEAN]
View == [phase |-> phase, staleness |-> Staleness(snapshot, interval),
         snapshot |-> snapshot # NoSnapshot]

\* The guard in on_state(lock(&core).state(..)) lives until on_state returns: the
\* core's lock is the loop's as long as it publishes, and otherwise taken and
\* given back within a step.
CoreFree == pc \notin Publishes

\* What the outcome register holds while no attempt is in flight.
Outcome(kind) == [kind |-> kind, snapshot |-> NoSnapshot]
Idle == Outcome("Success")

LoopTypeOK ==
    /\ interval \in Intervals /\ failures \in 0..FailureCap
    /\ phase \in Phases /\ snapshot \in OptionalSnapshots
    /\ skew \in -SkewBound..SkewBound
    /\ consent \in BOOLEAN /\ selection \in Sources
    /\ store \in Keys \cup {NoKey} /\ permit \in BOOLEAN
    /\ orgId \in Orgs \cup {NoOrg}
    /\ pc \in LoopPoints /\ forced \in BOOLEAN
    /\ key \in Keys \cup {NoKey} /\ outcome \in Outcomes
    /\ remaining \in Nat /\ slice \in 0..Slice
    /\ shown \in Views
    /\ cacheFile \in OptionalSnapshots /\ exportFile \in OptionalSnapshots
    /\ server \in ServerModes /\ revoked \subseteq Keys
    /\ lateRequests \in 0..LateCap

-----------------------------------------------------------------------------
(* SchedulerCore's mutations, and one request going out.                   *)

Record(o) ==
    /\ failures' = FailuresAfter(failures, o.kind)
    /\ phase' = PhaseAfter(o.kind)
    /\ snapshot' = SnapshotAfter(snapshot, o)

\* Mutant of Resume: the failures survive it.
MutResumeKeepsFailures ==
    /\ phase' = "Polling"
    /\ UNCHANGED <<failures, snapshot>>

Resume ==
    /\ failures' = 0
    /\ phase' = "Polling"
    /\ UNCHANGED snapshot

\* claude.ai is contacted.  The history variable counts it if consent is
\* withheld at that moment.
SendRequest ==
    lateRequests' = IF consent THEN lateRequests ELSE Smaller(lateRequests + 1, LateCap)

\* The attempt ends with an outcome that persists nothing.
Finish(kind) ==
    /\ outcome' = Outcome(kind)
    /\ key' = NoKey
    /\ pc' = "record"

-----------------------------------------------------------------------------
(* One iteration of run_loop.                                              *)

\* Observe the clocks and broadcast the restored state.  The first attempt is
\* forced, so that a fresh disk cache answers it.
Start ==
    /\ pc = "start"
    /\ skew' = 0
    /\ shown' = View
    /\ forced' = TRUE
    /\ pc' \in {"check", "restoring"}
    /\ UNCHANGED <<coreVars, gateVars, store, permit, orgId, key, outcome, waitVars,
                   fileVars, serverVars, lateRequests>>

\* Mutant of Check: what the TTL served from memory is not broadcast.
MutCheckSilent ==
    /\ pc = "check"
    /\ pc' = IF ShouldFetch(snapshot, selection, forced) THEN "dispatch" ELSE "plan"
    /\ UNCHANGED <<coreVars, skew, gateVars, store, permit, orgId, forced, key, outcome,
                   waitVars, shown, fileVars, serverVars, lateRequests>>

Check ==
    /\ pc = "check"
    /\ pc' = IF ShouldFetch(snapshot, selection, forced) THEN "dispatch" ELSE "broadcast"
    /\ UNCHANGED <<coreVars, skew, gateVars, store, permit, orgId, forced, key, outcome,
                   waitVars, shown, fileVars, serverVars, lateRequests>>

\* SourcedTransport::fetch reads the selection once per attempt.
DispatchLive ==
    /\ pc = "dispatch" /\ selection = "claude_ai"
    /\ pc' = "gate"
    /\ UNCHANGED <<coreVars, skew, gateVars, store, permit, orgId, forced, key, outcome,
                   waitVars, shown, fileVars, serverVars, lateRequests>>

\* The status-line file is written by another process: it is absent, or it
\* holds a reading of any age.
DispatchStatusline ==
    /\ pc = "dispatch" /\ selection = "statusline"
    /\ \/ Finish("AwaitingStatusline")
       \/ \E age \in 0..AgeCap, usage \in Readings :
             /\ outcome' = [kind |-> "Success",
                            snapshot |-> [age |-> age, usage |-> usage]]
             /\ pc' = "persist"
             /\ UNCHANGED key
    /\ UNCHANGED <<coreVars, skew, gateVars, store, permit, orgId, forced, waitVars,
                   shown, fileVars, serverVars, lateRequests>>

\* Mutant of CheckConsent: the gate is not looked at.
MutConsentIgnored ==
    /\ pc = "gate"
    /\ pc' = "load"
    /\ UNCHANGED <<coreVars, skew, gateVars, store, permit, orgId, forced, key, outcome,
                   waitVars, shown, fileVars, serverVars, lateRequests>>

\* The consent gate is checked once, before the credential store is read.
CheckConsent ==
    /\ pc = "gate"
    /\ IF consent
         THEN pc' = "load" /\ UNCHANGED <<outcome, key>>
         ELSE Finish("NotAcknowledged")
    /\ UNCHANGED <<coreVars, skew, gateVars, store, permit, orgId, forced, waitVars,
                   shown, fileVars, serverVars, lateRequests>>

\* The store answers; with a key the first request goes out, to discover the
\* organisation unless one is cached.
LoadKey ==
    /\ pc = "load"
    /\ \/ /\ store = NoKey
          /\ Finish("NoSession")
          /\ UNCHANGED lateRequests
       \/ /\ "store" \in Faults
          /\ Finish("Transient")
          /\ UNCHANGED lateRequests
       \/ /\ store # NoKey
          /\ key' = store
          /\ pc' = IF orgId = NoOrg THEN "organizations" ELSE "usage"
          /\ SendRequest
          /\ UNCHANGED outcome
    /\ UNCHANGED <<coreVars, skew, gateVars, store, permit, orgId, forced, waitVars,
                   shown, fileVars, serverVars>>

\* A 401 drops the cached organisation; every other failure is transient.
RequestFails ==
    \/ /\ server = "answers" /\ key \in revoked
       /\ orgId' = NoOrg
       /\ Finish("Unauthorized")
    \/ /\ server = "fails"
       /\ UNCHANGED orgId
       /\ Finish("Transient")

OrganizationsReply ==
    /\ pc = "organizations"
    /\ \/ RequestFails /\ UNCHANGED lateRequests
       \/ /\ server = "answers" /\ key \notin revoked /\ OrgOf[key] = NoOrg
          /\ Finish("Transient")
          /\ UNCHANGED <<orgId, lateRequests>>
       \/ /\ server = "answers" /\ key \notin revoked /\ OrgOf[key] # NoOrg
          /\ orgId' = OrgOf[key]
          /\ pc' = "usage"
          /\ SendRequest
          /\ UNCHANGED <<key, outcome>>
    /\ UNCHANGED <<coreVars, skew, gateVars, store, permit, forced, waitVars, shown,
                   fileVars, serverVars>>

\* A snapshot is stamped when the reply is decoded.  claude.ai refuses the
\* usage of an organisation the key has no part in.
UsageReply ==
    /\ pc = "usage"
    /\ \/ RequestFails
       \/ /\ server = "answers" /\ key \notin revoked /\ orgId # OrgOf[key]
          /\ Finish("Transient")
          /\ UNCHANGED orgId
       \/ /\ server = "answers" /\ key \notin revoked /\ orgId = OrgOf[key]
          /\ \E usage \in Readings :
                outcome' = [kind |-> "Success", snapshot |-> [age |-> 0, usage |-> usage]]
          /\ key' = NoKey
          /\ pc' = "persist"
          /\ UNCHANGED orgId
    /\ UNCHANGED <<coreVars, skew, gateVars, store, permit, forced, waitVars, shown,
                   fileVars, serverVars, lateRequests>>

\* A best-effort write: with the fault "write" it may leave the file alone.
Written(file, new) == {new} \cup (IF "write" \in Faults THEN {file} ELSE {})

\* Only a reading that says something new is written, to the disk cache ...
SaveCache ==
    /\ pc = "persist"
    /\ IF IsNewSnapshot(snapshot, outcome.snapshot)
         THEN cacheFile' \in Written(cacheFile, outcome.snapshot) /\ pc' = "export"
         ELSE UNCHANGED cacheFile /\ pc' = "record"
    /\ UNCHANGED <<coreVars, skew, gateVars, store, permit, orgId, forced, key, outcome,
                   waitVars, shown, exportFile, serverVars, lateRequests>>

\* ... and then to the public export.
WriteExport ==
    /\ pc = "export"
    /\ exportFile' \in Written(exportFile, outcome.snapshot)
    /\ pc' = "record"
    /\ UNCHANGED <<coreVars, skew, gateVars, store, permit, orgId, forced, key, outcome,
                   waitVars, shown, cacheFile, serverVars, lateRequests>>

RecordOutcome ==
    /\ pc = "record"
    /\ Record(outcome)
    /\ outcome' = Idle
    /\ pc' = "broadcast"
    /\ UNCHANGED <<interval, skew, gateVars, store, permit, orgId, forced, key, waitVars,
                   shown, fileVars, serverVars, lateRequests>>

\* Unconditional: a wake-up the TTL served from memory may carry a change too.
\* The tray has something to set, or the broadcast is over.
Broadcast ==
    /\ pc = "broadcast"
    /\ shown' = View
    /\ pc' \in {"plan", "publishing"}
    /\ UNCHANGED <<coreVars, skew, gateVars, store, permit, orgId, forced, key, outcome,
                   waitVars, fileVars, serverVars, lateRequests>>

\* The main thread has made the tray's native calls, and the core's lock is dropped.
OnStateReturns ==
    /\ \/ pc = "restoring" /\ pc' = "check"
       \/ pc = "publishing" /\ pc' = "plan"
    /\ UNCHANGED <<coreVars, skew, gateVars, store, permit, orgId, forced, key, outcome,
                   waitVars, shown, fileVars, serverVars, lateRequests>>

Park ==
    /\ pc = "plan"
    /\ NextDelays(phase, failures, interval, selection) = {}
    /\ pc' = "parked"
    /\ UNCHANGED <<coreVars, skew, gateVars, store, permit, orgId, forced, key, outcome,
                   waitVars, shown, fileVars, serverVars, lateRequests>>

Wait ==
    /\ pc = "plan"
    /\ \E delay \in NextDelays(phase, failures, interval, selection) :
          /\ remaining' = delay
          /\ slice' = Smaller(delay, Slice)
    /\ pc' = "waiting"
    /\ UNCHANGED <<coreVars, skew, gateVars, store, permit, orgId, forced, key, outcome,
                   shown, fileVars, serverVars, lateRequests>>

\* Leave the wait for the next attempt.
Attempt(isForced) ==
    /\ forced' = isForced
    /\ pc' = "check"
    /\ remaining' = 0
    /\ slice' = 0

\* Mutant of Wake: a parked loop does not listen.
MutWakeWaitingOnly ==
    /\ pc = "waiting"
    /\ permit
    /\ permit' = FALSE
    /\ Attempt(TRUE)
    /\ UNCHANGED <<coreVars, skew, gateVars, store, orgId, key, outcome, shown, fileVars,
                   serverVars, lateRequests>>

\* notified() resolves, parked or in the middle of a slice.
Wake ==
    /\ pc \in {"parked", "waiting"}
    /\ permit
    /\ permit' = FALSE
    /\ Attempt(TRUE)
    /\ UNCHANGED <<coreVars, skew, gateVars, store, orgId, key, outcome, shown, fileVars,
                   serverVars, lateRequests>>

\* The slice's timer fires: a machine that slept is noticed here.
SliceEnds ==
    /\ pc = "waiting" /\ slice = 0
    /\ skew' = 0
    /\ LET left == remaining - Smaller(remaining, Slice)
       IN  \/ /\ Drifted(skew)
              /\ Attempt(TRUE)
           \/ /\ ~Drifted(skew) /\ left = 0
              /\ Attempt(FALSE)
           \/ /\ ~Drifted(skew) /\ left > 0
              /\ remaining' = left
              /\ slice' = Smaller(left, Slice)
              /\ UNCHANGED <<pc, forced>>
    /\ UNCHANGED <<coreVars, gateVars, store, permit, orgId, key, outcome, shown,
                   fileVars, serverVars, lateRequests>>

LoopStep ==
    \/ Start \/ Check \/ DispatchLive \/ DispatchStatusline \/ CheckConsent \/ LoadKey
    \/ OrganizationsReply \/ UsageReply \/ SaveCache \/ WriteExport \/ RecordOutcome
    \/ Broadcast \/ Park \/ Wait \/ Wake \/ SliceEnds

-----------------------------------------------------------------------------
(* Time and claude.ai.                                                     *)

\* The loop is suspended in an await that is not ready yet, or blocked in on_state.
Awaiting == pc \in Awaits \cup Publishes /\ ~(permit /\ pc \in {"waiting", "parked"})

Older(s) ==
    IF s = NoSnapshot THEN s ELSE [s EXCEPT !.age = Smaller(@ + 1, AgeCap)]

AllOlder ==
    /\ snapshot' = Older(snapshot)
    /\ cacheFile' = Older(cacheFile)
    /\ exportFile' = Older(exportFile)

\* Both clocks advance; a running timer with them.
Tick ==
    /\ Awaiting
    /\ pc = "waiting" => slice > 0
    /\ slice' = IF pc = "waiting" THEN slice - 1 ELSE slice
    /\ AllOlder
    /\ UNCHANGED <<interval, failures, phase, skew, gateVars, store, permit, orgId, pc,
                   forced, key, outcome, remaining, shown, serverVars, lateRequests>>

\* The machine is suspended: the wall clock alone advances.
Suspend ==
    /\ "suspend" \in Faults
    /\ Awaiting
    /\ skew < SkewBound
    /\ skew' = skew + 1
    /\ AllOlder
    /\ UNCHANGED <<interval, failures, phase, gateVars, store, permit, orgId, pc, forced,
                   key, outcome, waitVars, shown, serverVars, lateRequests>>

\* A saturated age may or may not have been more than AgeCap.
Younger(s, saturated) ==
    IF s = NoSnapshot \/ (s.age = AgeCap /\ saturated) THEN s
    ELSE [s EXCEPT !.age = @ - 1]

\* The wall clock is stepped back by one tick.
StepBack ==
    /\ "step_back" \in Faults
    /\ Awaiting
    /\ skew > -SkewBound
    /\ \A s \in {snapshot, cacheFile, exportFile} : s # NoSnapshot => s.age > MinAge
    /\ skew' = skew - 1
    /\ \E saturated \in BOOLEAN :
          /\ snapshot' = Younger(snapshot, saturated)
          /\ cacheFile' = Younger(cacheFile, saturated)
          /\ exportFile' = Younger(exportFile, saturated)
    /\ UNCHANGED <<interval, failures, phase, gateVars, store, permit, orgId, pc, forced,
                   key, outcome, waitVars, shown, serverVars, lateRequests>>

ServerChanges ==
    /\ \/ /\ server' \in {"answers"} \cup ({"fails", "hangs"} \cap Faults)
          /\ server' # server
          /\ UNCHANGED revoked
       \/ /\ "revoke" \in Faults
          /\ \E k \in Keys \ revoked : revoked' = revoked \cup {k}
          /\ UNCHANGED server
    /\ UNCHANGED <<coreVars, skew, gateVars, store, permit, orgId, pc, forced, key,
                   outcome, waitVars, shown, fileVars, lateRequests>>
=============================================================================
