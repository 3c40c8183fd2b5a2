---------------------------- MODULE MeterProofs ----------------------------
(***************************************************************************)
(* Proofs, for every value of the constants, of the safety properties of   *)
(* MeterProperties that rest on how the wake-up permit, the recorded       *)
(* outcome and the persisted settings are ordered.                         *)
(***************************************************************************)
EXTENDS MeterProperties, FiniteSetTheorems, TLAPS

-----------------------------------------------------------------------------
(* The decisions of SchedulerCore.                                         *)

\* Recording an outcome of any kind gives a phase of the core.
LEMMA PhaseAfterType ==
    ASSUME NEW kind \in OutcomeKinds
    PROVE  PhaseAfter(kind) \in Phases
BY DEF PhaseAfter, OutcomeKinds, Phases

\* The failure counter stays within its width.
LEMMA FailuresAfterType ==
    ASSUME NEW n \in 0..FailureCap, NEW kind \in OutcomeKinds
    PROVE  FailuresAfter(n, kind) \in 0..FailureCap
BY CoreAssumption DEF FailuresAfter, Smaller, CoreAssumption

\* The view's staleness is one of the three labels.
LEMMA StalenessType ==
    ASSUME NEW s \in OptionalSnapshots, NEW i \in Intervals
    PROVE  Staleness(s, i) \in {"Missing", "Fresh", "Stale"}
<1>1. CASE s = NoSnapshot
  BY <1>1 DEF Staleness
<1>2. CASE s # NoSnapshot
  <2>1. s.age \in Int /\ StaleAfterIntervals * i \in Int
    BY <1>2, CoreAssumption DEF OptionalSnapshots, Snapshots, Ages, MinAge, CoreAssumption
  <2>. QED BY <1>2, <2>1 DEF Staleness
<1>. QED BY <1>1, <1>2

\* Growing older keeps a reading a reading.
LEMMA OlderType ==
    ASSUME NEW s \in OptionalSnapshots
    PROVE  Older(s) \in OptionalSnapshots /\ (Older(s) = NoSnapshot <=> s = NoSnapshot)
<1>1. CASE s = NoSnapshot
  BY <1>1 DEF Older, OptionalSnapshots
<1>2. CASE s # NoSnapshot
  <2>1. s \in Snapshots
    BY <1>2 DEF OptionalSnapshots
  <2>2. Older(s) \in Snapshots
    BY <1>2, <2>1, CoreAssumption DEF Older, Snapshots, Ages, MinAge, Smaller, CoreAssumption
  <2>. QED BY <1>2, <2>2, NoSnapshotAssumption DEF OptionalSnapshots, NoSnapshotAssumption
<1>. QED BY <1>1, <1>2

\* So does a step back of the clock that its guard allows.
LEMMA YoungerType ==
    ASSUME NEW s \in OptionalSnapshots, s # NoSnapshot => s.age > MinAge,
           NEW saturated \in BOOLEAN
    PROVE  /\ Younger(s, saturated) \in OptionalSnapshots
           /\ Younger(s, saturated) = NoSnapshot <=> s = NoSnapshot
<1>1. CASE s = NoSnapshot
  BY <1>1 DEF Younger, OptionalSnapshots
<1>2. CASE s # NoSnapshot
  <2>1. s \in Snapshots
    BY <1>2 DEF OptionalSnapshots
  <2>2. Younger(s, saturated) \in Snapshots
    BY <1>2, <2>1, CoreAssumption DEF Younger, Snapshots, Ages, MinAge, CoreAssumption
  <2>. QED BY <1>2, <2>2, NoSnapshotAssumption DEF OptionalSnapshots, NoSnapshotAssumption
<1>. QED BY <1>1, <1>2

\* Every delay the loop may be told to wait is a number of ticks.
LEMMA DelaysType ==
    ASSUME NEW p \in Phases, NEW n \in 0..FailureCap, NEW i \in Intervals, NEW s \in Sources
    PROVE  NextDelays(p, n, i, s) \subseteq Nat
<1>1. PollInterval(i, s) \in Nat
  BY CoreAssumption DEF PollInterval, CoreAssumption
<1>2. BackoffDelays(n) \subseteq Nat
  BY CoreAssumption DEF BackoffDelays, CoreAssumption
<1>. QED BY <1>1, <1>2 DEF NextDelays, Phases, ParkingPhases

\* A failing source is always given a delay: backoff_delay never answers "wait
\* for a wake-up".
LEMMA BackoffNeverParks ==
    ASSUME NEW n \in 0..FailureCap
    PROVE  BackoffDelays(n) # {}
<1>1. BackoffStep(n) \in 1..BackoffCap
  <2>. DEFINE shift == IF n = 0 THEN 0 ELSE Smaller(n - 1, MaxShift)
  <2>1. shift \in 0..MaxShift
    BY CoreAssumption DEF Smaller, CoreAssumption
  <2>2. BackoffBase * 2^shift \in Nat \ {0}
    BY <2>1, BackoffAssumption DEF BackoffAssumption
  <2>3. BackoffStep(n) = Smaller(BackoffBase * 2^shift, BackoffCap)
    BY DEF BackoffStep
  <2>. HIDE DEF shift
  <2>. QED BY <2>2, <2>3, CoreAssumption DEF Smaller, CoreAssumption
<1>2. BackoffStep(n) \in BackoffDelays(n)
  BY <1>1 DEF BackoffDelays
<1>. QED BY <1>2

\* So the loop parks in the phases that only a command can leave.
LEMMA OnlyParkingPhasesPark ==
    ASSUME NEW p \in Phases, NEW n \in 0..FailureCap, NEW i \in Intervals, NEW s \in Sources,
           NextDelays(p, n, i, s) = {}
    PROVE  p \in ParkingPhases
BY BackoffNeverParks DEF NextDelays, Phases, ParkingPhases

\* What the tray, the notifier and the UI are shown is always a view.
LEMMA ViewType ==
    ASSUME NEW p \in Phases, NEW s \in OptionalSnapshots, NEW i \in Intervals
    PROVE  [phase |-> p, staleness |-> Staleness(s, i), snapshot |-> s # NoSnapshot] \in Views
BY StalenessType DEF Views

-----------------------------------------------------------------------------
(* Type correctness.  A request goes out with a key of the credential      *)
(* store, which is what makes OrgOf[key] an organisation.                  *)

KeyInFlight == pc \in {"organizations", "usage"} => key \in Keys
TypeInv == MeterTypeOK /\ KeyInFlight

\* The launch, first or repeated, starts the loop, the commands and the core
\* within their types.
LEMMA InitTypeInv == Init => TypeInv
<1>. SUFFICES ASSUME Init PROVE TypeInv
  OBVIOUS
<1>. USE DEF Init
<1>1. settings \in Settings
  BY DEF InitialSettings, Settings
<1>2. interval \in Intervals /\ consent \in BOOLEAN /\ selection \in Sources
  BY <1>1 DEF Settings
<1>3. phase \in Phases
  BY DEF LaunchPhase, Phases
<1>4. snapshot \in OptionalSnapshots /\ exportFile \in OptionalSnapshots
  OBVIOUS
<1>5. shown \in Views
  BY <1>2, <1>3, <1>4, ViewType DEF View
<1>6. outcome \in Outcomes
  BY DEF Idle, Outcome, Outcomes, OutcomeKinds, OptionalSnapshots
<1>7. ui \in [pc : UiPoints, next : Settings] /\ task \in [Tasks -> TaskStates]
  BY <1>1 DEF UiPoints, TaskStates, TaskPoints, IdleTask
<1>8. skew \in -SkewBound..SkewBound /\ failures \in 0..FailureCap /\ remaining \in Nat
      /\ slice \in 0..Slice /\ lateRequests \in 0..LateCap
  BY CoreAssumption, LoopAssumption DEF CoreAssumption, LoopAssumption
<1>. QED
  BY <1>1, <1>2, <1>3, <1>4, <1>5, <1>6, <1>7, <1>8
  DEF TypeInv, KeyInFlight, MeterTypeOK, LoopTypeOK, LoopPoints, Awaits, ServerModes

\* Recording an outcome keeps the core within its types.
LEMMA RecordType ==
    ASSUME LoopTypeOK, NEW o \in Outcomes, Record(o)
    PROVE  failures' \in 0..FailureCap /\ phase' \in Phases /\ snapshot' \in OptionalSnapshots
BY PhaseAfterType, FailuresAfterType DEF LoopTypeOK, Record, SnapshotAfter, Outcomes

\* The history variable saturates at its bound.
LEMMA SendRequestType ==
    ASSUME LoopTypeOK, SendRequest
    PROVE  lateRequests' \in 0..LateCap
BY LoopAssumption DEF LoopTypeOK, SendRequest, Smaller, LoopAssumption

\* Every kind of outcome without a snapshot is an outcome.
LEMMA OutcomeType ==
    ASSUME NEW kind \in OutcomeKinds
    PROVE  Outcome(kind) \in Outcomes
BY DEF Outcome, Outcomes, OptionalSnapshots

\* Leaving the wait clears the timer.
LEMMA AttemptType ==
    ASSUME NEW isForced \in BOOLEAN, Attempt(isForced)
    PROVE  /\ forced' \in BOOLEAN /\ pc' = "check"
           /\ remaining' \in Nat /\ slice' \in 0..Slice
<1>1. 0 \in 0..Slice
  BY LoopAssumption DEF LoopAssumption
<1>2. forced' \in BOOLEAN
  BY Zenon DEF Attempt
<1>3. remaining' = 0 /\ slice' = 0 /\ pc' = "check"
  BY DEF Attempt
<1>. QED BY <1>1, <1>2, <1>3

\* The loop's own steps keep the types.
LEMMA LoopTypeStep ==
    ASSUME TypeInv, Loop
    PROVE  TypeInv'
<1>. USE DEF TypeInv, KeyInFlight, MeterTypeOK, LoopTypeOK, LoopPoints, Awaits, Publishes,
             Loop, coreVars, gateVars, waitVars, fileVars, serverVars
<1>1. CASE Start
  <2>1. shown' \in Views
    BY <1>1, ViewType DEF Start, View
  <2>2. skew' \in -SkewBound..SkewBound
    BY <1>1, LoopAssumption DEF Start, LoopAssumption
  <2>. QED BY <1>1, <2>1, <2>2 DEF Start
<1>2. CASE Check
  BY <1>2 DEF Check
<1>3. CASE DispatchLive
  BY <1>3 DEF DispatchLive
<1>4. CASE DispatchStatusline
  <2>1. outcome' \in Outcomes
    <3>1. CASE Finish("AwaitingStatusline")
      BY <3>1, OutcomeType DEF Finish, OutcomeKinds
    <3>2. ASSUME NEW age \in 0..AgeCap, NEW usage \in Readings,
                 outcome' = [kind |-> "Success",
                             snapshot |-> [age |-> age, usage |-> usage]]
          PROVE  outcome' \in Outcomes
      BY <3>2, CoreAssumption
      DEF Outcomes, OutcomeKinds, OptionalSnapshots, Snapshots, Ages, MinAge, CoreAssumption
    <3>. QED BY <1>4, <3>1, <3>2 DEF DispatchStatusline
  <2>2. key' \in Keys \cup {NoKey} /\ pc' \in {"record", "persist"}
    BY <1>4 DEF DispatchStatusline, Finish
  <2>. QED BY <1>4, <2>1, <2>2 DEF DispatchStatusline
<1>5. CASE CheckConsent
  <2>1. outcome' \in Outcomes /\ key' \in Keys \cup {NoKey} /\ pc' \in {"load", "record"}
    BY <1>5, OutcomeType DEF CheckConsent, Finish, OutcomeKinds
  <2>. QED BY <1>5, <2>1 DEF CheckConsent
<1>6. CASE LoadKey
  <2>1. outcome' \in Outcomes /\ key' \in Keys \cup {NoKey}
        /\ pc' \in {"record", "organizations", "usage"}
        /\ (pc' # "record" => key' \in Keys)
    BY <1>6, OutcomeType DEF LoadKey, Finish, OutcomeKinds
  <2>2. lateRequests' \in 0..LateCap
    BY <1>6, SendRequestType DEF LoadKey
  <2>. QED BY <1>6, <2>1, <2>2 DEF LoadKey
<1>7. CASE OrganizationsReply
  <2>1. outcome' \in Outcomes /\ key' \in Keys \cup {NoKey}
        /\ pc' \in {"record", "usage"} /\ (pc' = "usage" => key' \in Keys)
    BY <1>7, OutcomeType DEF OrganizationsReply, RequestFails, Finish, OutcomeKinds
  <2>2. orgId' \in Orgs \cup {NoOrg}
    BY <1>7, LoopAssumption DEF OrganizationsReply, RequestFails, LoopAssumption
  <2>3. lateRequests' \in 0..LateCap
    BY <1>7, SendRequestType DEF OrganizationsReply
  <2>. QED BY <1>7, <2>1, <2>2, <2>3 DEF OrganizationsReply
<1>8. CASE UsageReply
  <2>1. outcome' \in Outcomes
    <3>1. CASE RequestFails
      BY <3>1, OutcomeType DEF RequestFails, Finish, OutcomeKinds
    <3>2. CASE Finish("Transient")
      BY <3>2, OutcomeType DEF Finish, OutcomeKinds
    <3>3. ASSUME NEW usage \in Readings,
                 outcome' = [kind |-> "Success", snapshot |-> [age |-> 0, usage |-> usage]]
          PROVE  outcome' \in Outcomes
      BY <3>3, CoreAssumption
      DEF Outcomes, OutcomeKinds, OptionalSnapshots, Snapshots, Ages, MinAge, CoreAssumption
    <3>. QED BY <1>8, <3>1, <3>2, <3>3 DEF UsageReply
  <2>2. key' = NoKey /\ pc' \in {"record", "persist"} /\ orgId' \in Orgs \cup {NoOrg}
    BY <1>8 DEF UsageReply, RequestFails, Finish
  <2>. QED BY <1>8, <2>1, <2>2 DEF UsageReply
<1>9. CASE SaveCache \/ WriteExport
  <2>1. cacheFile' \in OptionalSnapshots /\ exportFile' \in OptionalSnapshots
    BY <1>9 DEF SaveCache, WriteExport, Written, Outcomes
  <2>2. pc' \in {"export", "record"}
    BY <1>9 DEF SaveCache, WriteExport
  <2>. QED BY <1>9, <2>1, <2>2 DEF SaveCache, WriteExport
<1>10. CASE RecordOutcome
  <2>1. failures' \in 0..FailureCap /\ phase' \in Phases /\ snapshot' \in OptionalSnapshots
    BY <1>10, RecordType DEF RecordOutcome
  <2>2. outcome' \in Outcomes
    BY <1>10, OutcomeType DEF RecordOutcome, Idle, OutcomeKinds
  <2>. QED BY <1>10, <2>1, <2>2 DEF RecordOutcome
<1>11. CASE Broadcast
  <2>1. shown' \in Views
    BY <1>11, ViewType DEF Broadcast, View
  <2>. QED BY <1>11, <2>1 DEF Broadcast
<1>12. CASE Park
  BY <1>12 DEF Park
<1>13. CASE Wait
  <2>1. remaining' \in Nat /\ slice' = Smaller(remaining', Slice)
    BY <1>13, DelaysType DEF Wait
  <2>2. slice' \in 0..Slice
    BY <2>1, LoopAssumption DEF Smaller, LoopAssumption
  <2>. QED BY <1>13, <2>1, <2>2 DEF Wait
<1>14. CASE Wake
  <2>1. remaining' \in Nat /\ slice' \in 0..Slice /\ pc' = "check"
    BY <1>14, AttemptType DEF Wake
  <2>2. forced' \in BOOLEAN /\ permit' \in BOOLEAN
    BY <1>14, AttemptType, Zenon DEF Wake
  <2>. QED BY <1>14, <2>1, <2>2 DEF Wake
<1>15. CASE SliceEnds
  <2>. DEFINE left == remaining - Smaller(remaining, Slice)
  <2>1. left \in Nat
    BY LoopAssumption DEF Smaller, LoopAssumption
  <2>2. Smaller(left, Slice) \in 0..Slice /\ 0 \in 0..Slice
    BY <2>1, LoopAssumption DEF Smaller, LoopAssumption
  <2>3. skew' \in -SkewBound..SkewBound
    BY <1>15, LoopAssumption DEF SliceEnds, LoopAssumption
  <2>4. remaining' \in Nat /\ slice' \in 0..Slice /\ forced' \in BOOLEAN
        /\ pc' \in {"check", "waiting"}
    <3>1. CASE Attempt(TRUE) \/ Attempt(FALSE)
      BY <3>1, AttemptType
    <3>2. CASE remaining' = left /\ slice' = Smaller(left, Slice) /\ UNCHANGED <<pc, forced>>
      <4>1. pc = "waiting"
        BY <1>15 DEF SliceEnds
      <4>. QED BY <3>2, <4>1, <2>1, <2>2
    <3>. QED BY <1>15, <3>1, <3>2 DEF SliceEnds
  <2>. QED BY <1>15, <2>3, <2>4 DEF SliceEnds
<1>16. CASE ServeNativeCalls
  BY <1>16 DEF ServeNativeCalls, OnStateReturns
<1>. QED
  BY <1>1, <1>2, <1>3, <1>4, <1>5, <1>6, <1>7, <1>8, <1>9, <1>10, <1>11, <1>12, <1>13,
     <1>14, <1>15, <1>16 DEF LoopStep

\* So do the clocks, ...
LEMMA TimeTypeStep ==
    ASSUME TypeInv, Time
    PROVE  TypeInv'
<1>. USE DEF TypeInv, KeyInFlight, MeterTypeOK, LoopTypeOK, Time,
             coreVars, gateVars, waitVars, fileVars, serverVars
<1>1. CASE Tick
  <2>1. snapshot' \in OptionalSnapshots /\ cacheFile' \in OptionalSnapshots
        /\ exportFile' \in OptionalSnapshots
    BY <1>1, OlderType DEF Tick, AllOlder
  <2>2. slice' \in 0..Slice
    BY <1>1, LoopAssumption DEF Tick, LoopAssumption
  <2>. QED BY <1>1, <2>1, <2>2 DEF Tick
<1>2. CASE Suspend
  <2>1. snapshot' \in OptionalSnapshots /\ cacheFile' \in OptionalSnapshots
        /\ exportFile' \in OptionalSnapshots
    BY <1>2, OlderType DEF Suspend, AllOlder
  <2>2. skew' \in -SkewBound..SkewBound
    BY <1>2, LoopAssumption DEF Suspend, LoopAssumption
  <2>. QED BY <1>2, <2>1, <2>2 DEF Suspend
<1>3. CASE StepBack
  <2>1. snapshot' \in OptionalSnapshots /\ cacheFile' \in OptionalSnapshots
        /\ exportFile' \in OptionalSnapshots
    <3>1. PICK saturated \in BOOLEAN :
            /\ snapshot' = Younger(snapshot, saturated)
            /\ cacheFile' = Younger(cacheFile, saturated)
            /\ exportFile' = Younger(exportFile, saturated)
      BY <1>3 DEF StepBack
    <3>2. \A s \in {snapshot, cacheFile, exportFile} : s # NoSnapshot => s.age > MinAge
      BY <1>3 DEF StepBack
    <3>. QED BY <3>1, <3>2, YoungerType
  <2>2. skew' \in -SkewBound..SkewBound
    BY <1>3, LoopAssumption DEF StepBack, LoopAssumption
  <2>. QED BY <1>3, <2>1, <2>2 DEF StepBack
<1>. QED BY <1>1, <1>2, <1>3

\* ... claude.ai, ...
LEMMA ServerTypeStep ==
    ASSUME TypeInv, Server
    PROVE  TypeInv'
BY DEF TypeInv, KeyInFlight, MeterTypeOK, LoopTypeOK, Server, ServerChanges, ServerModes,
       coreVars, gateVars, waitVars, fileVars

\* ... a new launch, ...
LEMMA RestartTypeStep ==
    ASSUME TypeInv, Restart
    PROVE  TypeInv'
<1>. USE DEF TypeInv, KeyInFlight, MeterTypeOK, LoopTypeOK, Restart
<1>1. interval' \in Intervals /\ consent' \in BOOLEAN /\ selection' \in Sources
  BY DEF Settings
<1>2. phase' \in Phases
  BY DEF LaunchPhase, Phases
<1>3. snapshot' \in OptionalSnapshots
  OBVIOUS
<1>4. shown' \in Views
  BY <1>1, <1>2, <1>3, ViewType DEF View
<1>5. outcome' \in Outcomes
  BY OutcomeType DEF Idle, OutcomeKinds
<1>6. /\ ui' \in [pc : UiPoints, next : Settings]
      /\ task' \in [Tasks -> TaskStates]
  BY DEF UiPoints, TaskStates, TaskPoints, IdleTask
<1>7. skew' \in -SkewBound..SkewBound /\ failures' \in 0..FailureCap /\ remaining' \in Nat
      /\ slice' \in 0..Slice /\ lateRequests' \in 0..LateCap
  BY CoreAssumption, LoopAssumption DEF CoreAssumption, LoopAssumption
<1>8. permit' \in BOOLEAN /\ forced' \in BOOLEAN
  BY Zenon
<1>. QED
  BY <1>1, <1>2, <1>3, <1>4, <1>5, <1>6, <1>7, <1>8
  DEF LoopPoints, Awaits, fileVars, serverVars

\* What a command stores are settings.
LEMMA CurrentType ==
    ASSUME LoopTypeOK
    PROVE  Current \in Settings
BY DEF LoopTypeOK, Current, Settings

\* ... the commands of the main thread ...
LEMMA UiTypeStep ==
    ASSUME TypeInv,
           \/ \E acknowledged \in BOOLEAN : SetTosAcknowledged(acknowledged)
           \/ \E source \in Sources : SetUsageSource(source)
           \/ \E i \in Intervals : SetRefreshInterval(i)
           \/ RefreshUsage \/ UiStep
    PROVE  TypeInv'
<1>. USE DEF TypeInv, KeyInFlight, MeterTypeOK, LoopTypeOK, UiPoints,
             coreVars, gateVars, waitVars, fileVars, serverVars,
             loopExceptCore, loopExceptPermit, loopVars
<1>1. ASSUME NEW acknowledged \in BOOLEAN, SetTosAcknowledged(acknowledged)
      PROVE  TypeInv'
  <2>1. ui' \in [pc : UiPoints, next : Settings]
    BY <1>1, CurrentType DEF SetTosAcknowledged, Settings, Current
  <2>2. consent' \in BOOLEAN /\ lateRequests' \in 0..LateCap
    BY <1>1, LoopAssumption DEF SetTosAcknowledged, LoopAssumption
  <2>. QED BY <1>1, <2>1, <2>2 DEF SetTosAcknowledged
<1>2. ASSUME NEW source \in Sources, SetUsageSource(source)
      PROVE  TypeInv'
  BY <1>2, CurrentType DEF SetUsageSource, Settings, Current
<1>3. ASSUME NEW i \in Intervals, SetRefreshInterval(i)
      PROVE  TypeInv'
  BY <1>3, CurrentType DEF SetRefreshInterval, Settings, Current
<1>4. CASE RefreshUsage
  <2>1. permit' \in BOOLEAN
    BY <1>4, Zenon DEF RefreshUsage
  <2>. QED BY <1>4, <2>1 DEF RefreshUsage
<1>5. CASE TosUpdatesCore
  <2>1. failures' \in 0..FailureCap /\ phase' \in Phases /\ snapshot' \in OptionalSnapshots
    <3>1. CASE Record(Outcome("NotAcknowledged"))
      BY <3>1, RecordType, OutcomeType DEF OutcomeKinds
    <3>2. CASE Resume
      BY <3>2, CoreAssumption DEF Resume, Phases, CoreAssumption
    <3>. QED BY <1>5, <3>1, <3>2 DEF TosUpdatesCore
  <2>. QED BY <1>5, <2>1 DEF TosUpdatesCore, UiMutates
<1>6. CASE SourceResumes
  <2>1. failures' \in 0..FailureCap /\ phase' \in Phases /\ snapshot' \in OptionalSnapshots
    BY <1>6, CoreAssumption DEF SourceResumes, Resume, Phases, CoreAssumption
  <2>. QED BY <1>6, <2>1 DEF SourceResumes, UiMutates
<1>7. CASE UiNotifies
  <2>1. permit' \in BOOLEAN
    BY <1>7, Zenon DEF UiNotifies
  <2>. QED BY <1>7, <2>1 DEF UiNotifies
<1>8. CASE UiSaves
  <2>1. settings' \in Settings
    BY <1>8 DEF UiSaves, Written
  <2>. QED BY <1>8, <2>1 DEF UiSaves
<1>9. CASE IntervalUpdatesCore
  <2>1. interval' \in Intervals
    BY <1>9 DEF IntervalUpdatesCore, Settings
  <2>. QED BY <1>9, <2>1 DEF IntervalUpdatesCore, UiMutates
<1>. QED BY <1>1, <1>2, <1>3, <1>4, <1>5, <1>6, <1>7, <1>8, <1>9 DEF UiStep

\* ... and the async ones.
LEMMA TaskTypeStep ==
    ASSUME TypeInv, NEW t \in Tasks,
           \/ TaskStep(t) \/ ImportBrowserSession(t) \/ SignOut(t)
           \/ \E k \in Keys : SignIn(t, k)
    PROVE  TypeInv'
<1>. USE DEF TypeInv, KeyInFlight, MeterTypeOK, LoopTypeOK, TaskStates, TaskPoints, IdleTask,
             At, Goto, End, loopVars, coreVars, gateVars, waitVars, fileVars, serverVars
<1>1. task[t] \in TaskStates
  OBVIOUS
<1>2. CASE \E k \in Keys : SignIn(t, k)
  <2>1. PICK k \in Keys : SignIn(t, k)
    BY <1>2
  <2>2. [IdleTask EXCEPT !.pc = "source", !.key = k] \in TaskStates
    OBVIOUS
  <2>3. task' \in [Tasks -> TaskStates]
    BY <2>1, <2>2 DEF SignIn
  <2>. QED BY <2>1, <2>3 DEF SignIn
<1>3. CASE ImportBrowserSession(t) \/ SignOut(t)
  BY <1>3 DEF ImportBrowserSession, SignOut
<1>4. CASE ReadCookies(t)
  <2>1. task' \in [Tasks -> TaskStates]
    <3>1. CASE End(t)
      BY <3>1
    <3>2. ASSUME NEW k \in Keys,
                 task' = [task EXCEPT ![t] = [@ EXCEPT !.pc = "source", !.key = k]]
          PROVE  task' \in [Tasks -> TaskStates]
      <4>1. [task[t] EXCEPT !.pc = "source", !.key = k] \in TaskStates
        BY <1>1
      <4>. QED BY <3>2, <4>1
    <3>. QED BY <1>4, <3>1, <3>2 DEF ReadCookies
  <2>. QED BY <1>4, <2>1 DEF ReadCookies
<1>5. CASE LoadPrevious(t)
  <2>1. PICK previous \in Keys \cup {NoKey} :
          task' = [task EXCEPT ![t] = [@ EXCEPT !.pc = "save", !.previous = previous]]
    BY <1>5 DEF LoadPrevious
  <2>2. [task[t] EXCEPT !.pc = "save", !.previous = previous] \in TaskStates
    BY <1>1
  <2>3. task' \in [Tasks -> TaskStates]
    BY <2>1, <2>2
  <2>. QED BY <1>5, <2>3 DEF LoadPrevious
<1>6. CASE SaveKey(t)
  <2>1. lateRequests' \in 0..LateCap
    BY <1>6, SendRequestType DEF SaveKey
  <2>. QED BY <1>6, <2>1 DEF SaveKey, loopExceptStore
<1>7. CASE ValidateReply(t) \/ Rollback(t)
  BY <1>7 DEF ValidateReply, Rollback, loopExceptStore
<1>8. CASE CheckSource(t) \/ CheckTaskConsent(t)
  BY <1>8 DEF CheckSource, CheckTaskConsent
<1>9. CASE ResumePolling(t)
  <2>1. failures' \in 0..FailureCap /\ phase' \in Phases /\ snapshot' \in OptionalSnapshots
    BY <1>9, CoreAssumption DEF ResumePolling, Resume, Phases, CoreAssumption
  <2>. QED BY <1>9, <2>1 DEF ResumePolling, loopExceptCore
<1>10. CASE ClearKey(t)
  BY <1>10 DEF ClearKey, loopExceptStore
<1>11. CASE RecordNoSession(t)
  <2>1. failures' \in 0..FailureCap /\ phase' \in Phases /\ snapshot' \in OptionalSnapshots
    BY <1>11, RecordType, OutcomeType DEF RecordNoSession, OutcomeKinds
  <2>. QED BY <1>11, <2>1 DEF RecordNoSession, loopExceptCore
<1>12. CASE TaskNotifies(t)
  <2>1. permit' \in BOOLEAN
    BY <1>12, Zenon DEF TaskNotifies
  <2>. QED BY <1>12, <2>1 DEF TaskNotifies, loopExceptPermit
<1>. QED
  BY <1>2, <1>3, <1>4, <1>5, <1>6, <1>7, <1>8, <1>9, <1>10, <1>11, <1>12 DEF TaskStep

\* Every step of the app, or a stutter, keeps the types.
LEMMA TypeStep == TypeInv /\ [Next]_vars => TypeInv'
<1>. SUFFICES ASSUME TypeInv, [Next]_vars PROVE TypeInv'
  OBVIOUS
<1>1. CASE Next
  BY <1>1, LoopTypeStep, TimeTypeStep, ServerTypeStep, RestartTypeStep, UiTypeStep,
     TaskTypeStep DEF Next, UserStep
<1>2. CASE UNCHANGED vars
  BY <1>2 DEF TypeInv, KeyInFlight, MeterTypeOK, LoopTypeOK, vars, loopVars, coreVars,
              gateVars, waitVars, fileVars, serverVars
<1>. QED BY <1>1, <1>2

\* Every variable of the composed app keeps its type, whatever the commands,
\* the faults and the clocks do: in particular the failure counter, the ages
\* and the clock skew stay within the bounds the decisions assume (SchedulerCore,
\* run_loop and the commands).
THEOREM TypeCorrect == Spec => []MeterTypeOK
<1>1. TypeInv => MeterTypeOK
  BY DEF TypeInv
<1>. QED BY InitTypeInv, TypeStep, <1>1, PTL DEF Spec

\* The strengthened form, for the proofs that follow.
LEMMA TypeInvariant == Spec => []TypeInv
BY InitTypeInv, TypeStep, PTL DEF Spec

-----------------------------------------------------------------------------
(* The backoff counter.                                                    *)

\* After any outcome the core backs off exactly if it counts failures.
LEMMA RecordBacksOff ==
    ASSUME TypeInv, NEW o \in Outcomes, Record(o)
    PROVE  DegradedWhileFailing'
<1>1. o.kind \in OutcomeKinds /\ failures \in 0..FailureCap /\ FailureCap \in Nat \ {0}
  BY CoreAssumption DEF TypeInv, MeterTypeOK, LoopTypeOK, Outcomes, CoreAssumption
<1>2. CASE o.kind = "Transient"
  <2>1. phase' = "Degraded"
    BY <1>2 DEF Record, PhaseAfter
  <2>2. failures' > 0
    BY <1>1, <1>2 DEF Record, FailuresAfter, Smaller
  <2>. QED BY <2>1, <2>2 DEF DegradedWhileFailing
<1>3. CASE o.kind # "Transient"
  <2>1. phase' # "Degraded"
    BY <1>1, <1>3 DEF Record, PhaseAfter, OutcomeKinds
  <2>2. failures' = 0
    BY <1>3 DEF Record, FailuresAfter
  <2>. QED BY <2>1, <2>2 DEF DegradedWhileFailing
<1>. QED BY <1>2, <1>3

\* The only steps that touch the phase or the counter are those that record an
\* outcome, those that resume, and a launch.
LEMMA CoreMutations ==
    ASSUME TypeInv, [Next]_vars
    PROVE  \/ UNCHANGED <<failures, phase>>
           \/ \E o \in Outcomes : Record(o)
           \/ failures' = 0 /\ phase' \in {"Polling", "AwaitingConsent"}
<1>. USE DEF coreVars, gateVars, waitVars, fileVars, serverVars, loopVars, loopExceptCore,
             loopExceptPermit, loopExceptStore
<1>1. CASE Loop
  <2>1. CASE RecordOutcome
    BY <2>1 DEF RecordOutcome, TypeInv, MeterTypeOK, LoopTypeOK
  <2>2. CASE ~RecordOutcome
    BY <1>1, <2>2 DEF Loop, LoopStep, Start, Check, DispatchLive, DispatchStatusline,
       CheckConsent, LoadKey, OrganizationsReply, UsageReply, SaveCache, WriteExport,
       Broadcast, ServeNativeCalls, OnStateReturns, Park, Wait, Wake, SliceEnds
  <2>. QED BY <2>1, <2>2
<1>2. CASE Time \/ Server
  BY <1>2 DEF Time, Tick, Suspend, StepBack, Server, ServerChanges
<1>3. CASE Restart
  BY <1>3 DEF Restart, LaunchPhase
<1>4. CASE UserStep
  BY <1>4 DEF UserStep, SetTosAcknowledged, SetUsageSource, SetRefreshInterval, RefreshUsage,
     ImportBrowserSession, SignOut, SignIn
<1>5. CASE UiStep
  BY <1>5, OutcomeType DEF UiStep, TosUpdatesCore, SourceResumes, IntervalUpdatesCore,
     UiNotifies, UiSaves, Resume, OutcomeKinds
<1>6. ASSUME NEW t \in Tasks, TaskStep(t)
      PROVE  \/ UNCHANGED <<failures, phase>>
             \/ \E o \in Outcomes : Record(o)
             \/ failures' = 0 /\ phase' \in {"Polling", "AwaitingConsent"}
  BY <1>6, OutcomeType DEF TaskStep, ReadCookies, CheckSource, CheckTaskConsent, LoadPrevious,
     SaveKey, ValidateReply, Rollback, ResumePolling, Resume, ClearKey, RecordNoSession,
     TaskNotifies, OutcomeKinds
<1>7. CASE UNCHANGED vars
  BY <1>7 DEF vars
<1>. QED BY <1>1, <1>2, <1>3, <1>4, <1>5, <1>6, <1>7 DEF Next

\* The core is in the backing-off phase exactly while it counts failures, through
\* every outcome of the loop, every resume and every launch (record and resume,
\* scheduler/core.rs): no path leaves a stale count behind a live phase.
THEOREM BacksOffWhileFailing == Spec => []DegradedWhileFailing
<1>1. Init => DegradedWhileFailing
  BY DEF Init, LaunchPhase, DegradedWhileFailing
<1>2. TypeInv /\ DegradedWhileFailing /\ [Next]_vars => DegradedWhileFailing'
  <2>. SUFFICES ASSUME TypeInv, DegradedWhileFailing, [Next]_vars
                PROVE  DegradedWhileFailing'
    OBVIOUS
  <2>1. CASE UNCHANGED <<failures, phase>>
    BY <2>1 DEF DegradedWhileFailing
  <2>2. CASE \E o \in Outcomes : Record(o)
    BY <2>2, RecordBacksOff
  <2>3. CASE failures' = 0 /\ phase' \in {"Polling", "AwaitingConsent"}
    BY <2>3 DEF DegradedWhileFailing
  <2>. QED BY <2>1, <2>2, <2>3, CoreMutations
<1>. QED BY <1>1, <1>2, TypeInvariant, PTL DEF Spec

-----------------------------------------------------------------------------
(* The wake-up permit.                                                     *)

\* Moving a task that has no wake-up to deliver keeps everyone else's.
LEMMA TaskMoves ==
    ASSUME NEW t \in Tasks, NEW state, task \in [Tasks -> TaskStates],
           task[t].pc # "notify", task' = [task EXCEPT ![t] = state],
           \E u \in Tasks : task[u].pc = "notify"
    PROVE  \E u \in Tasks : task'[u].pc = "notify"
<1>1. PICK u \in Tasks : task[u].pc = "notify"
  OBVIOUS
<1>2. u # t /\ task'[u] = task[u]
  BY <1>1
<1>. QED BY <1>1, <1>2

\* A wake-up that is on its way stays so until the loop takes it, or the process
\* ends: no command and no outcome absorbs another's notify_one for good.
LEMMA PendingStays ==
    ASSUME TypeInv, [Next]_vars, NotifyPending
    PROVE  NotifyPending' \/ pc' \in {"check", "start"}
<1>. USE DEF NotifyPending, TypeInv, MeterTypeOK, LoopTypeOK,
             coreVars, gateVars, waitVars, fileVars, serverVars
<1>1. CASE Loop
  <2>1. CASE Wake
    BY <2>1 DEF Wake, Attempt
  <2>2. CASE ~Wake
    BY <1>1, <2>2 DEF Loop, LoopStep, Start, Check, DispatchLive, DispatchStatusline,
       CheckConsent, LoadKey, OrganizationsReply, UsageReply, SaveCache, WriteExport,
       RecordOutcome,
       Broadcast, ServeNativeCalls, OnStateReturns, Park, Wait, SliceEnds
  <2>. QED BY <2>1, <2>2
<1>2. CASE Time \/ Server
  BY <1>2 DEF Time, Tick, Suspend, StepBack, Server, ServerChanges
<1>3. CASE Restart
  BY <1>3 DEF Restart
<1>4. CASE \/ \E acknowledged \in BOOLEAN : SetTosAcknowledged(acknowledged)
           \/ \E source \in Sources : SetUsageSource(source)
           \/ \E i \in Intervals : SetRefreshInterval(i)
           \/ RefreshUsage \/ UiStep
  BY <1>4 DEF SetTosAcknowledged, SetUsageSource, SetRefreshInterval, RefreshUsage, UiStep,
     TosUpdatesCore, SourceResumes, IntervalUpdatesCore, UiMutates, UiNotifies, UiSaves,
     loopVars, loopExceptCore
<1>5. ASSUME NEW t \in Tasks,
             \/ TaskStep(t) \/ ImportBrowserSession(t) \/ SignOut(t)
             \/ \E k \in Keys : SignIn(t, k)
      PROVE  NotifyPending' \/ pc' \in {"check", "start"}
  <2>1. CASE TaskNotifies(t)
    BY <2>1 DEF TaskNotifies
  <2>2. CASE ~TaskNotifies(t)
    <3>1. permit' = permit /\ ui' = ui
      BY <1>5, <2>2 DEF TaskStep, ImportBrowserSession, SignOut, SignIn, ReadCookies,
         CheckSource, CheckTaskConsent, LoadPrevious, SaveKey, ValidateReply, Rollback,
         ResumePolling, ClearKey, RecordNoSession, loopVars, loopExceptCore, loopExceptStore
    <3>2. task[t].pc # "notify" /\ \E state : task' = [task EXCEPT ![t] = state]
      BY <1>5, <2>2 DEF TaskStep, ImportBrowserSession, SignOut, SignIn, ReadCookies,
         CheckSource, CheckTaskConsent, LoadPrevious, SaveKey, ValidateReply, Rollback,
         ResumePolling, ClearKey, RecordNoSession, At, Goto, End
    <3>. QED BY <3>1, <3>2, TaskMoves
  <2>. QED BY <2>1, <2>2
<1>6. CASE UNCHANGED vars
  BY <1>6 DEF vars, loopVars
<1>. QED BY <1>1, <1>2, <1>3, <1>4, <1>5, <1>6 DEF Next, UserStep

\* A command that changes the phase owes the loop a wake-up: only the loop's own
\* outcome, which it broadcasts, and a launch change it silently.
LEMMA CommandsNotify ==
    ASSUME TypeInv, [Next]_vars
    PROVE  \/ phase' = phase /\ (snapshot' = NoSnapshot <=> snapshot = NoSnapshot)
           \/ NotifyPending'
           \/ pc' = "start" \/ RecordOutcome
<1>. USE DEF NotifyPending, TypeInv, MeterTypeOK, LoopTypeOK,
             coreVars, gateVars, waitVars, fileVars, serverVars, loopVars
<1>1. CASE Loop
  BY <1>1 DEF Loop, LoopStep, Start, Check, DispatchLive, DispatchStatusline,
     CheckConsent, LoadKey, OrganizationsReply, UsageReply, SaveCache, WriteExport,
     RecordOutcome,
     Broadcast, ServeNativeCalls, OnStateReturns, Park, Wait, Wake, SliceEnds
<1>2. CASE Tick \/ Suspend
  BY <1>2, OlderType DEF Tick, Suspend, AllOlder
<1>3. CASE StepBack
  <2>1. \E saturated \in BOOLEAN : snapshot' = Younger(snapshot, saturated)
    BY <1>3 DEF StepBack
  <2>2. (snapshot # NoSnapshot => snapshot.age > MinAge) /\ phase' = phase
    BY <1>3 DEF StepBack
  <2>. QED BY <2>1, <2>2, YoungerType
<1>4. CASE Server \/ Restart
  BY <1>4 DEF Server, ServerChanges, Restart
<1>5. CASE UserStep
  BY <1>5 DEF UserStep, SetTosAcknowledged, SetUsageSource, SetRefreshInterval, RefreshUsage,
     ImportBrowserSession, SignOut, SignIn
<1>6. CASE UiStep
  BY <1>6 DEF UiStep, TosUpdatesCore, SourceResumes, IntervalUpdatesCore, UiMutates,
     UiNotifies, UiSaves, loopExceptPermit
<1>7. ASSUME NEW t \in Tasks, TaskStep(t)
      PROVE  \/ phase' = phase /\ (snapshot' = NoSnapshot <=> snapshot = NoSnapshot)
             \/ NotifyPending'
  <2>1. CASE ResumePolling(t) \/ RecordNoSession(t)
    BY <2>1 DEF ResumePolling, RecordNoSession, Goto, TaskStates
  <2>2. CASE ~(ResumePolling(t) \/ RecordNoSession(t))
    BY <1>7, <2>2 DEF TaskStep, ReadCookies, CheckSource, CheckTaskConsent, LoadPrevious,
       SaveKey, ValidateReply, Rollback, ClearKey, TaskNotifies, loopExceptStore,
       loopExceptPermit
  <2>. QED BY <2>1, <2>2
<1>8. CASE UNCHANGED vars
  BY <1>8 DEF vars
<1>. QED BY <1>1, <1>2, <1>3, <1>4, <1>5, <1>6, <1>7, <1>8 DEF Next, Time

\* Only the loop moves itself; everyone else leaves its place and its registers
\* alone, or ends the process.
LEMMA OnlyTheLoopMoves ==
    ASSUME [Next]_vars
    PROVE  \/ Loop
           \/ UNCHANGED <<pc, outcome, shown>>
           \/ pc' = "start"
<1>. USE DEF coreVars, gateVars, waitVars, fileVars, serverVars, loopVars
<1>1. CASE Time \/ Server \/ Restart
  BY <1>1 DEF Time, Tick, Suspend, StepBack, Server, ServerChanges, Restart
<1>2. CASE UserStep \/ UiStep
  BY <1>2 DEF UserStep, SetTosAcknowledged, SetUsageSource, SetRefreshInterval, RefreshUsage,
     ImportBrowserSession, SignOut, SignIn, UiStep, TosUpdatesCore, SourceResumes,
     IntervalUpdatesCore, UiNotifies, UiSaves, loopExceptCore, loopExceptPermit
<1>3. ASSUME NEW t \in Tasks, TaskStep(t)
      PROVE  UNCHANGED <<pc, outcome, shown>>
  BY <1>3 DEF TaskStep, ReadCookies, CheckSource, CheckTaskConsent, LoadPrevious, SaveKey,
     ValidateReply, Rollback, ResumePolling, ClearKey, RecordNoSession, TaskNotifies,
     loopExceptCore, loopExceptPermit, loopExceptStore
<1>4. CASE UNCHANGED vars
  BY <1>4 DEF vars
<1>. QED BY <1>1, <1>2, <1>3, <1>4 DEF Next

-----------------------------------------------------------------------------
(* The three promises that rest on the permit.                             *)

\* The loop never sleeps through a command: parked with no wake-up on its way,
\* the core is in a phase that only a command can leave (SchedulerHandle::update
\* stores a permit whether or not the loop is waiting).
THEOREM WakeupsAreNotLost == Spec => []NoLostWakeup
<1>1. Init => NoLostWakeup
  BY DEF Init, NoLostWakeup
<1>2. TypeInv /\ NoLostWakeup /\ [Next]_vars => NoLostWakeup'
  <2>. SUFFICES ASSUME TypeInv, NoLostWakeup, [Next]_vars, pc' = "parked", ~NotifyPending'
                PROVE  phase' \in ParkingPhases
    BY DEF NoLostWakeup
  <2>1. ~NotifyPending /\ phase' = phase
    BY PendingStays, CommandsNotify DEF RecordOutcome
  <2>2. CASE pc = "parked"
    BY <2>1, <2>2 DEF NoLostWakeup
  <2>3. CASE pc # "parked"
    <3>1. Park
      BY <2>3, OnlyTheLoopMoves DEF Loop, LoopStep, Start, Check, DispatchLive,
         DispatchStatusline, CheckConsent, LoadKey, OrganizationsReply, UsageReply,
         RequestFails, Finish, SaveCache, WriteExport, RecordOutcome, Broadcast,
         ServeNativeCalls, OnStateReturns, Wait, Wake, SliceEnds, Attempt
    <3>. QED BY <2>1, <3>1, OnlyParkingPhasesPark DEF Park, TypeInv, MeterTypeOK, LoopTypeOK
  <2>. QED BY <2>2, <2>3
<1>. QED BY <1>1, <1>2, TypeInvariant, PTL DEF Spec

\* At rest, with no wake-up on its way, everyone has been told the phase the core
\* is in, whichever commands and outcomes overlapped: run_loop broadcasts after
\* every wake-up, the ones the TTL served from memory included.
THEOREM BroadcastsKeepUp == Spec => []ShownIsCurrent
<1>1. Init => ShownIsCurrent
  BY DEF Init, ShownIsCurrent
<1>2. TypeInv /\ ShownIsCurrent /\ [Next]_vars => ShownIsCurrent'
  <2>. SUFFICES ASSUME TypeInv, ShownIsCurrent, [Next]_vars,
                       pc' \in {"publishing", "plan", "parked", "waiting"}, ~NotifyPending'
                PROVE  shown'.phase = phase' /\ shown'.snapshot = (snapshot' # NoSnapshot)
    BY DEF ShownIsCurrent
  <2>1. ~NotifyPending /\ phase' = phase /\ (snapshot' = NoSnapshot <=> snapshot = NoSnapshot)
    BY PendingStays, CommandsNotify DEF RecordOutcome
  <2>2. CASE Broadcast
    BY <2>2 DEF Broadcast, View, coreVars
  <2>3. CASE ~Broadcast
    <3>1. pc \in {"publishing", "plan", "parked", "waiting"} /\ shown' = shown
      BY <2>3, OnlyTheLoopMoves DEF Loop, LoopStep, Start, Check, DispatchLive,
         DispatchStatusline, CheckConsent, LoadKey, OrganizationsReply, UsageReply,
         RequestFails, Finish, SaveCache, WriteExport, RecordOutcome, ServeNativeCalls,
         OnStateReturns, Park, Wait, Wake, SliceEnds, Attempt
    <3>. QED BY <2>1, <3>1 DEF ShownIsCurrent
  <2>. QED BY <2>2, <2>3
<1>. QED BY <1>1, <1>2, TypeInvariant, PTL DEF Spec

\* The user's choice of the status line has reached the loop.
OnStatusline == selection = "statusline" /\ ui.pc # "source" /\ ~NotifyPending

\* The strengthening: once it has, no claude.ai attempt is in flight, and what an
\* attempt of the status line is about to record does not park the core.
StatuslineInv ==
    OnStatusline =>
        /\ pc \notin {"gate", "load", "organizations", "usage"}
        /\ pc \in {"persist", "export", "record"} =>
               outcome.kind \in {"Success", "AwaitingStatusline"}
        /\ pc \in {"broadcast", "publishing", "plan", "waiting", "parked"} =>
               phase \in {"Polling", "AwaitingStatusline"}

\* The choice reaches the loop only by the loop taking its wake-up, or at launch.
LEMMA StatuslineArrives ==
    ASSUME TypeInv, [Next]_vars, OnStatusline'
    PROVE  OnStatusline \/ pc' \in {"check", "start"}
<1>. USE DEF coreVars, gateVars, waitVars, fileVars, serverVars, loopVars, loopExceptCore,
             loopExceptPermit, loopExceptStore
<1>. SUFFICES ASSUME pc' \notin {"check", "start"} PROVE OnStatusline
  OBVIOUS
<1>1. ~NotifyPending
  BY PendingStays DEF OnStatusline
<1>2. selection = "statusline" /\ ui.pc # "source"
  <2>1. CASE Loop \/ Time \/ Server
    BY <2>1 DEF OnStatusline, Loop, LoopStep, Start, Check, DispatchLive, DispatchStatusline,
       CheckConsent, LoadKey, OrganizationsReply, UsageReply, SaveCache, WriteExport,
       RecordOutcome, Broadcast, ServeNativeCalls, OnStateReturns, Park, Wait, Wake,
       SliceEnds, Time, Tick, Suspend, StepBack, Server, ServerChanges
  <2>2. CASE Restart
    BY <2>2 DEF Restart
  <2>3. CASE \/ \E acknowledged \in BOOLEAN : SetTosAcknowledged(acknowledged)
             \/ \E source \in Sources : SetUsageSource(source)
             \/ \E i \in Intervals : SetRefreshInterval(i)
             \/ RefreshUsage
    BY <2>3 DEF SetTosAcknowledged, SetUsageSource, SetRefreshInterval, RefreshUsage,
       OnStatusline, TypeInv, MeterTypeOK
  <2>4. CASE UiStep
    BY <2>4 DEF UiStep, TosUpdatesCore, SourceResumes, IntervalUpdatesCore, UiMutates,
       UiNotifies, UiSaves, OnStatusline, NotifyPending, TypeInv, MeterTypeOK
  <2>5. ASSUME NEW t \in Tasks,
               \/ TaskStep(t) \/ ImportBrowserSession(t) \/ SignOut(t)
               \/ \E k \in Keys : SignIn(t, k)
        PROVE  selection = "statusline" /\ ui.pc # "source"
    BY <2>5 DEF TaskStep, ImportBrowserSession, SignOut, SignIn, ReadCookies,
       CheckSource, CheckTaskConsent, LoadPrevious, SaveKey, ValidateReply, Rollback,
       ResumePolling, ClearKey, RecordNoSession, TaskNotifies, OnStatusline
  <2>6. CASE UNCHANGED vars
    BY <2>6 DEF vars, OnStatusline
  <2>. QED BY <2>1, <2>2, <2>3, <2>4, <2>5, <2>6 DEF Next, UserStep
<1>. QED BY <1>1, <1>2 DEF OnStatusline

\* The status-line source never strands: whatever an attempt of claude.ai still in
\* flight recorded and whichever command parked the core, once the choice has
\* reached the loop it comes to rest polling the file (set_usage_source resumes
\* after it moved the selection, and should_fetch never serves that source from
\* memory).
THEOREM StatuslineNeverStrands == Spec => []StatuslineKeepsPolling
<1>1. Init => StatuslineInv
  BY DEF Init, StatuslineInv
<1>2. TypeInv /\ StatuslineInv /\ [Next]_vars => StatuslineInv'
  <2>. SUFFICES ASSUME TypeInv, StatuslineInv, [Next]_vars, OnStatusline',
                       pc' \notin {"check", "start"}
                PROVE  StatuslineInv'
    BY DEF StatuslineInv
  <2>1. OnStatusline
    BY StatuslineArrives
  <2>2. CASE Loop
    <3>1. CASE Check
      BY <2>1, <3>1 DEF Check, StatuslineInv, OnStatusline, ShouldFetch, ReachesClaudeAi
    <3>2. CASE DispatchLive
      BY <2>1, <3>2 DEF DispatchLive, OnStatusline
    <3>3. CASE DispatchStatusline
      BY <3>3 DEF DispatchStatusline, Finish, Outcome, StatuslineInv
    <3>4. CASE CheckConsent \/ LoadKey \/ OrganizationsReply \/ UsageReply
      BY <2>1, <3>4 DEF CheckConsent, LoadKey, OrganizationsReply, UsageReply, StatuslineInv
    <3>5. CASE RecordOutcome
      BY <2>1, <3>5 DEF RecordOutcome, Record, PhaseAfter, StatuslineInv
    <3>6. CASE \/ SaveCache \/ WriteExport \/ Broadcast \/ ServeNativeCalls \/ Park \/ Wait
               \/ SliceEnds
      BY <2>1, <3>6 DEF SaveCache, WriteExport, Broadcast, ServeNativeCalls, OnStateReturns,
         Park, Wait, SliceEnds, Attempt, StatuslineInv, coreVars
    <3>7. CASE Wake
      BY <3>7 DEF Wake, Attempt
    <3>8. CASE Start
      BY <3>8 DEF Start, StatuslineInv
    <3>. QED BY <2>2, <3>8, <3>1, <3>2, <3>3, <3>4, <3>5, <3>6, <3>7 DEF Loop, LoopStep
  <2>3. CASE ~Loop
    <3>1. pc' = pc /\ outcome' = outcome
      BY <2>3, OnlyTheLoopMoves
    <3>2. phase' = phase \/ RecordOutcome
      BY CommandsNotify DEF OnStatusline
    <3>3. phase' = phase
      BY <3>1, <3>2 DEF RecordOutcome
    <3>. QED BY <2>1, <3>1, <3>3 DEF StatuslineInv
  <2>. QED BY <2>2, <2>3
<1>3. StatuslineInv => StatuslineKeepsPolling
  BY DEF StatuslineInv, OnStatusline, StatuslineKeepsPolling
<1>. QED BY <1>1, <1>2, <1>3, TypeInvariant, PTL DEF Spec

-----------------------------------------------------------------------------
(* What is on disk, when writes succeed.                                   *)

\* The strengthening: a running command has moved the gate, the selection or, but for
\* one that is still waiting to, the core, and carries the settings it will store.
SettingsInv ==
    /\ ui.pc = "idle" => settings = Current
    /\ ui.pc \notin {"idle", "interval"} => ui.next = Current
    /\ ui.pc = "interval" => ui.next = [Current EXCEPT !.interval = ui.next.interval]

\* A restart comes back to the user's choices: between commands settings.json
\* holds what the gate, the selection and the core run with (each command of
\* commands/ stores what it applied, and the launch seeds from the file).
THEOREM SettingsAreKept ==
    ASSUME "write" \notin Faults
    PROVE  Spec => []SettingsFollow
<1>1. Init => SettingsInv
  BY DEF Init, SettingsInv, Current, InitialSettings
<1>2. TypeInv /\ SettingsInv /\ [Next]_vars => SettingsInv'
  <2>. SUFFICES ASSUME TypeInv, SettingsInv, [Next]_vars
                PROVE  SettingsInv'
    OBVIOUS
  <2>. USE DEF SettingsInv, coreVars, gateVars, waitVars, fileVars, serverVars
  <2>1. CASE Loop \/ Time \/ Server
    <3>1. UNCHANGED <<interval, consent, selection>>
      BY <2>1 DEF Loop, LoopStep, Start, Check, DispatchLive, DispatchStatusline,
         CheckConsent, LoadKey, OrganizationsReply, UsageReply, SaveCache, WriteExport,
         RecordOutcome, Broadcast, ServeNativeCalls, OnStateReturns, Park, Wait, Wake,
         SliceEnds, Time, Tick, Suspend, StepBack, Server, ServerChanges
    <3>2. UNCHANGED <<settings, ui>>
      BY <2>1 DEF Loop, Time, Server
    <3>. QED BY <3>1, <3>2 DEF Current
  <2>2. CASE Restart
    BY <2>2 DEF Restart, Current, TypeInv, MeterTypeOK, Settings
  <2>3. ASSUME NEW acknowledged \in BOOLEAN, SetTosAcknowledged(acknowledged)
        PROVE  SettingsInv'
    BY <2>3 DEF SetTosAcknowledged, Current
  <2>4. ASSUME NEW source \in Sources, SetUsageSource(source)
        PROVE  SettingsInv'
    BY <2>4 DEF SetUsageSource, Current
  <2>5. ASSUME NEW i \in Intervals, SetRefreshInterval(i)
        PROVE  SettingsInv'
    BY <2>5 DEF SetRefreshInterval, Current, loopVars
  <2>6. CASE RefreshUsage
    BY <2>6 DEF RefreshUsage, loopExceptPermit, Current
  <2>7. CASE UiStep
    <3>1. CASE IntervalUpdatesCore
      <4>1. /\ ui.pc = "interval" /\ ui'.pc = "notify" /\ ui'.next = ui.next
            /\ interval' = ui.next.interval /\ UNCHANGED <<consent, selection>>
        BY <3>1 DEF IntervalUpdatesCore, UiMutates, TypeInv, MeterTypeOK
      <4>. QED BY <4>1 DEF Current
    <3>2. CASE ~IntervalUpdatesCore
      <4>1. UNCHANGED <<interval, consent, selection>>
        BY <2>7, <3>2 DEF UiStep, TosUpdatesCore, SourceResumes, UiNotifies, UiSaves,
           loopVars, loopExceptCore, loopExceptPermit
      <4>2. ui.pc \notin {"idle", "interval"} /\ ui'.pc # "interval" /\ ui'.next = ui.next
        BY <2>7, <3>2 DEF UiStep, TosUpdatesCore, SourceResumes, UiMutates, UiNotifies,
           UiSaves, TypeInv, MeterTypeOK
      <4>3. ui'.pc = "idle" => settings' = ui.next
        BY <2>7, <3>2 DEF UiStep, TosUpdatesCore, SourceResumes, UiMutates, UiNotifies,
           UiSaves, Written, TypeInv, MeterTypeOK
      <4>. QED BY <4>1, <4>2, <4>3 DEF Current
    <3>. QED BY <3>1, <3>2
  <2>8. ASSUME NEW t \in Tasks,
               \/ TaskStep(t) \/ ImportBrowserSession(t) \/ SignOut(t)
               \/ \E k \in Keys : SignIn(t, k)
        PROVE  SettingsInv'
    <3>1. UNCHANGED <<interval, consent, selection, settings, ui>>
      BY <2>8 DEF TaskStep, ImportBrowserSession, SignOut, SignIn, ReadCookies,
         CheckSource, CheckTaskConsent, LoadPrevious, SaveKey, ValidateReply, Rollback,
         ResumePolling, ClearKey, RecordNoSession, TaskNotifies, loopVars, loopExceptCore,
         loopExceptPermit, loopExceptStore
    <3>. QED BY <3>1 DEF Current
  <2>9. CASE UNCHANGED vars
    BY <2>9 DEF vars, loopVars, Current
  <2>. QED BY <2>1, <2>2, <2>3, <2>4, <2>5, <2>6, <2>7, <2>8, <2>9 DEF Next, UserStep
<1>3. SettingsInv => SettingsFollow
  BY DEF SettingsInv, SettingsFollow
<1>. QED BY <1>1, <1>2, <1>3, TypeInvariant, PTL DEF Spec

\* The strengthening: an outcome about to be recorded is on disk already if it is
\* a reading, and only a launch between the two writes can leave the export behind.
FilesInv ==
    /\ pc \in {"persist", "export"} => outcome.kind = "Success"
    /\ cacheFile = IF pc \in {"export", "record"} THEN SnapshotAfter(snapshot, outcome)
                                                 ELSE snapshot
    /\ "restart" \notin Faults =>
         exportFile = IF pc = "record" THEN SnapshotAfter(snapshot, outcome) ELSE snapshot

\* An outcome that carries no reading keeps the one in memory.
LEMMA FailureKeepsReading ==
    ASSUME NEW kind \in OutcomeKinds \ {"Success"}, Record(Outcome(kind))
    PROVE  snapshot' = snapshot
BY DEF Record, SnapshotAfter, Outcome

\* The clocks age the reading and its copies alike.
LEMMA AgesTogether ==
    ASSUME FilesInv, Time
    PROVE  FilesInv'
<1>1. pc' = pc /\ pc \notin {"persist", "export", "record"}
  BY DEF Time, Tick, Suspend, StepBack, Awaiting, Awaits, Publishes
<1>2. cacheFile = snapshot /\ ("restart" \notin Faults => exportFile = snapshot)
  BY <1>1 DEF FilesInv
<1>3. cacheFile' = snapshot' /\ ("restart" \notin Faults => exportFile' = snapshot')
  <2>1. CASE Tick \/ Suspend
    BY <1>2, <2>1 DEF Tick, Suspend, AllOlder
  <2>2. CASE StepBack
    BY <1>2, <2>2 DEF StepBack
  <2>. QED BY <2>1, <2>2 DEF Time
<1>. QED BY <1>1, <1>3 DEF FilesInv

\* FilesInv is an invariant when writes succeed.
LEMMA FilesInvariant ==
    ASSUME "write" \notin Faults
    PROVE  Spec => []FilesInv
<1>1. Init => FilesInv
  BY DEF Init, FilesInv
<1>2. TypeInv /\ FilesInv /\ [Next]_vars => FilesInv'
  <2>. SUFFICES ASSUME TypeInv, FilesInv, [Next]_vars
                PROVE  FilesInv'
    OBVIOUS
  <2>. USE DEF coreVars, gateVars, waitVars, fileVars, serverVars
  <2>1. CASE Loop
    <3>1. CASE DispatchStatusline \/ CheckConsent \/ LoadKey \/ OrganizationsReply \/ UsageReply
      <4>1. /\ UNCHANGED <<snapshot, cacheFile, exportFile>>
            /\ pc \notin {"persist", "export", "record"} /\ pc' # "export"
        BY <3>1 DEF DispatchStatusline, CheckConsent, LoadKey, OrganizationsReply, UsageReply,
           RequestFails, Finish
      <4>2. pc' = "persist" => outcome'.kind = "Success"
        BY <3>1 DEF DispatchStatusline, CheckConsent, LoadKey, OrganizationsReply, UsageReply,
           RequestFails, Finish
      <4>3. pc' = "record" => outcome'.kind # "Success"
        BY <3>1 DEF DispatchStatusline, CheckConsent, LoadKey, OrganizationsReply, UsageReply,
           RequestFails, Finish, Outcome
      <4>. QED BY <4>1, <4>2, <4>3 DEF FilesInv, SnapshotAfter
    <3>2. CASE SaveCache
      BY <3>2 DEF SaveCache, Written, IsNewSnapshot, FilesInv, SnapshotAfter
    <3>3. CASE WriteExport
      BY <3>3 DEF WriteExport, Written, FilesInv, SnapshotAfter
    <3>4. CASE RecordOutcome
      BY <3>4 DEF RecordOutcome, Record, FilesInv
    <3>5. CASE \/ Start \/ Check \/ DispatchLive \/ Broadcast \/ ServeNativeCalls \/ Park
               \/ Wait \/ Wake \/ SliceEnds
      <4>1. UNCHANGED <<snapshot, cacheFile, exportFile>>
        BY <3>5 DEF Start, Check, DispatchLive, Broadcast, ServeNativeCalls, OnStateReturns,
           Park, Wait, Wake, SliceEnds
      <4>2. {pc, pc'} \cap {"persist", "export", "record"} = {}
        BY <3>5 DEF Start, Check, DispatchLive, Broadcast, ServeNativeCalls, OnStateReturns,
           Park, Wait, Wake, SliceEnds, Attempt
      <4>. QED BY <4>1, <4>2 DEF FilesInv
    <3>. QED BY <2>1, <3>1, <3>2, <3>3, <3>4, <3>5 DEF Loop, LoopStep
  <2>2. CASE Time
    BY <2>2, AgesTogether
  <2>3. CASE Restart
    BY <2>3 DEF Restart, FilesInv
  <2>4. CASE Server \/ UserStep \/ UNCHANGED vars
    <3>1. UNCHANGED <<pc, outcome, snapshot, cacheFile, exportFile>>
      BY <2>4 DEF Server, ServerChanges, UserStep, SetTosAcknowledged, SetUsageSource,
         SetRefreshInterval, RefreshUsage, ImportBrowserSession, SignOut, SignIn, vars,
         loopVars, loopExceptPermit
    <3>. QED BY <3>1 DEF FilesInv
  <2>5. CASE UiStep
    <3>1. snapshot' = snapshot
      <4>1. "NotAcknowledged" \in OutcomeKinds \ {"Success"}
        BY DEF OutcomeKinds
      <4>. QED BY <2>5, <4>1, FailureKeepsReading DEF UiStep, TosUpdatesCore, SourceResumes,
              IntervalUpdatesCore, UiNotifies, UiSaves, Resume, loopVars, loopExceptPermit
    <3>2. UNCHANGED <<pc, outcome, cacheFile, exportFile>>
      BY <2>5 DEF UiStep, TosUpdatesCore, SourceResumes, IntervalUpdatesCore, UiNotifies,
         UiSaves, loopVars, loopExceptCore, loopExceptPermit
    <3>. QED BY <3>1, <3>2 DEF FilesInv
  <2>6. ASSUME NEW t \in Tasks, TaskStep(t)
        PROVE  FilesInv'
    <3>1. UNCHANGED <<pc, outcome, snapshot, cacheFile, exportFile>>
      BY <2>6, FailureKeepsReading DEF OutcomeKinds, TaskStep, ReadCookies, CheckSource,
         CheckTaskConsent,
         LoadPrevious, SaveKey, ValidateReply, Rollback, ResumePolling, ClearKey,
         RecordNoSession, TaskNotifies, Resume, loopVars, loopExceptCore, loopExceptPermit,
         loopExceptStore
    <3>. QED BY <3>1 DEF FilesInv
  <2>. QED BY <2>1, <2>2, <2>3, <2>4, <2>5, <2>6 DEF Next
<1>. QED BY <1>1, <1>2, TypeInvariant, PTL DEF Spec

\* The disk cache agrees with the reading in memory between attempts, and so a
\* restart at any point shows what was shown, although a reading that says nothing
\* new is not written again and a command may record an outcome of its own in the
\* middle of an attempt (run_loop, scheduler/mod.rs).
THEOREM CacheAgrees ==
    ASSUME "write" \notin Faults
    PROVE  Spec => []CacheHoldsSnapshot
<1>1. FilesInv => CacheHoldsSnapshot
  BY DEF FilesInv, CacheHoldsSnapshot
<1>. QED BY <1>1, FilesInvariant, PTL

\* So does the public export as long as the process lives; the assumption is
\* needed, a process that ends between the two writes leaves the export behind.
THEOREM ExportAgrees ==
    ASSUME "write" \notin Faults, "restart" \notin Faults
    PROVE  Spec => []ExportHoldsSnapshot
<1>1. FilesInv => ExportHoldsSnapshot
  BY DEF FilesInv, ExportHoldsSnapshot
<1>. QED BY <1>1, FilesInvariant, PTL
-----------------------------------------------------------------------------
(* The TTL on claude.ai.                                                   *)

\* A command, claude.ai and a stutter leave the attempt of the loop, its timer, the
\* reading and the files alone; the phases a command sets are these.
LEMMA CommandsLeaveTheLoop ==
    ASSUME [Next]_vars, ~Loop, ~Time, ~Restart
    PROVE  /\ UNCHANGED <<pc, forced, outcome, remaining, slice, snapshot, cacheFile>>
           /\ \/ phase' \in {phase, "Polling", "AwaitingSession"}
              \/ phase' = "AwaitingConsent" /\ ui.pc = "tos"
<1>. USE DEF coreVars, gateVars, waitVars, fileVars, serverVars, loopVars, loopExceptCore,
             loopExceptPermit, loopExceptStore
<1>1. CASE Server \/ UserStep
  BY <1>1 DEF Server, ServerChanges, UserStep, SetTosAcknowledged, SetUsageSource,
     SetRefreshInterval, RefreshUsage, ImportBrowserSession, SignOut, SignIn
<1>2. CASE UiStep
  <2>1. "NotAcknowledged" \in OutcomeKinds \ {"Success"}
    BY DEF OutcomeKinds
  <2>. QED BY <1>2, <2>1, FailureKeepsReading DEF UiStep, TosUpdatesCore, SourceResumes,
       IntervalUpdatesCore, UiMutates, UiNotifies, UiSaves, Resume, Record, PhaseAfter,
       Outcome
<1>3. ASSUME NEW t \in Tasks, TaskStep(t)
      PROVE  /\ UNCHANGED <<pc, forced, outcome, remaining, slice, snapshot, cacheFile>>
             /\ phase' \in {phase, "Polling", "AwaitingSession"}
  BY <1>3, FailureKeepsReading DEF OutcomeKinds, TaskStep, ReadCookies, CheckSource,
     CheckTaskConsent, LoadPrevious, SaveKey, ValidateReply, Rollback, ResumePolling,
     ClearKey, RecordNoSession, TaskNotifies, Resume, Record, PhaseAfter, Outcome
<1>4. CASE UNCHANGED vars
  BY <1>4 DEF vars
<1>. QED BY <1>1, <1>2, <1>3, <1>4 DEF Next

\* Without the command that changes it, the source is claude.ai.
OnClaudeAi ==
    /\ selection = "claude_ai" /\ settings.source = "claude_ai"
    /\ ui.next.source = "claude_ai" /\ ui.pc # "source"

LEMMA SourceStays ==
    ASSUME "source" \notin Commands
    PROVE  Spec => []OnClaudeAi
<1>1. Init => OnClaudeAi
  BY DEF Init, OnClaudeAi, InitialSettings, ReachesClaudeAi
<1>2. TypeInv /\ OnClaudeAi /\ [Next]_vars => OnClaudeAi'
  <2>. SUFFICES ASSUME TypeInv, OnClaudeAi, [Next]_vars
                PROVE  OnClaudeAi'
    OBVIOUS
  <2>. USE DEF OnClaudeAi, coreVars, gateVars, waitVars, fileVars, serverVars, loopVars,
               loopExceptCore, loopExceptPermit, loopExceptStore
  <2>1. CASE Loop \/ Time \/ Server
    BY <2>1 DEF Loop, LoopStep, Start, Check, DispatchLive, DispatchStatusline, CheckConsent,
       LoadKey, OrganizationsReply, UsageReply, SaveCache, WriteExport, RecordOutcome,
       Broadcast, ServeNativeCalls, OnStateReturns, Park, Wait, Wake, SliceEnds, Time, Tick,
       Suspend, StepBack, Server, ServerChanges
  <2>2. CASE Restart
    BY <2>2 DEF Restart
  <2>3. CASE UserStep
    <3>1. UNCHANGED <<selection, settings>>
      BY <2>3 DEF UserStep, SetTosAcknowledged, SetUsageSource, SetRefreshInterval,
         RefreshUsage, ImportBrowserSession, SignOut, SignIn
    <3>2. ui'.next.source = "claude_ai" /\ ui'.pc # "source"
      <4>1. ASSUME NEW acknowledged \in BOOLEAN, SetTosAcknowledged(acknowledged)
            PROVE  ui'.next.source = "claude_ai" /\ ui'.pc # "source"
        BY <4>1 DEF SetTosAcknowledged, Current
      <4>2. ASSUME NEW i \in Intervals, SetRefreshInterval(i)
            PROVE  ui'.next.source = "claude_ai" /\ ui'.pc # "source"
        BY <4>2 DEF SetRefreshInterval, Current
      <4>. QED BY <2>3, <4>1, <4>2 DEF UserStep, SetUsageSource, RefreshUsage,
              ImportBrowserSession, SignOut, SignIn
    <3>. QED BY <3>1, <3>2
  <2>4. CASE UiStep
    BY <2>4 DEF UiStep, TosUpdatesCore, SourceResumes, IntervalUpdatesCore, UiMutates,
       UiNotifies, UiSaves, Written, TypeInv, MeterTypeOK
  <2>5. ASSUME NEW t \in Tasks, TaskStep(t)
        PROVE  OnClaudeAi'
    BY <2>5 DEF TaskStep, ReadCookies, CheckSource, CheckTaskConsent, LoadPrevious, SaveKey,
       ValidateReply, Rollback, ResumePolling, ClearKey, RecordNoSession, TaskNotifies
  <2>6. CASE UNCHANGED vars
    BY <2>6 DEF vars
  <2>. QED BY <2>1, <2>2, <2>3, <2>4, <2>5, <2>6 DEF Next
<1>. QED BY <1>1, <1>2, TypeInvariant, PTL DEF Spec

\* claude.ai may be asked again: the TTL of the last reading has passed.
Due(s) == s = NoSnapshot \/ s.age >= MemoryTTL

\* The ages are told apart beyond the TTL.
LEMMA TtlBelowCap == MemoryTTL < AgeCap
<1>1. PICK i \in Intervals : MemoryTTL < i /\ StaleAfterIntervals * i < AgeCap
  BY CoreAssumption DEF CoreAssumption
<1>2. i \in Nat /\ StaleAfterIntervals \in Nat \ {0} /\ MemoryTTL \in Nat /\ AgeCap \in Nat
  BY CoreAssumption DEF CoreAssumption
<1>3. i <= StaleAfterIntervals * i
  BY <1>2
<1>. QED BY <1>1, <1>2, <1>3

\* A reading that is d ticks short of the TTL, or past it, ...
DueIn(s, d) == s = NoSnapshot \/ s.age + d >= MemoryTTL

\* ... is one tick nearer to it when the clocks have advanced.
LEMMA OlderIsNearer ==
    ASSUME NEW s \in OptionalSnapshots, NEW d \in Nat
    PROVE  /\ DueIn(s, d + 1) => DueIn(Older(s), d)
           /\ DueIn(s, d) => DueIn(Older(s), d)
<1>1. CASE s = NoSnapshot
  BY <1>1 DEF Older, DueIn
<1>2. CASE s # NoSnapshot
  <2>1. s \in Snapshots /\ s.age \in -1..AgeCap
    BY <1>2 DEF OptionalSnapshots, Snapshots, Ages, MinAge
  <2>2. Older(s).age = Smaller(s.age + 1, AgeCap)
    BY <1>2, <2>1 DEF Older, Snapshots
  <2>3. MemoryTTL \in Nat /\ AgeCap \in Nat /\ MemoryTTL < AgeCap
    BY CoreAssumption, TtlBelowCap DEF CoreAssumption
  <2>. QED BY <1>2, <2>1, <2>2, <2>3 DEF DueIn, Smaller
<1>. QED BY <1>1, <1>2

\* A reading is due when nothing is left to wait for.
LEMMA DueNow ==
    ASSUME NEW s \in OptionalSnapshots
    PROVE  Due(s) <=> DueIn(s, 0)
<1>1. s # NoSnapshot => s.age \in -1..AgeCap
  BY DEF OptionalSnapshots, Snapshots, Ages, MinAge
<1>. QED BY <1>1, CoreAssumption DEF Due, DueIn, CoreAssumption

\* What is left of the wait for the next tick.
ToGo == remaining - Smaller(remaining, Slice) + slice

\* The strengthening: an attempt that is past the TTL check asks for a reading that
\* is due, its failure leaves that reading in place, a source that fails is due, and
\* a timer does not end before the reading is.
SpacingInv ==
    /\ pc \in {"dispatch", "gate", "load", "organizations", "usage"} => Due(snapshot)
    /\ pc \in {"persist", "export"} => outcome.kind = "Success"
    /\ pc = "record" /\ outcome.kind \in {"Transient", "NotAcknowledged"} => Due(snapshot)
    /\ phase = "Degraded" => Due(snapshot)
    /\ pc \in {"restoring", "check"} /\ ~forced => Due(snapshot)
    /\ pc = "waiting" => DueIn(snapshot, ToGo)

\* The delay the loop is told to wait outlasts the TTL of any reading it holds.
LEMMA DelaysOutlastTtl ==
    ASSUME TypeInv, SpacingInv, selection = "claude_ai",
           NEW delay \in NextDelays(phase, failures, interval, selection)
    PROVE  DueIn(snapshot, delay)
<1>1. delay \in Nat /\ MemoryTTL \in Nat /\ AgeCap \in Nat
  BY DelaysType, CoreAssumption DEF TypeInv, MeterTypeOK, LoopTypeOK, CoreAssumption
<1>2. snapshot # NoSnapshot => snapshot.age \in -1..AgeCap
  BY DEF TypeInv, MeterTypeOK, LoopTypeOK, OptionalSnapshots, Snapshots, Ages, MinAge
<1>3. CASE phase = "Degraded"
  BY <1>1, <1>2, <1>3 DEF SpacingInv, Due, DueIn
<1>4. CASE phase \in {"Polling", "AwaitingStatusline"}
  <2>1. delay = interval
    BY <1>4 DEF NextDelays, ParkingPhases, PollInterval, ReachesClaudeAi
  <2>2. interval \in Nat /\ MemoryTTL < interval
    BY CoreAssumption DEF TypeInv, MeterTypeOK, LoopTypeOK, CoreAssumption
  <2>. QED BY <1>1, <1>2, <2>1, <2>2 DEF DueIn
<1>5. CASE phase \in ParkingPhases
  BY <1>5 DEF NextDelays, ParkingPhases
<1>. QED BY <1>3, <1>4, <1>5 DEF TypeInv, MeterTypeOK, LoopTypeOK, Phases, ParkingPhases

\* A wait starts with its whole delay to go.
LEMMA WholeDelay ==
    ASSUME NEW delay \in Nat
    PROVE  delay - Smaller(delay, Slice) + Smaller(delay, Slice) = delay
BY LoopAssumption DEF LoopAssumption, Smaller

\* claude.ai is not asked again within the TTL, at any of the points an attempt can
\* be at, by scheduled ticks, backoffs, drift, wake-ups and launches alike.
LEMMA SpacingStep ==
    ASSUME "step_back" \notin Faults, TypeInv, OnClaudeAi, OnClaudeAi', SpacingInv, [Next]_vars
    PROVE  SpacingInv'
<1>. USE DEF coreVars, gateVars, waitVars, fileVars, serverVars
<1>1. snapshot \in OptionalSnapshots /\ MemoryTTL \in Nat /\ phase \in Phases
      /\ remaining \in Nat /\ slice \in 0..Slice /\ Slice \in Nat \ {0}
  BY CoreAssumption, LoopAssumption
  DEF TypeInv, MeterTypeOK, LoopTypeOK, CoreAssumption, LoopAssumption
<1>2. CASE Time
  <2>1. UNCHANGED <<pc, forced, outcome, phase, remaining>> /\ snapshot' = Older(snapshot)
    BY <1>2 DEF Time, Tick, Suspend, StepBack, AllOlder
  <2>2. Due(snapshot) => Due(snapshot')
    <3>1. snapshot' \in OptionalSnapshots
      BY <1>1, <2>1, OlderType
    <3>2. DueIn(snapshot, 0) => DueIn(snapshot', 0)
      BY <1>1, <2>1, OlderIsNearer
    <3>. QED BY <1>1, <3>1, <3>2, DueNow
  <2>3. pc = "waiting" => DueIn(snapshot', ToGo')
    <3>. SUFFICES ASSUME pc = "waiting" PROVE DueIn(snapshot', ToGo')
      OBVIOUS
    <3>1. DueIn(snapshot, ToGo) /\ ToGo \in Nat
      BY <1>1 DEF SpacingInv, ToGo, Smaller
    <3>2. CASE Tick
      <4>1. ToGo' \in Nat /\ ToGo = ToGo' + 1
        BY <1>1, <2>1, <3>2 DEF Tick, ToGo, Smaller
      <4>. QED BY <1>1, <2>1, <3>1, <4>1, OlderIsNearer
    <3>3. CASE Suspend
      <4>1. ToGo' = ToGo
        BY <3>3 DEF Suspend, ToGo
      <4>. QED BY <1>1, <2>1, <3>1, <4>1, OlderIsNearer
    <3>. QED BY <1>2, <3>2, <3>3 DEF Time, StepBack
  <2>. QED BY <2>1, <2>2, <2>3 DEF SpacingInv
<1>3. CASE Restart
  BY <1>3 DEF Restart, SpacingInv, LaunchPhase
<1>4. CASE Loop
  <2>1. CASE RecordOutcome
    <3>1. phase' = "Degraded" => Due(snapshot')
      <4>1. outcome.kind \in OutcomeKinds
        BY DEF TypeInv, MeterTypeOK, LoopTypeOK, Outcomes
      <4>2. phase' = "Degraded" => outcome.kind = "Transient"
        BY <2>1, <4>1 DEF RecordOutcome, Record, PhaseAfter, OutcomeKinds
      <4>3. outcome.kind = "Transient" => snapshot' = snapshot
        BY <2>1 DEF RecordOutcome, Record, SnapshotAfter
      <4>. QED BY <2>1, <4>2, <4>3 DEF RecordOutcome, SpacingInv
    <3>. QED BY <2>1, <3>1 DEF RecordOutcome, SpacingInv
  <2>2. CASE ~RecordOutcome
    <3>1. snapshot' = snapshot /\ phase' = phase
      BY <1>4, <2>2 DEF Loop, LoopStep, Start, Check, DispatchLive, DispatchStatusline,
         CheckConsent, LoadKey, OrganizationsReply, UsageReply, SaveCache, WriteExport,
         Broadcast, ServeNativeCalls, OnStateReturns, Park, Wait, Wake, SliceEnds
    <3>2. CASE Check
      BY <3>1, <3>2 DEF Check, ShouldFetch, ReachesClaudeAi, OnClaudeAi, SpacingInv, Due
    <3>3. CASE DispatchLive \/ CheckConsent \/ LoadKey \/ OrganizationsReply \/ UsageReply
      <4>1. pc \in {"dispatch", "gate", "load", "organizations", "usage"}
        BY <3>3 DEF DispatchLive, CheckConsent, LoadKey, OrganizationsReply, UsageReply
      <4>2. pc' \in {"gate", "load", "organizations", "usage", "persist", "record"}
        BY <3>3 DEF DispatchLive, CheckConsent, LoadKey, OrganizationsReply, UsageReply,
           RequestFails, Finish
      <4>3. pc' = "persist" => outcome'.kind = "Success"
        BY <3>3 DEF DispatchLive, CheckConsent, LoadKey, OrganizationsReply, UsageReply,
           RequestFails, Finish
      <4>. QED BY <3>1, <4>1, <4>2, <4>3 DEF SpacingInv
    <3>4. CASE Wait
      <4>1. PICK delay \in NextDelays(phase, failures, interval, selection) :
              remaining' = delay /\ slice' = Smaller(delay, Slice)
        BY <3>4 DEF Wait
      <4>2. delay \in Nat /\ DueIn(snapshot, delay)
        BY <4>1, DelaysType, DelaysOutlastTtl
        DEF OnClaudeAi, TypeInv, MeterTypeOK, LoopTypeOK
      <4>3. ToGo' = delay
        BY <4>1, <4>2, WholeDelay DEF ToGo
      <4>. QED BY <3>1, <3>4, <4>2, <4>3 DEF Wait, SpacingInv
    <3>5. CASE SliceEnds
      <4>. DEFINE left == remaining - Smaller(remaining, Slice)
      <4>1. left \in Nat /\ ToGo = left /\ DueIn(snapshot, left)
        BY <1>1, <3>5 DEF SliceEnds, ToGo, Smaller, SpacingInv
      <4>2. CASE Attempt(TRUE)
        BY <3>1, <4>2 DEF Attempt, SpacingInv
      <4>3. CASE left = 0 /\ Attempt(FALSE)
        BY <1>1, <3>1, <4>1, <4>3
        DEF Attempt, SpacingInv, DueIn, Due, OptionalSnapshots, Snapshots, Ages, MinAge
      <4>4. CASE /\ remaining' = left /\ slice' = Smaller(left, Slice)
                 /\ UNCHANGED <<pc, forced>>
        <5>1. ToGo' = left
          BY <4>1, <4>4, WholeDelay DEF ToGo
        <5>2. pc' = "waiting"
          BY <3>5, <4>4 DEF SliceEnds
        <5>. QED BY <3>1, <4>1, <5>1, <5>2 DEF SpacingInv
      <4>. QED BY <3>5, <4>2, <4>3, <4>4 DEF SliceEnds
    <3>6. CASE DispatchStatusline
      BY <3>6 DEF DispatchStatusline, OnClaudeAi
    <3>7. CASE Start \/ Wake
      BY <3>1, <3>7 DEF Start, Wake, Attempt, SpacingInv
    <3>8. CASE SaveCache \/ WriteExport \/ Broadcast \/ Park
      <4>1. outcome' = outcome /\ pc' \in {"export", "record", "publishing", "plan", "parked"}
        BY <3>8 DEF SaveCache, WriteExport, Broadcast, Park
      <4>2. pc' \in {"export", "record"} => pc \in {"persist", "export"}
        BY <3>8 DEF SaveCache, WriteExport, Broadcast, Park
      <4>. QED BY <3>1, <4>1, <4>2 DEF SpacingInv
    <3>9. CASE ServeNativeCalls
      BY <3>1, <3>9 DEF ServeNativeCalls, OnStateReturns, SpacingInv
    <3>. QED
      BY <1>4, <2>2, <3>2, <3>3, <3>4, <3>5, <3>6, <3>7, <3>8, <3>9 DEF Loop, LoopStep
  <2>. QED BY <2>1, <2>2
<1>5. CASE ~Loop /\ ~Time /\ ~Restart
  <2>1. UNCHANGED <<pc, forced, outcome, remaining, slice, snapshot, cacheFile>>
    BY <1>5, CommandsLeaveTheLoop
  <2>2. phase' = phase \/ phase' # "Degraded"
    BY <1>5, CommandsLeaveTheLoop
  <2>. QED BY <2>1, <2>2 DEF SpacingInv, ToGo
<1>. QED BY <1>2, <1>3, <1>4, <1>5

\* The invariant holds from the first launch on: ages start anywhere, but nothing is
\* asked before a forced check.
LEMMA SpacingInvariant ==
    ASSUME "step_back" \notin Faults, "source" \notin Commands
    PROVE  Spec => []SpacingInv
<1>1. Init => SpacingInv
  BY DEF Init, SpacingInv, LaunchPhase
<1>2. TypeInv /\ OnClaudeAi /\ OnClaudeAi' /\ SpacingInv /\ [Next]_vars => SpacingInv'
  BY SpacingStep
<1>. QED BY <1>1, <1>2, TypeInvariant, SourceStays, PTL DEF Spec

\* The file of the cache is no younger than a reading: what a failed write leaves.
NoYounger(file, s) == file = NoSnapshot \/ (s # NoSnapshot /\ file.age >= s.age)

\* It is no younger than the reading in memory, or the one about to be there, whether
\* or not writes succeed.
CacheInv ==
    /\ pc \notin {"export", "record"} => NoYounger(cacheFile, snapshot)
    /\ pc \in {"persist", "export", "record"} =>
          NoYounger(cacheFile, SnapshotAfter(snapshot, outcome))

\* It stays so as both age.
LEMMA NoYoungerAges ==
    ASSUME NEW file \in OptionalSnapshots, NEW s \in OptionalSnapshots, NoYounger(file, s)
    PROVE  NoYounger(Older(file), Older(s))
<1>1. CASE file = NoSnapshot
  BY <1>1 DEF Older, NoYounger
<1>2. CASE file # NoSnapshot
  <2>1. s # NoSnapshot /\ file.age >= s.age
    BY <1>2 DEF NoYounger
  <2>2. /\ file \in Snapshots /\ file.age \in -1..AgeCap
        /\ s \in Snapshots /\ s.age \in -1..AgeCap
    BY <1>2, <2>1 DEF OptionalSnapshots, Snapshots, Ages, MinAge
  <2>3. /\ Older(file).age = Smaller(file.age + 1, AgeCap)
        /\ Older(s).age = Smaller(s.age + 1, AgeCap)
    BY <1>2, <2>1, <2>2 DEF Older, Snapshots
  <2>4. Older(file).age >= Older(s).age
    BY <2>1, <2>2, <2>3, CoreAssumption DEF Smaller, CoreAssumption
  <2>5. Older(s) # NoSnapshot
    BY <2>1, OlderType
  <2>. QED BY <2>4, <2>5 DEF NoYounger
<1>. QED BY <1>1, <1>2

\* A reading claude.ai gives is new when the one in memory was due.
LEMMA NewestReading ==
    ASSUME TypeInv, SpacingInv, CacheInv, UsageReply, pc' = "persist"
    PROVE  NoYounger(cacheFile, outcome'.snapshot) /\ outcome'.kind = "Success"
<1>1. PICK usage \in Readings :
          outcome' = [kind |-> "Success", snapshot |-> [age |-> 0, usage |-> usage]]
  BY DEF UsageReply, RequestFails, Finish
<1>2. pc = "usage" /\ Due(snapshot) /\ NoYounger(cacheFile, snapshot)
  BY DEF UsageReply, SpacingInv, CacheInv
<1>3. outcome'.snapshot # NoSnapshot /\ outcome'.snapshot.age = 0
  <2>1. 0 \in Ages
    BY CoreAssumption DEF CoreAssumption, Ages, MinAge
  <2>2. [age |-> 0, usage |-> usage] \in Snapshots
    BY <2>1 DEF Snapshots
  <2>. QED BY <1>1, <2>2, NoSnapshotAssumption DEF NoSnapshotAssumption
<1>4. cacheFile # NoSnapshot => cacheFile.age >= 0
  <2>1. cacheFile # NoSnapshot => cacheFile.age \in -1..AgeCap
    BY DEF TypeInv, MeterTypeOK, LoopTypeOK, OptionalSnapshots, Snapshots, Ages, MinAge
  <2>2. snapshot # NoSnapshot => snapshot.age \in -1..AgeCap
    BY DEF TypeInv, MeterTypeOK, LoopTypeOK, OptionalSnapshots, Snapshots, Ages, MinAge
  <2>. QED BY <1>2, <2>1, <2>2, CoreAssumption DEF NoYounger, Due, CoreAssumption
<1>. QED BY <1>1, <1>3, <1>4 DEF NoYounger

LEMMA CacheStep ==
    ASSUME "step_back" \notin Faults, TypeInv, OnClaudeAi, SpacingInv, CacheInv, [Next]_vars
    PROVE  CacheInv'
<1>. USE DEF coreVars, gateVars, waitVars, fileVars, serverVars
<1>1. CASE Time
  <2>1. pc' = pc /\ pc \notin {"persist", "export", "record"}
    BY <1>1 DEF Time, Tick, Suspend, StepBack, Awaiting, Awaits, Publishes
  <2>2. snapshot' = Older(snapshot) /\ cacheFile' = Older(cacheFile)
    BY <1>1 DEF Time, Tick, Suspend, StepBack, AllOlder
  <2>3. snapshot \in OptionalSnapshots /\ cacheFile \in OptionalSnapshots
    BY DEF TypeInv, MeterTypeOK, LoopTypeOK
  <2>. QED BY <2>1, <2>2, <2>3, NoYoungerAges DEF CacheInv
<1>2. CASE Restart
  <2>1. pc' = "start" /\ snapshot' = cacheFile /\ cacheFile' = cacheFile
    BY <1>2 DEF Restart
  <2>2. NoYounger(cacheFile, cacheFile)
    BY DEF NoYounger, TypeInv, MeterTypeOK, LoopTypeOK, OptionalSnapshots, Snapshots, Ages,
       MinAge
  <2>. QED BY <2>1, <2>2 DEF CacheInv
<1>3. CASE Loop
  <2>1. CASE UsageReply
    <3>1. UNCHANGED <<snapshot, cacheFile>> /\ pc = "usage" /\ pc' # "export"
      BY <2>1 DEF UsageReply, RequestFails, Finish
    <3>2. pc' = "record" => outcome'.kind # "Success"
      BY <2>1 DEF UsageReply, RequestFails, Finish, Outcome
    <3>. QED BY <2>1, <3>1, <3>2, NewestReading DEF CacheInv, SnapshotAfter
  <2>2. CASE CheckConsent \/ LoadKey \/ OrganizationsReply
    <3>1. /\ UNCHANGED <<snapshot, cacheFile>>
          /\ pc \notin {"persist", "export", "record"} /\ pc' \notin {"persist", "export"}
      BY <2>2 DEF CheckConsent, LoadKey, OrganizationsReply, RequestFails, Finish
    <3>2. pc' = "record" => outcome'.kind # "Success"
      BY <2>2 DEF CheckConsent, LoadKey, OrganizationsReply, RequestFails, Finish, Outcome
    <3>. QED BY <3>1, <3>2 DEF CacheInv, SnapshotAfter
  <2>3. CASE DispatchStatusline
    BY <2>3 DEF DispatchStatusline, OnClaudeAi
  <2>4. CASE SaveCache
    <3>1. UNCHANGED <<snapshot, outcome>> /\ pc = "persist" /\ pc' \in {"export", "record"}
          /\ cacheFile' \in {cacheFile, outcome.snapshot}
      BY <2>4 DEF SaveCache, Written
    <3>2. SnapshotAfter(snapshot, outcome) = outcome.snapshot
      BY <3>1 DEF SpacingInv, SnapshotAfter
    <3>3. NoYounger(cacheFile, outcome.snapshot)
      BY <3>1, <3>2 DEF CacheInv
    <3>4. NoYounger(outcome.snapshot, outcome.snapshot)
      BY DEF NoYounger, TypeInv, MeterTypeOK, LoopTypeOK, Outcomes, OptionalSnapshots,
         Snapshots, Ages
    <3>. QED BY <3>1, <3>2, <3>3, <3>4 DEF CacheInv, SnapshotAfter
  <2>5. CASE WriteExport
    BY <2>5 DEF WriteExport, CacheInv, SnapshotAfter
  <2>6. CASE RecordOutcome
    BY <2>6 DEF RecordOutcome, Record, CacheInv, SnapshotAfter
  <2>7. CASE \/ Start \/ Check \/ DispatchLive \/ Broadcast \/ ServeNativeCalls \/ Park \/ Wait
             \/ Wake \/ SliceEnds
    <3>1. UNCHANGED <<snapshot, cacheFile>>
      BY <2>7 DEF Start, Check, DispatchLive, Broadcast, ServeNativeCalls, OnStateReturns,
         Park, Wait, Wake, SliceEnds
    <3>2. {pc, pc'} \cap {"persist", "export", "record"} = {}
      BY <2>7 DEF Start, Check, DispatchLive, Broadcast, ServeNativeCalls, OnStateReturns,
         Park, Wait, Wake, SliceEnds, Attempt
    <3>. QED BY <3>1, <3>2 DEF CacheInv
  <2>. QED BY <1>3, <2>1, <2>2, <2>3, <2>4, <2>5, <2>6, <2>7 DEF Loop, LoopStep
<1>4. CASE ~Loop /\ ~Time /\ ~Restart
  <2>1. UNCHANGED <<pc, outcome, snapshot, cacheFile>>
    BY <1>4, CommandsLeaveTheLoop
  <2>. QED BY <2>1 DEF CacheInv, SnapshotAfter
<1>. QED BY <1>1, <1>2, <1>3, <1>4

\* claude.ai is not asked for usage again within the TTL of the last reading it gave,
\* over scheduled ticks, backoffs, drift, wakes, manual refreshes, new keys and
\* restarts: should_fetch looks at forced attempts only, and the others are due
\* because every polling interval outlasts the TTL and a source that fails was due
\* when it was asked (scheduler/core.rs).  The cache on disk is the witness, which is
\* no younger than the reading, also where a write failed; ages are wall-clock ages,
\* so that clock is not stepped back.
THEOREM FetchesAreSpaced ==
    ASSUME "step_back" \notin Faults, "source" \notin Commands
    PROVE  Spec => SpacedFetches
<1>1. Init => CacheInv
  <2>1. ASSUME Init PROVE NoYounger(cacheFile, snapshot) /\ pc = "start"
    BY <2>1 DEF Init, NoYounger, OptionalSnapshots, Snapshots, Ages
  <2>. QED BY <2>1 DEF CacheInv
<1>2. TypeInv /\ OnClaudeAi /\ SpacingInv /\ CacheInv /\ [Next]_vars => CacheInv'
  BY CacheStep
<1>3. ASSUME TypeInv, SpacingInv, CacheInv, [Next]_vars, pc # "usage", pc' = "usage"
      PROVE  cacheFile = NoSnapshot \/ cacheFile.age >= MemoryTTL
  <2>1. LoadKey \/ OrganizationsReply
    BY <1>3, OnlyTheLoopMoves DEF Loop, LoopStep, Start, Check, DispatchLive,
       DispatchStatusline, CheckConsent, UsageReply, RequestFails, Finish, SaveCache,
       WriteExport, RecordOutcome, Broadcast, ServeNativeCalls, OnStateReturns, Park, Wait,
       Wake, SliceEnds, Attempt
  <2>2. pc \in {"load", "organizations"}
    BY <2>1 DEF LoadKey, OrganizationsReply
  <2>3. Due(snapshot) /\ NoYounger(cacheFile, snapshot)
    BY <1>3, <2>2 DEF SpacingInv, CacheInv
  <2>4. /\ cacheFile # NoSnapshot => cacheFile.age \in -1..AgeCap
        /\ snapshot # NoSnapshot => snapshot.age \in -1..AgeCap
    BY <1>3 DEF TypeInv, MeterTypeOK, LoopTypeOK, OptionalSnapshots, Snapshots, Ages, MinAge
  <2>. QED BY <2>3, <2>4, CoreAssumption DEF Due, NoYounger, CoreAssumption
<1>4. TypeInv /\ SpacingInv /\ CacheInv /\ [Next]_vars =>
        [pc # "usage" /\ pc' = "usage" =>
            cacheFile = NoSnapshot \/ cacheFile.age >= MemoryTTL]_vars
  BY <1>3
<1>. QED BY <1>1, <1>2, <1>4, TypeInvariant, SourceStays, SpacingInvariant, PTL
        DEF Spec, SpacedFetches
-----------------------------------------------------------------------------
(* Consent given late.                                                     *)

\* Where an attempt can be that is going to replace the outcome on record: past its
\* check, or about to be checked.
Attempting ==
    \/ pc \in {"start", "restoring", "check", "dispatch", "gate", "load", "organizations",
               "usage", "persist", "export"}
    \/ pc = "record" /\ outcome.kind # "NotAcknowledged"

\* The strengthening: consent given while a refusal was in flight has its wake-up on
\* the way, or an attempt under way, and the reading in memory is due, so that the
\* attempt the wake-up starts is not served from memory.
ConsentInv ==
    /\ ui.pc = "tos" => ui.next.tos = consent
    /\ pc = "record" /\ outcome.kind = "NotAcknowledged" /\ consent =>
          ui.pc = "tos" \/ NotifyPending
    /\ phase = "AwaitingConsent" /\ consent /\ ui.pc # "tos" =>
          Due(snapshot) /\ (NotifyPending \/ Attempting)

\* Only the user's command moves the gate, and it is not done until it has told the
\* core; a launch seeds both from one setting.
LEMMA GateMoves ==
    ASSUME TypeInv, [Next]_vars
    PROVE  \/ /\ consent' = consent
              /\ ui'.pc \in {ui.pc, "source", "interval", "notify", "save", "idle"}
              /\ (ui'.pc = "tos" => ui' = ui)
           \/ ui'.pc = "tos" /\ ui'.next.tos = consent' /\ UNCHANGED <<pc, permit, task>>
           \/ Restart
<1>. USE DEF coreVars, gateVars, waitVars, fileVars, serverVars, loopVars, loopExceptCore,
             loopExceptPermit, loopExceptStore
<1>1. CASE Loop \/ Time \/ Server
  BY <1>1 DEF Loop, LoopStep, Start, Check, DispatchLive, DispatchStatusline, CheckConsent,
     LoadKey, OrganizationsReply, UsageReply, SaveCache, WriteExport, RecordOutcome,
     Broadcast, ServeNativeCalls, OnStateReturns, Park, Wait, Wake, SliceEnds, Time, Tick,
     Suspend, StepBack, Server, ServerChanges
<1>2. ASSUME NEW acknowledged \in BOOLEAN, SetTosAcknowledged(acknowledged)
      PROVE  ui'.pc = "tos" /\ ui'.next.tos = consent' /\ UNCHANGED <<pc, permit, task>>
  BY <1>2 DEF SetTosAcknowledged, Current
<1>3. CASE \/ \E source \in Sources : SetUsageSource(source)
           \/ \E i \in Intervals : SetRefreshInterval(i)
           \/ RefreshUsage
  BY <1>3 DEF SetUsageSource, SetRefreshInterval, RefreshUsage
<1>4. CASE UiStep
  BY <1>4 DEF UiStep, TosUpdatesCore, SourceResumes, IntervalUpdatesCore, UiMutates,
     UiNotifies, UiSaves, TypeInv, MeterTypeOK
<1>5. ASSUME NEW t \in Tasks,
             \/ TaskStep(t) \/ ImportBrowserSession(t) \/ SignOut(t)
             \/ \E k \in Keys : SignIn(t, k)
      PROVE  consent' = consent /\ ui' = ui
  BY <1>5 DEF TaskStep, ImportBrowserSession, SignOut, SignIn, ReadCookies,
     CheckSource, CheckTaskConsent, LoadPrevious, SaveKey, ValidateReply, Rollback,
     ResumePolling, ClearKey, RecordNoSession, TaskNotifies
<1>6. CASE UNCHANGED vars
  BY <1>6 DEF vars
<1>. QED BY <1>1, <1>2, <1>3, <1>4, <1>5, <1>6 DEF Next, UserStep

\* The command that moved the gate ends by telling the core what the gate says.
LEMMA GateReachesCore ==
    ASSUME TypeInv, ConsentInv, [Next]_vars, ui.pc = "tos", ui'.pc # "tos"
    PROVE  \/ ui'.pc = "notify" /\ consent' = consent /\ (consent => phase' = "Polling")
           \/ Restart
<1>. USE DEF coreVars, gateVars, waitVars, fileVars, serverVars, loopVars, loopExceptCore,
             loopExceptPermit, loopExceptStore
<1>1. CASE Loop \/ Time \/ Server \/ UNCHANGED vars
  BY <1>1 DEF Loop, Time, Server, vars
<1>2. CASE UserStep
  BY <1>2 DEF UserStep, SetTosAcknowledged, SetUsageSource, SetRefreshInterval, RefreshUsage,
     ImportBrowserSession, SignOut, SignIn
<1>3. CASE UiStep
  BY <1>3 DEF UiStep, TosUpdatesCore, SourceResumes, IntervalUpdatesCore, UiMutates,
     UiNotifies, UiSaves, TypeInv, MeterTypeOK, ConsentInv, Resume
<1>4. ASSUME NEW t \in Tasks, TaskStep(t)
      PROVE  ui' = ui
  BY <1>4 DEF TaskStep, ReadCookies, CheckSource, CheckTaskConsent, LoadPrevious, SaveKey,
     ValidateReply, Rollback, ResumePolling, ClearKey, RecordNoSession, TaskNotifies
<1>. QED BY <1>1, <1>2, <1>3, <1>4 DEF Next
\* A reading that is due stays so until another takes its place.
LEMMA DueStays ==
    ASSUME "step_back" \notin Faults, TypeInv, [Next]_vars, ~Restart, Due(snapshot),
           RecordOutcome => outcome.kind # "Success"
    PROVE  Due(snapshot')
<1>1. CASE Time
  <2>1. snapshot' = Older(snapshot) /\ snapshot \in OptionalSnapshots
    BY <1>1 DEF Time, Tick, Suspend, StepBack, AllOlder, TypeInv, MeterTypeOK, LoopTypeOK
  <2>2. DueIn(snapshot, 0) => DueIn(snapshot', 0)
    BY <2>1, OlderIsNearer
  <2>. QED BY <2>1, <2>2, OlderType, DueNow
<1>2. CASE Loop
  <2>1. snapshot' = snapshot
    BY <1>2 DEF Loop, LoopStep, Start, Check, DispatchLive, DispatchStatusline, CheckConsent,
       LoadKey, OrganizationsReply, UsageReply, SaveCache, WriteExport, RecordOutcome, Record,
       SnapshotAfter, Broadcast, ServeNativeCalls, OnStateReturns, Park, Wait, Wake,
       SliceEnds, coreVars
  <2>. QED BY <2>1
<1>3. CASE ~Loop /\ ~Time
  BY <1>3, CommandsLeaveTheLoop
<1>. QED BY <1>1, <1>2, <1>3

\* An attempt under way, of a reading that is due, with consent, ends with an outcome
\* that is no refusal.
LEMMA AttemptGoesOn ==
    ASSUME TypeInv, OnClaudeAi, SpacingInv, [Next]_vars, ~Restart, Due(snapshot), consent,
           Attempting
    PROVE  Attempting' \/ phase' # "AwaitingConsent"
<1>. USE DEF Attempting
<1>1. CASE Loop
  <2>1. CASE Start \/ Wake
    BY <2>1 DEF Start, Wake, Attempt
  <2>2. CASE Check
    BY <2>2 DEF Check, ShouldFetch, Due
  <2>3. CASE DispatchStatusline
    BY <2>3 DEF DispatchStatusline, OnClaudeAi
  <2>4. CASE DispatchLive \/ CheckConsent \/ LoadKey \/ OrganizationsReply \/ UsageReply
    BY <2>4 DEF DispatchLive, CheckConsent, LoadKey, OrganizationsReply, UsageReply,
       RequestFails, Finish, Outcome
  <2>5. CASE SaveCache \/ WriteExport
    BY <2>5 DEF SaveCache, WriteExport, SpacingInv
  <2>6. CASE RecordOutcome
    <3>1. outcome.kind \in OutcomeKinds \ {"NotAcknowledged"}
      BY <2>6 DEF RecordOutcome, TypeInv, MeterTypeOK, LoopTypeOK, Outcomes
    <3>. QED BY <2>6, <3>1 DEF RecordOutcome, Record, PhaseAfter, OutcomeKinds
  <2>7. CASE Broadcast \/ ServeNativeCalls \/ Park \/ Wait \/ SliceEnds
    BY <2>7 DEF Broadcast, ServeNativeCalls, OnStateReturns, Park, Wait, SliceEnds
  <2>. QED BY <1>1, <2>1, <2>2, <2>3, <2>4, <2>5, <2>6, <2>7 DEF Loop, LoopStep
<1>2. CASE Time
  BY <1>2 DEF Time, Tick, Suspend, StepBack
<1>3. CASE ~Loop /\ ~Time
  BY <1>3, CommandsLeaveTheLoop
<1>. QED BY <1>1, <1>2, <1>3

LEMMA ConsentStep ==
    ASSUME "step_back" \notin Faults, TypeInv, OnClaudeAi, SpacingInv, ConsentInv, [Next]_vars
    PROVE  ConsentInv'
<1>1. ui'.pc = "tos" => ui'.next.tos = consent'
  <2>. SUFFICES ASSUME ui'.pc = "tos" PROVE ui'.next.tos = consent'
    OBVIOUS
  <2>1. ~Restart
    BY DEF Restart
  <2>2. CASE consent' = consent /\ ui' = ui
    BY <2>2 DEF ConsentInv
  <2>. QED BY <2>1, <2>2, GateMoves
<1>2. ASSUME pc' = "record", outcome'.kind = "NotAcknowledged", consent', ui'.pc # "tos"
      PROVE  NotifyPending'
  <2>1. consent /\ ~Restart
    BY <1>2, GateMoves DEF Restart
  <2>2. CASE ui.pc = "tos"
    BY <1>2, <2>1, <2>2, GateReachesCore DEF NotifyPending
  <2>3. CASE ui.pc # "tos"
    <3>1. pc = "record" /\ outcome' = outcome
      <4>1. CASE Loop
        BY <1>2, <2>1, <4>1 DEF Loop, LoopStep, Start, Check, DispatchLive,
           DispatchStatusline, CheckConsent, LoadKey, OrganizationsReply, UsageReply,
           RequestFails, Finish, Outcome, SaveCache, WriteExport, RecordOutcome, Broadcast,
           ServeNativeCalls, OnStateReturns, Park, Wait, Wake, SliceEnds, Attempt, SpacingInv
      <4>2. CASE ~Loop
        BY <1>2, <4>2, OnlyTheLoopMoves
      <4>. QED BY <4>1, <4>2
    <3>. QED BY <1>2, <2>1, <2>3, <3>1, PendingStays DEF ConsentInv
  <2>. QED BY <2>2, <2>3
<1>3. ASSUME phase' = "AwaitingConsent", consent', ui'.pc # "tos"
      PROVE  Due(snapshot') /\ (NotifyPending' \/ Attempting')
  <2>1. consent /\ ~Restart
    BY <1>3, GateMoves DEF Restart, LaunchPhase
  <2>2. ui.pc # "tos"
    BY <1>3, <2>1, GateReachesCore
  <2>3. CASE phase = "AwaitingConsent"
    <3>1. Due(snapshot) /\ (NotifyPending \/ Attempting)
      BY <2>1, <2>2, <2>3 DEF ConsentInv
    <3>2. RecordOutcome => outcome.kind # "Success"
      BY <1>3 DEF RecordOutcome, Record, PhaseAfter
    <3>3. Due(snapshot')
      BY <2>1, <3>1, <3>2, DueStays
    <3>4. NotifyPending' \/ Attempting'
      BY <1>3, <2>1, <3>1, PendingStays, AttemptGoesOn DEF Attempting
    <3>. QED BY <3>3, <3>4
  <2>4. CASE phase # "AwaitingConsent"
    <3>1. RecordOutcome /\ outcome.kind = "NotAcknowledged"
      <4>1. CASE Loop
        <5>1. RecordOutcome
          BY <1>3, <2>4, <4>1 DEF Loop, LoopStep, Start, Check, DispatchLive,
             DispatchStatusline, CheckConsent, LoadKey, OrganizationsReply, UsageReply,
             SaveCache, WriteExport, Broadcast, ServeNativeCalls, OnStateReturns, Park, Wait,
             Wake, SliceEnds, coreVars
        <5>2. outcome.kind \in OutcomeKinds
          BY DEF TypeInv, MeterTypeOK, LoopTypeOK, Outcomes
        <5>. QED BY <1>3, <5>1, <5>2 DEF RecordOutcome, Record, PhaseAfter, OutcomeKinds
      <4>2. CASE Time
        BY <1>3, <2>4, <4>2 DEF Time, Tick, Suspend, StepBack
      <4>. QED BY <1>3, <2>1, <2>2, <2>4, <4>1, <4>2, CommandsLeaveTheLoop
    <3>2. pc = "record" /\ snapshot' = snapshot
      BY <3>1 DEF RecordOutcome, Record, SnapshotAfter
    <3>3. Due(snapshot) /\ NotifyPending
      BY <2>1, <2>2, <3>1, <3>2 DEF SpacingInv, ConsentInv
    <3>. QED BY <3>2, <3>3, PendingStays DEF Attempting
  <2>. QED BY <2>3, <2>4
<1>. QED BY <1>1, <1>2, <1>3 DEF ConsentInv

\* On claude.ai, with a wall clock that does not run backwards, granting consent is
\* never undone by an attempt that had seen the gate closed: the permit of
\* resume_polling outlives the stale outcome (set_tos_acknowledged moves the gate
\* first, commands/consent.rs), and the attempt it starts is not served from memory,
\* because the refused one was due and a refusal keeps the reading it found.  The
\* assumption on the source is needed: a status-line reading is younger than the TTL
\* when a refused attempt of claude.ai follows it.
THEOREM ConsentIsNotStranded ==
    ASSUME "step_back" \notin Faults, "source" \notin Commands
    PROVE  Spec => []ConsentNotStranded
<1>1. Init => ConsentInv
  BY DEF Init, ConsentInv, LaunchPhase
<1>2. TypeInv /\ OnClaudeAi /\ SpacingInv /\ ConsentInv /\ [Next]_vars => ConsentInv'
  BY ConsentStep
<1>3. ConsentInv => ConsentNotStranded
  BY DEF ConsentInv, ConsentNotStranded, Attempting
<1>. QED BY <1>1, <1>2, <1>3, TypeInvariant, SourceStays, SpacingInvariant, PTL DEF Spec
-----------------------------------------------------------------------------
(* What goes out after consent is withdrawn.                               *)

\* The sign-ins that are past the gate and have not sent their request.
PastGate == {t \in Tasks : task[t].pc \in {"previous", "save"}}

\* The requests the attempt in flight may still send.
AttemptLeft == CASE pc = "load" -> 2 [] pc = "organizations" -> 1 [] OTHER -> 0

\* The strengthening: what was sent without consent and what may still be sent was
\* past the gate when consent was withdrawn.
TrafficInv ==
    IF consent THEN lateRequests = 0
    ELSE lateRequests + AttemptLeft + Cardinality(PastGate) <= 2 + Cardinality(Tasks)

\* There are no more sign-ins past the gate than tasks, and it is a number of them.
LEMMA PastGateIsSmall ==
    /\ IsFiniteSet(PastGate) /\ Cardinality(PastGate) \in Nat /\ Cardinality(Tasks) \in Nat
    /\ Cardinality(PastGate) <= Cardinality(Tasks)
<1>1. IsFiniteSet(Tasks) /\ PastGate \in SUBSET Tasks
  BY MeterAssumption DEF MeterAssumption, PastGate
<1>. QED BY <1>1, FS_Subset, FS_CardinalityType

\* With none gone past, one fewer is left when one has sent its request.
LEMMA FewerPastGate ==
    ASSUME PastGate' \subseteq PastGate
    PROVE  /\ Cardinality(PastGate') \in Nat
           /\ Cardinality(PastGate') <= Cardinality(PastGate)
           /\ \A t \in PastGate \ PastGate' : Cardinality(PastGate') + 1 <= Cardinality(PastGate)
<1>. DEFINE before == PastGate
            after == PastGate'
<1>1. IsFiniteSet(before) /\ Cardinality(before) \in Nat /\ after \in SUBSET before
  BY PastGateIsSmall
<1>. HIDE DEF before, after
<1>2. IsFiniteSet(after) /\ Cardinality(after) \in Nat /\ Cardinality(after) <= Cardinality(before)
  BY <1>1, FS_Subset, FS_CardinalityType
<1>3. ASSUME NEW t \in before \ after
      PROVE  Cardinality(after) + 1 <= Cardinality(before)
  <2>1. IsFiniteSet(before \ {t}) /\ Cardinality(before \ {t}) = Cardinality(before) - 1
    BY <1>1, <1>3, FS_RemoveElement
  <2>2. after \in SUBSET (before \ {t})
    BY <1>1, <1>3
  <2>3. Cardinality(after) <= Cardinality(before \ {t})
    BY <2>1, <2>2, FS_Subset
  <2>. QED BY <1>1, <1>2, <2>1, <2>3
<1>. QED BY <1>2, <1>3 DEF before, after
\* While consent is withheld no sign-in goes past the gate.
LEMMA NoneGoesPast ==
    ASSUME TypeInv, [Next]_vars, ~consent
    PROVE  PastGate' \subseteq PastGate
<1>. USE DEF PastGate, TypeInv, MeterTypeOK, TaskStates, loopVars
<1>1. CASE Loop \/ Time \/ Server \/ UiStep
  BY <1>1 DEF Loop, Time, Server, UiStep, TosUpdatesCore, SourceResumes, IntervalUpdatesCore,
     UiNotifies, UiSaves
<1>2. CASE Restart
  BY <1>2 DEF Restart, IdleTask
<1>3. CASE \/ \E acknowledged \in BOOLEAN : SetTosAcknowledged(acknowledged)
           \/ \E source \in Sources : SetUsageSource(source)
           \/ \E i \in Intervals : SetRefreshInterval(i)
           \/ RefreshUsage
  BY <1>3 DEF SetTosAcknowledged, SetUsageSource, SetRefreshInterval, RefreshUsage
<1>4. ASSUME NEW t \in Tasks,
             \/ TaskStep(t) \/ ImportBrowserSession(t) \/ SignOut(t)
             \/ \E k \in Keys : SignIn(t, k)
      PROVE  PastGate' \subseteq PastGate
  <2>1. \A u \in Tasks \ {t} : task'[u] = task[u]
    BY <1>4 DEF TaskStep, ImportBrowserSession, SignOut, SignIn, ReadCookies,
       CheckSource, CheckTaskConsent, LoadPrevious, SaveKey, ValidateReply, Rollback,
       ResumePolling, ClearKey, RecordNoSession, TaskNotifies, Goto, End
  <2>2. task'[t].pc \in {"previous", "save"} => task[t].pc \in {"previous", "save"}
    <3>1. CASE LoadPrevious(t)
      BY <3>1 DEF LoadPrevious, At
    <3>2. CASE ReadCookies(t) \/ \E k \in Keys : SignIn(t, k)
      <4>1. task'[t].pc \in {"source", "idle"}
        <5>1. CASE End(t)
          BY <5>1 DEF End, IdleTask
        <5>2. ASSUME NEW k \in Keys,
                     \/ task' = [task EXCEPT ![t] = [@ EXCEPT !.pc = "source", !.key = k]]
                     \/ task' = [task EXCEPT ![t] = [IdleTask EXCEPT !.pc = "source", !.key = k]]
              PROVE  task'[t].pc \in {"source", "idle"}
          BY <5>2 DEF IdleTask
        <5>. QED BY <3>2, <5>1, <5>2 DEF ReadCookies, SignIn
      <4>. QED BY <4>1
    <3>3. CASE ~(LoadPrevious(t) \/ ReadCookies(t) \/ \E k \in Keys : SignIn(t, k))
      BY <1>4, <3>3 DEF TaskStep, ImportBrowserSession, SignOut, CheckSource,
         CheckTaskConsent, SaveKey, ValidateReply, Rollback, ResumePolling, ClearKey,
         RecordNoSession, TaskNotifies, Goto, End, IdleTask
    <3>. QED BY <3>1, <3>2, <3>3
  <2>. QED BY <2>1, <2>2
<1>5. CASE UNCHANGED vars
  BY <1>5 DEF vars
<1>. QED BY <1>1, <1>2, <1>3, <1>4, <1>5 DEF Next, UserStep

\* While consent is withheld a request uses up what an attempt or a sign-in had left,
\* and no attempt gets more.
LEMMA RequestsAreLeft ==
    ASSUME TypeInv, [Next]_vars, ~consent, ~consent'
    PROVE  \/ lateRequests' = 0
           \/ lateRequests' = lateRequests /\ AttemptLeft' <= AttemptLeft
           \/ lateRequests' <= lateRequests + 1 /\ AttemptLeft' < AttemptLeft
           \/ /\ lateRequests' <= lateRequests + 1 /\ AttemptLeft' = AttemptLeft
              /\ PastGate \ PastGate' # {}
<1>. USE DEF AttemptLeft, coreVars, gateVars, waitVars, fileVars, serverVars, loopVars,
             loopExceptCore, loopExceptPermit, loopExceptStore
<1>1. lateRequests \in Nat /\ (SendRequest => lateRequests' <= lateRequests + 1)
  BY LoopAssumption DEF TypeInv, MeterTypeOK, LoopTypeOK, LoopAssumption, SendRequest, Smaller
<1>2. CASE Loop
  <2>1. CASE LoadKey \/ OrganizationsReply
    BY <1>1, <2>1 DEF LoadKey, OrganizationsReply, RequestFails, Finish
  <2>2. CASE ~(LoadKey \/ OrganizationsReply)
    <3>1. lateRequests' = lateRequests /\ pc' \notin {"load", "organizations"}
      BY <1>2, <2>2 DEF Loop, LoopStep, Start, Check, DispatchLive, DispatchStatusline,
         CheckConsent, UsageReply, RequestFails, Finish, SaveCache, WriteExport,
         RecordOutcome, Broadcast, ServeNativeCalls, OnStateReturns, Park, Wait, Wake,
         SliceEnds, Attempt
    <3>. QED BY <3>1
  <2>. QED BY <2>1, <2>2
<1>3. CASE Time \/ Server
  BY <1>3 DEF Time, Tick, Suspend, StepBack, Server, ServerChanges
<1>4. CASE Restart
  BY <1>4 DEF Restart
<1>5. CASE UserStep
  <2>1. pc' = pc /\ (lateRequests' = lateRequests \/ lateRequests' = 0)
    BY <1>5, Zenon DEF UserStep, SetTosAcknowledged, SetUsageSource, SetRefreshInterval,
       RefreshUsage, ImportBrowserSession, SignOut, SignIn
  <2>. QED BY <2>1
<1>6. CASE UiStep
  BY <1>6 DEF UiStep, TosUpdatesCore, SourceResumes, IntervalUpdatesCore, UiNotifies, UiSaves
<1>7. ASSUME NEW t \in Tasks, TaskStep(t)
      PROVE  \/ lateRequests' = lateRequests /\ pc' = pc
             \/ /\ lateRequests' <= lateRequests + 1 /\ pc' = pc
                /\ PastGate \ PastGate' # {}
  <2>1. CASE SaveKey(t)
    <3>1. pc' = pc /\ (lateRequests' = lateRequests \/ SendRequest)
      BY <2>1 DEF SaveKey
    <3>2. t \in PastGate \ PastGate'
      BY <2>1 DEF SaveKey, At, Goto, End, IdleTask, PastGate, TypeInv, MeterTypeOK, TaskStates
    <3>. QED BY <1>1, <3>1, <3>2
  <2>2. CASE ~SaveKey(t)
    BY <1>7, <2>2 DEF TaskStep, ReadCookies, CheckSource, CheckTaskConsent, LoadPrevious,
       ValidateReply, Rollback, ResumePolling, ClearKey, RecordNoSession, TaskNotifies
  <2>. QED BY <2>1, <2>2
<1>8. CASE UNCHANGED vars
  BY <1>8 DEF vars
<1>. QED BY <1>1, <1>2, <1>3, <1>4, <1>5, <1>6, <1>7, <1>8 DEF Next

\* The count starts again whenever the gate moves, and with consent nothing counts.
LEMMA GateResetsTheCount ==
    ASSUME TypeInv, [Next]_vars, consent' \/ consent
    PROVE  lateRequests' = 0 \/ (consent /\ consent' /\ lateRequests' = lateRequests)
<1>. USE DEF coreVars, gateVars, waitVars, fileVars, serverVars, loopVars,
             loopExceptCore, loopExceptPermit, loopExceptStore
<1>1. CASE Loop \/ Time \/ Server
  BY <1>1 DEF Loop, LoopStep, Start, Check, DispatchLive, DispatchStatusline, CheckConsent,
     LoadKey, OrganizationsReply, UsageReply, SendRequest, SaveCache, WriteExport,
     RecordOutcome, Broadcast, ServeNativeCalls, OnStateReturns, Park, Wait, Wake, SliceEnds,
     Time, Tick, Suspend, StepBack, Server, ServerChanges
<1>2. CASE Restart
  <2>1. lateRequests' = 0
    BY <1>2 DEF Restart
  <2>. QED BY <2>1
<1>3. CASE UserStep
  <2>1. lateRequests' = 0 \/ (consent' = consent /\ lateRequests' = lateRequests)
    BY <1>3, Zenon DEF UserStep, SetTosAcknowledged, SetUsageSource, SetRefreshInterval,
       RefreshUsage, ImportBrowserSession, SignOut, SignIn
  <2>. QED BY <2>1
<1>4. CASE UiStep
  BY <1>4 DEF UiStep, TosUpdatesCore, SourceResumes, IntervalUpdatesCore, UiNotifies, UiSaves
<1>5. ASSUME NEW t \in Tasks, TaskStep(t)
      PROVE  consent' = consent /\ (consent => lateRequests' = lateRequests)
  BY <1>5 DEF TaskStep, ReadCookies, CheckSource, CheckTaskConsent, LoadPrevious, SaveKey,
     SendRequest, ValidateReply, Rollback, ResumePolling, ClearKey, RecordNoSession,
     TaskNotifies
<1>6. CASE UNCHANGED vars
  BY <1>6 DEF vars
<1>. QED BY <1>1, <1>2, <1>3, <1>4, <1>5, <1>6 DEF Next

\* One more sent is one fewer left.
LEMMA RequestsAddUp ==
    ASSUME NEW sent \in Int, NEW sends \in Int, NEW left \in Int, NEW leaves \in Int,
           NEW gate \in Int, NEW passed \in Int, NEW most \in Int,
           sends <= sent + 1, leaves < left, passed <= gate, sent + left + gate <= most
    PROVE  sends + leaves + passed <= most
OBVIOUS

\* Withdrawing consent lets through what was already past the gate and nothing else:
\* at most the two requests of the attempt in flight, which checks the gate once
\* (LiveTransport::fetch), and one of each sign-in (submit_session_key), however many
\* sign-ins there are and whatever is tried afterwards.
THEOREM TrafficIsBounded == Spec => []BoundedTraffic
<1>1. Init => TrafficInv
  <2>. SUFFICES ASSUME Init PROVE TrafficInv
    OBVIOUS
  <2>1. lateRequests = 0 /\ AttemptLeft = 0
    BY DEF Init, AttemptLeft
  <2>. QED BY <2>1, PastGateIsSmall DEF TrafficInv
<1>2. TypeInv /\ TypeInv' /\ TrafficInv /\ [Next]_vars => TrafficInv'
  <2>. SUFFICES ASSUME TypeInv, TypeInv', TrafficInv, [Next]_vars
                PROVE  TrafficInv'
    OBVIOUS
  <2>1. AttemptLeft' \in 0..2 /\ AttemptLeft \in 0..2 /\ lateRequests' \in Nat
        /\ lateRequests \in Nat
    BY LoopAssumption DEF AttemptLeft, TypeInv, MeterTypeOK, LoopTypeOK, LoopAssumption
  <2>2. Cardinality(PastGate') \in Nat /\ Cardinality(PastGate') <= Cardinality(Tasks)
    <3>1. IsFiniteSet(Tasks) /\ PastGate' \in SUBSET Tasks
      BY MeterAssumption DEF MeterAssumption, PastGate
    <3>. QED BY <3>1, FS_Subset, FS_CardinalityType
  <2>3. CASE lateRequests' = 0
    BY <2>1, <2>2, <2>3, PastGateIsSmall DEF TrafficInv
  <2>4. CASE consent /\ lateRequests' # 0
    BY <2>4, GateResetsTheCount DEF TrafficInv
  <2>5. CASE ~consent /\ lateRequests' # 0
    <3>1. ~consent'
      BY <2>5, GateResetsTheCount
    <3>2. /\ Cardinality(PastGate') <= Cardinality(PastGate)
          /\ PastGate \ PastGate' # {} =>
                Cardinality(PastGate') + 1 <= Cardinality(PastGate)
      BY <2>5, NoneGoesPast, FewerPastGate
    <3>3. lateRequests + AttemptLeft + Cardinality(PastGate) <= 2 + Cardinality(Tasks)
      BY <2>5 DEF TrafficInv
    <3>4. lateRequests' + AttemptLeft' + Cardinality(PastGate') <= 2 + Cardinality(Tasks)
      <4>1. Cardinality(PastGate) \in Nat /\ Cardinality(Tasks) \in Nat
        BY PastGateIsSmall
      <4>2. CASE lateRequests' = lateRequests /\ AttemptLeft' <= AttemptLeft
        BY <2>1, <2>2, <3>2, <3>3, <4>1, <4>2
      <4>3. CASE lateRequests' <= lateRequests + 1 /\ AttemptLeft' < AttemptLeft
        BY <2>1, <2>2, <3>2, <3>3, <4>1, <4>3, RequestsAddUp
      <4>4. CASE /\ lateRequests' <= lateRequests + 1 /\ AttemptLeft' = AttemptLeft
                 /\ PastGate \ PastGate' # {}
        BY <2>1, <2>2, <3>2, <3>3, <4>1, <4>4
      <4>. QED BY <2>5, <3>1, <4>2, <4>3, <4>4, RequestsAreLeft
    <3>. QED BY <3>1, <3>4 DEF TrafficInv
  <2>. QED BY <2>3, <2>4, <2>5
<1>3. TypeInv /\ TrafficInv => BoundedTraffic
  <2>. SUFFICES ASSUME TypeInv, TrafficInv PROVE BoundedTraffic
    OBVIOUS
  <2>1. AttemptLeft \in 0..2 /\ lateRequests \in Nat
    BY LoopAssumption DEF AttemptLeft, TypeInv, MeterTypeOK, LoopTypeOK, LoopAssumption
  <2>. QED BY <2>1, PastGateIsSmall DEF TrafficInv, BoundedTraffic
<1>4. Spec => []TypeInv
  BY TypeInvariant
<1>. QED BY <1>1, <1>2, <1>3, <1>4, PTL DEF Spec
-----------------------------------------------------------------------------
(* The core's lock, held across on_state.                                  *)

\* The loop and the main thread that wait for each other do so until the process
\* ends: no reply, tick, command or task resolves it.  on_state is called with the
\* core's guard alive (mod.rs, run_loop) and needs the main thread, whose command
\* needs the core (SchedulerHandle::update).
THEOREM BothWaitForGood == Spec => [][BothWait => BothWait' \/ Restart]_vars
<1>. USE DEF BothWait, CoreFree, coreVars, gateVars, waitVars, fileVars, serverVars, loopVars,
             loopExceptCore, loopExceptPermit, loopExceptStore
<1>1. ASSUME BothWait, [Next]_vars
      PROVE  BothWait' \/ Restart
  <2>1. CASE Loop
    <3>1. pc \in {"restoring", "publishing"} /\ ui.pc # "idle"
      BY <1>1 DEF Publishes
    <3>. QED
      BY <2>1, <3>1 DEF Loop, LoopStep, Start, Check, DispatchLive, DispatchStatusline,
         CheckConsent, LoadKey, OrganizationsReply, UsageReply, SaveCache, WriteExport,
         RecordOutcome, Broadcast, ServeNativeCalls, OnStateReturns, Park, Wait, Wake,
         SliceEnds
  <2>2. CASE Time \/ Server
    BY <1>1, <2>2 DEF Time, Tick, Suspend, StepBack, Server, ServerChanges
  <2>3. CASE UserStep
    BY <1>1, <2>3 DEF UserStep, SetTosAcknowledged, SetUsageSource, SetRefreshInterval,
       RefreshUsage, ImportBrowserSession, SignOut, SignIn
  <2>4. ~UiStep
    BY <1>1 DEF UiStep, TosUpdatesCore, SourceResumes, IntervalUpdatesCore, UiMutates,
       UiNotifies, UiSaves
  <2>5. ASSUME NEW t \in Tasks, TaskStep(t)
        PROVE  BothWait'
    BY <1>1, <2>5 DEF TaskStep, ReadCookies, CheckSource, CheckTaskConsent, LoadPrevious,
       SaveKey, ValidateReply, Rollback, ResumePolling, ClearKey, RecordNoSession,
       TaskNotifies
  <2>6. CASE UNCHANGED vars
    BY <1>1, <2>6 DEF vars
  <2>. QED BY <1>1, <2>1, <2>2, <2>3, <2>4, <2>5, <2>6 DEF Next
<1>2. [Next]_vars => [BothWait => BothWait' \/ Restart]_vars
  BY <1>1
<1>. QED BY <1>2, PTL DEF Spec
=============================================================================
