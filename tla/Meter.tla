------------------------------- MODULE Meter -------------------------------
(***************************************************************************)
(* The running app: the polling loop composed with the commands that share *)
(* its state.  Commands that are not async run one at a time on the main   *)
(* thread (ui); the async ones, sign-in, browser import and sign-out, run  *)
(* as tasks beside it and beside each other.  A command is a sequence of   *)
(* steps; each touches one piece of shared state, and waits for the core's *)
(* lock when that is the core.  The native calls of a broadcast are made   *)
(* by the main thread between its commands.                                *)
(***************************************************************************)
EXTENDS PollLoop

CONSTANTS
    Tasks,              \* the async commands that may be in flight at once
    Commands            \* the commands the user issues in a model

CommandNames == {"tos", "source", "interval", "refresh", "sign_in", "import", "sign_out"}

ASSUME MeterAssumption == Commands \subseteq CommandNames /\ IsFiniteSet(Tasks)

VARIABLES
    settings,   \* settings.json: what the next launch is seeded from
    ui,         \* the main thread: [pc, next], next the settings its command will store
    task        \* the async commands: [pc, key, previous]

vars == <<loopVars, settings, ui, task>>

Settings == [tos : BOOLEAN, source : Sources, interval : Intervals]
UiPoints == {"idle", "tos", "source", "interval", "notify", "save"}
TaskPoints == {"idle", "cookies", "source", "consent", "previous", "save", "validate",
               "rollback", "resume", "clear", "forget", "notify"}
TaskStates == [pc : TaskPoints, key : Keys \cup {NoKey}, previous : Keys \cup {NoKey}]
IdleTask == [pc |-> "idle", key |-> NoKey, previous |-> NoKey]

MeterTypeOK ==
    /\ LoopTypeOK
    /\ settings \in Settings
    /\ ui \in [pc : UiPoints, next : Settings]
    /\ task \in [Tasks -> TaskStates]

-----------------------------------------------------------------------------
(* Launch: lib.rs, setup.                                                  *)

\* The phase the core starts in: parked when consent is withheld and claude.ai
\* is the source.
LaunchPhase(stored) ==
    IF ~stored.tos /\ ReachesClaudeAi(stored.source) THEN "AwaitingConsent" ELSE "Polling"

\* Without the command "source" a model stays on claude.ai.
InitialSettings ==
    [tos : BOOLEAN, interval : Intervals,
     source : {s \in Sources : "source" \in Commands \/ ReachesClaudeAi(s)}]

\* Everything in memory is seeded from the settings and the disk cache.
Init ==
    /\ settings \in InitialSettings
    /\ store \in Keys \cup {NoKey}
    /\ cacheFile \in OptionalSnapshots /\ exportFile = cacheFile
    /\ server = "answers" /\ revoked = {}
    /\ interval = settings.interval /\ failures = 0
    /\ phase = LaunchPhase(settings) /\ snapshot = cacheFile /\ skew = 0
    /\ consent = settings.tos /\ selection = settings.source
    /\ permit = FALSE /\ orgId = NoOrg /\ lateRequests = 0
    /\ pc = "start" /\ forced = FALSE /\ key = NoKey /\ outcome = Idle
    /\ remaining = 0 /\ slice = 0
    /\ shown = View
    /\ ui = [pc |-> "idle", next |-> settings]
    /\ task = [t \in Tasks |-> IdleTask]

\* The process ends at any point and is launched again: only the files, the
\* credential store and claude.ai's view of the keys survive.
Restart ==
    /\ "restart" \in Faults
    /\ interval' = settings.interval /\ failures' = 0
    /\ phase' = LaunchPhase(settings) /\ snapshot' = cacheFile /\ skew' = 0
    /\ consent' = settings.tos /\ selection' = settings.source
    /\ permit' = FALSE /\ orgId' = NoOrg /\ lateRequests' = 0
    /\ pc' = "start" /\ forced' = FALSE /\ key' = NoKey /\ outcome' = Idle
    /\ remaining' = 0 /\ slice' = 0
    /\ shown' = View'
    /\ ui' = [pc |-> "idle", next |-> settings]
    /\ task' = [t \in Tasks |-> IdleTask]
    /\ UNCHANGED <<settings, store, fileVars, serverVars>>

-----------------------------------------------------------------------------
(* Commands of the main thread.                                            *)

\* The settings in memory, which the gate, the selection and the core mirror
\* whenever no command is running.
Current == [tos |-> consent, source |-> selection, interval |-> interval]

\* The core mutation of the running command, under the core's lock; its wake-up
\* comes next.
UiMutates(point) == ui.pc = point /\ CoreFree /\ ui' = [ui EXCEPT !.pc = "notify"]

loopExceptCore == <<interval, skew, gateVars, store, permit, orgId, pc, forced, key, outcome,
                    waitVars, shown, fileVars, serverVars, lateRequests>>

\* set_tos_acknowledged moves the gate first ...
SetTosAcknowledged(acknowledged) ==
    /\ "tos" \in Commands /\ ui.pc = "idle"
    /\ consent' = acknowledged
    /\ lateRequests' = 0
    /\ ui' = [pc |-> "tos", next |-> [Current EXCEPT !.tos = acknowledged]]
    /\ UNCHANGED <<coreVars, skew, selection, store, permit, orgId, pc, forced, key,
                   outcome, waitVars, shown, fileVars, serverVars, settings, task>>

\* Mutant of TosUpdatesCore: an acknowledgement wakes the loop without resuming.
MutTosOnlyWakes ==
    /\ UiMutates("tos")
    /\ IF ui.next.tos THEN UNCHANGED <<failures, phase, snapshot>>
                      ELSE Record(Outcome("NotAcknowledged"))
    /\ UNCHANGED <<loopExceptCore, settings, task>>

\* ... then tells the core to resume, or parks it.
TosUpdatesCore ==
    /\ UiMutates("tos")
    /\ IF ui.next.tos THEN Resume ELSE Record(Outcome("NotAcknowledged"))
    /\ UNCHANGED <<loopExceptCore, settings, task>>

\* set_usage_source moves the selection, then resumes.
SetUsageSource(source) ==
    /\ "source" \in Commands /\ ui.pc = "idle"
    /\ selection' = source
    /\ ui' = [pc |-> "source", next |-> [Current EXCEPT !.source = source]]
    /\ UNCHANGED <<coreVars, skew, consent, store, permit, orgId, pc, forced, key, outcome,
                   waitVars, shown, fileVars, serverVars, lateRequests, settings, task>>

SourceResumes ==
    /\ UiMutates("source")
    /\ Resume
    /\ UNCHANGED <<loopExceptCore, settings, task>>

\* set_refresh_interval changes the core, and nothing before it.
SetRefreshInterval(i) ==
    /\ "interval" \in Commands /\ ui.pc = "idle"
    /\ ui' = [pc |-> "interval", next |-> [Current EXCEPT !.interval = i]]
    /\ UNCHANGED <<loopVars, settings, task>>

IntervalUpdatesCore ==
    /\ UiMutates("interval")
    /\ interval' = ui.next.interval
    /\ UNCHANGED <<failures, phase, snapshot, skew, gateVars, store, permit, orgId, pc,
                   forced, key, outcome, waitVars, shown, fileVars, serverVars,
                   lateRequests, settings, task>>

loopExceptPermit == <<coreVars, skew, gateVars, store, orgId, pc, forced, key, outcome,
                      waitVars, shown, fileVars, serverVars, lateRequests>>

\* Mutant of UiNotifies: the core is changed and nobody is told.
MutUiForgetsToNotify ==
    /\ ui.pc = "notify"
    /\ ui' = [ui EXCEPT !.pc = "save"]
    /\ UNCHANGED <<loopVars, settings, task>>

\* SchedulerHandle::update wakes the loop after the mutation; a permit already
\* there absorbs this one.
UiNotifies ==
    /\ ui.pc = "notify"
    /\ permit' = TRUE
    /\ ui' = [ui EXCEPT !.pc = "save"]
    /\ UNCHANGED <<loopExceptPermit, settings, task>>

\* Mutant of UiSaves: the choice is not persisted.
MutUiForgetsToSave ==
    /\ ui.pc = "save"
    /\ ui' = [ui EXCEPT !.pc = "idle"]
    /\ UNCHANGED <<loopVars, settings, task>>

\* SettingsState::update writes the settings last; the write may fail.
UiSaves ==
    /\ ui.pc = "save"
    /\ settings' \in Written(settings, ui.next)
    /\ ui' = [ui EXCEPT !.pc = "idle"]
    /\ UNCHANGED <<loopVars, task>>

RefreshUsage ==
    /\ "refresh" \in Commands /\ ui.pc = "idle"
    /\ permit' = TRUE
    /\ UNCHANGED <<loopExceptPermit, settings, ui, task>>

UiStep ==
    TosUpdatesCore \/ SourceResumes \/ IntervalUpdatesCore \/ UiNotifies \/ UiSaves

-----------------------------------------------------------------------------
(* Sign-in, browser import and sign-out.                                   *)

At(t, point) == task[t].pc = point
Goto(t, point) == task' = [task EXCEPT ![t].pc = point]
End(t) == task' = [task EXCEPT ![t] = IdleTask]

\* set_session_key starts with a parsed key; import_browser_session first has
\* to find one.
SignIn(t, k) ==
    /\ "sign_in" \in Commands /\ At(t, "idle")
    /\ task' = [task EXCEPT ![t] = [IdleTask EXCEPT !.pc = "source", !.key = k]]
    /\ UNCHANGED <<loopVars, settings, ui>>

ImportBrowserSession(t) ==
    /\ "import" \in Commands /\ At(t, "idle")
    /\ Goto(t, "cookies")
    /\ UNCHANGED <<loopVars, settings, ui>>

\* The cookie store is read: it yields a key, or the import ends.
ReadCookies(t) ==
    /\ At(t, "cookies")
    /\ \/ End(t)
       \/ \E k \in Keys : task' = [task EXCEPT ![t] = [@ EXCEPT !.pc = "source", !.key = k]]
    /\ UNCHANGED <<loopVars, settings, ui>>

\* store_and_validate checks both gates before it touches anything.
CheckSource(t) ==
    /\ At(t, "source")
    /\ IF ReachesClaudeAi(selection) THEN Goto(t, "consent") ELSE End(t)
    /\ UNCHANGED <<loopVars, settings, ui>>

CheckTaskConsent(t) ==
    /\ At(t, "consent")
    /\ IF consent THEN Goto(t, "previous") ELSE End(t)
    /\ UNCHANGED <<loopVars, settings, ui>>

\* The key to go back to; an unreadable store counts as none.
LoadPrevious(t) ==
    /\ At(t, "previous")
    /\ \E previous \in {store} \cup (IF "store" \in Faults THEN {NoKey} ELSE {}) :
          task' = [task EXCEPT ![t] = [@ EXCEPT !.pc = "save", !.previous = previous]]
    /\ UNCHANGED <<loopVars, settings, ui>>

loopExceptStore == <<coreVars, skew, gateVars, permit, orgId, pc, forced, key, outcome,
                     waitVars, shown, fileVars, serverVars>>

\* The new key is stored, and the validating request goes out.
SaveKey(t) ==
    /\ At(t, "save")
    /\ \/ /\ store' = task[t].key
          /\ SendRequest
          /\ Goto(t, "validate")
       \/ /\ "store" \in Faults
          /\ End(t)
          /\ UNCHANGED <<store, lateRequests>>
    /\ UNCHANGED <<loopExceptStore, settings, ui>>

\* Only a 401 rejects the key; without a clear answer it is kept.
ValidateReply(t) ==
    /\ At(t, "validate") /\ server # "hangs"
    /\ IF server = "answers" /\ task[t].key \in revoked
         THEN Goto(t, "rollback") ELSE Goto(t, "resume")
    /\ UNCHANGED <<loopVars, settings, ui>>

\* Best effort: put the previous key back, or clear the store if there was
\* none.  The command then fails, and the scheduler is not told.
Rollback(t) ==
    /\ At(t, "rollback")
    /\ store' \in {task[t].previous} \cup (IF "store" \in Faults THEN {store} ELSE {})
    /\ End(t)
    /\ UNCHANGED <<loopExceptStore, lateRequests, settings, ui>>

ResumePolling(t) ==
    /\ At(t, "resume") /\ CoreFree
    /\ Resume
    /\ Goto(t, "notify")
    /\ UNCHANGED <<loopExceptCore, settings, ui>>

\* clear_session_key empties the store, then records that there is no key.
SignOut(t) ==
    /\ "sign_out" \in Commands /\ At(t, "idle")
    /\ Goto(t, "clear")
    /\ UNCHANGED <<loopVars, settings, ui>>

ClearKey(t) ==
    /\ At(t, "clear")
    /\ \/ /\ store' = NoKey
          /\ Goto(t, "forget")
       \/ /\ "store" \in Faults
          /\ End(t)
          /\ UNCHANGED store
    /\ UNCHANGED <<loopExceptStore, lateRequests, settings, ui>>

RecordNoSession(t) ==
    /\ At(t, "forget") /\ CoreFree
    /\ Record(Outcome("NoSession"))
    /\ Goto(t, "notify")
    /\ UNCHANGED <<loopExceptCore, settings, ui>>

TaskNotifies(t) ==
    /\ At(t, "notify")
    /\ permit' = TRUE
    /\ End(t)
    /\ UNCHANGED <<loopExceptPermit, settings, ui>>

TaskStep(t) ==
    \/ ReadCookies(t) \/ CheckSource(t) \/ CheckTaskConsent(t) \/ LoadPrevious(t)
    \/ SaveKey(t) \/ ValidateReply(t) \/ Rollback(t) \/ ResumePolling(t)
    \/ ClearKey(t) \/ RecordNoSession(t) \/ TaskNotifies(t)

-----------------------------------------------------------------------------

\* The main thread, back in its event loop, makes the native calls of on_state.
ServeNativeCalls == ui.pc = "idle" /\ OnStateReturns

Loop == (LoopStep \/ ServeNativeCalls) /\ UNCHANGED <<settings, ui, task>>
Time == (Tick \/ Suspend \/ StepBack) /\ UNCHANGED <<settings, ui, task>>
Server == ServerChanges /\ UNCHANGED <<settings, ui, task>>

UserStep ==
    \/ \E acknowledged \in BOOLEAN : SetTosAcknowledged(acknowledged)
    \/ \E source \in Sources : SetUsageSource(source)
    \/ \E i \in Intervals : SetRefreshInterval(i)
    \/ RefreshUsage
    \/ \E t \in Tasks : ImportBrowserSession(t) \/ SignOut(t) \/ \E k \in Keys : SignIn(t, k)

Next ==
    \/ Loop \/ Time \/ Server \/ Restart
    \/ UserStep \/ UiStep \/ \E t \in Tasks : TaskStep(t)

Spec == Init /\ [][Next]_vars

\* The async runtime runs every ready future, the main thread drains its
\* commands, time passes, and a request that is not left open is answered.  The
\* event loop serves its queue in order, so native calls are not overtaken by
\* commands for ever, and a task gets a lock that it finds free again and again.
\* What the user, the server and the machine choose to do is not fair.
Fairness ==
    /\ WF_vars(Loop) /\ WF_vars(Tick /\ UNCHANGED <<settings, ui, task>>)
    /\ SF_vars(ServeNativeCalls /\ UNCHANGED <<settings, ui, task>>)
    /\ WF_vars(UiStep)
    /\ \A t \in Tasks :
          WF_vars(TaskStep(t)) /\ SF_vars(ResumePolling(t)) /\ SF_vars(RecordNoSession(t))

FairSpec == Spec /\ Fairness
=============================================================================
