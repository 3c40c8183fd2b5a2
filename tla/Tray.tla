---------------------------------- MODULE Tray ----------------------------------
(***************************************************************************)
(* How the tray is brought to what TrayModel says it should show           *)
(* (src-tauri/src/tray/mod.rs, tray/native.rs), by two threads: the poll   *)
(* loop, which applies every state it broadcasts, and the main thread,     *)
(* which runs the settings commands.  Both go through apply_state under    *)
(* the lock of the tray's resources, and a native call of the poll loop is *)
(* carried out by the main thread when it gets back to its event loop.     *)
(*                                                                         *)
(* There is a second lock.  run_loop broadcasts under the core's: the      *)
(* guard in on_state(lock(&core).state(..)) lives until on_state returns.  *)
(* A command reads the state under the same lock.                          *)
(*                                                                         *)
(* Rendering and every native call may fail; what is recorded as shown is  *)
(* only what succeeded, and what is recorded is not set again.             *)
(***************************************************************************)
EXTENDS TrayModel
LOCAL INSTANCE SequencesExt

CONSTANTS
    Meters,     \* the MeterStates the poll loop may broadcast
    Options,    \* the DisplayOptions the user may choose
    Instants,   \* the times at which it does
    MaxFailures \* bound on the failing renders and native calls of a behaviour

Threads == {"poller", "main"}

ASSUME TrayAssumption ==
    /\ Options \subseteq DisplayOptions
    /\ Instants \subseteq Nat /\ MaxFailures \in Nat /\ None \notin Threads

\* None is no icon and no menu.
ASSUME NothingAssumption ==
    \A m \in Meters, time \in Instants, options \in Options :
        None \notin {IconState(m, time, options), MenuModel(m, time, options)}

VARIABLES
    now,        \* the wall clock, which the poll loop's ticks move on
    meter,      \* what SchedulerHandle::state_now answers
    wanted,     \* the display options in the settings
    resources,  \* the tray's own copy of them
    recorded,   \* TrayDiff: the icon and the menu last applied with success
    native,     \* what the tray really shows: its icon, status line and usage items
    holder,     \* which thread holds the lock of the tray's resources
    call,       \* what each thread is doing: its place in apply_state, and the plan
    failures,   \* how many renders and native calls failed
    applied,    \* history: the state and the time the last apply_state was of
    missed,     \* history: the parts it failed to set
    mixed,      \* history: some, not all, items took a text since a whole menu was set
    unseen      \* history: the latest broadcast changed nothing of what was shown

history == <<applied, missed, mixed, unseen>>
trayVars == <<resources, recorded, native, history>>
vars == <<now, meter, wanted, trayVars, holder, call, failures>>

Places == {"idle", "read", "mutate", "lock", "icon", "menu"}
Idle == [pc |-> "idle", meter |-> None, now |-> 0, icon |-> None, menu |-> None]

-----------------------------------------------------------------------------

\* The texts of the usage items, in order.
Texts(menu) ==
    menu.usage_lines.cost \o
    FlattenSeq([i \in DOMAIN menu.usage_lines.windows |->
                   LET entry == menu.usage_lines.windows[i]
                   IN  IF entry.detail = None THEN <<entry.usage>>
                       ELSE <<entry.usage, entry.detail>>])

\* TrayDiff::plan: what differs from what is recorded, None for what does not.
PlannedIcon(icon) ==
    IF recorded.icon # None /\ IconKey(recorded.icon) = IconKey(icon) THEN None ELSE icon

PlannedMenu(menu) == IF recorded.menu = menu THEN None ELSE menu

\* The items can be reused only when there are as many of them.
InPlace(menu) == Len(native.items) = Len(Texts(menu))

\* Mutant of CanCall: nothing is dispatched, a native call runs on the thread that makes it.
MutCallsFromAnyThread(t) == t \in Threads

\* A native call is dispatched to the main thread, which has to be in its event
\* loop unless it makes the call itself.
CanCall(t) == t = "main" \/ call["main"].pc = "idle"

\* The core's lock is the poll loop's from the broadcast until apply_state returns.
CoreFree == call["poller"].pc = "idle"

-----------------------------------------------------------------------------

\* tray::init, before the poll loop starts.  Without a render the bundled icon
\* is shown and nothing is recorded of it.
Init ==
    /\ now \in Instants /\ meter \in Meters /\ wanted \in Options
    /\ resources = wanted
    /\ \E icon \in {IconState(meter, now, wanted)}, menu \in {MenuModel(meter, now, wanted)},
          rendered \in BOOLEAN :
          /\ recorded = [icon |-> IF rendered THEN icon ELSE None, menu |-> menu]
          /\ native = [icon |-> IF rendered THEN Render(icon) ELSE None,
                       status |-> menu.status_line, items |-> Texts(menu)]
          /\ missed = {part \in {"icon"} : ~rendered}
          /\ failures = IF rendered THEN 0 ELSE 1
    /\ failures <= MaxFailures
    /\ holder = None
    /\ call = [t \in Threads |-> Idle]
    /\ applied = [meter |-> meter, now |-> now]
    /\ mixed = FALSE /\ unseen = FALSE

\* The poll loop takes the core's lock, publishes a state and calls apply_state with
\* it, which reads the clock before it takes the tray's lock.
Broadcast(m, later) ==
    /\ call["poller"].pc = "idle"
    /\ now <= later
    /\ now' = later
    /\ meter' = m
    /\ call' = [call EXCEPT !["poller"] = [Idle EXCEPT !.pc = "lock", !.meter = m, !.now = later]]
    /\ UNCHANGED <<wanted, trayVars, holder, failures>>

\* A command stores the new options ...
Choose(options) ==
    /\ call["main"].pc = "idle"
    /\ wanted' = options
    /\ call' = [call EXCEPT !["main"] = [Idle EXCEPT !.pc = "read"]]
    /\ UNCHANGED <<now, meter, trayVars, holder, failures>>

\* ... and reads the current state, when it gets the core's lock, to call a setter.
ReadState ==
    /\ call["main"].pc = "read"
    /\ CoreFree
    /\ call' = [call EXCEPT !["main"].pc = "mutate", !["main"].meter = meter]
    /\ UNCHANGED <<now, meter, wanted, trayVars, holder, failures>>

\* Mutant of Mutate: the guard lives on into apply_state.
MutMutateKeepsLock ==
    /\ call["main"].pc = "mutate"
    /\ holder = None
    /\ holder' = "main"
    /\ resources' = wanted
    /\ call' = [call EXCEPT !["main"].pc = "lock", !["main"].now = now]
    /\ UNCHANGED <<now, meter, wanted, recorded, native, failures, history>>

\* mutate_and_apply: the mutation is a critical section of its own.
Mutate ==
    /\ call["main"].pc = "mutate"
    /\ holder = None
    /\ resources' = wanted
    /\ call' = [call EXCEPT !["main"].pc = "lock", !["main"].now = now]
    /\ UNCHANGED <<now, meter, wanted, recorded, native, holder, failures, history>>

\* apply_state: lock, and plan against what is recorded.
Acquire(t) ==
    /\ call[t].pc = "lock"
    /\ holder = None
    /\ holder' = t
    /\ \E icon \in {IconState(call[t].meter, call[t].now, resources)},
          menu \in {MenuModel(call[t].meter, call[t].now, resources)} :
          call' = [call EXCEPT ![t].pc = "icon", ![t].icon = PlannedIcon(icon),
                               ![t].menu = PlannedMenu(menu)]
    /\ applied' = [meter |-> call[t].meter, now |-> call[t].now]
    /\ missed' = {}
    /\ unseen' = IF t = "poller" THEN call'[t].icon = None /\ call'[t].menu = None ELSE unseen
    /\ UNCHANGED <<now, meter, wanted, resources, recorded, native, failures, mixed>>

SkipIcon(t) ==
    /\ call[t].pc = "icon" /\ call[t].icon = None
    /\ call' = [call EXCEPT ![t].pc = "menu"]
    /\ UNCHANGED <<now, meter, wanted, trayVars, holder, failures>>

SetIcon(t) ==
    /\ call[t].pc = "icon" /\ call[t].icon # None
    /\ CanCall(t)
    /\ native' = [native EXCEPT !.icon = Render(call[t].icon)]
    /\ recorded' = [recorded EXCEPT !.icon = call[t].icon]
    /\ call' = [call EXCEPT ![t].pc = "menu"]
    /\ UNCHANGED <<now, meter, wanted, resources, holder, failures, history>>

\* Mutant of IconFails: recorded all the same.
MutRecordsFailedIcon(t) ==
    /\ call[t].pc = "icon" /\ call[t].icon # None
    /\ failures < MaxFailures
    /\ failures' = failures + 1
    /\ missed' = missed \cup {"icon"}
    /\ recorded' = [recorded EXCEPT !.icon = call[t].icon]
    /\ call' = [call EXCEPT ![t].pc = "menu"]
    /\ UNCHANGED <<now, meter, wanted, resources, native, holder, applied, mixed, unseen>>

\* The render, or the native call, fails.
IconFails(t) ==
    /\ call[t].pc = "icon" /\ call[t].icon # None
    /\ failures < MaxFailures
    /\ failures' = failures + 1
    /\ missed' = missed \cup {"icon"}
    /\ call' = [call EXCEPT ![t].pc = "menu"]
    /\ UNCHANGED <<now, meter, wanted, resources, recorded, native, holder, applied,
                   mixed, unseen>>

\* The lock is dropped with the last statement of apply_state.
Return(t) ==
    /\ holder' = None
    /\ call' = [call EXCEPT ![t] = Idle]

SkipMenu(t) ==
    /\ call[t].pc = "menu" /\ call[t].menu = None
    /\ Return(t)
    /\ UNCHANGED <<now, meter, wanted, trayVars, failures>>

\* Every item takes its text, or a menu rebuilt from the texts replaces the old one.
SetMenu(t) ==
    /\ call[t].pc = "menu" /\ call[t].menu # None
    /\ CanCall(t)
    /\ native' = [native EXCEPT !.status = call[t].menu.status_line,
                                !.items = Texts(call[t].menu)]
    /\ recorded' = [recorded EXCEPT !.menu = call[t].menu]
    /\ mixed' = FALSE
    /\ Return(t)
    /\ UNCHANGED <<now, meter, wanted, resources, failures, applied, missed, unseen>>

\* Some items refuse their text and the others keep the new one, or the rebuilt
\* menu is refused and the old one stays.  Nothing is recorded.
MenuFails(t) ==
    /\ call[t].pc = "menu" /\ call[t].menu # None
    /\ CanCall(t)
    /\ failures < MaxFailures
    /\ failures' = failures + 1
    /\ missed' = missed \cup {"menu"}
    /\ IF InPlace(call[t].menu)
       THEN \E refused \in (SUBSET (0..Len(native.items))) \ {{}} :
               /\ native' = [native EXCEPT
                     !.status = IF 0 \in refused THEN @ ELSE call[t].menu.status_line,
                     !.items = [i \in DOMAIN @ |->
                                   IF i \in refused THEN @[i] ELSE Texts(call[t].menu)[i]]]
               /\ mixed' = TRUE
       ELSE UNCHANGED <<native, mixed>>
    /\ Return(t)
    /\ UNCHANGED <<now, meter, wanted, resources, recorded, applied, unseen>>

Apply(t) ==
    \/ Acquire(t)
    \/ SkipIcon(t) \/ SetIcon(t) \/ IconFails(t)
    \/ SkipMenu(t) \/ SetMenu(t) \/ MenuFails(t)

Next ==
    \/ \E m \in Meters, later \in Instants : Broadcast(m, later)
    \/ \E options \in Options : Choose(options)
    \/ ReadState \/ Mutate
    \/ \E t \in Threads : Apply(t)

Spec == Init /\ [][Next]_vars

\* Both threads run, and broadcasts and commands come seconds apart: a thread that
\* finds a lock free, or the event loop idle, again and again gets its turn.
FairSpec ==
    Spec /\ SF_vars(ReadState) /\ SF_vars(Mutate) /\ \A t \in Threads : SF_vars(Apply(t))

-----------------------------------------------------------------------------

\* Types, and the lock discipline: whoever is at the resources holds the lock.
TrayTypeOK ==
    /\ now \in Instants /\ meter \in Meters /\ wanted \in Options /\ resources \in Options
    /\ \A t \in Threads : call[t].pc \in Places
    /\ holder = None <=> \A t \in Threads : call[t].pc \notin {"icon", "menu"}
    /\ \A t \in Threads : call[t].pc \in {"icon", "menu"} => holder = t
    /\ failures \in 0..MaxFailures
    /\ missed \subseteq {"icon", "menu"}

AllIdle == \A t \in Threads : call[t].pc = "idle"

\* The poll loop, with the core's lock and the tray's, waits for the main thread to
\* make a native call.
PollerWaits ==
    /\ call["main"].pc # "idle"
    /\ \/ call["poller"].pc = "icon" /\ call["poller"].icon # None
       \/ call["poller"].pc = "menu" /\ call["poller"].menu # None

\* The main thread waits for one of them.
WaitForTray == PollerWaits /\ call["main"].pc \in {"mutate", "lock"}
WaitForCore == PollerWaits /\ call["main"].pc = "read"
BothWait == WaitForTray \/ WaitForCore

IconShows(m, time) == native.icon = Render(IconState(m, time, wanted))

MenuShows(m, time) ==
    \E menu \in {MenuModel(m, time, wanted)} :
        native.status = menu.status_line /\ native.items = Texts(menu)

\* Once both threads are done, what the last apply_state was given is on the
\* screen under the options of the settings, but for the parts it failed to set
\* and a menu left mixed: a part that could not be set is not debounced away
\* ("a failure here is retried on the next state", tray/mod.rs).
LastApplyIsShown ==
    AllIdle =>
        /\ "icon" \notin missed => IconShows(applied.meter, applied.now)
        /\ "menu" \notin missed /\ ~mixed => MenuShows(applied.meter, applied.now)

\* As long as no render and no native call has failed, what is on the screen is
\* also the latest state, whichever thread applied last: a settings command, which
\* reads the state before it takes the lock, brings an older one back only when
\* nothing of the latest broadcast was to be seen under the former options.
SettledTrayIsCurrent ==
    AllIdle /\ failures = 0 /\ ~unseen => IconShows(meter, now) /\ MenuShows(meter, now)

\* A broadcast and a settings command are carried through, failures included,
\* unless the two threads wait for each other over the tray's lock or the core's: no
\* other order of two locks, one event loop and the failures leaves either hanging
\* (apply_state and mutate_and_apply of tray/mod.rs, state_now of scheduler/mod.rs).
ApplyEnds ==
    \A t \in Threads : call[t].pc # "idle" ~> call[t].pc = "idle" \/ BothWait

\* "What must never take it is the main event loop: ... a main-thread wait on this
\* lock while another thread holds it would deadlock" (tray/mod.rs), of the lock of
\* the tray's resources.
NeverBothWait == ~WaitForTray
=============================================================================
