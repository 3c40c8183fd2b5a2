# A verification project for Rusted Claude Meter

TLA+ models of the app's core (polling claude.ai or a status-line file, and every
command that interferes with it), of its notifications, of the status-line bridge and its
installation, of the settings over launches, and of what the tray, the icon, the popover
and the prompt show of a reading; the TLC runs that check them on small instances; and
TLAPS proofs of their main invariants for every value of the constants. Paths are relative
to the repository; `scheduler/`, `commands/`, `tray/`, `signin.rs` and so on are under
`src-tauri/src/`, `meter-core/`, `meter-files/`, `meter-render/` and `meter-api/` under
`crates/`, and files ending in `.ts` under `src/`.

## 1. The system

Rusted Claude Meter is a Tauri tray app. One async task polls a usage source and
broadcasts a `MeterState`; tray, notifier and web views display it; commands from the
web views change what the task does. A second binary, the status-line bridge, runs
inside Claude Code sessions and writes the file the second source reads.

| Component | State | Operations | Correct when |
|---|---|---|---|
| Scheduler core (`scheduler/core.rs`) | interval, source, failure count, phase, snapshot, clock anchor; behind a mutex | `should_fetch`, `record`, `resume`, `next_delay`, `observe_clocks`, `state` | it backs off exactly while failing; it parks only in phases a command leaves; a reading survives every failure |
| Polling loop (`scheduler/mod.rs`) | the attempt in flight, the current wait, one `Notify` permit | fetch, persist, record, broadcast, wait in 30 s slices, park | no wake-up is lost; what was broadcast is what the core holds; claude.ai is not asked twice within the TTL; files agree with memory |
| Transports (`scheduler/transport.rs`, `sourced.rs`) | cached organisation | one attempt on claude.ai (gate, store, organisation, usage) or on the status-line file | no request without consent; the organisation belongs to the key |
| Consent gate, source selection (`consent.rs`, `source.rs`) | two shared cells | `set_tos_acknowledged`, `set_usage_source` | a choice takes effect, whatever attempt was in flight |
| Sign-in (`signin.rs`, `commands/session.rs`, `browser_import.rs`) | the credential store's entry; per command: the new key, the key to go back to | store, validate, roll back, resume; import; clear | a rejected key leaves the old session working |
| Settings (`settings.rs`), launch (`lib.rs`) | settings in memory, `settings.json`, the bridge's config; the switches seeded from them | update, save, mirror, seed everything at launch | the next launch comes back to the same choices; consent is only ever the user's |
| Files (`cache.rs`, `meter-files/io.rs`, `export.rs`) | disk cache, export, status-line reading | atomic replacement | no reader sees half a file; the newest knowledge is kept |
| Status-line bridge (`meter-files/statusline/`) | none of its own | read, merge, write the reading; print the segment | an idle session neither ages nor rejuvenates the reading; a bridge that dies leaves the old one; what collides heals |
| Status-line installation (`statusline/setup.rs`, `appimage.rs`) | the copy of the bridge, the document for `/statusline` | extract, write, copy the command | a recorded command goes on working |
| Notifier (`meter-core/notify.rs`, `notifier.rs`) | per window: the cycle and the levels told | `observe` | each level is told once per cycle |
| Decoding, snapshot, pacing (`meter-api/response.rs`, `meter-core/`) | none | pure functions of a reading, a time and the paced days | the figures of one window tell one story |
| Icon (`meter-render/`) | the cache of renders | six styles, badges, `get_or_render` | a cached icon is the one that would be drawn now |
| Tray (`tray/`) | display options, what is recorded as shown, one lock | `apply_state`, setters, native calls | what is shown follows state and options; a failed update is retried; nobody waits for ever |
| Popover (`pacing.ts`, `view-model.ts`, `render.ts`, ...) | none that matters | the same figures, computed again | it says what the menu says |
| Wizard, settings window (`wizard.rs`, `settings_window.rs`) | first-run signal, the window | ask, offer, consume | the wizard is offered once |
| Debug log (`debug_log.rs`) | the switch, the log file | check, append, start afresh | it stays bounded, and stops when told to |
| Autostart, demo server, cookie formats, keychains | none, or external | best-effort I/O | (see *Not modelled*) |

How they interact: the loop and the commands share the core (mutex), the gate and the
selection (atomics), the credential store (a blocking pool) and the `Notify` permit.
Commands that are not `async` run one at a time on the main thread; `set_session_key`,
`import_browser_session` and `clear_session_key` are `async` and run beside it and
beside each other. The loop calls `on_state` synchronously for the tray, the notifier
and the web views, and holds the core's mutex until it returns (the guard in
`on_state(lock(&core).state(..))` is a temporary of the whole statement); a native call it
makes for the tray is carried out by the main thread. Commands of the main thread take the
core's mutex (`state_now`, `update`), and the tray's resources are behind another, taken by
the loop and by the settings commands.
Files connect one process with the next launch, and the bridge with
the app.

What is hard here: a command can run between any two awaits of an attempt, whose
outcome is then recorded over the command's change; the gate and the organisation are
read once and used later; a new key is visible to the loop before it is validated; any
number of bridges read, merge and replace one file without a lock; a process can end
between any two writes; the machine sleeps and the wall clock jumps; a wake-up may be
answered from memory; two threads take two locks and need each other; a native call may
fail for a part of the menu; the figures of one window are computed in three ways, in two
languages. `PROJECT.json` lists each hazard at its line with
the properties that cover it.

## 2. The modules

| Module | Models | Extends |
|---|---|---|
| `SchedulerCore` | the decisions of `scheduler/core.rs`, as constant operators | - |
| `PollLoop` | `run_loop`, `wait_for_next_tick`, the transports, clocks and claude.ai; the state they share with commands | `SchedulerCore` |
| `Meter` | launch, restart, the commands of the main thread and the async ones; the composition | `PollLoop` |
| `MeterProperties` | what the composition promises, and what the documentation says | `Meter` |
| `MCMeter` | instances for TLC | `MeterProperties` |
| `MeterProofs` | theorems about `Spec` | `MeterProperties`, `TLAPS` |
| `Cycles` | when two reported resets end the same cycle (`meter-core/window.rs`) | - |
| `Notify` | the notification tracker and the settings it reads | `Cycles` |
| `MCNotify` | instances of `Notify` for TLC | `Notify` |
| `NotifyProofs` | theorems about `Notify` | `Notify`, `TLAPS` |
| `Freshness` | which reading is ahead, and the merge of two (`statusline/freshness.rs`) | `Cycles` |
| `AtomicFile` | `atomic_write` by several processes with one temporary name (`io.rs`) | - |
| `Statusline` | the bridges of all sessions over one recorded file | `Freshness`, an instance of `AtomicFile` |
| `MCStatusline` | instances of `Statusline` for TLC | `Statusline` |
| `StatuslineProofs` | what the merge keeps, for all readings; theorems about `Statusline` | `Statusline`, `TLAPS` |
| `Pacing` | windows and how fast they are burnt (`pacing.rs`, `window.rs`, `status.rs`) | - |
| `Snapshot` | decoding, the questions asked of a snapshot, the pace signal, the export (`response.rs`, `snapshot.rs`, `spend.rs`, `mode.rs`, `export.rs`) | `Pacing` |
| `Icon` | icon states, their equality, what each style draws, the cache (`meter-render`) | `Snapshot` |
| `TrayModel` | the icon and the menu of a `MeterState` (`tray/model/mod.rs`) | `Icon` |
| `Popover` | the popover's own pacing, view models and rows, and the prompt's segment (`pacing.ts`, `view-model.ts`, `render.ts`, `bridge.rs`, ...) | `TrayModel` |
| `Readings` | readings, time and options moving all of these surfaces | `Popover` |
| `MCReadings` | instances of `Readings` for TLC | `Readings` |
| `TrayModelProofs` | theorems about `Pacing`, `Icon` and `TrayModel` | `TrayModel`, `TLAPS` |
| `ReadingsProofs` | theorems about `Readings` | `Readings`, `TrayModelProofs` |
| `Tray` | `apply_state` and the setters on two threads (`tray/mod.rs`, `tray/native.rs`) | `TrayModel` |
| `MCTray` | instances of `Tray` for TLC | `Tray` |
| `TrayProofs` | theorems about `Tray` | `Tray`, `TrayModelProofs` |
| `Settings` | settings, mirror, switches, wizard and response log over launches | - |
| `MCSettings` | instances of `Settings` for TLC | `Settings` |
| `SettingsProofs` | theorems about `Settings` | `Settings`, `TLAPS` |
| `Installation` | what a launch extracts and writes down, and what becomes of it | - |
| `InstallationProofs` | theorems about `Installation` | `Installation`, `TLAPS` |

**State.** `interval, failures, phase, snapshot` are `SchedulerCore`'s fields; `consent`,
`selection`, `store`, `permit`, `orgId` are the shared cells; `pc, forced, key, outcome,
remaining, slice` are the loop's locals; `shown` is the `MeterState` of the last
broadcast; `cacheFile`, `exportFile` and `settings` are on disk; `ui` is the main
thread's command in progress and `task` the async commands'. `skew` is the drift
`observe_clocks` would see. `server` and `revoked` are how claude.ai treats requests.
`lateRequests` is a history variable and no action reads it.

**Actions.** Each statement of `run_loop` that reads or writes shared state is an action
(`Check`, `DispatchLive`, `CheckConsent`, `LoadKey`, ..., `SaveCache`, `WriteExport`,
`RecordOutcome`, `Broadcast`, `Wait`, `Park`), and so is each step of a command, in the code's
order: `SetTosAcknowledged` (gate), `TosUpdatesCore` (core), `UiNotifies` (permit), `UiSaves`
(file). So every interleaving of the two threads is explored. A broadcast may have native calls
to make: the loop then stays in `"restoring"` or `"publishing"` with the core's lock
(`CoreFree`) until `OnStateReturns`, for which the main thread has to be in its event loop
(`ServeNativeCalls`); a command or a task that mutates the core waits for the lock. `Wake`
consumes the permit; `SliceEnds` observes the clocks. A fault is an action or a disjunct
guarded by membership in `Faults`: an unreadable or unwritable store (`store`), a file write
that fails (`write`), an outage (`fails`), an open request (`hangs`), a revoked key (`revoke`),
a suspended machine (`suspend`), a clock set back (`step_back`), the end of the process
(`restart`).

**Time and data.** A snapshot carries its age rather than an instant; `Tick` ages every
copy and runs down the slice, `Suspend` ages them without the timer, `StepBack` makes
them younger, down to one tick in the future. Ages are capped at `AgeCap`, beyond every
comparison made with them. Two snapshots differ when their ages or their `usage` do,
which is what `is_new_snapshot` compares (instants and numbers) until ages saturate. Time
passes only while the loop awaits something (`Awaiting`): the code between two awaits
takes no time on the scale of a tick. The jitter is a choice of any delay in the upper half of
the backoff step. Keys, organisations and readings are model values. A status-line
reading is absent or of any age from 0 up: who wrote it is not part of this model.

**Notifications.** `Notify` stands on its own: what it consumes is the broadcast `PollLoop`
calls `shown`, as a set of windows with a reading each. `tracker` is the tracker's map,
`settings` the two thresholds and the reset opt-in, `events` what `observe` returned. A
window runs in cycles that the code cannot see; a reading carries a reset instant that
wobbles by up to `ResetJitter` around the end of its cycle, or, while the window is idle,
an estimate that moves on. `cycle`, `settled` and `gap` are history variables that
remember, per window, the cycle last seen, the levels told (or reached at the first
sighting) in it, and whether the window was idle since the last rollover. `Observe` is
one whole call; `SetThresholds` includes the clamping and the normalisation of an
inverted pair. Readings come in order (`Follows`): readings of another source that
belong to an earlier cycle are in the plan.

**Status line.** `Statusline` has one bridge process per session, started by `Redraw`
with what the session heard last (`held`) and an observation time. That time is the
transcript's modification time, which prompts move too, so it is any time, clamped to
`now` (`ObservedAt`). `ReadAndMerge` is `update` up to the comparison; `OpenRecord`,
`FillRecord` and `Publish` are the three system calls of `atomic_replace` on a body
short enough for one write; the process can be killed or fail between any two
(`Kill`, `WriteFails`, `PublishFails`). `AtomicFile` follows what each writer opened: a
rename moves the file under another writer that still has it open, so that its body
lands in the published file (`fd` is the name a descriptor has now, or `"gone"`).
A window of a reading is a cycle, a drift and a utilization; the code's comparison
(`Ahead`) sees the reset made from the first two, the reference (`FurtherAlong`) the
cycle itself. What sessions hear comes in order (`Hear`), as usage never falls within a
cycle; what they redraw with does not. What the bridge prints is a rendering of the
answer of `update` and changes no state.

**Figures and surfaces.** `Pacing`, `Snapshot`, `Icon`, `TrayModel` and `Popover` are pure
operators, one per function of the code. Where the code divides floating-point numbers, they
keep the quotient as a numerator over a positive denominator and compare by products, so a
comparison is exact. Where a quotient is rounded to be shown, the double matters: one that lies
half way between two figures may have come out of the division a little short or long, and
which of them did is a parameter (`Short`, `Long`), since it is the same for both languages
when they do the same divisions. `Rounded` is `f64::round` and `Math.round`; `Tenths` is
`{:.1}`, which takes a tie that the double holds exactly to the even digit, and `FixedTenths`
is `toFixed(1)`, which takes it up. A line of the menu, a row of the popover and a drawing are
records of what they say, without wording, currency and coordinates. `Popover` is translated
from the TypeScript, not from `TrayModel`: that the two agree, but for the roundings of section
3, is `PopoverMatchesMenu`. `Readings` makes them move: `Receive` decodes an answer, exports it
and shows it; `Report` is a report of Claude Code's, with the segment printed from it and the
record the app reads back, which may be older; `Degrade` shows the same snapshot later, after a
failure; `Choose` is a setter. Each ends with `Show`, the broadcast, and draws the icon through
the cache.

**Tray.** `Tray` has two threads, each with its place in `apply_state` and its plan
(`call`). `Broadcast` is the poll loop's call, under the core's lock from then until it
returns, which reads the clock before it takes the tray's lock; `Choose` is a settings
command, which stores the option; `ReadState` reads the current state when the core's lock
is free (`CoreFree`), before `Mutate` takes the tray's lock for the mutation and `Acquire`
takes it again. `Acquire`
plans against what is recorded (`PlannedIcon`, `PlannedMenu`); `SetIcon` and `SetMenu` need
the main thread in its event loop when the poll loop makes them (`CanCall`); `IconFails`
and `MenuFails` are renders and native calls that fail, the latter for any of the items
when the menu is updated in place (`native.rs:109-114`). `recorded` is what `TrayDiff`
commits, `native` what the screen shows. `applied`, `missed`, `mixed` and `unseen` are
history variables.

**Settings.** `Settings` covers the life of the files over launches. A command is its
switch (`SetTosAcknowledged`, `SetDebugLogging`), the update (`UpdateAfterSwitch`, or
`Store` for a setter without a switch), `Save` and `Mirror`, with the end of the process
(`Quit`) possible between any two. Settings nothing here depends on are one field, `rest`.
`Edit` replaces the file between launches by one of `ForeignFiles`: none, damaged, of an
older build that lacks fields, of a later format, out of range. The window and the wizard
are the web view's questions in order: `OpenSettings`, `AskWizardShouldRun`, `OpenWizard`,
which does not wait for `MarkOffered`, a call that may fail (`stale` then has `"signal"`);
`StartRecord` and `AppendEntry` are the poll loop's check of the switch and its write.
`answer`, `unsaved`, `stale`, `found`, `offers` and `late` are history variables.

**Installation.** A command is what it names: the bridge beside a packaged binary, the program
itself with a subcommand, the durable copy, or something inside the mount of a running
AppImage. The bridge beside the binary is looked for on the disk whenever a command is named
(`Beside`), so it is the installed release that has it or not, while `current_exe` may be the
path of a binary that was replaced as it ran (`CurrentExe`, `Replaced`: Linux reports it as
deleted). `Launch` begins `setup::write` with `running_from`, `Extract` refreshes the copy,
`WriteDocument` probes for it and writes the command down; `RecordDocument` and `CopyCommand`
are the two ways the user gets it into Claude Code's settings. `Upgrade`, `Move` and `Touch`
are what happens behind the app's back.

A definition named `Mut...` is not part of the system: it is a plausible bug in the
definition below it, and substituting it must break the property it is paired with in
`PROJECT.json`.

## 3. The runs

One tick is about 20 seconds. `MemoryTTL = 1`, `Intervals = {2}` (or `{2, 3}`),
`StatuslinePoll = 1`, backoff 1, 2, 3, 3, ..., `Slice = 1` and `AgeCap` one above the
staleness horizon keep the order of the real constants (55 s below 60 s; 15 s; 10 s to
900 s; 30 s), which is all the decisions depend on. `FailureCap = 3` lets the backoff
reach its ceiling and the counter saturate. One command task, one key and one reading are
enough for the stale outcomes and rollbacks the properties of the passing runs are about (a
key that is submitted again is the one that was there, or the one that was revoked);
`rejected_key` has two keys. Each run has the faults and commands its properties are exposed
to: with all of them at once the states are too many, and the theorems of section 4 cover
every combination. The passing runs of `Meter` have half a million to two and a half million
states.

| Run | Question | Result |
|---|---|---|
| `consent` | consent given and withdrawn at every point of an attempt, a sign-in or an import, with requests left open, suspension and restarts | `NoLostWakeup`, `ShownIsCurrent`, `BoundedTraffic` (at most 2 + the number of tasks requests after a withdrawal), `ConsentNotStranded`, `SettingsFollow`, `SpacedFetches` hold |
| `session` | a key submitted, refused, rolled back, revoked and cleared with a failing store, a clock set back and restarts | `MeterTypeOK`, `DegradedWhileFailing`, `CacheHoldsSnapshot` hold |
| `sources` | the source switched in mid-attempt while consent changes and requests are left open | `StatuslineKeepsPolling`, `ExportHoldsSnapshot`, and under fairness `WakeIsTaken` and `FollowsSource`, hold |
| `recovery` | outages, requests left open, consent and interval changes, then everything a poll needs stays in place | `Recovers` holds under fairness |
| `rejected_key` | does a failed validation leave a working session working? | violated |
| `notify` | three cycles of a window, running and idle, with wobbling and estimated resets, usage that moves either way, stray and inverted thresholds, relaunches | `NotifyTypeOK`, `SpentWasTold`, `WarningComesFirst`, `ToldOncePerCycle`, `ResetsAreReal` hold |
| `statusline` | two sessions with readings ahead and behind of each other, redrawing at any time, bridges killed or unable to write at any step | `StatuslineTypeOK`, `OnlyOverlapTears`, `NeverFallsBack`, `OnlyTheNewestVouch`, and under fairness `SelfHeals`, hold |
| `readings` | about two hundred answers and reports, six looks, two instants, two broadcasts | `OutlookMatchesPace`, `BadgeIsExplained`, `HitTimeReadable`, `CachedIconIsCurrent`, `SurfacesAgree`, `PopoverMatchesMenu` hold |
| `tray` | broadcasts against settings commands, two locks, renders and native calls that fail in whole or in part | `TrayTypeOK`, `LastApplyIsShown`, `SettledTrayIsCurrent`, and under fairness `ApplyEnds`, hold |
| `tray_deadlock` | can the two threads never wait for each other over the tray's lock? | violated |
| `settings` | settings changed over launches, with failing writes, ends of the process and foreign files | `ConsentIsTheUsers`, `CopiesAgree`, `WizardOffersOnce`, `DebugLogIsBounded` hold |
| `install` | packages and AppImages launched, upgraded, moved and quit, with failing writes and a damaged copy | `RecordedCommandRuns`, `LaunchSeesToIt` hold |

In `notify` a cycle of 3 and a jitter of 1 keep a wobble apart from a rollover, and
utilizations and thresholds 0 to 3 give below, at and above for both levels. One window
is enough: the tracker's windows share nothing but the thresholds, and the theorems cover
any number of them.

In `statusline` the two sessions choose among three responses (`MCResponses`) that give
every relation two readings can have: ahead, behind, ahead on one window and behind on
the other, and one that lacks a window; cycle and jitter are those of `notify`. One clock
tick tells an older observation time from a newer one, and one fault is what it takes to
leave a temporary file behind. Two bridges are enough to share a temporary file; the
theorems cover any number of sessions, responses and faults.

In `readings` a tick is ten minutes, so that windows, days and paced spans keep their real
proportions (30 : 144). The answers are slices rather than a product: each window alone
over its whole range of usage and age (ahead of the server's clock, in the grace of either
span, under way, past five and six days, over), pairs of windows around the thresholds of
the signal and of the roundings (exact ties of tenths, and shares half way between two
percents, each of which also come out short or long), and accounts with scoped limits or
spend. The second
broadcast is what it takes to find a stale entry in the cache of icons; the surfaces depend
on nothing older. One minute (`ResetSoonGrace`) becomes one tick.

In `tray` three states, two options and two instants tell an older state, option and time
from a newer one, and give menus of different length and of the same; one failure is
enough to leave a part unset, since each call tries again. In `settings` the log limit is
one response, two of them pass it; one failing write and one change of the file from
outside may come at any time, over any number of launches. In `install` the first two of
four releases have no standalone bridge, so that an upgrade goes from one without to another
without (whose old binary has a deleted path), from one without to one with, and between
two with; there are two failing writes and two mishaps.

**Fairness** (`FairSpec`). `WF(Loop)`: the runtime polls every ready future, and a request that
claude.ai answers or fails is seen; a request it leaves open (`server = "hangs"`) disables the
reply, so nothing is assumed of it. The loop has one request at a time, so one that is lost for
good is, for it, a server that never answers again: neither `Healthy` nor `~RequestOpen` holds
then. `WF(Tick)`: time passes. `WF(UiStep)` and `WF(TaskStep(t))`: a command that was started
runs on, which a main thread that waits for the core's lock does not. `SF(ServeNativeCalls)`:
the event loop takes what is queued in order, so a native call of the loop is carried out when
the main thread gets back to it again and again, although commands keep coming;
`SF(ResumePolling(t))` and `SF(RecordNoSession(t))`: a task that finds the core's lock free
again and again gets it. None of this makes the core's lock free of itself: the states in which
the loop and the main thread wait for each other (`BothWait`) are reachable in `sources` and
`recovery`, no fairness leads out of them, and the properties except them. What the user,
claude.ai and the machine choose to do (`UserStep`, `Server`, `Suspend`, `StepBack`, `Restart`)
has no fairness. In `Statusline`, `WF(Redraw(s))`: Claude Code redraws the status line whether
or not the session is doing anything (`freshness.rs`), and `WF(BridgeStep(s))`: a process that
is not killed runs on. Responses, kills and failed writes have none. In `Tray`,
`SF(ReadState)`, `SF(Mutate)` and `SF(Apply(t))`: both threads run, and since broadcasts and
commands come seconds apart, a thread that finds the lock free or the event loop idle again and
again gets its turn; nothing is assumed of the user or the poll loop starting anything.
`Recovers`, `FollowsSource` and `SelfHeals` are therefore of the form "if the environment stays
so for ever, then ...".

**Deadlock** is checked in every run but three: the loop, time, claude.ai or the user can always
do something; readings keep coming; a session that has heard something can always redraw;
settings can always be changed, and an app launched. That check does not see two threads of
`Meter` that wait for each other while time passes, which is why `BothWait` is a definition of
its own. In `readings` the broadcasts are bounded, so a
behaviour ends; in `tray` and `tray_deadlock` the two threads really may come to wait for
each other, which is what `tray_deadlock` shows.

### What the violated runs show

1. `rejected_key`: `signin.rs:81-84` promises that a failed validation never destroys a
   working session. A poll tick between the save and the rollback loads the rejected key,
   gets a 401 and parks the loop as `SessionExpired`; the rollback restores the key and
   does not wake anybody.
2. `tray_deadlock`: `tray/mod.rs:69-75` says that the main event loop must never take the
   tray's lock, because native calls are dispatched to it and block, and takes the settings
   commands to come from another thread. They are `#[tauri::command]` functions that are
   not `async`, which run on the main thread (`store.rs:121-122` says so). A setting changed
   while the poll loop is in `apply_state` and has an icon or a menu to set stops both. There
   is a second instance over the core's lock, which `run_loop` holds across `on_state`
   (`scheduler/mod.rs:158`, `196`): a command that reads or changes the core during the
   broadcast (`state_now`, line 120; `update`, line 107) waits for it before it gets to the
   tray's. It is what `BothWait` of `MeterProperties` and `WaitForCore` of `Tray` are about;
   `ApplyEnds`, `WakeIsTaken` and `Recovers` except it, and `BothWaitForGood` proves that
   nothing but the end of the process resolves it. The
   same circumstance is why `SettledTrayIsCurrent` holds: `mutate_and_apply` is given a
   state read before the lock, and an older state can be applied over a newer one only
   after the newer one's native calls, which the waiting main thread does not carry out.
   Its mutant lets them run on any thread, as a fix of the deadlock might, and the tray
   then settles on the older state.

### Disagreements no run shows

Found while modelling; each is in the models as the code has it, and none is a property.

- **Requests after a withdrawal.** `README.md:106` promises no traffic on any path. The
  gate is read once, before the credential store is awaited (`transport.rs:103`), so one
  attempt may still send its two requests and a sign-in its one. `BoundedTraffic` is the
  bound that does hold.
- **The organisation of another account.** `transport.rs:41-43` says the cached
  organisation is cleared so that a key of another account rediscovers it. It is cleared on
  a 401 only; replacing a key that still works asks for the old account's organisation.
- **An export left behind.** `README.md:164` says the export is written after every
  successful fetch. A process that ends between the two writes leaves it behind, and the
  next launch takes the same reading, restored from the cache, for nothing new.
- **An idle window.** `notify.rs:19-22` says that every level re-arms for a new cycle. A
  rollover is recognised only between two consecutive reported resets, so a window seen
  idle between two cycles is not re-armed. `SpentWasTold` has the exception (`gap`).
- **A torn reading.** `io.rs:6-8` says that a concurrent read can never observe a truncated
  file. All bridges use the same temporary name: one truncates the temporary file of
  another, which then renames it. `SelfHeals` says that later redraws replace it.
- **A menu left mixed.** When some items refuse their text, the others keep the new one
  (`native.rs:109-114`), nothing is recorded, and a next state equal to the recorded one is
  debounced over the mixture. `LastApplyIsShown` excepts it (`mixed`).
- **Which windows colour the icon.** `state.rs:189` says the worst across every window; the
  code takes the primary one alone (`state.rs:219-223`).
- **A timeout of requests.** `harness/README.md:316-317` ("`failure hang` exercises the
  client timeout") and `harness/demo-server/src/routes.rs:36` take the client to have one.
  `client.rs:38` sets none: a request that is never answered holds the loop, and with it
  refreshes, switches of the source and consent, until the app is restarted. `WakeIsTaken`
  and `FollowsSource` except it by name (`RequestOpen`), in runs that have such requests.
- **Numerically exact.** `pacing.ts:1-6` says so of the popover's figures. The quotients are,
  and their comparisons. What is printed is not: `{:.1}` (`tray/model/mod.rs:353`) takes an
  exact tie to the even digit and `toFixed(1)` (`render.ts:78`) takes it up, so a ratio of 0.25
  reads 0.2 in the menu and 0.3 in the popover (`SameDecimal`); a spend's share is divided
  from majors in Rust (`spend.rs:65`) and from minors in TypeScript (`cost-view-model.ts:102`),
  whose doubles round 0.35 of 10.00 to 3% and to 4% (`SameShare`). `PopoverMatchesMenu` allows
  these two and nothing else.
- **A deleted path.** `setup.rs:131-133` and `163-165` say that the button and the document cannot
  disagree. A package without the bridge that is replaced while it runs has a `current_exe`
  that ends in ` (deleted)`, which the button names and nothing can run; and one that is
  upgraded to a release with the bridge names the bridge there, when its document has the
  subcommand. `RecordedCommandRuns` excepts the first (`astray`), and `LaunchSeesToIt` claims
  one answer only while the release on the disk is the one that runs.
- **Cookies before the gates.** `commands/browser.rs:46-51` promises a refusal before the
  cookie store is read; `browser_import.rs:215` reads it first. `Meter` has that order.
- **A command inside a mount.** `setup.rs:99-104` calls a path in a mount unnameable by
  construction; an AppImage moved while it runs has no image to name, and `current_invocation`
  falls back to what lies beside the executable. `RecordedCommandRuns` excepts it (`astray`).
- **A gauge across exponents.** `costGauge` (`cost-view-model.ts`) says it mirrors
  `Spend::fraction_used`, but divides minor units whatever their exponents.
  `PopoverMatchesMenu` compares the gauges of one exponent.
- **A limit reached, past the reset.** A card of the popover goes on saying so after its
  window has reset, when the tray's detail line is gone; `PopoverMatchesMenu` allows it.
- **Downgrades.** A settings file of a later format is read as the defaults, as documented
  (`settings.rs:222-226`), and the next change overwrites it with them.

## 4. What is proved

`MeterProofs` proves, for every value of the constants that satisfies the named
assumptions, any number of tasks and every set of faults:

| Theorem | States | Argument |
|---|---|---|
| `TypeCorrect` | `MeterTypeOK` | inductive together with `KeyInFlight` (an attempt awaiting a reply has a key, without which its organisation has no type) |
| `BacksOffWhileFailing` | `DegradedWhileFailing` | every mutation of the core is a `Record` or a `Resume` (`CoreMutations`) |
| `WakeupsAreNotLost` | `NoLostWakeup` | only the loop takes the permit (`OnlyTheLoopMoves`, `PendingStays`), a command that changes the core has a wake-up to come (`CommandsNotify`), and the loop parks only in a parking phase (`OnlyParkingPhasesPark`) |
| `BroadcastsKeepUp` | `ShownIsCurrent` | the same lemmas, and `Broadcast` |
| `StatuslineNeverStrands` | `StatuslineKeepsPolling` | strengthened with `StatuslineInv`: a loop that has left the outcome of a claude.ai attempt behind holds a status-line phase, or a wake-up is pending |
| `SettingsAreKept` | `SettingsFollow` | `SettingsInv`: a command in progress will store what the cells already hold; assumes writes succeed |
| `CacheAgrees` | `CacheHoldsSnapshot` | `FilesInv`: what the files hold at every point between the two writes and the record; assumes writes succeed |
| `ExportAgrees` | `ExportHoldsSnapshot` | the same invariant; assumes writes succeed and no restart (section 3 says why) |
| `FetchesAreSpaced` | `SpacedFetches` | `SpacingInv`: an attempt that is past the TTL check asks for a reading that is due, its failure leaves that reading in place, a source that fails is due, and a timer does not end before the reading is (`DelaysOutlastTtl`: every interval is longer than the TTL). `CacheInv`: the cached reading is no younger than the one in memory, whether or not it could be written. Assumes that the wall clock is not stepped back and that the source is not switched |
| `ConsentIsNotStranded` | `ConsentNotStranded` | `ConsentInv`, on top of `SpacingInv`: an attempt that saw the gate closed while it is open now is followed by a wake-up of the grant (`PendingStays`), and asks for a reading that is due, which its stale outcome leaves in place; assumes that the wall clock is not stepped back and that the source is not switched |
| `BothWaitForGood` | once the loop and the main thread wait for each other over the core's lock, they do so until the process ends | step by step: the command needs the lock, the loop a main thread without a command |
| `TrafficIsBounded` | `BoundedTraffic` | `TrafficInv`: while there is no consent, the requests sent since it was withdrawn, those the attempt still has in it (`AttemptLeft`) and the sign-ins past their gate (`PastGate`) add up to at most two more than there are tasks, of which there are finitely many |

A hypothesis says which faults and commands there are, never what a step does. Those of
`FetchesAreSpaced` and `ConsentIsNotStranded` are needed: TLC finds the property violated as
soon as `step_back` or `source` is added to the instance of its run. A step back makes a
reading younger than it was. After a switch, a status-line reading younger than the TTL is in
the cache when claude.ai is first asked; and switched back and forth, it lies in memory between
a refusal and the grant, whose attempt is then served from memory.

`NotifyProofs` proves, for any windows, cycle length and jitter below half of it:

| Theorem | States | Argument |
|---|---|---|
| `NotifyTypeCorrect` | `NotifyTypeOK` | `NormalizeType`: whatever is asked for, the stored pair is in range and in order |
| `SpentLevelsWereTold`, `WarningsComeFirst` | `SpentWasTold`, `WarningComesFirst` | `NotifyInv`: the remembered reset of a running window is that of the cycle last seen, up to the jitter; nothing settled in it is re-armed |
| `ToldOnce`, `AnnouncedResetsAreReal` | `ToldOncePerCycle`, `ResetsAreReal` | the same invariant with `RolloverIsReal`: between two reported resets a rollover is recognised exactly when the cycle has moved on (`OneCycleShares`, `TwoCyclesDiffer`) |

`StatuslineProofs` proves, for all readings of any windows (with `CyclesAssumption`):

| Theorem | States | Argument |
|---|---|---|
| `AheadIsFurtherAlong` | the code's comparison of resets and utilizations is the order of the true cycles and the usage within them | `OneCycleShares`, `TwoCyclesDiffer` |
| `MergeKeepsTheNewest` | the merge covers both readings, is never older than the record, and becomes younger only by a reading behind on no window | window by window, from the former |
| `MergeIsIdempotent` | merging a reading again changes nothing | the same |

and, for any sessions, responses and number of faults:

| Theorem | States | Argument |
|---|---|---|
| `StatuslineTypeCorrect` | `StatuslineTypeOK` | with `PastInv`: no snapshot on disk, observed or read is stamped in the future |
| `OnlyOverlapsTear` | `OnlyOverlapTears` | `StatuslineInv`: as long as no two bridges overlapped, at most one runs, what it read is what the file still holds, and the temporary file is its own (`Alone`); after a bridge died the temporary file may hold anything, which the next one truncates |
| `RecordNeverFallsBack`, `NewestVouch` | `NeverFallsBack`, `OnlyTheNewestVouch` | the same invariant: only a rename changes the file, to the merge of what it held (`MergeKeepsTheNewest`) |

`TrayModelProofs` proves, for every reading, option and instant:

| Theorem | States | Argument |
|---|---|---|
| `EqualKeysEqualPixels` | icon states with one key have one drawing | style by style; a state has a band exactly when it has a ratio (`IsIcon`, kept by everything that makes an icon, `IconStateIsIcon`) |
| `AheadIsRunningOut` | below its limit, a window is ahead of its pace exactly when it is projected to run out before the horizon ends | the grace of the one implies that of the other, and both come down to one product of integers |

`ReadingsProofs` proves, for any answers of claude.ai, any options, instants, time zone and
proportions of a session, a day, an hour and a grace:

| Theorem | States | Argument |
|---|---|---|
| `IconIsCurrent` | `CachedIconIsCurrent` | `ReadingsInv`: every cached entry is the drawing of some state with its key (`CacheIsSound`), so `EqualKeysEqualPixels` makes the one found the one wanted; icon, menu, popover, export and prompt are those of the present reading, options and time (`ShownIsCurrent`, `ExportIsCurrent`, `PromptIsCurrent`) |
| `OutlookFollowsPace` | `OutlookMatchesPace` | `AheadIsRunningOut`, and rounding to tenths keeps a ratio on its side of 0.8, 1.0 and 1.2 (`TenthsKeepSides`) |
| `HitTimeIsReadable` | `HitTimeReadable` | the hit is a division of the time elapsed (`HitIsAhead`); a clock with the date left out only when it is today's reads back to its instant in every time zone (`TimeIsReadBack`); a countdown is short of the reset by less than an hour (`CountdownIsClose`) |
| `SurfacesDoAgree` | `SurfacesAgree` | the number on the icon is traced to the state it draws (`PartsOfIcon`, `FiguresOfIcon`, `IconReads`), every line of the menu to the window it is of (`LinesAreOfWindows`), every window to the export (`LimitIsExported`) |
| `BadgeIsAccountedFor` | `BadgeIsExplained` | the signal is of a headline window (`SignalIsOfAWindow`). A snowflake is the week's, well behind its pace while the session is not ahead; a session that is not ahead is below its limit too, because one at its limit is strictly ahead (`FullSessionIsAhead`; a week at its limit may have a ratio of exactly 1, but not one of a snowflake), so neither line runs out (`SignalIsExplained`) |
| `PopoverAgrees` | `PopoverMatchesMenu` | figure by figure: the two ratios are one quotient (`SamePace`), the two outlooks have the same cascade although one is guarded by the ratio and the other is not (`SameOutlook`, `NoRatioNoProjection`), the two percentages of a spend are roundings of one quotient up to a common factor (`DivideCommon`, `SameRounding`), and the two decimals of a ratio are those nearest to it (`DecimalsAgree`), so that each pair is equal but at the ties named; then row by row, the selection of rows being the same (`CardsMatch`) |

Two things there are done as they are because of the prover. Decoding and the menu select
from a sequence with `Selected`, by position, since `SelectSeq` is recursive and nothing can be
proved of it; `NthIsThere` gets the induction it needs from the least member of a set of
naturals (`LeastNatural`), since the library's induction takes an operator. Answers have
types (`RawResponses`), and `None` is in none of the sets it may be told apart from.

`TrayProofs` proves, for any states, options, instants and number of failures:

| Theorem | States | Argument |
|---|---|---|
| `TrayTypeCorrect` | `TrayTypeOK` | inductive with `Shape` (calls are records, given a state once begun) |
| `LastApplyShown` | `LastApplyIsShown` | `TrayInv`: whatever is recorded is on the screen (`RecordedIsShown`), and whoever holds the lock plans and keeps to the plan (`AppliedInv`); a debounced icon is the one recorded, up to its key, so the same picture (`EqualKeysEqualPixels`) |
| `SettledIsCurrent` | `SettledTrayIsCurrent` | `SettledInv` on top: a command that is behind a broadcast meets it before its lock, stuck at it, or done without a change |

`SettingsProofs` proves, for any settings, foreign files, log sizes and numbers of failures
and edits:

| Theorem | States | Argument |
|---|---|---|
| `ConsentStaysTheUsers` | `ConsentIsTheUsers` | `SettingsInv`: what is loaded has its type and is normal, the switches are ahead of the settings by one step of a command (`Switches`), the files behind them until the write (`Files`); `ForeignWithholds`, what no build of this format wrote says no |
| `CopiesFollow` | `CopiesAgree` | the same invariant, with `SavedIsLoaded` and `MirrorIsRead`: what is written is what is read back |
| `WizardOnce` | `WizardOffersOnce` | the signal outlives the question, and the wizard only while its mark is on the way or when that call failed (`Wizard`) |
| `DebugLogBounded` | `DebugLogIsBounded` | one response at most is past the check (`Log`) |

`InstallationProofs` proves, for any places of images, releases and numbers of failures and
mishaps:

| Theorem | States | Argument |
|---|---|---|
| `RecordedCommandWorks` | `RecordedCommandRuns` | `InstallInv`: a command that does not run is excused only by what it names, a touched copy for the copy, a moved image for any other (`CommandsHold`, `Excused`); a package has no copy and stays in its place (`Placed`), the app that runs is no later than the installed one and its image, if it has moved, no longer vouches for either command (`Launched`) |
| `LaunchPutsRight` | `LaunchSeesToIt` | the same invariant with what the two steps of `setup::write` have achieved so far (`SetupHolds`) |

Assumptions: `CyclesAssumption` (`CycleLength > 2 * ResetJitter`); `NotifyAssumption` and
`UntrackedAssumption` for `Notify`; `FreshnessAssumption`, `NoReadingAssumption` and
`StatuslineAssumption` (bounds are naturals, the special values are no readings) for the status
line; `PacingAssumption` (windows and days have a length) and `NoneAssumption` for the figures,
with `DoubleAssumption` (what comes out short or long is a quotient); `TrayModelAssumption` (an
hour and the grace of a reset are lengths, the time zone an offset), `ReadingsAssumption`
(answers are answers, options are options, the bound is a natural) and `NoneIsNoLimit`,
`NoneIsNoLine`, `NoneIsNoRow` (the absent value is no window, line or row) for what is shown of
a reading; `InstallationAssumption` and its `NoneAssumption` for the installation;
`TrayAssumption` and `NothingAssumption` (options are display options, no icon and no menu is
`None`) for the tray; `SettingsAssumption`, `ForeignAssumption` (a file of this format that was
not written here has fields of their types and does not say yes to the terms) and
`NothingAssumption` for the settings; for `Meter`, `CoreAssumption` and `BackoffAssumption`
(constants in range, the TTL below every interval, the shifted backoff a positive number),
`NoSnapshotAssumption`, `LoopAssumption`, `MeterAssumption`. TLC evaluates them in every run of
their module.

Every invariant and every action property that a passing run checks is now a theorem. Only
model-checked: the liveness properties (`WakeIsTaken`, `FollowsSource`, `Recovers`,
`SelfHeals`, `ApplyEnds`), which need fairness and `ENABLED`, out of the prover's reach. What
the runs `rejected_key` and `tray_deadlock` refute is not proved, being false.

## 5. Not modelled

- Two updates of the settings on two threads: every caller of `SettingsState::update` runs
  on the main thread today.
- The steps of the wizard and the form of the Settings window (`wizard.ts`,
  `settings-view.ts`). They call the commands that `Meter` and `Settings` have, but they
  keep a step, a source and a checkbox of their own, which the answer to their first
  question overwrites when it comes late (`wizard.ts:414-427`); the popover's first pull of
  settings and state has the same race with the first events (`popover-view.ts:168-196`).
  Both need a model of a web view's calls in flight: in the plan.
- The placement of windows and of the popover, and the timers that rewrite its countdowns:
  layout and I/O.
- File modes but for the copy of the bridge, and the schema version of the recorded reading.
- Floating-point error where nothing is half way between two figures: quotients are exact
  in comparisons, and a double beside a tie is one of `Short` and `Long`. A percentage of
  claude.ai is a whole number, so the prompt's `{:.0}` of one meets no tie. Amounts whose
  exponent does not fit (`format_money`).
- The wizard run again by hand: it offers nothing by itself.
- Readings of another source that belong to an earlier cycle, for the notifier: `Notify`
  takes readings in order.
- Rate-limit headers, the base address, cookie formats, keychains, autostart, the demo
  server: data formats, external services or test infrastructure. Where they can fail, the
  failure is a fault of `PollLoop`.

## 6. Plan

1. `SchedulerCore`, `PollLoop`, `Meter`: the polling and what interferes with it. *Done.*
2. `Notify`: which crossings and resets are told. *Done*, but for readings out of order.
3. `Freshness`, `AtomicFile`, `Statusline`: the merge and the processes that race with
   it. *Done.* Left: the loop of `PollLoop` as one more reader of the file.
4. `Pacing`, `Snapshot`, `Icon`, `TrayModel`, `Popover`, `Readings`: what is shown of a
   reading. *Done.*
5. `Tray`: how it gets there, on two threads, with failures. *Done.* Left: `Meter`'s commands
   as its callers.
6. `Settings`, `Installation`: the files a launch finds and leaves. *Done.*
7. `WebView`: the wizard's steps and the popover's first pull, with answers and events that
   arrive in any order.
8. Refinement: an abstract *gated, spaced fetcher* that `Meter` implements, an abstract
   wake-up channel that `permit` and the slices implement, and an abstract display (the
   screen shows the last state applied) that `Tray` implements.
9. Proofs: all the safety properties. *Done.* Left: that `Statusline`'s writes implement an
   atomic replacement while no two bridges overlap, and the refinements of item 8.

## 7. Running it

    tlc -workers 2 -config MCMeterConsent.cfg MCMeter.tla
    tlc -workers 2 -config MCNotify.cfg MCNotify.tla
    tlc -workers 2 -config MCStatusline.cfg MCStatusline.tla
    tlc -workers 2 -config MCReadings.cfg MCReadings.tla
    tlc -workers 2 -config MCTray.cfg MCTray.tla
    tlc -workers 2 -config MCSettings.cfg MCSettings.tla
    tlc -workers 2 -config MCInstallation.cfg Installation.tla
    tlapm MeterProofs.tla

and likewise for the other configurations of `MCMeter` and the other `...Proofs` modules.
