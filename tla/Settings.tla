------------------------------- MODULE Settings -------------------------------
(***************************************************************************)
(* The settings of the app over its launches (src-tauri/src/settings.rs):  *)
(* the file they are kept in, their copy in memory, the switches and the   *)
(* status-line bridge's config that follow them, and the first-run signal  *)
(* that the file's absence gives (wizard.rs).  Every command that changes  *)
(* a setting runs on the main thread, so one at a time; the poll loop only *)
(* reads the switches.                                                     *)
(*                                                                         *)
(* The process may end between any two steps, any write may fail, and      *)
(* between two launches the file may be lost, damaged or replaced by that  *)
(* of another build.                                                       *)
(***************************************************************************)
EXTENDS Integers

CONSTANTS
    None,           \* no file
    Rests,          \* the values of all the settings nothing here depends on, as one
    DefaultRest,    \* their default
    DaysAsked,      \* what set_weekly_pace_days may be called with
    ThresholdsAsked,\* what set_thresholds may be called with
    ForeignFiles,   \* what the settings file may be found to hold
    MaxLogBytes,    \* MAX_LOG_BYTES
    EntrySizes,     \* the sizes of a logged response
    MaxFailures,    \* bound on the failing writes of a behaviour
    MaxEdits        \* bound on the changes to the file from outside

ASSUME SettingsAssumption ==
    /\ DefaultRest \in Rests /\ DaysAsked \subseteq Int
    /\ MaxLogBytes \in Nat /\ EntrySizes \subseteq Nat
    /\ MaxFailures \in Nat /\ MaxEdits \in Nat
    /\ ThresholdsAsked \subseteq Int \X Int

VARIABLES
    file,       \* settings.json: None, or its version and the fields it has
    mirror,     \* statusline-config.json
    running,    \* whether the app runs
    settings,   \* SettingsState: the settings in memory
    gate,       \* ConsentGate, the switch the transport reads
    sink,       \* ResponseLog.enabled, the switch the response log reads
    firstRun,   \* FirstRunState: the wizard is still to be opened by itself
    window,     \* the Settings window: closed, loaded, told to run the wizard, ...
    ui,         \* the main thread: the command's next step, the settings it will store
    entry,      \* the poll loop: the size of a response past the sink's check, or 0
    log,        \* the bytes in api-responses.log
    failures,   \* how many writes failed
    edits,      \* how often the file was changed from outside
    answer,     \* history: what the user last answered to the terms
    unsaved,    \* history: that answer is not in the file
    stale,      \* history: the files whose last write failed, and a lost signal
    found,      \* history: whether there was a file at this launch
    offers,     \* history: how often the wizard opened by itself in this process
    late        \* history: the entries logged since logging was turned off

files == <<file, mirror, log>>
switches == <<gate, sink, firstRun>>
history == <<answer, unsaved, stale, found, offers, late>>
vars == <<files, running, settings, switches, window, ui, entry, failures, edits, history>>

UiPoints == {"idle", "publish", "update", "save", "mirror"}

\* "offering": the wizard is shown and wizard_mark_offered is on its way.
Windows == {"closed", "loaded", "told", "offering", "wizard"}

-----------------------------------------------------------------------------
\* AppSettings

Clamp(n, low, high) == IF n < low THEN low ELSE IF high < n THEN high ELSE n

\* What each field may hold, and so what a file of this format has to hold there.
Type ==
    [tos |-> BOOLEAN, debug |-> BOOLEAN, days |-> Int, tracking |-> BOOLEAN,
     warning |-> Int, critical |-> Int, rest |-> Rests]

AppSettings ==
    [tos : BOOLEAN, debug : BOOLEAN, days : Int, tracking : BOOLEAN,
     warning : Int, critical : Int, rest : Rests]

Default ==
    [tos |-> FALSE, debug |-> FALSE, days |-> 7, tracking |-> TRUE,
     warning |-> 75, critical |-> 90, rest |-> DefaultRest]

\* Both thresholds into 0..100, critical raised to warning, the days into 5..7.
Normalize(s) ==
    LET warning == Clamp(s.warning, 0, 100)
        critical == Clamp(s.critical, 0, 100)
    IN  [s EXCEPT !.warning = warning,
                  !.critical = IF critical < warning THEN warning ELSE critical,
                  !.days = Clamp(@, 5, 7)]

Version == 1

\* Mutant of Decode: the version in the envelope is not looked at.
MutDecodeAnyVersion(f) ==
    IF f = None THEN Default
    ELSE [field \in DOMAIN Default |->
             IF field \in DOMAIN f.settings THEN f.settings[field] ELSE Default[field]]

\* A missing, damaged or foreign file is the defaults; a field an older build did
\* not write is its default.
Decode(f) ==
    IF f = None \/ (f # None /\ f.version # Version) THEN Default
    ELSE [field \in DOMAIN Default |->
             IF field \in DOMAIN f.settings THEN f.settings[field] ELSE Default[field]]

Load(f) == Normalize(Decode(f))

Saved(s) == [version |-> Version, settings |-> s]

\* statusline/config.rs: what the bridge reads, and what is written for it.
Mirrored(s) == [schema |-> Version, days |-> s.days, tracking |-> s.tracking]

ReadConfig(m) ==
    IF m = None \/ (m # None /\ m.schema > Version)
    THEN [days |-> Default.days, tracking |-> Default.tracking]
    ELSE [days |-> Clamp(m.days, 5, 7), tracking |-> m.tracking]

\* A file of this format that was not written here does not say yes to the terms; one
\* of another format may say anything.
ASSUME ForeignAssumption ==
    \A f \in ForeignFiles \ {None} :
        f.version = Version =>
            /\ \A field \in DOMAIN f.settings \cap DOMAIN Type : f.settings[field] \in Type[field]
            /\ "tos" \in DOMAIN f.settings => f.settings["tos"] = FALSE

ASSUME NothingAssumption ==
    /\ None \notin [version : {Version}, settings : AppSettings]
    /\ None \notin [schema : {Version}, days : Int, tracking : BOOLEAN]

-----------------------------------------------------------------------------

IdleUi == [pc |-> "idle", next |-> Default]

Init ==
    /\ file \in ForeignFiles /\ mirror = None /\ log = 0
    /\ running = FALSE /\ settings = Default
    /\ gate = FALSE /\ sink = FALSE /\ firstRun = FALSE
    /\ window = "closed" /\ ui = IdleUi /\ entry = 0
    /\ found = FALSE /\ offers = 0 /\ late = 0
    /\ failures = 0 /\ edits = 0
    /\ answer = FALSE /\ unsaved = FALSE /\ stale = {}

\* lib.rs, setup: the file is looked for before it is loaded, the switches are
\* seeded from it, and the mirror is published before anything can change.
Launch ==
    /\ ~running
    /\ running' = TRUE
    /\ settings' = Load(file)
    /\ gate' = settings'.tos /\ sink' = settings'.debug
    /\ firstRun' = (file = None) /\ found' = (file # None)
    /\ window' = "closed" /\ ui' = [IdleUi EXCEPT !.pc = "publish"]
    /\ entry' = 0 /\ offers' = 0 /\ late' = 0
    /\ stale' = stale \ {"signal"}
    /\ UNCHANGED <<files, failures, edits, answer, unsaved>>

\* The process ends, on request or not, and what was in memory is gone.
Quit ==
    /\ running
    /\ running' = FALSE /\ settings' = Default
    /\ gate' = FALSE /\ sink' = FALSE /\ firstRun' = FALSE
    /\ window' = "closed" /\ ui' = IdleUi /\ entry' = 0
    /\ found' = FALSE /\ offers' = 0 /\ late' = 0
    /\ UNCHANGED <<files, failures, edits, answer, unsaved, stale>>

\* Between two launches: removed, damaged, restored, or saved by another build.
Edit(f) ==
    /\ ~running /\ edits < MaxEdits /\ f # file
    /\ edits' = edits + 1
    /\ file' = f
    /\ UNCHANGED <<mirror, log, running, settings, switches, window, ui, entry, failures, history>>

-----------------------------------------------------------------------------
\* SettingsState::update: mutate and normalize under the lock, then save, then mirror.

UiIdle == running /\ ui.pc = "idle"

Update(s) ==
    /\ settings' = Normalize(s)
    /\ ui' = [ui EXCEPT !.pc = "save"]

\* A write succeeds, or fails and leaves the file as it was.
Written(name) == stale' = stale \ {name} /\ UNCHANGED failures
WriteFails(name) ==
    failures < MaxFailures /\ failures' = failures + 1 /\ stale' = stale \cup {name}

Save ==
    /\ running /\ ui.pc = "save"
    /\ ui' = [ui EXCEPT !.pc = "mirror"]
    /\ \/ Written("settings") /\ file' = Saved(settings) /\ unsaved' = (settings.tos # answer)
       \/ WriteFails("settings") /\ UNCHANGED <<file, unsaved>>
    /\ UNCHANGED <<mirror, log, running, settings, switches, window, entry, edits,
                   answer, found, offers, late>>

PublishMirror(point) ==
    /\ running /\ ui.pc = point
    /\ ui' = IdleUi
    /\ \/ Written("mirror") /\ mirror' = Mirrored(settings)
       \/ WriteFails("mirror") /\ UNCHANGED mirror
    /\ UNCHANGED <<file, log, running, settings, switches, window, entry, edits,
                   answer, unsaved, found, offers, late>>

Mirror == PublishMirror("mirror")

\* Mutant of Publish: the mirror waits for the first change.
MutPublishLater ==
    /\ running /\ ui.pc = "publish"
    /\ ui' = IdleUi
    /\ UNCHANGED <<files, running, settings, switches, window, entry, failures, edits, history>>

\* mirroring_with publishes when it is installed.
Publish == PublishMirror("publish")

-----------------------------------------------------------------------------
\* Commands

\* The switch first, the setting in the next step.
Then(s) == ui' = [pc |-> "update", next |-> s]

SetTosAcknowledged(acknowledged) ==
    /\ UiIdle
    /\ gate' = acknowledged
    /\ answer' = acknowledged /\ unsaved' = TRUE
    /\ Then([settings EXCEPT !.tos = acknowledged])
    /\ UNCHANGED <<files, running, settings, sink, firstRun, window, entry, failures, edits,
                   stale, found, offers, late>>

\* Mutant of SetDebugLogging: persisted, for the next launch to pick up.
MutDebugLoggingPersists(enabled) ==
    /\ UiIdle
    /\ late' = 0
    /\ Then([settings EXCEPT !.debug = enabled])
    /\ UNCHANGED <<files, running, settings, switches, window, entry, failures, edits,
                   answer, unsaved, stale, found, offers>>

SetDebugLogging(enabled) ==
    /\ UiIdle
    /\ sink' = enabled
    /\ late' = 0
    /\ Then([settings EXCEPT !.debug = enabled])
    /\ UNCHANGED <<files, running, settings, gate, firstRun, window, entry, failures, edits,
                   answer, unsaved, stale, found, offers>>

UpdateAfterSwitch ==
    /\ running /\ ui.pc = "update"
    /\ Update(ui.next)
    /\ UNCHANGED <<files, running, switches, window, entry, failures, edits, history>>

\* A setter that has no switch to move; what it pushes to the tray afterwards is Tray's.
Store(s) ==
    /\ UiIdle
    /\ Update(s)
    /\ UNCHANGED <<files, running, switches, window, entry, failures, edits, history>>

SetWeeklyPaceDays(days) == Store([settings EXCEPT !.days = days])
SetPaceTrackingEnabled(enabled) == Store([settings EXCEPT !.tracking = enabled])
SetThresholds(asked) == Store([settings EXCEPT !.warning = asked[1], !.critical = asked[2]])
SetRest(rest) == Store([settings EXCEPT !.rest = rest])

\* wizard_complete: the settings are written although nothing changed.
WizardComplete ==
    /\ window = "wizard"
    /\ Store(settings)

-----------------------------------------------------------------------------
\* The Settings window and the wizard in it (settings_window.rs, wizard.ts)

WindowMoves(from, to) ==
    /\ running
    /\ window \in from /\ window' = to
    /\ UNCHANGED <<files, running, settings, sink, gate, ui, entry, edits, answer, unsaved,
                   found, late>>

\* What asks nothing of the signal's record.
JustMoves(from, to) == WindowMoves(from, to) /\ UNCHANGED <<firstRun, failures, stale>>

\* Never a second window; one that was closed is built anew.
OpenSettings == UiIdle /\ JustMoves({"closed"}, "loaded") /\ UNCHANGED offers

\* maybeAutoOpen asks; the answer is acted on in a later step.
AskWizardShouldRun ==
    UiIdle /\ firstRun /\ JustMoves({"loaded"}, "told") /\ UNCHANGED offers

\* The mark is sent, and the wizard opens without waiting for it.
OpenWizard == JustMoves({"told"}, "offering") /\ offers' = offers + 1

\* Mutant of MarkOffered: the signal is left for wizard_complete to clear.
MutMarkOfferedKeepsSignal ==
    UiIdle /\ JustMoves({"offering"}, "wizard") /\ UNCHANGED offers

\* wizard_mark_offered, or the call fails, which is logged and no more.  It was sent
\* before anything the user can do with the wizard, so it is answered before.
MarkOffered ==
    /\ UiIdle /\ WindowMoves({"offering"}, "wizard")
    /\ UNCHANGED offers
    /\ \/ firstRun' = FALSE /\ UNCHANGED <<failures, stale>>
       \/ WriteFails("signal") /\ UNCHANGED firstRun

CloseSettings == JustMoves(Windows \ {"closed", "offering"}, "closed") /\ UNCHANGED offers

-----------------------------------------------------------------------------
\* The response log (debug_log.rs), written by the poll loop.

StartRecord(size) ==
    /\ running /\ sink /\ entry = 0
    /\ entry' = size
    /\ UNCHANGED <<files, running, settings, switches, window, ui, failures, edits, history>>

\* append_entry: a file past its limit is started afresh.
AppendEntry ==
    /\ running /\ entry # 0
    /\ log' = IF log > MaxLogBytes THEN entry ELSE log + entry
    /\ entry' = 0
    /\ late' = IF settings.debug \/ ui.pc = "update" THEN late ELSE late + 1
    /\ UNCHANGED <<file, mirror, running, settings, switches, window, ui, failures, edits,
                   answer, unsaved, stale, found, offers>>

Next ==
    \/ Launch \/ Quit \/ \E f \in ForeignFiles : Edit(f)
    \/ \E b \in BOOLEAN : SetTosAcknowledged(b) \/ SetDebugLogging(b) \/ SetPaceTrackingEnabled(b)
    \/ \E days \in DaysAsked : SetWeeklyPaceDays(days)
    \/ \E asked \in ThresholdsAsked : SetThresholds(asked)
    \/ \E rest \in Rests : SetRest(rest)
    \/ UpdateAfterSwitch \/ Save \/ Mirror \/ Publish
    \/ OpenSettings \/ AskWizardShouldRun \/ OpenWizard \/ MarkOffered \/ CloseSettings
    \/ WizardComplete
    \/ \E size \in EntrySizes : StartRecord(size)
    \/ AppendEntry

Spec == Init /\ [][Next]_vars

-----------------------------------------------------------------------------

\* Consent is only ever the user's: neither the switch nor what the next launch
\* would take from the file says yes unless the last answer given in the app was
\* yes, through damaged, missing and foreign files, upgrades and ends of the
\* process ("an existing install upgrading into this version arrives with consent
\* withheld", settings.rs).  An answer that could not be written is lost.
ConsentIsTheUsers ==
    (running /\ gate) \/ Load(file).tos => answer \/ unsaved

\* Between two commands everything that follows the settings agrees with them: the
\* switches, and, unless its last write failed, the file the next launch loads and
\* the config the bridge paces by.
CopiesAgree ==
    UiIdle =>
        /\ gate = settings.tos /\ sink = settings.debug
        /\ settings = Normalize(settings)
        /\ "settings" \notin stale => Load(file) = settings
        /\ "mirror" \notin stale =>
              ReadConfig(mirror) = [days |-> settings.days, tracking |-> settings.tracking]

\* The wizard opens by itself once in a process at most, however often the window
\* is rebuilt, unless the call that records it failed ("best-effort", wizard.ts),
\* and never once there has been a settings file (wizard.rs).
WizardOffersOnce ==
    /\ "signal" \notin stale => offers <= 1
    /\ running /\ found => offers = 0

\* The response log holds no more than its limit and one response, over all
\* launches, and at most the response in flight is logged once logging is off.
DebugLogIsBounded ==
    /\ \A size \in EntrySizes : (\A other \in EntrySizes : other <= size) =>
          log <= MaxLogBytes + size
    /\ late <= 1
=============================================================================
