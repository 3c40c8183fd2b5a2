---------------------------- MODULE SettingsProofs ----------------------------
(***************************************************************************)
(* The invariants of Settings, for every value of its constants: however   *)
(* many failures, changes from outside, launches and sizes there are.      *)
(***************************************************************************)
EXTENDS Settings, TLAPS

Fields == {"tos", "debug", "days", "tracking", "warning", "critical", "rest"}

IsNormal(s) ==
    /\ s["days"] \in 5..7
    /\ s["warning"] \in 0..100 /\ s["critical"] \in s["warning"]..100

-----------------------------------------------------------------------------
\* AppSettings

LEMMA DefaultIsSettings ==
    Default \in AppSettings /\ IsNormal(Default) /\ Default.tos = FALSE /\ Default.debug = FALSE
    /\ DOMAIN Default = Fields
BY SettingsAssumption DEF Default, AppSettings, IsNormal, Fields

\* One field takes another integer.
LEMMA OneField ==
    ASSUME NEW s, s \in AppSettings, NEW name \in {"days", "warning", "critical"}, NEW n \in Int
    PROVE  /\ [s EXCEPT ![name] = n] \in AppSettings
           /\ [s EXCEPT ![name] = n][name] = n
           /\ \A field \in Fields \ {name} : [s EXCEPT ![name] = n][field] = s[field]
           /\ s[name] = n => [s EXCEPT ![name] = n] = s
BY DEF AppSettings, Fields

\* Normalising brings the days and the thresholds into their ranges, and nothing else
\* changes; what is in range stays as it is.
LEMMA NormalizeIsNormal ==
    ASSUME NEW s, s \in AppSettings
    PROVE  /\ Normalize(s) \in AppSettings /\ IsNormal(Normalize(s))
           /\ Normalize(s).tos = s.tos /\ Normalize(s).debug = s.debug
           /\ IsNormal(s) => Normalize(s) = s
<1>. DEFINE warning == Clamp(s["warning"], 0, 100)
            asked == Clamp(s["critical"], 0, 100)
            critical == IF asked < warning THEN warning ELSE asked
            days == Clamp(s["days"], 5, 7)
            first == [s EXCEPT !["warning"] = warning]
            second == [first EXCEPT !["critical"] = critical]
            third == [second EXCEPT !["days"] = days]
<1>1. /\ warning \in 0..100 /\ critical \in warning..100 /\ days \in 5..7
      /\ IsNormal(s) => warning = s["warning"] /\ critical = s["critical"] /\ days = s["days"]
  BY DEF Clamp, AppSettings, IsNormal
<1>2. Normalize(s) = third
  BY DEF Normalize
<1>. HIDE DEF warning, asked, critical, days
<1>3. warning \in Int /\ critical \in Int /\ days \in Int
  BY <1>1
<1>4. /\ first \in AppSettings /\ first["warning"] = warning
      /\ \A field \in Fields \ {"warning"} : first[field] = s[field]
      /\ IsNormal(s) => first = s
  BY <1>1, <1>3, OneField
<1>. HIDE DEF first
<1>5. /\ second \in AppSettings /\ second["critical"] = critical
      /\ \A field \in Fields \ {"critical"} : second[field] = first[field]
      /\ IsNormal(s) => second = s
  BY <1>1, <1>3, <1>4, OneField
<1>. HIDE DEF second
<1>6. /\ third \in AppSettings /\ third["days"] = days
      /\ \A field \in Fields \ {"days"} : third[field] = second[field]
      /\ IsNormal(s) => third = s
  BY <1>1, <1>3, <1>5, OneField
<1>. HIDE DEF third
<1>. QED
  BY <1>1, <1>2, <1>4, <1>5, <1>6 DEF IsNormal, Fields

\* What is saved is what the next launch loads.
LEMMA SavedIsLoaded ==
    ASSUME NEW s, s \in AppSettings, IsNormal(s)
    PROVE  Decode(Saved(s)) = s /\ Load(Saved(s)) = s
<1>1. Saved(s).version = Version /\ Saved(s).settings = s /\ Saved(s) # None
  BY NothingAssumption DEF Saved
<1>2. Decode(Saved(s)) = [field \in Fields |-> s[field]]
  BY <1>1, DefaultIsSettings DEF Decode, AppSettings
<1>3. [field \in Fields |-> s[field]] = s
  BY DEF AppSettings, Fields
<1>. QED
  BY <1>2, <1>3, NormalizeIsNormal DEF Load

LEMMA MirrorIsRead ==
    ASSUME NEW s, s \in AppSettings, IsNormal(s)
    PROVE  ReadConfig(Mirrored(s)) = [days |-> s.days, tracking |-> s.tracking]
<1>1. Mirrored(s) # None
  BY NothingAssumption DEF Mirrored, AppSettings
<1>2. /\ Mirrored(s).schema = Version /\ ~(Version > Version)
      /\ Mirrored(s).days = s.days /\ Mirrored(s).tracking = s.tracking
  BY DEF Mirrored, Version
<1>3. Clamp(s.days, 5, 7) = s.days
  BY DEF Clamp, IsNormal
<1>. QED
  BY <1>1, <1>2, <1>3 DEF ReadConfig

\* A file found decodes to settings that withhold consent.
LEMMA ForeignWithholds ==
    ASSUME NEW f \in ForeignFiles
    PROVE  Decode(f) \in AppSettings /\ Load(f).tos = FALSE
<1>1. CASE f = None \/ f.version # Version
  <2>1. Decode(f) = Default
    BY <1>1 DEF Decode
  <2>. QED
    BY <2>1, DefaultIsSettings, NormalizeIsNormal DEF Load
<1>2. CASE f # None /\ f.version = Version
  <2>. DEFINE s == [field \in Fields |->
                      IF field \in DOMAIN f.settings THEN f.settings[field] ELSE Default[field]]
  <2>1. Decode(f) = s
    BY <1>2, DefaultIsSettings DEF Decode
  <2>2. /\ "tos" \in DOMAIN f.settings => f.settings["tos"] = FALSE
        /\ \A field \in DOMAIN f.settings \cap DOMAIN Type : f.settings[field] \in Type[field]
    BY <1>2, ForeignAssumption
  <2>3. DOMAIN Type = Fields /\ \A field \in Fields : Default[field] \in Type[field]
    BY SettingsAssumption DEF Type, Default, Fields
  <2>4. \A field \in Fields : s[field] \in Type[field]
    BY <2>2, <2>3
  <2>5. s.tos = FALSE
    BY <2>2, DefaultIsSettings DEF Fields
  <2>6. s \in AppSettings
    BY <2>4 DEF AppSettings, Fields, Type
  <2>. QED
    BY <2>1, <2>5, <2>6, NormalizeIsNormal DEF Load
<1>. QED
  BY <1>1, <1>2

-----------------------------------------------------------------------------
\* The inductive invariant

\* What is in memory is always normal, and what a command will store has its type.
Memory ==
    /\ settings \in AppSettings /\ IsNormal(settings)
    /\ DOMAIN ui = {"pc", "next"} /\ ui.pc \in UiPoints
    /\ ui.pc = "update" => ui.next \in AppSettings
    /\ ~running => ui.pc = "idle"

\* The switches are ahead of the settings by the one step of a command.
Switches ==
    /\ ui.pc = "update" => gate = ui.next.tos /\ sink = ui.next.debug
    /\ ui.pc # "update" => gate = settings.tos /\ sink = settings.debug

\* The files are behind the settings from the update to their write.
Files ==
    /\ Decode(file) \in AppSettings
    /\ running /\ ui.pc \in {"idle", "mirror", "publish"} /\ "settings" \notin stale =>
          Load(file) = settings
    /\ running /\ ui.pc = "idle" /\ "mirror" \notin stale =>
          ReadConfig(mirror) = [days |-> settings.days, tracking |-> settings.tracking]

Consent == answer \in BOOLEAN /\ unsaved \in BOOLEAN /\ ConsentIsTheUsers

\* The signal outlives the question, and the wizard only while its mark is on its way.
Wizard ==
    /\ offers \in Nat
    /\ firstRun \/ window = "told" => ~found
    /\ found => offers = 0
    /\ window = "told" => firstRun
    /\ "signal" \notin stale =>
          /\ offers <= 1
          /\ firstRun /\ window # "offering" => offers = 0

\* One response at most is past the check, and is the only one logged late.
Log ==
    /\ log \in Nat /\ entry \in EntrySizes \cup {0} /\ late \in 0..1
    /\ sink => late = 0
    /\ late = 1 => entry = 0
    /\ \A size \in EntrySizes : (\A other \in EntrySizes : other <= size) =>
          log <= MaxLogBytes + size

SettingsInv == Memory /\ Switches /\ Files /\ Consent /\ Wizard /\ Log

LEMMA IdleUiShape == DOMAIN IdleUi = {"pc", "next"} /\ IdleUi.pc = "idle" /\ IdleUi.next = Default
BY DEF IdleUi

LEMMA NormalLoad ==
    ASSUME NEW f, Decode(f) \in AppSettings
    PROVE  Load(f) \in AppSettings /\ IsNormal(Load(f))
BY NormalizeIsNormal DEF Load

LEMMA InitInv == ASSUME Init PROVE SettingsInv
<1>1. /\ Decode(file) \in AppSettings /\ Load(file).tos = FALSE
      /\ settings = Default /\ ui = IdleUi /\ ~running
  <2>1. file \in ForeignFiles /\ settings = Default /\ ui = IdleUi /\ ~running
    BY DEF Init
  <2>. QED
    BY <2>1, ForeignWithholds
<1>2. Memory
  BY <1>1, DefaultIsSettings, IdleUiShape DEF Memory, UiPoints
<1>3. Switches
  BY <1>1, DefaultIsSettings, IdleUiShape DEF Switches, Init
<1>4. Files /\ Wizard
  BY <1>1 DEF Files, Wizard, Init
<1>6. Consent
  <2>1. running = FALSE /\ answer = FALSE /\ unsaved = FALSE
    BY DEF Init
  <2>. QED
    BY <1>1, <2>1 DEF Consent, ConsentIsTheUsers
<1>5. Log
  <2>1. /\ log = 0 /\ entry = 0 /\ late = 0
    BY DEF Init
  <2>. QED
    BY <2>1, SettingsAssumption DEF Log
<1>. QED
  BY <1>2, <1>3, <1>4, <1>5, <1>6 DEF SettingsInv

-----------------------------------------------------------------------------
\* Each step keeps it

LEMMA LaunchInv == ASSUME SettingsInv, Launch PROVE SettingsInv'
<1>1. /\ running' = TRUE /\ settings' = Load(file)
      /\ gate' = settings'.tos /\ sink' = settings'.debug
      /\ ui' = [IdleUi EXCEPT !.pc = "publish"]
      /\ file' = file /\ UNCHANGED <<answer, unsaved, mirror>>
      /\ stale' = stale \ {"signal"}
  BY DEF Launch, files
<1>2. Decode(file) \in AppSettings
  BY DEF SettingsInv, Files
<1>3. settings' \in AppSettings /\ IsNormal(settings')
  BY <1>1, <1>2, NormalLoad
<1>4. ui'.pc = "publish" /\ DOMAIN ui' = {"pc", "next"}
  BY <1>1, IdleUiShape
<1>5. Memory'
  BY <1>1, <1>3, <1>4 DEF Memory, IsNormal, UiPoints
<1>6. Switches' /\ Files'
  BY <1>1, <1>2, <1>4 DEF Switches, Files
<1>7. Consent'
  <2>1. gate' = Load(file).tos /\ Load(file).tos \in BOOLEAN
    BY <1>1, <1>3 DEF AppSettings
  <2>. QED
    BY <1>1, <2>1 DEF SettingsInv, Consent, ConsentIsTheUsers
<1>8. Wizard'
  <2>1. firstRun' = (file = None) /\ found' = (file # None) /\ window' = "closed" /\ offers' = 0
    BY DEF Launch
  <2>2. CASE file = None
    <3>1. found' = FALSE
      BY <2>1, <2>2
    <3>. QED
      BY <2>1, <3>1 DEF Wizard
  <2>3. CASE file # None
    <3>1. firstRun' = FALSE
      BY <2>1, <2>3
    <3>. QED
      BY <2>1, <3>1 DEF Wizard
  <2>. QED
    BY <2>2, <2>3
<1>9. Log'
  <2>1. entry' = 0 /\ late' = 0 /\ log' = log
    BY DEF Launch, files
  <2>. QED
    BY <2>1 DEF SettingsInv, Log
<1>. QED
  BY <1>5, <1>6, <1>7, <1>8, <1>9 DEF SettingsInv

LEMMA QuitInv == ASSUME SettingsInv, Quit PROVE SettingsInv'
<1>1. /\ running' = FALSE /\ settings' = Default
      /\ gate' = FALSE /\ sink' = FALSE /\ ui' = IdleUi
      /\ file' = file /\ UNCHANGED <<answer, unsaved>>
  BY DEF Quit, files
<1>2. Memory' /\ Switches'
  BY <1>1, DefaultIsSettings, IdleUiShape DEF Memory, Switches, IsNormal, UiPoints
<1>3. Files' /\ Consent'
  BY <1>1 DEF SettingsInv, Files, Consent, ConsentIsTheUsers
<1>4. Wizard' /\ Log'
  BY DEF Quit, files, SettingsInv, Wizard, Log
<1>. QED
  BY <1>2, <1>3, <1>4 DEF SettingsInv

LEMMA EditInv == ASSUME SettingsInv, NEW f \in ForeignFiles, Edit(f) PROVE SettingsInv'
<1>1. /\ ~running /\ file' = f
      /\ UNCHANGED <<mirror, log, running, settings, switches, window, ui, entry, history>>
  BY DEF Edit
<1>2. Decode(file') \in AppSettings /\ Load(file').tos = FALSE
  BY <1>1, ForeignWithholds
<1>3. Files' /\ Consent'
  BY <1>1, <1>2 DEF SettingsInv, Files, Consent, ConsentIsTheUsers, history, switches
<1>4. Memory' /\ Switches' /\ Wizard' /\ Log'
  BY <1>1 DEF SettingsInv, Memory, IsNormal, Switches, Wizard, Log, history, switches
<1>. QED
  BY <1>3, <1>4 DEF SettingsInv

\* The two switches are moved with the setting that is to follow.
LEMMA ThenInv ==
    ASSUME SettingsInv, UiIdle, NEW s \in AppSettings, Then(s), UNCHANGED <<running, settings>>
    PROVE  /\ Memory' /\ ui'.pc = "update" /\ ui'.next = s /\ ui.pc = "idle"
           /\ gate = settings.tos /\ sink = settings.debug
BY DEF Then, UiIdle, SettingsInv, Memory, Switches, IsNormal, UiPoints

LEMMA SetTosInv ==
    ASSUME SettingsInv, NEW b \in BOOLEAN, SetTosAcknowledged(b)
    PROVE  SettingsInv'
<1>1. /\ UiIdle /\ gate' = b /\ answer' = b /\ unsaved' = TRUE
      /\ Then([settings EXCEPT !.tos = b])
      /\ UNCHANGED <<files, running, settings, sink, firstRun, window, entry, stale, found,
                     offers, late>>
  BY DEF SetTosAcknowledged
<1>2. settings \in AppSettings
  BY DEF SettingsInv, Memory
<1>3. /\ [settings EXCEPT !.tos = b] \in AppSettings
      /\ [settings EXCEPT !.tos = b].tos = b
      /\ [settings EXCEPT !.tos = b].debug = settings.debug
  BY <1>2 DEF AppSettings
<1>4. Memory' /\ Switches'
  BY <1>1, <1>3, ThenInv DEF Switches
<1>5. Files' /\ Consent'
  BY <1>1, <1>3, ThenInv DEF SettingsInv, Files, Consent, ConsentIsTheUsers, files
<1>6. Wizard' /\ Log'
  BY <1>1 DEF SettingsInv, Wizard, Log, files
<1>. QED
  BY <1>4, <1>5, <1>6 DEF SettingsInv

LEMMA SetDebugInv ==
    ASSUME SettingsInv, NEW b \in BOOLEAN, SetDebugLogging(b)
    PROVE  SettingsInv'
<1>1. /\ UiIdle /\ sink' = b /\ late' = 0
      /\ Then([settings EXCEPT !.debug = b])
      /\ UNCHANGED <<files, running, settings, gate, firstRun, window, entry, answer, unsaved,
                     stale, found, offers>>
  BY DEF SetDebugLogging
<1>2. settings \in AppSettings
  BY DEF SettingsInv, Memory
<1>3. /\ [settings EXCEPT !.debug = b] \in AppSettings
      /\ [settings EXCEPT !.debug = b].debug = b
      /\ [settings EXCEPT !.debug = b].tos = settings.tos
  BY <1>2 DEF AppSettings
<1>4. Memory' /\ Switches'
  BY <1>1, <1>3, ThenInv DEF Switches
<1>5. Files' /\ Consent'
  BY <1>1, <1>3, ThenInv DEF SettingsInv, Files, Consent, ConsentIsTheUsers, files
<1>6. Wizard' /\ Log'
  BY <1>1 DEF SettingsInv, Wizard, Log, files
<1>. QED
  BY <1>4, <1>5, <1>6 DEF SettingsInv

\* A setting is stored, with the switches already where it puts them.
LEMMA UpdateInv ==
    ASSUME SettingsInv, running, NEW s \in AppSettings, Update(s),
           gate = s.tos, sink = s.debug,
           UNCHANGED <<files, running, switches, window, entry, history>>
    PROVE  SettingsInv'
<1>1. settings' \in AppSettings /\ IsNormal(settings') /\ settings'.tos = s.tos
      /\ settings'.debug = s.debug
  BY NormalizeIsNormal DEF Update
<1>2. ui'.pc = "save" /\ DOMAIN ui' = {"pc", "next"}
  BY DEF Update, SettingsInv, Memory
<1>3. Memory' /\ Switches'
  BY <1>1, <1>2 DEF Memory, Switches, IsNormal, UiPoints, switches
<1>4. Files' /\ Consent'
  BY <1>2 DEF SettingsInv, Files, Consent, ConsentIsTheUsers, files, switches, history
<1>5. Wizard' /\ Log'
  BY DEF SettingsInv, Wizard, Log, files, switches, history
<1>. QED
  BY <1>3, <1>4, <1>5 DEF SettingsInv

LEMMA StoreInv ==
    ASSUME SettingsInv, NEW s \in AppSettings, s.tos = settings.tos, s.debug = settings.debug,
           Store(s)
    PROVE  SettingsInv'
BY UpdateInv DEF Store, UiIdle, SettingsInv, Switches

LEMMA SetterInv ==
    ASSUME SettingsInv,
           \/ \E days \in DaysAsked : SetWeeklyPaceDays(days)
           \/ \E enabled \in BOOLEAN : SetPaceTrackingEnabled(enabled)
           \/ \E asked \in ThresholdsAsked : SetThresholds(asked)
           \/ \E rest \in Rests : SetRest(rest)
           \/ WizardComplete
    PROVE  SettingsInv'
<1>1. settings \in AppSettings
  BY DEF SettingsInv, Memory
<1>2. ASSUME NEW days \in DaysAsked, SetWeeklyPaceDays(days) PROVE SettingsInv'
  <2>. DEFINE s == [settings EXCEPT !.days = days]
  <2>1. s \in AppSettings /\ s.tos = settings.tos /\ s.debug = settings.debug
    BY <1>1, SettingsAssumption DEF AppSettings
  <2>. QED
    BY <1>2, <2>1, StoreInv DEF SetWeeklyPaceDays
<1>3. ASSUME NEW enabled \in BOOLEAN, SetPaceTrackingEnabled(enabled) PROVE SettingsInv'
  <2>. DEFINE s == [settings EXCEPT !.tracking = enabled]
  <2>1. s \in AppSettings /\ s.tos = settings.tos /\ s.debug = settings.debug
    BY <1>1 DEF AppSettings
  <2>. QED
    BY <1>3, <2>1, StoreInv DEF SetPaceTrackingEnabled
<1>4. ASSUME NEW asked \in ThresholdsAsked, SetThresholds(asked) PROVE SettingsInv'
  <2>. DEFINE first == [settings EXCEPT !.warning = asked[1]]
              s == [first EXCEPT !.critical = asked[2]]
  <2>1. asked[1] \in Int /\ asked[2] \in Int
    BY SettingsAssumption
  <2>2. first \in AppSettings /\ first.tos = settings.tos /\ first.debug = settings.debug
    BY <1>1, <2>1 DEF AppSettings
  <2>3. [settings EXCEPT !.warning = asked[1], !.critical = asked[2]] = s
    OBVIOUS
  <2>. HIDE DEF first
  <2>4. s \in AppSettings /\ s.tos = first.tos /\ s.debug = first.debug
    BY <2>1, <2>2 DEF AppSettings
  <2>. QED
    BY <1>4, <2>2, <2>3, <2>4, StoreInv DEF SetThresholds
<1>5. ASSUME NEW rest \in Rests, SetRest(rest) PROVE SettingsInv'
  <2>. DEFINE s == [settings EXCEPT !.rest = rest]
  <2>1. s \in AppSettings /\ s.tos = settings.tos /\ s.debug = settings.debug
    BY <1>1 DEF AppSettings
  <2>. QED
    BY <1>5, <2>1, StoreInv DEF SetRest
<1>6. ASSUME WizardComplete PROVE SettingsInv'
  BY <1>1, <1>6, StoreInv DEF WizardComplete
<1>. QED
  BY <1>2, <1>3, <1>4, <1>5, <1>6

LEMMA UpdateAfterSwitchInv == ASSUME SettingsInv, UpdateAfterSwitch PROVE SettingsInv'
<1>1. running /\ ui.pc = "update" /\ ui.next \in AppSettings
  BY DEF UpdateAfterSwitch, SettingsInv, Memory
<1>2. gate = ui.next.tos /\ sink = ui.next.debug
  BY <1>1 DEF SettingsInv, Switches
<1>. QED
  BY <1>1, <1>2, UpdateInv DEF UpdateAfterSwitch

LEMMA SaveInv == ASSUME SettingsInv, Save PROVE SettingsInv'
<1>1. /\ running /\ ui.pc = "save" /\ ui' = [ui EXCEPT !.pc = "mirror"]
      /\ UNCHANGED <<mirror, log, running, settings, switches, window, entry, answer, found,
                     offers, late>>
  BY DEF Save
<1>2. /\ settings \in AppSettings /\ IsNormal(settings) /\ DOMAIN ui = {"pc", "next"}
      /\ gate = settings.tos /\ sink = settings.debug
  BY <1>1 DEF SettingsInv, Memory, Switches
<1>3. ui'.pc = "mirror" /\ DOMAIN ui' = {"pc", "next"}
  BY <1>1, <1>2
<1>4. Memory' /\ Switches'
  BY <1>1, <1>2, <1>3 DEF Memory, Switches, IsNormal, UiPoints, switches
<1>5. Wizard' /\ Log'
  <2>1. "signal" \in stale <=> "signal" \in stale'
    BY DEF Save, Written, WriteFails
  <2>. QED
    BY <1>1, <2>1 DEF SettingsInv, Wizard, Log, switches
<1>6. CASE Written("settings") /\ file' = Saved(settings) /\ unsaved' = (settings.tos # answer)
  <2>1. Decode(file') = settings /\ Load(file') = settings
    BY <1>2, <1>6, SavedIsLoaded
  <2>2. Files'
    BY <1>1, <1>2, <1>3, <2>1 DEF Files
  <2>3. Consent'
    BY <1>1, <1>2, <1>6, <2>1 DEF SettingsInv, Consent, ConsentIsTheUsers, AppSettings, switches
  <2>. QED
    BY <1>4, <1>5, <2>2, <2>3 DEF SettingsInv
<1>7. CASE WriteFails("settings") /\ UNCHANGED <<file, unsaved>>
  <2>1. "settings" \in stale'
    BY <1>7 DEF WriteFails
  <2>2. Files' /\ Consent'
    BY <1>1, <1>3, <1>7, <2>1 DEF SettingsInv, Files, Consent, ConsentIsTheUsers, switches
  <2>. QED
    BY <1>4, <1>5, <2>2 DEF SettingsInv
<1>. QED
  BY <1>6, <1>7 DEF Save

LEMMA PublishMirrorInv ==
    ASSUME SettingsInv, NEW point \in {"mirror", "publish"}, PublishMirror(point)
    PROVE  SettingsInv'
<1>1. /\ running /\ ui.pc = point /\ ui' = IdleUi
      /\ UNCHANGED <<file, log, running, settings, switches, window, entry, answer, unsaved,
                     found, offers, late>>
  BY DEF PublishMirror
<1>2. /\ settings \in AppSettings /\ IsNormal(settings)
      /\ gate = settings.tos /\ sink = settings.debug
      /\ "settings" \notin stale => Load(file) = settings
      /\ Decode(file) \in AppSettings
  BY <1>1 DEF SettingsInv, Memory, Switches, Files
<1>3. Memory' /\ Switches'
  BY <1>1, <1>2, IdleUiShape DEF Memory, Switches, IsNormal, UiPoints, switches
<1>4. Consent' /\ Wizard' /\ Log'
  <2>1. "signal" \in stale <=> "signal" \in stale'
    BY DEF PublishMirror, Written, WriteFails
  <2>. QED
    BY <1>1, <2>1 DEF SettingsInv, Consent, ConsentIsTheUsers, Wizard, Log, switches
<1>5. \/ stale' = stale \ {"mirror"} /\ mirror' = Mirrored(settings)
      \/ stale' = stale \cup {"mirror"}
  BY DEF PublishMirror, Written, WriteFails
<1>6. Files'
  BY <1>1, <1>2, <1>5, MirrorIsRead DEF Files
<1>. QED
  BY <1>3, <1>4, <1>6 DEF SettingsInv

LEMMA WindowInv ==
    ASSUME SettingsInv,
           \/ OpenSettings \/ AskWizardShouldRun \/ OpenWizard \/ MarkOffered
           \/ CloseSettings
    PROVE  SettingsInv'
<1>1. /\ UNCHANGED <<files, running, settings, sink, gate, ui, entry, answer, unsaved, found,
                     late>>
      /\ running
      /\ stale' = stale \/ stale' = stale \cup {"signal"}
  BY DEF OpenSettings, AskWizardShouldRun, OpenWizard, MarkOffered, CloseSettings, JustMoves,
         WindowMoves, WriteFails
<1>2. Memory' /\ Switches' /\ Files' /\ Consent' /\ Log'
  BY <1>1 DEF SettingsInv, Memory, IsNormal, Switches, Files, Consent, ConsentIsTheUsers, Log, files
<1>3. ASSUME OpenSettings \/ AskWizardShouldRun \/ CloseSettings PROVE Wizard'
  <2>1. /\ window # "offering" /\ window' # "offering"
        /\ UNCHANGED <<firstRun, stale, offers>>
        /\ window' = "told" => firstRun
    BY <1>3 DEF OpenSettings, AskWizardShouldRun, CloseSettings, JustMoves, WindowMoves, Windows
  <2>. QED
    BY <1>1, <2>1 DEF SettingsInv, Wizard
<1>4. ASSUME OpenWizard PROVE Wizard'
  <2>1. /\ window = "told" /\ window' = "offering" /\ offers' = offers + 1
        /\ UNCHANGED <<firstRun, stale>>
    BY <1>4 DEF OpenWizard, JustMoves, WindowMoves
  <2>. QED
    BY <1>1, <2>1 DEF SettingsInv, Wizard
<1>5. ASSUME MarkOffered PROVE Wizard'
  <2>1. /\ window' = "wizard" /\ offers' = offers
        /\ \/ firstRun' = FALSE /\ stale' = stale
           \/ firstRun' = firstRun /\ stale' = stale \cup {"signal"}
    BY <1>5 DEF MarkOffered, WindowMoves, WriteFails
  <2>. QED
    BY <1>1, <2>1 DEF SettingsInv, Wizard
<1>6. Wizard'
  BY <1>3, <1>4, <1>5
<1>. QED
  BY <1>2, <1>6 DEF SettingsInv

LEMMA RecordInv ==
    ASSUME SettingsInv, (\E size \in EntrySizes : StartRecord(size)) \/ AppendEntry
    PROVE  SettingsInv'
<1>1. /\ UNCHANGED <<file, mirror, running, settings, switches, window, ui, answer, unsaved,
                     stale, found, offers>>
  BY DEF StartRecord, AppendEntry, files, history
<1>2. Memory' /\ Switches' /\ Files' /\ Consent' /\ Wizard'
  BY <1>1 DEF SettingsInv, Memory, IsNormal, Switches, Files, Consent, ConsentIsTheUsers, Wizard,
              switches
<1>3. CASE \E size \in EntrySizes : StartRecord(size)
  <2>1. sink /\ entry' \in EntrySizes /\ UNCHANGED <<log, late, sink>>
    BY <1>3 DEF StartRecord, files, history, switches
  <2>2. Log'
    BY <2>1 DEF SettingsInv, Log
  <2>. QED
    BY <1>2, <2>2 DEF SettingsInv
<1>4. CASE AppendEntry
  <2>1. /\ entry # 0 /\ entry' = 0 /\ sink' = sink
        /\ log' = IF log > MaxLogBytes THEN entry ELSE log + entry
        /\ late' = IF settings.debug \/ ui.pc = "update" THEN late ELSE late + 1
    BY <1>4 DEF AppendEntry, switches
  <2>2. entry \in EntrySizes /\ entry \in Nat /\ log \in Nat /\ late = 0 /\ MaxLogBytes \in Nat
    BY <2>1, SettingsAssumption DEF SettingsInv, Log
  <2>3. log' \in Nat /\ \A size \in EntrySizes :
            (\A other \in EntrySizes : other <= size) => log' <= MaxLogBytes + size
    BY <2>1, <2>2, SettingsAssumption
  <2>4. late' \in 0..1 /\ (sink' => late' = 0)
    BY <2>1, <2>2 DEF SettingsInv, Switches
  <2>5. Log'
    BY <2>1, <2>3, <2>4 DEF Log
  <2>. QED
    BY <1>2, <2>5 DEF SettingsInv
<1>. QED
  BY <1>3, <1>4

LEMMA StepInv == SettingsInv /\ [Next]_vars => SettingsInv'
<1>. SUFFICES ASSUME SettingsInv, [Next]_vars PROVE SettingsInv'
  OBVIOUS
<1>1. CASE UNCHANGED vars
  BY <1>1 DEF vars, files, switches, history, SettingsInv, Memory, IsNormal, Switches, Files,
              Consent, ConsentIsTheUsers, Wizard, Log
<1>2. CASE Next
  BY <1>2, LaunchInv, QuitInv, EditInv, SetTosInv, SetDebugInv, SetterInv, UpdateAfterSwitchInv,
     SaveInv, PublishMirrorInv, WindowInv, RecordInv DEF Next, Mirror, Publish
<1>. QED
  BY <1>1, <1>2

-----------------------------------------------------------------------------

\* The poller is allowed to send only what the user last agreed to in the app, whatever
\* happens to the settings file and whenever the process ends.
THEOREM ConsentStaysTheUsers == Spec => []ConsentIsTheUsers
<1>1. Init => SettingsInv
  BY InitInv
<1>2. SettingsInv => ConsentIsTheUsers
  BY DEF SettingsInv, Consent
<1>. QED
  BY <1>1, <1>2, StepInv, PTL DEF Spec

\* Between two commands the switches, the settings file and the bridge's config are what
\* the settings in memory say, but for a file whose last write failed.
THEOREM CopiesFollow == Spec => []CopiesAgree
<1>1. Init => SettingsInv
  BY InitInv
<1>2. SettingsInv => CopiesAgree
  <2>. SUFFICES ASSUME SettingsInv, UiIdle PROVE CopiesAgree
    BY DEF CopiesAgree
  <2>1. settings = Normalize(settings)
    BY NormalizeIsNormal DEF SettingsInv, Memory
  <2>. QED
    BY <2>1 DEF CopiesAgree, UiIdle, SettingsInv, Switches, Files
<1>. QED
  BY <1>1, <1>2, StepInv, PTL DEF Spec

\* The wizard opens by itself at most once in a process, and only if the launch found
\* no settings file.
THEOREM WizardOnce == Spec => []WizardOffersOnce
<1>1. Init => SettingsInv
  BY InitInv
<1>2. SettingsInv => WizardOffersOnce
  BY DEF SettingsInv, Wizard, WizardOffersOnce
<1>. QED
  BY <1>1, <1>2, StepInv, PTL DEF Spec

\* The response log outgrows its limit by one response at most, and after logging is
\* turned off at most the response already past the check is appended.
THEOREM DebugLogBounded == Spec => []DebugLogIsBounded
<1>1. Init => SettingsInv
  BY InitInv
<1>2. SettingsInv => DebugLogIsBounded
  BY DEF SettingsInv, Log, DebugLogIsBounded
<1>. QED
  BY <1>1, <1>2, StepInv, PTL DEF Spec
=============================================================================
