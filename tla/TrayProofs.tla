------------------------------ MODULE TrayProofs ------------------------------
(***************************************************************************)
(* Theorems about Tray for every set of states, options and instants and   *)
(* any number of failures: the lock discipline of the tray's resources,    *)
(* and that what was applied last is what is shown.                        *)
(***************************************************************************)
EXTENDS Tray, TrayModelProofs

\* What a thread is to set before it gives the lock back, and what it may have failed
\* to set, against the icon and the menu of the state it was given.
AppliedIcon == IconState(applied.meter, applied.now, resources)
AppliedMenu == MenuModel(applied.meter, applied.now, resources)

IconIsRecorded == recorded.icon # None /\ IconKey(recorded.icon) = IconKey(AppliedIcon)

IconPlanned(t) ==
    /\ "icon" \notin missed
    /\ call[t].icon = None => IconIsRecorded
    /\ call[t].icon # None => call[t].icon = AppliedIcon

MenuPlanned(t) ==
    /\ "menu" \notin missed
    /\ call[t].menu = None => recorded.menu = AppliedMenu
    /\ call[t].menu # None => call[t].menu = AppliedMenu

\* Calls are records, and so are the two copies of what is shown; a call that has begun
\* has been given a state, and a time with the lock.
Shape ==
    /\ \A t \in Threads : {"pc", "meter", "now", "icon", "menu"} \subseteq DOMAIN call[t]
    /\ \A t \in Threads : call[t].pc \notin {"idle", "read"} => call[t].meter \in Meters
    /\ \A t \in Threads : call[t].pc \notin {"idle", "read", "mutate"} => call[t].now \in Instants
    /\ DOMAIN call = Threads
    /\ {"icon", "menu"} \subseteq DOMAIN recorded
    /\ {"icon", "status", "items"} \subseteq DOMAIN native

\* Whatever is recorded is on the screen.
RecordedIsShown ==
    /\ recorded.icon # None => IsIcon(recorded.icon) /\ native.icon = Render(recorded.icon)
    /\ ~mixed => /\ native.status = recorded.menu.status_line
                 /\ native.items = Texts(recorded.menu)

\* The options are applied by the command that stored them, and what was planned for
\* them is kept by whoever holds the lock, and kept to when it is given back.
AppliedInv ==
    /\ call["main"].pc \notin {"read", "mutate"} => resources = wanted
    /\ \A t \in Threads : call[t].pc = "icon" => IconPlanned(t) /\ MenuPlanned(t)
    /\ \A t \in Threads : call[t].pc = "menu" => ("icon" \in missed \/ IconIsRecorded) /\ MenuPlanned(t)
    /\ holder = None /\ call["main"].pc # "lock" =>
          /\ "icon" \in missed \/ IconIsRecorded
          /\ "menu" \in missed \/ recorded.menu = AppliedMenu

TrayInv == TrayTypeOK /\ Shape /\ RecordedIsShown /\ AppliedInv

-----------------------------------------------------------------------------
\* The initial states

LEMMA InitInv == ASSUME Init PROVE TrayInv
<1>. USE DEF Threads, Idle
<1>1. PICK icon \in {IconState(meter, now, wanted)}, menu \in {MenuModel(meter, now, wanted)},
           rendered \in BOOLEAN :
        /\ recorded = [icon |-> IF rendered THEN icon ELSE None, menu |-> menu]
        /\ native = [icon |-> IF rendered THEN Render(icon) ELSE None,
                     status |-> menu.status_line, items |-> Texts(menu)]
        /\ missed = {part \in {"icon"} : ~rendered}
        /\ failures = IF rendered THEN 0 ELSE 1
  BY DEF Init
<1>2. IsIcon(icon)
  BY <1>1, IconStateIsIcon
<1>3. \A t \in Threads : call[t] = Idle
  BY DEF Init
<1>4. TrayTypeOK
  BY <1>1, <1>3, TrayAssumption DEF Init, TrayTypeOK, Places
<1>5. Shape
  BY <1>1, <1>3 DEF Init, Shape
<1>6. RecordedIsShown
  BY <1>1, <1>2 DEF Init, RecordedIsShown
<1>7. AppliedInv
  <2>1. "icon" \in missed \/ IconIsRecorded
    BY <1>1, NothingAssumption DEF Init, IconIsRecorded, AppliedIcon
  <2>2. recorded.menu = AppliedMenu
    BY <1>1 DEF Init, AppliedMenu
  <2>. QED
    BY <2>1, <2>2, <1>3 DEF Init, AppliedInv
<1>. QED
  BY <1>4, <1>5, <1>6, <1>7 DEF TrayInv

-----------------------------------------------------------------------------
\* The steps

LEMMA BroadcastInv ==
    ASSUME TrayInv, NEW m \in Meters, NEW later \in Instants, Broadcast(m, later)
    PROVE  TrayInv'
<1>. USE DEF Threads, Idle
<1>1. /\ call'["poller"].pc = "lock" /\ call'["main"] = call["main"]
      /\ call["poller"].pc = "idle"
  BY DEF Broadcast, TrayInv, Shape
<1>2. TrayTypeOK'
  BY <1>1 DEF Broadcast, TrayInv, TrayTypeOK, Places, trayVars, history
<1>3. Shape'
  BY <1>1, <1>2 DEF Broadcast, TrayInv, TrayTypeOK, Shape, trayVars, history
<1>4. RecordedIsShown'
  BY DEF Broadcast, TrayInv, RecordedIsShown, trayVars, history
<1>5. AppliedInv'
  BY <1>1 DEF Broadcast, TrayInv, AppliedInv, IconPlanned, MenuPlanned, IconIsRecorded,
              AppliedIcon, AppliedMenu, trayVars, history
<1>. QED
  BY <1>2, <1>3, <1>4, <1>5 DEF TrayInv

LEMMA ChooseInv ==
    ASSUME TrayInv, NEW options \in Options, Choose(options) PROVE TrayInv'
<1>. USE DEF Threads, Idle
<1>1. /\ call'["main"].pc = "read" /\ call'["poller"] = call["poller"]
      /\ call["main"].pc = "idle"
  BY DEF Choose, TrayInv, Shape
<1>2. TrayTypeOK'
  BY <1>1 DEF Choose, TrayInv, TrayTypeOK, Places, trayVars, history
<1>3. Shape'
  BY <1>1, <1>2 DEF Choose, TrayInv, TrayTypeOK, Shape, trayVars, history
<1>4. RecordedIsShown'
  BY DEF Choose, TrayInv, RecordedIsShown, trayVars, history
<1>5. AppliedInv'
  BY <1>1 DEF Choose, TrayInv, AppliedInv, IconPlanned, MenuPlanned, IconIsRecorded,
              AppliedIcon, AppliedMenu, trayVars, history
<1>. QED
  BY <1>2, <1>3, <1>4, <1>5 DEF TrayInv

LEMMA ReadStateInv == ASSUME TrayInv, ReadState PROVE TrayInv'
<1>. USE DEF Threads
<1>1. /\ call'["main"].pc = "mutate" /\ call'["poller"] = call["poller"]
      /\ call'["main"].meter = meter /\ call["main"].pc = "read"
  BY DEF ReadState, TrayInv, Shape
<1>2. TrayTypeOK'
  BY <1>1 DEF ReadState, TrayInv, TrayTypeOK, Places, trayVars, history
<1>3. Shape'
  BY <1>1, <1>2 DEF ReadState, TrayInv, TrayTypeOK, Shape, trayVars, history
<1>4. RecordedIsShown'
  BY DEF ReadState, TrayInv, RecordedIsShown, trayVars, history
<1>5. AppliedInv'
  BY <1>1 DEF ReadState, TrayInv, AppliedInv, IconPlanned, MenuPlanned, IconIsRecorded,
              AppliedIcon, AppliedMenu, trayVars, history
<1>. QED
  BY <1>2, <1>3, <1>4, <1>5 DEF TrayInv

LEMMA MutateInv == ASSUME TrayInv, Mutate PROVE TrayInv'
<1>. USE DEF Threads
<1>1. /\ call'["main"].pc = "lock" /\ call'["poller"] = call["poller"]
      /\ call["main"].pc = "mutate"
  BY DEF Mutate, TrayInv, Shape
<1>2. TrayTypeOK'
  BY <1>1 DEF Mutate, TrayInv, TrayTypeOK, Places, history
<1>3. Shape'
  BY <1>1 DEF Mutate, TrayInv, TrayTypeOK, Shape, history
<1>4. RecordedIsShown'
  BY DEF Mutate, TrayInv, RecordedIsShown, history
<1>5. \A t \in Threads : call[t].pc \notin {"icon", "menu"}
  BY DEF Mutate, TrayInv, TrayTypeOK
<1>6. AppliedInv'
  BY <1>1, <1>5 DEF Mutate, AppliedInv
<1>. QED
  BY <1>2, <1>3, <1>4, <1>6 DEF TrayInv

\* Who acquires the lock finds nobody at the resources, and plans against what is shown.
LEMMA AcquireInv == ASSUME TrayInv, NEW t \in Threads, Acquire(t) PROVE TrayInv'
<1>. USE DEF Threads
<1>. DEFINE icon == IconState(call[t].meter, call[t].now, resources)
            menu == MenuModel(call[t].meter, call[t].now, resources)
<1>1. call' = [call EXCEPT ![t].pc = "icon", ![t].icon = PlannedIcon(icon),
                           ![t].menu = PlannedMenu(menu)]
  BY DEF Acquire
<1>2. /\ call'[t].pc = "icon" /\ call'[t].meter = call[t].meter /\ call'[t].now = call[t].now
      /\ call'[t].icon = PlannedIcon(icon) /\ call'[t].menu = PlannedMenu(menu)
      /\ \A u \in Threads \ {t} : call'[u] = call[u]
  BY <1>1 DEF TrayInv, Shape
<1>3. /\ applied' = [meter |-> call[t].meter, now |-> call[t].now] /\ missed' = {}
      /\ holder = None /\ holder' = t /\ call[t].pc = "lock"
      /\ UNCHANGED <<now, meter, wanted, resources, recorded, native, failures, mixed>>
  BY DEF Acquire
<1>4. \A u \in Threads : call[u].pc \notin {"icon", "menu"}
  BY <1>3 DEF TrayInv, TrayTypeOK
<1>5. TrayTypeOK'
  BY <1>2, <1>3, <1>4, TrayAssumption DEF TrayInv, TrayTypeOK, Places
<1>6. Shape'
  BY <1>1, <1>2, <1>3 DEF TrayInv, Shape
<1>7. RecordedIsShown'
  BY <1>3 DEF TrayInv, RecordedIsShown
<1>8. AppliedIcon' = icon /\ AppliedMenu' = menu
  BY <1>3 DEF AppliedIcon, AppliedMenu
<1>9. icon # None /\ menu # None
  BY <1>3, NothingAssumption DEF TrayInv, TrayTypeOK, Shape
<1>10. IconPlanned(t)' /\ MenuPlanned(t)'
  <2>1. IconPlanned(t)'
    BY <1>2, <1>3, <1>8, <1>9 DEF IconPlanned, PlannedIcon, IconIsRecorded
  <2>2. MenuPlanned(t)'
    BY <1>2, <1>3, <1>8, <1>9 DEF MenuPlanned, PlannedMenu
  <2>. QED
    BY <2>1, <2>2
<1>11. AppliedInv'
  <2>1. call'["main"].pc \notin {"read", "mutate"} => resources' = wanted'
    BY <1>2, <1>3 DEF TrayInv, AppliedInv
  <2>2. \A u \in Threads : call'[u].pc \in {"icon", "menu"} => u = t /\ call'[u].pc = "icon"
    BY <1>2, <1>4
  <2>. QED
    BY <2>1, <2>2, <1>3, <1>10, TrayAssumption DEF AppliedInv
<1>. QED
  BY <1>5, <1>6, <1>7, <1>11 DEF TrayInv

\* Who is at the resources holds the lock, and the other thread is elsewhere.
LEMMA OneAtATime ==
    ASSUME TrayInv, NEW t \in Threads, call[t].pc \in {"icon", "menu"}
    PROVE  holder = t /\ holder # None /\ \A u \in Threads \ {t} : call[u].pc \notin {"icon", "menu"}
BY TrayAssumption DEF TrayInv, TrayTypeOK

\* After the icon: its place in apply_state moves on, the plan of the menu stays.
LEMMA AfterIcon ==
    ASSUME TrayInv, NEW t \in Threads, call[t].pc = "icon",
           call' = [call EXCEPT ![t].pc = "menu"],
           UNCHANGED <<now, meter, wanted, resources, holder, applied, mixed>>,
           failures' \in 0..MaxFailures,
           missed' \subseteq {"icon", "menu"}, "menu" \notin missed',
           {"icon", "menu"} \subseteq DOMAIN recorded', recorded'.menu = recorded.menu,
           {"icon", "status", "items"} \subseteq DOMAIN native',
           native'.status = native.status, native'.items = native.items,
           recorded'.icon # None => IsIcon(recorded'.icon) /\ native'.icon = Render(recorded'.icon),
           "icon" \in missed' \/ IconIsRecorded'
    PROVE  TrayInv'
<1>. USE DEF Threads
<1>1. /\ call'[t].pc = "menu" /\ call'[t].meter = call[t].meter /\ call'[t].now = call[t].now
      /\ call'[t].icon = call[t].icon /\ call'[t].menu = call[t].menu
      /\ \A u \in Threads \ {t} : call'[u] = call[u]
  BY DEF TrayInv, Shape
<1>2. holder = t /\ holder # None /\ \A u \in Threads \ {t} : call[u].pc \notin {"icon", "menu"}
  BY OneAtATime
<1>3. TrayTypeOK'
  BY <1>1, <1>2 DEF TrayInv, TrayTypeOK, Places
<1>4. Shape'
  BY <1>1 DEF TrayInv, Shape
<1>5. RecordedIsShown'
  BY DEF TrayInv, RecordedIsShown
<1>6. MenuPlanned(t)'
  <2>1. AppliedMenu' = AppliedMenu
    BY DEF AppliedMenu
  <2>. QED
    BY <1>1, <2>1 DEF TrayInv, AppliedInv, MenuPlanned
<1>7. AppliedInv'
  <2>1. call'["main"].pc \notin {"read", "mutate"} => resources' = wanted'
    BY <1>1 DEF TrayInv, AppliedInv
  <2>2. \A u \in Threads : call'[u].pc \in {"icon", "menu"} => u = t /\ call'[u].pc = "menu"
    BY <1>1, <1>2
  <2>. QED
    BY <2>1, <2>2, <1>2, <1>6 DEF AppliedInv
<1>. QED
  BY <1>3, <1>4, <1>5, <1>7 DEF TrayInv

LEMMA SkipIconInv == ASSUME TrayInv, NEW t \in Threads, SkipIcon(t) PROVE TrayInv'
<1>1. IconPlanned(t) /\ MenuPlanned(t) /\ IconIsRecorded
  BY DEF TrayInv, AppliedInv, SkipIcon, IconPlanned
<1>2. IconIsRecorded'
  BY <1>1 DEF IconIsRecorded, AppliedIcon, SkipIcon, trayVars, history
<1>3. "menu" \notin missed
  BY <1>1 DEF MenuPlanned
<1>. QED
  BY <1>2, <1>3, AfterIcon DEF SkipIcon, trayVars, history, TrayInv, TrayTypeOK, Shape, RecordedIsShown

LEMMA SetIconInv == ASSUME TrayInv, NEW t \in Threads, SetIcon(t) PROVE TrayInv'
<1>1. call[t].icon = AppliedIcon /\ "menu" \notin missed /\ call[t].icon # None
  BY DEF TrayInv, AppliedInv, SetIcon, IconPlanned, MenuPlanned
<1>2. /\ recorded'.icon = call[t].icon /\ recorded'.menu = recorded.menu
      /\ DOMAIN recorded' = DOMAIN recorded
  BY DEF SetIcon, TrayInv, Shape
<1>3. /\ native'.icon = Render(call[t].icon) /\ native'.status = native.status
      /\ native'.items = native.items /\ DOMAIN native' = DOMAIN native
  BY DEF SetIcon, TrayInv, Shape
<1>4. IsIcon(call[t].icon)
  BY <1>1, IconStateIsIcon DEF AppliedIcon
<1>5. IconIsRecorded'
  BY <1>1, <1>2 DEF IconIsRecorded, AppliedIcon, SetIcon, history
<1>. QED
  BY <1>1, <1>2, <1>3, <1>4, <1>5, AfterIcon DEF SetIcon, history, TrayInv, TrayTypeOK, Shape

LEMMA IconFailsInv == ASSUME TrayInv, NEW t \in Threads, IconFails(t) PROVE TrayInv'
<1>1. "menu" \notin missed
  BY DEF TrayInv, AppliedInv, IconFails, MenuPlanned
<1>2. failures' \in 0..MaxFailures
  BY TrayAssumption DEF IconFails, TrayInv, TrayTypeOK
<1>3. "icon" \in missed' /\ "menu" \notin missed' /\ missed' \subseteq {"icon", "menu"}
  BY <1>1 DEF IconFails, TrayInv, TrayTypeOK
<1>. QED
  BY <1>2, <1>3, AfterIcon DEF IconFails, TrayInv, Shape, RecordedIsShown

\* After the menu: the lock is given back, with the icon and the menu of the last
\* apply on the screen but for what is missed.
LEMMA AfterMenu ==
    ASSUME TrayInv, NEW t \in Threads, call[t].pc = "menu", Return(t),
           UNCHANGED <<now, meter, wanted, resources, applied>>,
           failures' \in 0..MaxFailures,
           missed' \subseteq {"icon", "menu"}, "icon" \in missed => "icon" \in missed',
           DOMAIN recorded' = DOMAIN recorded, recorded'.icon = recorded.icon,
           DOMAIN native' = DOMAIN native, native'.icon = native.icon,
           ~mixed' => /\ native'.status = recorded'.menu.status_line
                      /\ native'.items = Texts(recorded'.menu),
           "menu" \in missed' \/ recorded'.menu = AppliedMenu
    PROVE  TrayInv'
<1>. USE DEF Threads
<1>1. /\ call'[t] = Idle /\ holder' = None
      /\ \A u \in Threads \ {t} : call'[u] = call[u]
  BY DEF TrayInv, Shape, Return
<1>2. \A u \in Threads : call'[u].pc \notin {"icon", "menu"}
  BY <1>1, OneAtATime DEF Idle
<1>3. TrayTypeOK'
  BY <1>1, <1>2, TrayAssumption DEF TrayInv, TrayTypeOK, Places, Idle
<1>4. Shape'
  BY <1>1 DEF TrayInv, Shape, Return, Idle
<1>5. RecordedIsShown'
  BY DEF TrayInv, RecordedIsShown
<1>6. AppliedMenu' = AppliedMenu /\ AppliedIcon' = AppliedIcon
  BY DEF AppliedMenu, AppliedIcon
<1>7. "icon" \in missed' \/ IconIsRecorded'
  <2>1. "icon" \in missed \/ IconIsRecorded
    BY DEF TrayInv, AppliedInv
  <2>. QED
    BY <2>1, <1>6 DEF IconIsRecorded
<1>8. call'["main"].pc \notin {"read", "mutate"} => resources' = wanted'
  BY <1>1 DEF TrayInv, AppliedInv
<1>9. AppliedInv'
  BY <1>2, <1>6, <1>7, <1>8 DEF AppliedInv
<1>. QED
  BY <1>3, <1>4, <1>5, <1>9 DEF TrayInv

LEMMA SkipMenuInv == ASSUME TrayInv, NEW t \in Threads, SkipMenu(t) PROVE TrayInv'
<1>1. recorded.menu = AppliedMenu
  BY DEF TrayInv, AppliedInv, SkipMenu, MenuPlanned
<1>. QED
  BY <1>1, AfterMenu DEF SkipMenu, trayVars, history, TrayInv, TrayTypeOK, RecordedIsShown

LEMMA SetMenuInv == ASSUME TrayInv, NEW t \in Threads, SetMenu(t) PROVE TrayInv'
<1>1. call[t].menu = AppliedMenu
  BY DEF TrayInv, AppliedInv, SetMenu, MenuPlanned
<1>2. /\ recorded'.menu = call[t].menu /\ recorded'.icon = recorded.icon
      /\ DOMAIN recorded' = DOMAIN recorded
  BY DEF SetMenu, TrayInv, Shape
<1>3. /\ native'.status = call[t].menu.status_line /\ native'.items = Texts(call[t].menu)
      /\ native'.icon = native.icon /\ DOMAIN native' = DOMAIN native
  BY DEF SetMenu, TrayInv, Shape
<1>. QED
  BY <1>1, <1>2, <1>3, AfterMenu DEF SetMenu, TrayInv, TrayTypeOK

LEMMA MenuFailsInv == ASSUME TrayInv, NEW t \in Threads, MenuFails(t) PROVE TrayInv'
<1>1. failures' \in 0..MaxFailures
  <2>1. failures < MaxFailures /\ failures' = failures + 1
    BY DEF MenuFails
  <2>. QED
    BY <2>1, TrayAssumption DEF TrayInv, TrayTypeOK
<1>2. /\ missed' = missed \cup {"menu"} /\ missed' \subseteq {"icon", "menu"}
      /\ call[t].pc = "menu" /\ Return(t)
      /\ UNCHANGED <<now, meter, wanted, resources, recorded, applied>>
  BY DEF MenuFails, TrayInv, TrayTypeOK
<1>3. CASE InPlace(call[t].menu)
  <2>1. PICK refused \in (SUBSET (0..Len(native.items))) \ {{}} :
          /\ native' = [native EXCEPT
                !.status = IF 0 \in refused THEN @ ELSE call[t].menu.status_line,
                !.items = [i \in DOMAIN @ |->
                              IF i \in refused THEN @[i] ELSE Texts(call[t].menu)[i]]]
          /\ mixed' = TRUE
    BY <1>3 DEF MenuFails
  <2>2. DOMAIN native' = DOMAIN native /\ native'.icon = native.icon
    BY <2>1 DEF TrayInv, Shape
  <2>. QED
    BY <2>1, <2>2, <1>1, <1>2, AfterMenu
<1>4. CASE ~InPlace(call[t].menu)
  <2>1. UNCHANGED <<native, mixed>>
    BY <1>4 DEF MenuFails
  <2>. QED
    BY <2>1, <1>1, <1>2, AfterMenu DEF TrayInv, RecordedIsShown
<1>. QED
  BY <1>3, <1>4

LEMMA StepInv == TrayInv /\ [Next]_vars => TrayInv'
<1>. SUFFICES ASSUME TrayInv, [Next]_vars PROVE TrayInv'
  OBVIOUS
<1>1. ASSUME NEW m \in Meters, NEW later \in Instants, Broadcast(m, later) PROVE TrayInv'
  BY <1>1, BroadcastInv
<1>2. ASSUME NEW options \in Options, Choose(options) PROVE TrayInv'
  BY <1>2, ChooseInv
<1>3. CASE ReadState \/ Mutate
  BY <1>3, ReadStateInv, MutateInv
<1>4. ASSUME NEW t \in Threads, Apply(t) PROVE TrayInv'
  BY <1>4, AcquireInv, SkipIconInv, SetIconInv, IconFailsInv, SkipMenuInv, SetMenuInv,
     MenuFailsInv DEF Apply
<1>5. CASE UNCHANGED vars
  BY <1>5 DEF vars, trayVars, history, TrayInv, TrayTypeOK, Shape, RecordedIsShown, AppliedInv,
              IconPlanned, MenuPlanned, IconIsRecorded, AppliedIcon, AppliedMenu
<1>. QED
  BY <1>1, <1>2, <1>3, <1>4, <1>5 DEF Next

-----------------------------------------------------------------------------

\* The lock discipline of tray/mod.rs: the resources are planned against, set and
\* recorded by one thread at a time, the one that holds the lock.
THEOREM TrayTypeCorrect == Spec => []TrayTypeOK
<1>1. Init => TrayInv
  BY InitInv
<1>2. TrayInv => TrayTypeOK
  BY DEF TrayInv
<1>. QED
  BY <1>1, <1>2, StepInv, PTL DEF Spec

LEMMA AppliedShows == TrayInv => LastApplyIsShown
<1>. SUFFICES ASSUME TrayInv, AllIdle PROVE LastApplyIsShown
  BY DEF LastApplyIsShown
<1>1. holder = None /\ call["main"].pc = "idle" /\ resources = wanted
  BY DEF TrayInv, TrayTypeOK, AppliedInv, AllIdle, Threads
<1>2. ASSUME "icon" \notin missed PROVE IconShows(applied.meter, applied.now)
  <2>1. recorded.icon # None /\ IconKey(recorded.icon) = IconKey(AppliedIcon)
    BY <1>1, <1>2 DEF TrayInv, AppliedInv, IconIsRecorded
  <2>2. IsIcon(recorded.icon) /\ native.icon = Render(recorded.icon)
    BY <2>1 DEF TrayInv, RecordedIsShown
  <2>3. IsIcon(AppliedIcon)
    BY IconStateIsIcon DEF AppliedIcon
  <2>. QED
    BY <2>1, <2>2, <2>3, <1>1, EqualKeysEqualPixels DEF IconShows, AppliedIcon
<1>3. ASSUME "menu" \notin missed, ~mixed PROVE MenuShows(applied.meter, applied.now)
  <2>1. recorded.menu = AppliedMenu
    BY <1>1, <1>3 DEF TrayInv, AppliedInv
  <2>. QED
    BY <2>1, <1>1, <1>3 DEF TrayInv, RecordedIsShown, MenuShows, AppliedMenu
<1>. QED
  BY <1>2, <1>3 DEF LastApplyIsShown

\* Whenever both threads are done, the icon and the menu on the screen are those of the
\* state applied last under the options last chosen, but for the parts that could not
\* be set, through any interleaving of broadcasts with settings commands and any number
\* of failures: the debounce suppresses nothing that is not already shown.
THEOREM LastApplyShown == Spec => []LastApplyIsShown
<1>1. Init => TrayInv
  BY InitInv
<1>. QED
  BY <1>1, AppliedShows, StepInv, PTL DEF Spec

-----------------------------------------------------------------------------
\* Without failures

\* The poll loop has something left to set, which it cannot while a command runs.
HeldUp ==
    \/ call["poller"].pc = "icon" /\ (call["poller"].icon # None \/ call["poller"].menu # None)
    \/ call["poller"].pc = "menu" /\ call["poller"].menu # None

MainIsBehind ==
    /\ call["main"].pc \notin {"idle", "read"}
    /\ \/ call["main"].meter # meter
       \/ call["main"].pc # "mutate" /\ call["main"].now # now

AppliedIsBehind == applied # [meter |-> meter, now |-> now]

\* Nothing was missed; the poll loop is always at its latest broadcast; a command that
\* is behind it meets the poll loop before its lock, stuck at it, or done with a
\* broadcast that changed nothing; so what is applied is behind only before that lock
\* or after such a broadcast.
SettledInv ==
    /\ missed = {} /\ mixed = FALSE
    /\ call["poller"].pc # "idle" =>
          call["poller"].meter = meter /\ call["poller"].now = now
          /\ call["poller"].pc \notin {"read", "mutate"}
    /\ MainIsBehind => call["poller"].pc = "lock" \/ HeldUp \/ unseen
    /\ AppliedIsBehind => call["poller"].pc = "lock" \/ unseen

LEMMA SettledInit == ASSUME Init, failures = 0 PROVE SettledInv
BY DEF Init, SettledInv, MainIsBehind, AppliedIsBehind, Idle, Threads

\* A step that fails nothing keeps the poll loop and the commands in this relation.
LEMMA SettledStep ==
    ASSUME TrayInv, [Next]_vars, failures' = 0, failures = 0 => SettledInv
    PROVE  SettledInv'
<1>. USE DEF Threads
<1>1. failures = 0 \/ failures' # failures
  OBVIOUS
<1>2. ASSUME NEW t \in Threads, failures' = failures + 1 PROVE FALSE
  BY <1>2, TrayAssumption DEF TrayInv, TrayTypeOK
<1>3. ASSUME NEW m \in Meters, NEW later \in Instants, Broadcast(m, later) PROVE SettledInv'
  <2>1. /\ call'["poller"].pc = "lock" /\ call'["poller"].meter = m
        /\ call'["poller"].now = later
    BY <1>3 DEF Broadcast, TrayInv, Shape, Idle
  <2>. QED
    BY <1>3, <2>1 DEF Broadcast, SettledInv, trayVars, history
<1>4. ASSUME NEW options \in Options, Choose(options) PROVE SettledInv'
  <2>1. call'["main"].pc = "read" /\ call'["poller"] = call["poller"]
    BY <1>4 DEF Choose, TrayInv, Shape, Idle
  <2>. QED
    BY <1>4, <2>1 DEF Choose, SettledInv, MainIsBehind, AppliedIsBehind, trayVars, history
<1>11. CASE ReadState
  <2>1. /\ call'["main"].pc = "mutate" /\ call'["main"].meter = meter
        /\ call'["poller"] = call["poller"] /\ call["poller"].pc = "idle"
    BY <1>11 DEF ReadState, CoreFree, TrayInv, Shape
  <2>. QED
    BY <1>11, <2>1 DEF ReadState, SettledInv, MainIsBehind, AppliedIsBehind, trayVars, history
<1>5. CASE Mutate
  <2>1. /\ call'["main"].pc = "lock" /\ call'["main"].meter = call["main"].meter
        /\ call'["main"].now = now /\ call["main"].pc = "mutate"
        /\ call'["poller"] = call["poller"]
    BY <1>5 DEF Mutate, TrayInv, Shape
  <2>. QED
    BY <1>5, <2>1 DEF Mutate, SettledInv, MainIsBehind, AppliedIsBehind, HeldUp, history
<1>6. ASSUME NEW t \in Threads, Acquire(t) PROVE SettledInv'
  <2>1. /\ call'[t].pc = "icon" /\ call'[t].meter = call[t].meter /\ call'[t].now = call[t].now
        /\ \A u \in Threads \ {t} : call'[u] = call[u]
        /\ call[t].pc = "lock"
    BY <1>6 DEF Acquire, TrayInv, Shape
  <2>2. /\ applied' = [meter |-> call[t].meter, now |-> call[t].now] /\ missed' = {}
        /\ unseen' = IF t = "poller" THEN call'[t].icon = None /\ call'[t].menu = None ELSE unseen
        /\ UNCHANGED <<now, meter, failures, mixed>> /\ holder = None
    BY <1>6 DEF Acquire
  <2>3. CASE t = "poller"
    BY <2>1, <2>2, <2>3 DEF SettledInv, MainIsBehind, AppliedIsBehind, HeldUp
  <2>4. CASE t = "main"
    <3>1. ~HeldUp
      BY <2>2 DEF HeldUp, TrayInv, TrayTypeOK
    <3>. QED
      BY <2>1, <2>2, <2>4, <3>1 DEF SettledInv, MainIsBehind, AppliedIsBehind, HeldUp
  <2>. QED
    BY <2>3, <2>4
<1>7. ASSUME NEW t \in Threads, SkipIcon(t) \/ SetIcon(t) PROVE SettledInv'
  <2>1. /\ call'[t].pc = "menu" /\ call'[t].meter = call[t].meter /\ call'[t].now = call[t].now
        /\ call'[t].icon = call[t].icon /\ call'[t].menu = call[t].menu
        /\ \A u \in Threads \ {t} : call'[u] = call[u]
        /\ call[t].pc = "icon" /\ (call[t].icon = None \/ CanCall(t))
        /\ UNCHANGED <<now, meter, failures, missed, mixed, applied, unseen>>
    BY <1>7 DEF SkipIcon, SetIcon, TrayInv, Shape, trayVars, history
  <2>. QED
    BY <2>1 DEF SettledInv, MainIsBehind, AppliedIsBehind, HeldUp, CanCall
<1>8. ASSUME NEW t \in Threads, SkipMenu(t) \/ SetMenu(t) PROVE SettledInv'
  <2>1. /\ call'[t] = Idle /\ \A u \in Threads \ {t} : call'[u] = call[u]
        /\ call[t].pc = "menu" /\ (call[t].menu = None \/ CanCall(t))
        /\ UNCHANGED <<now, meter, failures, missed, applied, unseen>>
        /\ mixed' \in {mixed, FALSE}
    BY <1>8 DEF SkipMenu, SetMenu, Return, TrayInv, Shape, trayVars, history
  <2>2. call'[t].pc = "idle"
    BY <2>1 DEF Idle
  <2>. QED
    BY <2>1, <2>2 DEF SettledInv, MainIsBehind, AppliedIsBehind, HeldUp, CanCall
<1>9. ASSUME NEW t \in Threads, IconFails(t) \/ MenuFails(t) PROVE FALSE
  BY <1>2, <1>9 DEF IconFails, MenuFails
<1>10. CASE UNCHANGED vars
  BY <1>10 DEF vars, trayVars, history, SettledInv, MainIsBehind, AppliedIsBehind, HeldUp
<1>. QED
  BY <1>3, <1>4, <1>5, <1>6, <1>7, <1>8, <1>9, <1>10, <1>11 DEF Next, Apply

\* With nothing failed so far, the tray at rest shows the latest state of the meter,
\* whichever thread applied last, unless the latest broadcast changed nothing that was
\* to be seen: the state a settings command read before it took the lock does no harm.
THEOREM SettledIsCurrent == Spec => []SettledTrayIsCurrent
<1>. DEFINE Inv == TrayInv /\ (failures = 0 => SettledInv)
<1>1. Init => Inv
  BY InitInv, SettledInit
<1>2. Inv /\ [Next]_vars => Inv'
  BY StepInv, SettledStep
<1>3. Inv => SettledTrayIsCurrent
  <2>. SUFFICES ASSUME Inv, AllIdle, failures = 0, ~unseen
                PROVE  IconShows(meter, now) /\ MenuShows(meter, now)
    BY DEF SettledTrayIsCurrent
  <2>1. /\ applied = [meter |-> meter, now |-> now]
        /\ missed = {} /\ ~mixed
    BY DEF SettledInv, AppliedIsBehind, AllIdle, Threads
  <2>2. IconShows(applied.meter, applied.now) /\ MenuShows(applied.meter, applied.now)
    BY <2>1, AppliedShows DEF LastApplyIsShown
  <2>. QED
    BY <2>1, <2>2
<1>. QED
  BY <1>1, <1>2, <1>3, PTL DEF Spec
=============================================================================
