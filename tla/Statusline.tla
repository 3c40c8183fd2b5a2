------------------------------ MODULE Statusline ------------------------------
(***************************************************************************)
(* The status-line bridge (meter-files/src/statusline): every open Claude  *)
(* Code session runs it on every redraw, as a process of its own, and each *)
(* of them merges the session's reading into one recorded file.            *)
(*                                                                         *)
(* A session hears the usage with its own API responses only; idle, it     *)
(* redraws with what it heard last.                                        *)
(***************************************************************************)
EXTENDS Freshness

CONSTANTS
    Sessions,           \* the open Claude Code sessions
    Cold,               \* a session that has heard nothing yet
    Responses,          \* what API responses may report: bounds a model
    MaxFaults,          \* bound on the bridges that are killed or cannot write
    Absent, Empty, Torn

ASSUME StatuslineAssumption ==
    /\ MaxFaults \in Nat /\ Responses \subseteq Reported
    /\ Cold \notin Reported
    /\ {Absent, Empty, Torn} \cap Snapshots = {} /\ Absent \notin {Empty, Torn}

VARIABLES
    now,        \* the wall clock
    latest,     \* the newest usage that any session has heard, per window
    held,       \* the windows each session heard last
    bridge,     \* where each session's bridge process is, with what it knows
    disk, fd,   \* statusline.json with its temporary file, and who has it open
    faults,     \* how many bridges were killed or could not write
    overlapped  \* history: two bridges have run at the same time

INSTANCE AtomicFile WITH Writers <- Sessions

sessionVars == <<latest, held>>
fileVars == <<disk, fd>>
vars == <<now, sessionVars, bridge, fileVars, faults, overlapped>>

Readings == Snapshots \cup {NoSnapshot}
Steps == {"idle", "spawned", "recording", "filling", "filled"}
Idle == [step |-> "idle", observed |-> NoSnapshot, recorded |-> NoSnapshot]
Bridges == [step : Steps, observed : Readings, recorded : Readings]

Running(s) == bridge[s].step # "idle"
Recorded == Reads(disk.path, NoSnapshot)
Merged(s) == Merge(bridge[s].recorded, bridge[s].observed)

-----------------------------------------------------------------------------

Init ==
    /\ now = 0
    /\ latest = [w \in Windows |-> NoWindow]
    /\ held = [s \in Sessions |-> Cold]
    /\ bridge = [s \in Sessions |-> Idle]
    /\ FileInit({Absent})
    /\ faults = 0
    /\ overlapped = FALSE

Tick ==
    /\ now < MaxTime
    /\ now' = now + 1
    /\ UNCHANGED <<sessionVars, bridge, fileVars, faults, overlapped>>

\* An API response: usage never falls within a cycle, and the windows may be
\* reported one by one.
Hear(s, windows) ==
    /\ NotBehind(windows, latest)
    /\ latest' = [w \in Windows |-> IF windows[w] = NoWindow THEN latest[w] ELSE windows[w]]
    /\ held' = [held EXCEPT ![s] = windows]
    /\ UNCHANGED <<now, bridge, fileVars, faults, overlapped>>

\* Mutant of ObservedAt: a time in the future is taken at its word.
MutUnclamped(modified) == modified

\* observed_at: when the session's transcript was written last, or now for a
\* time in the future.  A prompt writes it too, long after the last response.
ObservedAt(modified) == IF modified > now THEN now ELSE modified

\* A redraw starts the bridge with the session's reading on its input.
Redraw(s) ==
    /\ ~Running(s) /\ held[s] # Cold
    /\ \E modified \in 0..MaxTime :
          bridge' = [bridge EXCEPT ![s] =
              [step |-> "spawned", recorded |-> NoSnapshot,
               observed |-> [windows |-> held[s], fetched_at |-> ObservedAt(modified)]]]
    /\ overlapped' = (overlapped \/ \E t \in Sessions \ {s} : Running(t))
    /\ UNCHANGED <<now, sessionVars, fileVars, faults>>

\* The process prints its segment and ends.
Ends(s) == bridge' = [bridge EXCEPT ![s] = Idle]

\* Mutant of NeedsWrite: a file that cannot be read is left alone.
MutLeavesDamage(recorded, merged) == recorded # NoSnapshot /\ merged # recorded

NeedsWrite(recorded, merged) == merged # recorded

\* update: read and merge; a merge that changes nothing is not written.
ReadAndMerge(s) ==
    /\ bridge[s].step = "spawned"
    /\ IF NeedsWrite(Recorded, Merge(Recorded, bridge[s].observed))
       THEN bridge' = [bridge EXCEPT ![s].step = "recording", ![s].recorded = Recorded]
       ELSE Ends(s)
    /\ UNCHANGED <<now, sessionVars, fileVars, faults, overlapped>>

\* record, in the three steps of atomic_replace.
OpenRecord(s) ==
    /\ bridge[s].step = "recording"
    /\ OpenTmp(s)
    /\ bridge' = [bridge EXCEPT ![s].step = "filling"]
    /\ UNCHANGED <<now, sessionVars, faults, overlapped>>

FillRecord(s) ==
    /\ bridge[s].step = "filling"
    /\ FillTmp(s, Merged(s))
    /\ bridge' = [bridge EXCEPT ![s].step = "filled"]
    /\ UNCHANGED <<now, sessionVars, faults, overlapped>>

Publish(s) ==
    /\ bridge[s].step = "filled"
    /\ RenameTmp
    /\ Ends(s)
    /\ UNCHANGED <<now, sessionVars, faults, overlapped>>

\* The temporary file was renamed by another bridge: chmod or rename fails.
PublishFails(s) ==
    /\ bridge[s].step = "filled"
    /\ disk.tmp = Absent
    /\ Ends(s)
    /\ UNCHANGED <<now, sessionVars, fileVars, faults, overlapped>>

\* The directory or the file cannot be written.
WriteFails(s) ==
    /\ bridge[s].step \in {"recording", "filling"}
    /\ faults < MaxFaults
    /\ faults' = faults + 1
    /\ Close(s)
    /\ Ends(s)
    /\ UNCHANGED <<now, sessionVars, disk, overlapped>>

\* Claude Code, or the machine, ends the process wherever it is.
Kill(s) ==
    /\ Running(s)
    /\ faults < MaxFaults
    /\ faults' = faults + 1
    /\ Close(s)
    /\ Ends(s)
    /\ UNCHANGED <<now, sessionVars, disk, overlapped>>

BridgeStep(s) ==
    \/ ReadAndMerge(s)
    \/ OpenRecord(s)
    \/ FillRecord(s)
    \/ Publish(s)
    \/ PublishFails(s)

Next ==
    \/ Tick
    \/ \E s \in Sessions :
          \/ \E windows \in Responses : Hear(s, windows)
          \/ Redraw(s)
          \/ BridgeStep(s)
          \/ WriteFails(s)
          \/ Kill(s)

Spec == Init /\ [][Next]_vars

\* A session redraws "whether or not it is doing anything", and a process that
\* was started and is not killed runs on.
FairSpec ==
    /\ Spec
    /\ \A s \in Sessions : WF_vars(Redraw(s)) /\ WF_vars(BridgeStep(s))

-----------------------------------------------------------------------------

StatuslineTypeOK ==
    /\ now \in 0..MaxTime
    /\ latest \in [Windows -> UsageWindows \cup {NoWindow}]
    /\ held \in [Sessions -> Reported \cup {Cold}]
    /\ bridge \in [Sessions -> Bridges]
    /\ disk \in [Names -> Snapshots \cup {Absent, Empty, Torn}]
    /\ fd \in [Sessions -> Names \cup {"gone", "closed"}]
    /\ faults \in 0..MaxFaults
    /\ overlapped \in BOOLEAN
    \* "no reading can claim to be fresher than the moment it was recorded"
    /\ \A r \in {Recorded} \cup {bridge[s].observed : s \in Sessions} :
          r # NoSnapshot => r.fetched_at <= now

\* A bridge that dies at any point leaves the previous reading in place: only
\* bridges that ran at the same time can leave a file no reader understands.
OnlyOverlapTears == disk.path \in {Empty, Torn} => overlapped

\* As long as no two bridges run at the same time, the file never falls back: not
\* in a single window, not in its age and not to an unreadable one, whichever
\* session redraws, idle ones and killed ones included.
NeverFallsBack ==
    [][~overlapped' /\ Recorded # NoSnapshot =>
          /\ Recorded' # NoSnapshot
          /\ Covers(Recorded'.windows, Recorded.windows)
          /\ Recorded'.fetched_at >= Recorded.fetched_at]_vars

\* "A session cannot vouch for numbers newer than its own": the record becomes
\* younger only by a session that is behind it on no window.
OnlyTheNewestVouch ==
    [][\A s \in Sessions :
          /\ ~overlapped' /\ Running(s)
          /\ Recorded # NoSnapshot /\ Recorded' # NoSnapshot
          /\ Recorded'.fetched_at > Recorded.fetched_at
          => NotBehind(bridge[s].observed.windows, Recorded.windows)]_vars

Crowded == \E s, t \in Sessions : s # t /\ Running(s) /\ Running(t)

\* Whatever concurrent bridges, killed ones and failed writes left on the disk,
\* once redraws do not overlap any more the file ends up with the newest that any
\* session holds: nothing is lost for good, and an unreadable file is replaced.
SelfHeals ==
    <>[]~Crowded =>
        <>[](\A s \in Sessions : held[s] # Cold =>
                 Recorded # NoSnapshot /\ Covers(Recorded.windows, held[s]))
=============================================================================
