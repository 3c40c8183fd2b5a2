-------------------------- MODULE MeterProperties --------------------------
(***************************************************************************)
(* What the composition of the polling loop and the commands promises.     *)
(***************************************************************************)
EXTENDS Meter

\* Some command has changed the core and its wake-up is still to be taken.
NotifyPending ==
    permit \/ ui.pc = "notify" \/ \E t \in Tasks : task[t].pc = "notify"

\* The loop never sleeps through a command: while it waits for a wake-up alone
\* and none is on its way, the core is in a phase that only a command can leave.
\* (SchedulerHandle::update stores a permit even when the loop is not waiting.)
NoLostWakeup ==
    pc = "parked" /\ ~NotifyPending => phase \in ParkingPhases

\* From a broadcast to the next attempt, unless a wake-up is on its way, the tray,
\* the notifier and the UI were last told the phase the core is in, whichever
\* commands and outcomes overlapped ("Broadcast unconditionally"): the lock the
\* loop holds as it publishes keeps commands from changing the core meanwhile.
ShownIsCurrent ==
    pc \in {"publishing", "plan", "parked", "waiting"} /\ ~NotifyPending =>
        shown.phase = phase /\ shown.snapshot = (snapshot # NoSnapshot)

\* The status-line source never strands: whatever a claude.ai attempt still in
\* flight recorded, and whichever command parked the core, the loop comes to
\* rest polling the file (set_usage_source, commands/source.rs).
StatuslineKeepsPolling ==
    /\ pc \in {"plan", "waiting", "parked"}
    /\ selection = "statusline" /\ ui.pc # "source"
    /\ ~NotifyPending
    => phase \in {"Polling", "AwaitingStatusline"}

\* Withdrawing consent lets through what was already past the gate and nothing
\* else: at most the two requests of one attempt, and one of each sign-in.
BoundedTraffic == lateRequests <= 2 + Cardinality(Tasks)

\* On claude.ai, with a wall clock that does not run backwards, granting consent
\* is never undone by an attempt that had seen the gate closed: the permit of
\* resume_polling outlives the stale outcome and the next attempt is not served
\* from memory (commands/consent.rs, the ordering of set_tos_acknowledged).
ConsentNotStranded ==
    pc = "parked" /\ ~NotifyPending /\ ui.pc # "tos" /\ phase = "AwaitingConsent"
        => ~consent

\* The core backs off exactly while it counts failures, through every outcome
\* and every resume.
DegradedWhileFailing == phase = "Degraded" <=> failures > 0

\* With writes that succeed, the disk cache agrees with the reading in memory
\* between attempts, so a restart shows what was shown, although the process may
\* end between any two steps and a reading that says nothing new is not written
\* again (run_loop).
CacheHoldsSnapshot == pc \notin {"export", "record"} => cacheFile = snapshot

\* While the process lives, so does the public export.
ExportHoldsSnapshot == pc \notin {"export", "record"} => exportFile = snapshot

\* claude.ai is not asked for usage again within the TTL of the last reading it
\* gave, over scheduled ticks, wakes, manual refreshes, new keys and restarts;
\* the disk cache witnesses that reading (should_fetch; the first attempt of
\* run_loop is forced so that a restart does not double-hit the API).
SpacedFetches ==
    [][pc # "usage" /\ pc' = "usage" =>
         cacheFile = NoSnapshot \/ cacheFile.age >= MemoryTTL]_vars

\* Between commands settings.json holds what the gate, the selection and the
\* core run with, so a restart comes back to the same choices.
SettingsFollow == ui.pc = "idle" => settings = Current

-----------------------------------------------------------------------------

\* The loop holds the core's lock and waits for the main thread to make a native
\* call; the main thread runs a command that waits for the lock.  Neither goes on.
BothWait == ~CoreFree /\ ui.pc \in {"tos", "source", "interval"}

\* A request of the loop is left open: the client sets no timeout, although
\* "`failure hang` exercises the client timeout" (harness/README.md).
RequestOpen == pc \in {"organizations", "usage"} /\ server = "hangs"

\* No wake-up is left for the loop for ever, so a refresh the user asks for is looked
\* at even when an attempt is in flight, unless a request of the loop stays open
\* or the loop and the main thread wait for each other.  Nothing else keeps the
\* loop from its permit (wait_for_next_tick, notify_one of SchedulerHandle).
WakeIsTaken == ~<>[](permit /\ ~RequestOpen /\ ~BothWait)

\* Everything a poll of claude.ai needs is in place.
Healthy ==
    /\ consent /\ selection = "claude_ai"
    /\ store \in Keys \ revoked /\ OrgOf[store] # NoOrg
    /\ server = "answers"

\* On claude.ai, once everything a poll needs stays in place, the app gets back
\* to polling, and says so, without the user's help: no backoff, no request that
\* was open for a while and no consent given in the middle of an attempt leaves it
\* parked, unless the loop and the main thread wait for each other.  This is of an
\* app nobody signs in to or out of: see RejectedKeyLeavesSession.
Recovers ==
    <>[](Healthy /\ ~BothWait) => <>[](phase = "Polling" /\ shown.phase = "Polling")

\* No command is running.
Quiet == ui.pc = "idle" /\ \A t \in Tasks : task[t].pc = "idle"

\* An app switched to the status line comes to show that source's phases, even
\* when the switch came in the middle of a claude.ai attempt, and whatever
\* parked the core on the way, once no request of the loop is left open and the
\* main thread is back in its event loop.
FollowsSource ==
    <>[](selection = "statusline" /\ Quiet /\ ~RequestOpen)
        => <>[](shown.phase \in {"Polling", "AwaitingStatusline"})

-----------------------------------------------------------------------------
(* What the documentation says of the app and the code does not keep.      *)

\* "a failed validation never destroys a working session" (signin.rs): at rest,
\* an app whose stored key claude.ai accepts is not parked as expired.
RejectedKeyLeavesSession ==
    pc = "parked" /\ ~NotifyPending /\ Quiet /\ phase = "SessionExpired"
        => store \notin Keys \ revoked
=============================================================================
