-------------------------------- MODULE Cycles --------------------------------
(***************************************************************************)
(* When two instants are the end of one and the same cycle of a usage      *)
(* window (meter-core/src/window.rs).  The cycles of a window are numbered *)
(* here; the code never sees the number, only the reset of a reading, an   *)
(* instant that wobbles around the end of the cycle.                       *)
(***************************************************************************)
EXTENDS Integers

CONSTANTS
    CycleLength,    \* LimitWindow::duration
    ResetJitter     \* RESET_JITTER

ASSUME CyclesAssumption ==
    /\ ResetJitter \in Nat /\ CycleLength \in Nat
    \* "a minute of slack cleanly separates a real rollover from that jitter"
    /\ CycleLength > 2 * ResetJitter

\* The reset that a reading of cycle c reports, drift after the earliest one.
ReportedReset(c, drift) == CycleLength * c + drift

\* Mutant of SharesCycleWith: exact equality.
MutSharesExactly(a, b) == a = b

SharesCycleWith(a, b) == a - b <= ResetJitter /\ b - a <= ResetJitter
=============================================================================
