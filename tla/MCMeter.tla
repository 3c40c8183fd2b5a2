------------------------------ MODULE MCMeter ------------------------------
(***************************************************************************)
(* Small instances of Meter for TLC.  A tick is about 20 seconds: the TTL  *)
(* is below every interval, a drift of one slice is noticed, the status-   *)
(* line cadence is no longer than the TTL, and the backoff starts below an *)
(* interval and ends above it, as with the constants of core.rs.           *)
(***************************************************************************)
EXTENDS MeterProperties

CONSTANTS k1, k2, o1

\* Both keys belong to one account.
SameAccount == [k \in Keys |-> o1]
=============================================================================
