------------------------------ MODULE MCNotify ------------------------------
(***************************************************************************)
(* Small instances of Notify for TLC: a cycle of 3 and a jitter of 1 keep  *)
(* a wobble apart from a rollover, and three utilizations are below, at    *)
(* and above a threshold.                                                  *)
(***************************************************************************)
EXTENDS Notify
=============================================================================
