---------------------------- MODULE MCStatusline ----------------------------
(***************************************************************************)
(* Small instances of Statusline for TLC.                                  *)
(***************************************************************************)
EXTENDS Statusline

Window(cycle, drift, utilization) ==
    [cycle |-> cycle, drift |-> drift, utilization |-> utilization]

Response(five_hour, seven_day) ==
    [w \in Windows |-> IF w = "five_hour" THEN five_hour ELSE seven_day]

\* The usage of one window grows while its reported reset wobbles backwards, the
\* other one rolls over to a lower usage, and one response reports one window only:
\* readings behind on either window, on both, or ahead on one and behind on the other.
MCResponses ==
    {Response(Window(1, 1, 0), Window(1, 0, 1)),
     Response(Window(1, 1, 0), Window(2, 0, 0)),
     Response(Window(1, 0, 1), NoWindow)}
=============================================================================
