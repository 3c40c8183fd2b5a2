------------------------------ MODULE MCSettings ------------------------------
(***************************************************************************)
(* Settings for TLC: every way the file may be found, and two values of    *)
(* what a command may ask for, one of them out of range.                   *)
(***************************************************************************)
EXTENDS Settings

\* None, damaged, of a build before consent existed, of a later format that says
\* yes to everything, and edited by hand out of range.
MCForeignFiles ==
    {None,
     [version |-> 0, settings |-> [rest |-> "plain"]],
     [version |-> 1, settings |-> [days |-> 5, rest |-> "plain"]],
     [version |-> 2, settings |-> [tos |-> TRUE, debug |-> TRUE]],
     [version |-> 1, settings |-> [Default EXCEPT !.warning = 120, !.critical = 60, !.days = 9]]}

MCThresholdsAsked == {<<95, 60>>}
=============================================================================
