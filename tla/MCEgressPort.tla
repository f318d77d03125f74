---------------------------- MODULE MCEgressPort ----------------------------
(***************************************************************************)
(* An egress port for TLC: two or three gates, short gate control lists,   *)
(* packets that fit into some windows and not into others.                 *)
(***************************************************************************)
EXTENDS EgressPort

entry(gates, ticks) == [open |-> gates, length |-> ticks]

None == {}

\* Windows of gate 1 that end inside, and at the end of, the cycle.
TwoWindows == {<<entry({0}, 5), entry({0, 1}, 3), entry({1}, 4)>>}

\* The window of gate 0 ends with the cycle, until the open schedule replaces it.
WindowAtEnd == {<<entry({1}, 4), entry({0}, 3)>>}
JustOpen == {DefaultSchedule(5)}

\* A swap from one to the other lengthens or shortens the last window.
OpenOrNot == WindowAtEnd \cup JustOpen
=============================================================================
