-------------------------- MODULE MCGateController --------------------------
(***************************************************************************)
(* The gate controller alone and its holds, for TLC.                       *)
(***************************************************************************)
EXTENDS GateHolds

entry(gates, ticks) == [open |-> gates, length |-> ticks]

\* Gate 1 is express.  Entries shorter than, equal to and longer than the MTU
\* of 6, windows that end at the end of the cycle, windows that go on past it.
ExpressFirst == <<entry({1}, 3), entry({0}, 4)>>
ExpressLast  == <<entry({0}, 4), entry({0, 1}, 2), entry({1}, 3)>>
AlwaysOpen   == DefaultSchedule(5)
GuardBand    == <<entry({0, 1}, 2), entry({0}, 7), entry({}, 2)>>

FourSchedules == {ExpressFirst, ExpressLast, AlwaysOpen, GuardBand}
FourOrEmpty == FourSchedules \cup {<<>>}
None == {}
OneEmpty == {<<>>}
JustExpressFirst == {ExpressFirst}
=============================================================================
