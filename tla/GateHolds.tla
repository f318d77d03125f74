----------------------------- MODULE GateHolds -----------------------------
(***************************************************************************)
(* The holds of a gate controller.  A hold is decided one entry ahead of   *)
(* the express window it is for, from the schedules known at that tick,    *)
(* and another schedule may be loaded before the window begins.  A history *)
(* variable remembers the schedule that waited when the hold was decided.  *)
(***************************************************************************)
EXTENDS GateController

VARIABLE foreseen  \* history: the schedule that waited at the last tick

holdsVars == <<controllerVars, foreseen>>

HoldsInit == ControllerInit /\ foreseen = NoSchedule

HoldsNext ==
  \/ Tick /\ foreseen' = TickNextSchedule
  \/ /\ HoldRequest \/ ControllerElapse \/ \E s \in SwapSchedules : LoadSchedule(s)
     /\ UNCHANGED foreseen

HoldsSpec ==
  /\ HoldsInit
  /\ [][HoldsNext]_holdsVars
  /\ WF_controllerVars(Tick \/ HoldRequest \/ ControllerElapse)

-----------------------------------------------------------------------------
(* Properties *)

\* A tick opens an express gate whose hold could be decided in time.
OpensExpress ==
  /\ TickEntry
  /\ ~IsEmpty(currentSchedule)
  /\ gateOpen' \cap Express # {}
  /\ SwapsSchedule => nextSchedule = foreseen

\* An express gate is opened only when the MAC already holds preemptable
\* traffic.  Two windows are the exception: the very first entry of a run, and
\* the first of a schedule that was loaded after its hold had to be decided,
\* of which the code warns (GateController.cc:115).
HeldBeforeExpressWindow == [][OpensExpress => onHold']_controllerVars

\* The MAC is not held longer than the express windows need: outside them only
\* during the hold advance of the one that the schedules known at the last
\* tick put next, even if another schedule is loaded meanwhile.
HoldOnlyForExpressWindow ==
  onHold => \/ gateOpen \cap Express # {}
            \/ /\ untilTick <= HoldAdvance
               /\ FollowingObject(currentSchedule, foreseen, CurrentIndex)
                    \cap Express # {}
=============================================================================
