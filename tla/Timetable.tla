----------------------------- MODULE Timetable ------------------------------
(***************************************************************************)
(* What a scheduled traffic generator promises: in every cycle it sends    *)
(* the frame of every entry once, in their order and at their times, and   *)
(* it takes a new schedule only between two cycles.  Nothing is said of    *)
(* timers or of how long the generator sleeps.                             *)
(***************************************************************************)
EXTENDS HostSchedule

VARIABLES
  active,     \* the schedule being run
  pending,    \* the schedule to run next, or NoHostSchedule
  position,   \* clock ticks since the cycle began
  done,       \* how many entries of this cycle have been sent
  last        \* the last frame sent

vars == <<active, pending, position, done, last>>

Init ==
  /\ active \in HostSchedules
  /\ pending = NoHostSchedule
  /\ position = 0
  /\ done = 0
  /\ last \in HostFrame

Send ==
  /\ done < Size(active)
  /\ Time(active, done) = position
  /\ last' = ScheduledObject(active, done)
  /\ done' = done + 1
  /\ UNCHANGED <<active, pending, position>>

\* Time passes when no entry of this moment is left.
Pass ==
  /\ position < active.cycle
  /\ done < Size(active) => position < Time(active, done)
  /\ position' = position + 1
  /\ UNCHANGED <<active, pending, done, last>>

Restart ==
  /\ position = active.cycle
  /\ done = Size(active)
  /\ active' = IF pending = NoHostSchedule THEN active ELSE pending
  /\ pending' = NoHostSchedule
  /\ position' = 0
  /\ done' = 0
  /\ UNCHANGED last

Request ==
  /\ pending' \in HostSchedules
  /\ UNCHANGED <<active, position, done, last>>

Next == Send \/ Pass \/ Restart \/ Request

Spec == Init /\ [][Next]_vars
=============================================================================
