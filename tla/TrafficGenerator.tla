-------------------------- MODULE TrafficGenerator --------------------------
(***************************************************************************)
(* VlanEtherTrafGenSched, the traffic generator of a scheduled host.  It   *)
(* sleeps from one entry of its schedule to the next, always for the       *)
(* difference of two times, and once more until the end of the cycle.      *)
(*                                                                         *)
(* This module is the generator with its clock; ScheduleSwap composes it   *)
(* with the gate controller and the database of a switch.                  *)
(***************************************************************************)
EXTENDS HostSchedule

VARIABLES
  hostSchedule,      \* currentSchedule
  nextHostSchedule,  \* nextSchedule
  index,             \* the entry to send next
  untilSend,         \* ticks until the tick that is subscribed
  lastFrame          \* history: the last frame sent

generatorVars == <<hostSchedule, nextHostSchedule, index, untilSend, lastFrame>>

GeneratorTypeOK ==
  /\ hostSchedule \in HostSchedules
  /\ nextHostSchedule \in HostSchedules \cup {NoHostSchedule}
  /\ index \in 0 .. Size(hostSchedule)
  /\ untilSend \in 0 .. UnsignedRange - 1
  /\ lastFrame \in HostFrame

\* Mutant: a cycle ends with its last entry.
TicksUntilEventAtLast(s, i) ==
  IF Size(s) = 0 THEN s.cycle
  ELSE IF i = Size(s) THEN 0
  ELSE Time(s, i) - (IF i = 0 THEN 0 ELSE Time(s, i - 1))

\* scheduleNextTickEvent, as an unsigned number of ticks: negative differences
\* wrap around.
TicksUntilEvent(s, i) ==
  (IF Size(s) = 0 THEN s.cycle
   ELSE IF i = Size(s) THEN s.cycle - Time(s, i - 1)
   ELSE IF i = 0 THEN Time(s, 0)
   ELSE Time(s, i) - Time(s, i - 1)) % UnsignedRange

\* initialize, with the schedule that it finds.
GeneratorInit(s) ==
  /\ hostSchedule = s
  /\ nextHostSchedule = NoHostSchedule
  /\ index = 0
  /\ untilSend = TicksUntilEvent(s, 0)
  /\ lastFrame = (CHOOSE f \in HostFrame : TRUE)

\* Mutant: a waiting schedule is taken before the cycle is over.
CycleIsOverOnceWaiting ==
  index = Size(hostSchedule) \/ nextHostSchedule # NoHostSchedule

CycleIsOver == index = Size(hostSchedule)

\* tick after the last entry: the end of the cycle.
StartCycle ==
  /\ untilSend = 0
  /\ CycleIsOver
  /\ hostSchedule' = IF nextHostSchedule = NoHostSchedule
                       THEN hostSchedule ELSE nextHostSchedule
  /\ nextHostSchedule' = NoHostSchedule
  /\ index' = 0
  /\ untilSend' = TicksUntilEvent(hostSchedule', 0)
  /\ UNCHANGED lastFrame

\* tick at an entry.
SendPacket ==
  /\ untilSend = 0
  /\ ~CycleIsOver
  /\ lastFrame' = ScheduledObject(hostSchedule, index)
  /\ index' = index + 1
  /\ untilSend' = TicksUntilEvent(hostSchedule, index + 1)
  /\ UNCHANGED <<hostSchedule, nextHostSchedule>>

GeneratorTick == StartCycle \/ SendPacket

\* loadScheduleOrDefault
LoadHostSchedule(s) ==
  /\ nextHostSchedule' = s
  /\ UNCHANGED <<hostSchedule, index, untilSend, lastFrame>>

GeneratorElapse ==
  /\ untilSend # 0
  /\ untilSend' = untilSend - 1
  /\ UNCHANGED <<hostSchedule, nextHostSchedule, index, lastFrame>>

-----------------------------------------------------------------------------
(* Properties *)

\* Clock ticks since the cycle began.
HostPosition ==
  (IF CycleIsOver THEN hostSchedule.cycle ELSE Time(hostSchedule, index))
    - untilSend

Table == INSTANCE Timetable
           WITH active <- hostSchedule, pending <- nextHostSchedule,
                position <- HostPosition, done <- index, last <- lastFrame

\* Sleeping for differences of times keeps to the times themselves: every entry
\* is sent once in every cycle, at its own time, cycles follow one another
\* without a gap, and only between two of them a schedule is replaced
\* (VlanEtherTrafGenSched.h:52).
RunsItsTimetable == Table!Spec
=============================================================================
