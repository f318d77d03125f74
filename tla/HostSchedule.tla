---------------------------- MODULE HostSchedule ----------------------------
(***************************************************************************)
(* Host schedules as the scheduled traffic generator reads them: a cycle,  *)
(* and entries with the clock tick of the cycle at which a frame is sent.  *)
(* The size, the destination and the priority of a frame are one value.    *)
(***************************************************************************)
EXTENDS Integers, Sequences

CONSTANTS
  HostFrame,     \* what an entry sends
  UnsignedRange  \* 2^32, the number of values of an unsigned int

ASSUME UnsignedRangeAssumption == UnsignedRange \in Nat \ {0}
ASSUME HostFrameAssumption == HostFrame # {}

HostEntry == [time : 0 .. UnsignedRange - 1, frame : HostFrame]

HostSchedules == [cycle : 1 .. UnsignedRange - 1, entries : Seq(HostEntry)]

\* An empty unique_ptr to a schedule.
NoHostSchedule == [cycle |-> 0, entries |-> <<>>]

\* What a host gets when the XML says nothing about it: the cycle of all
\* others, and no entries.
EmptyHostSchedule(cycle) == [cycle |-> cycle, entries |-> <<>>]

Size(s) == Len(s.entries)

\* The code indexes entries from 0.
Time(s, i) == s.entries[i + 1].time

ScheduledObject(s, i) == s.entries[i + 1].frame

\* What the generator counts on: the entries are in the order of their times,
\* and all of them are in the cycle.
IsOrdered(s) ==
  /\ \A i \in 1 .. Size(s) - 1 : Time(s, i - 1) <= Time(s, i)
  /\ Size(s) > 0 => Time(s, Size(s) - 1) <= s.cycle
=============================================================================
