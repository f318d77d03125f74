--------------------------- MODULE MCScheduleSwap ---------------------------
(***************************************************************************)
(* Schedule swaps for TLC: three configurations, plans of up to two swaps  *)
(* at, before and after the end of a cycle.                                *)
(***************************************************************************)
EXTENDS ScheduleSwap

CONSTANTS x, y  \* frames

entry(gates, ticks) == [open |-> gates, length |-> ticks]
send(t, f) == [time |-> t, frame |-> f]

\* Gate schedules of one entry, whose only tick is that of the cycle, and of
\* several; host schedules without entries, and with entries at the start of
\* the cycle, at its end, and at the same time.
Even  == [cycle |-> 4, gates |-> DefaultSchedule(4),
          host |-> [cycle |-> 4, entries |-> <<send(1, x), send(3, y)>>]]
Early == [cycle |-> 4, gates |-> <<entry({0}, 1), entry({1}, 3)>>,
          host |-> [cycle |-> 4, entries |-> <<send(0, x), send(0, y), send(4, x)>>]]
Idle  == [cycle |-> 4, gates |-> <<entry({0}, 2), entry({1}, 2)>>,
          host |-> EmptyHostSchedule(4)]
Short == [cycle |-> 3, gates |-> <<entry({0}, 2), entry({1}, 1)>>,
          host |-> [cycle |-> 3, entries |-> <<send(2, y)>>]]

swap(configuration, routing, ticks) ==
  [configuration |-> configuration, routing |-> routing, length |-> ticks]

Configurations == {Even, Early, Idle, Short}

Swap == {swap(k, r, n) : k \in Configurations, r \in {"new", NoRouting, Elsewhere},
                         n \in {1, 4, 6}}
Wait == {swap(NoSchedule, "new", n) : n \in {1, 4}}

AllGates == {k.gates : k \in Configurations}

\* Nothing; one swap at once; one later, or two.
AllPlans ==
  {[initial |-> k, routing |-> "old", swaps |-> s] :
     k \in Configurations,
     s \in {<<>>} \cup {<<w, e>> : w \in Wait \cup Swap, e \in Swap}}

\* One swap at the end of the first cycle, to a configuration with the same
\* cycle or another one.
Later(before, after) ==
  {[initial |-> before, routing |-> "old",
    swaps |-> <<swap(NoSchedule, NoRouting, 4), swap(after, "new", 4)>>]}
SameCycle == Later(Even, Idle)
OtherCycle == Later(Even, Short)

=============================================================================
