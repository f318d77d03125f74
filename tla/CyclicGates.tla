---------------------------- MODULE CyclicGates -----------------------------
(***************************************************************************)
(* What a gate controller promises: a program of gate states that repeats, *)
(* in which time passes only while the gates stand as the program says for *)
(* that moment of its cycle, and which is exchanged for a requested one    *)
(* only between two cycles.  Nothing is said of ticks, indices or timers.  *)
(***************************************************************************)
EXTENDS GateSchedule

VARIABLES
  active,     \* the program being run; <<>> before the first cycle
  pending,    \* the program to run next, or NoSchedule
  position,   \* units since the cycle began
  open        \* the gates that are open

vars == <<active, pending, position, open>>

\* The gates that program s opens at position p of its cycle; a program
\* without entries opens them all.
Prescribed(s, p) ==
  IF IsEmpty(s) THEN Gate
  ELSE LET i == CHOOSE k \in 0 .. Len(s) - 1 :
                  StartOf(s, k) <= p /\ p < StartOf(s, k + 1)
       IN  Object(s, i)

Init ==
  /\ active = <<>>
  /\ pending \in Schedule
  /\ position = 0
  /\ open \in SUBSET Gate

InForce == position < CycleLength(active) /\ open = Prescribed(active, position)

\* A unit of time passes under the gates the program prescribes.
Pass ==
  /\ InForce
  /\ position' = position + 1
  /\ UNCHANGED <<active, pending, open>>

\* Between two entries the gates are set for the entry that begins.
Switch ==
  /\ position < CycleLength(active)
  /\ open' = Prescribed(active, position)
  /\ UNCHANGED <<active, pending, position>>

\* Between two cycles the pending program, if any, becomes the active one.
Restart ==
  /\ position = CycleLength(active)
  /\ active' = IF pending = NoSchedule THEN active ELSE pending
  /\ pending' = NoSchedule
  /\ position' = 0
  /\ open' = Prescribed(active', 0)

Request ==
  /\ pending' \in Schedule
  /\ UNCHANGED <<active, position, open>>

Next == Pass \/ Switch \/ Restart \/ Request

Spec == Init /\ [][Next]_vars
=============================================================================
