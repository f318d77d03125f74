------------------------------ MODULE TickTimer ------------------------------
(***************************************************************************)
(* What a clock promises to its listeners: whoever subscribes a tick is    *)
(* notified once, at the very instant at which that many ticks have passed *)
(* since the last one, and reading the clock changes nothing.              *)
(***************************************************************************)
EXTENDS Integers

CONSTANTS Listener, ClockRate, IdleTicks

VARIABLES
  now,
  pending   \* pairs of a listener and the instant of a tick it waits for

vars == <<now, pending>>

TickInstant(ticks) == ((now \div ClockRate) + ticks) * ClockRate

Init == now = 0 /\ pending = {}

SubscribeTick(l, k) ==
  /\ pending' = pending \cup {<<l, TickInstant(k)>>}
  /\ UNCHANGED now

\* A listener is notified, and may subscribe itself again.
Notify ==
  /\ \E l \in Listener :
       /\ <<l, now>> \in pending
       /\ \/ pending' = pending \ {<<l, now>>}
          \/ \E k \in IdleTicks :
               pending' = (pending \ {<<l, now>>}) \cup {<<l, TickInstant(k)>>}
  /\ UNCHANGED now

\* Time does not pass while somebody is to be notified.
Elapse ==
  /\ \A p \in pending : p[2] > now
  /\ now' = now + 1
  /\ UNCHANGED pending

Next ==
  \/ \E l \in Listener, k \in IdleTicks : SubscribeTick(l, k)
  \/ Notify
  \/ Elapse

Spec == Init /\ [][Next]_vars
=============================================================================
