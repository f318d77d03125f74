---------------------------- MODULE PortService -----------------------------
(***************************************************************************)
(* What an egress port promises: packets wait in one FIFO queue per        *)
(* traffic class, the port serves one packet at a time, and it takes it,   *)
(* in one step, from the head of the queue that strict priority prefers    *)
(* among those that are ready at that moment: express queues before        *)
(* others, a higher index before a lower one.                              *)
(*                                                                         *)
(* When a queue is ready (its gate is open long enough) changes by itself. *)
(***************************************************************************)
EXTENDS Integers, Sequences

CONSTANTS Gate, Express

VARIABLES
  waiting,   \* per gate: the lengths of the packets that wait
  ready,     \* the gates whose first packet may be served now
  serving    \* the gate of the packet being served, or Nobody

vars == <<waiting, ready, serving>>

Nobody == -1

Init ==
  /\ waiting = [g \in Gate |-> <<>>]
  /\ ready \in SUBSET Gate
  /\ serving = Nobody

Preferred(g) ==
  /\ g \in Express \/ ready \cap Express = {}
  /\ \A h \in ready : (h \in Express \/ g \notin Express) => h <= g

Arrive ==
  /\ \E g \in Gate :
       /\ Len(waiting'[g]) = Len(waiting[g]) + 1
       /\ waiting' = [waiting EXCEPT ![g] =
                        Append(@, waiting'[g][Len(waiting[g]) + 1])]
  /\ UNCHANGED serving

Serve ==
  /\ serving = Nobody
  /\ serving' \in ready
  /\ Preferred(serving')
  /\ waiting[serving'] # <<>>
  /\ waiting' = [waiting EXCEPT ![serving'] = Tail(@)]

Complete ==
  /\ serving # Nobody
  /\ serving' = Nobody
  /\ UNCHANGED waiting

ReadinessChanges == UNCHANGED <<waiting, serving>>

Next ==
  /\ ready' \in SUBSET Gate
  /\ Arrive \/ Serve \/ Complete \/ ReadinessChanges

Spec == Init /\ [][Next]_vars
=============================================================================
