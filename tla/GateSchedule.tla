---------------------------- MODULE GateSchedule ----------------------------
(***************************************************************************)
(* Gate control lists as the gate controller reads them: a schedule is a   *)
(* sequence of entries, each with the set of gates its bit vector opens    *)
(* and a length in clock ticks.  The code indexes entries from 0.          *)
(*                                                                         *)
(* The unit of time is the time the port needs for one bit, so a number of *)
(* bits and the time to send them are the same number; a clock tick lasts  *)
(* ClockRate of these units.                                               *)
(***************************************************************************)
EXTENDS Integers, Sequences, FiniteSets

CONSTANTS
  Gate,       \* indices of the transmission gates, one per queue
  MTU,        \* kEthernet2MaximumTransmissionUnitBitLength
  ClockRate,  \* the length of a clock tick
  NoSchedule  \* an empty unique_ptr to a schedule, not an empty schedule

ASSUME GateAssumption == Gate \subseteq Nat /\ Gate # {}
ASSUME MTUAssumption == MTU \in Nat \ {0}
ASSUME ClockRateAssumption == ClockRate \in Nat \ {0}

Entry == [open : SUBSET Gate, length : Nat \ {0}]

Schedule == Seq(Entry)

ASSUME NoScheduleAssumption == NoSchedule \notin Schedule

IsEmpty(s) == s = <<>>

Object(s, i) == s[i + 1].open

\* How long entry i of schedule s lasts.
Duration(s, i) == s[i + 1].length * ClockRate

\* When entry i begins, counted from the start of the cycle.
StartOf(s, i) ==
  LET start[k \in 0 .. Len(s)] ==
        IF k = 0 THEN 0 ELSE start[k - 1] + Duration(s, k - 1)
  IN  start[i]

\* getLength(), in units.
CycleLength(s) == StartOf(s, Len(s))

\* The schedule a port gets when the XML says nothing about it: one entry as
\* long as the common cycle, every gate open.
DefaultSchedule(cycle) == <<[open |-> Gate, length |-> cycle]>>

(***************************************************************************)
(* The n-th entry, n = 0, 1, ..., that the lookahead from entry i of the   *)
(* current schedule reads: the current schedule again and again, or, when  *)
(* another one waits to be swapped in, the current one once to its end and *)
(* then the next one again and again.                                      *)
(***************************************************************************)
LookaheadEntry(current, next, i, n) ==
  IF next = NoSchedule
    THEN current[((i + n) % Len(current)) + 1]
  ELSE IF i + n < Len(current)
    THEN current[i + n + 1]
  ELSE next[((i + n - Len(current)) % Len(next)) + 1]

(***************************************************************************)
(* What calculateMaxBit's loop returns, started at entry i, since units    *)
(* after it began: the bits summed up entry by entry until an entry closes *)
(* the gate, or the MTU once the sum reaches it.                           *)
(***************************************************************************)
MaxBit(gate, current, next, i, since) ==
  LET entry(n) == LookaheadEntry(current, next, i, n)
      bits[n \in 0 .. MTU] ==
        IF n = 0 THEN 0
        ELSE bits[n - 1] + entry(n - 1).length * ClockRate
               - (IF n = 1 THEN since ELSE 0)
      stops(n) == bits[n] >= MTU \/ gate \notin entry(n).open
      stop == CHOOSE n \in 0 .. MTU :
                stops(n) /\ \A m \in 0 .. n - 1 : ~stops(m)
  IN  IF bits[stop] >= MTU THEN MTU ELSE bits[stop]

(***************************************************************************)
(* The same number, said without the loop: for how many of the next MTU    *)
(* units the gate stays open.  The loop is checked against it.             *)
(***************************************************************************)
OpenAfter(gate, current, next, i, since, d) ==
  LET entry(n) == LookaheadEntry(current, next, i, n)
      reach[n \in 0 .. MTU] ==
        IF n = 0 THEN entry(0).length * ClockRate - since
        ELSE reach[n - 1] + entry(n).length * ClockRate
      at == CHOOSE n \in 0 .. MTU :
              d < reach[n] /\ \A m \in 0 .. n - 1 : reach[m] <= d
  IN  gate \in entry(at).open

WindowLeft(gate, current, next, i, since) ==
  Cardinality({d \in 0 .. MTU - 1 :
    \A e \in 0 .. d : OpenAfter(gate, current, next, i, since, e)})
=============================================================================
