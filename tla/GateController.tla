--------------------------- MODULE GateController ---------------------------
(***************************************************************************)
(* The gate controller of one egress port: on every tick it has subscribed *)
(* it opens and closes the transmission gates as the next entry of its     *)
(* schedule says, swaps in a new schedule between two cycles, and asks a   *)
(* preemptable MAC to hold preemptable traffic ahead of an entry that      *)
(* opens an express gate.                                                  *)
(*                                                                         *)
(* This module is the controller with its clock and the MAC's hold flag;   *)
(* EgressPort composes it with the queuing network and a MAC.              *)
(***************************************************************************)
EXTENDS GateSchedule

CONSTANTS
  Express,           \* the gates of express queues
  Preemption,        \* the MAC preempts, and enableHoldAndRelease is set
  HoldAdvance,       \* getHoldAdvance(), in units
  LengthAware,       \* lengthAwareSchedulingEnabled
  InitialSchedules,  \* what initialize() may load
  SwapSchedules      \* what ScheduleSwap may load later

ASSUME ExpressAssumption == Express \subseteq Gate
ASSUME FlagsAssumption == {Preemption, LengthAware} \subseteq BOOLEAN
ASSUME HoldAdvanceAssumption == HoldAdvance \in Nat
ASSUME SchedulesAssumption ==
  InitialSchedules \subseteq Schedule /\ SwapSchedules \subseteq Schedule

VARIABLES
  currentSchedule,
  nextSchedule,     \* a schedule or NoSchedule
  scheduleIndex,    \* the entry the next tick applies
  sinceLastChange,  \* simulation time since lastChange
  untilTick,        \* time until the subscribed tick, or Never
  gateOpen,         \* the gates whose gateOpen is true
  onHold,           \* the MAC's flag
  holdRequests,     \* times until the MAC's scheduled hold requests
  failed            \* the run died: a division by zero or a cRuntimeError

controllerVars == <<currentSchedule, nextSchedule, scheduleIndex,
                    sinceLastChange, untilTick, gateOpen, onHold,
                    holdRequests, failed>>

Never == -1

ControllerTypeOK ==
  /\ currentSchedule \in Schedule
  /\ nextSchedule \in Schedule \cup {NoSchedule}
  /\ scheduleIndex \in Nat
  \* the schedule is read at this index without a check
  /\ scheduleIndex = 0 \/ scheduleIndex < Len(currentSchedule)
  /\ sinceLastChange \in Nat
  /\ untilTick \in Nat \cup {Never}
  /\ gateOpen \in SUBSET Gate
  /\ onHold \in BOOLEAN
  /\ holdRequests \in SUBSET Nat
  /\ failed \in BOOLEAN

-----------------------------------------------------------------------------
(* calculateMaxBit *)

\* The entry in force: the one before scheduleIndex.
CurrentIndex == (scheduleIndex + Len(currentSchedule) - 1) % Len(currentSchedule)

\* The clock's time since lastChange: whole ticks only, what ClockBase's
\* getTime returns between two ticks.
ClockTimeSinceLastChange == (sinceLastChange \div ClockRate) * ClockRate

\* Mutant: the lookahead starts at the entry that the next tick applies.
CalculateMaxBitFromNextEntry(gate) ==
  MaxBit(gate, currentSchedule, nextSchedule, scheduleIndex,
         ClockTimeSinceLastChange)

\* Mutant: what has elapsed of the entry in force is not taken off.
CalculateMaxBitFromEntryStart(gate) ==
  MaxBit(gate, currentSchedule, nextSchedule, CurrentIndex, 0)

CalculateMaxBit(gate) ==
  MaxBit(gate, currentSchedule, nextSchedule, CurrentIndex,
         ClockTimeSinceLastChange)

-----------------------------------------------------------------------------
(* initialize *)

\* The hold that initialize() means to request for the first entry, from the
\* schedule it looks at.
HoldsFirstEntry(schedule) ==
  Preemption /\ ~IsEmpty(schedule) /\ Object(schedule, 0) \cap Express # {}

ControllerInit ==
  /\ currentSchedule = <<>>
  /\ nextSchedule \in InitialSchedules
  /\ scheduleIndex = 0
  /\ sinceLastChange = 0
  /\ untilTick = 0
  /\ gateOpen = Gate
  /\ onHold = HoldsFirstEntry(currentSchedule)
  /\ holdRequests = {}
  /\ failed = FALSE

-----------------------------------------------------------------------------
(* tick *)

\* Mutant: a waiting schedule is swapped in at whatever entry comes next.
SwapsAtAnyEntry == nextSchedule # NoSchedule

\* Mutant: the index is compared with the size, which it never reaches.
SwapsPastLastEntry ==
  scheduleIndex >= Len(currentSchedule) /\ nextSchedule # NoSchedule

SwapsSchedule == scheduleIndex = 0 /\ nextSchedule # NoSchedule

TickSchedule == IF SwapsSchedule THEN nextSchedule ELSE currentSchedule

TickNextSchedule == IF SwapsSchedule THEN NoSchedule ELSE nextSchedule

\* Mutant: the release is forgotten when the next entry opens no express gate.
NeverReleases(open) == FALSE

\* The MAC is released when the entry opens no express gate.
ReleaseNeeded(open) == Preemption /\ open \cap Express = {} /\ onHold

\* The gates of the entry after entry i: the first entry of the next schedule
\* at the end of a cycle, if one waits.
FollowingObject(current, next, i) ==
  IF next # NoSchedule /\ i = Len(current) - 1
    THEN Object(next, 0)
    ELSE Object(current, (i + 1) % Len(current))

NextIndex(current) == (scheduleIndex + 1) % Len(current)

\* Mutant: the advance is left out, so the hold comes with the express window.
HoldDelayWithoutAdvance(current, i) == Duration(current, i)

HoldDelay(current, i) == Duration(current, i) - HoldAdvance

OpenAllGates == Gate

\* An empty schedule was loaded: openAllGates, and no tick is subscribed.
\* Under length-aware scheduling setGateState or the gate-state-changed event
\* evaluates calculateMaxBit, which divides by the number of entries.
TickEmptySchedule ==
  /\ ~failed
  /\ untilTick = 0
  /\ SwapsSchedule
  /\ IsEmpty(nextSchedule)
  /\ currentSchedule' = nextSchedule
  /\ nextSchedule' = NoSchedule
  /\ untilTick' = Never
  /\ IF LengthAware
       THEN failed' = TRUE /\ gateOpen' = gateOpen
       ELSE failed' = FALSE /\ gateOpen' = OpenAllGates
  /\ UNCHANGED <<scheduleIndex, sinceLastChange, onHold, holdRequests>>

\* The next entry: release, set the gates, subscribe the tick that ends the
\* entry, schedule the hold for the entry after it, advance the index.
TickEntry ==
  /\ ~failed
  /\ untilTick = 0
  /\ ~IsEmpty(TickSchedule)
  /\ LET current  == TickSchedule
         next     == TickNextSchedule
         open     == Object(current, scheduleIndex)
         released == ReleaseNeeded(open)
         holds    == /\ Preemption
                     /\ FollowingObject(current, next, scheduleIndex)
                          \cap Express # {}
         delay    == HoldDelay(current, scheduleIndex)
     IN  /\ currentSchedule' = current
         /\ nextSchedule' = next
         /\ gateOpen' = open
         /\ untilTick' = Duration(current, scheduleIndex)
         /\ sinceLastChange' = 0
         /\ scheduleIndex' = NextIndex(current)
         /\ onHold' = (IF holds /\ delay = 0 THEN TRUE ELSE onHold /\ ~released)
         /\ holdRequests' = (IF holds /\ delay > 0
                               THEN holdRequests \cup {delay}
                               ELSE holdRequests)
         \* scheduleAt() into the past throws
         /\ failed' = (holds /\ delay < 0)

Tick == TickEmptySchedule \/ TickEntry

-----------------------------------------------------------------------------
(* loadScheduleOrDefault, called by ScheduleSwap: the last schedule loaded  *)
(* before the swap wins.                                                    *)

LoadSchedule(schedule) ==
  /\ ~failed
  /\ nextSchedule' = schedule
  /\ UNCHANGED <<currentSchedule, scheduleIndex, sinceLastChange, untilTick,
                 gateOpen, onHold, holdRequests, failed>>

\* A holdRequest self-message of the MAC is due: hold(SIMTIME_ZERO).
HoldRequest ==
  /\ ~failed
  /\ 0 \in holdRequests
  /\ onHold' = TRUE
  /\ holdRequests' = holdRequests \ {0}
  /\ UNCHANGED <<currentSchedule, nextSchedule, scheduleIndex,
                 sinceLastChange, untilTick, gateOpen, failed>>

-----------------------------------------------------------------------------
(* Time *)

\* No tick and no hold request is due at this instant.
ControllerQuiet == untilTick # 0 /\ 0 \notin holdRequests

\* One unit passes.  Without a subscription nobody reads sinceLastChange.
ControllerElapse ==
  /\ ~failed
  /\ ControllerQuiet
  /\ IF untilTick = Never
       THEN UNCHANGED <<untilTick, sinceLastChange>>
       ELSE /\ untilTick' = untilTick - 1
            /\ sinceLastChange' = sinceLastChange + 1
  /\ holdRequests' = {t - 1 : t \in holdRequests}
  /\ UNCHANGED <<currentSchedule, nextSchedule, scheduleIndex, gateOpen,
                 onHold, failed>>

\* The controller alone, whose ScheduleSwap may load any schedule at any time.
ControllerNext ==
  \/ Tick
  \/ HoldRequest
  \/ ControllerElapse
  \/ \E s \in SwapSchedules : LoadSchedule(s)

ControllerSpec == ControllerInit /\ [][ControllerNext]_controllerVars

-----------------------------------------------------------------------------
(* Properties *)

\* calculateMaxBit's loop over the current and the waiting schedule agrees with
\* what is left of the window: between two ticks its result is the number of
\* the next MTU units for which the gate stays open, too large by less than one
\* clock tick, because it measures the elapsed part in whole ticks.
MaxBitIsWindow ==
  (untilTick > 0 /\ ~IsEmpty(currentSchedule)) =>
    \A g \in Gate :
      CalculateMaxBit(g) - WindowLeft(g, currentSchedule, nextSchedule,
                                      CurrentIndex, sinceLastChange)
        \in 0 .. ClockRate - 1

Position ==
  IF IsEmpty(currentSchedule) THEN 0
  ELSE StartOf(currentSchedule, CurrentIndex) + sinceLastChange

Program == INSTANCE CyclicGates
             WITH active <- currentSchedule, pending <- nextSchedule,
                  position <- Position, open <- gateOpen

\* The ticks, the index and the subscription implement a cyclic program: time
\* never passes under gates other than those the schedule gives for that moment
\* of the cycle, and a schedule is replaced only when its cycle is over.
RunsItsProgram == Program!Spec

\* A schedule that waits in nextSchedule is loaded after the current cycle
\* (GateController.h:53); only a controller that loaded an empty schedule, and
\* so has no tick, leaves it waiting.
WaitingScheduleIsLoaded ==
  (nextSchedule # NoSchedule /\ untilTick # Never) ~> nextSchedule = NoSchedule

\* What initialize() sets out to do (GateController.cc:81): an express gate that
\* the first entry opens finds the MAC on hold.
FirstEntryIsHeld ==
  [][TickEntry /\ IsEmpty(currentSchedule) /\ gateOpen' \cap Express # {}
       => onHold']_controllerVars

\* What the comment in tick says of an empty schedule (GateController.cc:123):
\* when one is loaded, all gates are opened.
EmptyScheduleOpensAllGates ==
  IsEmpty(currentSchedule) => gateOpen = Gate /\ ~failed
=============================================================================
