---------------------------- MODULE ScheduleSwap ----------------------------
(***************************************************************************)
(* Schedule swaps in a network: a host with a scheduled traffic generator  *)
(* and a switch with a gate controller and a filtering database, each      *)
(* device with a clock and a ScheduleSwap.  A ScheduleSwap hands a new     *)
(* configuration to the parts of its device, and every part takes it when  *)
(* its own cycle is over.                                                  *)
(*                                                                         *)
(* A clock calls the listeners of one tick in the order in which they      *)
(* subscribed (Clock), so that a part may get its tick before or after the *)
(* ScheduleSwap of its device.  The two clocks tick at the same instants;  *)
(* their order at an instant is open.  The unit of time is the tick.       *)
(***************************************************************************)
EXTENDS GateController, TrafficGenerator

CONSTANTS
  Plans,        \* what the XML files may say: configurations and when to swap
  LongestCycle  \* no cycle of a plan is longer

\* routing is a database, NoRouting when the entry has none, and Elsewhere when
\* its databases leave out this switch.
NoRouting == "none"
Elsewhere == "elsewhere"

\* An entry without a schedule has the configuration NoSchedule.
ASSUME PlansAssumption ==
  \A p \in Plans :
    LET entries == {p.swaps[i] : i \in 1 .. Len(p.swaps)}
        swapped == {e.configuration : e \in entries}
    IN  /\ p.swaps \in Seq(entries)
        /\ \A e \in entries : e.length \in Nat
        /\ \A k \in {p.initial} \cup (swapped \ {NoSchedule}) :
             /\ k.gates \in Schedule \ {<<>>}
             /\ k.host \in HostSchedules
             /\ {k.cycle, CycleLength(k.gates), k.host.cycle} \subseteq 1 .. LongestCycle
             /\ IsOrdered(k.host)
ASSUME PlainAssumption == ~Preemption /\ ClockRate = 1

VARIABLES
  plan,            \* never changes
  operFdb, adminFdb, changeDatabase, cycle, newCycle,  \* FilteringDatabase
  untilDatabase,   \* ticks until the database's tick
  scheduleSwap,    \* per device: its ScheduleSwap's index and subscription
  order,           \* per device: its clock's listeners by subscription
  sinceLoad        \* history: ticks since a device's ScheduleSwap last loaded

databaseVars ==
  <<operFdb, adminFdb, changeDatabase, cycle, newCycle, untilDatabase>>
vars == <<plan, controllerVars, generatorVars, databaseVars, scheduleSwap,
          order, sinceLoad>>

Device == {"switch", "host"}

-----------------------------------------------------------------------------
(* What the parts of a device are meant to run *)

Loads(entry) == entry.configuration # NoSchedule

NamesRouting(entry) == Loads(entry) /\ entry.routing \notin {NoRouting, Elsewhere}

Latest(swaps) == CHOOSE i \in swaps \cup {0} : \A j \in swaps : j <= i

\* The configuration after the first n swaps.
ConfigurationAfter(n) ==
  LET i == Latest({j \in 1 .. n : Loads(plan.swaps[j])})
  IN  IF i = 0 THEN plan.initial ELSE plan.swaps[i].configuration

RoutingAfter(n) ==
  LET i == Latest({j \in 1 .. n : NamesRouting(plan.swaps[j])})
  IN  IF i = 0 THEN plan.routing ELSE plan.swaps[i].routing

-----------------------------------------------------------------------------
(* The clocks *)

Until(device, listener) ==
  CASE listener = "gates" -> untilTick
    [] listener = "database" -> untilDatabase
    [] listener = "generator" -> untilSend
    [] listener = "swap" -> scheduleSwap[device].until

\* Of those that are due, the listener that subscribed first is called first.
IsCalled(device, listener) ==
  \E i \in DOMAIN order[device] :
    /\ order[device][i] = listener
    /\ Until(device, listener) = 0
    /\ \A j \in 1 .. i - 1 : Until(device, order[device][j]) # 0

\* The clock takes its listener off the list.
Others(device, listener) ==
  LET o == order[device]
      i == CHOOSE i \in DOMAIN o : o[i] = listener
  IN  SubSeq(o, 1, i - 1) \o SubSeq(o, i + 1, Len(o))

Unsubscribe(device, listener) ==
  order' = [order EXCEPT ![device] = Others(device, listener)]

\* A listener that is called subscribes its next tick.
Subscribe(device, listener) ==
  order' = [order EXCEPT ![device] = Append(Others(device, listener), listener)]

-----------------------------------------------------------------------------
(* initialize, in the order of the submodules in VlanEtherSwitch.ned and     *)
(* VlanEtherHostSched.ned                                                    *)

Init ==
  /\ plan \in Plans
  /\ ControllerInit
  /\ nextSchedule = plan.initial.gates
  /\ GeneratorInit(plan.initial.host)
  /\ operFdb = NoRouting
  /\ adminFdb = plan.routing
  /\ changeDatabase = TRUE
  /\ cycle = plan.initial.cycle
  /\ newCycle = plan.initial.cycle
  /\ untilDatabase = 0
  /\ scheduleSwap = [d \in Device |-> [index |-> 0, until |-> 0]]
  /\ order = [d \in Device |->
       IF d = "switch" THEN <<"gates", "database", "swap">>
                       ELSE <<"generator", "swap">>]
  /\ sinceLoad = [d \in Device |-> 0]

-----------------------------------------------------------------------------
(* FilteringDatabase *)

\* loadDatabase with the cycle of the schedule that comes with it.
LoadDatabase(entry) ==
  /\ newCycle' = (IF entry.routing = NoRouting
                    THEN newCycle ELSE entry.configuration.cycle)
  /\ IF NamesRouting(entry)
       THEN adminFdb' = entry.routing /\ changeDatabase' = TRUE
       ELSE UNCHANGED <<adminFdb, changeDatabase>>
  /\ UNCHANGED <<operFdb, cycle, untilDatabase>>

DatabaseTick ==
  /\ IsCalled("switch", "database")
  /\ IF changeDatabase
       THEN /\ operFdb' = adminFdb
            /\ adminFdb' = NoRouting
            /\ cycle' = newCycle
            /\ changeDatabase' = FALSE
       ELSE UNCHANGED <<operFdb, adminFdb, cycle, changeDatabase>>
  /\ untilDatabase' = cycle'
  /\ Subscribe("switch", "database")
  /\ UNCHANGED <<plan, controllerVars, generatorVars, newCycle, scheduleSwap,
                 sinceLoad>>

-----------------------------------------------------------------------------
(* GateController and VlanEtherTrafGenSched *)

GatesTick ==
  /\ IsCalled("switch", "gates")
  /\ TickEntry
  /\ Subscribe("switch", "gates")
  /\ UNCHANGED <<plan, generatorVars, databaseVars, scheduleSwap, sinceLoad>>

TrafficTick ==
  /\ IsCalled("host", "generator")
  /\ GeneratorTick
  /\ Subscribe("host", "generator")
  /\ UNCHANGED <<plan, controllerVars, databaseVars, scheduleSwap, sinceLoad>>

-----------------------------------------------------------------------------
(* ScheduleSwap *)

\* An entry of a switch's plan goes to the gate controllers and, if it has a
\* routing as well, to the database; a host's goes to the generator.
Load(device, entry) ==
  IF ~Loads(entry)
    THEN UNCHANGED <<controllerVars, generatorVars, databaseVars, sinceLoad>>
  ELSE /\ sinceLoad' = [sinceLoad EXCEPT ![device] = 0]
       /\ IF device = "switch"
            THEN /\ LoadSchedule(entry.configuration.gates)
                 /\ LoadDatabase(entry)
                 /\ UNCHANGED generatorVars
            ELSE /\ LoadHostSchedule(entry.configuration.host)
                 /\ UNCHANGED <<controllerVars, databaseVars>>

\* Mutant: the last entry is never reached.
IsLastStopsEarly(i) == i + 1 >= Len(plan.swaps)

\* No entry follows the one with this index.
IsLast(i) == i >= Len(plan.swaps)

\* tick: the length of an entry is the time until the next one.
SwapEntry(device) ==
  LET i == scheduleSwap[device].index + 1
  IN  /\ IsCalled(device, "swap")
      /\ i <= Len(plan.swaps)
      /\ Load(device, plan.swaps[i])
      /\ IF IsLast(i) THEN Unsubscribe(device, "swap") ELSE Subscribe(device, "swap")
      /\ scheduleSwap' = [scheduleSwap EXCEPT ![device] =
           [index |-> i, until |-> IF IsLast(i) THEN Never ELSE plan.swaps[i].length]]
      /\ UNCHANGED plan

\* tick without any entry: nothing happens, and no tick is subscribed.
SwapNothing(device) ==
  /\ IsCalled(device, "swap")
  /\ plan.swaps = <<>>
  /\ Unsubscribe(device, "swap")
  /\ scheduleSwap' = [scheduleSwap EXCEPT ![device].until = Never]
  /\ UNCHANGED <<plan, controllerVars, generatorVars, databaseVars, sinceLoad>>

-----------------------------------------------------------------------------
(* Time *)

Elapse ==
  /\ \A d \in Device : \A i \in DOMAIN order[d] : Until(d, order[d][i]) # 0
  /\ ControllerElapse
  /\ GeneratorElapse
  /\ untilDatabase' = untilDatabase - 1
  /\ scheduleSwap' = [d \in Device |->
       IF scheduleSwap[d].until = Never THEN scheduleSwap[d]
       ELSE [scheduleSwap[d] EXCEPT !.until = @ - 1]]
  /\ sinceLoad' = [d \in Device |->
       IF sinceLoad[d] > LongestCycle THEN sinceLoad[d] ELSE sinceLoad[d] + 1]
  /\ UNCHANGED <<plan, operFdb, adminFdb, changeDatabase, cycle, newCycle, order>>

Next ==
  \/ DatabaseTick
  \/ GatesTick
  \/ TrafficTick
  \/ \E d \in Device : SwapEntry(d) \/ SwapNothing(d)
  \/ Elapse

\* The event loop of the simulation never stops.
Spec == Init /\ [][Next]_vars /\ WF_vars(Next)

-----------------------------------------------------------------------------
(* Properties *)

\* A part that does not yet run what its ScheduleSwap has handed over is still
\* in the cycle in which it got it: whatever the order of the listeners of a
\* tick, no part of a device is behind by more than one of its own cycles.
ChangesWithinACycle ==
  LET switch == scheduleSwap["switch"].index
      host   == scheduleSwap["host"].index
  IN  /\ currentSchedule # ConfigurationAfter(switch).gates =>
           sinceLoad["switch"] <= CycleLength(currentSchedule)
      /\ hostSchedule # ConfigurationAfter(host).host =>
           sinceLoad["host"] <= hostSchedule.cycle
      /\ operFdb # RoutingAfter(switch) => sinceLoad["switch"] <= cycle

\* All schedules of the plan have one cycle.
Uniform ==
  \A n \in 0 .. Len(plan.swaps) :
    LET k == ConfigurationAfter(n)
    IN  /\ k.cycle = plan.initial.cycle
        /\ CycleLength(k.gates) = k.cycle
        /\ k.host.cycle = k.cycle

\* The host's, the gates' and the database's cycles begin together.
InPhase ==
  /\ (Position - HostPosition) % cycle = 0
  /\ (HostPosition + untilDatabase) % cycle = 0

\* If all schedules have one cycle, the host's, the gates' and the database's
\* cycles begin at the same instants, in whichever of them each takes a new
\* schedule: the gates open when the host's frames come.
StaysInPhase == Uniform => InPhase

\* In the end all parts run what the last swap of the plan gave them.
EventuallyAgree ==
  LET n == Len(plan.swaps)
  IN  <>[](/\ currentSchedule = ConfigurationAfter(n).gates
           /\ hostSchedule = ConfigurationAfter(n).host
           /\ operFdb = RoutingAfter(n))

\* What a reader may expect of a swap and the code does not do: the parts take
\* the new configuration at the same instant ...
ChangesTogether ==
  [][Elapse => LET n == scheduleSwap["host"].index
               IN  (currentSchedule = ConfigurationAfter(n).gates)
                     = (hostSchedule = ConfigurationAfter(n).host)]_vars

\* ... and, after a change of the cycle, the parts are in phase again.
EventuallyInPhase == <>[]InPhase
=============================================================================
