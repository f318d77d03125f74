# A TLA+ model of NeSTiNg

NeSTiNg simulates Time-Sensitive Networking switches on top of OMNeT++ and
INET: time-aware gates (IEEE 802.1Qbv), credit-based shaping (802.1Qav), frame
preemption (802.1Qbu / 802.3br) and filtering databases (802.1Q).  This
directory models the parts of it that decide *when*, *where* and *with which
priority* a frame goes, checks them with TLC on small instances and proves their
safety, and four refinements, with TLAPS.

All paths below are relative to `src/src/nesting/` unless they begin with
`src/`.

    tlc -config gc.cfg MCGateController           # likewise the other runs
    tlapm GateControllerProofs.tla                # likewise the other *Proofs modules

## 1. Inventory

### 1.1 How the parts interact

Everything runs in one thread under OMNeT++'s event loop.  Concurrency is that
of the *event list*: messages ordered by time, then by scheduling priority (a
smaller number first), then first-in first-out.  What looks like one operation
is a chain of self-messages that are due at the same instant, and the events of
other modules come in between.

    host -- relay --> [ QueuingFrames -> queue -> TSA -> gate ] x 8 -> TransmissionSelection -> MAC -- link
                           ^                      |                        |            ^
                           | filtering DB         | isGateOpen, maxBit     | request    | hold / release
                        clock tick <-- clock --> GateController -----------+------------+

* The MAC asks the `TransmissionSelection` for one packet.  That module asks
  one gate, the gate its TSA (transmission selection algorithm), the TSA its
  queue, and the packet comes back the same way.  Each hop is a self-message
  that is due at once.
* In the other direction a queue that gets a packet notifies its TSA, the TSA
  the gate, the gate the transmission selection, which turns a pending request
  into a request to a gate.
* `isEmpty` is answered by direct calls down the same chain, so a choice is
  made on the state of *now* and carried out some events *later*.
* `TransmissionSelection` sets the scheduling priority of its self-messages to
  1 (`TransmissionSelection.cc:23`): it takes its turn when everything of
  priority 0 that is due at the instant has been handled.
* The clock calls `tick` of whoever subscribed.  The gate controller sets gate
  flags in that call; the gates tell TSAs and transmission selection by events.
* The gate controller calls `hold` and `release` of a preemptable MAC.
* `ScheduleSwap` calls `loadScheduleOrDefault` of gate controllers and traffic
  generators and `loadDatabase` of filtering databases, in a tick of its device's
  clock.  The clock calls the listeners of one tick in the order in which they
  subscribed, so a part of the device may get that tick before or after the
  `ScheduleSwap`.
* At every hop `VLANEncap` turns the tag of a frame into control information and
  back, and `QueuingFrames` turns an indication into a request and its priority
  into a queue.

### 1.2 Components

| Component | State | Operations | Hard behaviour | Correct when |
|---|---|---|---|---|
| Schedule (`common/schedule/Schedule.h`, `ScheduleBuilder.cc`) | entries, total length | build, index, length | empty schedules; the last entry | index and length agree |
| Gate controller (`ieee8021q/queue/gating/GateController.*`) | current and next schedule, index, hold message, last change | `initialize`, `tick`, `calculateMaxBit`, `loadScheduleOrDefault`, hold and release | a swap takes effect at the end of a cycle while index, lookahead and subscription refer to the old schedule; lookahead over entry and cycle boundaries; whole ticks | gates follow a cyclic program; lookahead equals the rest of the window; holds are in time and end |
| Transmission gate (`gating/TransmissionGate.*`) | open flag, self-messages | `requestPacket`, `packetEnqueued`, `setGateState`, `isEmpty` | checks made twice, three events apart | a chosen gate still has its packet |
| Queue (`queue/framePreemption/LengthAwareQueue.*`) | packets, free capacity | enqueue or drop, `isEmpty(maxBits)`, dequeue | drop when full; a grant measured in bits | buffer account exact, FIFO |
| TSA base, strict priority (`transmissionSelectionAlgorithms/TSAlgorithm.*`) | self-messages | forwards requests, packets, notifications | as above | as above |
| Transmission selection (`queue/TransmissionSelection.*`) | two request flags, self-messages | `requestPacket`, `packetEnqueued`, `removePendingRequests`, choice | one pending request only; late notification | strict priority, express first; no lost wake-up |
| Credit-based shaper (`CreditBasedShaper.*`) | credit, state, time of the last event, two timers | five handlers | lazily updated credit; timers racing with gate events; truncation | credit exact, debt bounded, every class gets out of debt |
| Preemptable MAC (`linklayer/framePreemption/EtherMACFullDuplexPreemptable.*`) | transmit state, interrupted and saved frame, hold flag, recheck and preempt timers, receiver's partial frame | request, preempt, recheck, hold, release, continue, receive | preemption, hold and recheck meeting in one frame | legal fragments; complete frames; bounded wait of express frames |
| Fragments (`PreemptedFrame.*`) | frame, bytes sent | construct, copy | | the receiver can tell when a frame is complete |
| Clock (`ieee8021q/clock/ClockBase.*`, `IdealClock.cc`) | list of scheduled ticks with relative countdowns, last tick | `subscribeTick`, `getTime`, `handleMessage` | countdowns updated lazily; listeners subscribing while they are being notified | each subscription notified once, at its instant |
| Filtering database, relay (`ieee8021q/relay/*`) | operational and administrative entries, swap flag | learn, look up, forward, flood, load, swap | learning from floods; frames of other queues overtaking a flooded one; relays swapping at different instants | each addressee gets a frame once; frames move away from their source |
| Flooding relay (`ieee8021q/relay/FloodingRelayUnit.*`) | none | forward to all other ports | together with relays that learn | as above |
| Schedule swap (`gating/ScheduleSwap.*`) | list of swaps, index | `initialize`, `tick` | parts of a device, and devices, take a schedule in different ticks | everything changes within a cycle, stays in phase and ends up with the last configuration |
| Scheduled generator (`application/ethernet/VlanEtherTrafGenSched.*`, `HostSchedule*`) | current and next schedule, index | `initialize`, `tick`, `scheduleNextTickEvent`, `sendPacket`, `receivePacket`, `loadScheduleOrDefault` | sleeps for unsigned differences of times; a swap waits for the end of the cycle | every entry is sent once per cycle, at its time |
| Tags: `VLANEncap` (`linklayer/ethernet/VLANEncap.*`), `QueuingFrames` (`ieee8021q/queue/QueuingFrames.*`), `FrameForward` | none but parameters | conversion in both directions; choice of the queue | the conversions of several hops compose; two lanes on a link | tag kept; order per priority kept |
| Random generators (`VlanEtherTrafGen`, `EtherTrafGenQueue`) | parameters | burst, frame on request | | (sources of frames) |
| NED wiring (`src/nesting/**/*.ned`) | none | | an output that ends in a sink | |

`PROJECT.json` lists all of them with their sources, and every behaviour that
is hard to test, with the line where it bites and the properties that watch it.

## 2. Modules

| Module | Models | State and actions |
|---|---|---|
| `GateSchedule` | `Schedule`, default schedule, the arithmetic of `calculateMaxBit` | a schedule is a sequence of `[open, length]`; `MaxBit` follows the loop of the code, `WindowLeft` is its reference definition (how long the gate really stays open) |
| `GateController` | `GateController` | `TickEmptySchedule`/`TickEntry` are `tick` with swap, release, hold and resubscription; `HoldRequest` the self-message; `LoadSchedule` is `loadScheduleOrDefault`; `ControllerElapse` time |
| `CyclicGates` | abstract: a cyclic program of gates | `GateController` implements it (`RunsItsProgram`) |
| `HostSchedule` | `HostSchedule`, empty and default ones | `[cycle, entries]`, an entry being `[time, frame]`; `IsOrdered` is what the generator counts on |
| `TrafficGenerator` | `VlanEtherTrafGenSched` | `StartCycle` and `SendPacket` are the two branches of `tick`, each with the following `scheduleNextTickEvent` (`TicksUntilEvent`, modulo `UnsignedRange`); `LoadHostSchedule` is `loadScheduleOrDefault` |
| `Timetable` | abstract: a timetable by absolute times | `TrafficGenerator` implements it (`RunsItsTimetable`) |
| `ScheduleSwap` | `ScheduleSwap` of a switch and of a host, composed with `GateController`, `TrafficGenerator`, the swap of `FilteringDatabase`, and the order of a clock's listeners | `SwapEntry`/`SwapNothing` are `tick`; `GatesTick`, `TrafficTick`, `DatabaseTick` the ticks of the other listeners; `order` is the clock's list |
| `Queuing` | `QueuingFrames`, `LengthAwareQueue`, TSA base, `TransmissionGate`, `TransmissionSelection` | one variable per self-message and flag, one operator per handler |
| `EgressPort` | a port: `GateController`, `Queuing`, INET's MAC | the event loop: `GateEvent`, `PacketEvent`, `SelectionEvent`, `ControllerTick`, MAC timers, `Elapse`; `Arrive` and `SwapSchedule` from outside |
| `PortService` | abstract: one atomic strict-priority choice per packet | `EgressPort` implements it (`ServesAtomically`) |
| `CreditBasedShaper` | the shaper with its queue and gate | every handler, with its assertions |
| `PreemptableMac` | the preempting MAC, its peer receiver, hold and release | the fields form one record; methods are operators on it; handlers compose methods as the code does |
| `Clock` | `ClockBase` with `IdealClock` | `handleMessage` is split into its start, one step per listener, and its end |
| `TickTimer` | abstract: exact notification | `Clock` implements it (`NotifiesOnTime`) |
| `Relay` | `ForwardingRelayUnit`, `FloodingRelayUnit`, `FilteringDatabase`, in a tree of switches | `Forward` and `Flood` are the two `handleMessage`, `Tick` the swap, `LoadDatabase` the request for it; `Receive` takes a frame that is the next of its queue, `Send` puts a frame into the queues of the ports, which may drop it |
| `TagPath` | `VLANEncap`, `FrameForward`, `QueuingFrames` at every hop of a path, the generators' sends, the wiring of the ports' outputs | `Arrive` is a frame's way through a switch up to its queue, `Enqueue` what the queue does with it; `Transmit`/`Discard` the service of a queue, `Placements` what the MAC makes of it; `sendBurstPackets`, `requestPacket`, `sendPacket` and `Receive` the applications |
| `GateHolds` | the gate controller with a history variable | `foreseen` is the schedule that waited at the last tick, when the next hold was decided; the two properties of holds speak of it |
| `MCGateController`, `MCEgressPort`, `MCRelay`, `MCScheduleSwap`, `MCTagPath` | instances for TLC | |
| `GateControllerProofs`, `EgressPortProofs`, `ClockProofs`, `ShaperProofs`, `MacProofs`, `RelayProofs`, `SwapProofs`, `TagPathProofs` | theorems about the module of that name (`CreditBasedShaper`, `PreemptableMac`, `ScheduleSwap`; `GateControllerProofs` also about `GateHolds`) | inductive invariants, lemmas, refinement steps (section 7); `EgressPortProofs` and `SwapProofs` build on `GateControllerProofs` |

Operators whose comment begins with *Mutant:* are deliberate mistakes, each a
one-line variation of the operator below it.  Nothing uses them: they document
that a property notices the mistake (`mutants` in `PROJECT.json`).

### 2.1 Abstractions, and what justifies them

* **Time.** The unit is the time of one bit on the wire; `ClockRate` units make
  a clock tick.  `Elapse` moves every timer by a unit and is enabled only when
  nothing is due (`InstantOver`), as the event list works.
* **Order within an instant.** Events of one instant and priority are taken in
  *any* order, a superset of FIFO order, so properties that hold do not depend
  on FIFO.  `PreemptableMac` needs two rules of FIFO order and names them in its
  header: a tick was scheduled before an interframe gap that ends with it, and
  packets of the instant come behind what was scheduled earlier.
* **The wait of an express frame.** `expressWait` is a history variable of `PreemptableMac`: it
  counts for the express frame that is *next*, at the head of the queue or kept by the MAC, and
  starts again when a kept frame is overwritten (`mac_lost_express`).  Counted for the fragment
  instead there would be no bound, since each overwriting frame puts the fragment's end off.
* **One step for a request.** `CreditBasedShaper` and `PreemptableMac` take the
  chain from request to packet as one step.  `ServesAtomically` is what allows
  it: in `EgressPort`, where every hop is an event, the chain implements one
  atomic choice.
* **Swaps.** `SwapSchedule` is excluded while a request climbs
  (`ChainInProgress`).  `ScheduleSwap` acts in a tick of priority 0, and the
  chain begins with the transmission selection's turn, of priority 1, when all
  ticks of the instant have been handled.  The mutant `SwapScheduleAnytime`
  shows that the assertions would fail without that.
* **Queues and tags.** In `EgressPort` a packet is its length and the queue it
  joins is an arbitrary choice.  `TagPath` is the complement: a frame is its tag,
  and *any* queue that is not empty may be served next, a superset of what gates,
  shapers, holds and strict priority allow.  Lengths are left out there, so a queue of
  bounded capacity may have no room for any frame (`Enqueue`).
* **Links.** In `TagPath` a link is the sequence of frames in the order in which they
  will be complete at its end.  An express frame may be put before the
  last one if that one is preemptable and on a preempting port; `PreemptableMac` checks
  that such a frame is completed.  The next express frame may take the place of one that
  interrupts (`EtherMACFullDuplexPreemptable.cc:215`, shown in detail by `mac_lost_express`): the
  earlier one is lost.  A port preempts only if both ends of its link
  understand fragments (`PathAssumption`): INET's MAC in a host does not.
* **Order of listeners.** `ScheduleSwap` keeps the order of each clock's list.
  The two clocks of the network are independent modules, so their order at one instant is
  left open.  One unit is a clock tick there: nothing of the composition happens between ticks.
* **Clock in the ports.** The gate controller's ticks come when its
  subscription says; that the clock delivers them on time is what `Clock`
  checks.  A tick of a database for which nothing was loaded changes nothing and is
  a stutter.
* **Shaper.** The credit is an exact integer, one unit being what the class
  earns in a bit's time; rounding of doubles is not modelled, the truncation in
  `isCreditPositive` is.
* **MAC.** What INET's `EtherMACFullDuplex` does (end of transmission, gap,
  queue requests) is external and modelled from how the code uses and overrides
  it.  Lengths are scaled: 2 bits to a byte, fragments of at least 3 bytes, one byte of
  checksum, so that the comparisons of the code decide both ways within a few dozen
  units.  PAUSE frames, disconnected interfaces and the inner queue are left out.
* **Relay.** Frames cross a port and a link in any time.  Those that a port or a host puts into
  one queue (`queueOf`) stay in order: queues are first-in first-out, and a queue is express or
  not as a whole.  Between queues any order is possible, a superset of strict priority, gates,
  shapers and preemption (`IsNext`).  A port in `lossy` may lose any frame, when its
  queue has no room or its MAC overwrites it.  A port that stops for good (`tags_sink`) is left to
  `TagPath`.  Databases do not age (nothing turns ageing on), so the timestamps that
  `getPort` refreshes are invisible.
* **Bounds.** `MaxArrivals`, `MaxOthers`, `MaxExpress`, `MaxPreemptable`,
  `MaxFrames`, `MaxBurst` bound what a run sends, `Horizon` bounds time in `Clock`, a list of swaps
  has at most two entries.  `UnsignedRange` stands for 2^32 in `HostSchedule`.  All
  other variables are bounded by the system.

## 3. Runs that pass

| Run | Distinct states | Shows |
|---|---|---|
| `gc` | 1 208 | Four schedules swapped at any time, with hold and release; the first one may be empty.  `MaxBitIsWindow` (the lookahead is the rest of the window, never less, and too large by less than a tick), `RunsItsProgram`, `WaitingScheduleIsLoaded`, `HeldBeforeExpressWindow` (all express windows but the first of a run and that of a schedule loaded too late to hold for it), `HoldOnlyForExpressWindow` (nothing is kept back longer than the advance). |
| `port` | 108 000 | `GuardBand` (no frame is started that its window cannot hold, but for the fraction of a tick), `WorkConserving` (no lost wake-up), `BufferAccounting`, `EventuallyDrained`. |
| `port_swap` | 168 000 | Three queues and swaps between two schedules: `NoAssertionFails`, `ServesAtomically`. |
| `clock` | 5 200 | Two listeners that subscribe 0 to 3 ticks at any time, also while being notified, and read the clock or not: `NotifiesOnTime`, `SubscribesTheRightTick`, `CountdownsAgree` (between ticks as well), and the assertion of `handleMessage` (`DueTickIsFront`). |
| `cbs` | 306 000 | With and without gate closings, against other traffic: `CreditIsExact`, `DebtIsBounded`, the assertions on sending (`SendingIsSound`), `WorkConserving`, `EventuallyDrained`. |
| `mac` | 98 300 | Two express and two preemptable frames at every instant, with and without hold: `FragmentsAreLegal`, `PreemptableIsComplete`, `ExpressWaitIsBounded`, `HoldKeepsBack`, `AssertionsHold`, `EventuallyDelivered`. |
| `relay` | 257 400 | Two switches with two queues per port learn three hosts, replace complete and incomplete databases each on its own, lose frames, and the one at the edge or both may flood everything: `EntriesLeadToHosts`, `MovesAway`, `DeliveredOnce`, `GroupIsKnown`, `EventuallyReceived`. |
| `swap` | 312 300 | A switch and a host with the same list of swaps: `ChangesWithinACycle` (whatever part gets a tick first, none is behind by more than one of its own cycles), `StaysInPhase` (with equal cycles, gates, database and host begin their cycles together through all swaps), `RunsItsTimetable`, `EventuallyAgree`. |
| `tags` | 282 000 | Frames of three kinds of generators cross one or two switches, which may drop or overwrite them: `TagIsKept`, `LaterQueuesAreMoreUrgent`, `InOrderPerPriority`, `EventuallyArrives`. |

**Why the bounds are enough.**

* `gc`: schedules have entries shorter than, equal to and longer than the MTU, windows that
  end inside the cycle, at its end and after it, and one that never closes; the
  clock rate (2, 3) makes instants between ticks.  the run reaches
  every pair of a current and a waiting schedule at every position.
* `port`: a window of 3 ticks inside the cycle and one at its end; sizes 1 and
  4 of which one fits where the other does not; a queue that holds one large
  packet or several small ones, so the third arrival may be dropped.  Three arrivals suffice for a packet that
  is sent, one that waits, and one that arrives in the middle of the chain.
* `port_swap`: two express queues and one that is not, so that both parts of the
  preference (express first, then the higher index) decide.
* `clock`: two listeners can share an entry, precede and follow each other; a
  third would repeat one of these relations.  The horizon of 8 holds four ticks,
  one more than the longest wait.
* `cbs`: a class earns nothing while its gate is closed, and a window of 7 units
  ends in the middle of paying back a packet of 2 or 3 bits, so debts are carried
  over closings; four packets make a class fall into debt again after having
  recovered.
* `mac`: 6 bytes can be cut once at exactly one place, 9 bytes twice; two express
  frames hit both parts of a frame, the gap, or one another.
* `relay`: in a network of two switches each port relation occurs: host at the
  same switch, host behind the other switch, port between switches.  The
  third frame uses what the first two taught.  Where databases are swapped or
  switches flood, two frames are one that teaches or travels and one that uses it.
  Two priorities with a queue each are enough for one frame to overtake another.  Everything
  `EventuallyReceived` excepts happens: the ports between the switches and one to a host lose
  frames.
* `swap`: a swap comes before, at and after the end of a cycle (lengths 1, 4 and
  6 with cycles of 3 and 4), the second one sometimes while the first still waits;
  gate schedules with one entry and with several; host schedules with no entry, with
  entries at the start of the cycle, at its end, and two at one time; swaps that
  name a routing, no routing, or one that leaves this switch out.
* `tags`: all eight rows of the PCP table are used with all eight priorities by
  the generator that sends single frames through one switch; the longer paths have an untagged frame,
  two frames of one priority, a VLAN that is used, none, and one that is out of
  range.  Three frames are what it takes for one to overtake another behind a third;
  a cut frame and two express ones are also what it takes for one to be overwritten, and one queue
  of the run is bounded.  Two switches with different numbers of queues, and different default VLANs, show that the second does
  not decide again.

**Deadlock** is checked except in `cbs`, `relay` and `tags`.  In `cbs` a failed assertion
ends the run, as it ends the simulation; in `relay` and `tags` the system stops
when hosts have nothing more to send.  In `clock` listeners can read the
time for ever; the others run on time.

## 4. Fairness

The specifications assume weak fairness of the event loop as a whole
(`WF_vars(EventLoop)`): OMNeT++ takes the next event as long as there is one,
and time goes on when the instant has none left.  It is *not* assumed of
arrivals, schedule swaps or sends: nothing forces a host to do anything.  No
strong fairness is needed: the event loop is enabled until the run ends, and a port or
switch that has something to do stays enabled until it has done it.  `Relay` has weak
fairness per port and per switch, since each is served by a queue and a
clock of its own; what `EventuallyDrained` shows of an egress port justifies it.  It says that a
port delivers *some* frame, so a queue might be passed over as long as others have frames; hosts send
a bounded number.
In `ScheduleSwap` every action, time included, is the event loop's: `WF_vars(Next)`.
`TagPath` has weak fairness per arrival, per queue and per receiving host.  For arrivals
and receivers this is the event loop; for queues it also says that no gate stays closed for
ever and that more urgent traffic ends, which is so because the number of frames is bounded.

## 5. Refinements

* `RunsItsProgram`: the ticks, index and subscription of `GateController`
  implement `CyclicGates` with `position` = start of the current entry + time
  since the last change.  The claim of the abstract specification is that time passes *only* under
  the gates that the program prescribes, and a program is replaced only between
  cycles.
* `ServesAtomically`: the queuing network implements `PortService`, in which a
  packet leaves its queue in the step that chooses it, and the choice obeys strict
  priority among the gates ready *at that moment*.  The code chooses at the
  transmission selection and dequeues three events later, so the mapping lets
  the packet go when the queue gives it up; the refinement says the choice has
  not aged by then.
* `RunsItsTimetable`: a generator that sleeps for the *difference* of two entries'
  times, computed in unsigned integers, and once more for the rest of the cycle,
  implements a timetable of absolute times with `position` = time of the next entry (or the
  cycle) minus the time still to sleep.  In `swap` the replacement of the schedule comes from
  `ScheduleSwap`, at any tick.
* `NotifiesOnTime`: the list of relative countdowns implements a set of
  absolute instants.

## 6. Disagreements between code and its own statements

Each of these runs checks one sentence of the code and TLC finds it violated.

| Run | Statement | What the code does |
|---|---|---|
| `mac_lost_express` | "frames are just simply queued up and sent out one by one" (`EtherMACFullDuplexPreemptable.h:36`) | A second express frame that arrives while the checksum of a cut-off fragment is sent overwrites `currentExpressFrame` (`.cc:215`); the first is never sent.  It also restarts the checksum (`.cc:502`), so express frames that keep coming put the end of the fragment off. |
| `cbs_gate_closes` | `assert(transmissionGate->isGateOpen())` (`CreditBasedShaper.cc:248`) | The gate's flag changes at once, the shaper hears of it by an event.  If the credit reaches zero at that instant the timer is handled in between and the assertion fails. |
| `port_swap_wakeup` | "Notify transmission-selection if packet has become ready for transmission" (`TransmissionGate.cc:108`) | A schedule that is loaded can lengthen the window at the end of the cycle; a packet becomes ready and nobody is notified. |

Further configurations reproduce smaller observations.  They are run by hand
and TLC reports a violation for each:

| Configuration, module | Property | Observation |
|---|---|---|
| `gc_first_entry`, `MCGateController` | `FirstEntryIsHeld` | `initialize` decides on the first hold from the schedule that is still empty (`GateController.cc:80`). |
| `gc_empty`, `MCGateController` | `EmptyScheduleOpensAllGates` | With length-aware scheduling the lookahead takes a remainder by zero on an empty schedule (`GateController.cc:211`). |
| `port_mtu`, `MCEgressPort` | `EveryPacketIsFine` | A gate asks for packets of at most 1500 bytes including headers: a longer one blocks its queue (`TransmissionGate.h:69`). |
| `port_short_frame`, `MCEgressPort` | `GuardBand` | The guard band does not count padding: 240 bits of headers are added to a packet (`LengthAwareQueue.cc:124`), and the MAC pads what is shorter than the minimal frame. |
| `port_swap_guard`, `MCEgressPort` | `GuardBand` | A packet is granted the end of the cycle and the beginning of the next one, then a schedule is loaded that begins with the gate closed: the lookahead cannot know (`GateController.cc:303`). |
| `cbs_small_slope`, `CreditBasedShaper` | `SendingIsSound` | With an idle slope of a quarter the truncated credit counts as paid before the timer ends (`CreditBasedShaper.cc:211`). |
| `mac_dangling`, `PreemptableMac` | `RecheckPointerIsValid` | The pointer to a deleted recheck message is used (`.cc:203-205`).  The model goes on as if it read as unscheduled. |
| `mac_short_window`, `PreemptableMac` | `AssertionsHold` | `release` while a preemptable frame is still under way (`.cc:336`). |
| `mac_hold_advance`, `PreemptableMac` | `ExpressCanFlow` | `getHoldAdvance` sums up bits and bytes (`.cc:681`), so the hold comes too late. |
| `relay_swap`, `MCRelay` | `MovesAway` | A swap forgets learned entries (`FilteringDatabase.cc:199`); a neighbour that still knows the host sends a frame that comes back. |
| `relay_mixed`, `MCRelay` | `DeliveredOnce` | A flooding switch sends a frame on to a forwarding one that has located the destination behind the port of arrival; it sends the frame back (`ForwardingRelayUnit.cc:104` does not compare the ports), and the host gets it twice. |
| `relay_overtake`, `MCRelay` | `DeliveredOnce` | A low-priority frame from `a` to `b` is flooded; an answer of `b` to others, of high priority, overtakes its copy in the queues of the port between the switches and teaches the next one where `b` is.  That one sends the copy back, the first switch learns `a` at the wrong port, and `b` gets the frame again. |
| `swap_together`, `MCScheduleSwap` | `ChangesTogether` | Host and switch follow the same list, but which of them is called before its `ScheduleSwap` depends on the order of subscription: one changes a cycle later. |
| `swap_phase`, `MCScheduleSwap` | `EventuallyInPhase` | If the new configuration has another cycle, the cycles of host and switch may begin at different instants for ever. |
| `tags_sink`, `MCTagPath` | `NeverStalls` | A port without preemption connects only the express output of its transmission selection; the other ends in a sink (`VlanEthernetInterfaceSwitch.ned`).  A queue that is not marked express then takes the MAC's request with it, and the port stops. |

These are also the assumptions of the passing runs: schedules with entries
(but the first one in `gc`), packets within the MTU, slopes of one half, express windows longer than
a preemptable frame, and for relays `WaysStayKnown` and `KeepsOrder` (section 7.1).

Noticed while reading, without a run:

* `VLANEncap` reads `tagUntaggedFrames` (`VLANEncap.cc:30`) and never uses it,
  although `VLANEncap.ned:39` describes it.  `TagPath` follows the code.
* `FrameForward.lowerLayerInP`, the decapsulation of the preemptable `VLANEncap` and its
  `pvid` are never used: the MAC passes every frame it has received to its express output.
* A priority of 8 passes the check in `QueuingFrames.cc:68` and would be read behind the
  PCP table; generators send 0 to 7.
* A swap that names a routing but no schedule is ignored as a whole: the device loads
  nothing (`Loads` in `ScheduleSwap`).
* An empty schedule that waits when a hold is decided is read at its entry 0 (`GateController.cc:175`).
* A host schedule with a cycle of 0 and no entries would tick for ever at one instant; it needs a cycle in
  the XML, which `HostSchedules` requires to be positive.
* `EtherTrafGenQueue::pop`, `unsubscribeTicks` and ageing are not reached by any code.

## 7. Proofs

### 7.1 What is proved

Every module of proofs `EXTENDS` the module it speaks of.  "Any" below means: for every
value of the constants that satisfies the named `ASSUME`s of the modules, which TLC
evaluates in the runs.  What a theorem asks for beyond that is in its `ASSUME` or
antecedent, and in the third column.

| Module | Theorems | For any ..., provided that ... |
|---|---|---|
| `EgressPortProofs` | `TypeCorrect`, `RequestChainIntegrity` (`NoAssertionFails`), `PortServesAtomically` (`Spec => ServesAtomically`), `BuffersAreAccounted`; `GuardBandHolds` (`GuardBand`), `PortConservesWork` (`WorkConserving`) | gates, express gates, schedules and swaps, packet lengths, capacity, MTU, clock rate. `GuardBandHolds`: length-aware scheduling, no swaps, no packet that the MAC pads beyond its length and the headers; `port_swap_guard` and `port_short_frame` violate it otherwise. `PortConservesWork`: no swaps under length-aware scheduling; `port_swap_wakeup` violates it otherwise |
| `GateControllerProofs` | `ControllerIsConsistent`; `ControllerRunsItsProgram` (`RunsItsProgram`); `LookaheadIsTheWindow` (`MaxBitIsWindow`); `HoldsAreConsistent`; `HeldForExpressOnly` (`HoldOnlyForExpressWindow`); `ExpressFindsHold` (`HeldBeforeExpressWindow`) | schedules, swaps at any time, clock rate, hold advance. The second: length-aware controllers get no empty schedule. The third: no empty schedule is swapped in (`gc_empty` shows what happens otherwise). The last three: the hold advance is positive, as `getHoldAdvance` returns a positive constant, and under hold and release no empty schedule is swapped in (its first entry is read unasked, `GateController.cc:175`); the last one is about ports with hold and release |
| `ClockProofs` | `ClockIsConsistent`, `TheFrontEntryIsDue` (`DueTickIsFront`), `CountdownsAgreeWithInstants` (`CountdownsAgree`), `ClockNotifiesOnTime` (`NotifiesOnTime`), `SubscriptionsAreExact` (`SubscribesTheRightTick`) | listeners, numbers of ticks, clock rate, horizon |
| `ShaperProofs` | `ShaperIsConsistent`, `CreditIsExactAlways`, `DebtIsAlwaysBounded`, `NoWakeUpIsLost` (`WorkConserving`), `SendingIsAlwaysSound` (`SendingIsSound`) | slopes, packets, gate times. The last one: `GapCoversABit`, the class earns the worth of a bit in an interframe gap; with 96 bits of gap that is an idle slope of at least 1/97 of the link. `cbs_small_slope` violates it |
| `MacProofs` | `MacConsistency`, `AssertionsNeverFail` (`AssertionsHold`), `PreemptableFramesAreComplete` (`PreemptableIsComplete`), `FragmentsStayLegal` (`FragmentsAreLegal`), `HoldsKeepBack` (`HoldKeepsBack`), `ExpressWaitBound` (`ExpressWaitIsBounded`) | lengths of frames, fragments, gap, preamble and windows, with and without hold and release. All: `HoldOutlastsFrames`, the hold advance and the express window together are longer than any preemptable frame; `mac_short_window` violates it |
| `RelayProofs` | `NetworkIsConsistent`, `EntriesAlwaysLead` (`EntriesLeadToHosts`), `FramesMoveAway` (`MovesAway`), `NothingComesTwice` (`DeliveredOnce`), `GroupIsAlwaysKnown` (`GroupIsKnown`) | trees of switches, databases, swaps, floods, priorities and queues, losses, numbers of frames, provided that every configuration `HasRightDatabases`, `WaysStayKnown` and `KeepsOrder` (below) |
| `SwapProofs` | `NetworkIsConsistent`, `PartsChangeWithinACycle` (`ChangesWithinACycle`), `GeneratorRunsItsTimetable` (`RunsItsTimetable`), `PartsStayInPhase` (`StaysInPhase`) | plans with any number of swaps, orders of listeners, ordered host schedules, `UnsignedRange` |
| `TagPathProofs` | `PathIsConsistent`, `TagsAreKept` (`TagIsKept`), `QueuesFollowUrgency` (`LaterQueuesAreMoreUrgent`), `PrioritiesArriveInOrder` (`InOrderPerPriority`) | paths with any number of switches, queues, bounds and kinds of ports, tags, numbers of frames |

The hypotheses are satisfied by the configurations of the passing runs: `MCRelay` states
those of the relays as an assumption, and `relay_swap`, `relay_mixed` (`WaysStayKnown`) and
`relay_overtake` (`KeepsOrder`) violate them and, in TLC, the properties.  Only `gc` is wider than its theorem asks: it
begins with a first schedule that may be empty, which `LookaheadIsTheWindow` allows as well.

The code guarantees neither of the two conditions on relays; they say for which networks its relay works.

* `WaysStayKnown`: a forwarding switch that sees two hosts behind a port has a forwarding neighbour
  there that does not forget them.
* `KeepsOrder`: take a port behind which a forwarding switch sees both the source and the destination of a
  stream.  Frames of the stream come by it only as copies of floods, and if the destination
  answered before they came, they would be sent back (`ForwardingRelayUnit.cc:104`).  So they must not
  be overtaken by the destination's own unicast frames, which come by the same port: the sender
  there has one queue for both, or the databases of that switch always name the destination.  It
  holds in a network whose unicast traffic is of one class, in one whose databases name all hosts,
  and whenever the unicast frames to and from the hosts that may be unknown share a class.  Databases
  that name only some of the hosts at each switch, as in
  `src/simulations/examples/xml/TestScenarioRouting1.xml`, with traffic of several classes between
  the others need not satisfy it.

### 7.2 The arguments

**Gate controller.**  `ControllerInv`: while a schedule is in force, the time since the last
change and the time to the next tick add up to the length of the entry *before* the index,
the gates are that entry's, and a controller that has nothing to do has no subscription
(`EntryInv`, `IdleInv`).  With a position counted as the start of the entry plus the time
since the last change a tick then is the abstract program's wrap-around or nothing.

`MaxBit` is harder: the code's loop walks entries, wraps around by a remainder, may go on in
the *waiting* schedule, and stops at the MTU; `WindowLeft` counts single units of time.
`SumsAreLookahead` says that the sums of the loop (`LookaheadBits`) increase by the lengths
of the entries; `MaxBitStops` where the loop stops; `LookaheadReach` which unit of time
belongs to which entry, also beyond the end of the cycle.  `LoopIsWindow` puts the two
together: no unit before the stop is closed, and the unit at the stop is, or the MTU is
reached.  What remains is the part of a tick that has passed, less than `ClockRate`.

**Requests of the port.**  `NoAssertionFails` is not inductive: it says nothing of a request
that has been chosen but has not arrived.  `ProtocolInv == TypeInv /\ Protocol` says where
the only request or packet is:

| Stage | Meaning |
|---|---|
| `Asked` | the MAC is idle and has asked, the transmission selection has not taken its turn |
| `Waiting` | it had its turn, no gate was ready; a notification will wake it up |
| `Climbing(g)` | gate `g` was chosen; its request is at the gate, the TSA or the queue; the gate still has a packet; no tick or hold is due (`ControllerQuiet`) |
| `Descending(packet)` | the packet is between queue and transmission selection |
| `Delivered(packet)` | it is between transmission selection and MAC |
| `Busy` | the MAC sends or waits for the gap, and has not asked again |

The stages follow one another in that order.  The hard part is `Climbing`: why can the chosen
gate not become empty on the way?  The selection took its turn when all of
priority 0 was quiet, so no tick or hold is due; time does not pass while events are due;
packets only join the *end* of queues, and what a gate may send depends only on
the controller's state and the *first* packet (`StaysReady`); swaps happen on ticks.
`ReadyGate` supplies the numbers: a ready gate has a packet whose length is
natural, so its request differs from "no request".  `KeepsStage` carries a
stage over any step that leaves the chain alone; there is one lemma per kind of
event (`GateEventProtocol`, `PacketEventProtocol`, `SelectionEventProtocol`,
`ArriveProtocol`) and `StepProtocol` puts them together.

**Atomic service.**  The refinement adds `OnWire` (a frame is on the wire exactly while
the MAC transmits).  `StagesServe` computes the abstract port's variables from the stage:
`Climbing(g)` means that `g`'s head is already taken.  So the turn of the selection is the
abstract choice, the end of the transmission its completion, an arrival an arrival, and all
other steps stutter.  At the turn the preferred gate of the code is the abstract one because
`GateIsEmpty` is read from the same state.

**Buffers.**  `BufferAccounting` adds up a queue with the recursive function `Total`;
`SumExists` proves once that such a function exists and satisfies its equation, and
`Total` of an appended or shortened queue follows.

**Holds.**  A hold is decided at a tick for the entry after the one that begins, and takes effect
one hold advance before that entry.  `HoldsInv` relates the three moments through `foreseen`, the
schedule that waited at the deciding tick: every scheduled request `t` satisfies
`untilTick = t + HoldAdvance` (`RequestInv`), so none is left when the tick comes; if an express
window was to follow, the hold is in force or its request is scheduled (`AdvanceInv`); a hold
outside express windows is one for the window that was to follow.  `OpensWhatFollows`: the tick
opens the foreseen entry, unless a schedule came in between.  `NoHoldsInv` is needed for the
first, possibly empty schedule, after which nothing would release the MAC.  With a hold advance of
zero the tick may precede its own request, and TLC finds `HeldBeforeExpressWindow` violated.

**Guard band and wake-ups.**  The loop of `calculateMaxBit` sums up entries from the one in force; the
theorems need what that sum promises about a time at which the controller is in another entry,
or another cycle.  `StaysOpen(s, i, g, end)` says it without the loop: every entry that begins
before `end` has passed since entry `i` began opens gate `g`.  Entries are counted on over the end of the cycle
(`Begins`, `OpensAt`), which takes a little arithmetic of remainders (`Division`,
`DivisionIsUnique`, `IndexWraps`).  `LookaheadFits` is the key: a packet is granted its bits *if and only
if* they are within the MTU and `StaysOpen` for that long, from the last tick of the clock.  `NextEntry` and
`EntryBefore` carry the promise over a tick in both directions.

`GuardInv` follows the promise from the queue to the wire: the packets between two modules
and the frame on the wire are `Guarded`, for the time they have left and less the part of a
clock tick by which `getTime` lags behind (`ClockLags`).  Time takes off at one end what it
adds at the other, a tick changes nothing (`GuardLasts`), so a gate that is closed leaves a
frame less than one tick.

For the wake-ups the other direction counts.  `WakeUpInv`: if the transmission selection waits,
every gate that may send (`MaySend`) has a notification under way.  `MaySend` is what `isEmpty`
answers between ticks (`ReadyMaySend`), but it also makes sense when a tick is due.  It does not become true
while time passes, because the clock only goes on (`ClockGoesOn`, `MaySendAfterElapse`), and
over a tick only for a gate that opens, because an entry ends with a tick of the clock
(`ClockTicksAtEnds`, `MaySendAfterTick`).  `StartInv` covers the instant before the first tick, when there is
no schedule to look ahead in, and excludes a waiting schedule under length-aware scheduling.

**Clock.**  `ClockInv`: the list is sorted, each entry's instant is the base's instant plus its
countdown in ticks, no listener is in one entry twice, and whoever is still to be notified of
this instant does not wait for it in the list.  Bringing the countdowns up to date moves the
base and all countdowns by the same number of ticks.

**Shaper.**  `ShaperInv` ties the state to the timers and to the MAC (`TimersInv`), says who
will still make the selection try again (`WakeUpInv`), and that the credit is what an
ideal clock shows.  Soundness of sending needs one more, `GapInv`, and with it
`GapCoversABit`: the truncation in `isCreditPositive` lets a class send that owes less than a bit;
it must have earned that in the gap, before its timer ends.

**Preemptable MAC.**  `MacInv` names the stage of the MAC (`Idle`, `InGap`, `SendsExpress`,
`SendsPart`).  The hard one is `SendsPart`: three parties cut a part, an express frame, a recheck and a
hold, each of which decided at an instant before, from a frame that may have been cut, continued
or ended since.  `CutAfter` says that a part which has been cut was long enough and leaves enough,
`AwaitsCut` that a recheck or a planned preemption comes when the part is just long enough
(`CutsLater`, `CutIsDue`) and that what is left then may be cut off; `CutsShorten` that cutting
never makes a part end later, for which a checksum must fit into a preamble.
`KeptInv` says why an idle MAC may keep the rest of a frame, `HoldInv` that a part still
under way on hold ends before the release, which is where `HoldOutlastsFrames` comes in.

`WaitInv` explains the bound: an express frame that waits for a part has just come, or is being
requested, or a recheck will request it, or the part ends soon enough and nothing will make that
end later (`EndIsSettled`).  `TooShortToCut` is the worst case: a part that cannot be cut
now nor later is through in less than the time of `MinNonFinal + MinFinal + Checksum + Preamble` bytes.

**Relay.**  Why does a located frame never turn around?  It was flooded by a switch that did
not know its destination.  `StrayIsFlooded` says of a frame that goes where its
destination is *not*: the switch it comes to does not know the destination, and no frame
before it on the link teaches it.  Frames of its destination that come later are behind it in the same
queue (`StrayIsNotOvertaken`, from `KeepsOrder`), and only a frame that is the first of its queue
arrives, so the destination is still unknown then.  `NextKnows` that a switch knows no host behind a port which the
next switch there does not know.  `CopiesAreApart` says that two copies of a flood cover different
hosts, hence `DeliveredOnce`.

**Swaps.**  `GatesUpToDate`, `HostUpToDate` and `DatabaseUpToDate`: a part either runs what its
`ScheduleSwap` gave it last, or that waits, and the time since it was given is at most what has passed of
the part's cycle (plus one cycle for a tick in which the listener came first).  `PhaseInv`
lets positions differ by whole cycles only, since within an instant one part may have
begun its cycle and another not.

**Tags.**  `PlaceInv` says what a frame carries at every place, computed from what its sender
promised (`Promised`); its priority then decides queue and lane at every hop alike.  Two
frames of one priority therefore meet only in first-in-first-out lines: within one the earlier is
ahead (`LinesInv`), between two places the earlier has come farther (`OrderInv`).  A frame that is
dropped or overwritten leaves the others in their order (`DropStep`, `PlacedLine`).

### 7.3 What induction there is

The provers cannot instantiate the library's induction theorems, so two principles were
derived from a statement of it without an operator parameter, that strict inclusion is
well-founded among finite sets: `LeastElement` (a non-empty set of natural numbers has a
least element) and from it `SumExists` (a sum defined by recursion over 0 .. n exists and obeys its
equation).  The facts about lengths of schedules, lookahead sums and queue totals rest on
them; each proof takes the least index for which the claim fails.

### 7.4 What is only model-checked

* Liveness (`WaitingScheduleIsLoaded`, `EventuallyDrained`, `EventuallyDelivered`, `EventuallyReceived`,
  `EventuallyAgree`, `EventuallyArrives`) and everything with ENABLED: out of the prover's reach.

Every other property of the passing runs is stated by a theorem.

No module has a RECURSIVE operator (schedules are walked with recursive functions and folds), so
that the prover can be used on all of them.

## 8. Not modelled, and why

* The shaper in the full chain of `Queuing`, in place of the one-step request: in the plan.
* The drop of a preemptable frame on a plain port is in `TagPath`; the rest of the NED files
  is wiring, of which the models take what they need (one clock per switch,
  which gate leads where) as constants.
* What decides when INET's `EtherTrafGen` begins a burst: a burst may begin at any time.
* Fields of `PreemptedFrame` other than the frame and its bytes, requests of INET that
  `VLANEncap` passes on, payload sizes.
* XML parsing, statistics, display strings, and INET itself.
* `unsubscribeTicks` and ageing of database entries: no code path reaches them.

## 9. Plan

Done, in this order: gate schedule and controller; queuing network and egress
port; atomic service; clock; shaper; preemptable MAC; relay; type correctness and
request integrity of the port; flooding relay; traffic generator and its timetable;
schedule swap with its list, in a network; tags along a path.

Next, for the model: a port with the credit-based shaper in the full chain of
`Queuing`, in place of the one-step request.

Proved, in this order: clock and its notification; shaper; tags; gate controller, its program and
its lookahead; relay; generator and swaps; atomic service and buffers of the port; preemptable MAC;
guard band and wake-ups of the port; holds of the gate controller.

Next, for the proofs: the shaper in the chain of `Queuing`, once it is modelled there.
